-------------------------------- MODULE MCFs --------------------------------
(* Instances of FsBlocks: the files are interchangeable.                     *)
EXTENDS FsBlocks, TLC
Symm == Permutations(FileName)

\* The states that the properties speak of.
Unharmed == strayed = {}

\* A server that runs does not read back what it has written: a cached page stays, and
\* a block that was never cached was never dirty, so its words on the disk are zero.
\* States that differ only in what has reached the disk, or has to, go on alike.
Written == {"dirty", "disk", "disk_bitmap", "disk_files"}
Seen == <<[x \in (DOMAIN fs) \ Written |-> fs[x]], strayed>>
=============================================================================
