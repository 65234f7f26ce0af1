------------------------------ MODULE MCShell ------------------------------
(* The command lines of the run of Shell *)
EXTENDS Shell

MCLines == {
  <<"#">>, <<";">>,
  <<"echo", "|", "cat", "|", "cat">>,
  <<"cat", "<", "motd", "|", "cat", ">", "out">>,
  <<"echo", ">", "out", "|", "cat">>,
  <<"cat", "|", "cat", "motd", "nosuch">>,
  <<"nosuch", "|", "cat">>,
  <<"echo", "|", "nosuch">>,
  <<"echo", "|", "cat", "<", "nosuch">>,
  <<"echo", "|", ">">>,
  <<"echo", "|", "echo", "a", "b", "c">>,
  <<"|", "cat">>,
  <<"echo", ";", "cat", "&">>}
=============================================================================
