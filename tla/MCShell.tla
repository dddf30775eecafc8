------------------------------ MODULE MCShell ------------------------------
(* The shell alone, with two commands, of which the second may time out.   *)
EXTENDS Shell, TLC

CONSTANTS one, two

MCDoes == [c \in {one, two} |-> "export"]
=============================================================================
