-------------------------- MODULE MCConversation --------------------------
(* A conversation alone, with one /compress and a goal to be checked.      *)
EXTENDS Conversation, TLC

MCCommands == {[e \in Events |-> IF e \in {"compress", "plan"} THEN 1 ELSE 0]}
===========================================================================
