------------------------------ MODULE MCKeyPool ------------------------------
(* The keys alone, with two reply tasks that read their posts.               *)
EXTENDS KeyPool, TLC

CONSTANTS one, two
=============================================================================
