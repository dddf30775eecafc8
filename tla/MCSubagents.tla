---------------------------- MODULE MCSubagents ----------------------------
(* Small instances of Subagents for TLC.                                     *)
EXTENDS Subagents, TLC

CONSTANTS s1, s2,       \* subagents
          u1, u2        \* turns of the parent's user

MCSymmetry == Permutations(Subs)
=============================================================================
