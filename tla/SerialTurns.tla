---------------------------- MODULE SerialTurns ----------------------------
(***************************************************************************)
(* What the scheduler promises to the code that runs inside a turn: of the *)
(* users of a session at most one is inside at any time, nobody is inside  *)
(* twice, and some may be dropped without ever getting in.                 *)
(***************************************************************************)
CONSTANTS Users, Session

VARIABLE phase

Init == phase = [u \in Users |-> "outside"]

Move(u, from, to) ==
    /\ phase[u] = from
    /\ phase' = [phase EXCEPT ![u] = to]

Enter(u) ==
    /\ \A v \in Users : Session[v] = Session[u] => phase[v] # "inside"
    /\ Move(u, "outside", "inside")

Leave(u) == Move(u, "inside", "over")

Drop(u) == Move(u, "outside", "over")

Next == \E u \in Users : Enter(u) \/ Leave(u) \/ Drop(u)

Spec == Init /\ [][Next]_phase
=============================================================================
