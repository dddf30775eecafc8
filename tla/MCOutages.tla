----------------------------- MODULE MCOutages -----------------------------
(* Small instances of what has to outlast an end: of the daemon and of     *)
(* cores (Checkpoints), of a worker and of its connections (RemoteLink).   *)
(* The two share no state; a behaviour moves one of them, and of the link  *)
(* either the command with two openings or the transfers with one.         *)
EXTENDS RemoteLink, Checkpoints, TLC

CONSTANTS s1, s2, e1, u1, u2, r1, push, pull

MCSessions == {s1, s2}
Interchangeable == Permutations(MCSessions)

VARIABLE moves \* what this behaviour moves

\* The state is large, so a step stays within: an expiry or a death of the worker, which
\* has a third connection only after its death; a second turn only before the clock goes on.
OneMishap == deaths' + expiries' <= 1 /\ made' <= 2 + deaths'
SecondTurnAtOnce == \A s \in Sessions : core'[s].on /\ core'[s].turn = 2 => now' = 0

OutagesInit == Init /\ InitCheckpoints /\ moves \in {"daemon", "commands", "transfers"}
OutagesNext ==
    /\ UNCHANGED moves
    /\ \/ moves = "commands" /\ Next /\ OneMishap /\ (\A k \in Pushes \cup Pulls : pc'[k] = "idle")
          /\ UNCHANGED checkpoints
       \/ moves = "transfers" /\ Next /\ OneMishap /\ (\A k \in Execs \cup {u2} : pc'[k] = "idle")
          /\ UNCHANGED checkpoints
       \/ moves = "daemon" /\ NextCheckpoints /\ SecondTurnAtOnce /\ UNCHANGED vars
OutagesSpec == OutagesInit /\ [][OutagesNext]_<<vars, checkpoints, moves>>
=============================================================================
