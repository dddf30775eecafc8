------------------------------- MODULE MCCores -------------------------------
(* Small instances of a session's core: how calls load, use and evict it     *)
(* (CorePool), and the turns of its conversation (Conversation). The two     *)
(* share no state; a behaviour moves one of them.                            *)
EXTENDS CorePool, Conversation, TLC

CONSTANTS s1, s2,       \* sessions
          t1, t2,       \* turns of s1 and s2
          g1,           \* a gateway call for s1
          e1            \* an ender of s1

MCSession == [x \in Users \cup Enders |-> IF x = t2 THEN s2 ELSE s1]

\* What may come together: the commands that change the messages between turns or
\* under them, what activates goals, and what decides what a restart finds; or nothing,
\* when the pool is to move.
Once(happening) == [e \in Events |-> IF e \in happening THEN 1 ELSE 0]
MCScenarios == {Once(happening) : happening \in
    {{"clear", "compress"}, {"compress", "notice"}, {"goal", "plan"}, {"plan", "crash"},
     {"row", "crash"}, {}}}

VARIABLE moves \* the part that this behaviour moves

CoresInit ==
    /\ Init /\ InitConversation
    /\ moves = IF left = Once({}) THEN "pool" ELSE "turns"
CoresNext ==
    /\ UNCHANGED moves
    /\ \/ moves = "pool" /\ Next /\ UNCHANGED conversation
       \/ moves = "turns" /\ NextConversation /\ UNCHANGED vars
CoresSpec ==
    /\ CoresInit /\ [][CoresNext]_<<vars, conversation, moves>>
    /\ FairPool /\ FairConversation

\* Nobody waits for ever: not for a lock of the pool, a load or an eviction, and every
\* turn ends, however the model and the tools answer.
CoresEnd == <>[](NobodyAcquires /\ turnAt = "idle")
=============================================================================
