------------------------------ MODULE MCFronts ------------------------------
(* Small instances of the front ends: what clients and the Feishu forwarder  *)
(* get through the gateway (Gateway), the forum connector (Forum) and its    *)
(* keys (KeyPool). The three share no state; a behaviour moves one of them.  *)
EXTENDS Gateway, Forum, KeyPool, TLC

CONSTANTS t1, t2, t3, i1, i2, s1, s2, web, feishu,
          mentions, own, reading, listing

MCClientOf == [t \in Turns |-> IF t = t3 THEN feishu ELSE web]
MCWantOf == [r \in Requests |-> IF r = t2 THEN s2 ELSE s1]

\* Other users' mentions, and the owner's own posts.
MCFeedsOf == <<{mentions}, {own}, {mentions, own}>>

VARIABLE moves \* the part that this behaviour moves

FrontsInit ==
    /\ Init /\ InitForum /\ InitKeys
    /\ moves \in {"gateway", "forum", "keys"}
    /\ moves # "forum" => ~watch
    /\ moves # "keys" => readers = {}

FrontsNext ==
    /\ UNCHANGED moves
    /\ \/ moves = "gateway" /\ Next /\ UNCHANGED <<forum, keyring>>
       \/ moves = "forum" /\ NextForum /\ UNCHANGED <<vars, keyring>>
       \/ moves = "keys" /\ NextKeys /\ UNCHANGED <<vars, forum>>

FrontsSpec ==
    /\ FrontsInit /\ [][FrontsNext]_<<vars, forum, keyring, moves>>
    /\ FairGateway /\ FairForum /\ FairKeys

\* Results reach those who stay for them, every reply of the forum comes to its end and
\* gives its slot back, and so does every request to the forum.
FrontsEnd == <>[](Delivered /\ Pending = {} /\ Active = {})
=============================================================================
