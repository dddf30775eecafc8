------------------------------- MODULE KeyPool -------------------------------
(***************************************************************************)
(* The User-Api-Keys of the forum front end: ShuiyuanClientPool            *)
(* (frontend/shuiyuan_integration/client.py). A request takes the next key *)
(* in turn that is not blocked, and may go on to others. The rounds of the *)
(* connector and the threads in which its reply tasks read their posts     *)
(* share one pool without a lock. A choice of a key is one step. The forum *)
(* is external; the file that keeps the pool's state over a restart, which *)
(* the pools of single replies write as well, is left out.                 *)
(***************************************************************************)
EXTENDS Naturals, FiniteSets

CONSTANTS
    LastKey,    \* the keys are numbered from 0
    Asks,       \* requests
    Readings,   \* those that read a post; the others go through _call
    MaxLimits   \* bound: how often a key reaches the limit of its day

Keys == 0..LastKey

ASSUME KeyPoolAssumption ==
    LastKey \in Nat /\ MaxLimits \in Nat /\ Readings \subseteq Asks

VARIABLES
    readers,   \* the keys that may read the posts
    spent,     \* the keys whose day's limit the forum says is reached
    limits,    \* how often that happened
    current,   \* _current_index
    blocked,   \* the keys whose _blocked_until is in the future
    asking,    \* where a request stands
    key,       \* the key it uses
    tried,     \* the keys it has used
    barred,    \* history: keys that were blocked when it chose
    disturbed  \* history: requests between whose choices another one chose

forumSide == <<readers, spent, limits>>
askSide == <<asking, key, tried, barred, disturbed>>
keyring == <<forumSide, current, blocked, askSide>>

Active == {a \in Asks : asking[a] \in {"choosing", "using"}}
AskGoes(a, s) == asking' = [asking EXCEPT ![a] = s]

InitKeys ==
    /\ readers \in SUBSET Keys /\ spent = {} /\ limits = 0
    /\ current = 0 /\ blocked = {}
    /\ asking = [a \in Asks |-> "new"] /\ key = [a \in Asks |-> 0]
    /\ tried = [a \in Asks |-> {}] /\ barred = [a \in Asks |-> {}] /\ disturbed = {}

-----------------------------------------------------------------------------
(* The forum and the clock *)

ReachLimit(k) ==
    /\ limits < MaxLimits /\ k \notin spent
    /\ limits' = limits + 1 /\ spent' = spent \cup {k}
    /\ UNCHANGED <<readers, current, blocked, askSide>>

NewDay(k) ==
    /\ k \in spent /\ spent' = spent \ {k}
    /\ UNCHANGED <<readers, limits, current, blocked, askSide>>

\* The time of a block runs out.
BlockEnds(k) ==
    /\ k \in blocked /\ blocked' = blocked \ {k}
    /\ UNCHANGED <<forumSide, current, askSide>>

-----------------------------------------------------------------------------
(* The pool *)

Begins(a) ==
    /\ asking[a] = "new" /\ AskGoes(a, "choosing")
    /\ UNCHANGED <<forumSide, current, blocked, key, tried, barred, disturbed>>

\* _select_key: from the key used last, by whatever request, to the next free one.
\* (Slip: the first free one.)
FirstFree == CHOOSE k \in Keys \ blocked : \A j \in Keys \ blocked : k <= j
NextFree ==
    LET distance(k) == (k + LastKey - current) % (LastKey + 1) IN
    CHOOSE k \in Keys \ blocked : \A j \in Keys \ blocked : distance(k) <= distance(j)

\* The loops of _call and get_post_with_read_fallback end at a key that was used before.
Choose(a) ==
    /\ asking[a] = "choosing" /\ tried[a] # Keys /\ blocked # Keys
    /\ current' = NextFree
    /\ key' = [key EXCEPT ![a] = NextFree]
    /\ AskGoes(a, IF NextFree \in tried[a] THEN "refused" ELSE "using")
    /\ tried' = [tried EXCEPT ![a] = @ \cup {NextFree}]
    /\ barred' = [barred EXCEPT ![a] = @ \cup blocked]
    /\ disturbed' = disturbed \cup (Active \ {a})
    /\ UNCHANGED <<forumSide, blocked>>

\* All keys are used.
Exhaust(a) ==
    /\ asking[a] = "choosing" /\ tried[a] = Keys /\ AskGoes(a, "refused")
    /\ UNCHANGED <<forumSide, current, blocked, key, tried, barred, disturbed>>

\* _try_recover_stale_key_lockouts: with all keys blocked each is probed, unless that was
\* done just now.  With none free the request fails.
Probe(a) ==
    /\ asking[a] = "choosing" /\ tried[a] # Keys /\ blocked = Keys
    /\ \/ /\ blocked' \in SUBSET Keys \ {Keys} /\ spent \subseteq blocked'
          /\ UNCHANGED asking
       \/ AskGoes(a, "failed") /\ UNCHANGED blocked
    /\ UNCHANGED <<forumSide, current, key, tried, barred, disturbed>>

\* The pool's get_post_with_read_fallback goes on to the next key if this one may not read
\* the post; a limit is an error like any other.
ReadAnswered(a) ==
    /\ a \in Readings /\ asking[a] = "using"
    /\ \/ key[a] \notin spent /\ AskGoes(a, IF key[a] \in readers THEN "done" ELSE "choosing")
       \/ AskGoes(a, "failed")
    /\ UNCHANGED <<forumSide, current, blocked, key, tried, barred, disturbed>>

\* _call goes on to the next key if this one has reached its limit.
CallAnswered(a) ==
    /\ a \notin Readings /\ asking[a] = "using"
    /\ \/ key[a] \in spent /\ AskGoes(a, "choosing") /\ blocked' = blocked \cup {key[a]}
       \/ key[a] \notin spent /\ AskGoes(a, "done") /\ UNCHANGED blocked
       \/ AskGoes(a, "failed") /\ UNCHANGED blocked
    /\ UNCHANGED <<forumSide, current, key, tried, barred, disturbed>>

-----------------------------------------------------------------------------
AskStep(a) == Choose(a) \/ Exhaust(a) \/ Probe(a) \/ ReadAnswered(a) \/ CallAnswered(a)

NextKeys ==
    \/ \E k \in Keys : ReachLimit(k) \/ NewDay(k) \/ BlockEnds(k)
    \/ \E a \in Asks : Begins(a) \/ AskStep(a)

KeysSpec == InitKeys /\ [][NextKeys]_keyring

FairKeys == \A a \in Asks : WF_keyring(AskStep(a))

-----------------------------------------------------------------------------
(* Properties *)

\* Types.
KeyPoolTypeOK ==
    /\ readers \subseteq Keys /\ spent \subseteq Keys /\ limits \in 0..MaxLimits
    /\ current \in Keys /\ blocked \subseteq Keys
    /\ asking \in [Asks -> {"new", "choosing", "using", "done", "refused", "failed"}]
    /\ key \in [Asks -> Keys] /\ tried \in [Asks -> SUBSET Keys]
    /\ barred \in [Asks -> SUBSET Keys] /\ disturbed \subseteq Asks

\* A request is refused only when it has used every key that was not blocked - unless
\* another request chose a key between two of its choices, which can make it meet one of
\* its own again too early.
KeysTried ==
    \A a \in Asks \ disturbed : asking[a] = "refused" => Keys \subseteq tried[a] \cup barred[a]

\* "Tries one key after the other until one can read the post or all have failed"
\* (get_post_with_read_fallback), without the exception.
EveryKeyTried ==
    \A a \in Readings : asking[a] = "refused" => Keys \subseteq tried[a] \cup barred[a]
==============================================================================
