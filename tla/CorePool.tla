------------------------------ MODULE CorePool ------------------------------
(***************************************************************************)
(* The pool of agent cores (src/system/kernel/core_pool.py): loading a     *)
(* session's core on demand under a lock of its own, evicting it when the  *)
(* TTL loop of the scheduler or a command ends it, and emptying the pool   *)
(* when the kernel stops. The core that call u loads is named u, and so is *)
(* the lock that call u creates.                                           *)
(*                                                                         *)
(* The clock is abstracted: is_expired, active goals and deferred wakes    *)
(* decide what scan_expired returns, here any set of pooled sessions. The  *)
(* entries of subagents, their status and zombies are in Subagents.        *)
(***************************************************************************)
EXTENDS Integers, FiniteSets

CONSTANTS
    Sessions,      \* session ids
    Turns,         \* calls of acquire by a kernel turn, one turn each
    Calls,         \* calls of acquire by the gateway, outside the session lock
    Profiled,      \* the calls that bring a profile, or another owner
    Enders,        \* calls of evict by commands (expire, delete, kill)
    Session,       \* the session of each of them
    MaxSessions,   \* _max_sessions
    None           \* no core, no lock, no evictor

Users == Turns \cup Calls
Evictors == {"ttl", "stop"} \cup Enders

ASSUME PoolAssumption ==
    /\ IsFiniteSet(Users)
    /\ Turns \cap Calls = {}
    /\ Profiled \subseteq Users
    /\ Session \in [Users \cup Enders -> Sessions]
    /\ MaxSessions \in Nat
    /\ None \notin Users \cup Evictors
    /\ Enders \cap {"ttl", "stop"} = {}

VARIABLES
    pc,        \* where each call stands
    core,      \* the core a call has got or holds the entry of
    locks,     \* _locks: the load lock of a session
    lockOf,    \* the load lock a call got from _get_lock
    pool,      \* _pool
    fate,      \* what became of each core
    evictor,   \* who took the core out of the pool
    worker,    \* what the kernel's own evictor does: the TTL loop, then stop()
    todo,      \* sessions it has still to evict in this round
    robbed,    \* history: calls whose load lock was deleted while they needed it
    late       \* history: turns that began while their session was in todo

vars == <<pc, core, locks, lockOf, pool, fate, evictor, worker, todo, robbed, late>>

callVars == <<pc, core, lockOf, late>>
evictVars == <<evictor, worker, todo, robbed>>

-----------------------------------------------------------------------------
Waiting == {"waiting"}
Holding == {"loading", "attaching", "updating"}
InTurn == {"inflight", "using"} \cup Waiting \cup Holding

Pooled == {s \in Sessions : pool[s] # None}

\* KernelScheduler._inflight_sessions.
Inflight(s) == \E t \in Turns : Session[t] = s /\ pc[t] \in InTurn

\* The session lock of the scheduler lets one turn of a session into acquire.
SessionFree(t) ==
    \A v \in Turns \ {t} : Session[v] = Session[t] => pc[v] \notin InTurn \ {"inflight"}

\* (Slips: the lock is left before the remote tools are attached, or it is never
\* left when the load fails.)
HeldLockEarly(l) == \E v \in Users : lockOf[v] = l /\ pc[v] \in {"loading", "updating"}
HeldLockForever(l) == \E v \in Users : lockOf[v] = l /\ pc[v] \in Holding \cup {"failed"}
HeldLock(l) == \E v \in Users : lockOf[v] = l /\ pc[v] \in Holding
LineAt(l) == {v \in Users : lockOf[v] = l /\ pc[v] \in Waiting}

Init ==
    /\ pc = [u \in Users |-> "new"]
    /\ core = [u \in Users |-> None]
    /\ locks = [s \in Sessions |-> None]
    /\ lockOf = [u \in Users |-> None]
    /\ pool = [s \in Sessions |-> None]
    /\ fate = [c \in Users |-> "none"]
    /\ evictor = [c \in Users |-> None]
    /\ worker = "idle"
    /\ todo = {}
    /\ robbed = {}
    /\ late = {}

-----------------------------------------------------------------------------
(* acquire *)

\* A turn is dispatched: it counts as in flight and waits for the session lock.
TurnStarts(t) ==
    /\ worker \in {"idle", "ttl"}
    /\ pc[t] = "new"
    /\ pc' = [pc EXCEPT ![t] = "inflight"]
    /\ late' = IF Session[t] \in todo THEN late \cup {t} ELSE late
    /\ UNCHANGED <<core, locks, lockOf, pool, fate, evictVars>>

MayAcquire(u) ==
    \/ u \in Calls /\ pc[u] = "new"
    \/ u \in Turns /\ pc[u] = "inflight" /\ SessionFree(u)

Got(u, c) ==
    /\ pc' = [pc EXCEPT ![u] = "using"]
    /\ core' = [core EXCEPT ![u] = c]

\* What acquire does once it holds the load lock, up to its next await.
UnderLock(u) ==
    LET c == pool[Session[u]] IN
    \/ /\ c # None /\ u \notin Profiled
       /\ Got(u, c)
    \/ /\ c # None /\ u \in Profiled
       /\ pc' = [pc EXCEPT ![u] = "updating"]
       /\ core' = [core EXCEPT ![u] = c]
    \/ /\ c = None
       /\ pc' = [pc EXCEPT ![u] = IF Cardinality(Pooled) >= MaxSessions
                                  THEN "failed" ELSE "loading"]
       /\ UNCHANGED core

\* The core is there and needs no change: returned without the lock.
AcquireFast(u) ==
    /\ MayAcquire(u)
    /\ u \notin Profiled
    /\ pool[Session[u]] # None
    /\ Got(u, pool[Session[u]])
    /\ UNCHANGED <<locks, lockOf, pool, fate, evictVars, late>>

\* _get_lock finds or creates the lock; nobody waits if it is free and has no line.
AcquireSlow(u) ==
    LET s == Session[u]
        l == IF locks[s] # None THEN locks[s] ELSE u IN
    /\ MayAcquire(u)
    /\ u \in Profiled \/ pool[s] = None
    /\ locks' = [locks EXCEPT ![s] = l]
    /\ lockOf' = [lockOf EXCEPT ![u] = l]
    /\ IF HeldLock(l) \/ LineAt(l) # {}
       THEN pc' = [pc EXCEPT ![u] = "waiting"] /\ UNCHANGED core
       ELSE UnderLock(u)
    /\ UNCHANGED <<pool, fate, evictVars, late>>

TakeLoadLock(u) ==
    /\ pc[u] = "waiting"
    /\ ~HeldLock(lockOf[u])
    /\ UnderLock(u)
    /\ UNCHANGED <<locks, lockOf, pool, fate, evictVars, late>>

\* _load returns: the entry is put into the pool, over whatever is there.
LoadDone(u) ==
    /\ pc[u] = "loading"
    /\ pc' = [pc EXCEPT ![u] = "attaching"]
    /\ core' = [core EXCEPT ![u] = u]
    /\ pool' = [pool EXCEPT ![Session[u]] = u]
    /\ fate' = [fate EXCEPT ![u] = "open"]
    /\ UNCHANGED <<locks, lockOf, evictVars, late>>

\* The remote tools are attached, or the profile is hot-updated; the lock is left.
AcquireReturns(u) ==
    /\ pc[u] \in {"attaching", "updating"}
    /\ pc' = [pc EXCEPT ![u] = "using"]
    /\ UNCHANGED <<core, locks, lockOf, pool, fate, evictVars, late>>

\* _load raises, or the task is cancelled at any of the awaits.
AcquireFails(u) ==
    /\ pc[u] \in Waiting \cup Holding
    /\ pc' = [pc EXCEPT ![u] = "failed"]
    /\ UNCHANGED <<core, locks, lockOf, pool, fate, evictVars, late>>

UseEnds(u) ==
    /\ pc[u] = "using"
    /\ pc' = [pc EXCEPT ![u] = "done"]
    /\ UNCHANGED <<core, locks, lockOf, pool, fate, evictVars, late>>

-----------------------------------------------------------------------------
(* evict: the entry is popped, then kill, summary and close are awaited, then *)
(* the load lock is deleted unless the session has an entry again             *)

\* (Slip: the entry stays in the pool until it is closed.)
PopLater(s, by, closed) ==
    /\ pool' = [x \in Sessions |-> IF pool[x] \in closed THEN None ELSE pool[x]]
    /\ fate' = [c \in Users |-> IF c = pool[s] THEN "closing"
                                ELSE IF c \in closed THEN "closed" ELSE fate[c]]
    /\ evictor' = [evictor EXCEPT ![pool[s]] = by]

\* The entry of s is popped, in the step that closes the cores of `closed`.
Pop(s, by, closed) ==
    /\ pool' = [pool EXCEPT ![s] = None]
    /\ fate' = [c \in Users |-> IF c = pool[s] THEN "closing"
                                ELSE IF c \in closed THEN "closed" ELSE fate[c]]
    /\ evictor' = [evictor EXCEPT ![pool[s]] = by]

NeedsLock(u) == pc[u] \in Waiting \cup Holding

DropLock(s) ==
    IF pool[s] = None
    THEN /\ locks' = [locks EXCEPT ![s] = None]
         /\ robbed' = robbed \cup {u \in Users : /\ NeedsLock(u)
                                                 /\ lockOf[u] = locks[s]}
    ELSE UNCHANGED <<locks, robbed>>

\* A command ends the session, whatever runs in it.
EnderEvicts(e) ==
    /\ \A c \in Users : evictor[c] # e
    /\ pool[Session[e]] # None
    /\ Pop(Session[e], e, {})
    /\ UNCHANGED <<callVars, locks, worker, todo, robbed>>

EnderCloses(e) ==
    \E c \in Users :
        /\ evictor[c] = e /\ fate[c] = "closing"
        /\ fate' = [fate EXCEPT ![c] = "closed"]
        /\ DropLock(Session[e])
        /\ UNCHANGED <<callVars, pool, evictor, worker, todo>>

-----------------------------------------------------------------------------
(* _evict_expired and evict_all: a list is fixed, then evicted one by one *)

Victims == {c \in Users : fate[c] = "closing" /\ evictor[c] \in {"ttl", "stop"}}

\* (Slip: sessions in flight are not left out.)
RunnableAll(expired) == expired

Runnable(expired) == {s \in expired : ~Inflight(s)}

TtlScan(expired) ==
    /\ worker = "idle"
    /\ \E s \in Runnable(expired) :
          /\ Pop(s, "ttl", {})
          /\ todo' = Runnable(expired) \ {s}
    /\ worker' = "ttl"
    /\ UNCHANGED <<callVars, locks, robbed>>

\* evict of a session without entry returns at once.
Remaining == {s \in todo : pool[s] # None}

WorkerGoesOn(c) ==
    /\ Remaining # {}
    /\ \E s \in Remaining :
          /\ Pop(s, evictor[c], {c})
          /\ todo' = Remaining \ {s}
    /\ UNCHANGED worker

WorkerIsThrough(c) ==
    /\ Remaining = {}
    /\ fate' = [fate EXCEPT ![c] = "closed"]
    /\ todo' = {}
    /\ worker' = IF worker = "ttl" THEN "idle" ELSE "stopped"
    /\ UNCHANGED <<pool, evictor>>

WorkerCloses ==
    \E c \in Victims :
        /\ DropLock(Session[c])
        /\ WorkerGoesOn(c) \/ WorkerIsThrough(c)
        /\ UNCHANGED callVars

\* stop() cancels the TTL task wherever it is: an eviction in progress is abandoned.
StopBegins ==
    /\ worker \in {"idle", "ttl"}
    /\ worker' = "draining"
    /\ todo' = {}
    /\ fate' = [c \in Users |-> IF c \in Victims THEN "dropped" ELSE fate[c]]
    /\ UNCHANGED <<callVars, locks, pool, evictor, robbed>>

\* The active turns are over: evict_all.
StopEvictsAll ==
    /\ worker = "draining"
    /\ \A s \in Sessions : ~Inflight(s)
    /\ \/ /\ Pooled = {}
          /\ worker' = "stopped"
          /\ UNCHANGED <<pool, fate, evictor, todo>>
       \/ /\ worker' = "stop"
          /\ \E s \in Pooled : Pop(s, "stop", {}) /\ todo' = Pooled \ {s}
    /\ UNCHANGED <<callVars, locks, robbed>>

-----------------------------------------------------------------------------
CallStep(u) ==
    \/ AcquireFast(u) \/ AcquireSlow(u) \/ TakeLoadLock(u)
    \/ LoadDone(u) \/ AcquireReturns(u) \/ UseEnds(u)

WorkerStep == WorkerCloses \/ StopEvictsAll

Next ==
    \/ \E t \in Turns : TurnStarts(t)
    \/ \E u \in Users : CallStep(u) \/ AcquireFails(u)
    \/ \E e \in Enders : EnderEvicts(e) \/ EnderCloses(e)
    \/ \E expired \in SUBSET Pooled : TtlScan(expired)
    \/ WorkerStep
    \/ StopBegins

Spec == Init /\ [][Next]_vars

\* Loads, hot updates and turns end (their awaits have timeouts), the event loop
\* runs a call whose lock is free, evictions end. Nobody has to begin anything.
FairPool ==
    /\ \A u \in Users : WF_vars(CallStep(u) /\ pc[u] # "new")
    /\ \A e \in Enders : WF_vars(EnderCloses(e))
    /\ WF_vars(WorkerStep)

-----------------------------------------------------------------------------
(* Properties *)

\* Types of the state; a call that uses a core has one.
TypeOK ==
    /\ pc \in [Users -> {"new", "done", "failed"} \cup InTurn]
    /\ core \in [Users -> Users \cup {None}]
    /\ \A u \in Users : pc[u] = "using" => core[u] # None
    /\ locks \in [Sessions -> Users \cup {None}]
    /\ lockOf \in [Users -> Users \cup {None}]
    /\ pool \in [Sessions -> Users \cup {None}]
    /\ fate \in [Users -> {"none", "open", "closing", "closed", "dropped"}]
    /\ evictor \in [Users -> Evictors \cup {None}]
    /\ worker \in {"idle", "ttl", "draining", "stop", "stopped"}
    /\ todo \subseteq Sessions
    /\ robbed \subseteq Users
    /\ late \subseteq Turns

\* What the pool hands out is a core of that session which nobody has begun to
\* close; each core is evicted by one evictor only.
PooledIsOpen ==
    \A s \in Sessions : pool[s] # None =>
        /\ Session[pool[s]] = s
        /\ fate[pool[s]] = "open"
        /\ evictor[pool[s]] = None

\* The load lock does its work as long as no eviction deletes it under a call that
\* needs it: two calls load or replace the core of one session at the same time only
\* if one of them was robbed of its lock.
LoadsExclusive ==
    \A u, v \in Users :
        u # v /\ Session[u] = Session[v] /\ pc[u] \in Holding /\ pc[v] \in Holding
            => u \in robbed \/ v \in robbed

\* A core that is open but no longer in the pool, so that nothing will ever close
\* it, was overwritten by another load: that takes a call robbed of its lock.
LostOnlyToRace ==
    \A c \in Users : fate[c] = "open" /\ pool[Session[c]] # c =>
        \E u \in robbed : Session[u] = Session[c]

\* The kernel closes the core under a running turn only if the turn began after the
\* TTL scan had put its session on the list.
RunningSpared ==
    \A t \in Turns :
        pc[t] = "using" /\ evictor[core[t]] \in {"ttl", "stop"} => t \in late

\* No call waits for a load lock, for a load or, in a turn, behind the other turns of its
\* session, and the kernel's evictor is through its list.
NobodyAcquires ==
    /\ \A u \in Users : pc[u] \notin InTurn
    /\ worker \in {"idle", "stopped"}

\* The claims of the code that interleaving breaks.

\* "a per-session lock keeps concurrent acquires from creating a core twice": one
\* load of a session at a time.
SingleLoad ==
    \A u, v \in Users :
        u # v /\ Session[u] = Session[v] => ~(pc[u] = "loading" /\ pc[v] = "loading")

\* In-flight sessions are not evicted by TTL.
TtlSparesInflight ==
    [][\A s \in Sessions : pool[s] # None /\ pool'[s] = None /\ Inflight(s) =>
          evictor'[pool[s]] # "ttl"]_vars

=============================================================================
