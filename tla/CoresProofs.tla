----------------------------- MODULE CoresProofs -----------------------------
(***************************************************************************)
(* Proofs about a session's core, for any number of sessions, calls and    *)
(* evictors (CorePool), and for conversations with any number of turns,    *)
(* calls and rows of the history (Conversation). The two share no state.   *)
(***************************************************************************)
EXTENDS CorePool, Conversation, FiniteSetTheorems, WellFoundedInduction, TLAPS

-----------------------------------------------------------------------------
(* CorePool *)

\* A core exists from the end of its load on.
Unloaded ==
    \A u \in Users : pc[u] \in {"new", "inflight", "waiting", "loading"} =>
        fate[u] = "none" /\ evictor[u] = None

\* A call gets a core of its own session.
OwnCore ==
    \A u \in Users : core[u] # None => Session[core[u]] = Session[u]

\* A call that holds an entry or a core knows which.
HasCore ==
    \A u \in Users : pc[u] \in {"attaching", "updating", "using"} => core[u] # None

\* A call that needs its load lock has the one in _locks, or was robbed of it.
LockKept ==
    \A u \in Users : NeedsLock(u) =>
        /\ lockOf[u] # None
        /\ u \in robbed \/ lockOf[u] = locks[Session[u]]

\* asyncio.Lock: one holder.
OneHolder ==
    \A u, v \in Users :
        u # v /\ pc[u] \in Holding /\ pc[v] \in Holding => lockOf[u] # lockOf[v]

\* While a call loads, its session has no entry unless somebody was robbed.
LoadingAlone ==
    \A u \in Users : pc[u] = "loading" /\ pool[Session[u]] # None =>
        \E v \in robbed : Session[v] = Session[u]

\* The list of the kernel's evictor, and who may still have a turn meanwhile.
ListKept ==
    /\ worker \notin {"ttl", "stop"} => todo = {}
    /\ worker = "ttl" => \A t \in Turns :
          pc[t] \in InTurn /\ Session[t] \in todo => t \in late
    /\ worker \in {"stop", "stopped"} => \A t \in Turns : pc[t] \notin InTurn
    /\ \A c \in Users : fate[c] = "closing" /\ evictor[c] \in {"ttl", "stop"} =>
          evictor[c] = worker
    /\ \A c, d \in Users : c \in Victims /\ d \in Victims => c = d

\* RunningSpared, from the moment the turn has its core.
CoreSpared ==
    \A t \in Turns :
        /\ pc[t] \in {"attaching", "updating", "using"}
        /\ evictor[core[t]] \in {"ttl", "stop"}
        => t \in late

IInv ==
    /\ TypeOK /\ PooledIsOpen /\ Unloaded /\ OwnCore /\ HasCore
    /\ LockKept /\ OneHolder /\ LoadingAlone /\ LostOnlyToRace
    /\ ListKept /\ CoreSpared

LEMMA InitInvariant == Init => IInv
BY PoolAssumption DEF Init, IInv, TypeOK, PooledIsOpen, Unloaded, OwnCore, HasCore,
   LockKept, OneHolder, LoadingAlone, LostOnlyToRace, ListKept, CoreSpared, Victims,
   Users, Evictors, Waiting, Holding, InTurn, NeedsLock

\* Types.
LEMMA TypeKept ==
  ASSUME IInv, [Next]_vars
  PROVE  TypeOK'
<1> USE PoolAssumption DEF Users, Evictors, Waiting, Holding, InTurn, evictVars, callVars, TypeOK, PooledIsOpen, HasCore
<1>0. TypeOK /\ PooledIsOpen /\ HasCore
  BY DEF IInv
<1>1. ASSUME NEW t \in Turns, TurnStarts(t)
      PROVE  TypeOK'
  BY <1>0, <1>1 DEF TurnStarts
<1>2. ASSUME NEW u \in Users, AcquireFast(u)
      PROVE  TypeOK'
  BY <1>0, <1>2 DEF AcquireFast, Got, MayAcquire
<1>3. ASSUME NEW u \in Users, AcquireSlow(u)
      PROVE  TypeOK'
  BY <1>0, <1>3 DEF AcquireSlow, UnderLock, Got, MayAcquire, HeldLock, LineAt
<1>4. ASSUME NEW u \in Users, TakeLoadLock(u)
      PROVE  TypeOK'
  BY <1>0, <1>4 DEF TakeLoadLock, UnderLock, Got, HeldLock
<1>5. ASSUME NEW u \in Users, LoadDone(u)
      PROVE  TypeOK'
  BY <1>0, <1>5 DEF LoadDone
<1>6. ASSUME NEW u \in Users, AcquireReturns(u)
      PROVE  TypeOK'
  BY <1>0, <1>6 DEF AcquireReturns
<1>7. ASSUME NEW u \in Users, UseEnds(u)
      PROVE  TypeOK'
  BY <1>0, <1>7 DEF UseEnds
<1>8. ASSUME NEW u \in Users, AcquireFails(u)
      PROVE  TypeOK'
  BY <1>0, <1>8 DEF AcquireFails
<1>9. ASSUME NEW e \in Enders, EnderEvicts(e)
      PROVE  TypeOK'
  BY <1>0, <1>9 DEF EnderEvicts, Pop
<1>10. ASSUME NEW e \in Enders, EnderCloses(e)
      PROVE  TypeOK'
  BY <1>0, <1>10 DEF EnderCloses, DropLock, NeedsLock
<1>11. ASSUME NEW expired \in SUBSET Pooled, TtlScan(expired)
      PROVE  TypeOK'
  BY <1>0, <1>11 DEF TtlScan, Pop, Runnable, Inflight, Pooled
<1>12. CASE WorkerCloses
  BY <1>0, <1>12 DEF WorkerCloses, WorkerGoesOn, WorkerIsThrough, Remaining, Victims, DropLock, NeedsLock, Pop
<1>13. CASE StopEvictsAll
  BY <1>0, <1>13 DEF StopEvictsAll, Pop, Pooled, Inflight
<1>14. CASE StopBegins
  BY <1>0, <1>14 DEF StopBegins, Victims
<1>15. CASE UNCHANGED vars
  BY <1>0, <1>15 DEF vars, Inflight
<1>16. QED
  BY <1>1, <1>2, <1>3, <1>4, <1>5, <1>6, <1>7, <1>8, <1>9, <1>10, <1>11, <1>12, <1>13, <1>14, <1>15 DEF Next, CallStep, WorkerStep

\* What is in the pool, and who has which core.
LEMMA CoresKept ==
  ASSUME IInv, [Next]_vars
  PROVE  (PooledIsOpen /\ Unloaded /\ OwnCore /\ HasCore)'
<1> USE PoolAssumption DEF Users, Evictors, Waiting, Holding, InTurn, evictVars, callVars, TypeOK, PooledIsOpen, Unloaded, OwnCore, HasCore
<1>0. TypeOK /\ PooledIsOpen /\ Unloaded /\ OwnCore /\ HasCore
  BY DEF IInv
<1>1. ASSUME NEW t \in Turns, TurnStarts(t)
      PROVE  (PooledIsOpen /\ Unloaded /\ OwnCore /\ HasCore)'
  BY <1>0, <1>1 DEF TurnStarts
<1>2. ASSUME NEW u \in Users, AcquireFast(u)
      PROVE  (PooledIsOpen /\ Unloaded /\ OwnCore /\ HasCore)'
  BY <1>0, <1>2 DEF AcquireFast, Got, MayAcquire
<1>3. ASSUME NEW u \in Users, AcquireSlow(u)
      PROVE  (PooledIsOpen /\ Unloaded /\ OwnCore /\ HasCore)'
  BY <1>0, <1>3 DEF AcquireSlow, UnderLock, Got, MayAcquire, HeldLock, LineAt
<1>4. ASSUME NEW u \in Users, TakeLoadLock(u)
      PROVE  (PooledIsOpen /\ Unloaded /\ OwnCore /\ HasCore)'
  BY <1>0, <1>4 DEF TakeLoadLock, UnderLock, Got, HeldLock
<1>5. ASSUME NEW u \in Users, LoadDone(u)
      PROVE  (PooledIsOpen /\ Unloaded /\ OwnCore /\ HasCore)'
  BY <1>0, <1>5 DEF LoadDone
<1>6. ASSUME NEW u \in Users, AcquireReturns(u)
      PROVE  (PooledIsOpen /\ Unloaded /\ OwnCore /\ HasCore)'
  BY <1>0, <1>6 DEF AcquireReturns
<1>7. ASSUME NEW u \in Users, UseEnds(u)
      PROVE  (PooledIsOpen /\ Unloaded /\ OwnCore /\ HasCore)'
  BY <1>0, <1>7 DEF UseEnds
<1>8. ASSUME NEW u \in Users, AcquireFails(u)
      PROVE  (PooledIsOpen /\ Unloaded /\ OwnCore /\ HasCore)'
  BY <1>0, <1>8 DEF AcquireFails
<1>9. ASSUME NEW e \in Enders, EnderEvicts(e)
      PROVE  (PooledIsOpen /\ Unloaded /\ OwnCore /\ HasCore)'
  BY <1>0, <1>9 DEF EnderEvicts, Pop
<1>10. ASSUME NEW e \in Enders, EnderCloses(e)
      PROVE  (PooledIsOpen /\ Unloaded /\ OwnCore /\ HasCore)'
  BY <1>0, <1>10 DEF EnderCloses, DropLock, NeedsLock
<1>11. ASSUME NEW expired \in SUBSET Pooled, TtlScan(expired)
      PROVE  (PooledIsOpen /\ Unloaded /\ OwnCore /\ HasCore)'
  BY <1>0, <1>11 DEF TtlScan, Pop, Runnable, Inflight, Pooled
<1>12. CASE WorkerCloses
  BY <1>0, <1>12 DEF WorkerCloses, WorkerGoesOn, WorkerIsThrough, Remaining, Victims, DropLock, NeedsLock, Pop
<1>13. CASE StopEvictsAll
  BY <1>0, <1>13 DEF StopEvictsAll, Pop, Pooled, Inflight
<1>14. CASE StopBegins
  BY <1>0, <1>14 DEF StopBegins, Victims
<1>15. CASE UNCHANGED vars
  BY <1>0, <1>15 DEF vars, Inflight
<1>16. QED
  BY <1>1, <1>2, <1>3, <1>4, <1>5, <1>6, <1>7, <1>8, <1>9, <1>10, <1>11, <1>12, <1>13, <1>14, <1>15 DEF Next, CallStep, WorkerStep

\* The load locks.
LEMMA LocksKept ==
  ASSUME IInv, [Next]_vars
  PROVE  (LockKept /\ OneHolder)'
<1> USE PoolAssumption DEF Users, Evictors, Waiting, Holding, InTurn, evictVars, callVars, TypeOK, LockKept, OneHolder, NeedsLock
<1>0. TypeOK /\ LockKept /\ OneHolder
  BY DEF IInv
<1>1. ASSUME NEW t \in Turns, TurnStarts(t)
      PROVE  (LockKept /\ OneHolder)'
  BY <1>0, <1>1 DEF TurnStarts
<1>2. ASSUME NEW u \in Users, AcquireFast(u)
      PROVE  (LockKept /\ OneHolder)'
  BY <1>0, <1>2 DEF AcquireFast, Got, MayAcquire
<1>3. ASSUME NEW u \in Users, AcquireSlow(u)
      PROVE  (LockKept /\ OneHolder)'
  BY <1>0, <1>3 DEF AcquireSlow, UnderLock, Got, MayAcquire, HeldLock, LineAt
<1>4. ASSUME NEW u \in Users, TakeLoadLock(u)
      PROVE  (LockKept /\ OneHolder)'
  BY <1>0, <1>4 DEF TakeLoadLock, UnderLock, Got, HeldLock
<1>5. ASSUME NEW u \in Users, LoadDone(u)
      PROVE  (LockKept /\ OneHolder)'
  BY <1>0, <1>5 DEF LoadDone
<1>6. ASSUME NEW u \in Users, AcquireReturns(u)
      PROVE  (LockKept /\ OneHolder)'
  BY <1>0, <1>6 DEF AcquireReturns
<1>7. ASSUME NEW u \in Users, UseEnds(u)
      PROVE  (LockKept /\ OneHolder)'
  BY <1>0, <1>7 DEF UseEnds
<1>8. ASSUME NEW u \in Users, AcquireFails(u)
      PROVE  (LockKept /\ OneHolder)'
  BY <1>0, <1>8 DEF AcquireFails
<1>9. ASSUME NEW e \in Enders, EnderEvicts(e)
      PROVE  (LockKept /\ OneHolder)'
  BY <1>0, <1>9 DEF EnderEvicts, Pop
<1>10. ASSUME NEW e \in Enders, EnderCloses(e)
      PROVE  (LockKept /\ OneHolder)'
  BY <1>0, <1>10 DEF EnderCloses, DropLock, NeedsLock
<1>11. ASSUME NEW expired \in SUBSET Pooled, TtlScan(expired)
      PROVE  (LockKept /\ OneHolder)'
  BY <1>0, <1>11 DEF TtlScan, Pop, Runnable, Inflight, Pooled
<1>12. CASE WorkerCloses
  BY <1>0, <1>12 DEF WorkerCloses, WorkerGoesOn, WorkerIsThrough, Remaining, Victims, DropLock, NeedsLock, Pop
<1>13. CASE StopEvictsAll
  BY <1>0, <1>13 DEF StopEvictsAll, Pop, Pooled, Inflight
<1>14. CASE StopBegins
  BY <1>0, <1>14 DEF StopBegins, Victims
<1>15. CASE UNCHANGED vars
  BY <1>0, <1>15 DEF vars, Inflight
<1>16. QED
  BY <1>1, <1>2, <1>3, <1>4, <1>5, <1>6, <1>7, <1>8, <1>9, <1>10, <1>11, <1>12, <1>13, <1>14, <1>15 DEF Next, CallStep, WorkerStep

\* What a robbed call can do, and nobody else.
LEMMA LoadsKept ==
  ASSUME IInv, [Next]_vars
  PROVE  (LoadingAlone /\ LostOnlyToRace)'
<1> USE PoolAssumption DEF Users, Evictors, Waiting, Holding, InTurn, evictVars, callVars, TypeOK, PooledIsOpen, Unloaded, LockKept, OneHolder, NeedsLock, LoadingAlone, LostOnlyToRace
<1>0. TypeOK /\ PooledIsOpen /\ Unloaded /\ LockKept /\ OneHolder /\ LoadingAlone /\ LostOnlyToRace
  BY DEF IInv
<1>1. ASSUME NEW t \in Turns, TurnStarts(t)
      PROVE  (LoadingAlone /\ LostOnlyToRace)'
  BY <1>0, <1>1 DEF TurnStarts
<1>2. ASSUME NEW u \in Users, AcquireFast(u)
      PROVE  (LoadingAlone /\ LostOnlyToRace)'
  BY <1>0, <1>2 DEF AcquireFast, Got, MayAcquire
<1>3. ASSUME NEW u \in Users, AcquireSlow(u)
      PROVE  (LoadingAlone /\ LostOnlyToRace)'
  BY <1>0, <1>3 DEF AcquireSlow, UnderLock, Got, MayAcquire, HeldLock, LineAt
<1>4. ASSUME NEW u \in Users, TakeLoadLock(u)
      PROVE  (LoadingAlone /\ LostOnlyToRace)'
  BY <1>0, <1>4 DEF TakeLoadLock, UnderLock, Got, HeldLock
<1>5. ASSUME NEW u \in Users, LoadDone(u)
      PROVE  (LoadingAlone /\ LostOnlyToRace)'
  BY <1>0, <1>5 DEF LoadDone
<1>6. ASSUME NEW u \in Users, AcquireReturns(u)
      PROVE  (LoadingAlone /\ LostOnlyToRace)'
  BY <1>0, <1>6 DEF AcquireReturns
<1>7. ASSUME NEW u \in Users, UseEnds(u)
      PROVE  (LoadingAlone /\ LostOnlyToRace)'
  BY <1>0, <1>7 DEF UseEnds
<1>8. ASSUME NEW u \in Users, AcquireFails(u)
      PROVE  (LoadingAlone /\ LostOnlyToRace)'
  BY <1>0, <1>8 DEF AcquireFails
<1>9. ASSUME NEW e \in Enders, EnderEvicts(e)
      PROVE  (LoadingAlone /\ LostOnlyToRace)'
  BY <1>0, <1>9 DEF EnderEvicts, Pop
<1>10. ASSUME NEW e \in Enders, EnderCloses(e)
      PROVE  (LoadingAlone /\ LostOnlyToRace)'
  BY <1>0, <1>10 DEF EnderCloses, DropLock, NeedsLock
<1>11. ASSUME NEW expired \in SUBSET Pooled, TtlScan(expired)
      PROVE  (LoadingAlone /\ LostOnlyToRace)'
  BY <1>0, <1>11 DEF TtlScan, Pop, Runnable, Inflight, Pooled
<1>12. CASE WorkerCloses
  BY <1>0, <1>12 DEF WorkerCloses, WorkerGoesOn, WorkerIsThrough, Remaining, Victims, DropLock, NeedsLock, Pop
<1>13. CASE StopEvictsAll
  BY <1>0, <1>13 DEF StopEvictsAll, Pop, Pooled, Inflight
<1>14. CASE StopBegins
  BY <1>0, <1>14 DEF StopBegins, Victims
<1>15. CASE UNCHANGED vars
  BY <1>0, <1>15 DEF vars, Inflight
<1>16. QED
  BY <1>1, <1>2, <1>3, <1>4, <1>5, <1>6, <1>7, <1>8, <1>9, <1>10, <1>11, <1>12, <1>13, <1>14, <1>15 DEF Next, CallStep, WorkerStep

\* The lists of the kernel's evictor.
LEMMA ListsKept ==
  ASSUME IInv, [Next]_vars
  PROVE  ListKept'
<1> USE PoolAssumption DEF Users, Evictors, Waiting, Holding, InTurn, evictVars, callVars, TypeOK, PooledIsOpen, Unloaded, ListKept, Victims
<1>0. TypeOK /\ PooledIsOpen /\ Unloaded /\ ListKept
  BY DEF IInv
<1>1. ASSUME NEW t \in Turns, TurnStarts(t)
      PROVE  ListKept'
  BY <1>0, <1>1 DEF TurnStarts
<1>2. ASSUME NEW u \in Users, AcquireFast(u)
      PROVE  ListKept'
  BY <1>0, <1>2 DEF AcquireFast, Got, MayAcquire
<1>3. ASSUME NEW u \in Users, AcquireSlow(u)
      PROVE  ListKept'
  BY <1>0, <1>3 DEF AcquireSlow, UnderLock, Got, MayAcquire, HeldLock, LineAt
<1>4. ASSUME NEW u \in Users, TakeLoadLock(u)
      PROVE  ListKept'
  BY <1>0, <1>4 DEF TakeLoadLock, UnderLock, Got, HeldLock
<1>5. ASSUME NEW u \in Users, LoadDone(u)
      PROVE  ListKept'
  BY <1>0, <1>5 DEF LoadDone
<1>6. ASSUME NEW u \in Users, AcquireReturns(u)
      PROVE  ListKept'
  BY <1>0, <1>6 DEF AcquireReturns
<1>7. ASSUME NEW u \in Users, UseEnds(u)
      PROVE  ListKept'
  BY <1>0, <1>7 DEF UseEnds
<1>8. ASSUME NEW u \in Users, AcquireFails(u)
      PROVE  ListKept'
  BY <1>0, <1>8 DEF AcquireFails
<1>9. ASSUME NEW e \in Enders, EnderEvicts(e)
      PROVE  ListKept'
  BY <1>0, <1>9 DEF EnderEvicts, Pop
<1>10. ASSUME NEW e \in Enders, EnderCloses(e)
      PROVE  ListKept'
  BY <1>0, <1>10 DEF EnderCloses, DropLock, NeedsLock
<1>11. ASSUME NEW expired \in SUBSET Pooled, TtlScan(expired)
      PROVE  ListKept'
  BY <1>0, <1>11 DEF TtlScan, Pop, Runnable, Inflight, Pooled
<1>12. CASE WorkerCloses
  BY <1>0, <1>12 DEF WorkerCloses, WorkerGoesOn, WorkerIsThrough, Remaining, Victims, DropLock, NeedsLock, Pop
<1>13. CASE StopEvictsAll
  BY <1>0, <1>13 DEF StopEvictsAll, Pop, Pooled, Inflight
<1>14. CASE StopBegins
  BY <1>0, <1>14 DEF StopBegins, Victims
<1>15. CASE UNCHANGED vars
  BY <1>0, <1>15 DEF vars, Inflight
<1>16. QED
  BY <1>1, <1>2, <1>3, <1>4, <1>5, <1>6, <1>7, <1>8, <1>9, <1>10, <1>11, <1>12, <1>13, <1>14, <1>15 DEF Next, CallStep, WorkerStep

\* Who is evicted under a turn.
LEMMA SparedKept ==
  ASSUME IInv, [Next]_vars
  PROVE  CoreSpared'
<1> USE PoolAssumption DEF Users, Evictors, Waiting, Holding, InTurn, evictVars, callVars, TypeOK, PooledIsOpen, Unloaded, OwnCore, HasCore, ListKept, CoreSpared
<1>0. TypeOK /\ PooledIsOpen /\ Unloaded /\ OwnCore /\ HasCore /\ ListKept /\ CoreSpared
  BY DEF IInv
<1>1. ASSUME NEW t \in Turns, TurnStarts(t)
      PROVE  CoreSpared'
  BY <1>0, <1>1 DEF TurnStarts
<1>2. ASSUME NEW u \in Users, AcquireFast(u)
      PROVE  CoreSpared'
  BY <1>0, <1>2 DEF AcquireFast, Got, MayAcquire
<1>3. ASSUME NEW u \in Users, AcquireSlow(u)
      PROVE  CoreSpared'
  BY <1>0, <1>3 DEF AcquireSlow, UnderLock, Got, MayAcquire, HeldLock, LineAt
<1>4. ASSUME NEW u \in Users, TakeLoadLock(u)
      PROVE  CoreSpared'
  BY <1>0, <1>4 DEF TakeLoadLock, UnderLock, Got, HeldLock
<1>5. ASSUME NEW u \in Users, LoadDone(u)
      PROVE  CoreSpared'
  BY <1>0, <1>5 DEF LoadDone
<1>6. ASSUME NEW u \in Users, AcquireReturns(u)
      PROVE  CoreSpared'
  BY <1>0, <1>6 DEF AcquireReturns
<1>7. ASSUME NEW u \in Users, UseEnds(u)
      PROVE  CoreSpared'
  BY <1>0, <1>7 DEF UseEnds
<1>8. ASSUME NEW u \in Users, AcquireFails(u)
      PROVE  CoreSpared'
  BY <1>0, <1>8 DEF AcquireFails
<1>9. ASSUME NEW e \in Enders, EnderEvicts(e)
      PROVE  CoreSpared'
  BY <1>0, <1>9 DEF EnderEvicts, Pop
<1>10. ASSUME NEW e \in Enders, EnderCloses(e)
      PROVE  CoreSpared'
  BY <1>0, <1>10 DEF EnderCloses, DropLock, NeedsLock
<1>11. ASSUME NEW expired \in SUBSET Pooled, TtlScan(expired)
      PROVE  CoreSpared'
  BY <1>0, <1>11 DEF TtlScan, Pop, Runnable, Inflight, Pooled
<1>12. CASE WorkerCloses
  BY <1>0, <1>12 DEF WorkerCloses, WorkerGoesOn, WorkerIsThrough, Remaining, Victims, DropLock, NeedsLock, Pop
<1>13. CASE StopEvictsAll
  BY <1>0, <1>13 DEF StopEvictsAll, Pop, Pooled, Inflight
<1>14. CASE StopBegins
  BY <1>0, <1>14 DEF StopBegins, Victims
<1>15. CASE UNCHANGED vars
  BY <1>0, <1>15 DEF vars, Inflight
<1>16. QED
  BY <1>1, <1>2, <1>3, <1>4, <1>5, <1>6, <1>7, <1>8, <1>9, <1>10, <1>11, <1>12, <1>13, <1>14, <1>15 DEF Next, CallStep, WorkerStep

LEMMA NextInvariant == IInv /\ [Next]_vars => IInv'
BY TypeKept, CoresKept, LocksKept, LoadsKept, ListsKept, SparedKept DEF IInv

LEMMA Invariance == Spec => []IInv
BY InitInvariant, NextInvariant, PTL DEF Spec

-----------------------------------------------------------------------------
\* The state keeps its types, and a call that uses a core has one.
THEOREM TypeCorrect == Spec => []TypeOK
<1>1. IInv => TypeOK
  BY DEF IInv
<1>2. QED
  BY <1>1, Invariance, PTL

\* The pool hands out open cores only, and no core has two evictors: evict pops the
\* entry before its first await.
THEOREM PoolCorrect == Spec => []PooledIsOpen
<1>1. IInv => PooledIsOpen
  BY DEF IInv
<1>2. QED
  BY <1>1, Invariance, PTL

\* Two loads of one session at a time take a call whose lock evict has deleted.
THEOREM LoadsCorrect == Spec => []LoadsExclusive
<1>1. IInv => LoadsExclusive
  BY DEF IInv, LoadsExclusive, LockKept, OneHolder, NeedsLock
<1>2. QED
  BY <1>1, Invariance, PTL

\* A core is lost (open, but out of the pool) only in such a session.
THEOREM LossCorrect == Spec => []LostOnlyToRace
<1>1. IInv => LostOnlyToRace
  BY DEF IInv
<1>2. QED
  BY <1>1, Invariance, PTL

\* The kernel evicts the core of a running turn only if the turn began between the
\* TTL scan and the eviction.
THEOREM SparedCorrect == Spec => []RunningSpared
<1>1. IInv => RunningSpared
  BY DEF IInv, CoreSpared, RunningSpared
<1>2. QED
  BY <1>1, Invariance, PTL

-----------------------------------------------------------------------------
(* The messages of a conversation *)

Turning == turnAt \notin {"idle", "recall"}

\* The calls of the assistant's message i, which makes some.
Calling(m, i) == m[i].role = "assistant" /\ m[i].calls # {}

\* The results that follow a message with calls are results of these calls, each once,
\* and no call is made twice.
Good(m) ==
    /\ \A i, k \in 1 .. Len(m) : i < k /\ Calling(m, i) /\ Answers(m, i, k) =>
          m[k].calls \subseteq m[i].calls
    /\ \A i, j, k \in 1 .. Len(m) :
          i < j /\ j < k /\ Calling(m, i) /\ Answers(m, i, k) => m[j] # m[k]
    /\ \A i, j \in 1 .. Len(m) : i # j /\ Calling(m, i) /\ Calling(m, j) =>
          m[i].calls \cap m[j].calls = {}

\* The calls that are still to be answered belong to the message with calls whose
\* results end the conversation, and none has a result there.
Open(m, q) ==
    \A i \in 1 .. Len(m) : Calling(m, i) /\ Answers(m, i, Len(m)) =>
        \A x \in 1 .. Len(q) : q[x] \in m[i].calls /\ \A k \in i + 1 .. Len(m) : m[k] # Tool(q[x])

\* The calls were made and the rows are there, none of them twice.
Sound(m, n, l) ==
    /\ m \in Seq(Message)
    /\ \A i \in 1 .. Len(m) : m[i].calls \subseteq 1 .. n /\ m[i].row <= l
    /\ \A i, j \in 1 .. Len(m) : i # j /\ m[i].row = m[j].row => m[i].row = 0

\* What is split off begins with a user's message.
UserFirst(m) == m # <<>> => m[1].role = "user"

\* Rows and calls of all that is kept.
AllSound ==
    /\ Sound(msgs, calls, last) /\ Sound(prev, calls, last)
    /\ Sound(fold.new, calls, last) /\ Sound(cmd.fold.new, calls, last)
    /\ Sound(ckpt.msgs, calls, ckpt.last) /\ ckpt.last <= last

AllGood ==
    /\ dirty \/ (Good(msgs) /\ Good(prev) /\ Good(fold.new))
    /\ turnAt = "idle" => Good(prev) /\ Good(fold.new)
    /\ cmd.dirty \/ Good(cmd.fold.new)
    /\ ckpt.dirty \/ Good(ckpt.msgs)
    /\ UserFirst(fold.new) /\ UserFirst(cmd.fold.new)

\* The calls that a turn still has to answer.
Owing ==
    /\ \A x \in 1 .. Len(owed) : owed[x] <= calls
    /\ \A x, y \in 1 .. Len(owed) : x # y => owed[x] # owed[y]
    /\ turnAt \in {"calling", "executing", "storing"} => owed # <<>> /\ (dirty \/ Open(msgs, owed))

\* A row of the history that is not in the conversation is known to be passed over, or
\* the next turn will find it.
Covered ==
    \A r \in 1 .. Len(db) :
        db[r] = "tool" \/ r \in synced \cup exposed \/ (turnAt = "idle" /\ r > last)

\* The question of a turn is in the messages, and in what the turn has split off.
Asking ==
    Turning /\ ~cut =>
        /\ question \in RowsOf(msgs) \cup FoldsOf(msgs)
        /\ turnAt \in {"compress", "recover"} =>
              question \in fold.old \cup RowsOf(fold.new) \cup FoldsOf(fold.new)

Talk == ConversationTypeOK /\ AllSound /\ AllGood /\ Owing /\ Covered /\ Asking
-----------------------------------------------------------------------------
(* Pieces put together *)

\* A set of numbers has a least one.
LEMMA LeastOf ==
  ASSUME NEW T, T \subseteq Nat, T # {}
  PROVE  \E x \in T : \A y \in T : x <= y
  <1>1. PICK x \in T : \A y \in T : ~ (<<y, x>> \in OpToRel(<, Nat))
    BY WFMin, NatLessThanWellFounded
  <1>2. \A y \in T : y \in Nat /\ x \in Nat /\ ~(y < x)
    BY <1>1 DEF OpToRel
  <1> QED
    BY <1>2

\* What holds of 0 and is handed on up to n holds of all up to n.
LEMMA HandedOn ==
  ASSUME NEW n \in Nat, NEW S, 0 \in S, \A k \in 0 .. n - 1 : k \in S => k + 1 \in S
  PROVE  \A k \in 0 .. n : k \in S
  <1> SUFFICES ASSUME \E k \in 0 .. n : k \notin S PROVE FALSE
    OBVIOUS
  <1> DEFINE T == {k \in 0 .. n : k \notin S}
  <1>1. T \subseteq Nat /\ T # {}
    OBVIOUS
  <1>2. PICK k \in T : \A j \in T : k <= j
    BY <1>1, LeastOf
  <1>3. k # 0 /\ k \in 0 .. n /\ k \notin S
    BY <1>2
  <1>4. k - 1 \in 0 .. n - 1 /\ k - 1 \in 0 .. n /\ (k - 1) + 1 = k /\ ~(k <= k - 1)
    BY <1>3
  <1>5. k - 1 \in S
    BY <1>2, <1>4
  <1> QED
    BY <1>3, <1>4, <1>5

Unfolds(upTo, n, p) == upTo = [k \in 0 .. n |-> IF k = 0 THEN <<>> ELSE upTo[k - 1] \o p[k]]

JoinsUp(upTo, E, n, p) ==
    /\ upTo[0] = <<>> /\ Joined(n, p) = upTo[n]
    /\ \A k \in 1 .. n : upTo[k] = upTo[k - 1] \o p[k]
    /\ \A k \in 0 .. n : upTo[k] \in Seq(E)

\* The recursion of Joined has its value.
LEMMA JoinedUnfolds ==
  ASSUME NEW E, NEW n \in Nat, NEW p, \A k \in 1 .. n : p[k] \in Seq(E)
  PROVE  \E upTo : JoinsUp(upTo, E, n, p)
  <1> DEFINE Begins(f, m) == /\ f \in [0 .. m -> Seq(E)] /\ f[0] = <<>>
                             /\ \A k \in 1 .. m : f[k] = f[k - 1] \o p[k]
             Has == {m \in 0 .. n : \E f : Begins(f, m)}
  <1>1. 0 \in Has
    <2> DEFINE f == [k \in 0 .. 0 |-> <<>>]
    <2>1. Begins(f, 0)
      OBVIOUS
    <2>2. 0 \in 0 .. n
      OBVIOUS
    <2> HIDE DEF Begins, f
    <2> QED
      BY <2>1, <2>2
  <1>2. ASSUME NEW m \in 0 .. n - 1, m \in Has PROVE m + 1 \in Has
    <2>1. PICK f : Begins(f, m)
      BY <1>2
    <2> DEFINE g == [k \in 0 .. m + 1 |-> IF k = m + 1 THEN f[m] \o p[m + 1] ELSE f[k]]
    <2>2. f[m] \in Seq(E) /\ p[m + 1] \in Seq(E)
      BY <2>1
    <2>3. f[m] \o p[m + 1] \in Seq(E)
      BY <2>2
    <2>4. g \in [0 .. m + 1 -> Seq(E)]
      BY <2>1, <2>3
    <2>5. g[0] = <<>>
      BY <2>1
    <2>6. ASSUME NEW k \in 1 .. m + 1 PROVE g[k] = g[k - 1] \o p[k]
      <3>1. k - 1 \in 0 .. m /\ g[k - 1] = f[k - 1]
        BY <2>1
      <3>2. CASE k = m + 1
        <4>1. g[k] = f[m] \o p[m + 1] /\ k - 1 = m
          BY <3>2
        <4> QED
          BY <3>1, <3>2, <4>1
      <3>3. CASE k # m + 1
        <4>1. k \in 1 .. m
          BY <3>3
        <4>2. g[k] = f[k]
          BY <3>3
        <4>3. f[k] = f[k - 1] \o p[k]
          BY <2>1, <4>1
        <4> QED
          BY <3>1, <4>2, <4>3
      <3> QED
        BY <3>2, <3>3
    <2>7. Begins(g, m + 1)
      BY <2>4, <2>5, <2>6
    <2>8. m + 1 \in 0 .. n
      OBVIOUS
    <2> HIDE DEF Begins, g
    <2> QED
      BY <2>7, <2>8
  <1>3. n \in Has
    <2> HIDE DEF Has
    <2>1. \A k \in 0 .. n : k \in Has
      BY <1>1, <1>2, HandedOn
    <2> QED
      BY <2>1
  <1>4. PICK f : Begins(f, n)
    BY <1>3
  <1>5. Unfolds(f, n, p)
    <2>1. \A k \in 0 .. n : f[k] = IF k = 0 THEN <<>> ELSE f[k - 1] \o p[k]
      <3> SUFFICES ASSUME NEW k \in 0 .. n
                   PROVE  f[k] = IF k = 0 THEN <<>> ELSE f[k - 1] \o p[k]
        OBVIOUS
      <3>1. k = 0 \/ (k \in 1 .. n /\ k # 0)
        OBVIOUS
      <3>2. f[0] = <<>> /\ \A j \in 1 .. n : f[j] = f[j - 1] \o p[j]
        BY <1>4
      <3> QED
        BY <3>1, <3>2, Zenon
    <2>2. f = [k \in 0 .. n |-> f[k]]
      BY <1>4
    <2> QED
      BY <2>1, <2>2 DEF Unfolds
  <1> DEFINE c == CHOOSE f0 : Unfolds(f0, n, p)
  <1>6. Unfolds(c, n, p)
    BY <1>5
  <1>7. Joined(n, p) = c[n]
    BY DEF Joined, Unfolds
  <1> HIDE DEF c
  <1>8. \A k \in 0 .. n : c[k] = IF k = 0 THEN <<>> ELSE c[k - 1] \o p[k]
    BY <1>6, Zenon DEF Unfolds
  <1>9. c[0] = <<>> /\ \A k \in 1 .. n : c[k] = c[k - 1] \o p[k]
    <2>1. 0 \in 0 .. n /\ \A k \in 1 .. n : k \in 0 .. n /\ k # 0
      OBVIOUS
    <2> QED
      BY <1>8, <2>1, Zenon
  <1>10. \A k \in 0 .. n : c[k] \in Seq(E)
    <2> DEFINE S == {k \in 0 .. n : c[k] \in Seq(E)}
    <2>1. 0 \in S
      <3>1. 0 \in 0 .. n /\ <<>> \in Seq(E)
        OBVIOUS
      <3> QED
        BY <1>9, <3>1
    <2>2. ASSUME NEW k \in 0 .. n - 1, k \in S PROVE k + 1 \in S
      <3>1. k + 1 \in 1 .. n /\ (k + 1) - 1 = k /\ k + 1 \in 0 .. n
        OBVIOUS
      <3>2. c[k + 1] = c[k] \o p[k + 1]
        BY <1>9, <3>1
      <3>3. c[k] \in Seq(E) /\ p[k + 1] \in Seq(E)
        BY <2>2, <3>1
      <3>4. c[k] \o p[k + 1] \in Seq(E)
        BY <3>3
      <3> QED
        BY <3>1, <3>2, <3>4
    <2> HIDE DEF S
    <2>3. \A k \in 0 .. n : k \in S
      BY <2>1, <2>2, HandedOn
    <2> QED
      BY <2>3 DEF S
  <1> QED
    BY <1>7, <1>9, <1>10 DEF JoinsUp

\* Each place i of r is place Q[i] of the piece P[i], in order.
Places(r, n, p, P, Q) ==
    /\ \A i \in 1 .. Len(r) :
          P[i] \in 1 .. n /\ Q[i] \in 1 .. Len(p[P[i]]) /\ r[i] = p[P[i]][Q[i]]
    /\ \A k \in 1 .. n : \A j \in 1 .. Len(p[k]) : \E i \in 1 .. Len(r) : P[i] = k /\ Q[i] = j
    /\ \A i, j \in 1 .. Len(r) : i < j => P[i] < P[j] \/ (P[i] = P[j] /\ Q[i] < Q[j])

\* One piece more.
LEMMA PlacesNext ==
  ASSUME NEW E, NEW n \in Nat, NEW p, \A k \in 1 .. n + 1 : p[k] \in Seq(E),
         NEW r \in Seq(E), NEW P, NEW Q, Places(r, n, p, P, Q)
  PROVE  \E P1, Q1 : Places(r \o p[n + 1], n + 1, p, P1, Q1)
  <1> DEFINE t == p[n + 1]
             s == r \o t
             L == Len(r)
             P1 == [i \in 1 .. Len(s) |-> IF i <= L THEN P[i] ELSE n + 1]
             Q1 == [i \in 1 .. Len(s) |-> IF i <= L THEN Q[i] ELSE i - L]
  <1>1. /\ t \in Seq(E) /\ s \in Seq(E) /\ Len(s) = L + Len(t) /\ L \in Nat /\ Len(t) \in Nat
        /\ \A i \in 1 .. L : s[i] = r[i]
        /\ \A i \in 1 .. Len(t) : s[L + i] = t[i]
    OBVIOUS
  <1>2. /\ \A i \in 1 .. L : i \in 1 .. Len(s) /\ P1[i] = P[i] /\ Q1[i] = Q[i]
        /\ \A i \in 1 .. Len(t) : L + i \in 1 .. Len(s) /\ P1[L + i] = n + 1 /\ Q1[L + i] = i
    BY <1>1
  <1>3. \A i \in 1 .. Len(s) : i \in 1 .. L \/ (i - L \in 1 .. Len(t) /\ i = L + (i - L))
    BY <1>1
  <1> HIDE DEF P1, Q1, s, L
  <1>4. /\ \A i \in 1 .. L : P[i] \in 1 .. n /\ Q[i] \in 1 .. Len(p[P[i]]) /\ r[i] = p[P[i]][Q[i]]
        /\ \A k \in 1 .. n : \A j \in 1 .. Len(p[k]) : \E i \in 1 .. L : P[i] = k /\ Q[i] = j
        /\ \A i, j \in 1 .. L : i < j => P[i] < P[j] \/ (P[i] = P[j] /\ Q[i] < Q[j])
    BY DEF Places, L
  <1>5. ASSUME NEW i \in 1 .. Len(s)
        PROVE  P1[i] \in 1 .. n + 1 /\ Q1[i] \in 1 .. Len(p[P1[i]]) /\ s[i] = p[P1[i]][Q1[i]]
    <2>1. CASE i \in 1 .. L
      <3>1. P1[i] = P[i] /\ Q1[i] = Q[i] /\ s[i] = r[i]
        BY <1>1, <1>2, <2>1
      <3>2. P[i] \in 1 .. n /\ Q[i] \in 1 .. Len(p[P[i]]) /\ r[i] = p[P[i]][Q[i]]
        BY <1>4, <2>1
      <3>3. P[i] \in 1 .. n + 1
        BY <3>2
      <3> QED
        BY <3>1, <3>2, <3>3, Zenon
    <2>2. CASE i - L \in 1 .. Len(t) /\ i = L + (i - L)
      <3>1. P1[i] = n + 1 /\ Q1[i] = i - L /\ s[i] = t[i - L]
        BY <1>1, <1>2, <2>2
      <3> QED
        BY <2>2, <3>1
    <2> QED
      BY <1>3, <2>1, <2>2
  <1>6. ASSUME NEW k \in 1 .. n + 1, NEW j \in 1 .. Len(p[k])
        PROVE  \E i \in 1 .. Len(s) : P1[i] = k /\ Q1[i] = j
    <2>1. CASE k \in 1 .. n
      <3>1. PICK i \in 1 .. L : P[i] = k /\ Q[i] = j
        BY <1>4, <2>1
      <3> QED
        BY <1>2, <3>1
    <2>2. CASE k = n + 1
      <3>1. L + j \in 1 .. Len(s) /\ P1[L + j] = n + 1 /\ Q1[L + j] = j
        BY <1>2, <2>2
      <3> QED
        BY <2>2, <3>1
    <2> QED
      BY <2>1, <2>2
  <1>7. ASSUME NEW i \in 1 .. Len(s), NEW j \in 1 .. Len(s), i < j
        PROVE  P1[i] < P1[j] \/ (P1[i] = P1[j] /\ Q1[i] < Q1[j])
    <2>1. CASE i \in 1 .. L /\ j \in 1 .. L
      BY <1>2, <1>4, <1>7, <2>1
    <2>2. CASE i \in 1 .. L /\ j - L \in 1 .. Len(t) /\ j = L + (j - L)
      <3>1. P1[i] \in 1 .. n /\ P1[j] = n + 1
        BY <1>2, <1>4, <2>2
      <3> QED
        BY <3>1
    <2>3. CASE i - L \in 1 .. Len(t) /\ i = L + (i - L) /\ j - L \in 1 .. Len(t) /\ j = L + (j - L)
      <3>1. P1[i] = n + 1 /\ P1[j] = n + 1 /\ Q1[i] = i - L /\ Q1[j] = j - L
        BY <1>2, <2>3
      <3> QED
        BY <1>1, <1>7, <3>1
    <2>4. CASE j \in 1 .. L /\ i - L \in 1 .. Len(t)
      BY <1>1, <1>7, <2>4
    <2> QED
      BY <1>3, <2>1, <2>2, <2>3, <2>4
  <1>8. Places(s, n + 1, p, P1, Q1)
    BY <1>5, <1>6, <1>7 DEF Places
  <1> QED
    BY <1>8 DEF s

\* What is joined is the pieces one after the other.
LEMMA JoinedPlaces ==
  ASSUME NEW E, NEW n \in Nat, NEW p, \A k \in 1 .. n : p[k] \in Seq(E)
  PROVE  Joined(n, p) \in Seq(E) /\ \E P, Q : Places(Joined(n, p), n, p, P, Q)
  <1>0. PICK upTo : JoinsUp(upTo, E, n, p)
    BY JoinedUnfolds
  <1>1. /\ upTo[0] = <<>> /\ Joined(n, p) = upTo[n]
        /\ \A k \in 1 .. n : upTo[k] = upTo[k - 1] \o p[k]
        /\ \A k \in 0 .. n : upTo[k] \in Seq(E)
    BY <1>0 DEF JoinsUp
  <1> DEFINE S == {k \in 0 .. n : \E P, Q : Places(upTo[k], k, p, P, Q)}
  <1>2. 0 \in S
    <2>1. Places(<<>>, 0, p, <<>>, <<>>)
      BY DEF Places
    <2> QED
      BY <1>1, <2>1
  <1>3. ASSUME NEW k \in 0 .. n - 1, k \in S PROVE k + 1 \in S
    <2>1. PICK P, Q : Places(upTo[k], k, p, P, Q)
      BY <1>3
    <2>2. k + 1 \in 1 .. n /\ (k + 1) - 1 = k /\ k \in 0 .. n /\ k + 1 \in 0 .. n /\ k \in Nat
      OBVIOUS
    <2>3. upTo[k + 1] = upTo[k] \o p[k + 1] /\ upTo[k] \in Seq(E)
      BY <1>1, <2>2
    <2>4. \A j \in 1 .. k + 1 : p[j] \in Seq(E)
      OBVIOUS
    <2>5. \E P1, Q1 : Places(upTo[k] \o p[k + 1], k + 1, p, P1, Q1)
      BY <2>1, <2>2, <2>3, <2>4, PlacesNext
    <2> QED
      BY <2>2, <2>3, <2>5
  <1> HIDE DEF S
  <1>4. \A k \in 0 .. n : k \in S
    BY <1>2, <1>3, HandedOn
  <1>5. n \in 0 .. n
    OBVIOUS
  <1> QED
    BY <1>1, <1>4, <1>5 DEF S

\* r has the e[k] of S, in order.
Chosen(r, S, e, P) ==
    /\ \A i \in 1 .. Len(r) : P[i] \in S /\ r[i] = e[P[i]]
    /\ \A k \in S : \E i \in 1 .. Len(r) : P[i] = k
    /\ \A i, j \in 1 .. Len(r) : i < j => P[i] < P[j]

\* Pieces of one message or none: the chosen ones are left, in order.
LEMMA JoinedChosen ==
  ASSUME NEW E, NEW n \in Nat, NEW p, NEW e, NEW S \in SUBSET (1 .. n),
         \A k \in S : e[k] \in E /\ p[k] = <<e[k]>>, \A k \in 1 .. n : k \notin S => p[k] = <<>>
  PROVE  Joined(n, p) \in Seq(E) /\ \E P : Chosen(Joined(n, p), S, e, P)
  <1>1. ASSUME NEW k \in 1 .. n
        PROVE  p[k] \in Seq(E) /\ \A j \in 1 .. Len(p[k]) : k \in S /\ j = 1
    <2>1. CASE k \in S
      <3>1. p[k] = <<e[k]>> /\ e[k] \in E
        BY <2>1
      <3>2. <<e[k]>> \in Seq(E) /\ Len(<<e[k]>>) = 1
        BY <3>1
      <3> QED
        BY <2>1, <3>1, <3>2
    <2>2. CASE k \notin S
      <3>1. p[k] = <<>> /\ <<>> \in Seq(E) /\ Len(<<>>) = 0
        BY <2>2
      <3> QED
        BY <3>1
    <2> QED
      BY <2>1, <2>2
  <1>2. Joined(n, p) \in Seq(E) /\ \E P, Q : Places(Joined(n, p), n, p, P, Q)
    BY <1>1, JoinedPlaces
  <1> DEFINE r == Joined(n, p)
  <1> HIDE DEF r
  <1>3. PICK P, Q : Places(r, n, p, P, Q)
    BY <1>2 DEF r
  <1>4. ASSUME NEW i \in 1 .. Len(r) PROVE P[i] \in S /\ Q[i] = 1 /\ r[i] = e[P[i]]
    <2>1. P[i] \in 1 .. n /\ Q[i] \in 1 .. Len(p[P[i]]) /\ r[i] = p[P[i]][Q[i]]
      BY <1>3 DEF Places
    <2>2. P[i] \in S /\ Q[i] = 1
      BY <1>1, <2>1
    <2>3. p[P[i]] = <<e[P[i]]>>
      BY <2>2
    <2> QED
      BY <2>1, <2>2, <2>3
  <1>5. ASSUME NEW k \in S PROVE \E i \in 1 .. Len(r) : P[i] = k
    <2>1. k \in 1 .. n /\ 1 \in 1 .. Len(p[k])
      OBVIOUS
    <2> QED
      BY <1>3, <2>1 DEF Places
  <1>6. ASSUME NEW i \in 1 .. Len(r), NEW j \in 1 .. Len(r), i < j PROVE P[i] < P[j]
    <2>1. P[i] < P[j] \/ (P[i] = P[j] /\ Q[i] < Q[j])
      BY <1>3, <1>6 DEF Places
    <2>2. Q[i] = 1 /\ Q[j] = 1
      BY <1>4
    <2> QED
      BY <2>1, <2>2
  <1>7. r \in Seq(E)
    BY <1>2 DEF r
  <1> QED
    BY <1>4, <1>5, <1>6, <1>7 DEF r, Chosen
-----------------------------------------------------------------------------
(* The kinds of messages *)

\* What can be said of a message by its role.
LEMMA Kinds ==
  ASSUME NEW x \in Message
  PROVE  /\ x.row \in Nat /\ x.calls \subseteq 1 .. MaxCalls /\ x.folds \subseteq Nat
         /\ x.role \in {"user", "assistant", "tool"}
         /\ x.role = "user" => x.calls = {}
         /\ x.role = "assistant" => x.folds = {}
         /\ x.role = "tool" => x.row = 0 /\ x.folds = {} /\ \E c \in 1 .. MaxCalls : x = Tool(c)
  <1>1. CASE x \in [role : {"user"}, row : Nat, calls : {{}}, folds : SUBSET Nat]
    BY <1>1
  <1>2. CASE x \in [role : {"assistant"}, row : Nat, calls : SUBSET (1 .. MaxCalls), folds : {{}}]
    BY <1>2
  <1>3. CASE x \in {Tool(c) : c \in 1 .. MaxCalls}
    <2>1. PICK c \in 1 .. MaxCalls : x = Tool(c)
      BY <1>3
    <2>2. x.role = "tool" /\ x.row = 0 /\ x.calls = {c} /\ x.folds = {}
      BY <2>1 DEF Tool
    <2> QED
      BY <2>1, <2>2
  <1> QED
    BY <1>1, <1>2, <1>3 DEF Message

\* The messages that the program makes.
LEMMA Made ==
  /\ \A r \in Nat : User(r) \in Message /\ User(r).role = "user" /\ User(r).row = r
                    /\ User(r).calls = {} /\ User(r).folds = {}
  /\ \A r \in Nat, cs \in SUBSET (1 .. MaxCalls) :
        Assistant(r, cs) \in Message /\ Assistant(r, cs).role = "assistant"
        /\ Assistant(r, cs).row = r /\ Assistant(r, cs).calls = cs /\ Assistant(r, cs).folds = {}
  /\ \A c \in 1 .. MaxCalls : Tool(c) \in Message
  /\ \A c : Tool(c).role = "tool" /\ Tool(c).row = 0 /\ Tool(c).calls = {c} /\ Tool(c).folds = {}
  /\ \A f \in SUBSET Nat : Summary(f) \in Message /\ Summary(f).role = "user"
                           /\ Summary(f).row = 0 /\ Summary(f).calls = {} /\ Summary(f).folds = f
  <1>1. ASSUME NEW r \in Nat
        PROVE  User(r) \in Message /\ User(r).role = "user" /\ User(r).row = r
               /\ User(r).calls = {} /\ User(r).folds = {}
    BY DEF User, Message
  <1>2. ASSUME NEW r \in Nat, NEW cs \in SUBSET (1 .. MaxCalls)
        PROVE  Assistant(r, cs) \in Message /\ Assistant(r, cs).role = "assistant"
               /\ Assistant(r, cs).row = r /\ Assistant(r, cs).calls = cs /\ Assistant(r, cs).folds = {}
    BY DEF Assistant, Message
  <1>3. \A c \in 1 .. MaxCalls : Tool(c) \in Message
    BY DEF Message
  <1>4. \A c : Tool(c).role = "tool" /\ Tool(c).row = 0 /\ Tool(c).calls = {c} /\ Tool(c).folds = {}
    BY DEF Tool
  <1>5. ASSUME NEW f \in SUBSET Nat
        PROVE  Summary(f) \in Message /\ Summary(f).role = "user"
               /\ Summary(f).row = 0 /\ Summary(f).calls = {} /\ Summary(f).folds = f
    BY DEF Summary, Message
  <1> QED
    BY <1>1, <1>2, <1>3, <1>4, <1>5

\* The results of calls: each once, in order.
LEMMA ResultsOnce ==
  ASSUME NEW cs \in SUBSET (1 .. MaxCalls), MaxCalls \in Nat
  PROVE  /\ Results(cs) \in Seq(Message)
         /\ \A i \in 1 .. Len(Results(cs)) : \E c \in cs : Results(cs)[i] = Tool(c)
         /\ \A c \in cs : \E i \in 1 .. Len(Results(cs)) : Results(cs)[i] = Tool(c)
         /\ \A i, j \in 1 .. Len(Results(cs)) : i # j => Results(cs)[i] # Results(cs)[j]
  <1> DEFINE p == [c \in 1 .. MaxCalls |-> IF c \in cs THEN <<Tool(c)>> ELSE <<>>]
             e == [c \in 1 .. MaxCalls |-> Tool(c)]
             r == Joined(MaxCalls, p)
  <1>1. \A k \in cs : e[k] \in Message /\ p[k] = <<e[k]>>
    BY Made
  <1>2. \A k \in 1 .. MaxCalls : k \notin cs => p[k] = <<>>
    OBVIOUS
  <1>3. \A k \in cs : e[k] = Tool(k)
    OBVIOUS
  <1> HIDE DEF p, e
  <1>4. r \in Seq(Message) /\ \E P : Chosen(r, cs, e, P)
    BY <1>1, <1>2, JoinedChosen
  <1>5. r = Results(cs)
    BY DEF Results, p
  <1> HIDE DEF r
  <1>0. PICK P : Chosen(r, cs, e, P)
    BY <1>4
  <1>6. /\ \A i \in 1 .. Len(r) : P[i] \in cs /\ r[i] = e[P[i]]
        /\ \A k \in cs : \E i \in 1 .. Len(r) : P[i] = k
        /\ \A i, j \in 1 .. Len(r) : i < j => P[i] < P[j]
    BY <1>0 DEF Chosen
  <1>7. \A i \in 1 .. Len(r) : P[i] \in cs /\ r[i] = Tool(P[i])
    BY <1>3, <1>6
  <1>8. \A c \in cs : \E i \in 1 .. Len(r) : r[i] = Tool(c)
    BY <1>6, <1>7
  <1>9. ASSUME NEW i \in 1 .. Len(r), NEW j \in 1 .. Len(r), i # j PROVE r[i] # r[j]
    <2>1. i < j \/ j < i
      BY <1>4, <1>9
    <2>0. P[i] \in cs /\ P[j] \in cs /\ (P[i] < P[j] \/ P[j] < P[i])
      BY <1>6, <2>1
    <2>n. \A k \in cs : k \in Nat
      OBVIOUS
    <2>2. P[i] \in Nat /\ P[j] \in Nat /\ (P[i] < P[j] \/ P[j] < P[i])
      BY <2>0, <2>n
    <2>3. Tool(P[i]).calls = {P[i]} /\ Tool(P[j]).calls = {P[j]}
      BY Made
    <2>4. r[i] = Tool(P[i]) /\ r[j] = Tool(P[j])
      BY <1>7
    <2> QED
      BY <2>2, <2>3, <2>4
  <1> QED
    BY <1>4, <1>5, <1>7, <1>8, <1>9

\* The messages of rows: each row once, and no result.
LEMMA RowsOnce ==
  ASSUME NEW rows \in SUBSET (1 .. Len(db)), db \in Seq({"user", "assistant", "tool"})
  PROVE  /\ RowMessages(rows) \in Seq(Message)
         /\ \A i \in 1 .. Len(RowMessages(rows)) :
               /\ RowMessages(rows)[i].row \in rows /\ RowMessages(rows)[i].calls = {}
               /\ RowMessages(rows)[i].role # "tool"
         /\ \A k \in rows : \E i \in 1 .. Len(RowMessages(rows)) : RowMessages(rows)[i].row = k
         /\ \A i, j \in 1 .. Len(RowMessages(rows)) :
               i # j => RowMessages(rows)[i].row # RowMessages(rows)[j].row
  <1> DEFINE p == [k \in 1 .. Len(db) |-> IF k \in rows THEN <<RowMessage(k)>> ELSE <<>>]
             e == [k \in 1 .. Len(db) |-> RowMessage(k)]
             r == Joined(Len(db), p)
  <1>n. Len(db) \in Nat
    OBVIOUS
  <1>1. \A k \in 1 .. Len(db) : /\ RowMessage(k) \in Message /\ RowMessage(k).row = k
                                /\ RowMessage(k).calls = {} /\ RowMessage(k).role # "tool"
    <2> TAKE k \in 1 .. Len(db)
    <2>1. k \in Nat /\ {} \in SUBSET (1 .. MaxCalls)
      BY <1>n
    <2>2. /\ User(k) \in Message /\ User(k).row = k /\ User(k).calls = {} /\ User(k).role = "user"
          /\ Assistant(k, {}) \in Message /\ Assistant(k, {}).row = k /\ Assistant(k, {}).calls = {}
          /\ Assistant(k, {}).role = "assistant"
      BY <2>1, Made
    <2> QED
      BY <2>2 DEF RowMessage
  <1>2. \A k \in rows : e[k] \in Message /\ p[k] = <<e[k]>> /\ e[k] = RowMessage(k)
    BY <1>1
  <1>3. \A k \in 1 .. Len(db) : k \notin rows => p[k] = <<>>
    OBVIOUS
  <1> HIDE DEF p, e
  <1>4. r \in Seq(Message) /\ \E P : Chosen(r, rows, e, P)
    BY <1>n, <1>2, <1>3, JoinedChosen
  <1>5. r = RowMessages(rows)
    BY DEF RowMessages, p
  <1> HIDE DEF r
  <1>0. PICK P : Chosen(r, rows, e, P)
    BY <1>4
  <1>6. /\ \A i \in 1 .. Len(r) : P[i] \in rows /\ r[i] = e[P[i]]
        /\ \A k \in rows : \E i \in 1 .. Len(r) : P[i] = k
        /\ \A i, j \in 1 .. Len(r) : i < j => P[i] < P[j]
    BY <1>0 DEF Chosen
  <1>7. ASSUME NEW i \in 1 .. Len(r)
        PROVE  P[i] \in rows /\ r[i].row = P[i] /\ r[i].calls = {} /\ r[i].role # "tool"
    <2>1. P[i] \in rows /\ r[i] = RowMessage(P[i])
      BY <1>2, <1>6
    <2> QED
      BY <1>1, <2>1
  <1>8. \A k \in rows : \E i \in 1 .. Len(r) : r[i].row = k
    BY <1>6, <1>7
  <1>9. ASSUME NEW i \in 1 .. Len(r), NEW j \in 1 .. Len(r), i # j PROVE r[i].row # r[j].row
    <2>1. i < j \/ j < i
      BY <1>4, <1>9
    <2>0. P[i] \in rows /\ P[j] \in rows /\ (P[i] < P[j] \/ P[j] < P[i])
      BY <1>6, <2>1
    <2>n. \A k \in rows : k \in Nat
      OBVIOUS
    <2>2. P[i] \in Nat /\ P[j] \in Nat /\ (P[i] < P[j] \/ P[j] < P[i])
      BY <2>0, <2>n
    <2> QED
      BY <1>7, <2>2
  <1> QED
    BY <1>4, <1>5, <1>7, <1>8, <1>9
-----------------------------------------------------------------------------
(* What a repair does *)

Missing(m, k) == Asked(m, k) \ Heard(m, k)

\* Each place i of r is the message P[i] of m (Q[i] = 1), or a made-up result after the
\* run of results that P[i] closes.
Repaired(m, r, P, Q) ==
    /\ \A i \in 1 .. Len(r) :
          /\ P[i] \in 1 .. Len(m) /\ Q[i] \in Nat
          /\ \/ Q[i] = 1 /\ r[i] = m[P[i]]
             \/ Q[i] > 1 /\ ClosesRun(m, P[i]) /\ \E c \in Missing(m, P[i]) : r[i] = Tool(c)
    /\ \A k \in 1 .. Len(m) : \E i \in 1 .. Len(r) : P[i] = k /\ Q[i] = 1
    /\ \A k \in 1 .. Len(m) : ClosesRun(m, k) =>
          \A c \in Missing(m, k) : \E i \in 1 .. Len(r) : P[i] = k /\ Q[i] > 1 /\ r[i] = Tool(c)
    /\ \A i, j \in 1 .. Len(r) : i < j => P[i] < P[j] \/ (P[i] = P[j] /\ Q[i] < Q[j])
    /\ \A i, j \in 1 .. Len(r) :
          P[i] = P[j] /\ Q[i] > 1 /\ Q[j] > 1 /\ r[i] = r[j] => i = j

\* Where each message and each result that was added lies in what Repair returns.
LEMMA RepairPlaces ==
  ASSUME NEW m \in Seq(Message), MaxCalls \in Nat
  PROVE  Repair(m) \in Seq(Message) /\ \E P, Q : Repaired(m, Repair(m), P, Q)
  <1> DEFINE res(k) == Results(Missing(m, k))
             p == [k \in 1 .. Len(m) |-> <<m[k]>> \o IF ClosesRun(m, k) THEN Results(Missing(m, k)) ELSE <<>>]
             n == Len(m)
             r == Joined(n, p)
  <1>0. n \in Nat /\ \A k \in 1 .. n : m[k] \in Message
    OBVIOUS
  <1>1. \A k \in 1 .. n : Missing(m, k) \in SUBSET (1 .. MaxCalls)
    <2> SUFFICES ASSUME NEW k \in 1 .. n, NEW c \in Missing(m, k) PROVE c \in 1 .. MaxCalls
      OBVIOUS
    <2>1. PICK i \in 1 .. k : c \in m[i].calls
      BY DEF Missing, Asked
    <2>2. i \in 1 .. n
      BY <1>0
    <2>3. m[i].calls \subseteq 1 .. MaxCalls
      BY <1>0, <2>2, Kinds
    <2> QED
      BY <2>1, <2>3
  <1>2. \A k \in 1 .. n :
           /\ res(k) \in Seq(Message)
           /\ \A i \in 1 .. Len(res(k)) : \E c \in Missing(m, k) : res(k)[i] = Tool(c)
           /\ \A c \in Missing(m, k) : \E i \in 1 .. Len(res(k)) : res(k)[i] = Tool(c)
           /\ \A i, j \in 1 .. Len(res(k)) : i # j => res(k)[i] # res(k)[j]
    BY <1>1, ResultsOnce
  <1>3. ASSUME NEW k \in 1 .. n
        PROVE  /\ p[k] \in Seq(Message) /\ Len(p[k]) \in Nat /\ Len(p[k]) >= 1 /\ p[k][1] = m[k]
               /\ ~ClosesRun(m, k) => Len(p[k]) = 1
               /\ ClosesRun(m, k) => /\ Len(p[k]) = 1 + Len(res(k)) /\ Len(res(k)) \in Nat
                                     /\ \A i \in 1 .. Len(res(k)) : p[k][i + 1] = res(k)[i]
    <2>1. m[k] \in Message /\ <<m[k]>> \in Seq(Message) /\ Len(<<m[k]>>) = 1 /\ <<m[k]>>[1] = m[k]
      BY <1>0
    <2>2. res(k) \in Seq(Message)
      BY <1>2
    <2>3. CASE ClosesRun(m, k)
      <3>1. p[k] = <<m[k]>> \o res(k)
        BY <2>3
      <3> HIDE DEF res, p
      <3> QED
        BY <2>1, <2>2, <2>3, <3>1
    <2>4. CASE ~ClosesRun(m, k)
      <3>1. p[k] = <<m[k]>> \o <<>>
        BY <2>4
      <3> HIDE DEF p
      <3> QED
        BY <2>1, <2>4, <3>1
    <2> QED
      BY <2>3, <2>4
  <1>r. r = Repair(m)
    BY DEF Repair, Missing
  <1> HIDE DEF p, res, n
  <1>4. r \in Seq(Message) /\ \E P, Q : Places(r, n, p, P, Q)
    BY <1>0, <1>3, JoinedPlaces
  <1> HIDE DEF r
  <1>5. PICK P, Q : Places(r, n, p, P, Q)
    BY <1>4
  <1>6. ASSUME NEW i \in 1 .. Len(r)
        PROVE  /\ P[i] \in 1 .. n /\ Q[i] \in Nat
               /\ \/ Q[i] = 1 /\ r[i] = m[P[i]]
                  \/ /\ Q[i] > 1 /\ ClosesRun(m, P[i]) /\ Q[i] - 1 \in 1 .. Len(res(P[i]))
                     /\ r[i] = res(P[i])[Q[i] - 1]
                     /\ \E c \in Missing(m, P[i]) : r[i] = Tool(c)
    <2>1. P[i] \in 1 .. n /\ Q[i] \in 1 .. Len(p[P[i]]) /\ r[i] = p[P[i]][Q[i]]
      BY <1>5 DEF Places
    <2>2. Q[i] \in Nat
      BY <2>1
    <2>3. CASE Q[i] = 1
      <3>1. p[P[i]][1] = m[P[i]]
        BY <1>3, <2>1
      <3> QED
        BY <2>1, <2>2, <2>3, <3>1
    <2>4. CASE Q[i] # 1
      <3>1. Len(p[P[i]]) \in Nat /\ Q[i] > 1 /\ Len(p[P[i]]) # 1
        BY <1>3, <2>1, <2>4
      <3>2. ClosesRun(m, P[i]) /\ Len(p[P[i]]) = 1 + Len(res(P[i])) /\ Len(res(P[i])) \in Nat
        BY <1>3, <2>1, <3>1
      <3>3. Q[i] - 1 \in 1 .. Len(res(P[i])) /\ Q[i] = (Q[i] - 1) + 1
        BY <2>1, <3>1, <3>2
      <3>4. r[i] = res(P[i])[Q[i] - 1]
        <4>1. \A j \in 1 .. Len(res(P[i])) : p[P[i]][j + 1] = res(P[i])[j]
          BY <1>3, <2>1, <3>2
        <4> QED
          BY <2>1, <3>3, <4>1
      <3>5. \E c \in Missing(m, P[i]) : res(P[i])[Q[i] - 1] = Tool(c)
        BY <1>2, <2>1, <3>3
      <3> QED
        BY <2>1, <2>2, <3>1, <3>2, <3>3, <3>4, <3>5
    <2> QED
      BY <2>3, <2>4
  <1>7. ASSUME NEW k \in 1 .. n PROVE \E i \in 1 .. Len(r) : P[i] = k /\ Q[i] = 1
    <2>1. 1 \in 1 .. Len(p[k])
      BY <1>3
    <2> QED
      BY <1>5, <2>1 DEF Places
  <1>8. ASSUME NEW k \in 1 .. n, ClosesRun(m, k), NEW c \in Missing(m, k)
        PROVE  \E i \in 1 .. Len(r) : P[i] = k /\ Q[i] > 1 /\ r[i] = Tool(c)
    <2>1. PICK j \in 1 .. Len(res(k)) : res(k)[j] = Tool(c)
      BY <1>2
    <2>2. Len(p[k]) = 1 + Len(res(k)) /\ Len(res(k)) \in Nat /\ p[k][j + 1] = res(k)[j]
      BY <1>3, <1>8
    <2>3. j + 1 \in 1 .. Len(p[k]) /\ j + 1 > 1
      BY <2>2
    <2>4. PICK i \in 1 .. Len(r) : P[i] = k /\ Q[i] = j + 1
      BY <1>5, <2>3 DEF Places
    <2>5. r[i] = p[k][j + 1]
      BY <1>5, <2>4 DEF Places
    <2> QED
      BY <2>1, <2>2, <2>3, <2>4, <2>5
  <1>9. \A i, j \in 1 .. Len(r) : i < j => P[i] < P[j] \/ (P[i] = P[j] /\ Q[i] < Q[j])
    BY <1>5 DEF Places
  <1>10. ASSUME NEW i \in 1 .. Len(r), NEW j \in 1 .. Len(r),
                P[i] = P[j], Q[i] > 1, Q[j] > 1, r[i] = r[j]
         PROVE  i = j
    <2>1. /\ P[i] \in 1 .. n /\ Q[i] - 1 \in 1 .. Len(res(P[i])) /\ r[i] = res(P[i])[Q[i] - 1]
          /\ Q[i] \in Nat
      BY <1>6, <1>10
    <2>2. /\ Q[j] - 1 \in 1 .. Len(res(P[i])) /\ r[j] = res(P[i])[Q[j] - 1]
          /\ Q[j] \in Nat
      BY <1>6, <1>10
    <2>3. Q[i] - 1 = Q[j] - 1
      BY <1>2, <1>10, <2>1, <2>2
    <2>4. Q[i] = Q[j]
      BY <2>1, <2>2, <2>3
    <2>5. ~(i < j) /\ ~(j < i)
      BY <1>9, <1>10, <2>1, <2>2, <2>4
    <2> QED
      BY <1>4, <2>5
  <1>11. Repaired(m, r, P, Q)
    BY <1>6, <1>7, <1>8, <1>9, <1>10 DEF Repaired, n
  <1> QED
    BY <1>4, <1>11, <1>r

\* The places of what was there before are in their order.
LEMMA RepairedOrder ==
  ASSUME NEW m \in Seq(Message), NEW r \in Seq(Message), NEW P, NEW Q, Repaired(m, r, P, Q),
         NEW i \in 1 .. Len(r), NEW j \in 1 .. Len(r)
  PROVE  /\ P[i] \in 1 .. Len(m) /\ Q[i] \in Nat /\ Q[i] >= 1 /\ P[j] \in 1 .. Len(m) /\ Q[j] \in Nat
         /\ P[i] < P[j] => i < j
         /\ i < j => P[i] <= P[j]
         /\ i < j /\ Q[j] = 1 => P[i] < P[j]
         /\ P[i] = P[j] /\ Q[i] = Q[j] => i = j
         /\ Q[i] = 1 => r[i] = m[P[i]]
         /\ Q[i] # 1 => /\ Q[i] > 1 /\ ClosesRun(m, P[i])
                        /\ \E c \in Missing(m, P[i]) : r[i] = Tool(c)
  <1>0. \A k \in 1 .. Len(r) :
           /\ P[k] \in 1 .. Len(m) /\ Q[k] \in Nat
           /\ \/ Q[k] = 1 /\ r[k] = m[P[k]]
              \/ Q[k] > 1 /\ ClosesRun(m, P[k]) /\ \E c \in Missing(m, P[k]) : r[k] = Tool(c)
    BY Zenon DEF Repaired
  <1>1. /\ P[i] \in 1 .. Len(m) /\ Q[i] \in Nat /\ Q[i] >= 1
        /\ P[j] \in 1 .. Len(m) /\ Q[j] \in Nat /\ Q[j] >= 1
    <2>1. \A k \in 1 .. Len(r) : P[k] \in 1 .. Len(m) /\ Q[k] \in Nat /\ (Q[k] = 1 \/ Q[k] > 1)
      BY <1>0, Zenon
    <2> QED
      BY <2>1
  <1>5. (Q[i] = 1 => r[i] = m[P[i]])
        /\ (Q[i] # 1 => /\ Q[i] > 1 /\ ClosesRun(m, P[i])
                        /\ \E c \in Missing(m, P[i]) : r[i] = Tool(c))
    <2>1. ~(1 > 1)
      OBVIOUS
    <2> QED
      BY <1>0, <2>1, Zenon
  <1>2. /\ i < j => P[i] < P[j] \/ (P[i] = P[j] /\ Q[i] < Q[j])
        /\ j < i => P[j] < P[i] \/ (P[j] = P[i] /\ Q[j] < Q[i])
    BY DEF Repaired
  <1>3. i \in Nat /\ j \in Nat /\ Len(m) \in Nat
    OBVIOUS
  <1>4. P[i] \in Nat /\ P[j] \in Nat
    BY <1>1, <1>3
  <1> QED
    BY <1>1, <1>2, <1>3, <1>4, <1>5

\* A run of results belongs to one message with calls.
LEMMA OneAsks ==
  ASSUME NEW m \in Seq(Message), NEW k \in 1 .. Len(m), NEW i \in 1 .. k, NEW j \in 1 .. k,
         m[i].role = "assistant", m[j].role = "assistant", Answers(m, i, k), Answers(m, j, k)
  PROVE  i = j
  <1>1. CASE i < j
    <2>1. j \in i + 1 .. k
      BY <1>1
    <2> QED
      BY <2>1 DEF Answers
  <1>2. CASE j < i
    <2>1. i \in j + 1 .. k
      BY <1>2
    <2> QED
      BY <2>1 DEF Answers
  <1> QED
    BY <1>1, <1>2

\* The run of an assistant's message stays a run: nothing is put before what is there.
LEMMA RunKept ==
  ASSUME NEW m \in Seq(Message), NEW r \in Seq(Message), NEW P, NEW Q, Repaired(m, r, P, Q),
         NEW a \in 1 .. Len(r), r[a].role = "assistant"
  PROVE  /\ Q[a] = 1 /\ r[a] = m[P[a]]
         /\ \A i \in 1 .. Len(r) : a < i => (Answers(r, a, i) <=> Answers(m, P[a], P[i]))
  <1>1. Q[a] = 1 /\ r[a] = m[P[a]]
    <2>1. \A c : Tool(c).role # "assistant"
      BY Made
    <2> QED
      BY <2>1 DEF Repaired
  <1>2. ASSUME NEW i \in 1 .. Len(r), a < i, Answers(r, a, i), NEW j \in P[a] + 1 .. P[i]
        PROVE  m[j].role = "tool"
    <2>1. P[a] \in 1 .. Len(m) /\ P[i] \in 1 .. Len(m) /\ j \in 1 .. Len(m) /\ P[a] < j /\ j <= P[i]
      BY <1>2, RepairedOrder
    <2>2. PICK b \in 1 .. Len(r) : P[b] = j /\ Q[b] = 1
      BY <2>1 DEF Repaired
    <2>3. a < b
      BY <2>1, <2>2, RepairedOrder
    <2>4. ~(i < b)
      <3>1. i < b => P[i] < P[b]
        BY <2>2, RepairedOrder
      <3> QED
        BY <2>1, <2>2, <3>1
    <2>5. b \in a + 1 .. i
      BY <2>3, <2>4
    <2>6. r[b].role = "tool"
      BY <1>2, <2>5 DEF Answers
    <2>7. r[b] = m[j]
      BY <2>2, RepairedOrder
    <2> QED
      BY <2>6, <2>7
  <1>3. ASSUME NEW i \in 1 .. Len(r), a < i, Answers(m, P[a], P[i]), NEW j \in a + 1 .. i
        PROVE  r[j].role = "tool"
    <2>1. j \in 1 .. Len(r) /\ a < j /\ j <= i
      OBVIOUS
    <2>2. CASE Q[j] = 1 /\ r[j] = m[P[j]]
      <3>1. P[a] < P[j]
        BY <2>1, <2>2, RepairedOrder
      <3>2. P[j] <= P[i]
        <4>1. j < i => P[j] <= P[i]
          BY <2>1, RepairedOrder
        <4>2. P[i] \in 1 .. Len(m)
          BY RepairedOrder
        <4>3. j = i \/ j < i
          BY <2>1
        <4> QED
          BY <4>1, <4>2, <4>3
      <3>3. P[a] \in 1 .. Len(m) /\ P[i] \in 1 .. Len(m) /\ P[j] \in 1 .. Len(m)
        BY <2>1, RepairedOrder
      <3>4. P[j] \in P[a] + 1 .. P[i]
        BY <3>1, <3>2, <3>3
      <3> QED
        BY <1>3, <2>2, <3>4 DEF Answers
    <2>3. CASE \E c \in Missing(m, P[j]) : r[j] = Tool(c)
      BY <2>3, Made
    <2> QED
      BY <2>1, <2>2, <2>3 DEF Repaired
  <1> QED
    BY <1>1, <1>2, <1>3 DEF Answers

\* What a message with calls in a run asked for is what the run was asked for.
LEMMA AskedIs ==
  ASSUME NEW m \in Seq(Message), NEW k \in 1 .. Len(m), NEW i \in 1 .. k,
         m[i].role = "assistant", Answers(m, i, k)
  PROVE  Asked(m, k) = m[i].calls
  <1>1. \A j \in 1 .. k : m[j].role = "assistant" /\ Answers(m, j, k) => j = i
    BY OneAsks
  <1>2. {j \in 1 .. k : m[j].role = "assistant" /\ Answers(m, j, k)} = {i}
    BY <1>1
  <1> QED
    BY <1>2 DEF Asked

\* A result in a run that ends at k has been heard there.
LEMMA HeardIs ==
  ASSUME NEW m \in Seq(Message), NEW k \in 1 .. Len(m), NEW i \in 1 .. k, NEW c,
         m[i] = Tool(c), Answers(m, i, k)
  PROVE  c \in Heard(m, k)
  <1>1. m[i].role = "tool" /\ c \in m[i].calls
    BY Made
  <1> QED
    BY <1>1 DEF Heard

\* A run that is closed goes no further.
LEMMA Closes ==
  ASSUME NEW m \in Seq(Message), NEW k \in 1 .. Len(m), NEW i \in 1 .. k, NEW j \in 1 .. Len(m),
         ClosesRun(m, k), Answers(m, i, j)
  PROVE  j <= k
  <1> SUFFICES ASSUME k < j PROVE FALSE
    OBVIOUS
  <1>1. k + 1 \in i + 1 .. j /\ k # Len(m)
    OBVIOUS
  <1> QED
    BY <1>1 DEF ClosesRun, Answers

\* Repairing keeps the runs good: a made-up result is one that was asked for and missing.
LEMMA RepairGood ==
  ASSUME NEW m \in Seq(Message), Good(m), MaxCalls \in Nat
  PROVE  Good(Repair(m))
  <1> DEFINE r == Repair(m)
  <1>1. r \in Seq(Message) /\ \E P, Q : Repaired(m, r, P, Q)
    BY RepairPlaces
  <1> HIDE DEF r
  <1>2. PICK P, Q : Repaired(m, r, P, Q)
    BY <1>1
  <1>3. \A i \in 1 .. Len(r) : P[i] \in 1 .. Len(m) /\ P[i] \in Nat /\ Q[i] \in Nat /\ Q[i] >= 1
    <2>1. \A i \in 1 .. Len(r) : P[i] \in 1 .. Len(m) /\ Q[i] \in Nat /\ Q[i] >= 1
      BY <1>1, <1>2, RepairedOrder
    <2> QED
      BY <2>1
  <1>4. ASSUME NEW a \in 1 .. Len(r), Calling(r, a)
        PROVE  Q[a] = 1 /\ r[a] = m[P[a]] /\ Calling(m, P[a])
               /\ \A i \in 1 .. Len(r) : a < i => (Answers(r, a, i) <=> Answers(m, P[a], P[i]))
    <2>1. r[a].role = "assistant" /\ r[a].calls # {}
      BY <1>4 DEF Calling
    <2>2. Q[a] = 1 /\ r[a] = m[P[a]]
          /\ \A i \in 1 .. Len(r) : a < i => (Answers(r, a, i) <=> Answers(m, P[a], P[i]))
      BY <1>1, <1>2, <2>1, RunKept
    <2> QED
      BY <2>1, <2>2 DEF Calling
  <1>5. ASSUME NEW a \in 1 .. Len(r), Calling(r, a), NEW i \in 1 .. Len(r), a < i, Answers(r, a, i)
        PROVE  /\ Answers(m, P[a], P[i]) /\ P[a] <= P[i]
               /\ Q[i] = 1 => P[a] < P[i] /\ r[i] = m[P[i]]
               /\ Q[i] # 1 => /\ Q[i] > 1 /\ ClosesRun(m, P[i])
                              /\ \E c \in m[P[a]].calls \ Heard(m, P[i]) : r[i] = Tool(c)
    <2>1. Answers(m, P[a], P[i])
      BY <1>4, <1>5
    <2>2. P[a] <= P[i] /\ (Q[i] = 1 => P[a] < P[i])
      BY <1>1, <1>2, <1>5, RepairedOrder
    <2>3. Q[i] = 1 => r[i] = m[P[i]]
      BY <1>2 DEF Repaired
    <2>4. Q[i] # 1 => Q[i] > 1 /\ ClosesRun(m, P[i]) /\ \E c \in Missing(m, P[i]) : r[i] = Tool(c)
      BY <1>2 DEF Repaired
    <2>5. Asked(m, P[i]) = m[P[a]].calls
      <3>1. P[a] \in 1 .. P[i] /\ m[P[a]].role = "assistant"
        BY <1>3, <1>4, <1>5, <2>2 DEF Calling
      <3> QED
        BY <1>3, <2>1, <3>1, AskedIs
    <2> QED
      BY <2>1, <2>2, <2>3, <2>4, <2>5 DEF Missing
  <1>6. ASSUME NEW i \in 1 .. Len(r), NEW k \in 1 .. Len(r), i < k, Calling(r, i), Answers(r, i, k)
        PROVE  r[k].calls \subseteq r[i].calls
    <2>1. r[i] = m[P[i]] /\ Calling(m, P[i])
      BY <1>4, <1>6
    <2>2. CASE Q[k] = 1
      <3>1. P[i] < P[k] /\ r[k] = m[P[k]] /\ Answers(m, P[i], P[k])
        BY <1>5, <1>6, <2>2
      <3>2. m[P[k]].calls \subseteq m[P[i]].calls
        BY <1>3, <2>1, <3>1 DEF Good
      <3> QED
        BY <2>1, <3>1, <3>2
    <2>3. CASE Q[k] # 1
      <3>1. PICK c \in m[P[i]].calls : r[k] = Tool(c)
        BY <1>5, <1>6, <2>3
      <3>2. r[k].calls = {c}
        BY <3>1, Made
      <3> QED
        BY <2>1, <3>1, <3>2
    <2> QED
      BY <2>2, <2>3
  <1>7. ASSUME NEW i \in 1 .. Len(r), NEW j \in 1 .. Len(r), NEW k \in 1 .. Len(r),
               i < j, j < k, Calling(r, i), Answers(r, i, k), r[j] = r[k]
        PROVE  FALSE
    <2>1. Answers(r, i, j)
      BY <1>7 DEF Answers
    <2>2. r[i] = m[P[i]] /\ Calling(m, P[i])
      BY <1>4, <1>7
    <2>3. P[j] <= P[k] /\ P[i] <= P[j] /\ (Q[k] = 1 => P[j] < P[k])
      BY <1>1, <1>2, <1>7, RepairedOrder
    <2>4. Answers(m, P[i], P[k]) /\ Answers(m, P[i], P[j])
      BY <1>5, <1>7, <2>1
    <2>5. CASE Q[j] = 1 /\ Q[k] = 1
      <3>1. P[i] < P[j] /\ P[j] < P[k] /\ r[j] = m[P[j]] /\ r[k] = m[P[k]]
        BY <1>5, <1>7, <2>1, <2>3, <2>5
      <3>2. P[i] \in 1 .. Len(m) /\ P[j] \in 1 .. Len(m) /\ P[k] \in 1 .. Len(m)
        BY <1>3, <1>7
      <3>3. m[P[j]] # m[P[k]]
        BY <2>2, <2>4, <3>1, <3>2, Zenon DEF Good
      <3> QED
        BY <1>7, <3>1, <3>3
    <2>6. CASE Q[j] # 1
      <3>1. ClosesRun(m, P[j]) /\ Q[j] > 1
        BY <1>5, <1>7, <2>1, <2>6
      <3>2. P[k] <= P[j]
        <4>1. P[i] \in 1 .. P[j] /\ P[j] \in 1 .. Len(m) /\ P[k] \in 1 .. Len(m)
          BY <1>3, <1>7, <2>3
        <4> QED
          BY <2>4, <3>1, <4>1, Closes
      <3>3. P[k] = P[j]
        BY <1>3, <2>3, <3>2
      <3>4. Q[k] # 1
        BY <1>3, <2>3, <3>3
      <3>5. Q[k] > 1
        BY <1>3, <3>4
      <3>6. j = k
        BY <1>2, <1>7, <3>1, <3>3, <3>5 DEF Repaired
      <3> QED
        BY <1>7, <3>6
    <2>7. CASE Q[j] = 1 /\ Q[k] # 1
      <3>1. P[i] < P[j] /\ r[j] = m[P[j]]
        BY <1>5, <1>7, <2>1, <2>7
      <3>2. PICK c \in m[P[i]].calls \ Heard(m, P[k]) : r[k] = Tool(c)
        BY <1>5, <1>7, <2>7
      <3>3. P[j] \in 1 .. P[k] /\ P[k] \in 1 .. Len(m) /\ m[P[j]] = Tool(c)
        <4>1. P[j] \in 1 .. Len(m) /\ P[k] \in 1 .. Len(m)
          BY <1>3, <1>7
        <4>2. P[j] \in 1 .. P[k]
          BY <2>3, <4>1
        <4>3. m[P[j]] = Tool(c)
          BY <1>7, <3>1, <3>2
        <4> QED
          BY <4>1, <4>2, <4>3
      <3>4. Answers(m, P[j], P[k])
        <4>1. \A x \in P[j] + 1 .. P[k] : x \in P[i] + 1 .. P[k]
          BY <1>3, <1>7, <3>1
        <4> QED
          BY <2>4, <4>1 DEF Answers
      <3>5. c \in Heard(m, P[k])
        BY <3>3, <3>4, HeardIs
      <3> QED
        BY <3>2, <3>5
    <2> QED
      BY <2>5, <2>6, <2>7
  <1>8. ASSUME NEW i \in 1 .. Len(r), NEW j \in 1 .. Len(r), i # j, Calling(r, i), Calling(r, j)
        PROVE  r[i].calls \cap r[j].calls = {}
    <2>1. /\ Q[i] = 1 /\ Q[j] = 1 /\ r[i] = m[P[i]] /\ r[j] = m[P[j]]
          /\ Calling(m, P[i]) /\ Calling(m, P[j])
      BY <1>4, <1>8
    <2>2. P[i] # P[j]
      BY <1>1, <1>2, <1>8, <2>1, RepairedOrder
    <2> QED
      BY <1>3, <2>1, <2>2 DEF Good
  <1> QED
    BY <1>6, <1>7, <1>8 DEF Good, r

\* Every run of results ends.
LEMMA RunEnds ==
  ASSUME NEW m \in Seq(Message), NEW i \in 1 .. Len(m)
  PROVE  \E k \in i .. Len(m) : Answers(m, i, k) /\ ClosesRun(m, k)
  <1> DEFINE T == {k \in i .. Len(m) : ClosesRun(m, k)}
  <1>1. T \subseteq Nat /\ T # {}
    <2>1. Len(m) \in i .. Len(m)
      OBVIOUS
    <2> QED
      BY <2>1 DEF ClosesRun
  <1>2. PICK k \in T : \A j \in T : k <= j
    BY <1>1, LeastOf
  <1>3. ASSUME NEW j \in i + 1 .. k PROVE m[j].role = "tool"
    <2>1. k \in i .. Len(m) /\ Len(m) \in Nat
      OBVIOUS
    <2>2. j - 1 \in i .. Len(m) /\ ~(k <= j - 1) /\ (j - 1) + 1 = j
      BY <2>1
    <2>3. ~ClosesRun(m, j - 1)
      BY <1>2, <2>2
    <2> QED
      BY <2>2, <2>3 DEF ClosesRun
  <1> QED
    BY <1>2, <1>3 DEF Answers

\* Every call has its result in the run of its message.
Complete(m) ==
    \A i \in 1 .. Len(m) : m[i].role = "assistant" =>
        \A c \in m[i].calls : \E k \in i + 1 .. Len(m) : m[k] = Tool(c) /\ Answers(m, i, k)

\* A repair leaves no call without a result.
LEMMA RepairComplete ==
  ASSUME NEW m \in Seq(Message), MaxCalls \in Nat
  PROVE  Complete(Repair(m))
  <1> DEFINE r == Repair(m)
  <1>1. r \in Seq(Message) /\ \E P, Q : Repaired(m, r, P, Q)
    BY RepairPlaces
  <1> HIDE DEF r
  <1>2. PICK P, Q : Repaired(m, r, P, Q)
    BY <1>1
  <1>3. ASSUME NEW a \in 1 .. Len(r), r[a].role = "assistant", NEW c \in r[a].calls
        PROVE  \E k \in a + 1 .. Len(r) : r[k] = Tool(c) /\ Answers(r, a, k)
    <2>1. /\ Q[a] = 1 /\ r[a] = m[P[a]] /\ P[a] \in 1 .. Len(m)
          /\ \A i \in 1 .. Len(r) : a < i => (Answers(r, a, i) <=> Answers(m, P[a], P[i]))
      BY <1>1, <1>2, <1>3, RunKept, RepairedOrder
    <2>2. PICK e \in P[a] .. Len(m) : Answers(m, P[a], e) /\ ClosesRun(m, e)
      BY <2>1, RunEnds
    <2>3. e \in 1 .. Len(m) /\ P[a] \in 1 .. e /\ P[a] <= e
      BY <2>1, <2>2
    <2>4. c \in Asked(m, e)
      <3>1. m[P[a]].role = "assistant" /\ c \in m[P[a]].calls
        BY <1>3, <2>1
      <3> QED
        BY <2>2, <2>3, <3>1 DEF Asked
    <2>5. CASE c \in Heard(m, e)
      <3>1. PICK i \in 1 .. e : m[i].role = "tool" /\ Answers(m, i, e) /\ c \in m[i].calls
        BY <2>5 DEF Heard
      <3>2. i \in 1 .. Len(m) /\ m[i] \in Message
        BY <2>3
      <3>3. m[i] = Tool(c)
        <4>1. PICK d \in 1 .. MaxCalls : m[i] = Tool(d)
          BY <3>1, <3>2, Kinds
        <4>2. m[i].calls = {d}
          BY <4>1, Made
        <4> QED
          BY <3>1, <4>1, <4>2
      <3>4. P[a] < i
        <4>1. i # P[a]
          BY <1>3, <2>1, <3>1
        <4>2. ~(i < P[a])
          <5> SUFFICES ASSUME i < P[a] PROVE FALSE
            OBVIOUS
          <5>1. P[a] \in i + 1 .. e
            BY <2>3, <3>2
          <5>2. m[P[a]].role = "tool"
            BY <3>1, <5>1 DEF Answers
          <5> QED
            BY <1>3, <2>1, <5>2
        <4> QED
          BY <2>1, <3>2, <4>1, <4>2
      <3>5. PICK k \in 1 .. Len(r) : P[k] = i /\ Q[k] = 1
        BY <1>2, <3>2 DEF Repaired
      <3>6. r[k] = Tool(c) /\ a < k
        BY <1>1, <1>2, <3>3, <3>4, <3>5, RepairedOrder
      <3>7. Answers(m, P[a], P[k])
        <4>1. \A x \in P[a] + 1 .. i : x \in P[a] + 1 .. e
          BY <2>3, <3>1
        <4> QED
          BY <2>2, <3>5, <4>1 DEF Answers
      <3>8. k \in a + 1 .. Len(r) /\ Answers(r, a, k)
        BY <2>1, <3>6, <3>7
      <3> QED
        BY <3>6, <3>8
    <2>6. CASE c \notin Heard(m, e)
      <3>1. c \in Missing(m, e)
        BY <2>4, <2>6 DEF Missing
      <3>2. PICK k \in 1 .. Len(r) : P[k] = e /\ Q[k] > 1 /\ r[k] = Tool(c)
        BY <1>2, <2>2, <2>3, <3>1 DEF Repaired
      <3>3. a < k
        <4>1. k # a
          BY <2>1, <3>2
        <4>2. ~(k < a)
          <5>1. k < a => P[k] < P[a]
            BY <1>1, <1>2, <2>1, RepairedOrder
          <5> QED
            BY <2>1, <2>3, <3>2, <5>1
        <4> QED
          BY <4>1, <4>2
      <3>4. Answers(r, a, k)
        BY <2>1, <2>2, <3>2, <3>3
      <3>5. k \in a + 1 .. Len(r)
        BY <3>3
      <3> QED
        BY <3>2, <3>4, <3>5
    <2> QED
      BY <2>5, <2>6
  <1> QED
    BY <1>3 DEF Complete, r

Belongs(m, k) == m[k].role = "tool" => \E i \in 1 .. (k - 1) : CallsTools(m, i, k)

\* The results that belong to no call are left out of a request, the rest stays in order.
LEMMA StripPlaces ==
  ASSUME NEW m \in Seq(Message)
  PROVE  /\ StripOrphans(m) \in Seq(Message)
         /\ \E P : Chosen(StripOrphans(m), {k \in 1 .. Len(m) : Belongs(m, k)}, m, P)
  <1> DEFINE n == Len(m)
             p == [k \in 1 .. n |->
                      IF m[k].role = "tool" /\ ~\E i \in 1 .. (k - 1) : CallsTools(m, i, k)
                      THEN <<>> ELSE <<m[k]>>]
             S == {k \in 1 .. n : Belongs(m, k)}
  <1>1. n \in Nat /\ S \in SUBSET (1 .. n)
    OBVIOUS
  <1>2. ASSUME NEW k \in S PROVE m[k] \in Message /\ p[k] = <<m[k]>>
    BY DEF Belongs
  <1>3. ASSUME NEW k \in 1 .. n, k \notin S PROVE p[k] = <<>>
    BY <1>3 DEF Belongs
  <1>4. StripOrphans(m) = Joined(n, p)
    BY DEF StripOrphans
  <1> HIDE DEF n, p, S
  <1>5. Joined(n, p) \in Seq(Message) /\ \E P : Chosen(Joined(n, p), S, m, P)
    BY <1>1, <1>2, <1>3, JoinedChosen
  <1> QED
    BY <1>4, <1>5 DEF S, n

\* The request of good messages can be read.
LEMMA StrippedWellFormed ==
  ASSUME NEW r \in Seq(Message), Good(r), Complete(r)
  PROVE  WellFormed(StripOrphans(r))
  <1> DEFINE s == StripOrphans(r)
             S == {k \in 1 .. Len(r) : Belongs(r, k)}
  <1>1. s \in Seq(Message) /\ \E P : Chosen(s, S, r, P)
    BY StripPlaces
  <1> HIDE DEF s
  <1>2. PICK P : Chosen(s, S, r, P)
    BY <1>1
  <1>3. ASSUME NEW i \in 1 .. Len(s)
        PROVE  P[i] \in 1 .. Len(r) /\ Belongs(r, P[i]) /\ s[i] = r[P[i]]
    <2>1. P[i] \in S /\ s[i] = r[P[i]]
      BY <1>2 DEF Chosen
    <2> QED
      BY <2>1
  <1>4. ASSUME NEW k \in 1 .. Len(r), Belongs(r, k) PROVE \E i \in 1 .. Len(s) : P[i] = k
    BY <1>2, <1>4 DEF Chosen
  <1>5. ASSUME NEW i \in 1 .. Len(s), NEW j \in 1 .. Len(s)
        PROVE  (i < j <=> P[i] < P[j]) /\ (P[i] = P[j] => i = j)
    <2>1. (i < j => P[i] < P[j]) /\ (j < i => P[j] < P[i])
      BY <1>2 DEF Chosen
    <2>2. P[i] \in 1 .. Len(r) /\ P[j] \in 1 .. Len(r)
      BY <1>3
    <2>3. i < j \/ j < i \/ i = j
      OBVIOUS
    <2> QED
      BY <2>1, <2>2, <2>3
  <1> HIDE DEF S
  \* A run of results with its message is left whole.
  <1>6. ASSUME NEW i \in 1 .. Len(r), NEW k \in 1 .. Len(r), i < k, CallsTools(r, i, k),
               NEW j \in i + 1 .. k
        PROVE  Belongs(r, j)
    <2>1. Answers(r, i, j)
      <3>1. \A x \in i + 1 .. j : x \in i + 1 .. k
        OBVIOUS
      <3> QED
        BY <1>6, <3>1 DEF CallsTools, Answers
    <2>2. i \in 1 .. (j - 1)
      OBVIOUS
    <2> QED
      BY <1>6, <2>1, <2>2 DEF Belongs, CallsTools
  <1>7. ASSUME NEW i \in 1 .. Len(s), NEW k \in 1 .. Len(s), P[i] < P[k], Answers(r, P[i], P[k])
        PROVE  Answers(s, i, k)
    <2> SUFFICES ASSUME NEW j \in i + 1 .. k PROVE s[j].role = "tool"
      BY DEF Answers
    <2>1. j \in 1 .. Len(s) /\ i < j /\ (j < k \/ j = k)
      OBVIOUS
    <2>2. P[i] < P[j] /\ (P[j] < P[k] \/ P[j] = P[k])
      BY <1>5, <2>1
    <2>3. P[j] \in P[i] + 1 .. P[k]
      BY <1>3, <2>1, <2>2
    <2> QED
      BY <1>3, <1>7, <2>1, <2>3 DEF Answers
  \* A result that is left has its message before it.
  <1>8. ASSUME NEW k \in 1 .. Len(s), s[k].role = "tool"
        PROVE  \E i \in 1 .. Len(r) : i < P[k] /\ Calling(r, i) /\ Answers(r, i, P[k])
    <2>1. P[k] \in 1 .. Len(r) /\ Belongs(r, P[k]) /\ r[P[k]].role = "tool"
      BY <1>3, <1>8
    <2>2. PICK i \in 1 .. (P[k] - 1) : CallsTools(r, i, P[k])
      BY <2>1 DEF Belongs
    <2>3. i \in 1 .. Len(r) /\ i < P[k]
      BY <2>1
    <2> QED
      BY <2>2, <2>3 DEF CallsTools, Calling
  <1>9. ASSUME NEW i \in 1 .. Len(s), s[i].role = "assistant", NEW c \in s[i].calls
        PROVE  \E k \in (i + 1) .. Len(s) : s[k] = Tool(c) /\ Answers(s, i, k)
    <2>1. P[i] \in 1 .. Len(r) /\ s[i] = r[P[i]]
      BY <1>3
    <2>2. PICK k \in P[i] + 1 .. Len(r) : r[k] = Tool(c) /\ Answers(r, P[i], k)
      BY <1>9, <2>1 DEF Complete
    <2>3. k \in 1 .. Len(r) /\ P[i] < k /\ k \in P[i] + 1 .. k
      BY <2>1, <2>2
    <2>4. Belongs(r, k)
      <3>1. CallsTools(r, P[i], k)
        BY <1>9, <2>1, <2>2 DEF CallsTools
      <3> QED
        BY <1>6, <2>1, <2>3, <3>1
    <2>5. PICK j \in 1 .. Len(s) : P[j] = k
      BY <1>4, <2>3, <2>4
    <2>6. s[j] = Tool(c) /\ i < j /\ Answers(s, i, j)
      BY <1>3, <1>5, <1>7, <2>2, <2>3, <2>5
    <2>7. j \in i + 1 .. Len(s)
      BY <2>6
    <2> QED
      BY <2>6, <2>7
  <1>10. ASSUME NEW k \in 1 .. Len(s), s[k].role = "tool"
         PROVE  \E i \in 1 .. (k - 1) : /\ s[i].role = "assistant" /\ s[k].calls \subseteq s[i].calls
                                        /\ Answers(s, i, k)
    <2>1. PICK a \in 1 .. Len(r) : a < P[k] /\ Calling(r, a) /\ Answers(r, a, P[k])
      BY <1>8, <1>10
    <2>2. P[k] \in 1 .. Len(r) /\ s[k] = r[P[k]]
      BY <1>3
    <2>3. Belongs(r, a)
      BY <2>1 DEF Belongs, Calling
    <2>4. PICK i \in 1 .. Len(s) : P[i] = a
      BY <1>4, <2>3
    <2>5. i < k /\ Answers(s, i, k) /\ s[i] = r[a]
      BY <1>3, <1>5, <1>7, <2>1, <2>4
    <2>6. r[P[k]].calls \subseteq r[a].calls
      BY <2>1, <2>2 DEF Good
    <2>7. i \in 1 .. (k - 1)
      BY <2>5
    <2> QED
      BY <2>1, <2>2, <2>5, <2>6, <2>7 DEF Calling
  <1>11. ASSUME NEW j \in 1 .. Len(s), NEW k \in 1 .. Len(s), s[j].role = "tool", s[j] = s[k]
         PROVE  j = k
    <2>1. PICK a \in 1 .. Len(r) : a < P[j] /\ Calling(r, a) /\ Answers(r, a, P[j])
      BY <1>8, <1>11
    <2>2. PICK b \in 1 .. Len(r) : b < P[k] /\ Calling(r, b) /\ Answers(r, b, P[k])
      BY <1>8, <1>11
    <2>3. /\ P[j] \in 1 .. Len(r) /\ s[j] = r[P[j]] /\ P[k] \in 1 .. Len(r) /\ s[k] = r[P[k]]
          /\ s[j] \in Message
      BY <1>1, <1>3
    <2>4. PICK c \in 1 .. MaxCalls : s[j] = Tool(c)
      BY <1>11, <2>3, Kinds
    <2>5. r[P[j]].calls = {c} /\ r[P[k]].calls = {c}
      <3>1. Tool(c).calls = {c}
        BY Made
      <3> QED
        BY <1>11, <2>3, <2>4, <3>1
    <2>6. r[P[j]].calls \subseteq r[a].calls /\ r[P[k]].calls \subseteq r[b].calls
      BY <2>1, <2>2, <2>3 DEF Good
    <2>7. a = b
      BY <2>1, <2>2, <2>5, <2>6 DEF Good
    <2>8. ~(P[j] < P[k]) /\ ~(P[k] < P[j])
      BY <1>11, <2>1, <2>2, <2>3, <2>7 DEF Good
    <2>9. P[j] = P[k]
      BY <2>3, <2>8
    <2> QED
      BY <1>5, <2>9
  <1> QED
    BY <1>9, <1>10, <1>11 DEF WellFormed, s

\* The request that good messages make can be read.
LEMMA RequestGood ==
  ASSUME NEW m \in Seq(Message), Good(m), MaxCalls \in Nat
  PROVE  WellFormed(Request(m))
  <1>1. Repair(m) \in Seq(Message) /\ Good(Repair(m)) /\ Complete(Repair(m))
    BY RepairPlaces, RepairGood, RepairComplete
  <1> QED
    BY <1>1, StrippedWellFormed DEF Request
-----------------------------------------------------------------------------
(* Messages put together and split *)

\* Two conversations one after the other.
LEMMA Joint ==
  ASSUME NEW s \in Seq(Message), NEW t \in Seq(Message)
  PROVE  /\ s \o t \in Seq(Message) /\ Len(s \o t) = Len(s) + Len(t)
         /\ Len(s) \in Nat /\ Len(t) \in Nat
         /\ \A i \in 1 .. Len(s) : (s \o t)[i] = s[i]
         /\ \A i \in 1 .. Len(t) : (s \o t)[Len(s) + i] = t[i]
         /\ \A i \in 1 .. Len(s \o t) :
               i \in 1 .. Len(s) \/ (i - Len(s) \in 1 .. Len(t) /\ i = Len(s) + (i - Len(s)))
  OBVIOUS

\* One message more is a conversation of one message more.
LEMMA AppendJoint ==
  ASSUME NEW m \in Seq(Message), NEW x \in Message
  PROVE  /\ Append(m, x) = m \o <<x>> /\ <<x>> \in Seq(Message)
         /\ Len(<<x>>) = 1 /\ <<x>>[1] = x /\ Append(m, x) \in Seq(Message)
  OBVIOUS

\* One message alone is good, and none is.
LEMMA GoodShort ==
  ASSUME NEW m, Len(m) \in {0, 1}
  PROVE  Good(m)
  <1>1. \A i, k \in 1 .. Len(m) : i = k
    <2>1. \A n \in {0, 1} : \A i, k \in 1 .. n : i = k
      OBVIOUS
    <2> QED
      BY <2>1
  <1>2. \A i, k \in 1 .. Len(m) : ~(i < k)
    BY <1>1
  <1> QED
    BY <1>1, <1>2 DEF Good

\* What does not begin with a result is no part of the runs before it.
LEMMA GoodJoint ==
  ASSUME NEW s \in Seq(Message), NEW t \in Seq(Message), Good(s), Good(t),
         t # <<>> => t[1].role # "tool",
         \A i \in 1 .. Len(s), j \in 1 .. Len(t) :
            Calling(s, i) /\ Calling(t, j) => s[i].calls \cap t[j].calls = {}
  PROVE  Good(s \o t)
  <1> DEFINE u == s \o t
             L == Len(s)
  <1>1. /\ u \in Seq(Message) /\ Len(u) = L + Len(t) /\ L \in Nat /\ Len(t) \in Nat
        /\ \A i \in 1 .. L : u[i] = s[i]
        /\ \A i \in 1 .. Len(t) : u[L + i] = t[i]
        /\ \A i \in 1 .. Len(u) : i \in 1 .. L \/ (i - L \in 1 .. Len(t) /\ i = L + (i - L))
    BY Joint
  <1> HIDE DEF u, L
  <1>2. \A i \in 1 .. L : Calling(u, i) <=> Calling(s, i)
    BY <1>1 DEF Calling
  <1>3. \A i \in 1 .. Len(t) : Calling(u, L + i) <=> Calling(t, i)
    BY <1>1 DEF Calling
  <1>4. ASSUME NEW i \in 1 .. L, NEW k \in 1 .. L, Answers(u, i, k) PROVE Answers(s, i, k)
    <2>1. \A j \in i + 1 .. k : j \in 1 .. L
      BY <1>1
    <2> QED
      BY <1>1, <1>4, <2>1 DEF Answers
  <1>5. ASSUME NEW i \in 1 .. Len(t), NEW k \in 1 .. Len(t), Answers(u, L + i, L + k)
        PROVE  Answers(t, i, k)
    <2>1. \A j \in i + 1 .. k : j \in 1 .. Len(t) /\ L + j \in L + i + 1 .. L + k
      BY <1>1
    <2> QED
      BY <1>1, <1>5, <2>1 DEF Answers
  <1>6. ASSUME NEW i \in 1 .. Len(u), NEW k \in 1 .. Len(u), i < k, Calling(u, i), Answers(u, i, k)
        PROVE  \/ i \in 1 .. L /\ k \in 1 .. L /\ Calling(s, i) /\ Answers(s, i, k)
               \/ /\ i - L \in 1 .. Len(t) /\ k - L \in 1 .. Len(t)
                  /\ i = L + (i - L) /\ k = L + (k - L)
                  /\ Calling(t, i - L) /\ Answers(t, i - L, k - L)
    <2>1. CASE i \in 1 .. L /\ k \in 1 .. L
      BY <1>2, <1>4, <1>6, <2>1
    <2>2. CASE /\ i - L \in 1 .. Len(t) /\ k - L \in 1 .. Len(t)
               /\ i = L + (i - L) /\ k = L + (k - L)
      BY <1>3, <1>5, <1>6, <2>2
    <2>3. CASE i \in 1 .. L /\ k - L \in 1 .. Len(t)
      <3>1. L + 1 \in i + 1 .. k /\ 1 \in 1 .. Len(t)
        BY <1>1, <2>3
      <3>2. u[L + 1] = t[1] /\ t[1].role # "tool"
        BY <1>1, <3>1
      <3> QED
        BY <1>6, <3>1, <3>2 DEF Answers
    <2>4. CASE i - L \in 1 .. Len(t) /\ k \in 1 .. L
      BY <1>1, <1>6, <2>4
    <2> QED
      BY <1>1, <2>1, <2>2, <2>3, <2>4
  <1>7. ASSUME NEW i \in 1 .. Len(u), NEW k \in 1 .. Len(u), i < k, Calling(u, i), Answers(u, i, k)
        PROVE  u[k].calls \subseteq u[i].calls
    <2>1. CASE i \in 1 .. L /\ k \in 1 .. L /\ Calling(s, i) /\ Answers(s, i, k)
      BY <1>1, <1>7, <2>1 DEF Good, L
    <2>2. CASE /\ i - L \in 1 .. Len(t) /\ k - L \in 1 .. Len(t)
               /\ i = L + (i - L) /\ k = L + (k - L)
               /\ Calling(t, i - L) /\ Answers(t, i - L, k - L)
      <3>1. i - L < k - L /\ u[i] = t[i - L] /\ u[k] = t[k - L]
        BY <1>1, <1>7, <2>2
      <3> QED
        BY <2>2, <3>1 DEF Good
    <2> QED
      BY <1>6, <1>7, <2>1, <2>2
  <1>8. ASSUME NEW i \in 1 .. Len(u), NEW j \in 1 .. Len(u), NEW k \in 1 .. Len(u),
               i < j, j < k, Calling(u, i), Answers(u, i, k)
        PROVE  u[j] # u[k]
    <2>0. i < k
      BY <1>8
    <2>1. CASE i \in 1 .. L /\ k \in 1 .. L /\ Calling(s, i) /\ Answers(s, i, k)
      <3>1. j \in 1 .. L
        BY <1>1, <1>8, <2>1
      <3>2. u[j] = s[j] /\ u[k] = s[k]
        BY <1>1, <2>1, <3>1
      <3>3. s[j] # s[k]
        BY <1>8, <2>1, <3>1 DEF Good, L
      <3> QED
        BY <3>2, <3>3
    <2>2. CASE /\ i - L \in 1 .. Len(t) /\ k - L \in 1 .. Len(t)
               /\ i = L + (i - L) /\ k = L + (k - L)
               /\ Calling(t, i - L) /\ Answers(t, i - L, k - L)
      <3>1. j - L \in 1 .. Len(t) /\ i - L < j - L /\ j - L < k - L /\ j = L + (j - L)
        BY <1>1, <1>8, <2>2
      <3>2. u[j] = t[j - L] /\ u[k] = t[k - L]
        BY <1>1, <2>2, <3>1
      <3> QED
        BY <2>2, <3>1, <3>2 DEF Good
    <2> QED
      BY <1>6, <1>8, <2>0, <2>1, <2>2
  <1>9. ASSUME NEW i \in 1 .. Len(u), NEW j \in 1 .. Len(u), i < j, Calling(u, i), Calling(u, j)
        PROVE  u[i].calls \cap u[j].calls = {}
    <2>1. CASE i \in 1 .. L /\ j \in 1 .. L
      <3>1. Calling(s, i) /\ Calling(s, j) /\ u[i] = s[i] /\ u[j] = s[j] /\ i # j
        BY <1>1, <1>2, <1>9, <2>1
      <3> QED
        BY <2>1, <3>1 DEF Good, L
    <2>2. CASE /\ i - L \in 1 .. Len(t) /\ j - L \in 1 .. Len(t)
               /\ i = L + (i - L) /\ j = L + (j - L)
      <3>0. i - L # j - L
        BY <1>1, <1>9
      <3>1. /\ Calling(t, i - L) /\ Calling(t, j - L) /\ u[i] = t[i - L] /\ u[j] = t[j - L]
            /\ i - L # j - L
        BY <1>1, <1>3, <1>9, <2>2, <3>0
      <3> QED
        BY <2>2, <3>1 DEF Good
    <2>3. CASE i \in 1 .. L /\ j - L \in 1 .. Len(t) /\ j = L + (j - L)
      <3>1. Calling(s, i) /\ Calling(t, j - L) /\ u[i] = s[i] /\ u[j] = t[j - L]
        BY <1>1, <1>2, <1>3, <1>9, <2>3
      <3> QED
        BY <2>3, <3>1 DEF L
    <2>4. CASE i - L \in 1 .. Len(t) /\ j \in 1 .. L
      BY <1>1, <1>9, <2>4
    <2> QED
      BY <1>1, <2>1, <2>2, <2>3, <2>4
  <1>10. ASSUME NEW i \in 1 .. Len(u), NEW j \in 1 .. Len(u), i # j, Calling(u, i), Calling(u, j)
         PROVE  u[i].calls \cap u[j].calls = {}
    <2>1. i < j \/ j < i
      BY <1>10
    <2>2. u[j].calls \cap u[i].calls = u[i].calls \cap u[j].calls
      OBVIOUS
    <2> QED
      BY <1>9, <1>10, <2>1, <2>2
  <1> QED
    BY <1>7, <1>8, <1>10 DEF Good, u

\* A message that is no result and makes no call.
LEMMA GoodPlain ==
  ASSUME NEW m \in Seq(Message), Good(m), NEW x \in Message, x.role # "tool", x.calls = {}
  PROVE  Good(Append(m, x))
  <1>1. /\ Append(m, x) = m \o <<x>> /\ <<x>> \in Seq(Message)
        /\ Len(<<x>>) = 1 /\ <<x>>[1] = x
    BY AppendJoint
  <1> DEFINE t == <<x>>
  <1>2. Good(t)
    BY <1>1, GoodShort
  <1>3. t # <<>> => t[1].role # "tool"
    BY <1>1
  <1>4. \A j \in 1 .. Len(t) : ~Calling(t, j)
    BY <1>1 DEF Calling
  <1> HIDE DEF t
  <1>5. t \in Seq(Message)
    BY <1>1 DEF t
  <1>6. Good(m \o t)
    BY <1>2, <1>3, <1>4, <1>5, GoodJoint
  <1> QED
    BY <1>1, <1>6 DEF t

\* The end of a conversation.
LEMMA GoodSuffix ==
  ASSUME NEW m \in Seq(Message), Good(m), NEW n \in 1 .. Len(m)
  PROVE  /\ SubSeq(m, n, Len(m)) \in Seq(Message) /\ Good(SubSeq(m, n, Len(m)))
         /\ SubSeq(m, n, Len(m)) # <<>> /\ SubSeq(m, n, Len(m))[1] = m[n]
  <1> DEFINE u == SubSeq(m, n, Len(m))
             f(i) == i + n - 1
  <1>1. /\ u \in Seq(Message) /\ Len(u) = Len(m) - n + 1 /\ Len(u) \in Nat /\ Len(m) \in Nat
        /\ \A i \in 1 .. Len(u) : u[i] = m[f(i)]
    OBVIOUS
  <1> HIDE DEF u
  <1>2. \A i \in 1 .. Len(u) : f(i) \in 1 .. Len(m)
    BY <1>1
  <1>3. \A i, k \in 1 .. Len(u) : (i < k <=> f(i) < f(k)) /\ (f(i) = f(k) => i = k)
    BY <1>1
  <1>4. \A i \in 1 .. Len(u) : Calling(u, i) <=> Calling(m, f(i))
    <2> HIDE DEF f
    <2> QED
      BY <1>1 DEF Calling
  <1>5. ASSUME NEW i \in 1 .. Len(u), NEW k \in 1 .. Len(u), Answers(u, i, k)
        PROVE  Answers(m, f(i), f(k))
    <2> SUFFICES ASSUME NEW j \in f(i) + 1 .. f(k) PROVE m[j].role = "tool"
      BY DEF Answers
    <2>0. j \in i + n - 1 + 1 .. k + n - 1 /\ n \in Nat /\ i \in Nat /\ k \in Nat /\ j \in Int
      BY <1>1
    <2>1. j - n + 1 \in i + 1 .. k /\ j - n + 1 \in 1 .. Len(u) /\ f(j - n + 1) = j
      BY <1>1, <2>0
    <2>2. u[j - n + 1] = m[f(j - n + 1)]
      BY <1>1, <2>1
    <2>3. u[j - n + 1].role = "tool"
      BY <1>5, <2>1 DEF Answers
    <2> QED
      BY <2>1, <2>2, <2>3
  <1> HIDE DEF f
  <1>6. ASSUME NEW i \in 1 .. Len(u), NEW k \in 1 .. Len(u), i < k, Calling(u, i), Answers(u, i, k)
        PROVE  u[k].calls \subseteq u[i].calls
    <2>1. f(i) < f(k) /\ Calling(m, f(i)) /\ Answers(m, f(i), f(k)) /\ u[i] = m[f(i)] /\ u[k] = m[f(k)]
      BY <1>1, <1>3, <1>4, <1>5, <1>6
    <2> QED
      BY <1>2, <2>1 DEF Good
  <1>7. ASSUME NEW i \in 1 .. Len(u), NEW j \in 1 .. Len(u), NEW k \in 1 .. Len(u),
               i < j, j < k, Calling(u, i), Answers(u, i, k)
        PROVE  u[j] # u[k]
    <2>1. /\ f(i) < f(j) /\ f(j) < f(k) /\ Calling(m, f(i)) /\ Answers(m, f(i), f(k))
          /\ u[j] = m[f(j)] /\ u[k] = m[f(k)]
      BY <1>1, <1>3, <1>4, <1>5, <1>7
    <2> QED
      BY <1>2, <2>1 DEF Good
  <1>8. ASSUME NEW i \in 1 .. Len(u), NEW j \in 1 .. Len(u), i # j, Calling(u, i), Calling(u, j)
        PROVE  u[i].calls \cap u[j].calls = {}
    <2>1. f(i) # f(j) /\ Calling(m, f(i)) /\ Calling(m, f(j)) /\ u[i] = m[f(i)] /\ u[j] = m[f(j)]
      BY <1>1, <1>3, <1>4, <1>8
    <2> QED
      BY <1>2, <2>1 DEF Good
  <1>9. u # <<>> /\ u[1] = m[n]
    <2>1. 1 \in 1 .. Len(u) /\ f(1) = n
      BY <1>1 DEF f
    <2> QED
      BY <1>1, <2>1
  <1>10. Good(u)
    BY <1>6, <1>7, <1>8 DEF Good
  <1> QED
    BY <1>1, <1>9, <1>10 DEF u

\* A result of the calls that are open.
LEMMA GoodTool ==
  ASSUME NEW m \in Seq(Message), Good(m), NEW q \in Seq(1 .. MaxCalls), Open(m, q), q # <<>>,
         \A x, y \in 1 .. Len(q) : x # y => q[x] # q[y]
  PROVE  Good(Append(m, Tool(Head(q)))) /\ Open(Append(m, Tool(Head(q))), Tail(q))
  <1> DEFINE t == Tool(Head(q))
             u == Append(m, t)
             L == Len(m)
             w == Tail(q)
  <1>0. /\ Head(q) = q[1] /\ 1 \in 1 .. Len(q) /\ Len(w) = Len(q) - 1 /\ Len(q) \in Nat
        /\ \A x \in 1 .. Len(w) : w[x] = q[x + 1] /\ x + 1 \in 1 .. Len(q) /\ x + 1 # 1
    OBVIOUS
  <1>1. Len(u) = L + 1 /\ L \in Nat /\ u[L + 1] = t /\ \A i \in 1 .. L : u[i] = m[i]
    OBVIOUS
  <1>2. t.role = "tool" /\ t.calls = {q[1]} /\ t = Tool(q[1])
    BY <1>0, Made
  <1> HIDE DEF t, u, L, w
  <1>3. ASSUME NEW i \in 1 .. Len(u), Calling(u, i) PROVE i \in 1 .. L /\ Calling(m, i) /\ u[i] = m[i]
    <2>1. i # L + 1
      BY <1>1, <1>2, <1>3 DEF Calling
    <2>2. i \in 1 .. L
      BY <1>1, <2>1
    <2> QED
      BY <1>1, <1>3, <2>2 DEF Calling
  <1>4. ASSUME NEW i \in 1 .. L, NEW k \in 1 .. L, Answers(u, i, k) PROVE Answers(m, i, k)
    <2>1. \A j \in i + 1 .. k : j \in 1 .. L
      BY <1>1
    <2> QED
      BY <1>1, <1>4, <2>1 DEF Answers
  <1>5. ASSUME NEW i \in 1 .. L, Answers(u, i, L + 1), Calling(m, i)
        PROVE  /\ \A x \in 1 .. Len(q) : q[x] \in m[i].calls
               /\ \A x \in 1 .. Len(q), k \in i + 1 .. L : m[k] # Tool(q[x])
    <2>1. Answers(u, i, L)
      <3>1. \A j \in i + 1 .. L : j \in i + 1 .. L + 1
        BY <1>1
      <3> QED
        BY <1>5, <3>1 DEF Answers
    <2>2. L \in 1 .. L
      BY <1>1
    <2>3. Answers(m, i, L)
      BY <1>4, <2>1, <2>2
    <2> QED
      BY <1>5, <2>3 DEF Open, L
  <1>6. ASSUME NEW i \in 1 .. Len(u), NEW k \in 1 .. Len(u), i < k, Calling(u, i), Answers(u, i, k)
        PROVE  u[k].calls \subseteq u[i].calls
    <2>1. i \in 1 .. L /\ Calling(m, i) /\ u[i] = m[i]
      BY <1>3, <1>6
    <2>2. CASE k \in 1 .. L
      BY <1>1, <1>4, <1>6, <2>1, <2>2 DEF Good, L
    <2>3. CASE k = L + 1
      <3>1. u[k] = t /\ Answers(u, i, L + 1)
        BY <1>1, <1>6, <2>3
      <3>2. q[1] \in m[i].calls
        BY <1>0, <1>5, <2>1, <3>1
      <3> QED
        BY <1>2, <2>1, <3>1, <3>2
    <2> QED
      BY <1>1, <2>2, <2>3
  <1>7. ASSUME NEW i \in 1 .. Len(u), NEW j \in 1 .. Len(u), NEW k \in 1 .. Len(u),
               i < j, j < k, Calling(u, i), Answers(u, i, k)
        PROVE  u[j] # u[k]
    <2>1. i \in 1 .. L /\ Calling(m, i) /\ u[i] = m[i]
      BY <1>3, <1>7
    <2>2. j \in 1 .. L /\ j \in i + 1 .. L /\ u[j] = m[j]
      BY <1>1, <1>7
    <2>3. CASE k \in 1 .. L
      <3>1. u[k] = m[k] /\ Answers(m, i, k)
        BY <1>1, <1>4, <1>7, <2>1, <2>3
      <3> QED
        BY <1>7, <2>1, <2>2, <2>3, <3>1 DEF Good, L
    <2>4. CASE k = L + 1
      <3>1. u[k] = t /\ Answers(u, i, L + 1)
        BY <1>1, <1>7, <2>4
      <3>2. m[j] # Tool(q[1])
        BY <1>0, <1>5, <2>1, <2>2, <3>1
      <3> QED
        BY <1>2, <2>2, <3>1, <3>2
    <2> QED
      BY <1>1, <2>3, <2>4
  <1>8. ASSUME NEW i \in 1 .. Len(u), NEW j \in 1 .. Len(u), i # j, Calling(u, i), Calling(u, j)
        PROVE  u[i].calls \cap u[j].calls = {}
    <2>1. /\ i \in 1 .. L /\ Calling(m, i) /\ u[i] = m[i]
          /\ j \in 1 .. L /\ Calling(m, j) /\ u[j] = m[j]
      BY <1>3, <1>8
    <2> QED
      BY <1>8, <2>1 DEF Good, L
  <1>9. ASSUME NEW i \in 1 .. Len(u), Calling(u, i), Answers(u, i, Len(u)), NEW x \in 1 .. Len(w)
        PROVE  w[x] \in u[i].calls /\ \A k \in i + 1 .. Len(u) : u[k] # Tool(w[x])
    <2>1. i \in 1 .. L /\ Calling(m, i) /\ u[i] = m[i] /\ Answers(u, i, L + 1)
      BY <1>1, <1>3, <1>9
    <2>2. w[x] = q[x + 1] /\ x + 1 \in 1 .. Len(q) /\ x + 1 # 1
      BY <1>0
    <2>3. w[x] \in u[i].calls
      BY <1>5, <2>1, <2>2
    <2>4. ASSUME NEW k \in i + 1 .. Len(u) PROVE u[k] # Tool(w[x])
      <3>1. CASE k = L + 1
        <4>1. q[1] # q[x + 1]
          BY <1>0, <2>2
        <4>2. Tool(w[x]).calls = {q[x + 1]} /\ u[k].calls = {q[1]}
          BY <1>1, <1>2, <2>2, <3>1, Made
        <4> QED
          BY <4>1, <4>2
      <3>2. CASE k # L + 1
        <4>1. k \in i + 1 .. L /\ k \in 1 .. L
          BY <1>1, <3>2
        <4> QED
          BY <1>1, <1>5, <2>1, <2>2, <4>1
      <3> QED
        BY <3>1, <3>2
    <2> QED
      BY <2>3, <2>4
  <1>10. Good(u)
    BY <1>6, <1>7, <1>8 DEF Good
  <1>11. Open(u, w)
    BY <1>9 DEF Open
  <1> QED
    BY <1>10, <1>11 DEF u, t, w

\* After a message that is no result, only its own calls are open.
LEMMA OpenNew ==
  ASSUME NEW m \in Seq(Message), NEW x \in Message, x.role # "tool", NEW q,
         x.calls # {} => \A y \in 1 .. Len(q) : q[y] \in x.calls
  PROVE  Open(Append(m, x), q)
  <1> DEFINE u == Append(m, x)
             L == Len(m)
  <1>1. Len(u) = L + 1 /\ L \in Nat /\ u[L + 1] = x
    OBVIOUS
  <1> HIDE DEF u, L
  <1>2. ASSUME NEW i \in 1 .. Len(u), Calling(u, i), Answers(u, i, Len(u)), NEW y \in 1 .. Len(q)
        PROVE  q[y] \in u[i].calls /\ \A k \in i + 1 .. Len(u) : u[k] # Tool(q[y])
    <2>1. ~(L + 1 \in i + 1 .. Len(u))
      BY <1>1, <1>2 DEF Answers
    <2>2. i = L + 1
      BY <1>1, <2>1
    <2>3. q[y] \in u[i].calls
      BY <1>1, <1>2, <2>2 DEF Calling
    <2>4. \A k \in i + 1 .. Len(u) : FALSE
      BY <1>1, <2>2
    <2> QED
      BY <2>3, <2>4
  <1> QED
    BY <1>2 DEF Open, u
-----------------------------------------------------------------------------
(* Rows and calls that are there *)

\* The rows that a conversation holds, itself or in its summaries.
Held(m) == RowsOf(m) \cup FoldsOf(m)

\* What a conversation holds, by its messages.
LEMMA InHeld ==
  ASSUME NEW m, NEW q
  PROVE  q \in Held(m) <=> \E i \in 1 .. Len(m) : (q = m[i].row /\ q # 0) \/ q \in m[i].folds
  BY DEF Held, RowsOf, FoldsOf

\* Two conversations hold together what they hold alone.
LEMMA HeldJoint ==
  ASSUME NEW s \in Seq(Message), NEW t \in Seq(Message)
  PROVE  Held(s \o t) = Held(s) \cup Held(t)
  <1> DEFINE u == s \o t
             L == Len(s)
             Has(x, q) == (q = x.row /\ q # 0) \/ q \in x.folds
  <1>1. /\ Len(u) = L + Len(t) /\ L \in Nat /\ Len(t) \in Nat
        /\ \A i \in 1 .. L : u[i] = s[i]
        /\ \A i \in 1 .. Len(t) : u[L + i] = t[i]
        /\ \A i \in 1 .. Len(u) : i \in 1 .. L \/ (i - L \in 1 .. Len(t) /\ i = L + (i - L))
    BY Joint
  <1>2. \A m, q : q \in Held(m) <=> \E i \in 1 .. Len(m) : Has(m[i], q)
    BY InHeld
  <1> HIDE DEF u, L, Has
  <1>3. ASSUME NEW q, q \in Held(u) PROVE q \in Held(s) \cup Held(t)
    <2>1. PICK i \in 1 .. Len(u) : Has(u[i], q)
      BY <1>2, <1>3
    <2>2. CASE i \in 1 .. L
      BY <1>1, <1>2, <2>1, <2>2 DEF L
    <2>3. CASE i - L \in 1 .. Len(t) /\ i = L + (i - L)
      <3>1. Has(t[i - L], q)
        BY <1>1, <2>1, <2>3
      <3> QED
        BY <1>2, <2>3, <3>1
    <2> QED
      BY <1>1, <2>2, <2>3
  <1>4. ASSUME NEW q, q \in Held(s) PROVE q \in Held(u)
    <2>1. PICK i \in 1 .. L : Has(s[i], q)
      BY <1>2, <1>4 DEF L
    <2>2. i \in 1 .. Len(u) /\ u[i] = s[i]
      BY <1>1
    <2> QED
      BY <1>2, <2>1, <2>2
  <1>5. ASSUME NEW q, q \in Held(t) PROVE q \in Held(u)
    <2>1. PICK i \in 1 .. Len(t) : Has(t[i], q)
      BY <1>2, <1>5
    <2>2. L + i \in 1 .. Len(u) /\ u[L + i] = t[i]
      BY <1>1
    <2> QED
      BY <1>2, <2>1, <2>2
  <1> QED
    BY <1>3, <1>4, <1>5 DEF u

\* The messages of a repair are those that were there, and results, which have no row.
LEMMA RepairMessages ==
  ASSUME NEW m \in Seq(Message), MaxCalls \in Nat, NEW r, r = Repair(m),
         NEW P, NEW Q, Repaired(m, r, P, Q)
  PROVE  /\ r \in Seq(Message)
         /\ \A i \in 1 .. Len(r) :
               /\ P[i] \in 1 .. Len(m)
               /\ \/ Q[i] = 1 /\ r[i] = m[P[i]]
                  \/ /\ r[i].row = 0 /\ r[i].folds = {}
                     /\ \E k \in 1 .. Len(m) : r[i].calls \subseteq m[k].calls
  <1>1. r \in Seq(Message)
    BY RepairPlaces
  <1>2. ASSUME NEW i \in 1 .. Len(r), Q[i] # 1
        PROVE  /\ r[i].row = 0 /\ r[i].folds = {}
               /\ \E k \in 1 .. Len(m) : r[i].calls \subseteq m[k].calls
    <2>1. P[i] \in 1 .. Len(m) /\ \E c \in Missing(m, P[i]) : r[i] = Tool(c)
      BY <1>1, <1>2, RepairedOrder
    <2>2. PICK c \in Missing(m, P[i]) : r[i] = Tool(c)
      BY <2>1
    <2>3. PICK k \in 1 .. P[i] : c \in m[k].calls
      BY DEF Missing, Asked
    <2>4. k \in 1 .. Len(m)
      BY <2>1
    <2>5. r[i].row = 0 /\ r[i].folds = {} /\ r[i].calls = {c}
      BY <2>2, Made
    <2> QED
      BY <2>3, <2>4, <2>5
  <1>3. \A i \in 1 .. Len(r) : P[i] \in 1 .. Len(m) /\ (Q[i] = 1 => r[i] = m[P[i]])
    BY <1>1, RepairedOrder
  <1> QED
    BY <1>1, <1>2, <1>3

\* Repair neither adds nor drops a row or a summary.
LEMMA HeldRepair ==
  ASSUME NEW m \in Seq(Message), MaxCalls \in Nat
  PROVE  Held(Repair(m)) = Held(m) /\ RowsOf(Repair(m)) = RowsOf(m)
  <1> DEFINE r == Repair(m)
  <1>1. PICK P, Q : Repaired(m, r, P, Q)
    BY RepairPlaces
  <1>2. /\ r \in Seq(Message)
        /\ \A i \in 1 .. Len(r) :
              /\ P[i] \in 1 .. Len(m)
              /\ \/ Q[i] = 1 /\ r[i] = m[P[i]]
                 \/ r[i].row = 0 /\ r[i].folds = {}
    BY <1>1, RepairMessages
  <1> HIDE DEF r
  <1>3. ASSUME NEW k \in 1 .. Len(m) PROVE \E i \in 1 .. Len(r) : r[i] = m[k]
    <2>1. PICK i \in 1 .. Len(r) : P[i] = k /\ Q[i] = 1
      BY <1>1 DEF Repaired
    <2> QED
      BY <1>1, <1>2, <2>1, RepairedOrder
  <1>4. \A i \in 1 .. Len(r) : (r[i].row = 0 /\ r[i].folds = {}) \/ \E k \in 1 .. Len(m) : r[i] = m[k]
    BY <1>2
  <1>5. RowsOf(r) = RowsOf(m)
    BY <1>3, <1>4 DEF RowsOf
  <1>6. FoldsOf(r) = FoldsOf(m)
    BY <1>3, <1>4 DEF FoldsOf
  <1> QED
    BY <1>5, <1>6 DEF Held, r

\* Sound conversations: the empty one,
LEMMA SoundEmpty ==
  ASSUME NEW n, NEW l
  PROVE  Sound(<<>>, n, l)
  BY DEF Sound

\* one message,
LEMMA SoundOne ==
  ASSUME NEW x \in Message, NEW n, NEW l, x.calls \subseteq 1 .. n, x.row <= l
  PROVE  Sound(<<x>>, n, l)
  <1>1. <<x>> \in Seq(Message) /\ Len(<<x>>) = 1 /\ <<x>>[1] = x
    OBVIOUS
  <1> DEFINE t == <<x>>
  <1> HIDE DEF t
  <1>2. t \in Seq(Message) /\ \A i \in 1 .. Len(t) : i = 1 /\ t[i] = x
    BY <1>1 DEF t
  <1>3. Sound(t, n, l)
    BY <1>2 DEF Sound
  <1> QED
    BY <1>3 DEF t

\* What is sound stays so when more calls are made and more rows written.
LEMMA SoundMore ==
  ASSUME NEW m, NEW n \in Nat, NEW l \in Nat, NEW n1 \in Nat, NEW l1 \in Nat,
         Sound(m, n, l), n <= n1, l <= l1
  PROVE  Sound(m, n1, l1)
  <1>1. m \in Seq(Message)
    BY DEF Sound
  <1>2. ASSUME NEW i \in 1 .. Len(m) PROVE m[i].calls \subseteq 1 .. n1 /\ m[i].row <= l1
    <2>1. m[i].calls \subseteq 1 .. n /\ m[i].row <= l
      BY DEF Sound
    <2>2. m[i] \in Message
      BY <1>1
    <2>3. m[i].row \in Nat
      BY <2>2, Kinds
    <2>4. 1 .. n \subseteq 1 .. n1
      OBVIOUS
    <2>5. m[i].row <= l1
      BY <2>1, <2>3
    <2> QED
      BY <2>1, <2>4, <2>5
  <1> QED
    BY <1>1, <1>2 DEF Sound

\* two joined that share no row,
LEMMA SoundJoint ==
  ASSUME NEW s, NEW t, NEW n, NEW l, Sound(s, n, l), Sound(t, n, l),
         \A i \in 1 .. Len(s), j \in 1 .. Len(t) : s[i].row = t[j].row => s[i].row = 0
  PROVE  Sound(s \o t, n, l)
  <1> DEFINE u == s \o t
             L == Len(s)
  <1>0. s \in Seq(Message) /\ t \in Seq(Message)
    BY DEF Sound
  <1>1. /\ u \in Seq(Message) /\ Len(u) = L + Len(t) /\ L \in Nat /\ Len(t) \in Nat
        /\ \A i \in 1 .. L : u[i] = s[i]
        /\ \A i \in 1 .. Len(t) : u[L + i] = t[i]
        /\ \A i \in 1 .. Len(u) : i \in 1 .. L \/ (i - L \in 1 .. Len(t) /\ i = L + (i - L))
    BY <1>0, Joint
  <1> HIDE DEF u, L
  <1>2. ASSUME NEW i \in 1 .. Len(u)
        PROVE  \/ i \in 1 .. L /\ u[i] = s[i]
               \/ i - L \in 1 .. Len(t) /\ u[i] = t[i - L] /\ i = L + (i - L)
    BY <1>1
  <1>3. ASSUME NEW i \in 1 .. Len(u) PROVE u[i].calls \subseteq 1 .. n /\ u[i].row <= l
    BY <1>2 DEF Sound, L
  <1>4. ASSUME NEW i \in 1 .. Len(u), NEW j \in 1 .. Len(u), i # j, u[i].row = u[j].row
        PROVE  u[i].row = 0
    <2>1. CASE i \in 1 .. L /\ u[i] = s[i] /\ j \in 1 .. L /\ u[j] = s[j]
      BY <1>4, <2>1 DEF Sound, L
    <2>2. CASE /\ i - L \in 1 .. Len(t) /\ u[i] = t[i - L] /\ i = L + (i - L)
               /\ j - L \in 1 .. Len(t) /\ u[j] = t[j - L] /\ j = L + (j - L)
      <3>1. i - L # j - L
        BY <1>4, <2>2
      <3> QED
        BY <1>4, <2>2, <3>1 DEF Sound
    <2>3. CASE i \in 1 .. L /\ u[i] = s[i] /\ j - L \in 1 .. Len(t) /\ u[j] = t[j - L]
      BY <1>4, <2>3 DEF L
    <2>4. CASE j \in 1 .. L /\ u[j] = s[j] /\ i - L \in 1 .. Len(t) /\ u[i] = t[i - L]
      BY <1>4, <2>4 DEF L
    <2> QED
      BY <1>2, <2>1, <2>2, <2>3, <2>4
  <1> QED
    BY <1>1, <1>3, <1>4 DEF Sound, u

\* One message more, of a new row or of none.
LEMMA SoundAppend ==
  ASSUME NEW m, NEW n, NEW l \in Nat, Sound(m, n, l), NEW x \in Message,
         x.calls \subseteq 1 .. n, NEW l1 \in Nat, l <= l1, n \in Nat,
         x.row <= l1, x.row = 0 \/ x.row > l
  PROVE  Sound(Append(m, x), n, l1)
  <1>1. Sound(m, n, l1) /\ m \in Seq(Message)
    <2>1. n <= n
      OBVIOUS
    <2>2. Sound(m, n, l1)
      BY <2>1, SoundMore
    <2>3. m \in Seq(Message)
      BY DEF Sound
    <2> QED
      BY <2>2, <2>3
  <1>2. Sound(<<x>>, n, l1)
    BY SoundOne
  <1>3. /\ Append(m, x) = m \o <<x>> /\ <<x>> \in Seq(Message)
        /\ Len(<<x>>) = 1 /\ <<x>>[1] = x
    BY <1>1, AppendJoint
  <1> DEFINE t == <<x>>
  <1> HIDE DEF t
  <1>4. ASSUME NEW i \in 1 .. Len(m), NEW j \in 1 .. Len(t), m[i].row = t[j].row PROVE m[i].row = 0
    <2>1. t[j] = x
      BY <1>3 DEF t
    <2>2. m[i].row <= l /\ m[i] \in Message
      BY DEF Sound
    <2>3. m[i].row \in Nat
      BY <2>2, Kinds
    <2> QED
      BY <1>4, <2>1, <2>2, <2>3
  <1>5. Sound(m \o t, n, l1)
    BY <1>1, <1>2, <1>4, SoundJoint DEF t
  <1> QED
    BY <1>3, <1>5 DEF t

\* a repaired one,
LEMMA SoundRepair ==
  ASSUME NEW m, NEW n, NEW l, l \in Nat, Sound(m, n, l), MaxCalls \in Nat
  PROVE  Sound(Repair(m), n, l)
  <1> DEFINE r == Repair(m)
  <1>0. m \in Seq(Message)
    BY DEF Sound
  <1>1. PICK P, Q : Repaired(m, r, P, Q)
    BY <1>0, RepairPlaces
  <1>2. /\ r \in Seq(Message)
        /\ \A i \in 1 .. Len(r) :
              /\ P[i] \in 1 .. Len(m)
              /\ \/ Q[i] = 1 /\ r[i] = m[P[i]]
                 \/ /\ r[i].row = 0 /\ r[i].folds = {}
                    /\ \E k \in 1 .. Len(m) : r[i].calls \subseteq m[k].calls
    BY <1>0, <1>1, RepairMessages
  <1> HIDE DEF r
  <1>3. ASSUME NEW i \in 1 .. Len(r) PROVE r[i].calls \subseteq 1 .. n /\ r[i].row <= l
    <2>1. CASE Q[i] = 1 /\ r[i] = m[P[i]]
      BY <1>2, <2>1 DEF Sound
    <2>2. CASE r[i].row = 0 /\ \E k \in 1 .. Len(m) : r[i].calls \subseteq m[k].calls
      BY <2>2 DEF Sound
    <2> QED
      BY <1>2, <2>1, <2>2
  <1>4. ASSUME NEW i \in 1 .. Len(r), NEW j \in 1 .. Len(r), i # j, r[i].row = r[j].row, r[i].row # 0
        PROVE  FALSE
    <2>1. Q[i] = 1 /\ r[i] = m[P[i]] /\ Q[j] = 1 /\ r[j] = m[P[j]] /\ P[i] \in 1 .. Len(m) /\ P[j] \in 1 .. Len(m)
      BY <1>2, <1>4
    <2>2. P[i] # P[j]
      BY <1>0, <1>1, <1>2, <1>4, <2>1, RepairedOrder
    <2> QED
      BY <1>4, <2>1, <2>2 DEF Sound
  <1> QED
    BY <1>2, <1>3, <1>4 DEF Sound, r

\* what is split off the end.
LEMMA SoundSuffix ==
  ASSUME NEW m, NEW n, NEW l, Sound(m, n, l), NEW k \in 1 .. Len(m)
  PROVE  Sound(SubSeq(m, k, Len(m)), n, l)
  <1> DEFINE u == SubSeq(m, k, Len(m))
             f(i) == i + k - 1
  <1>0. m \in Seq(Message)
    BY DEF Sound
  <1>1. /\ u \in Seq(Message) /\ Len(u) = Len(m) - k + 1 /\ Len(u) \in Nat /\ Len(m) \in Nat
        /\ \A i \in 1 .. Len(u) : u[i] = m[f(i)]
    BY <1>0
  <1> HIDE DEF u
  <1>2. \A i \in 1 .. Len(u) : f(i) \in 1 .. Len(m)
    BY <1>1
  <1>3. \A i, j \in 1 .. Len(u) : f(i) = f(j) => i = j
    BY <1>1
  <1> HIDE DEF f
  <1>4. ASSUME NEW i \in 1 .. Len(u) PROVE u[i].calls \subseteq 1 .. n /\ u[i].row <= l
    BY <1>1, <1>2 DEF Sound
  <1>5. ASSUME NEW i \in 1 .. Len(u), NEW j \in 1 .. Len(u), i # j, u[i].row = u[j].row
        PROVE  u[i].row = 0
    <2>1. f(i) # f(j) /\ f(i) \in 1 .. Len(m) /\ f(j) \in 1 .. Len(m) /\ u[i] = m[f(i)] /\ u[j] = m[f(j)]
      BY <1>1, <1>2, <1>3, <1>5
    <2> QED
      BY <1>5, <2>1 DEF Sound
  <1> QED
    BY <1>1, <1>4, <1>5 DEF Sound, u
-----------------------------------------------------------------------------
(* Where a conversation is split *)

\* Somewhere the last k user turns begin.
LEMMA SplitPlace ==
  ASSUME NEW m \in Seq(Message), NEW k \in Nat \ {0}, Folds(m, k)
  PROVE  \E i \in UsersAt(m) : Cardinality({j \in UsersAt(m) : j >= i}) = k
  <1> DEFINE U == UsersAt(m)
             L == Len(m)
             From(n) == {j \in U : j >= n}
             C(n) == Cardinality(From(n))
             T == {d \in 0 .. L : C(L + 1 - d) >= k}
  <1>1. L \in Nat /\ U \subseteq 1 .. L /\ Cardinality(U) > k
    BY DEF UsersAt, Folds
  <1>2. IsFiniteSet(U)
    <2>1. IsFiniteSet(1 .. L)
      BY <1>1, FS_Interval
    <2> HIDE DEF U
    <2> QED
      BY <1>1, <2>1, FS_Subset
  <1>3. \A n : IsFiniteSet(From(n)) /\ C(n) \in Nat
    <2> TAKE n
    <2>1. From(n) \subseteq U
      OBVIOUS
    <2> QED
      BY <1>2, <2>1, FS_Subset, FS_CardinalityType
  <1>4. C(L + 1) = 0
    <2>1. From(L + 1) = {}
      BY <1>1
    <2> QED
      BY <2>1, FS_EmptySet
  <1>5. C(1) > k
    <2>1. From(1) = U
      BY <1>1
    <2> QED
      BY <1>1, <2>1
  <1> HIDE DEF U, L
  <1>6. ASSUME NEW n \in 1 .. L
        PROVE  C(n) = C(n + 1) + IF n \in U THEN 1 ELSE 0
    <2>0. \A j \in U : j \in Nat /\ (j >= n <=> j >= n + 1 \/ j = n) /\ ~(n >= n + 1)
      BY <1>1
    <2>1. CASE n \in U
      <3>1. From(n) = From(n + 1) \cup {n} /\ n \notin From(n + 1)
        BY <2>0, <2>1
      <3>2. IsFiniteSet(From(n + 1))
        BY <1>3
      <3> HIDE DEF From
      <3>3. Cardinality(From(n + 1) \cup {n}) = Cardinality(From(n + 1)) + 1
        BY <3>1, <3>2, FS_AddElement
      <3> QED
        BY <2>1, <3>1, <3>3
    <2>2. CASE n \notin U
      <3>1. From(n) = From(n + 1)
        BY <2>0, <2>2
      <3>2. C(n + 1) \in Nat
        BY <1>3
      <3> HIDE DEF From
      <3> QED
        BY <2>2, <3>1, <3>2
    <2> QED
      BY <2>1, <2>2
  <1> HIDE DEF C
  <1>7. T \subseteq Nat /\ T # {}
    <2>1. L \in 0 .. L /\ L + 1 - L = 1
      BY <1>1
    <2>0. C(1) \in Nat
      BY <1>3
    <2>2. C(1) >= k
      BY <1>5, <2>0
    <2>3. L \in T
      BY <2>1, <2>2
    <2> QED
      BY <2>3
  <1>8. PICK d \in T : \A c \in T : d <= c
    BY <1>7, LeastOf
  <1>9. d # 0
    <2>1. L + 1 - 0 = L + 1 /\ ~(0 >= k)
      BY <1>1
    <2>2. 0 \notin T
      BY <1>4, <2>1
    <2> QED
      BY <1>8, <2>2
  <1> DEFINE n == L + 1 - d
  <1>10. n \in 1 .. L /\ L + 1 - (d - 1) = n + 1 /\ d - 1 \in 0 .. L /\ ~(d <= d - 1)
    BY <1>1, <1>8, <1>9
  <1>11. C(n) >= k /\ ~(C(n + 1) >= k)
    <2>1. C(n) >= k
      BY <1>8
    <2>2. d - 1 \notin T
      BY <1>8, <1>10
    <2>3. ~(C(L + 1 - (d - 1)) >= k)
      BY <1>10, <2>2
    <2> QED
      BY <1>10, <2>1, <2>3
  <1> HIDE DEF n, T
  <1>12. n \in U /\ C(n) = k
    <2>1. C(n) = C(n + 1) + IF n \in U THEN 1 ELSE 0
      BY <1>6, <1>10
    <2>2. C(n) \in Nat /\ C(n + 1) \in Nat
      BY <1>3
    <2> QED
      BY <1>11, <2>1, <2>2
  <1> QED
    BY <1>12 DEF C, From, U

\* What is split off begins with a user's message, and the rest is remembered by its rows.
LEMMA SplitIs ==
  ASSUME NEW m \in Seq(Message), NEW k \in Nat \ {0}, Folds(m, k)
  PROVE  \E s \in 1 .. Len(m) :
            /\ m[s].role = "user"
            /\ Split(m, k).new = SubSeq(m, s, Len(m))
            /\ Split(m, k).old = Held(SubSeq(m, 1, s - 1))
  <1> DEFINE s == CHOOSE i \in UsersAt(m) : Cardinality({j \in UsersAt(m) : j >= i}) = k
  <1>1. s \in UsersAt(m)
    BY SplitPlace
  <1>2. Split(m, k) = [old |-> Held(SubSeq(m, 1, s - 1)), new |-> SubSeq(m, s, Len(m))]
    BY DEF Split, Held
  <1> HIDE DEF s
  <1>3. s \in 1 .. Len(m) /\ m[s].role = "user"
    BY <1>1 DEF UsersAt
  <1> QED
    BY <1>2, <1>3

\* All that was held is held by the two parts.
LEMMA HeldSplit ==
  ASSUME NEW m \in Seq(Message), NEW s \in 1 .. Len(m)
  PROVE  Held(m) = Held(SubSeq(m, 1, s - 1)) \cup Held(SubSeq(m, s, Len(m)))
  <1> DEFINE a == SubSeq(m, 1, s - 1)
             b == SubSeq(m, s, Len(m))
  <1>1. /\ a \in Seq(Message) /\ b \in Seq(Message)
        /\ Len(a) = s - 1 /\ Len(b) = Len(m) - s + 1 /\ Len(m) \in Nat /\ s \in Nat
        /\ \A i \in 1 .. s - 1 : a[i] = m[i]
        /\ \A i \in 1 .. Len(m) - s + 1 : b[i] = m[i + s - 1]
    OBVIOUS
  <1> DEFINE Has(x, q) == (q = x.row /\ q # 0) \/ q \in x.folds
  <1>2. \A n, q : q \in Held(n) <=> \E i \in 1 .. Len(n) : Has(n[i], q)
    BY InHeld
  <1> HIDE DEF a, b, Has
  <1>3. ASSUME NEW q, q \in Held(m) PROVE q \in Held(a) \cup Held(b)
    <2>1. PICK i \in 1 .. Len(m) : Has(m[i], q)
      BY <1>2, <1>3
    <2>2. CASE i < s
      <3>1. i \in 1 .. Len(a) /\ a[i] = m[i]
        BY <1>1, <2>2
      <3> QED
        BY <1>2, <2>1, <3>1
    <2>3. CASE s <= i
      <3>1. i - s + 1 \in 1 .. Len(b) /\ b[i - s + 1] = m[(i - s + 1) + s - 1] /\ (i - s + 1) + s - 1 = i
        BY <1>1, <2>3
      <3> QED
        BY <1>2, <2>1, <3>1
    <2> QED
      BY <1>1, <2>2, <2>3
  <1>4. ASSUME NEW q, q \in Held(a) PROVE q \in Held(m)
    <2>1. PICK i \in 1 .. Len(a) : Has(a[i], q)
      BY <1>2, <1>4
    <2>2. i \in 1 .. Len(m) /\ a[i] = m[i]
      BY <1>1
    <2> QED
      BY <1>2, <2>1, <2>2
  <1>5. ASSUME NEW q, q \in Held(b) PROVE q \in Held(m)
    <2>1. PICK i \in 1 .. Len(b) : Has(b[i], q)
      BY <1>2, <1>5
    <2>2. i + s - 1 \in 1 .. Len(m) /\ b[i] = m[i + s - 1]
      BY <1>1
    <2> QED
      BY <1>2, <2>1, <2>2
  <1> QED
    BY <1>3, <1>4, <1>5 DEF a, b

\* What is held is a set of rows.
LEMMA HeldRows ==
  ASSUME NEW m \in Seq(Message)
  PROVE  Held(m) \subseteq Nat
  <1>1. \A i \in 1 .. Len(m) : m[i] \in Message
    OBVIOUS
  <1>2. \A i \in 1 .. Len(m) : m[i].row \in Nat /\ m[i].folds \subseteq Nat
    BY <1>1, Kinds
  <1> QED
    BY <1>2, InHeld

\* All that is needed of a split.
LEMMA SplitKeeps ==
  ASSUME NEW m, NEW n, NEW l, Sound(m, n, l), NEW k \in Nat \ {0}, Folds(m, k)
  PROVE  /\ IsFold(Split(m, k)) /\ Sound(Split(m, k).new, n, l) /\ UserFirst(Split(m, k).new)
         /\ Good(m) => Good(Split(m, k).new)
         /\ Held(m) = Split(m, k).old \cup Held(Split(m, k).new)
  <1>0. m \in Seq(Message)
    BY DEF Sound
  <1>1. PICK s \in 1 .. Len(m) : /\ m[s].role = "user"
                                 /\ Split(m, k).new = SubSeq(m, s, Len(m))
                                 /\ Split(m, k).old = Held(SubSeq(m, 1, s - 1))
    BY <1>0, SplitIs
  <1>2. SubSeq(m, 1, s - 1) \in Seq(Message)
    BY <1>0
  <1>3. Split(m, k).old \subseteq Nat
    BY <1>1, <1>2, HeldRows
  <1>4. Sound(Split(m, k).new, n, l)
    BY <1>1, SoundSuffix
  <1>5. Split(m, k).new \in Seq(Message)
    BY <1>4 DEF Sound
  <1>6. Good(m) => Good(Split(m, k).new)
    BY <1>0, <1>1, GoodSuffix
  <1>7. UserFirst(Split(m, k).new)
    <2>1. Len(m) \in Nat /\ SubSeq(m, s, Len(m))[1] = m[s]
      BY <1>0
    <2> QED
      BY <1>1, <2>1 DEF UserFirst
  <1>8. Held(m) = Split(m, k).old \cup Held(Split(m, k).new)
    BY <1>0, <1>1, HeldSplit
  <1> QED
    BY <1>3, <1>4, <1>5, <1>6, <1>7, <1>8 DEF IsFold

\* The last of some rows.
LEMMA LastOf ==
  ASSUME NEW n \in Nat, NEW T \in SUBSET (1 .. n), T # {}
  PROVE  \E r \in T : \A q \in T : q <= r
  <1> DEFINE D == {d \in 0 .. n : n - d \in T}
  <1>1. D \subseteq Nat /\ D # {}
    <2>1. PICK t \in T : TRUE
      OBVIOUS
    <2>2. t \in 1 .. n
      OBVIOUS
    <2>3. n - t \in 0 .. n /\ n - (n - t) = t
      BY <2>2
    <2>4. n - t \in D
      BY <2>1, <2>3
    <2>5. D \subseteq Nat
      OBVIOUS
    <2> HIDE DEF D
    <2> QED
      BY <2>4, <2>5
  <1>2. PICK d \in D : \A c \in D : d <= c
    BY <1>1, LeastOf
  <1>3. ASSUME NEW q \in T PROVE q <= n - d
    <2>1. q \in 1 .. n /\ d \in 0 .. n
      BY <1>2
    <2>2. n - q \in 0 .. n /\ n - (n - q) = q
      BY <2>1
    <2>3. n - q \in D
      BY <2>2
    <2>4. d <= n - q
      BY <1>2, <2>3
    <2> QED
      BY <2>1, <2>4
  <1> QED
    BY <1>2, <1>3
-----------------------------------------------------------------------------
(* What is known in every step *)

\* The numbers that are compared.
LEMMA Known ==
  ASSUME Talk
  PROVE  /\ ConversationTypeOK /\ AllSound /\ AllGood /\ Owing /\ Covered /\ Asking
         /\ calls \in Nat /\ last \in Nat /\ Len(db) \in Nat /\ last <= Len(db) /\ NextRow \in Nat
         /\ NextRow = Len(db) + 1 /\ last < NextRow
         /\ ckpt.last \in Nat /\ ckpt.last <= last /\ MaxCalls \in Nat /\ calls <= MaxCalls
         /\ Keep \in Nat \ {0} /\ RecoverKeep \in Nat \ {0}
         /\ msgs \in Seq(Message) /\ prev \in Seq(Message) /\ ckpt.msgs \in Seq(Message)
         /\ fold.new \in Seq(Message) /\ cmd.fold.new \in Seq(Message)
  <1>1. ConversationTypeOK /\ AllSound /\ AllGood /\ Owing /\ Covered /\ Asking
    BY DEF Talk
  <1>2. MaxCalls \in Nat /\ Keep \in Nat \ {0} /\ RecoverKeep \in Nat \ {0}
    BY ConversationAssumption DEF ConversationAssumption
  <1>3. /\ calls \in 0 .. MaxCalls /\ last \in 0 .. Len(db) /\ db \in Seq({"user", "assistant", "tool"})
        /\ ckpt.last \in 0 .. Len(db)
        /\ msgs \in Seq(Message) /\ prev \in Seq(Message) /\ ckpt.msgs \in Seq(Message)
        /\ fold.new \in Seq(Message) /\ cmd.fold.new \in Seq(Message)
    BY <1>1 DEF ConversationTypeOK, IsFold
  <1>4. Len(db) \in Nat
    BY <1>3
  <1>5. ckpt.last <= last
    BY <1>1 DEF AllSound
  <1> QED
    BY <1>1, <1>2, <1>3, <1>4, <1>5 DEF NextRow

\* What is kept stays sound when calls and rows are added.
LEMMA StaySound ==
  ASSUME Talk, NEW n \in Nat, NEW l \in Nat, calls <= n, last <= l
  PROVE  /\ Sound(msgs, n, l) /\ Sound(prev, n, l) /\ Sound(fold.new, n, l)
         /\ Sound(cmd.fold.new, n, l) /\ Sound(ckpt.msgs, n, ckpt.last) /\ ckpt.last <= l
  <1>1. /\ calls \in Nat /\ last \in Nat /\ ckpt.last \in Nat /\ ckpt.last <= last
        /\ Sound(msgs, calls, last) /\ Sound(prev, calls, last)
        /\ Sound(fold.new, calls, last) /\ Sound(cmd.fold.new, calls, last)
        /\ Sound(ckpt.msgs, calls, ckpt.last)
    BY Known DEF AllSound
  <1>2. Sound(msgs, n, l) /\ Sound(prev, n, l) /\ Sound(fold.new, n, l) /\ Sound(cmd.fold.new, n, l)
    BY <1>1, SoundMore
  <1>3. Sound(ckpt.msgs, n, ckpt.last)
    <2>1. ckpt.last <= ckpt.last
      BY <1>1
    <2> QED
      BY <1>1, <2>1, SoundMore
  <1>4. ckpt.last <= l
    BY <1>1
  <1> QED
    BY <1>2, <1>3, <1>4

\* An added message drops nothing.
LEMMA HeldAppend ==
  ASSUME NEW m \in Seq(Message), NEW x \in Message
  PROVE  /\ Append(m, x) \in Seq(Message) /\ Held(m) \subseteq Held(Append(m, x))
         /\ x.row # 0 => x.row \in Held(Append(m, x))
  <1>1. /\ Append(m, x) = m \o <<x>> /\ <<x>> \in Seq(Message)
        /\ Len(<<x>>) = 1 /\ <<x>>[1] = x /\ Append(m, x) \in Seq(Message)
    BY AppendJoint
  <1>2. Held(m \o <<x>>) = Held(m) \cup Held(<<x>>)
    BY <1>1, HeldJoint
  <1>3. x.row # 0 => x.row \in Held(<<x>>)
    BY <1>1, InHeld
  <1> QED
    BY <1>1, <1>2, <1>3

\* A question or notice of a new row is added.
LEMMA UserAdded ==
  ASSUME Talk
  PROVE  LET m == Append(msgs, User(NextRow)) IN
         /\ m \in Seq(Message) /\ Sound(m, calls, NextRow)
         /\ Good(msgs) => Good(m)
         /\ Held(msgs) \subseteq Held(m) /\ NextRow \in Held(m) /\ \A q : Open(m, q)
  <1> DEFINE x == User(NextRow)
             m == Append(msgs, x)
  <1>1. /\ calls \in Nat /\ last \in Nat /\ NextRow \in Nat /\ last < NextRow /\ NextRow # 0
        /\ msgs \in Seq(Message) /\ Sound(msgs, calls, last)
    BY Known DEF AllSound
  <1>2. x \in Message /\ x.role = "user" /\ x.row = NextRow /\ x.calls = {}
    BY <1>1, Made
  <1> HIDE DEF x
  <1>3. Sound(m, calls, NextRow)
    BY <1>1, <1>2, SoundAppend
  <1>4. Good(msgs) => Good(m)
    BY <1>1, <1>2, GoodPlain
  <1>5. m \in Seq(Message) /\ Held(msgs) \subseteq Held(m) /\ NextRow \in Held(m)
    BY <1>1, <1>2, HeldAppend
  <1>6. \A q : Open(m, q)
    BY <1>1, <1>2, OpenNew
  <1> QED
    BY <1>3, <1>4, <1>5, <1>6 DEF x

\* m can take the place of what was split into f.
TakesPlace(m, f, ok) ==
    /\ m \in Seq(Message) /\ Sound(m, calls, IF remote THEN NextRow ELSE last)
    /\ Good(f.new) => Good(m)
    /\ Held(f.new) \subseteq Held(m)
    /\ ok => f.old \subseteq Held(m)

\* What the messages are replaced by.
LEMMA ReplacedIs ==
  ASSUME Talk, NEW f, f.old \subseteq Nat, f.new \in Seq(Message), Sound(f.new, calls, last),
         UserFirst(f.new), NEW ok \in BOOLEAN
  PROVE  TakesPlace(Replaced(f, ok), f, ok)
  <1> DEFINE s == IF ok THEN <<Summary(f.old)>> ELSE <<>>
             t == Folded(f, ok)
             m == Replaced(f, ok)
             l == IF remote THEN NextRow ELSE last
             x == User(NextRow)
  <1>1. /\ calls \in Nat /\ last \in Nat /\ NextRow \in Nat /\ last < NextRow /\ NextRow # 0
        /\ l \in Nat /\ last <= l
    BY Known
  <1>2. t = s \o f.new
    BY DEF Folded
  <1>3. /\ s \in Seq(Message) /\ Sound(s, calls, last) /\ Good(s)
        /\ \A i \in 1 .. Len(s) : s[i].row = 0 /\ s[i].calls = {}
        /\ ok => f.old \subseteq Held(s)
    <2>1. CASE ok
      <3>1. /\ Summary(f.old) \in Message /\ Summary(f.old).row = 0 /\ Summary(f.old).calls = {}
            /\ Summary(f.old).folds = f.old
        BY Made
      <3> DEFINE y == Summary(f.old)
      <3> HIDE DEF y
      <3>2. s = <<y>> /\ y \in Message /\ y.row = 0 /\ y.calls = {} /\ y.folds = f.old
        BY <2>1, <3>1 DEF y
      <3>3. <<y>> \in Seq(Message) /\ Len(<<y>>) = 1 /\ <<y>>[1] = y
        BY <3>2
      <3>4. Sound(<<y>>, calls, last)
        <4>1. y.calls \subseteq 1 .. calls /\ y.row <= last
          BY <1>1, <3>2
        <4> QED
          BY <3>2, <4>1, SoundOne
      <3>5. Good(<<y>>)
        BY <3>3, GoodShort
      <3>6. f.old \subseteq Held(<<y>>)
        BY <3>2, <3>3, InHeld
      <3>7. \A i \in 1 .. Len(<<y>>) : <<y>>[i] = y
        BY <3>3
      <3> QED
        BY <3>2, <3>3, <3>4, <3>5, <3>6, <3>7
    <2>2. CASE ~ok
      <3>1. s = <<>> /\ <<>> \in Seq(Message) /\ Len(<<>>) = 0
        BY <2>2
      <3> QED
        BY <2>2, <3>1, SoundEmpty, GoodShort
    <2> QED
      BY <2>1, <2>2
  <1> HIDE DEF s, t
  <1>4. /\ t \in Seq(Message) /\ Held(t) = Held(s) \cup Held(f.new)
    BY <1>2, <1>3, Joint, HeldJoint
  <1>5. Sound(t, calls, last)
    BY <1>2, <1>3, SoundJoint
  <1>6. Good(f.new) => Good(t)
    <2> SUFFICES ASSUME Good(f.new) PROVE Good(t)
      OBVIOUS
    <2>1. f.new # <<>> => f.new[1].role # "tool"
      BY DEF UserFirst
    <2>2. \A i \in 1 .. Len(s), j \in 1 .. Len(f.new) :
             Calling(s, i) /\ Calling(f.new, j) => s[i].calls \cap f.new[j].calls = {}
      BY <1>3
    <2> QED
      BY <1>2, <1>3, <2>1, <2>2, GoodJoint
  <1>7. m = t \o (IF remote THEN <<x>> ELSE <<>>)
    BY DEF Replaced, Announced, t
  <1>8. x \in Message /\ x.role = "user" /\ x.row = NextRow /\ x.calls = {}
    BY <1>1, Made
  <1> HIDE DEF m, x, l
  <1>9. CASE remote
    <2>1. m = Append(t, x) /\ l = NextRow
      BY <1>4, <1>7, <1>8, <1>9, AppendJoint DEF l
    <2>2. Sound(m, calls, l)
      BY <1>1, <1>5, <1>8, <2>1, SoundAppend
    <2>3. Good(t) => Good(m)
      BY <1>4, <1>8, <2>1, GoodPlain
    <2>4. m \in Seq(Message) /\ Held(t) \subseteq Held(m)
      BY <1>4, <1>8, <2>1, HeldAppend
    <2> QED
      BY <1>3, <1>4, <1>6, <2>2, <2>3, <2>4 DEF m, l, TakesPlace
  <1>10. CASE ~remote
    <2>1. m = t /\ l = last
      BY <1>4, <1>7, <1>10 DEF l
    <2> QED
      BY <1>3, <1>4, <1>5, <1>6, <2>1 DEF m, l, TakesPlace
  <1> QED
    BY <1>9, <1>10

\* The messages with the rows of others.
LEMMA SyncedIs ==
  ASSUME Talk, NEW l \in Nat, last <= l, \A r \in NewRows : r <= l
  PROVE  /\ Synced \in Seq(Message) /\ Sound(Synced, calls, l)
         /\ Good(msgs) => Good(Synced)
         /\ RowsOf(Synced) \subseteq 1 .. Len(db) /\ NewRows \subseteq RowsOf(Synced)
  <1> DEFINE t == RowMessages(NewRows)
  <1>1. /\ calls \in Nat /\ last \in Nat /\ Len(db) \in Nat /\ last <= Len(db)
        /\ msgs \in Seq(Message) /\ Sound(msgs, calls, last)
    BY Known DEF AllSound
  <1>2. db \in Seq({"user", "assistant", "tool"}) /\ NewRows \in SUBSET (1 .. Len(db))
        /\ \A r \in NewRows : r \in Nat /\ last < r /\ r # 0
    <2>1. db \in Seq({"user", "assistant", "tool"})
      BY Known DEF ConversationTypeOK
    <2>2. \A r \in NewRows : r \in 1 .. Len(db) /\ r \in Nat /\ last < r /\ r # 0
      BY <1>1 DEF NewRows
    <2> QED
      BY <2>1, <2>2
  <1>3. /\ t \in Seq(Message)
        /\ \A i \in 1 .. Len(t) : t[i].row \in NewRows /\ t[i].calls = {} /\ t[i].role # "tool"
        /\ \A k \in NewRows : \E i \in 1 .. Len(t) : t[i].row = k
        /\ \A i, j \in 1 .. Len(t) : i # j => t[i].row # t[j].row
    BY <1>2, RowsOnce
  <1>4. Synced = msgs \o t
    BY DEF Synced
  <1> HIDE DEF t
  <1>5. Sound(t, calls, l)
    BY <1>3 DEF Sound
  <1>6. Sound(msgs, calls, l)
    BY StaySound, <1>1
  <1>7. \A i \in 1 .. Len(msgs) : msgs[i].row \in Nat /\ msgs[i].row <= last
    <2>1. \A i \in 1 .. Len(msgs) : msgs[i] \in Message /\ msgs[i].row <= last
      BY <1>1 DEF Sound
    <2> QED
      BY <2>1, Kinds
  <1>8. Sound(Synced, calls, l)
    <2>1. ASSUME NEW i \in 1 .. Len(msgs), NEW j \in 1 .. Len(t), msgs[i].row = t[j].row
          PROVE  FALSE
      <3>1. msgs[i].row \in Nat /\ msgs[i].row <= last /\ t[j].row \in NewRows
        BY <1>3, <1>7
      <3> QED
        BY <1>1, <1>2, <2>1, <3>1
    <2> QED
      BY <1>4, <1>5, <1>6, <2>1, SoundJoint
  <1>9. Good(msgs) => Good(Synced)
    <2>1. t # <<>> => t[1].role # "tool"
      BY <1>3
    <2>2. \A j \in 1 .. Len(t) : ~Calling(t, j)
      BY <1>3 DEF Calling
    <2>3. Good(t)
      BY <1>3, <2>2 DEF Good
    <2> QED
      BY <1>1, <1>3, <1>4, <2>1, <2>2, <2>3, GoodJoint
  <1>10. Synced \in Seq(Message)
    BY <1>8 DEF Sound
  <1>11. /\ Len(Synced) = Len(msgs) + Len(t) /\ Len(msgs) \in Nat /\ Len(t) \in Nat
         /\ \A i \in 1 .. Len(msgs) : Synced[i] = msgs[i]
         /\ \A i \in 1 .. Len(t) : Synced[Len(msgs) + i] = t[i]
         /\ \A i \in 1 .. Len(Synced) :
               i \in 1 .. Len(msgs) \/ (i - Len(msgs) \in 1 .. Len(t) /\ i = Len(msgs) + (i - Len(msgs)))
    BY <1>1, <1>3, <1>4, Joint
  <1>12. ASSUME NEW r \in NewRows PROVE r \in RowsOf(Synced)
    <2>1. PICK i \in 1 .. Len(t) : t[i].row = r
      BY <1>3
    <2>2. Len(msgs) + i \in 1 .. Len(Synced) /\ Synced[Len(msgs) + i].row = r
      BY <1>11, <2>1
    <2> QED
      BY <1>2, <2>2 DEF RowsOf
  <1>13. ASSUME NEW i \in 1 .. Len(Synced) PROVE Synced[i].row \in 0 .. Len(db)
    <2>1. CASE i \in 1 .. Len(msgs)
      BY <1>1, <1>7, <1>11, <2>1
    <2>2. CASE i - Len(msgs) \in 1 .. Len(t) /\ i = Len(msgs) + (i - Len(msgs))
      <3>0. Synced[Len(msgs) + (i - Len(msgs))] = t[i - Len(msgs)]
        BY <1>11, <2>2
      <3>1. Synced[i].row \in NewRows
        BY <1>3, <2>2, <3>0
      <3> QED
        BY <1>2, <3>1
    <2> QED
      BY <1>11, <2>1, <2>2
  <1>14. RowsOf(Synced) \subseteq 1 .. Len(db)
    BY <1>1, <1>13 DEF RowsOf
  <1> QED
    BY <1>8, <1>9, <1>10, <1>12, <1>14
-----------------------------------------------------------------------------
(* The steps of a turn *)

\* The invariant holds at the start, and every action keeps it.
LEMMA InitTalk == InitConversation => Talk
  <1> SUFFICES ASSUME InitConversation PROVE Talk
    OBVIOUS
  <1>1. ConversationTypeOK
    <2>1. <<>> \in Seq(Message) /\ <<>> \in Seq(1 .. MaxCalls)
          /\ <<>> \in Seq({"user", "assistant", "tool"}) /\ Len(<<>>) = 0
      OBVIOUS
    <2>2. left \in [Events -> Nat] /\ MaxIterations \in Nat /\ MaxNudges \in Nat
          /\ RetryLimit \in Nat /\ MaxTurns \in Nat /\ MaxCalls \in Nat
      BY ConversationAssumption DEF ConversationAssumption, InitConversation
    <2>3. IsFold(fold) /\ cmd.on \in BOOLEAN /\ IsFold(cmd.fold) /\ cmd.dirty \in BOOLEAN
      BY <2>1 DEF InitConversation, IsFold, Nothing, NoCommand
    <2>4. /\ ckpt.msgs \in Seq(Message) /\ ckpt.last = 0 /\ ckpt.goal \in BOOLEAN
          /\ ckpt.dirty \in BOOLEAN
      BY <2>1 DEF InitConversation, NoCheckpoint
    <2>5. /\ turnAt = "idle" /\ iter = 0 /\ prev = <<>> /\ owed = <<>> /\ nudges = 0 /\ retries = 0
          /\ recovered = FALSE /\ turns = 0 /\ calls = 0 /\ msgs = <<>> /\ db = <<>> /\ last = 0
          /\ goal = FALSE /\ remote = FALSE /\ question = 0 /\ dirty = FALSE /\ cut = FALSE
          /\ synced = {} /\ exposed = {} /\ Len(db) = 0
      BY <2>1 DEF InitConversation
    <2>6. /\ iter \in 0 .. MaxIterations /\ nudges \in 0 .. MaxNudges /\ retries \in 0 .. RetryLimit
          /\ turns \in 0 .. MaxTurns /\ calls \in 0 .. MaxCalls
          /\ last \in 0 .. Len(db) /\ question \in 0 .. Len(db) /\ ckpt.last \in 0 .. Len(db)
      BY <2>2, <2>4, <2>5
    <2>7. /\ msgs \in Seq(Message) /\ prev \in Seq(Message) /\ owed \in Seq(1 .. MaxCalls)
          /\ db \in Seq({"user", "assistant", "tool"})
      BY <2>1, <2>5
    <2>8. /\ synced \subseteq 1 .. Len(db) /\ exposed \subseteq 1 .. Len(db)
          /\ recovered \in BOOLEAN /\ goal \in BOOLEAN /\ remote \in BOOLEAN
          /\ dirty \in BOOLEAN /\ cut \in BOOLEAN
          /\ turnAt \in {"idle", "recall", "top", "compress", "llm", "recover", "calling",
                         "executing", "storing"}
      BY <2>5
    <2> QED
      BY <2>2, <2>3, <2>4, <2>6, <2>7, <2>8 DEF ConversationTypeOK
  <1>2. AllSound
    BY SoundEmpty DEF InitConversation, AllSound, Nothing, NoCommand, NoCheckpoint
  <1>3. AllGood
    <2>1. Good(<<>>) /\ UserFirst(<<>>)
      BY GoodShort DEF UserFirst
    <2> QED
      BY <2>1 DEF InitConversation, AllGood, Nothing, NoCommand, NoCheckpoint
  <1>4. Owing /\ Covered /\ Asking
    BY DEF InitConversation, Owing, Covered, Asking, Turning
  <1> QED
    BY <1>1, <1>2, <1>3, <1>4 DEF Talk

LEMMA KeepBeginTurn == ASSUME Talk, BeginTurn PROVE Talk'
  <1>1. /\ ConversationTypeOK /\ AllSound /\ AllGood /\ Owing /\ Covered
        /\ calls \in Nat /\ last \in Nat /\ Len(db) \in Nat /\ last <= Len(db)
        /\ ckpt.last \in Nat /\ ckpt.last <= last /\ MaxCalls \in Nat
    BY Known
  <1>2. /\ last' \in 0 .. Len(db) /\ last <= last' /\ \A r \in NewRows : r <= last'
    <2>1. CASE NewRows = {}
      BY <1>1, <2>1 DEF BeginTurn
    <2>2. CASE NewRows # {}
      <3>1. NewRows \in SUBSET (1 .. Len(db)) /\ \A r \in NewRows : last < r
        BY <1>1 DEF NewRows
      <3>2. \E r \in NewRows : \A q \in NewRows : q <= r
        BY <1>1, <2>2, <3>1, LastOf
      <3>3. last' \in NewRows /\ \A q \in NewRows : q <= last'
        BY <2>2, <3>2 DEF BeginTurn
      <3> QED
        BY <1>1, <3>1, <3>3
    <2> QED
      BY <2>1, <2>2
  <1>3. /\ Synced \in Seq(Message) /\ Sound(Synced, calls, last') /\ (Good(msgs) => Good(Synced))
        /\ RowsOf(Synced) \subseteq 1 .. Len(db) /\ NewRows \subseteq RowsOf(Synced)
    <2>1. last' \in Nat
      BY <1>1, <1>2
    <2> QED
      BY <1>2, <2>1, SyncedIs
  <1>4. Sound(msgs', calls, last') /\ msgs' \in Seq(Message)
    <2>1. last' \in Nat
      BY <1>1, <1>2
    <2> QED
      BY <1>1, <1>3, <2>1, SoundRepair, RepairPlaces DEF BeginTurn
  <1>5. Good(msgs) => Good(msgs')
    BY <1>1, <1>3, RepairGood DEF BeginTurn
  <1>6. AllSound'
    <2>1. last' \in Nat
      BY <1>1, <1>2
    <2>2. calls <= calls
      BY <1>1
    <2>3. /\ Sound(prev, calls, last') /\ Sound(fold.new, calls, last')
          /\ Sound(cmd.fold.new, calls, last') /\ Sound(ckpt.msgs, calls, ckpt.last) /\ ckpt.last <= last'
      BY <1>1, <1>2, <2>1, <2>2, StaySound
    <2> QED
      BY <1>4, <2>3 DEF AllSound, BeginTurn
  <1>7. AllGood'
    BY <1>1, <1>5 DEF AllGood, BeginTurn
  <1>8. Owing'
    BY <1>1 DEF Owing, BeginTurn
  <1>9. Covered'
    <2> SUFFICES ASSUME NEW r \in 1 .. Len(db), db[r] # "tool", r \notin synced \cup exposed
                 PROVE  r \in synced'
      BY DEF Covered, BeginTurn
    <2>1. r > last
      BY <1>1 DEF Covered
    <2>2. r \in NewRows
      BY <1>1, <2>1 DEF NewRows
    <2> QED
      BY <1>3, <2>2 DEF BeginTurn
  <1>10. Asking'
    BY DEF Asking, Turning, BeginTurn
  <1>11. ConversationTypeOK'
    <2>1. turns' \in 0 .. MaxTurns
      BY <1>1, ConversationAssumption DEF ConversationAssumption, ConversationTypeOK, BeginTurn
    <2>2. synced' \subseteq 1 .. Len(db)
      BY <1>1, <1>3 DEF ConversationTypeOK, BeginTurn
    <2> QED
      BY <1>1, <1>2, <1>4, <2>1, <2>2 DEF ConversationTypeOK, BeginTurn
  <1> QED
    BY <1>6, <1>7, <1>8, <1>9, <1>10, <1>11 DEF Talk

\* One row more in the history.
LEMMA RowWritten ==
  ASSUME Talk, NEW role \in {"user", "assistant", "tool"}, db' = Append(db, role)
  PROVE  /\ db' \in Seq({"user", "assistant", "tool"}) /\ Len(db') = NextRow /\ 1 .. Len(db) \subseteq 1 .. NextRow
         /\ NextRow \in 1 .. NextRow
         /\ \A r \in 1 .. NextRow : r = NextRow \/ (r \in 1 .. Len(db) /\ db'[r] = db[r])
         /\ db'[NextRow] = role
  <1>1. db \in Seq({"user", "assistant", "tool"}) /\ NextRow = Len(db) + 1
    BY Known DEF ConversationTypeOK
  <1> QED
    BY <1>1

LEMMA KeepAsk == ASSUME Talk, Ask PROVE Talk'
  <1>1. /\ ConversationTypeOK /\ AllSound /\ AllGood /\ Owing /\ Covered
        /\ calls \in Nat /\ last \in Nat /\ NextRow \in Nat /\ last <= NextRow /\ calls <= calls
    BY Known
  <1>2. /\ msgs' \in Seq(Message) /\ Sound(msgs', calls, NextRow)
        /\ Good(msgs) => Good(msgs')
        /\ NextRow \in Held(msgs')
    BY UserAdded DEF Ask
  <1>3. db' = Append(db, "user") /\ last' = NextRow /\ synced' = synced \cup {NextRow}
    BY DEF Ask, Write
  <1>4. /\ db' \in Seq({"user", "assistant", "tool"}) /\ Len(db') = NextRow /\ 1 .. Len(db) \subseteq 1 .. NextRow
        /\ NextRow \in 1 .. NextRow
        /\ \A r \in 1 .. NextRow : r = NextRow \/ (r \in 1 .. Len(db) /\ db'[r] = db[r])
    BY <1>3, RowWritten
  <1>5. AllSound'
    BY <1>1, <1>2, <1>3, StaySound DEF AllSound, Ask, diskVars
  <1>6. AllGood'
    BY <1>1, <1>2 DEF AllGood, Ask, diskVars
  <1>7. Owing'
    BY <1>1 DEF Owing, Ask, diskVars
  <1>8. Covered'
    BY <1>1, <1>3, <1>4 DEF Covered, Ask
  <1>9. Asking'
    BY <1>2 DEF Asking, Ask, Held
  <1>10. ConversationTypeOK'
    <2>1. MaxIterations \in Nat
      BY ConversationAssumption DEF ConversationAssumption
    <2>2. synced' \subseteq 1 .. NextRow /\ exposed \subseteq 1 .. NextRow
      BY <1>1, <1>3, <1>4 DEF ConversationTypeOK
    <2>3. ckpt.last \in 0 .. NextRow /\ last' \in 0 .. NextRow /\ question' \in 0 .. NextRow
      BY <1>1, <1>3, Known DEF Ask
    <2> QED
      BY <1>1, <1>2, <1>3, <1>4, <2>1, <2>2, <2>3 DEF ConversationTypeOK, Ask, diskVars
  <1> QED
    BY <1>5, <1>6, <1>7, <1>8, <1>9, <1>10 DEF Talk

LEMMA KeepIterate == ASSUME Talk, Iterate PROVE Talk'
  <1>1. /\ ConversationTypeOK /\ AllSound /\ AllGood /\ Owing /\ Covered /\ Asking
        /\ last \in Nat /\ MaxCalls \in Nat /\ msgs \in Seq(Message)
    BY Known
  <1>2. /\ Sound(Repair(msgs), calls, last) /\ Repair(msgs) \in Seq(Message)
        /\ Held(Repair(msgs)) = Held(msgs) /\ (Good(msgs) => Good(Repair(msgs)))
    BY <1>1, SoundRepair, RepairPlaces, HeldRepair, RepairGood DEF AllSound
  <1>3. AllSound'
    BY <1>1, <1>2 DEF AllSound, Iterate, diskVars
  <1>4. AllGood'
    BY <1>1, <1>2 DEF AllGood, Iterate, EnterLlm, diskVars, ghosts
  <1>5. Owing'
    BY <1>1 DEF Owing, Iterate, EnterLlm, diskVars
  <1>6. Covered'
    BY <1>1 DEF Covered, Iterate, EnterLlm, ghosts
  <1>7. Asking'
    BY <1>1, <1>2 DEF Asking, Turning, Iterate, EnterLlm, ghosts, Held
  <1>8. ConversationTypeOK'
    <2>1. iter' \in 0 .. MaxIterations /\ retries' \in 0 .. RetryLimit
      BY <1>1, ConversationAssumption DEF ConversationAssumption, ConversationTypeOK, Iterate, EnterLlm
    <2> QED
      BY <1>1, <1>2, <2>1 DEF ConversationTypeOK, Iterate, EnterLlm, diskVars, ghosts
  <1> QED
    BY <1>3, <1>4, <1>5, <1>6, <1>7, <1>8 DEF Talk

LEMMA KeepOverflow == ASSUME Talk, Overflow PROVE Talk'
  <1>1. /\ ConversationTypeOK /\ AllSound /\ AllGood /\ Owing /\ Covered /\ Asking
        /\ Keep \in Nat \ {0}
    BY Known
  <1>2. /\ IsFold(fold') /\ Sound(fold'.new, calls, last) /\ UserFirst(fold'.new)
        /\ (Good(msgs) => Good(fold'.new))
        /\ Held(msgs) = fold'.old \cup Held(fold'.new)
    BY <1>1, SplitKeeps DEF Overflow, AllSound
  <1>3. AllSound'
    BY <1>1, <1>2 DEF AllSound, Overflow, diskVars
  <1>4. AllGood'
    BY <1>1, <1>2 DEF AllGood, Overflow, diskVars, ghosts
  <1>5. Owing'
    BY <1>1 DEF Owing, Overflow, diskVars
  <1>6. Covered'
    BY <1>1 DEF Covered, Overflow, ghosts
  <1>7. Asking'
    BY <1>1, <1>2 DEF Asking, Turning, Overflow, ghosts, Held
  <1>8. ConversationTypeOK'
    <2>1. iter' \in 0 .. MaxIterations
      BY <1>1, ConversationAssumption DEF ConversationAssumption, ConversationTypeOK, Overflow
    <2> QED
      BY <1>1, <1>2, <2>1 DEF ConversationTypeOK, Overflow, diskVars, ghosts
  <1> QED
    BY <1>3, <1>4, <1>5, <1>6, <1>7, <1>8 DEF Talk

\* A remote workspace is announced.
LEMMA Announced1 ==
  ASSUME Talk, Announce
  PROVE  /\ last' = (IF remote THEN NextRow ELSE last) /\ last' \in Nat /\ last <= last'
         /\ db' \in Seq({"user", "assistant", "tool"}) /\ last' \in 0 .. Len(db')
         /\ Len(db') \in Nat /\ 1 .. Len(db) \subseteq 1 .. Len(db') /\ Len(db) <= Len(db')
         /\ synced \subseteq synced' /\ synced' \subseteq 1 .. Len(db')
         /\ \A r \in 1 .. Len(db') : r \in synced' \/ (r \in 1 .. Len(db) /\ db'[r] = db[r])
         /\ ~remote => db' = db /\ synced' = synced
         /\ remote => last' = Len(db')
  <1>1. /\ last \in Nat /\ NextRow \in Nat /\ last < NextRow /\ NextRow = Len(db) + 1 /\ last <= Len(db)
        /\ Len(db) \in Nat
        /\ db \in Seq({"user", "assistant", "tool"}) /\ synced \subseteq 1 .. Len(db)
    BY Known DEF ConversationTypeOK
  <1>2. CASE remote
    <2>1. db' = Append(db, "user") /\ last' = NextRow /\ synced' = synced \cup {NextRow}
      BY <1>2 DEF Announce, Write
    <2>2. /\ db' \in Seq({"user", "assistant", "tool"}) /\ Len(db') = NextRow /\ 1 .. Len(db) \subseteq 1 .. NextRow
          /\ NextRow \in 1 .. NextRow
          /\ \A r \in 1 .. NextRow : r = NextRow \/ (r \in 1 .. Len(db) /\ db'[r] = db[r])
      BY <2>1, RowWritten
    <2>3. /\ last' \in Nat /\ last <= last' /\ last' \in 0 .. Len(db') /\ Len(db') \in Nat
          /\ Len(db) <= Len(db')
      BY <1>1, <2>1, <2>2
    <2>4. synced' \subseteq 1 .. Len(db')
      BY <1>1, <2>1, <2>2
    <2>5. \A r \in 1 .. Len(db') : r \in synced' \/ (r \in 1 .. Len(db) /\ db'[r] = db[r])
      BY <2>1, <2>2
    <2> QED
      BY <1>2, <2>1, <2>2, <2>3, <2>4, <2>5
  <1>3. CASE ~remote
    <2>1. db' = db /\ last' = last /\ synced' = synced
      BY <1>3 DEF Announce
    <2> QED
      BY <1>1, <1>3, <2>1
  <1> QED
    BY <1>2, <1>3

LEMMA KeepSummarised == ASSUME Talk, Summarised PROVE Talk'
  <1>1. /\ ConversationTypeOK /\ AllSound /\ AllGood /\ Owing /\ Covered /\ Asking
        /\ calls \in Nat /\ last \in Nat /\ MaxCalls \in Nat /\ fold.new \in Seq(Message)
        /\ calls <= calls
    BY Known
  <1>2. PICK ok \in BOOLEAN : /\ msgs' = Repair(Replaced(fold, ok))
                              /\ cut' = (cut \/ (~ok /\ question \in fold.old))
    BY DEF Summarised
  <1>3. /\ last' = (IF remote THEN NextRow ELSE last) /\ last' \in Nat /\ last <= last'
        /\ db' \in Seq({"user", "assistant", "tool"}) /\ last' \in 0 .. Len(db')
        /\ Len(db') \in Nat /\ 1 .. Len(db) \subseteq 1 .. Len(db') /\ Len(db) <= Len(db')
        /\ synced \subseteq synced' /\ synced' \subseteq 1 .. Len(db')
        /\ \A r \in 1 .. Len(db') : r \in synced' \/ (r \in 1 .. Len(db) /\ db'[r] = db[r])
    BY Announced1 DEF Summarised
  <1> DEFINE m == Replaced(fold, ok)
  <1>4. /\ m \in Seq(Message) /\ Sound(m, calls, last') /\ (Good(fold.new) => Good(m))
        /\ Held(fold.new) \subseteq Held(m) /\ (ok => fold.old \subseteq Held(m))
    <2>1. fold.old \subseteq Nat /\ Sound(fold.new, calls, last) /\ UserFirst(fold.new)
      BY <1>1 DEF ConversationTypeOK, IsFold, AllSound, AllGood
    <2>2. TakesPlace(m, fold, ok)
      BY <1>1, <2>1, ReplacedIs
    <2> QED
      BY <1>3, <2>2, Zenon DEF TakesPlace
  <1> HIDE DEF m
  <1>5. /\ msgs' \in Seq(Message) /\ Sound(msgs', calls, last') /\ (Good(fold.new) => Good(msgs'))
        /\ Held(fold.new) \subseteq Held(msgs') /\ (ok => fold.old \subseteq Held(msgs'))
    <2>1. msgs' = Repair(m)
      BY <1>2 DEF m
    <2> QED
      BY <1>1, <1>3, <1>4, <2>1, SoundRepair, RepairPlaces, HeldRepair, RepairGood
  <1>6. /\ turnAt' = "llm" /\ fold' = Nothing /\ turnAt \in {"compress", "recover"}
        /\ UNCHANGED <<iter, prev, owed, nudges, cmd, turns, calls, goal, remote, ckpt, left,
                       question, dirty, exposed>>
        /\ (retries' = 0 \/ retries' = retries) /\ (recovered' = FALSE \/ recovered' = recovered)
    BY DEF Summarised, EnterLlm, diskVars
  <1>7. Nothing.new = <<>> /\ Nothing.old = {} /\ Sound(<<>>, calls, last') /\ Good(<<>>) /\ UserFirst(<<>>)
    BY SoundEmpty, GoodShort DEF Nothing, UserFirst
  <1>8. AllSound'
    BY <1>1, <1>3, <1>5, <1>6, <1>7, StaySound DEF AllSound
  <1>9. AllGood'
    BY <1>1, <1>5, <1>6, <1>7 DEF AllGood
  <1>10. Owing'
    BY <1>1, <1>6 DEF Owing
  <1>11. Covered'
    <2> SUFFICES ASSUME NEW r \in 1 .. Len(db'), r \notin synced', r \notin exposed
                 PROVE  db'[r] = "tool"
      BY <1>6 DEF Covered
    <2>1. r \in 1 .. Len(db) /\ db'[r] = db[r] /\ r \notin synced
      BY <1>3
    <2> QED
      BY <1>1, <1>6, <2>1 DEF Covered
  <1>12. Asking'
    <2> SUFFICES ASSUME ~cut' PROVE question \in Held(msgs')
      BY <1>6 DEF Asking, Held
    <2>1. ~cut /\ (ok \/ question \notin fold.old)
      BY <1>2
    <2>2. question \in fold.old \cup Held(fold.new)
      BY <1>1, <1>6, <2>1 DEF Asking, Turning, Held
    <2> QED
      BY <1>5, <2>1, <2>2
  <1>13. ConversationTypeOK'
    <2>1. retries' \in 0 .. RetryLimit /\ recovered' \in BOOLEAN /\ cut' \in BOOLEAN /\ IsFold(fold')
      <3>1. RetryLimit \in Nat /\ <<>> \in Seq(Message)
        BY ConversationAssumption DEF ConversationAssumption
      <3>2. IsFold(fold')
        BY <1>6, <1>7, <3>1 DEF IsFold
      <3>0. retries \in 0 .. RetryLimit /\ recovered \in BOOLEAN
        BY <1>1 DEF ConversationTypeOK
      <3>3. retries' \in 0 .. RetryLimit
        BY <1>6, <3>0, <3>1
      <3>5. recovered' \in BOOLEAN
        BY <1>6, <3>0, Zenon
      <3>4. cut' \in BOOLEAN
        BY <1>1, <1>2 DEF ConversationTypeOK
      <3> QED
        BY <3>2, <3>3, <3>4, <3>5
    <2>2. ckpt.last \in 0 .. Len(db') /\ question \in 0 .. Len(db') /\ exposed \subseteq 1 .. Len(db')
      <3>1. ckpt.last \in 0 .. Len(db) /\ question \in 0 .. Len(db) /\ exposed \subseteq 1 .. Len(db) /\ Len(db) \in Nat
        BY <1>1, Known DEF ConversationTypeOK
      <3> QED
        BY <1>3, <3>1
    <2> QED
      BY <1>1, <1>3, <1>5, <1>6, <2>1, <2>2 DEF ConversationTypeOK
  <1> QED
    BY <1>8, <1>9, <1>10, <1>11, <1>12, <1>13 DEF Talk

\* What a step may do to the history.
RowsGrow ==
    /\ last' \in Nat /\ last <= last'
    /\ db' \in Seq({"user", "assistant", "tool"}) /\ last' \in 0 .. Len(db')
    /\ Len(db') \in Nat /\ 1 .. Len(db) \subseteq 1 .. Len(db') /\ Len(db) <= Len(db')
    /\ synced \subseteq synced' /\ synced' \subseteq 1 .. Len(db')
    /\ \A r \in 1 .. Len(db') : r \in synced' \/ (r \in 1 .. Len(db) /\ db'[r] = db[r])

\* A step that leaves the history alone, and one that writes a row.
LEMMA RowsSame ==
  ASSUME Talk, UNCHANGED <<db, last, synced>>
  PROVE  RowsGrow
  <1>1. /\ last \in Nat /\ last <= Len(db) /\ Len(db) \in Nat
        /\ db \in Seq({"user", "assistant", "tool"}) /\ synced \subseteq 1 .. Len(db)
    BY Known DEF ConversationTypeOK
  <1> QED
    BY <1>1 DEF RowsGrow

LEMMA RowsWrite ==
  ASSUME Talk, NEW role \in {"user", "assistant", "tool"}, Write(role)
  PROVE  RowsGrow
  <1>1. /\ last \in Nat /\ NextRow \in Nat /\ last < NextRow /\ NextRow = Len(db) + 1 /\ last <= Len(db)
        /\ Len(db) \in Nat /\ synced \subseteq 1 .. Len(db)
    BY Known DEF ConversationTypeOK
  <1>2. db' = Append(db, role) /\ last' = NextRow /\ synced' = synced \cup {NextRow}
    BY DEF Write
  <1>3. /\ db' \in Seq({"user", "assistant", "tool"}) /\ Len(db') = NextRow /\ 1 .. Len(db) \subseteq 1 .. NextRow
        /\ NextRow \in 1 .. NextRow
        /\ \A r \in 1 .. NextRow : r = NextRow \/ (r \in 1 .. Len(db) /\ db'[r] = db[r])
    BY <1>2, RowWritten
  <1>4. synced' \subseteq 1 .. Len(db')
    BY <1>1, <1>2, <1>3
  <1>5. \A r \in 1 .. Len(db') : r \in synced' \/ (r \in 1 .. Len(db) /\ db'[r] = db[r])
    BY <1>2, <1>3
  <1> QED
    BY <1>1, <1>2, <1>3, <1>4, <1>5 DEF RowsGrow

\* What remains of the history's part of the invariant.
LEMMA RowsKept ==
  ASSUME Talk, RowsGrow, exposed \subseteq exposed', exposed' \subseteq 1 .. Len(db'), turnAt' = "idle" \/ turnAt # "idle",
         \A r \in 1 .. Len(db) : turnAt = "idle" /\ r > last => r \in exposed' \/ r > last'
  PROVE  /\ Covered' /\ ckpt.last \in 0 .. Len(db') /\ question \in 0 .. Len(db')
         /\ last' \in 0 .. Len(db') /\ synced' \subseteq 1 .. Len(db')
         /\ db' \in Seq({"user", "assistant", "tool"})
  <1>1. /\ Covered /\ ckpt.last \in 0 .. Len(db) /\ question \in 0 .. Len(db) /\ Len(db) \in Nat
    BY Known DEF ConversationTypeOK
  <1>2. Covered'
    <2> SUFFICES ASSUME NEW r \in 1 .. Len(db'), r \notin synced', r \notin exposed', db'[r] # "tool"
                 PROVE  turnAt' = "idle" /\ r > last'
      BY DEF Covered
    <2>1. r \in 1 .. Len(db) /\ db'[r] = db[r] /\ r \notin synced
      BY DEF RowsGrow
    <2>2. turnAt = "idle" /\ r > last
      BY <1>1, <2>1 DEF Covered
    <2> QED
      BY <2>1, <2>2
  <1> QED
    BY <1>1, <1>2 DEF RowsGrow

LEMMA KeepOverflowError == ASSUME Talk, OverflowError PROVE Talk'
  <1>1. /\ ConversationTypeOK /\ AllSound /\ AllGood /\ Owing /\ Covered /\ Asking
        /\ last \in Nat /\ MaxCalls \in Nat /\ msgs \in Seq(Message) /\ RecoverKeep \in Nat \ {0}
    BY Known
  <1>2. /\ turnAt = "llm" /\ recovered' = TRUE
        /\ UNCHANGED <<iter, prev, owed, nudges, retries, db, last, cmd, turns, calls, goal, remote, ckpt,
                       left, question, dirty, cut, synced, exposed>>
    BY DEF OverflowError, diskVars, ghosts
  <1>3. CASE Folds(msgs, RecoverKeep)
    <2>1. turnAt' = "recover" /\ fold' = Split(msgs, RecoverKeep) /\ msgs' = msgs
      BY <1>3 DEF OverflowError
    <2>2. /\ IsFold(fold') /\ Sound(fold'.new, calls, last) /\ UserFirst(fold'.new)
          /\ (Good(msgs) => Good(fold'.new))
          /\ Held(msgs) = fold'.old \cup Held(fold'.new)
      BY <1>1, <1>3, <2>1, SplitKeeps DEF AllSound
    <2>3. AllSound' /\ AllGood' /\ Owing'
      BY <1>1, <1>2, <2>1, <2>2 DEF AllSound, AllGood, Owing
    <2>4. Covered' /\ Asking'
      BY <1>1, <1>2, <2>1, <2>2 DEF Covered, Asking, Turning, Held
    <2>5. ConversationTypeOK'
      BY <1>1, <1>2, <2>1, <2>2 DEF ConversationTypeOK
    <2> QED
      BY <2>3, <2>4, <2>5 DEF Talk
  <1>4. CASE ~Folds(msgs, RecoverKeep)
    <2>1. turnAt' = turnAt /\ fold' = fold /\ msgs' = Repair(msgs)
      BY <1>4 DEF OverflowError
    <2>2. /\ Sound(Repair(msgs), calls, last) /\ Repair(msgs) \in Seq(Message)
          /\ Held(Repair(msgs)) = Held(msgs) /\ (Good(msgs) => Good(Repair(msgs)))
      BY <1>1, SoundRepair, RepairPlaces, HeldRepair, RepairGood DEF AllSound
    <2>3. AllSound' /\ AllGood' /\ Owing'
      BY <1>1, <1>2, <2>1, <2>2 DEF AllSound, AllGood, Owing
    <2>4. Covered' /\ Asking'
      BY <1>1, <1>2, <2>1, <2>2 DEF Covered, Asking, Turning, Held
    <2>5. ConversationTypeOK'
      BY <1>1, <1>2, <2>1, <2>2 DEF ConversationTypeOK
    <2> QED
      BY <2>3, <2>4, <2>5 DEF Talk
  <1> QED
    BY <1>3, <1>4

LEMMA KeepMissingReasoning == ASSUME Talk, MissingReasoning PROVE Talk'
  <1>1. /\ ConversationTypeOK /\ AllSound /\ AllGood /\ Owing /\ Covered /\ Asking
        /\ last \in Nat /\ MaxCalls \in Nat /\ msgs \in Seq(Message)
    BY Known
  <1>2. /\ turnAt = "llm" /\ retries < RetryLimit /\ retries' = retries + 1 /\ msgs' = Repair(msgs)
        /\ UNCHANGED <<turnAt, iter, prev, owed, nudges, recovered, fold, db, last, cmd, turns, calls, goal,
                       remote, ckpt, left, question, dirty, cut, synced, exposed>>
    BY DEF MissingReasoning, diskVars, ghosts
  <1>3. /\ Sound(msgs', calls, last) /\ msgs' \in Seq(Message)
        /\ Held(msgs') = Held(msgs) /\ (Good(msgs) => Good(msgs'))
    BY <1>1, <1>2, SoundRepair, RepairPlaces, HeldRepair, RepairGood DEF AllSound
  <1>4. AllSound' /\ AllGood' /\ Owing'
    BY <1>1, <1>2, <1>3 DEF AllSound, AllGood, Owing
  <1>5. Covered' /\ Asking'
    BY <1>1, <1>2, <1>3 DEF Covered, Asking, Turning, Held
  <1>6. ConversationTypeOK'
    <2>1. retries' \in 0 .. RetryLimit
      BY <1>1, <1>2, ConversationAssumption DEF ConversationAssumption, ConversationTypeOK
    <2> QED
      BY <1>1, <1>2, <1>3, <2>1 DEF ConversationTypeOK
  <1> QED
    BY <1>4, <1>5, <1>6 DEF Talk

\* The end of a turn, with the messages m.
LEMMA Finalized ==
  ASSUME Talk, NEW m, NEW l, Finalize(m, l), last' = l, RowsGrow, turnAt # "idle",
         Sound(m, calls, l), dirty \/ Good(m),
         UNCHANGED <<cmd, turns, calls, goal, remote, left, dirty, exposed>>
  PROVE  Talk'
  <1>1. /\ ConversationTypeOK /\ AllSound /\ AllGood /\ Owing /\ Covered
        /\ calls \in Nat /\ calls <= calls /\ MaxCalls \in Nat
    BY Known
  <1>2. /\ turnAt' = "idle" /\ iter' = 0 /\ prev' = <<>> /\ owed' = <<>>
        /\ nudges' = 0 /\ retries' = 0 /\ recovered' = FALSE /\ fold' = Nothing
        /\ question' = 0 /\ cut' = FALSE /\ msgs' = Repair(m)
    BY DEF Finalize
  <1>3. ckpt'.msgs = msgs' /\ ckpt'.last = l /\ ckpt'.goal = goal /\ ckpt'.dirty = dirty
    BY DEF Finalize, Saved
  <1>4. l \in Nat /\ last <= l /\ m \in Seq(Message)
    BY DEF RowsGrow, Sound
  <1>5. Sound(msgs', calls, l) /\ msgs' \in Seq(Message) /\ (Good(m) => Good(msgs'))
    BY <1>1, <1>2, <1>4, SoundRepair, RepairPlaces, RepairGood
  <1>6. Nothing.new = <<>> /\ Nothing.old = {} /\ Sound(<<>>, calls, l) /\ Good(<<>>) /\ UserFirst(<<>>)
    BY SoundEmpty, GoodShort DEF Nothing, UserFirst
  <1>7. AllSound'
    <2>1. Sound(cmd.fold.new, calls, l)
      BY <1>1, <1>4, StaySound
    <2>2. l <= l
      BY <1>4
    <2> QED
      BY <1>2, <1>3, <1>5, <1>6, <2>1, <2>2 DEF AllSound
  <1>8. AllGood'
    BY <1>1, <1>2, <1>3, <1>5, <1>6 DEF AllGood
  <1>9. Owing'
    BY <1>2 DEF Owing
  <1>10. Asking'
    BY <1>2 DEF Asking, Turning
  <1>11. /\ Covered' /\ last' \in 0 .. Len(db') /\ synced' \subseteq 1 .. Len(db')
         /\ db' \in Seq({"user", "assistant", "tool"}) /\ exposed' \subseteq 1 .. Len(db')
    <2>1. exposed \subseteq 1 .. Len(db')
      BY <1>1 DEF ConversationTypeOK, RowsGrow
    <2> QED
      BY <1>2, <2>1, RowsKept
  <1>12. ConversationTypeOK'
    <2>1. /\ iter' \in 0 .. MaxIterations /\ nudges' \in 0 .. MaxNudges /\ retries' \in 0 .. RetryLimit
      BY <1>2, ConversationAssumption DEF ConversationAssumption
    <2>2. prev' \in Seq(Message) /\ owed' \in Seq(1 .. MaxCalls) /\ IsFold(fold')
      <3>1. <<>> \in Seq(Message) /\ <<>> \in Seq(1 .. MaxCalls)
        OBVIOUS
      <3> QED
        BY <1>2, <1>6, <3>1 DEF IsFold
    <2>3. /\ question' \in 0 .. Len(db') /\ ckpt'.last \in 0 .. Len(db')
      BY <1>2, <1>3, <1>11 DEF RowsGrow
    <2>4. /\ recovered' \in BOOLEAN /\ cut' \in BOOLEAN /\ ckpt'.goal \in BOOLEAN /\ ckpt'.dirty \in BOOLEAN
      BY <1>1, <1>2, <1>3 DEF ConversationTypeOK
    <2> QED
      BY <1>1, <1>2, <1>3, <1>5, <1>11, <2>1, <2>2, <2>3, <2>4 DEF ConversationTypeOK
  <1> QED
    BY <1>7, <1>8, <1>9, <1>10, <1>11, <1>12 DEF Talk

LEMMA KeepEnds ==
  ASSUME Talk, EndWithout \/ Fails \/ Cancelled \/ Exhausted
  PROVE  Talk'
  <1>1. /\ turnAt # "idle" /\ \E m \in {msgs, prev} : Finalize(m, last)
        /\ UNCHANGED <<db, last, cmd, turns, calls, goal, remote, left, dirty, synced, exposed>>
    BY DEF EndWithout, Fails, Cancelled, Exhausted
  <1>2. PICK m \in {msgs, prev} : Finalize(m, last)
    BY <1>1
  <1>3. RowsGrow
    BY <1>1, RowsSame
  <1>4. Sound(m, calls, last) /\ (dirty \/ Good(m))
    BY Known DEF AllSound, AllGood
  <1> QED
    BY <1>1, <1>2, <1>3, <1>4, Finalized

\* An answer of a new row is added.
LEMMA AnswerAdded ==
  ASSUME Talk
  PROVE  LET m == Append(msgs, Assistant(NextRow, {})) IN
         /\ m \in Seq(Message) /\ Sound(m, calls, NextRow) /\ (Good(msgs) => Good(m))
         /\ Held(msgs) \subseteq Held(m)
  <1> DEFINE x == Assistant(NextRow, {})
             m == Append(msgs, x)
  <1>1. /\ calls \in Nat /\ last \in Nat /\ NextRow \in Nat /\ last < NextRow /\ NextRow # 0
        /\ msgs \in Seq(Message) /\ Sound(msgs, calls, last)
    BY Known DEF AllSound
  <1>2. x \in Message /\ x.role = "assistant" /\ x.row = NextRow /\ x.calls = {}
    BY <1>1, Made
  <1> HIDE DEF x
  <1>3. Sound(m, calls, NextRow)
    BY <1>1, <1>2, SoundAppend
  <1>4. Good(msgs) => Good(m)
    BY <1>1, <1>2, GoodPlain
  <1>5. m \in Seq(Message) /\ Held(msgs) \subseteq Held(m)
    BY <1>1, <1>2, HeldAppend
  <1> QED
    BY <1>3, <1>4, <1>5 DEF x

LEMMA KeepAnswer == ASSUME Talk, Answer PROVE Talk'
  <1> DEFINE m == Append(msgs, Assistant(NextRow, {}))
  <1>1. /\ turnAt # "idle" /\ Finalize(m, NextRow) /\ Write("assistant")
        /\ UNCHANGED <<cmd, turns, calls, goal, remote, left, dirty, exposed>>
    BY DEF Answer
  <1>2. last' = NextRow /\ RowsGrow
    BY <1>1, RowsWrite DEF Write
  <1>3. Sound(m, calls, NextRow) /\ (dirty \/ Good(m))
    BY AnswerAdded, Known DEF AllGood
  <1> HIDE DEF m
  <1> QED
    BY <1>1, <1>2, <1>3, Finalized

\* A message with new calls is added.
LEMMA CallsAdded ==
  ASSUME Talk, NEW n \in Nat, calls + n <= MaxCalls
  PROVE  LET m == Append(msgs, Assistant(0, calls + 1 .. calls + n)) IN
         /\ m \in Seq(Message) /\ Sound(m, calls + n, last) /\ (Good(msgs) => Good(m))
         /\ Held(msgs) \subseteq Held(m) /\ Open(m, [i \in 1 .. n |-> calls + i])
  <1> DEFINE cs == calls + 1 .. calls + n
             x == Assistant(0, cs)
             m == Append(msgs, x)
             q == [i \in 1 .. n |-> calls + i]
  <1>1. /\ calls \in Nat /\ last \in Nat /\ MaxCalls \in Nat
        /\ msgs \in Seq(Message) /\ Sound(msgs, calls, last)
    BY Known DEF AllSound
  <1>2. cs \in SUBSET (1 .. MaxCalls) /\ cs \subseteq 1 .. calls + n /\ calls + n \in Nat
        /\ calls <= calls + n /\ (1 .. calls) \cap cs = {} /\ last <= last
    BY <1>1
  <1>3. x \in Message /\ x.role = "assistant" /\ x.row = 0 /\ x.calls = cs
    <2> HIDE DEF cs
    <2>1. 0 \in Nat
      OBVIOUS
    <2>2. Assistant(0, cs) \in Message
      BY <1>2, <2>1, Made
    <2> QED
      BY <2>2 DEF Assistant
  <1>q. Len(q) = n /\ \A y \in 1 .. Len(q) : q[y] \in cs
    BY <1>1
  <1> HIDE DEF x, cs, q
  <1>4. Sound(m, calls + n, last)
    <2>1. Sound(msgs, calls + n, last)
      BY <1>1, <1>2, StaySound
    <2>2. x.row <= last /\ x.row = 0 /\ x.calls \subseteq 1 .. calls + n
      BY <1>1, <1>2, <1>3
    <2> QED
      BY <1>1, <1>2, <1>3, <2>1, <2>2, SoundAppend
  <1>5. Good(msgs) => Good(m)
    <2> SUFFICES ASSUME Good(msgs) PROVE Good(m)
      OBVIOUS
    <2>1. /\ m = msgs \o <<x>> /\ <<x>> \in Seq(Message)
          /\ Len(<<x>>) = 1 /\ <<x>>[1] = x
      BY <1>1, <1>3, AppendJoint
    <2> DEFINE t == <<x>>
    <2>2. Good(t) /\ t[1].role # "tool"
      BY <1>3, <2>1, GoodShort
    <2>3. \A i \in 1 .. Len(msgs) : msgs[i].calls \subseteq 1 .. calls
      BY <1>1 DEF Sound
    <2>4. \A j \in 1 .. Len(t) : t[j].calls = cs
      BY <1>3, <2>1
    <2> HIDE DEF t
    <2>5. \A i \in 1 .. Len(msgs), j \in 1 .. Len(t) :
             Calling(msgs, i) /\ Calling(t, j) => msgs[i].calls \cap t[j].calls = {}
      BY <1>2, <2>3, <2>4
    <2>6. t \in Seq(Message) /\ m = msgs \o t
      BY <2>1 DEF t
    <2> QED
      BY <1>1, <2>2, <2>5, <2>6, GoodJoint
  <1>6. m \in Seq(Message) /\ Held(msgs) \subseteq Held(m)
    BY <1>1, <1>3, HeldAppend
  <1>7. Open(m, q)
    BY <1>1, <1>3, <1>q, OpenNew
  <1> QED
    BY <1>4, <1>5, <1>6, <1>7 DEF x, cs, q

LEMMA KeepCallTools == ASSUME Talk, CallTools PROVE Talk'
  <1>1. /\ ConversationTypeOK /\ AllSound /\ AllGood /\ Owing /\ Covered /\ Asking
        /\ calls \in Nat /\ last \in Nat /\ MaxCalls \in Nat
    BY Known
  <1>2. PICK n \in 1 .. 2 : /\ calls + n <= MaxCalls /\ calls' = calls + n
                            /\ owed' = [i \in 1 .. n |-> calls + i]
                            /\ msgs' = Append(msgs, Assistant(0, (calls + 1) .. (calls + n)))
    BY DEF CallTools
  <1>3. /\ turnAt = "llm" /\ turnAt' = "calling" /\ retries' = 0 /\ recovered' = FALSE
        /\ UNCHANGED <<iter, prev, nudges, fold, db, last, cmd, turns, goal, remote, ckpt, left,
                       question, dirty, cut, synced, exposed>>
    BY DEF CallTools, ghosts
  <1>4. n \in Nat /\ calls + n \in Nat /\ calls <= calls + n /\ last <= last
    BY <1>1, <1>2
  <1>5. /\ msgs' \in Seq(Message) /\ Sound(msgs', calls', last) /\ (Good(msgs) => Good(msgs'))
        /\ Held(msgs) \subseteq Held(msgs') /\ Open(msgs', owed')
    BY <1>2, <1>4, CallsAdded
  <1>6. AllSound'
    <2>1. /\ Sound(prev, calls', last) /\ Sound(fold.new, calls', last)
          /\ Sound(cmd.fold.new, calls', last) /\ Sound(ckpt.msgs, calls', ckpt.last) /\ ckpt.last <= last
      BY <1>1, <1>2, <1>4, StaySound
    <2> QED
      BY <1>3, <1>5, <2>1 DEF AllSound
  <1>7. AllGood'
    BY <1>1, <1>3, <1>5 DEF AllGood
  <1>8. Len(owed') = n /\ \A i \in 1 .. n : owed'[i] = calls + i
    BY <1>2, <1>4
  <1>9. Owing'
    <2>1. \A i \in 1 .. Len(owed') : owed'[i] <= calls'
      BY <1>1, <1>2, <1>8
    <2>2. \A i, j \in 1 .. Len(owed') : i # j => owed'[i] # owed'[j]
      BY <1>1, <1>8
    <2>3. owed' # <<>>
      BY <1>8
    <2> QED
      BY <1>5, <2>1, <2>2, <2>3 DEF Owing
  <1>10. Covered' /\ Asking'
    BY <1>1, <1>3, <1>5 DEF Covered, Asking, Turning, Held
  <1>11. ConversationTypeOK'
    <2>1. calls' \in 0 .. MaxCalls /\ retries' \in 0 .. RetryLimit
      BY <1>1, <1>2, <1>3, <1>4, ConversationAssumption DEF ConversationAssumption
    <2>2. owed' \in Seq(1 .. MaxCalls)
      BY <1>1, <1>2, <1>4
    <2> QED
      BY <1>1, <1>3, <1>5, <2>1, <2>2 DEF ConversationTypeOK
  <1> QED
    BY <1>6, <1>7, <1>9, <1>10, <1>11 DEF Talk

LEMMA KeepExecute == ASSUME Talk, Execute PROVE Talk'
  <1>1. /\ ConversationTypeOK /\ AllSound /\ AllGood /\ Owing /\ Covered /\ Asking
    BY Known
  <1>2. /\ turnAt = "calling" /\ turnAt' = "executing"
        /\ UNCHANGED <<iter, prev, owed, nudges, retries, recovered, fold, msgs, db, last, cmd, turns, calls,
                       goal, remote, ckpt, left, question, dirty, cut, synced, exposed>>
    BY DEF Execute, diskVars, ghosts
  <1>3. AllSound' /\ AllGood' /\ Owing'
    BY <1>1, <1>2 DEF AllSound, AllGood, Owing
  <1>4. Covered' /\ Asking'
    BY <1>1, <1>2 DEF Covered, Asking, Turning
  <1>5. ConversationTypeOK'
    BY <1>1, <1>2 DEF ConversationTypeOK
  <1> QED
    BY <1>3, <1>4, <1>5 DEF Talk

LEMMA KeepExecuted == ASSUME Talk, Executed PROVE Talk'
  <1>1. /\ ConversationTypeOK /\ AllSound /\ AllGood /\ Owing /\ Covered /\ Asking
    BY Known
  <1>2. /\ turnAt = "executing" /\ turnAt' = "storing"
        /\ UNCHANGED <<iter, prev, owed, nudges, retries, recovered, fold, msgs, db, last, cmd, turns, calls,
                       remote, ckpt, question, dirty, cut, synced, exposed>>
    BY DEF Executed, ghosts
  <1>3. AllSound' /\ AllGood' /\ Owing'
    BY <1>1, <1>2 DEF AllSound, AllGood, Owing
  <1>4. Covered' /\ Asking'
    BY <1>1, <1>2 DEF Covered, Asking, Turning
  <1>5. ConversationTypeOK'
    <2>1. goal' \in BOOLEAN
      BY <1>1 DEF ConversationTypeOK, Executed
    <2>2. left' \in [Events -> Nat]
      <3>1. left \in [Events -> Nat] /\ "plan" \in Events
        BY <1>1 DEF ConversationTypeOK, Events
      <3>2. left["plan"] \in Nat
        BY <3>1
      <3>3. CASE left' = left
        BY <3>1, <3>3
      <3>4. CASE left["plan"] > 0 /\ left' = [left EXCEPT !["plan"] = @ - 1]
        <4>1. left["plan"] - 1 \in Nat
          BY <3>2, <3>4
        <4> QED
          BY <3>1, <3>4, <4>1
      <3> QED
        BY <3>3, <3>4 DEF Executed
    <2> QED
      BY <1>1, <1>2, <2>1, <2>2 DEF ConversationTypeOK
  <1> QED
    BY <1>3, <1>4, <1>5 DEF Talk

LEMMA KeepStoreResult == ASSUME Talk, StoreResult PROVE Talk'
  <1>1. /\ ConversationTypeOK /\ AllSound /\ AllGood /\ Owing /\ Covered /\ Asking
        /\ calls \in Nat /\ last \in Nat /\ MaxCalls \in Nat /\ calls <= calls
        /\ msgs \in Seq(Message) /\ Sound(msgs, calls, last)
    BY Known DEF AllSound
  <1>2. /\ turnAt \in {"calling", "storing"} /\ msgs' = Append(msgs, Tool(Head(owed)))
        /\ Write("tool") /\ owed' = Tail(owed)
        /\ UNCHANGED <<iter, nudges, retries, recovered, fold, cmd, turns, calls, goal, remote, ckpt, left,
                       question, dirty, cut, exposed>>
    BY DEF StoreResult, diskVars
  <1>3. \/ Len(owed) > 1 /\ turnAt' = "calling" /\ prev' = prev
        \/ ~(Len(owed) > 1) /\ turnAt' = "top" /\ prev' = <<>>
    BY DEF StoreResult
  <1>4. last' = NextRow /\ RowsGrow
    BY <1>2, RowsWrite DEF Write
  <1>5. /\ owed \in Seq(1 .. MaxCalls) /\ owed # <<>> /\ (dirty \/ Open(msgs, owed))
        /\ \A x \in 1 .. Len(owed) : owed[x] <= calls
        /\ \A x, y \in 1 .. Len(owed) : x # y => owed[x] # owed[y]
    BY <1>1, <1>2 DEF Owing, ConversationTypeOK
  <1>6. /\ Head(owed) = owed[1] /\ 1 \in 1 .. Len(owed) /\ Len(owed') = Len(owed) - 1 /\ Len(owed) \in Nat
        /\ owed' \in Seq(1 .. MaxCalls)
        /\ \A x \in 1 .. Len(owed') : owed'[x] = owed[x + 1] /\ x + 1 \in 1 .. Len(owed)
    BY <1>2, <1>5
  <1> DEFINE x == Tool(Head(owed))
  <1>7. x \in Message /\ x.row = 0 /\ x.calls \subseteq 1 .. calls
    <2>1. Head(owed) \in 1 .. MaxCalls /\ Head(owed) \in 1 .. calls
      BY <1>1, <1>5, <1>6
    <2> QED
      BY <2>1, Made
  <1> HIDE DEF x
  <1>8. last' \in Nat /\ last <= last' /\ x.row <= last'
    BY <1>4, <1>7 DEF RowsGrow
  <1>9. Sound(msgs', calls, last')
    BY <1>1, <1>2, <1>7, <1>8, SoundAppend DEF x
  <1>10. msgs' \in Seq(Message) /\ Held(msgs) \subseteq Held(msgs')
    BY <1>1, <1>2, <1>7, HeldAppend DEF x
  <1>11. dirty \/ (Good(msgs') /\ Open(msgs', owed'))
    <2> SUFFICES ASSUME ~dirty PROVE Good(msgs') /\ Open(msgs', owed')
      OBVIOUS
    <2>1. Good(msgs) /\ Open(msgs, owed)
      BY <1>1, <1>5 DEF AllGood
    <2> QED
      BY <1>1, <1>2, <1>5, <2>1, GoodTool
  <1>12. <<>> \in Seq(Message) /\ Sound(<<>>, calls, last') /\ Good(<<>>)
    BY SoundEmpty, GoodShort
  <1>13. AllSound'
    <2>1. /\ Sound(prev, calls, last') /\ Sound(fold.new, calls, last')
          /\ Sound(cmd.fold.new, calls, last') /\ Sound(ckpt.msgs, calls, ckpt.last) /\ ckpt.last <= last'
      BY <1>1, <1>8, StaySound
    <2>2. Sound(prev', calls, last')
      BY <1>3, <1>12, <2>1
    <2> QED
      BY <1>2, <1>9, <2>1, <2>2 DEF AllSound
  <1>14. AllGood'
    <2>1. dirty \/ Good(prev')
      BY <1>1, <1>3, <1>12 DEF AllGood
    <2>2. turnAt' # "idle"
      BY <1>3
    <2> QED
      BY <1>1, <1>2, <1>11, <2>1, <2>2 DEF AllGood
  <1>15. Owing'
    <2>1. \A y \in 1 .. Len(owed') : owed'[y] <= calls
      BY <1>5, <1>6
    <2>2. \A y, z \in 1 .. Len(owed') : y # z => owed'[y] # owed'[z]
      <3> SUFFICES ASSUME NEW y \in 1 .. Len(owed'), NEW z \in 1 .. Len(owed'), y # z
                   PROVE  owed'[y] # owed'[z]
        OBVIOUS
      <3>1. y + 1 # z + 1
        OBVIOUS
      <3> QED
        BY <1>5, <1>6, <3>1
    <2>3. turnAt' = "calling" => owed' # <<>>
      BY <1>3, <1>6
    <2>4. turnAt' \in {"calling", "top"}
      BY <1>3
    <2> QED
      BY <1>2, <1>11, <2>1, <2>2, <2>3, <2>4 DEF Owing
  <1>16. /\ Covered' /\ ckpt.last \in 0 .. Len(db') /\ question \in 0 .. Len(db')
         /\ last' \in 0 .. Len(db') /\ synced' \subseteq 1 .. Len(db')
         /\ db' \in Seq({"user", "assistant", "tool"}) /\ exposed' \subseteq 1 .. Len(db')
    <2>1. exposed' \subseteq 1 .. Len(db')
      BY <1>1, <1>2, <1>4 DEF ConversationTypeOK, RowsGrow
    <2> QED
      BY <1>2, <1>4, <2>1, RowsKept
  <1>17. Asking'
    <2>1. turnAt' \notin {"compress", "recover"} /\ turnAt \notin {"idle", "recall"}
      BY <1>2, <1>3
    <2> QED
      BY <1>1, <1>2, <1>10, <2>1 DEF Asking, Turning, Held
  <1>18. ConversationTypeOK'
    <2>1. prev' \in Seq(Message) /\ turnAt' \in {"calling", "top"}
      BY <1>1, <1>3, <1>12 DEF ConversationTypeOK
    <2> QED
      BY <1>1, <1>2, <1>6, <1>10, <1>16, <2>1 DEF ConversationTypeOK
  <1> QED
    BY <1>13, <1>14, <1>15, <1>16, <1>17, <1>18 DEF Talk

LEMMA KeepGoalCheck == ASSUME Talk, GoalCheck PROVE Talk'
  <1>1. /\ ConversationTypeOK /\ AllSound /\ AllGood /\ Owing /\ Covered /\ Asking
        /\ calls \in Nat /\ last \in Nat /\ MaxCalls \in Nat /\ calls <= calls
        /\ NextRow \in Nat /\ NextRow = Len(db) + 1 /\ Len(db) \in Nat /\ last < NextRow
        /\ msgs \in Seq(Message)
    BY Known
  <1> DEFINE a == Append(msgs, Assistant(NextRow, {}))
             x == User(NextRow + 1)
  <1>2. /\ a \in Seq(Message) /\ Sound(a, calls, NextRow) /\ (Good(msgs) => Good(a))
        /\ Held(msgs) \subseteq Held(a)
    BY AnswerAdded
  <1>3. x \in Message /\ x.role = "user" /\ x.row = NextRow + 1 /\ x.calls = {}
    BY <1>1, Made
  <1>4. /\ turnAt = "llm" /\ turnAt' = "top" /\ prev' = <<>> /\ retries' = 0 /\ recovered' = FALSE
        /\ nudges < MaxNudges /\ nudges' = nudges + 1
        /\ msgs' = msgs \o <<Assistant(NextRow, {}), x>>
        /\ db' = db \o <<"assistant", "user">> /\ last' = NextRow + 1
        /\ synced' = synced \cup {NextRow, NextRow + 1}
        /\ UNCHANGED <<iter, owed, fold, cmd, turns, calls, goal, remote, ckpt, left, question, dirty, cut, exposed>>
    BY DEF GoalCheck, diskVars
  <1>5. msgs' = Append(a, x)
    <2>1. Assistant(NextRow, {}) \in Message
      BY <1>1, Made
    <2> DEFINE y == Assistant(NextRow, {})
    <2> HIDE DEF x, y
    <2>2. msgs \o <<y, x>> = Append(Append(msgs, y), x)
      BY <1>1, <1>3, <2>1 DEF y
    <2> QED
      BY <1>4, <2>2 DEF y
  <1> HIDE DEF a, x
  <1>6. Sound(msgs', calls, last') /\ last' \in Nat /\ last <= last'
    <2>1. NextRow + 1 \in Nat /\ NextRow <= NextRow + 1 /\ x.row <= NextRow + 1 /\ x.row > NextRow
          /\ x.calls \subseteq 1 .. calls
      BY <1>1, <1>3
    <2>2. Sound(msgs', calls, NextRow + 1)
      BY <1>1, <1>2, <1>3, <1>5, <2>1, SoundAppend
    <2>3. Sound(msgs', calls, last')
      BY <1>4, <2>2, Zenon
    <2>4. last' \in Nat /\ last <= last'
      BY <1>1, <1>4, <2>1
    <2> QED
      BY <2>3, <2>4
  <1>7. Good(msgs) => Good(msgs')
    BY <1>2, <1>3, <1>5, GoodPlain
  <1>8. msgs' \in Seq(Message) /\ Held(msgs) \subseteq Held(msgs')
    BY <1>2, <1>3, <1>5, HeldAppend
  <1>9. <<>> \in Seq(Message) /\ Sound(<<>>, calls, last') /\ Good(<<>>)
    BY SoundEmpty, GoodShort
  <1>10. AllSound'
    <2>1. /\ Sound(fold.new, calls, last')
          /\ Sound(cmd.fold.new, calls, last') /\ Sound(ckpt.msgs, calls, ckpt.last) /\ ckpt.last <= last'
      BY <1>1, <1>6, StaySound
    <2> QED
      BY <1>4, <1>6, <1>9, <2>1 DEF AllSound
  <1>11. AllGood'
    BY <1>1, <1>4, <1>7, <1>9 DEF AllGood
  <1>12. Owing'
    BY <1>1, <1>4 DEF Owing
  <1>13. RowsGrow
    <2>1. db \in Seq({"user", "assistant", "tool"}) /\ synced \subseteq 1 .. Len(db)
      BY <1>1 DEF ConversationTypeOK
    <2>2. /\ db' \in Seq({"user", "assistant", "tool"}) /\ Len(db') = NextRow + 1
          /\ \A r \in 1 .. Len(db) : db'[r] = db[r]
      BY <1>1, <1>4, <2>1
    <2>3. \A r \in 1 .. Len(db') : r \in 1 .. Len(db) \/ r = NextRow \/ r = NextRow + 1
      BY <1>1, <2>2
    <2>4. NextRow \in 1 .. Len(db') /\ NextRow + 1 \in 1 .. Len(db') /\ 1 .. Len(db) \subseteq 1 .. Len(db')
      BY <1>1, <2>2
    <2>5. synced' \subseteq 1 .. Len(db')
      BY <1>4, <2>1, <2>4
    <2> QED
      BY <1>1, <1>4, <1>6, <2>2, <2>3, <2>4, <2>5 DEF RowsGrow
  <1>14. /\ Covered' /\ ckpt.last \in 0 .. Len(db') /\ question \in 0 .. Len(db')
         /\ last' \in 0 .. Len(db') /\ synced' \subseteq 1 .. Len(db')
         /\ db' \in Seq({"user", "assistant", "tool"}) /\ exposed' \subseteq 1 .. Len(db')
    <2>1. exposed' \subseteq 1 .. Len(db')
      BY <1>1, <1>4, <1>13 DEF ConversationTypeOK, RowsGrow
    <2> QED
      BY <1>4, <1>13, <2>1, RowsKept
  <1>15. Asking'
    BY <1>1, <1>4, <1>8 DEF Asking, Turning, Held
  <1>16. ConversationTypeOK'
    <2>1. nudges' \in 0 .. MaxNudges /\ retries' \in 0 .. RetryLimit
      BY <1>1, <1>4, ConversationAssumption DEF ConversationAssumption, ConversationTypeOK
    <2> QED
      BY <1>1, <1>4, <1>8, <1>9, <1>14, <2>1 DEF ConversationTypeOK
  <1> QED
    BY <1>10, <1>11, <1>12, <1>14, <1>15, <1>16 DEF Talk
-----------------------------------------------------------------------------
(* The steps outside the turns *)

\* An event uses up one of its chances.
LEMMA Happened ==
  ASSUME ConversationTypeOK, NEW e \in Events, Happens(e)
  PROVE  left' \in [Events -> Nat] /\ turnAt # "top"
  <1>1. left \in [Events -> Nat] /\ left[e] > 0 /\ left' = [left EXCEPT ![e] = @ - 1]
    BY DEF ConversationTypeOK, Happens
  <1>2. left[e] - 1 \in Nat
    BY <1>1
  <1> QED
    BY <1>1, <1>2 DEF Happens

LEMMA KeepClear == ASSUME Talk, Clear PROVE Talk'
  <1>1. /\ ConversationTypeOK /\ AllSound /\ AllGood /\ Owing /\ Covered /\ Asking
    BY Known
  <1>2. /\ msgs' = <<>> /\ dirty' = (dirty /\ Running) /\ cut' = Running
        /\ UNCHANGED <<turnAt, iter, prev, owed, nudges, retries, recovered, fold, db, last, cmd, turns, calls,
                       goal, remote, ckpt, question, synced, exposed>>
    BY DEF Clear, turnVars
  <1>3. <<>> \in Seq(Message) /\ Sound(<<>>, calls, last) /\ Good(<<>>) /\ \A q : Open(<<>>, q)
    BY SoundEmpty, GoodShort DEF Open
  <1>4. AllSound'
    BY <1>1, <1>2, <1>3 DEF AllSound
  <1>5. AllGood'
    BY <1>1, <1>2, <1>3 DEF AllGood, Running
  <1>6. Owing'
    BY <1>1, <1>2, <1>3 DEF Owing
  <1>7. Covered' /\ Asking'
    BY <1>1, <1>2 DEF Covered, Asking, Turning, Running
  <1>8. ConversationTypeOK'
    <2>1. left' \in [Events -> Nat]
      BY <1>1, Happened DEF Clear, Events
    <2>2. dirty' \in BOOLEAN /\ cut' \in BOOLEAN
      BY <1>1, <1>2 DEF Running
    <2> QED
      BY <1>1, <1>2, <1>3, <2>1, <2>2 DEF ConversationTypeOK
  <1> QED
    BY <1>4, <1>5, <1>6, <1>7, <1>8 DEF Talk

LEMMA KeepCompress == ASSUME Talk, Compress PROVE Talk'
  <1>1. /\ ConversationTypeOK /\ AllSound /\ AllGood /\ Owing /\ Covered /\ Asking
        /\ Keep \in Nat \ {0}
    BY Known
  <1>2. /\ Folds(msgs, Keep)
        /\ cmd'.on = TRUE /\ cmd'.fold = Split(msgs, Keep) /\ cmd'.dirty = dirty
        /\ UNCHANGED <<turnAt, iter, prev, owed, nudges, retries, recovered, fold, msgs, db, last, turns, calls,
                       goal, remote, ckpt, question, dirty, cut, synced, exposed>>
    BY DEF Compress, turnVars, ghosts
  <1>3. /\ IsFold(cmd'.fold) /\ Sound(cmd'.fold.new, calls, last) /\ UserFirst(cmd'.fold.new)
        /\ Good(msgs) => Good(cmd'.fold.new)
    BY <1>1, <1>2, SplitKeeps DEF AllSound
  <1>4. AllSound'
    BY <1>1, <1>2, <1>3 DEF AllSound
  <1>5. AllGood'
    BY <1>1, <1>2, <1>3 DEF AllGood
  <1>6. Owing' /\ Covered' /\ Asking'
    BY <1>1, <1>2 DEF Owing, Covered, Asking, Turning
  <1>7. ConversationTypeOK'
    <2>1. left' \in [Events -> Nat]
      BY <1>1, Happened DEF Compress, Events
    <2> QED
      BY <1>1, <1>2, <1>3, <2>1 DEF ConversationTypeOK
  <1> QED
    BY <1>4, <1>5, <1>6, <1>7 DEF Talk

\* The rows that a notice hides are known to be passed over.
LEMMA RowsHidden ==
  ASSUME Talk, RowsGrow, exposed' = exposed \cup NewRows
  PROVE  /\ Covered' /\ ckpt.last \in 0 .. Len(db') /\ question \in 0 .. Len(db')
         /\ last' \in 0 .. Len(db') /\ synced' \subseteq 1 .. Len(db')
         /\ db' \in Seq({"user", "assistant", "tool"}) /\ exposed' \subseteq 1 .. Len(db')
  <1>1. /\ Covered /\ last \in Nat /\ Len(db) \in Nat
        /\ ckpt.last \in 0 .. Len(db) /\ question \in 0 .. Len(db) /\ exposed \subseteq 1 .. Len(db)
    BY Known DEF ConversationTypeOK
  <1>2. Covered'
    <2> SUFFICES ASSUME NEW r \in 1 .. Len(db'), r \notin synced', db'[r] # "tool" PROVE r \in exposed'
      BY DEF Covered
    <2>1. r \in 1 .. Len(db) /\ db[r] # "tool" /\ r \notin synced
      BY DEF RowsGrow
    <2>2. r \in exposed \/ r > last
      BY <1>1, <2>1 DEF Covered
    <2>3. r > last => r \in NewRows
      BY <1>1, <2>1 DEF NewRows
    <2> QED
      BY <2>2, <2>3
  <1>3. NewRows \subseteq 1 .. Len(db)
    BY <1>1 DEF NewRows
  <1> QED
    BY <1>1, <1>2, <1>3 DEF RowsGrow

LEMMA KeepCompressEnd == ASSUME Talk, CompressEnd PROVE Talk'
  <1>1. /\ ConversationTypeOK /\ AllSound /\ AllGood /\ Owing /\ Covered /\ Asking
        /\ calls \in Nat /\ last \in Nat /\ cmd.fold.new \in Seq(Message) /\ calls <= calls
        /\ Len(db) \in Nat
    BY Known
  <1>2. PICK ok \in BOOLEAN : msgs' = Replaced(cmd.fold, ok)
    BY DEF CompressEnd
  <1>3. /\ Announce /\ cmd' = NoCommand
        /\ dirty' = (dirty \/ Running \/ cmd.dirty) /\ cut' = Running
        /\ exposed' = (IF remote THEN exposed \cup NewRows ELSE exposed)
        /\ UNCHANGED <<turnAt, iter, prev, owed, nudges, retries, recovered, fold, turns, calls, goal,
                       remote, ckpt, left, question>>
    BY DEF CompressEnd, turnVars, diskVars
  <1>4. /\ RowsGrow /\ last' = (IF remote THEN NextRow ELSE last) /\ last' \in Nat /\ last <= last'
        /\ (~remote => last' = last) /\ (remote => last' = Len(db'))
    BY <1>3, Announced1 DEF RowsGrow
  <1>5. /\ msgs' \in Seq(Message) /\ Sound(msgs', calls, last') /\ (Good(cmd.fold.new) => Good(msgs'))
    <2>1. cmd.fold.old \subseteq Nat /\ Sound(cmd.fold.new, calls, last) /\ UserFirst(cmd.fold.new)
      BY <1>1 DEF ConversationTypeOK, IsFold, AllSound, AllGood
    <2>2. TakesPlace(Replaced(cmd.fold, ok), cmd.fold, ok)
      BY <1>1, <2>1, ReplacedIs
    <2> QED
      BY <1>2, <1>4, <2>2, Zenon DEF TakesPlace
  <1>6. /\ cmd'.on = FALSE /\ cmd'.fold = Nothing /\ cmd'.dirty = FALSE
        /\ Nothing.new = <<>> /\ Nothing.old = {} /\ Sound(<<>>, calls, last') /\ Good(<<>>) /\ UserFirst(<<>>)
        /\ <<>> \in Seq(Message)
    BY <1>3, SoundEmpty, GoodShort DEF Nothing, NoCommand, UserFirst
  <1>7. AllSound'
    <2>1. /\ Sound(prev, calls, last') /\ Sound(fold.new, calls, last')
          /\ Sound(ckpt.msgs, calls, ckpt.last) /\ ckpt.last <= last'
      BY <1>1, <1>4, StaySound
    <2> QED
      BY <1>3, <1>5, <1>6, <2>1 DEF AllSound
  <1>8. AllGood'
    BY <1>1, <1>3, <1>5, <1>6 DEF AllGood, Running
  <1>9. Owing'
    BY <1>1, <1>3 DEF Owing, Running
  <1>12. /\ Covered' /\ ckpt.last \in 0 .. Len(db') /\ question \in 0 .. Len(db')
         /\ last' \in 0 .. Len(db') /\ synced' \subseteq 1 .. Len(db')
         /\ db' \in Seq({"user", "assistant", "tool"}) /\ exposed' \subseteq 1 .. Len(db')
    <2>1. CASE remote
      <3>1. exposed' = exposed \cup NewRows
        BY <1>3, <2>1
      <3> QED
        BY <1>4, <3>1, RowsHidden
    <2>2. CASE ~remote
      <3>1. exposed' = exposed /\ last' = last /\ turnAt' = turnAt
        BY <1>3, <1>4, <2>2
      <3>2. exposed' \subseteq 1 .. Len(db')
        BY <1>1, <1>4, <3>1 DEF ConversationTypeOK, RowsGrow
      <3> QED
        BY <1>4, <3>1, <3>2, RowsKept
    <2> QED
      BY <2>1, <2>2
  <1>13. Asking'
    BY <1>3 DEF Asking, Turning, Running
  <1>14. ConversationTypeOK'
    <2>1. dirty' \in BOOLEAN /\ cut' \in BOOLEAN /\ IsFold(cmd'.fold)
      BY <1>1, <1>3, <1>6 DEF Running, IsFold
    <2> QED
      BY <1>1, <1>3, <1>5, <1>6, <1>12, <2>1 DEF ConversationTypeOK
  <1> QED
    BY <1>7, <1>8, <1>9, <1>12, <1>13, <1>14 DEF Talk


LEMMA KeepNotice == ASSUME Talk, Notice PROVE Talk'
  <1>1. /\ ConversationTypeOK /\ AllSound /\ AllGood /\ Owing /\ Covered /\ Asking
        /\ calls \in Nat /\ calls <= calls
    BY Known
  <1>2. /\ msgs' = Append(msgs, User(NextRow)) /\ Write("user") /\ remote' = TRUE
        /\ exposed' = exposed \cup NewRows
        /\ UNCHANGED <<turnAt, iter, prev, owed, nudges, retries, recovered, fold, cmd, turns, calls, goal,
                       ckpt, question, dirty, cut>>
    BY DEF Notice, turnVars
  <1>3. last' = NextRow /\ RowsGrow
    BY <1>2, RowsWrite DEF Write
  <1>4. /\ msgs' \in Seq(Message) /\ Sound(msgs', calls, last') /\ (Good(msgs) => Good(msgs'))
        /\ Held(msgs) \subseteq Held(msgs') /\ \A q : Open(msgs', q)
    BY <1>2, <1>3, UserAdded
  <1>5. AllSound'
    <2>1. last' \in Nat /\ last <= last'
      BY <1>3 DEF RowsGrow
    <2>2. /\ Sound(prev, calls, last') /\ Sound(fold.new, calls, last')
          /\ Sound(cmd.fold.new, calls, last') /\ Sound(ckpt.msgs, calls, ckpt.last) /\ ckpt.last <= last'
      BY <1>1, <2>1, StaySound
    <2> QED
      BY <1>2, <1>4, <2>2 DEF AllSound
  <1>6. AllGood'
    BY <1>1, <1>2, <1>4 DEF AllGood
  <1>7. Owing'
    BY <1>1, <1>2, <1>4 DEF Owing
  <1>8. /\ Covered' /\ ckpt.last \in 0 .. Len(db') /\ question \in 0 .. Len(db')
        /\ last' \in 0 .. Len(db') /\ synced' \subseteq 1 .. Len(db')
        /\ db' \in Seq({"user", "assistant", "tool"}) /\ exposed' \subseteq 1 .. Len(db')
    BY <1>2, <1>3, RowsHidden
  <1>9. Asking'
    BY <1>1, <1>2, <1>4 DEF Asking, Turning, Held
  <1>10. ConversationTypeOK'
    <2>1. left' \in [Events -> Nat]
      BY <1>1, Happened DEF Notice, Events
    <2> QED
      BY <1>1, <1>2, <1>4, <1>8, <2>1 DEF ConversationTypeOK
  <1> QED
    BY <1>5, <1>6, <1>7, <1>8, <1>9, <1>10 DEF Talk

LEMMA KeepNewGoal == ASSUME Talk, NewGoal PROVE Talk'
  <1>1. /\ ConversationTypeOK /\ AllSound /\ AllGood /\ Owing /\ Covered /\ Asking
        /\ last \in Nat /\ MaxCalls \in Nat /\ msgs \in Seq(Message) /\ last <= last
    BY Known
  <1>2. /\ turnAt = "idle" /\ msgs' = Repair(msgs) /\ goal' = TRUE
        /\ UNCHANGED <<turnAt, iter, prev, owed, nudges, retries, recovered, fold, db, last, cmd, turns, calls,
                       remote, question, dirty, cut, synced, exposed>>
    BY DEF NewGoal, turnVars, ghosts, Running
  <1>3. ckpt'.msgs = msgs' /\ ckpt'.last = last /\ ckpt'.goal = TRUE /\ ckpt'.dirty = dirty
    BY DEF NewGoal, Saved
  <1>4. /\ Sound(msgs', calls, last) /\ msgs' \in Seq(Message) /\ (Good(msgs) => Good(msgs'))
    BY <1>1, <1>2, SoundRepair, RepairPlaces, RepairGood DEF AllSound
  <1>5. AllSound'
    BY <1>1, <1>2, <1>3, <1>4 DEF AllSound
  <1>6. AllGood'
    BY <1>1, <1>2, <1>3, <1>4 DEF AllGood
  <1>7. Owing' /\ Covered' /\ Asking'
    BY <1>1, <1>2 DEF Owing, Covered, Asking, Turning
  <1>8. ConversationTypeOK'
    <2>1. left' \in [Events -> Nat]
      BY <1>1, Happened DEF NewGoal, Events
    <2> QED
      BY <1>1, <1>2, <1>3, <1>4, <2>1 DEF ConversationTypeOK
  <1> QED
    BY <1>5, <1>6, <1>7, <1>8 DEF Talk

LEMMA KeepOtherRow == ASSUME Talk, OtherRow PROVE Talk'
  <1>1. /\ ConversationTypeOK /\ AllSound /\ AllGood /\ Owing /\ Covered /\ Asking
        /\ last \in Nat /\ Len(db) \in Nat /\ NextRow = Len(db) + 1 /\ last <= Len(db)
    BY Known
  <1>2. PICK role \in {"user", "assistant"} : db' = Append(db, role)
    BY DEF OtherRow
  <1>3. /\ exposed' = (IF Running THEN exposed \cup {NextRow} ELSE exposed)
        /\ UNCHANGED <<turnAt, iter, prev, owed, nudges, retries, recovered, fold, msgs, last, cmd, turns, calls,
                       goal, remote, ckpt, question, dirty, cut, synced>>
    BY DEF OtherRow, turnVars
  <1>4. /\ db' \in Seq({"user", "assistant", "tool"}) /\ Len(db') = NextRow /\ 1 .. Len(db) \subseteq 1 .. NextRow
        /\ NextRow \in 1 .. NextRow
        /\ \A r \in 1 .. NextRow : r = NextRow \/ (r \in 1 .. Len(db) /\ db'[r] = db[r])
    BY <1>2, RowWritten
  <1>5. AllSound' /\ AllGood' /\ Owing' /\ Asking'
    BY <1>1, <1>3 DEF AllSound, AllGood, Owing, Asking, Turning
  <1>6. Covered'
    <2> SUFFICES ASSUME NEW r \in 1 .. Len(db'), db'[r] # "tool", r \notin synced, r \notin exposed'
                 PROVE  turnAt = "idle" /\ r > last
      BY <1>3 DEF Covered
    <2>1. CASE r = NextRow
      BY <1>1, <1>3, <2>1 DEF Running
    <2>2. CASE r \in 1 .. Len(db) /\ db'[r] = db[r]
      <3>1. r \notin exposed
        BY <1>3
      <3> QED
        BY <1>1, <2>2, <3>1 DEF Covered
    <2> QED
      BY <1>4, <2>1, <2>2
  <1>7. ConversationTypeOK'
    <2>1. left' \in [Events -> Nat]
      BY <1>1, Happened DEF OtherRow, Events
    <2>2. /\ last \in 0 .. Len(db') /\ question \in 0 .. Len(db') /\ ckpt.last \in 0 .. Len(db')
          /\ synced \subseteq 1 .. Len(db') /\ exposed \subseteq 1 .. Len(db')
      BY <1>1, <1>4 DEF ConversationTypeOK
    <2>3. exposed' \subseteq 1 .. Len(db')
      BY <1>3, <1>4, <2>2
    <2> QED
      BY <1>1, <1>3, <1>4, <2>1, <2>2, <2>3 DEF ConversationTypeOK
  <1> QED
    BY <1>5, <1>6, <1>7 DEF Talk

LEMMA KeepCrash == ASSUME Talk, Crash PROVE Talk'
  <1>1. /\ ConversationTypeOK /\ AllSound /\ AllGood /\ Owing /\ Covered /\ Asking
        /\ calls \in Nat /\ last \in Nat /\ Len(db) \in Nat /\ last <= Len(db) /\ calls <= calls
        /\ Len(db) <= Len(db) /\ ckpt.msgs \in Seq(Message) /\ ckpt.last \in Nat /\ ckpt.last <= last
    BY Known
  <1>2. /\ turnAt' = "idle" /\ iter' = 0 /\ prev' = <<>> /\ owed' = <<>> /\ nudges' = 0 /\ retries' = 0
        /\ recovered' = FALSE /\ fold' = Nothing /\ cmd' = NoCommand /\ remote' = FALSE
        /\ question' = 0 /\ cut' = FALSE
        /\ UNCHANGED <<db, turns, calls, ckpt, exposed>>
    BY DEF Crash
  <1>3. \/ /\ msgs' = ckpt.msgs /\ last' = ckpt.last /\ goal' = ckpt.goal /\ dirty' = ckpt.dirty
           /\ synced' = synced
        \/ /\ msgs' = <<>> /\ last' = Len(db) /\ goal' \in {FALSE, ckpt.goal} /\ dirty' = FALSE
           /\ synced' = 1 .. Len(db)
    BY DEF Crash
  <1>4. /\ Nothing.new = <<>> /\ Nothing.old = {} /\ NoCommand.on = FALSE /\ NoCommand.fold = Nothing
        /\ NoCommand.dirty = FALSE /\ Good(<<>>) /\ UserFirst(<<>>) /\ (\A l : Sound(<<>>, calls, l))
        /\ <<>> \in Seq(Message) /\ <<>> \in Seq(1 .. MaxCalls) /\ Len(<<>>) = 0
    BY SoundEmpty, GoodShort DEF Nothing, NoCommand, UserFirst
  <1>5. /\ msgs' \in Seq(Message) /\ Sound(msgs', calls, last') /\ (dirty' \/ Good(msgs'))
        /\ last' \in 0 .. Len(db) /\ ckpt.last <= last' /\ goal' \in BOOLEAN /\ dirty' \in BOOLEAN
        /\ synced' \subseteq 1 .. Len(db)
    <2>1. CASE /\ msgs' = ckpt.msgs /\ last' = ckpt.last /\ goal' = ckpt.goal /\ dirty' = ckpt.dirty
               /\ synced' = synced
      BY <1>1, <2>1 DEF AllSound, AllGood, ConversationTypeOK
    <2>2. CASE /\ msgs' = <<>> /\ last' = Len(db) /\ goal' \in {FALSE, ckpt.goal} /\ dirty' = FALSE
               /\ synced' = 1 .. Len(db)
      <3>1. Sound(msgs', calls, last') /\ (dirty' \/ Good(msgs')) /\ msgs' \in Seq(Message)
        BY <1>4, <2>2, Zenon
      <3>2. goal' \in BOOLEAN /\ dirty' \in BOOLEAN
        BY <1>1, <2>2 DEF ConversationTypeOK
      <3>3. last' \in 0 .. Len(db) /\ ckpt.last <= last' /\ synced' \subseteq 1 .. Len(db)
        BY <1>1, <2>2
      <3> QED
        BY <3>1, <3>2, <3>3
    <2> QED
      BY <1>3, <2>1, <2>2
  <1>6. AllSound'
    BY <1>1, <1>2, <1>4, <1>5 DEF AllSound
  <1>7. AllGood'
    BY <1>1, <1>2, <1>4, <1>5 DEF AllGood
  <1>8. Owing' /\ Asking'
    BY <1>2, <1>4 DEF Owing, Asking, Turning
  <1>9. Covered'
    <2> SUFFICES ASSUME NEW r \in 1 .. Len(db), db[r] # "tool", r \notin synced', r \notin exposed
                 PROVE  r > last'
      BY <1>2 DEF Covered
    <2>1. synced' = synced /\ last' = ckpt.last
      BY <1>3
    <2>2. r > last \/ r \in synced \cup exposed
      BY <1>1 DEF Covered
    <2> QED
      BY <1>1, <2>1, <2>2
  <1>10. ConversationTypeOK'
    <2>1. left' \in [Events -> Nat]
      BY <1>1, Happened DEF Crash, Events
    <2>2. /\ iter' \in 0 .. MaxIterations /\ nudges' \in 0 .. MaxNudges /\ retries' \in 0 .. RetryLimit
      BY <1>2, ConversationAssumption DEF ConversationAssumption
    <2>3. IsFold(Nothing)
      BY <1>4 DEF IsFold
    <2>4. /\ prev' \in Seq(Message) /\ owed' \in Seq(1 .. MaxCalls) /\ IsFold(fold')
          /\ cmd'.on \in BOOLEAN /\ IsFold(cmd'.fold) /\ cmd'.dirty \in BOOLEAN
          /\ recovered' \in BOOLEAN /\ cut' \in BOOLEAN /\ remote' \in BOOLEAN
          /\ turnAt' \in {"idle", "recall", "top", "compress", "llm", "recover", "calling",
                          "executing", "storing"}
      BY <1>2, <1>4, <2>3
    <2>5. /\ turns' \in 0 .. MaxTurns /\ calls' \in 0 .. MaxCalls
          /\ db' \in Seq({"user", "assistant", "tool"})
          /\ ckpt'.msgs \in Seq(Message) /\ ckpt'.last \in 0 .. Len(db')
          /\ ckpt'.goal \in BOOLEAN /\ ckpt'.dirty \in BOOLEAN
          /\ exposed' \subseteq 1 .. Len(db')
      BY <1>1, <1>2 DEF ConversationTypeOK
    <2>6. /\ msgs' \in Seq(Message) /\ last' \in 0 .. Len(db') /\ question' \in 0 .. Len(db')
          /\ goal' \in BOOLEAN /\ dirty' \in BOOLEAN /\ synced' \subseteq 1 .. Len(db')
      BY <1>1, <1>2, <1>5
    <2> QED
      BY <2>1, <2>2, <2>4, <2>5, <2>6, Zenon DEF ConversationTypeOK
  <1> QED
    BY <1>6, <1>7, <1>8, <1>9, <1>10 DEF Talk
-----------------------------------------------------------------------------
(* All steps *)

LEMMA KeepTurnStep == ASSUME Talk, TurnStep PROVE Talk'
  <1>1. CASE Ask                BY <1>1, KeepAsk
  <1>2. CASE Iterate            BY <1>2, KeepIterate
  <1>3. CASE Overflow           BY <1>3, KeepOverflow
  <1>4. CASE Summarised         BY <1>4, KeepSummarised
  <1>5. CASE OverflowError      BY <1>5, KeepOverflowError
  <1>6. CASE MissingReasoning   BY <1>6, KeepMissingReasoning
  <1>7. CASE EndWithout \/ Fails \/ Cancelled \/ Exhausted
    BY <1>7, KeepEnds
  <1>8. CASE CallTools          BY <1>8, KeepCallTools
  <1>9. CASE Execute            BY <1>9, KeepExecute
  <1>10. CASE Executed          BY <1>10, KeepExecuted
  <1>11. CASE StoreResult       BY <1>11, KeepStoreResult
  <1>12. CASE GoalCheck         BY <1>12, KeepGoalCheck
  <1>13. CASE Answer            BY <1>13, KeepAnswer
  <1> QED
    BY <1>1, <1>2, <1>3, <1>4, <1>5, <1>6, <1>7, <1>8, <1>9, <1>10, <1>11, <1>12, <1>13 DEF TurnStep

LEMMA KeepTalk == Talk /\ [NextConversation]_conversation => Talk'
  <1> SUFFICES ASSUME Talk, [NextConversation]_conversation PROVE Talk'
    OBVIOUS
  <1>1. CASE BeginTurn          BY <1>1, KeepBeginTurn
  <1>2. CASE TurnStep           BY <1>2, KeepTurnStep
  <1>3. CASE Clear              BY <1>3, KeepClear
  <1>4. CASE Compress           BY <1>4, KeepCompress
  <1>5. CASE CompressEnd        BY <1>5, KeepCompressEnd
  <1>6. CASE Notice             BY <1>6, KeepNotice
  <1>7. CASE NewGoal            BY <1>7, KeepNewGoal
  <1>8. CASE OtherRow           BY <1>8, KeepOtherRow
  <1>9. CASE Crash              BY <1>9, KeepCrash
  <1>10. CASE UNCHANGED conversation
    <2>1. /\ turnAt' = turnAt /\ iter' = iter /\ prev' = prev /\ owed' = owed /\ nudges' = nudges
          /\ retries' = retries /\ recovered' = recovered /\ fold' = fold /\ turns' = turns /\ calls' = calls
          /\ msgs' = msgs /\ db' = db /\ last' = last /\ goal' = goal /\ remote' = remote /\ ckpt' = ckpt
          /\ cmd' = cmd /\ left' = left /\ question' = question /\ dirty' = dirty /\ cut' = cut
          /\ synced' = synced /\ exposed' = exposed
      BY <1>10 DEF conversation, turnVars, diskVars, ghosts
    <2>2. ConversationTypeOK'
      BY <2>1 DEF Talk, ConversationTypeOK
    <2>3. AllSound' /\ AllGood' /\ Owing'
      BY <2>1 DEF Talk, AllSound, AllGood, Owing
    <2>4. Covered' /\ Asking'
      BY <2>1 DEF Talk, Covered, Asking, Turning
    <2> QED
      BY <2>2, <2>3, <2>4 DEF Talk
  <1> QED
    BY <1>1, <1>2, <1>3, <1>4, <1>5, <1>6, <1>7, <1>8, <1>9, <1>10 DEF NextConversation

\* The invariant holds always.
LEMMA TalkAlways == ConversationSpec => []Talk
  <1>1. InitConversation => Talk
    BY InitTalk
  <1>2. Talk /\ [NextConversation]_conversation => Talk'
    BY KeepTalk
  <1> QED
    BY <1>1, <1>2, PTL DEF ConversationSpec

\* Every variable of the conversation keeps its type: a turn never exceeds its
\* iterations, nudges and retries, every message is of a shape that the history and
\* the model's interface know, and the rows that the session knows of exist.
THEOREM ConversationTypeCorrect == ConversationSpec => []ConversationTypeOK
  <1>1. Talk => ConversationTypeOK
    BY DEF Talk
  <1> QED
    BY <1>1, TalkAlways, PTL

\* Whatever the model is sent can be read: each call is followed by its one result and
\* each result follows its call, after any sequence of cancellations, errors, folds,
\* clears, restarts and rows of others - unless a /compress replaced the messages of a
\* running turn (repair_incomplete_assistant_tool_call_sequence, InternalLoader.assemble).
THEOREM RequestsReadable == ConversationSpec => []RequestWellFormed
  <1>1. Talk => RequestWellFormed
    <2> SUFFICES ASSUME Talk, ~dirty PROVE WellFormed(Request(msgs))
      BY DEF RequestWellFormed
    <2>1. Good(msgs) /\ msgs \in Seq(Message) /\ MaxCalls \in Nat
      BY Known DEF AllGood
    <2> QED
      BY <2>1, RequestGood
  <1> QED
    BY <1>1, TalkAlways, PTL

\* The conversation and the rows of the chat history agree: no row is in it twice, and
\* none is passed over except those written by another process while the session is
\* in a turn or waiting when a notice is written (_sync_external_session_updates and
\* _last_history_id).
THEOREM HistoryAgrees == ConversationSpec => []HistoryKept
  <1>1. Talk => HistoryKept
    <2> SUFFICES ASSUME Talk PROVE HistoryKept
      OBVIOUS
    <2>1. AllSound /\ Covered /\ last \in Nat /\ Len(db) \in Nat /\ last <= Len(db)
      BY Known
    <2>2. \A i, j \in 1 .. Len(msgs) : msgs[i].row = msgs[j].row /\ i # j => msgs[i].row = 0
      BY <2>1 DEF AllSound, Sound
    <2>3. \A r \in 1 .. last : db[r] # "tool" => r \in synced \cup exposed
      <3> SUFFICES ASSUME NEW r \in 1 .. last, db[r] # "tool" PROVE r \in synced \cup exposed
        OBVIOUS
      <3>1. r \in 1 .. Len(db) /\ ~(r > last)
        BY <2>1
      <3> QED
        BY <2>1, <3>1 DEF Covered
    <2> QED
      BY <2>2, <2>3 DEF HistoryKept
  <1> QED
    BY <1>1, TalkAlways, PTL

\* The model is never asked without the question of the turn: it stands in the messages
\* or in a summary, however often the kernel folds them (AgentKernel.compress_context),
\* unless a summary failed or a command changed the messages.
THEOREM QuestionAsked == ConversationSpec => []QuestionInRequest
  <1>1. Talk => QuestionInRequest
    BY Known DEF QuestionInRequest, Asking, Turning
  <1> QED
    BY <1>1, TalkAlways, PTL

-----------------------------------------------------------------------------
(* Conversations without a /compress *)

\* No /compress has been given and none can be.
Uncompressed == left["compress"] = 0 /\ ~cmd.on /\ ~dirty /\ ~ckpt.dirty

\* Nothing but /compress brings about what /compress brings about.
LEMMA KeepUncompressed ==
  ASSUME Talk, Uncompressed, [NextConversation]_conversation
  PROVE  Uncompressed'
  <1>1. left \in [Events -> Nat] /\ "compress" \in Events
    BY DEF Talk, ConversationTypeOK, Events
  <1>2. ASSUME NEW e \in Events \ {"compress"}, left' = [left EXCEPT ![e] = @ - 1]
        PROVE  left'["compress"] = 0
    BY <1>1, <1>2 DEF Uncompressed
  <1>3. ~Compress /\ ~CompressEnd
    BY DEF Uncompressed, Compress, CompressEnd, Happens
  <1>4. CASE BeginTurn \/ Ask \/ Iterate \/ Overflow \/ Summarised \/ OverflowError \/ MissingReasoning
             \/ CallTools \/ Execute \/ StoreResult \/ GoalCheck
    <2>1. left' = left /\ cmd' = cmd /\ dirty' = dirty /\ ckpt' = ckpt
      BY <1>4 DEF BeginTurn, Ask, Iterate, Overflow, Summarised, OverflowError, MissingReasoning,
         CallTools, Execute, StoreResult, GoalCheck, diskVars, ghosts
    <2> QED
      BY <2>1 DEF Uncompressed
  <1>5. CASE EndWithout \/ Fails \/ Cancelled \/ Exhausted \/ Answer
    <2>1. left' = left /\ cmd' = cmd /\ dirty' = dirty /\ ckpt'.dirty = dirty
      BY <1>5 DEF EndWithout, Fails, Cancelled, Exhausted, Answer, Finalize, Saved
    <2> QED
      BY <2>1 DEF Uncompressed
  <1>6. CASE Executed
    <2>1. cmd' = cmd /\ dirty' = dirty /\ ckpt' = ckpt
      BY <1>6 DEF Executed, ghosts
    <2>2. left'["compress"] = 0
      <3>1. left' = left \/ left' = [left EXCEPT !["plan"] = @ - 1]
        BY <1>6 DEF Executed
      <3>2. "plan" \in Events \ {"compress"}
        BY DEF Events
      <3> QED
        BY <1>2, <3>1, <3>2 DEF Uncompressed
    <2> QED
      BY <2>1, <2>2 DEF Uncompressed
  <1>7. ASSUME Clear \/ Notice \/ NewGoal \/ OtherRow \/ Crash
        PROVE  left'["compress"] = 0
    <2>1. PICK e \in {"clear", "notice", "goal", "row", "crash"} : Happens(e)
      BY <1>7 DEF Clear, Notice, NewGoal, OtherRow, Crash
    <2>2. e \in Events \ {"compress"}
      BY DEF Events
    <2> QED
      BY <1>2, <2>1, <2>2 DEF Happens
  <1>8. CASE Clear
    <2>1. cmd' = cmd /\ ckpt' = ckpt /\ (~dirty => ~dirty')
      BY <1>8 DEF Clear
    <2> QED
      BY <1>7, <1>8, <2>1 DEF Uncompressed
  <1>9. CASE Notice \/ OtherRow
    <2>1. cmd' = cmd /\ ckpt' = ckpt /\ dirty' = dirty
      BY <1>9 DEF Notice, OtherRow
    <2> QED
      BY <1>7, <1>9, <2>1 DEF Uncompressed
  <1>10. CASE NewGoal
    <2>1. cmd' = cmd /\ dirty' = dirty /\ ckpt'.dirty = dirty
      BY <1>10 DEF NewGoal, Saved, ghosts
    <2> QED
      BY <1>7, <1>10, <2>1 DEF Uncompressed
  <1>11. CASE Crash
    <2>1. /\ cmd'.on = FALSE /\ ckpt' = ckpt
          /\ dirty' = ckpt.dirty \/ dirty' = FALSE
      BY <1>11 DEF Crash, NoCommand
    <2> QED
      BY <1>7, <1>11, <2>1 DEF Uncompressed
  <1>12. CASE UNCHANGED conversation
    BY <1>12 DEF Uncompressed, conversation, diskVars, ghosts
  <1> QED
    BY <1>3, <1>4, <1>5, <1>6, <1>8, <1>9, <1>10, <1>11, <1>12 DEF NextConversation, TurnStep

\* The exception of RequestWellFormed is the only one that is needed: in a session where
\* /compress is never used, every request is well formed, which the run
\* conversation_compress refutes where it is used (compress_context_for_session).
THEOREM OnlyCompressBreaks ==
  ASSUME \A happening \in Scenarios : happening["compress"] = 0
  PROVE  ConversationSpec => []EveryRequestWellFormed
  <1>1. InitConversation => Uncompressed
    BY DEF InitConversation, Uncompressed, NoCommand, NoCheckpoint
  <1>2. Talk /\ Uncompressed /\ [NextConversation]_conversation => Uncompressed'
    BY KeepUncompressed
  <1>3. Talk /\ Uncompressed => EveryRequestWellFormed
    <2> SUFFICES ASSUME Talk, ~dirty PROVE WellFormed(Request(msgs))
      BY DEF Uncompressed, EveryRequestWellFormed
    <2>1. Good(msgs) /\ msgs \in Seq(Message) /\ MaxCalls \in Nat
      BY Known DEF AllGood
    <2> QED
      BY <2>1, RequestGood
  <1> QED
    BY <1>1, <1>2, <1>3, TalkAlways, PTL DEF ConversationSpec
=============================================================================
