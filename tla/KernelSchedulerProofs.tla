----------------------- MODULE KernelSchedulerProofs -----------------------
(***************************************************************************)
(* Proofs about KernelScheduler, for any sessions, requests and priorities *)
(* and any number of cancellations.                                        *)
(***************************************************************************)
EXTENDS KernelScheduler, FiniteSetTheorems, TLAPS

USE DEF Requests, Users

-----------------------------------------------------------------------------
(* Finite sets *)

\* Sets of requests are finite, so their cardinalities are numbers.
LEMMA RequestSets ==
    ASSUME NEW S \in SUBSET Requests
    PROVE  IsFiniteSet(S) /\ Cardinality(S) \in Nat
BY SchedulerAssumption, FS_Subset, FS_CardinalityType

LEMMA AtType ==
    ASSUME NEW s, NEW stations
    PROVE  IsFiniteSet(At(s, stations)) /\ Cardinality(At(s, stations)) \in Nat
BY RequestSets DEF At

\* Counting one more or one less.
LEMMA CountOneMore ==
    ASSUME NEW S, IsFiniteSet(S), NEW x, x \notin S
    PROVE  Cardinality(S \cup {x}) = Cardinality(S) + 1
BY FS_AddElement

LEMMA CountOneLess ==
    ASSUME NEW S, IsFiniteSet(S), NEW x \in S
    PROVE  Cardinality(S \ {x}) = Cardinality(S) - 1
BY FS_RemoveElement

-----------------------------------------------------------------------------
(* The inductive invariant. The counters must be exact for their types to be    *)
(* kept (a count of zero is never decremented), and the type invariant gives    *)
(* the sets that are counted.                                                   *)

IInv == TypeOK /\ SessionSerial /\ CountersExact /\ SkipNeverNeeded

LEMMA InitIInv == Init => IInv
<1> SUFFICES ASSUME Init PROVE IInv
  OBVIOUS
<1>1. TypeOK
  BY SchedulerAssumption DEF Init, TypeOK, Stations
<1>2. SessionSerial /\ SkipNeverNeeded
  BY DEF Init, SessionSerial, SkipNeverNeeded
<1>3. \A s \in Sessions : At(s, {"lockwait", "running"}) = {} /\ At(s, {"queued"}) = {}
  BY DEF Init, At
<1>4. CountersExact
  BY <1>3, FS_EmptySet DEF Init, CountersExact
<1>. QED  BY <1>1, <1>2, <1>4 DEF IInv

\* A session with a queued request, or with a turn, has a positive count.
LEMMA CountPositive ==
    ASSUME IInv, NEW r \in Requests
    PROVE  /\ pc[r] = "queued" => queued[Session[r]] >= 1
           /\ pc[r] \in {"lockwait", "running"} => inflight[Session[r]] >= 1
<1>1. Session[r] \in Sessions
  BY SchedulerAssumption
<1>2. ASSUME NEW stations, pc[r] \in stations
      PROVE  Cardinality(At(Session[r], stations)) >= 1
  <2>1. r \in At(Session[r], stations)
    BY <1>2 DEF At
  <2>. QED  BY <2>1, AtType, FS_EmptySet, Z3
<1>. QED  BY <1>1, <1>2 DEF IInv, CountersExact

LEMMA TypeStep == IInv /\ [Next]_vars => TypeOK'
<1> SUFFICES ASSUME IInv, [Next]_vars PROVE TypeOK'
  OBVIOUS
<1> USE SchedulerAssumption DEF IInv, TypeOK, Stations
<1>1. ASSUME NEW r \in Requests, Submit(r) \/ InjectTurn(r)
      PROVE  TypeOK'
  <2>1. Enqueue(r)
    BY <1>1 DEF Submit, InjectTurn
  <2>2. /\ pc' \in [Users -> Stations] /\ owner' = owner /\ inflight' = inflight
        /\ queued' \in [Sessions -> Nat] /\ ahead' \in [Users -> SUBSET Users]
        /\ cancelled' = cancelled /\ killed' = killed /\ waitOn' = waitOn
        /\ kernel' = kernel /\ cancels' = cancels
    BY <2>1 DEF Enqueue, Requeue, LineAt, lockVars
  <2>3. seniors' \in [Requests -> SUBSET Requests]
    BY <2>1 DEF Enqueue, Accepted, At
  <2>4. /\ registered' \subseteq Submits
        /\ future' \in [Submits -> {"none", "pending", "result", "error", "dropped"}]
        /\ delivery' \in [Wakes -> {"idle", "staged", "confirmed", "aborted"}]
    BY <1>1 DEF Submit, InjectTurn, SettleWake, busVars
  <2>. QED  BY <2>2, <2>3, <2>4
<1>2. ASSUME NEW r \in Requests, DispatchSkip(r) \/ DispatchSpawn(r)
      PROVE  TypeOK'
  BY <1>2 DEF DispatchSkip, DispatchSpawn, Dequeue, NextOut, Requeue, LineAt, Less,
     Answer, ClearMark, busVars, lockVars
<1>3. ASSUME NEW r \in Requests,
             KilledUnstarted(r) \/ StartSuppress(r) \/ StartTurn(r) \/ Cleanup(r)
      PROVE  TypeOK'
  <2>1. CASE KilledUnstarted(r) \/ StartSuppress(r)
    BY <2>1 DEF KilledUnstarted, StartSuppress, StartsNow, Requeue, SettleWake, busVars,
       lockVars
  <2>2. CASE StartTurn(r)
    BY <2>2 DEF StartTurn, StartsNow, JoinLock, LockLine, Requeue, busVars, lockVars
  <2>3. CASE Cleanup(r)
    BY <2>3 DEF Cleanup, ClearMark, busVars, lockVars
  <2>. QED  BY <1>3, <2>1, <2>2, <2>3
<1>4. ASSUME NEW u \in Users, TakeLock(u) \/ GateLeave(u) \/ GateEnter(u)
      PROVE  TypeOK'
  BY <1>4 DEF TakeLock, GateLeave, GateEnter, JoinLock, LockLine, Requeue, busVars,
     lockVars
<1>5. ASSUME NEW r \in Requests, NEW new \in {{}} \cup {{i} : i \in Injects},
             \/ FinishTurn(r, new) \/ FailTurn(r, new)
             \/ AbortTurn(r, new) \/ KilledWaiting(r, new)
      PROVE  TypeOK'
  <2>1. EndTurn(r, new)
    BY <1>5 DEF FinishTurn, FailTurn, AbortTurn, KilledWaiting
  <2>3. Cardinality(new) \in Nat
    BY RequestSets
  <2>4. /\ pc' \in [Users -> Stations] /\ owner' \in [Sessions -> Users \cup {Nobody}]
        /\ inflight' \in [Sessions -> Nat] /\ queued' \in [Sessions -> Nat]
        /\ ahead' \in [Users -> SUBSET Users]
        /\ cancelled' \subseteq Sessions
    BY <2>1, <2>3 DEF EndTurn, EndOf, Requeue, LineAt, ClearMark, Less
  <2>5. /\ killed' \subseteq Requests /\ waitOn' \in [Sessions -> SUBSET Requests]
        /\ kernel' \in {"down", "up", "draining", "evicting"} /\ cancels' \in Nat
        /\ seniors' \in [Requests -> SUBSET Requests]
    BY <2>1 DEF EndTurn, EndOf, Accepted, At
  <2>6. /\ registered' \subseteq Submits
        /\ future' \in [Submits -> {"none", "pending", "result", "error", "dropped"}]
    BY <1>5 DEF FinishTurn, FailTurn, AbortTurn, KilledWaiting, Answer, busVars
  <2>7. delivery' \in [Wakes -> {"idle", "staged", "confirmed", "aborted"}]
    BY <1>5 DEF FinishTurn, FailTurn, AbortTurn, KilledWaiting, Deliver
  <2>. QED  BY <2>4, <2>5, <2>6, <2>7
<1>6. ASSUME NEW s \in Sessions, CancelSession(s) \/ CancelReturns(s) \/ CancelTimesOut(s)
      PROVE  TypeOK'
  BY <1>6 DEF CancelSession, CancelReturns, CancelTimesOut, ClearMark, At, busVars,
     lockVars
<1>7. ASSUME NEW r \in Submits, WaiterGivesUp(r)
      PROVE  TypeOK'
  BY <1>7 DEF WaiterGivesUp, lockVars
<1>8. ASSUME Start \/ Stop
      PROVE  TypeOK'
  BY <1>8 DEF Start, Stop, StopBegins, StopDrained, StopEnds, KernelStep, busVars,
     lockVars
<1>9. CASE UNCHANGED vars
  BY <1>9 DEF vars
<1>. QED
  BY <1>1, <1>2, <1>3, <1>4, <1>5, <1>6, <1>7, <1>8, <1>9
     DEF Next, RequestStep, GateStep

-----------------------------------------------------------------------------
(* Mutual exclusion *)

LEMMA SerialStep == IInv /\ [Next]_vars => SessionSerial'
<1> SUFFICES ASSUME IInv, [Next]_vars PROVE SessionSerial'
  OBVIOUS
<1> USE SchedulerAssumption DEF IInv, TypeOK, SessionSerial
<1>1. ASSUME NEW r \in Requests, Submit(r) \/ InjectTurn(r)
      PROVE  SessionSerial'
  BY <1>1 DEF Submit, InjectTurn, Enqueue, lockVars
<1>2. ASSUME NEW r \in Requests, DispatchSkip(r) \/ DispatchSpawn(r)
      PROVE  SessionSerial'
  BY <1>2 DEF DispatchSkip, DispatchSpawn, Dequeue, lockVars
<1>3. ASSUME NEW r \in Requests, KilledUnstarted(r) \/ StartSuppress(r) \/ Cleanup(r)
      PROVE  SessionSerial'
  BY <1>3 DEF KilledUnstarted, StartSuppress, Cleanup, lockVars
\* Whoever enters finds the lock free, so nobody of the session is inside.
<1>4. ASSUME NEW u \in Users, TakeLock(u) \/ JoinLock(u)
      PROVE  SessionSerial'
  <2>1. CASE owner' = owner
    BY <1>4, <2>1 DEF TakeLock, JoinLock
  <2>2. CASE owner' # owner
    <3>1. /\ owner[Session[u]] = Nobody
          /\ owner' = [owner EXCEPT ![Session[u]] = u]
          /\ pc' = [pc EXCEPT ![u] = "running"]
      BY <1>4, <2>2 DEF TakeLock, JoinLock
    <3>. QED  BY <3>1
  <2>. QED  BY <2>1, <2>2
\* Whoever ends a turn releases only what it holds.
<1>5. ASSUME NEW r \in Requests, NEW new \in {{}} \cup {{i} : i \in Injects},
             EndTurn(r, new)
      PROVE  SessionSerial'
  <2> SUFFICES ASSUME NEW u \in Users, pc'[u] = "running"
               PROVE  owner'[Session[u]] = u
    OBVIOUS
  <2>1. pc[u] = "running" /\ u # r
    BY <1>5 DEF EndTurn, EndOf
  <2>. QED  BY <1>5, <2>1 DEF EndTurn, EndOf
<1>6. ASSUME NEW g \in Gates, GateLeave(g)
      PROVE  SessionSerial'
  BY <1>6 DEF GateLeave
<1>7. CASE UNCHANGED <<pc, owner>>
  BY <1>7
<1>8. ASSUME NEW s \in Sessions, CancelSession(s) \/ CancelReturns(s) \/ CancelTimesOut(s)
      PROVE  UNCHANGED <<pc, owner>>
  BY <1>8 DEF CancelSession, CancelReturns, CancelTimesOut, lockVars
<1>9. ASSUME Start \/ Stop \/ (\E r \in Submits : WaiterGivesUp(r)) \/ UNCHANGED vars
      PROVE  UNCHANGED <<pc, owner>>
  BY <1>9 DEF Start, Stop, StopBegins, StopDrained, StopEnds, KernelStep, WaiterGivesUp,
     lockVars, vars
<1>. QED
  BY <1>1, <1>2, <1>3, <1>4, <1>5, <1>6, <1>7, <1>8, <1>9
     DEF Next, RequestStep, GateStep, StartTurn, GateEnter, FinishTurn, FailTurn,
         AbortTurn, KilledWaiting

-----------------------------------------------------------------------------
(* Marked sessions: a task of theirs that has not started was cancelled *)

LEMMA SkipStep == IInv /\ [Next]_vars => SkipNeverNeeded'
<1> SUFFICES ASSUME IInv, [Next]_vars PROVE SkipNeverNeeded'
  OBVIOUS
<1> USE SchedulerAssumption DEF IInv, TypeOK, SkipNeverNeeded
<1>1. ASSUME NEW r \in Requests, Submit(r) \/ InjectTurn(r)
      PROVE  SkipNeverNeeded'
  BY <1>1 DEF Submit, InjectTurn, Enqueue
<1>2. ASSUME NEW r \in Requests, DispatchSkip(r) \/ DispatchSpawn(r)
      PROVE  SkipNeverNeeded'
  BY <1>2 DEF DispatchSkip, DispatchSpawn, Dequeue, ClearMark
<1>3. ASSUME NEW r \in Requests, KilledUnstarted(r) \/ StartSuppress(r) \/ Cleanup(r)
      PROVE  SkipNeverNeeded'
  BY <1>3 DEF KilledUnstarted, StartSuppress, Cleanup, ClearMark
<1>4. ASSUME NEW u \in Users, TakeLock(u) \/ StartTurn(u) \/ GateEnter(u) \/ GateLeave(u)
      PROVE  SkipNeverNeeded'
  BY <1>4 DEF TakeLock, StartTurn, GateEnter, GateLeave, JoinLock
<1>5. ASSUME NEW r \in Requests, NEW new \in {{}} \cup {{i} : i \in Injects},
             EndTurn(r, new)
      PROVE  SkipNeverNeeded'
  BY <1>5 DEF EndTurn, EndOf, ClearMark
\* The only step that marks a session cancels its tasks in the same breath.
<1>6. ASSUME NEW s \in Sessions, CancelSession(s) \/ CancelReturns(s) \/ CancelTimesOut(s)
      PROVE  SkipNeverNeeded'
  BY <1>6 DEF CancelSession, CancelReturns, CancelTimesOut, ClearMark, At, TaskPending
<1>7. ASSUME Start \/ Stop \/ (\E r \in Submits : WaiterGivesUp(r)) \/ UNCHANGED vars
      PROVE  SkipNeverNeeded'
  BY <1>7 DEF Start, Stop, StopBegins, StopDrained, StopEnds, KernelStep, WaiterGivesUp, vars
<1>. QED
  BY <1>1, <1>2, <1>3, <1>4, <1>5, <1>6, <1>7
     DEF Next, RequestStep, GateStep, FinishTurn, FailTurn, AbortTurn, KilledWaiting

-----------------------------------------------------------------------------
(* The counters: every step moves at most one request of a session into or out *)
(* of the counted stations, and the counter by as much.                        *)

\* A step that leaves a session's counted sets alone, or moves one request r
\* through them and the counters with it.
LEMMA Recount ==
    ASSUME IInv, NEW s \in Sessions, NEW K, NEW r \in Requests,
           NEW now, now = Cardinality(At(s, K)),
           NEW next,
           \/ next = now /\ At(s, K)' = At(s, K)
           \/ next = now + 1 /\ r \notin At(s, K) /\ At(s, K)' = At(s, K) \cup {r}
           \/ next = now - 1 /\ r \in At(s, K) /\ At(s, K)' = At(s, K) \ {r}
    PROVE  next = Cardinality(At(s, K)')
BY AtType, CountOneMore, CountOneLess

LEMMA CountersStep == IInv /\ [Next]_vars => CountersExact'
<1> SUFFICES ASSUME IInv, [Next]_vars PROVE CountersExact'
  OBVIOUS
<1> DEFINE InTurn(s) == At(s, {"lockwait", "running"})
           Queue(s) == At(s, {"queued"})
<1>0. ASSUME NEW s \in Sessions
      PROVE  inflight[s] = Cardinality(InTurn(s)) /\ queued[s] = Cardinality(Queue(s))
  BY <1>0 DEF IInv, CountersExact
<1>1. ASSUME NEW r \in Requests, Submit(r) \/ InjectTurn(r)
      PROVE  CountersExact'
  <2> SUFFICES ASSUME NEW s \in Sessions
               PROVE  /\ inflight'[s] = Cardinality(InTurn(s)')
                      /\ queued'[s] = Cardinality(Queue(s)')
    BY DEF CountersExact
  <2>1. /\ pc[r] = "new" /\ pc' = [pc EXCEPT ![r] = "queued"] /\ inflight' = inflight
        /\ queued' = [queued EXCEPT ![Session[r]] = @ + 1]
    BY <1>1 DEF Submit, InjectTurn, Enqueue, lockVars
  <2>2. inflight'[s] = inflight[s] /\ InTurn(s)' = InTurn(s)
    BY <2>1 DEF At, IInv, TypeOK
  <2>3. \/ Session[r] # s /\ queued'[s] = queued[s] /\ Queue(s)' = Queue(s)
        \/ /\ Session[r] = s /\ queued'[s] = queued[s] + 1
           /\ r \notin Queue(s) /\ Queue(s)' = Queue(s) \cup {r}
    BY <2>1 DEF At, IInv, TypeOK
  <2>. QED  BY <1>0, <2>2, <2>3, Recount
<1>2. ASSUME NEW r \in Requests, DispatchSkip(r) \/ DispatchSpawn(r)
      PROVE  CountersExact'
  <2> SUFFICES ASSUME NEW s \in Sessions
               PROVE  /\ inflight'[s] = Cardinality(InTurn(s)')
                      /\ queued'[s] = Cardinality(Queue(s)')
    BY DEF CountersExact
  <2>1. /\ pc[r] = "queued" /\ inflight' = inflight
        /\ \/ pc' = [pc EXCEPT ![r] = "done"] \/ pc' = [pc EXCEPT ![r] = "spawned"]
        /\ queued' = [queued EXCEPT ![Session[r]] = Less(@)]
    BY <1>2 DEF DispatchSkip, DispatchSpawn, Dequeue, NextOut, lockVars
  <2>2. inflight'[s] = inflight[s] /\ InTurn(s)' = InTurn(s)
    BY <2>1 DEF At, IInv, TypeOK
  <2>3. \/ Session[r] # s /\ queued'[s] = queued[s] /\ Queue(s)' = Queue(s)
        \/ /\ Session[r] = s /\ queued'[s] = queued[s] - 1
           /\ r \in Queue(s) /\ Queue(s)' = Queue(s) \ {r}
    BY <2>1, CountPositive DEF At, IInv, TypeOK, Less
  <2>. QED  BY <1>0, <2>2, <2>3, Recount
<1>3. ASSUME NEW r \in Requests, StartTurn(r)
      PROVE  CountersExact'
  <2> SUFFICES ASSUME NEW s \in Sessions
               PROVE  /\ inflight'[s] = Cardinality(InTurn(s)')
                      /\ queued'[s] = Cardinality(Queue(s)')
    BY DEF CountersExact
  <2>1. /\ pc[r] = "spawned" /\ queued' = queued
        /\ \/ pc' = [pc EXCEPT ![r] = "running"] \/ pc' = [pc EXCEPT ![r] = "lockwait"]
        /\ inflight' = [inflight EXCEPT ![Session[r]] = @ + 1]
    BY <1>3 DEF StartTurn, StartsNow, JoinLock
  <2>2. queued'[s] = queued[s] /\ Queue(s)' = Queue(s)
    BY <2>1 DEF At, IInv, TypeOK
  <2>3. \/ Session[r] # s /\ inflight'[s] = inflight[s] /\ InTurn(s)' = InTurn(s)
        \/ /\ Session[r] = s /\ inflight'[s] = inflight[s] + 1
           /\ r \notin InTurn(s) /\ InTurn(s)' = InTurn(s) \cup {r}
    BY <2>1 DEF At, IInv, TypeOK
  <2>. QED  BY <1>0, <2>2, <2>3, Recount
<1>4. ASSUME NEW r \in Requests, NEW new \in {{}} \cup {{i} : i \in Injects},
             EndTurn(r, new), pc[r] \in {"lockwait", "running"}
      PROVE  CountersExact'
  <2> SUFFICES ASSUME NEW s \in Sessions
               PROVE  /\ inflight'[s] = Cardinality(InTurn(s)')
                      /\ queued'[s] = Cardinality(Queue(s)')
    BY DEF CountersExact
  <2>1. \A i \in new : i \in Injects /\ pc[i] = "new" /\ Session[i] = Session[r] /\ i # r
    BY <1>4 DEF EndTurn, EndOf, Flush, Flushable
  <2>2. /\ pc' = [u \in Users |-> IF u = r THEN "returned"
                                  ELSE IF u \in new THEN "queued" ELSE pc[u]]
        /\ inflight' = [inflight EXCEPT ![Session[r]] = Less(@)]
        /\ queued' = [queued EXCEPT ![Session[r]] = @ + Cardinality(new)]
    BY <1>4 DEF EndTurn, EndOf
  <2>3. \/ Session[r] # s /\ inflight'[s] = inflight[s] /\ InTurn(s)' = InTurn(s)
        \/ /\ Session[r] = s /\ inflight'[s] = inflight[s] - 1
           /\ r \in InTurn(s) /\ InTurn(s)' = InTurn(s) \ {r}
    BY <1>4, <2>1, <2>2, CountPositive DEF At, IInv, TypeOK, Less
  <2>4. CASE new = {} \/ Session[r] # s
    <3>1. Queue(s)' = Queue(s)
      BY <1>4, <2>1, <2>2, <2>4 DEF At, IInv, TypeOK
    <3>2. queued'[s] = queued[s]
      <4>1. new = {} => Cardinality(new) = 0
        BY FS_EmptySet
      <4>. QED  BY <2>2, <2>4, <4>1 DEF IInv, TypeOK
    <3>. QED  BY <1>0, <2>3, <3>1, <3>2, Recount
  <2>5. CASE new # {} /\ Session[r] = s
    <3>1. PICK i \in Injects : new = {i}
      BY <2>5
    <3>2. queued'[s] = queued[s] + 1
      BY <2>2, <2>5, <3>1, FS_Singleton DEF IInv, TypeOK
    <3>3. i \notin Queue(s) /\ Queue(s)' = Queue(s) \cup {i}
      BY <1>4, <2>1, <2>2, <2>5, <3>1 DEF At, IInv, TypeOK
    <3>4. inflight'[s] = Cardinality(InTurn(s)')
      BY <1>0, <2>3, Recount
    <3>5. queued'[s] = Cardinality(Queue(s)')
      BY <1>0, <3>2, <3>3, Recount
    <3>. QED  BY <3>4, <3>5
  <2>. QED  BY <2>4, <2>5
\* Everything else moves nobody between counted and uncounted stations.
<1>5. ASSUME inflight' = inflight, queued' = queued,
             \A s \in Sessions : InTurn(s)' = InTurn(s) /\ Queue(s)' = Queue(s)
      PROVE  CountersExact'
  BY <1>0, <1>5 DEF CountersExact
<1>6. ASSUME NEW r \in Requests, KilledUnstarted(r) \/ StartSuppress(r) \/ Cleanup(r)
      PROVE  CountersExact'
  <2>1. /\ pc[r] \in {"spawned", "returned"} /\ inflight' = inflight /\ queued' = queued
        /\ \/ pc' = [pc EXCEPT ![r] = "done"] \/ pc' = [pc EXCEPT ![r] = "returned"]
    BY <1>6 DEF KilledUnstarted, StartSuppress, Cleanup, StartsNow, lockVars
  <2>. QED  BY <1>5, <2>1 DEF At, IInv, TypeOK
<1>7. ASSUME NEW u \in Users, TakeLock(u)
      PROVE  CountersExact'
  <2>1. /\ pc[u] = "lockwait" /\ pc' = [pc EXCEPT ![u] = "running"]
        /\ inflight' = inflight /\ queued' = queued
    BY <1>7 DEF TakeLock
  <2>. QED  BY <1>5, <2>1 DEF At, IInv, TypeOK
<1>8. ASSUME NEW g \in Gates, GateEnter(g) \/ GateLeave(g)
      PROVE  CountersExact'
  <2>1. /\ inflight' = inflight /\ queued' = queued
        /\ \A r \in Requests : pc'[r] = pc[r]
    BY <1>8, SchedulerAssumption DEF GateEnter, GateLeave, JoinLock, IInv, TypeOK
  <2>. QED  BY <1>5, <2>1 DEF At
<1>9. ASSUME \/ \E s \in Sessions : CancelSession(s) \/ CancelReturns(s) \/ CancelTimesOut(s)
             \/ Start \/ Stop \/ \E r \in Submits : WaiterGivesUp(r)
             \/ UNCHANGED vars
      PROVE  CountersExact'
  <2>1. UNCHANGED <<pc, inflight, queued>>
    BY <1>9 DEF CancelSession, CancelReturns, CancelTimesOut, Start, Stop, StopBegins,
       StopDrained, StopEnds, KernelStep, WaiterGivesUp, lockVars, vars
  <2>. QED  BY <1>5, <2>1 DEF At
<1>. QED
  BY <1>1, <1>2, <1>3, <1>4, <1>6, <1>7, <1>8, <1>9
     DEF Next, RequestStep, GateStep, FinishTurn, FailTurn, AbortTurn, KilledWaiting

-----------------------------------------------------------------------------
(* The theorems *)

\* The strengthened invariant holds in every reachable state.
THEOREM Invariance == Spec => []IInv
<1>1. IInv /\ [Next]_vars => IInv'
  BY TypeStep, SerialStep, SkipStep, CountersStep DEF IInv
<1>. QED  BY InitIInv, <1>1, PTL DEF Spec

\* The state keeps its types: no counter of _inflight_sessions or _queued_by_session
\* ever goes below zero.
THEOREM TypeCorrect == Spec => []TypeOK
BY Invariance, PTL DEF IInv

\* Whoever is inside a session holds its lock, hence is alone inside it.
THEOREM SerialCorrect == Spec => []SessionSerial
BY Invariance, PTL DEF IInv

\* _inflight_sessions and _queued_by_session count what they stand for.
THEOREM CountersCorrect == Spec => []CountersExact
BY Invariance, PTL DEF IInv

\* The check of _cancelled_sessions at the start of _run_and_route is never taken.
THEOREM SkipCheckRedundant == Spec => []SkipNeverNeeded
BY Invariance, PTL DEF IInv

-----------------------------------------------------------------------------
(* Callers *)

LEMMA ReleaseStep == IInv /\ StopReleases /\ [Next]_vars => StopReleases'
<1> SUFFICES ASSUME IInv, StopReleases, [Next]_vars PROVE StopReleases'
  OBVIOUS
<1> USE SchedulerAssumption DEF IInv, TypeOK, StopReleases
<1>1. ASSUME NEW r \in Requests, Submit(r) \/ InjectTurn(r)
      PROVE  StopReleases'
  BY <1>1 DEF Submit, InjectTurn, Enqueue, busVars
\* The dispatch loop only runs while the kernel is up.
<1>2. ASSUME NEW r \in Requests, DispatchSkip(r) \/ DispatchSpawn(r)
      PROVE  StopReleases'
  BY <1>2 DEF DispatchSkip, DispatchSpawn, Dequeue, Answer, busVars
<1>3. ASSUME NEW r \in Requests,
             KilledUnstarted(r) \/ StartSuppress(r) \/ StartTurn(r) \/ Cleanup(r)
      PROVE  StopReleases'
  <2>1. /\ pc[r] # "queued" /\ registered' = registered /\ future' = future
        /\ kernel' = kernel /\ \A q \in Requests : q # r => pc'[q] = pc[q]
    BY <1>3 DEF KilledUnstarted, StartSuppress, StartTurn, Cleanup, StartsNow, JoinLock,
       busVars
  <2>. QED  BY <2>1
<1>4. ASSUME NEW u \in Users, TakeLock(u) \/ (u \in Gates /\ (GateEnter(u) \/ GateLeave(u)))
      PROVE  StopReleases'
  <2>1. /\ registered' = registered /\ future' = future /\ kernel' = kernel
        /\ \A q \in Requests : pc[q] = "queued" => pc'[q] = pc[q]
    BY <1>4 DEF TakeLock, GateEnter, GateLeave, JoinLock, busVars
  <2>. QED  BY <2>1
<1>5. ASSUME NEW r \in Requests, NEW new \in {{}} \cup {{i} : i \in Injects},
             EndTurn(r, new), pc[r] \in {"lockwait", "running"},
             Answer(r, "result") \/ Answer(r, "error") \/ UNCHANGED busVars
      PROVE  StopReleases'
  <2>1. kernel' = kernel /\ \A q \in Requests : pc[q] = "queued" => pc'[q] = "queued"
    BY <1>5 DEF EndTurn, EndOf
  <2>2. \A q \in Submits : future'[q] = "pending" =>
            future[q] = "pending" /\ (q \in registered => q \in registered')
    BY <1>5 DEF Answer, busVars
  <2>. QED  BY <2>1, <2>2
<1>6. ASSUME NEW s \in Sessions, CancelSession(s) \/ CancelReturns(s) \/ CancelTimesOut(s)
      PROVE  StopReleases'
  BY <1>6 DEF CancelSession, CancelReturns, CancelTimesOut, busVars
<1>7. ASSUME NEW r \in Submits, WaiterGivesUp(r)
      PROVE  StopReleases'
  BY <1>7 DEF WaiterGivesUp
<1>8. ASSUME Start \/ StopBegins \/ StopDrained \/ UNCHANGED vars
      PROVE  StopReleases'
  BY <1>8 DEF Start, StopBegins, StopDrained, KernelStep, busVars, vars
\* cancel_all drops every future the bus can reach, and that is all of them.
<1>9. ASSUME StopEnds
      PROVE  StopReleases'
  BY <1>9 DEF StopEnds, KernelStep
<1>. QED
  BY <1>1, <1>2, <1>3, <1>4, <1>5, <1>6, <1>7, <1>8, <1>9
     DEF Next, RequestStep, GateStep, Stop, FinishTurn, FailTurn, AbortTurn, KilledWaiting

\* After stop() nobody is left waiting for a request that had been dispatched.
THEOREM StopCorrect == Spec => []StopReleases
<1>1. Init => StopReleases
  BY DEF Init, StopReleases
<1>. QED  BY <1>1, ReleaseStep, Invariance, PTL DEF Spec

\* The only steps that end a turn are the three exits of the locked section.
LEMMA TurnExits ==
    ASSUME IInv, Next, NEW r \in Requests, pc[r] = "running", pc'[r] # "running"
    PROVE  \E new \in {{}} \cup {{i} : i \in Injects} :
              FinishTurn(r, new) \/ FailTurn(r, new) \/ AbortTurn(r, new)
<1> USE SchedulerAssumption DEF IInv, TypeOK
<1>1. ASSUME NEW q \in Requests, Submit(q) \/ InjectTurn(q) \/ DispatchSkip(q)
                                 \/ DispatchSpawn(q)
      PROVE  pc'[r] = "running"
  BY <1>1 DEF Submit, InjectTurn, Enqueue, DispatchSkip, DispatchSpawn, Dequeue, NextOut
<1>2. ASSUME NEW q \in Requests,
             KilledUnstarted(q) \/ StartSuppress(q) \/ StartTurn(q) \/ Cleanup(q)
      PROVE  pc'[r] = "running"
  BY <1>2 DEF KilledUnstarted, StartSuppress, StartTurn, Cleanup, StartsNow, JoinLock
<1>3. ASSUME NEW u \in Users, TakeLock(u) \/ (u \in Gates /\ (GateEnter(u) \/ GateLeave(u)))
      PROVE  pc'[r] = "running"
  BY <1>3 DEF TakeLock, GateEnter, GateLeave, JoinLock
<1>4. ASSUME NEW q \in Requests, q # r, NEW new \in {{}} \cup {{i} : i \in Injects},
             EndTurn(q, new)
      PROVE  pc'[r] = "running"
  <2>1. r \notin new
    BY <1>4 DEF EndTurn, EndOf, Flush, Flushable
  <2>. QED  BY <1>4, <2>1 DEF EndTurn, EndOf
<1>5. ASSUME \/ \E s \in Sessions : CancelSession(s) \/ CancelReturns(s) \/ CancelTimesOut(s)
             \/ Start \/ Stop \/ \E q \in Submits : WaiterGivesUp(q)
      PROVE  pc' = pc
  BY <1>5 DEF CancelSession, CancelReturns, CancelTimesOut, Start, Stop, StopBegins,
     StopDrained, StopEnds, KernelStep, WaiterGivesUp
<1>. QED
  BY <1>1, <1>2, <1>3, <1>4, <1>5
     DEF Next, RequestStep, GateStep, FinishTurn, FailTurn, AbortTurn, KilledWaiting

\* However a turn ends, its caller's future is completed and its wake is settled.
THEOREM TurnsAnswer == Spec => TurnAnswers
<1> DEFINE Answered(r) ==
      pc[r] = "running" /\ pc'[r] # "running" =>
          /\ r \notin registered'
          /\ r \in Submits => future'[r] # "pending"
          /\ r \in Wakes => delivery'[r] # "staged"
<1>1. ASSUME IInv, StopReleases, Next PROVE \A r \in Requests : Answered(r)
  <2> SUFFICES ASSUME NEW r \in Requests, pc[r] = "running", pc'[r] # "running"
               PROVE  /\ r \notin registered'
                      /\ r \in Submits => future'[r] # "pending"
                      /\ r \in Wakes => delivery'[r] # "staged"
    OBVIOUS
  <2>1. PICK new \in {{}} \cup {{i} : i \in Injects} :
            FinishTurn(r, new) \/ FailTurn(r, new) \/ AbortTurn(r, new)
    BY <1>1, TurnExits
  <2>2. Answer(r, "result") \/ Answer(r, "error")
    BY <2>1 DEF FinishTurn, FailTurn, AbortTurn
  <2>3. r \notin registered' /\ (r \in Submits => future'[r] # "pending")
    BY <1>1, <2>2 DEF Answer, StopReleases, IInv, TypeOK
  <2>4. r \in Wakes => delivery'[r] \in {"confirmed", "aborted"}
    BY <2>1 DEF FinishTurn, FailTurn, AbortTurn, Deliver
  <2>. QED  BY <2>3, <2>4
<1>2. IInv /\ StopReleases /\ [Next]_vars => [\A r \in Requests : Answered(r)]_vars
  BY <1>1
<1>3. Spec => [][\A r \in Requests : Answered(r)]_vars
  BY <1>2, Invariance, StopCorrect, PTL DEF Spec
<1>. QED  BY <1>3 DEF TurnAnswers

-----------------------------------------------------------------------------
(* Cancel marks *)

\* Requests leave the open stations only through the dispatch loop or _cleanup.
LEMMA LastExits ==
    ASSUME IInv, Next, NEW r \in Requests, pc[r] \in Unfinished, pc'[r] \notin Unfinished
    PROVE  DispatchSkip(r) \/ Cleanup(r)
<1> USE SchedulerAssumption DEF IInv, TypeOK, Unfinished
<1>1. ASSUME NEW q \in Requests,
             \/ Submit(q) \/ InjectTurn(q) \/ DispatchSpawn(q)
             \/ q # r /\ (DispatchSkip(q) \/ Cleanup(q))
      PROVE  FALSE
  BY <1>1 DEF Submit, InjectTurn, Enqueue, DispatchSkip, DispatchSpawn, Dequeue, Cleanup
<1>2. ASSUME NEW q \in Requests, KilledUnstarted(q) \/ StartSuppress(q) \/ StartTurn(q)
      PROVE  FALSE
  BY <1>2 DEF KilledUnstarted, StartSuppress, StartTurn, JoinLock
<1>3. ASSUME NEW u \in Users, TakeLock(u) \/ (u \in Gates /\ (GateEnter(u) \/ GateLeave(u)))
      PROVE  FALSE
  BY <1>3 DEF TakeLock, GateEnter, GateLeave, JoinLock
<1>4. ASSUME NEW q \in Requests, NEW new \in {{}} \cup {{i} : i \in Injects},
             EndTurn(q, new)
      PROVE  FALSE
  BY <1>4 DEF EndTurn, EndOf
<1>5. ASSUME \/ \E s \in Sessions : CancelSession(s) \/ CancelReturns(s) \/ CancelTimesOut(s)
             \/ Start \/ Stop \/ \E q \in Submits : WaiterGivesUp(q)
      PROVE  FALSE
  BY <1>5 DEF CancelSession, CancelReturns, CancelTimesOut, Start, Stop, StopBegins,
     StopDrained, StopEnds, KernelStep, WaiterGivesUp
<1>. QED
  BY <1>1, <1>2, <1>3, <1>4, <1>5
     DEF Next, RequestStep, GateStep, FinishTurn, FailTurn, AbortTurn, KilledWaiting

\* When the last open request of a session goes, so does the session's cancel mark.
THEOREM MarksDie == Spec => MarkDiesWithLast
<1> DEFINE Cleared(s) ==
      At(s, Unfinished) # {} /\ At(s, Unfinished)' = {} => s \notin cancelled'
<1>1. ASSUME IInv, IInv', Next PROVE \A s \in Sessions : Cleared(s)
  <2> SUFFICES ASSUME NEW s \in Sessions, At(s, Unfinished) # {}, At(s, Unfinished)' = {}
               PROVE  s \notin cancelled'
    OBVIOUS
  <2>1. PICK r \in Requests : Session[r] = s /\ pc[r] \in Unfinished
    BY DEF At
  <2>2. pc'[r] \notin Unfinished
    BY <2>1 DEF At
  <2>3. DispatchSkip(r) \/ Cleanup(r)
    BY <1>1, <2>1, <2>2, LastExits
  <2>4. At(s, {"lockwait", "running"})' = {} /\ At(s, {"queued"})' = {}
    BY DEF At, Unfinished
  <2>5. inflight'[s] = 0 /\ queued'[s] = 0
    BY <1>1, <2>4, FS_EmptySet DEF IInv, CountersExact
  <2>6. CASE DispatchSkip(r)
    <3>1. /\ ClearMark(s, inflight[s], Less(queued[s])) /\ inflight' = inflight
          /\ queued' = [queued EXCEPT ![s] = Less(@)]
      BY <2>1, <2>6 DEF DispatchSkip, Dequeue, lockVars
    <3>. QED  BY <1>1, <2>5, <3>1 DEF ClearMark, IInv, TypeOK
  <2>7. CASE Cleanup(r)
    <3>1. ClearMark(s, inflight[s], queued[s]) /\ inflight' = inflight /\ queued' = queued
      BY <2>1, <2>7 DEF Cleanup, lockVars
    <3>. QED  BY <2>5, <3>1 DEF ClearMark
  <2>. QED  BY <2>3, <2>6, <2>7
<1>2. IInv /\ IInv' /\ [Next]_vars => [\A s \in Sessions : Cleared(s)]_vars
  BY <1>1
<1>3. Spec => [][\A s \in Sessions : Cleared(s)]_vars
  BY <1>2, Invariance, PTL DEF Spec
<1>. QED  BY <1>3 DEF MarkDiesWithLast

-----------------------------------------------------------------------------
(* The scheduler implements serial turns *)

\* A step that moves only user u in the abstract view is a step of SerialTurns.
LEMMA MapMove ==
    ASSUME TypeOK, SessionSerial, NEW u \in Users, NEW to \in Stations,
           \A v \in Users : v # u => PhaseOf(pc'[v]) = PhaseOf(pc[v]),
           pc'[u] = to,
           \/ /\ to = "running" /\ owner[Session[u]] = Nobody
              /\ PhaseOf(pc[u]) = "outside"
           \/ PhaseOf(to) = PhaseOf(pc[u])
           \/ PhaseOf(to) = "over" /\ PhaseOf(pc[u]) # "over"
    PROVE  Turns!Next \/ UNCHANGED TurnPhase
<1> USE DEF Turns!Next, Turns!Enter, Turns!Leave, Turns!Drop, Turns!Move, TurnPhase
<1>1. CASE PhaseOf(to) = PhaseOf(pc[u])
  BY <1>1
<1>2. CASE PhaseOf(to) = "over" /\ PhaseOf(pc[u]) # "over"
  <2>1. PhaseOf(pc[u]) \in {"outside", "inside"}
    BY <1>2 DEF PhaseOf, TypeOK, Stations
  <2>2. TurnPhase' = [TurnPhase EXCEPT ![u] = "over"]
    BY <1>2
  <2>. QED  BY <2>1, <2>2
<1>3. CASE /\ to = "running" /\ owner[Session[u]] = Nobody
           /\ PhaseOf(pc[u]) = "outside"
  <2>1. \A v \in Users : Session[v] = Session[u] => pc[v] # "running"
    BY <1>3, SchedulerAssumption DEF SessionSerial
  <2>2. \A v \in Users : Session[v] = Session[u] => PhaseOf(pc[v]) # "inside"
    BY <2>1 DEF PhaseOf, TypeOK, Stations
  <2>3. PhaseOf(to) = "inside"
    BY <1>3 DEF PhaseOf
  <2>4. TurnPhase' = [TurnPhase EXCEPT ![u] = "inside"]
    BY <2>3
  <2>. QED  BY <1>3, <2>2, <2>4
<1>. QED  BY <1>1, <1>2, <1>3

LEMMA MapStep ==
    ASSUME IInv, Next
    PROVE  Turns!Next \/ UNCHANGED TurnPhase
<1> DEFINE Mapped == Turns!Next \/ UNCHANGED TurnPhase
<1> USE SchedulerAssumption DEF IInv, Stations, TurnPhase
<1>0. ASSUME pc' = pc PROVE Mapped
  BY <1>0
<1>1. ASSUME NEW r \in Requests, Submit(r) \/ InjectTurn(r)
      PROVE  Mapped
  <2>1. pc[r] = "new" /\ pc' = [pc EXCEPT ![r] = "queued"]
    BY <1>1 DEF Submit, InjectTurn, Enqueue
  <2>. QED  BY <2>1, MapMove DEF PhaseOf, TypeOK
<1>2. ASSUME NEW r \in Requests, DispatchSkip(r) \/ DispatchSpawn(r)
      PROVE  Mapped
  <2>1. pc[r] = "queued" /\ \E to \in {"done", "spawned"} : pc' = [pc EXCEPT ![r] = to]
    BY <1>2 DEF DispatchSkip, DispatchSpawn, Dequeue, NextOut
  <2>. QED  BY <2>1, MapMove DEF PhaseOf, TypeOK
<1>3. ASSUME NEW r \in Requests, KilledUnstarted(r) \/ StartSuppress(r) \/ Cleanup(r)
      PROVE  Mapped
  <2>1. \/ pc[r] = "spawned" /\ pc' = [pc EXCEPT ![r] = "returned"]
        \/ pc[r] = "returned" /\ pc' = [pc EXCEPT ![r] = "done"]
    BY <1>3 DEF KilledUnstarted, StartSuppress, Cleanup, StartsNow
  <2>. QED  BY <2>1, MapMove DEF PhaseOf, TypeOK
<1>4. ASSUME NEW u \in Users, pc[u] \in {"new", "spawned", "lockwait"},
             TakeLock(u) \/ JoinLock(u)
      PROVE  Mapped
  <2>1. \/ pc' = [pc EXCEPT ![u] = "lockwait"]
        \/ owner[Session[u]] = Nobody /\ pc' = [pc EXCEPT ![u] = "running"]
    BY <1>4 DEF TakeLock, JoinLock
  <2>. QED  BY <1>4, <2>1, MapMove DEF PhaseOf, TypeOK
<1>5. ASSUME NEW r \in Requests, NEW new \in {{}} \cup {{i} : i \in Injects},
             EndTurn(r, new), pc[r] \in {"lockwait", "running"}
      PROVE  Mapped
  <2>1. \A i \in new : i \in Users /\ pc[i] = "new" /\ i # r
    BY <1>5 DEF EndTurn, EndOf, Flush, Flushable
  <2>2. /\ pc'[r] = "returned"
        /\ \A v \in Users : v # r => \/ pc'[v] = pc[v]
                                     \/ pc[v] = "new" /\ pc'[v] = "queued"
    BY <1>5, <2>1 DEF EndTurn, EndOf
  <2>3. \A v \in Users : v # r => PhaseOf(pc'[v]) = PhaseOf(pc[v])
    BY <2>2 DEF PhaseOf
  <2>4. PhaseOf("returned") = "over" /\ PhaseOf(pc[r]) # "over"
    BY <1>5 DEF PhaseOf
  <2>. QED  BY <2>2, <2>3, <2>4, MapMove
<1>6. ASSUME NEW g \in Gates, GateLeave(g)
      PROVE  Mapped
  <2>1. pc[g] = "running" /\ pc' = [pc EXCEPT ![g] = "done"]
    BY <1>6 DEF GateLeave
  <2>. QED  BY <2>1, MapMove DEF PhaseOf, TypeOK
<1>7. ASSUME \/ \E s \in Sessions : CancelSession(s) \/ CancelReturns(s) \/ CancelTimesOut(s)
             \/ Start \/ Stop \/ \E q \in Submits : WaiterGivesUp(q)
      PROVE  Mapped
  BY <1>0, <1>7 DEF CancelSession, CancelReturns, CancelTimesOut, Start, Stop, StopBegins,
     StopDrained, StopEnds, KernelStep, WaiterGivesUp
<1>. QED
  BY <1>1, <1>2, <1>3, <1>4, <1>5, <1>6, <1>7
     DEF Next, RequestStep, GateStep, StartTurn, StartsNow, TakeLock, GateEnter,
         FinishTurn, FailTurn, AbortTurn, KilledWaiting

\* Whatever is cancelled, each session sees its turns one at a time, each at most once.
THEOREM SerialTurnsRefined == Spec => ImplementsSerialTurns
<1>1. Init => Turns!Init
  BY DEF Init, Turns!Init, PhaseOf, TurnPhase
<1>2. ASSUME IInv, [Next]_vars
      PROVE  Turns!Next \/ UNCHANGED TurnPhase
  <2>1. CASE Next
    BY <1>2, <2>1, MapStep
  <2>2. CASE UNCHANGED vars
    BY <2>2 DEF vars, TurnPhase
  <2>. QED  BY <1>2, <2>1, <2>2
<1>3. IInv /\ [Next]_vars => [Turns!Next]_TurnPhase
  BY <1>2
<1>. QED
  BY <1>1, <1>3, Invariance, PTL DEF Spec, ImplementsSerialTurns, Turns!Spec

-----------------------------------------------------------------------------
(* Order *)

\* A request q that r must not overtake is further than r, or ahead of it in the line
\* where both are: the queue, the ready list of the loop, the line for the lock.
Before(q, r) ==
    /\ pc[r] = "queued" => pc[q] # "queued" \/ q \in ahead[r]
    /\ pc[r] = "spawned" => /\ pc[q] # "queued"
                            /\ pc[q] # "spawned" \/ q \in ahead[r]
    /\ pc[r] = "lockwait" => /\ pc[q] \notin {"queued", "spawned"}
                             /\ pc[q] # "lockwait" \/ q \in ahead[r]
    /\ pc[r] = "running" => pc[q] \notin {"queued", "spawned", "lockwait"}

OrderKept ==
    \A r \in Requests : \A q \in seniors[r] :
       /\ q # r /\ Session[q] = Session[r] /\ pc[q] # "new" /\ pc[r] # "new"
       /\ Priority[q] <= Priority[r] => Before(q, r)

\* A request that goes on keeps ahead of its juniors; that it is behind its seniors where
\* it gets to is for each step to show.
LEMMA OrderMove ==
    ASSUME TypeOK, OrderKept, NEW u \in Users, NEW to \in Stations \ {"new"},
           pc' = [pc EXCEPT ![u] = to], seniors' = seniors,
           \A v \in Users \ {u} : ahead[v] \ {u} \subseteq ahead'[v],
           u \in Requests => \/ pc[u] = "queued" /\ to \in {"spawned", "done"}
                             \/ pc[u] = "spawned" /\ to \in {"lockwait", "running", "returned"}
                             \/ pc[u] = "lockwait" /\ to \in {"running", "returned"}
                             \/ pc[u] \in {"running", "returned"} /\ to \in {"returned", "done"},
           u \in Requests => \A q \in seniors[u] : Priority[q] <= Priority[u] => Before(q, u)'
    PROVE  OrderKept'
<1> SUFFICES ASSUME NEW r \in Requests, NEW q \in seniors[r]
             PROVE  /\ q # r /\ Session[q] = Session[r] /\ pc'[q] # "new" /\ pc'[r] # "new"
                    /\ Priority[q] <= Priority[r] => Before(q, r)'
  BY DEF OrderKept
<1>1. /\ q \in Requests /\ q # r /\ Session[q] = Session[r] /\ pc[q] # "new" /\ pc[r] # "new"
      /\ Priority[q] <= Priority[r] => Before(q, r)
  BY DEF OrderKept, TypeOK
<1>2. pc'[u] = to /\ \A v \in Users : v # u => pc'[v] = pc[v]
  BY DEF TypeOK
<1>3. pc'[q] # "new" /\ pc'[r] # "new"
  BY <1>1, <1>2
<1>4. ASSUME Priority[q] <= Priority[r] PROVE Before(q, r)'
  <2>1. CASE r = u
    BY <1>4, <2>1
  <2>2. CASE r # u /\ q = u
    <3>1. Before(q, r) /\ pc'[r] = pc[r] /\ pc'[q] = to
      BY <1>1, <1>2, <1>4, <2>2
    <3>. QED  BY <1>1, <2>2, <3>1 DEF Before
  <2>3. CASE r # u /\ q # u
    <3>1. Before(q, r) /\ pc'[r] = pc[r] /\ pc'[q] = pc[q]
      BY <1>1, <1>2, <1>4, <2>3
    <3>2. q \in ahead[r] => q \in ahead'[r]
      BY <2>3
    <3>. QED  BY <3>1, <3>2 DEF Before
  <2>. QED  BY <2>1, <2>2, <2>3
<1>. QED  BY <1>1, <1>3, <1>4

\* What is accepted goes behind all that is queued.
LEMMA OrderAccept ==
    ASSUME TypeOK, OrderKept, NEW gone \in SUBSET Users, NEW new \in SUBSET Requests,
           \A r \in new : pc[r] = "new" /\ pc'[r] = "queued" /\ r \notin gone,
           \A r \in gone : pc'[r] = "returned",
           \A v \in Users : v \notin gone \cup new => pc'[v] = pc[v],
           Requeue(gone, new, LineAt("queued")), Accepted(new)
    PROVE  OrderKept'
<1> SUFFICES ASSUME NEW r \in Requests, NEW q \in seniors'[r]
             PROVE  /\ q # r /\ Session[q] = Session[r] /\ pc'[q] # "new" /\ pc'[r] # "new"
                    /\ Priority[q] <= Priority[r] => Before(q, r)'
  BY DEF OrderKept
<1>1. CASE r \in new
  <2>1. q \in Requests /\ Session[q] = Session[r] /\ pc[q] \in Unfinished /\ q \notin new
    BY <1>1 DEF Accepted, At
  <2>2. pc'[q] # "new" /\ q # r /\ pc'[r] = "queued"
    BY <1>1, <2>1 DEF Unfinished
  <2>3. pc'[q] = "queued" => q \in ahead'[r]
    <3> SUFFICES ASSUME pc'[q] = "queued" PROVE q \in ahead'[r]
      OBVIOUS
    <3>1. q \notin gone /\ pc[q] = "queued"
      BY <2>1
    <3>2. q \in LineAt("queued") \ (gone \cup new)
      BY <2>1, <3>1 DEF LineAt
    <3>. QED  BY <1>1, <3>2 DEF Requeue
  <2>. QED  BY <2>1, <2>2, <2>3 DEF Before
<1>2. CASE r \notin new
  <2>1. q \in seniors[r]
    BY <1>2 DEF Accepted
  <2>2. /\ q \in Requests /\ q # r /\ Session[q] = Session[r] /\ pc[q] # "new" /\ pc[r] # "new"
        /\ Priority[q] <= Priority[r] => Before(q, r)
    BY <2>1 DEF OrderKept, TypeOK
  <2>3. q \notin new
    BY <2>2
  <2>4. /\ pc'[r] = pc[r] \/ pc'[r] = "returned"
        /\ pc'[q] = "returned" \/ (pc'[q] = pc[q] /\ q \notin gone)
    BY <1>2, <2>2, <2>3
  <2>5. q \in ahead[r] /\ q \notin gone => q \in ahead'[r]
    BY <1>2, <2>2, <2>3 DEF Requeue, TypeOK
  <2>. QED  BY <2>2, <2>4, <2>5 DEF Before
<1>. QED  BY <1>1, <1>2

LEMMA OrderStays ==
    ASSUME OrderKept, pc' = pc, ahead' = ahead, seniors' = seniors
    PROVE  OrderKept'
BY DEF OrderKept, Before

\* A request that takes the lock or joins the line for it has no senior left in the queue
\* or in the ready list, and takes it at once only if none is in the line.
LEMMA OrderJoin ==
    ASSUME TypeOK, OrderKept, NEW u \in Users, JoinLock(u), seniors' = seniors,
           u \in Requests => pc[u] = "spawned" /\ FirstInLine(u)
    PROVE  OrderKept'
<1>1. PICK to \in {"running", "lockwait"} :
         /\ pc' = [pc EXCEPT ![u] = to]
         /\ to = "running" => LockLine(Session[u]) = {} /\ Requeue({u}, {}, {})
         /\ to = "lockwait" => Requeue({u}, {u}, LockLine(Session[u]))
  BY DEF JoinLock
<1>2. \A v \in Users \ {u} : ahead[v] \ {u} \subseteq ahead'[v]
  BY <1>1 DEF Requeue
<1>3. ASSUME u \in Requests, NEW q \in seniors[u], Priority[q] <= Priority[u]
      PROVE  Before(q, u)'
  <2>1. q \in Requests /\ q # u /\ Session[q] = Session[u] /\ Before(q, u)
    BY <1>3 DEF OrderKept, TypeOK
  <2>2. pc[q] \notin {"queued", "spawned"} /\ pc'[q] = pc[q] /\ pc'[u] = to
    BY <1>1, <1>3, <2>1 DEF Before, FirstInLine, TypeOK
  <2>3. pc[q] = "lockwait" => q \in LockLine(Session[u])
    BY <2>1 DEF LockLine
  <2>4. CASE to = "running"
    BY <1>1, <2>2, <2>3, <2>4 DEF Before
  <2>5. CASE to = "lockwait"
    <3>1. pc[q] = "lockwait" => q \in ahead'[u]
      BY <1>1, <2>1, <2>3, <2>5 DEF Requeue
    <3>. QED  BY <2>2, <2>5, <3>1 DEF Before
  <2>. QED  BY <2>4, <2>5
<1>. QED  BY <1>1, <1>2, <1>3, OrderMove DEF Stations

LEMMA OrderStep == IInv /\ OrderKept /\ [Next]_vars => OrderKept'
<1> SUFFICES ASSUME IInv, OrderKept, [Next]_vars PROVE OrderKept'
  OBVIOUS
<1> USE SchedulerAssumption DEF IInv
<1>1. ASSUME NEW r \in Requests, Submit(r) \/ InjectTurn(r)
      PROVE  OrderKept'
  <2>1. Enqueue(r)
    BY <1>1 DEF Submit, InjectTurn
  <2>. QED  BY <2>1, OrderAccept DEF Enqueue, TypeOK
\* The head of the queue has no senior in it.
<1>2. ASSUME NEW r \in Requests, DispatchSkip(r) \/ DispatchSpawn(r)
      PROVE  OrderKept'
  <2>1. PICK to \in {"done", "spawned"} :
           /\ NextOut(r) /\ pc' = [pc EXCEPT ![r] = to] /\ seniors' = seniors
           /\ Requeue({r}, IF to = "done" THEN {} ELSE {r},
                      IF to = "done" THEN {} ELSE LineAt("spawned"))
    BY <1>2 DEF DispatchSkip, DispatchSpawn, Dequeue
  <2>2. \A v \in Users \ {r} : ahead[v] \ {r} \subseteq ahead'[v]
    BY <2>1 DEF Requeue
  <2>3. ASSUME NEW q \in seniors[r], Priority[q] <= Priority[r] PROVE Before(q, r)'
    <3>1. q \in Requests /\ q # r /\ Before(q, r) /\ pc[r] = "queued"
      BY <2>1, <2>3 DEF OrderKept, TypeOK, NextOut
    <3>2. pc[q] # "queued"
      <4> SUFFICES ASSUME pc[q] = "queued" PROVE FALSE
        OBVIOUS
      <4>1. q \in LineAt("queued") \ {r} /\ q \in ahead[r]
        BY <3>1 DEF LineAt, Before
      <4>2. Priority[r] < Priority[q] /\ Priority[r] \in Int /\ Priority[q] \in Int
        BY <2>1, <2>3, <3>1, <4>1 DEF NextOut
      <4>. QED  BY <2>3, <4>2
    <3>3. pc'[q] = pc[q] /\ pc'[r] = to
      BY <2>1, <3>1 DEF TypeOK
    <3>4. to = "spawned" /\ pc[q] = "spawned" => q \in ahead'[r]
      BY <2>1, <3>1 DEF Requeue, LineAt
    <3>. QED  BY <3>2, <3>3, <3>4 DEF Before
  <2>. QED  BY <2>1, <2>2, <2>3, OrderMove DEF NextOut, Stations
<1>3. ASSUME NEW r \in Requests, KilledUnstarted(r) \/ StartSuppress(r) \/ Cleanup(r)
      PROVE  OrderKept'
  <2>1. PICK to \in {"returned", "done"} :
           /\ pc' = [pc EXCEPT ![r] = to] /\ seniors' = seniors
           /\ \/ pc[r] = "spawned" /\ to = "returned"
              \/ pc[r] = "returned" /\ to = "done"
           /\ ahead' = ahead \/ Requeue({r}, {}, {})
    BY <1>3 DEF KilledUnstarted, StartSuppress, Cleanup, StartsNow
  <2>2. \A v \in Users \ {r} : ahead[v] \ {r} \subseteq ahead'[v]
    BY <2>1 DEF Requeue
  <2>3. \A q : Before(q, r)'
    BY <2>1 DEF Before, TypeOK
  <2>. QED  BY <2>1, <2>2, <2>3, OrderMove DEF Stations
<1>4. ASSUME NEW r \in Requests, StartTurn(r)
      PROVE  OrderKept'
  BY <1>4, OrderJoin DEF StartTurn, StartsNow
<1>5. ASSUME NEW g \in Gates, GateEnter(g)
      PROVE  OrderKept'
  BY <1>5, OrderJoin DEF GateEnter
\* The lock is handed to the first of the line.
<1>6. ASSUME NEW u \in Users, TakeLock(u)
      PROVE  OrderKept'
  <2>1. /\ pc' = [pc EXCEPT ![u] = "running"] /\ seniors' = seniors
        /\ pc[u] = "lockwait" /\ ahead[u] = {} /\ Requeue({u}, {}, {})
    BY <1>6 DEF TakeLock, FirstInLine
  <2>2. \A v \in Users \ {u} : ahead[v] \ {u} \subseteq ahead'[v]
    BY <2>1 DEF Requeue
  <2>3. ASSUME u \in Requests, NEW q \in seniors[u], Priority[q] <= Priority[u]
        PROVE  Before(q, u)'
    <3>1. q \in Requests /\ q # u /\ Before(q, u)
      BY <2>3 DEF OrderKept, TypeOK
    <3>2. pc[q] \notin {"queued", "spawned", "lockwait"}
      BY <2>1, <3>1 DEF Before
    <3>. QED  BY <2>1, <3>1, <3>2 DEF Before, TypeOK
  <2>. QED  BY <2>1, <2>2, <2>3, OrderMove DEF Stations
<1>7. ASSUME NEW g \in Gates, GateLeave(g)
      PROVE  OrderKept'
  <2>1. pc' = [pc EXCEPT ![g] = "done"] /\ ahead' = ahead /\ seniors' = seniors
    BY <1>7 DEF GateLeave
  <2>. QED  BY <2>1, OrderMove DEF Stations
<1>8. ASSUME NEW r \in Requests, NEW new \in {{}} \cup {{i} : i \in Injects}, EndTurn(r, new),
             pc[r] \in {"running", "lockwait"}
      PROVE  OrderKept'
  <2>1. \A i \in new : i \in Requests /\ pc[i] = "new"
    BY <1>8 DEF EndTurn, EndOf, Flush, Flushable
  <2>2. /\ pc' = [u \in Users |-> IF u = r THEN "returned"
                                  ELSE IF u \in new THEN "queued" ELSE pc[u]]
        /\ Requeue({r}, new, LineAt("queued")) /\ Accepted(new)
    BY <1>8 DEF EndTurn, EndOf
  <2>3. /\ \A i \in new : pc'[i] = "queued" /\ i \notin {r}
        /\ pc'[r] = "returned"
        /\ \A v \in Users : v \notin {r} \cup new => pc'[v] = pc[v]
    BY <1>8, <2>1, <2>2
  <2>. QED  BY <2>1, <2>2, <2>3, OrderAccept
<1>9. ASSUME \/ \E s \in Sessions : CancelSession(s) \/ CancelReturns(s) \/ CancelTimesOut(s)
             \/ Start \/ Stop \/ (\E r \in Submits : WaiterGivesUp(r)) \/ UNCHANGED vars
      PROVE  OrderKept'
  <2>1. pc' = pc /\ ahead' = ahead /\ seniors' = seniors
    BY <1>9 DEF CancelSession, CancelReturns, CancelTimesOut, Start, Stop, StopBegins,
       StopDrained, StopEnds, KernelStep, WaiterGivesUp, vars
  <2>. QED  BY <2>1, OrderStays
<1>. QED
  BY <1>1, <1>2, <1>3, <1>4, <1>5, <1>6, <1>7, <1>8, <1>9
     DEF Next, RequestStep, GateStep, FinishTurn, FailTurn, AbortTurn, KilledWaiting

\* Only a request that begins its turn gets the lock.
LEMMA OwnerStep ==
    ASSUME IInv, Next, NEW s \in Sessions, owner'[s] # owner[s], owner'[s] \in Requests
    PROVE  /\ pc'[owner'[s]] = "running" /\ seniors' = seniors
           /\ \A v \in Users : v # owner'[s] => pc'[v] = pc[v]
<1> DEFINE Begins == /\ pc'[owner'[s]] = "running" /\ seniors' = seniors
                     /\ \A v \in Users : v # owner'[s] => pc'[v] = pc[v]
<1> USE SchedulerAssumption DEF IInv, TypeOK
<1>1. ASSUME NEW u \in Users, TakeLock(u) \/ (JoinLock(u) /\ seniors' = seniors)
      PROVE  Begins
  BY <1>1 DEF TakeLock, JoinLock
<1>2. ASSUME NEW r \in Requests, NEW new \in {{}} \cup {{i} : i \in Injects}, EndTurn(r, new)
      PROVE  FALSE
  BY <1>2 DEF EndTurn, EndOf
<1>3. ASSUME NEW g \in Gates, GateLeave(g)
      PROVE  FALSE
  BY <1>3 DEF GateLeave
<1>4. ASSUME owner' = owner
      PROVE  FALSE
  BY <1>4
<1>5. ASSUME NEW r \in Requests,
             \/ Submit(r) \/ InjectTurn(r) \/ DispatchSkip(r) \/ DispatchSpawn(r)
             \/ KilledUnstarted(r) \/ StartSuppress(r) \/ Cleanup(r)
      PROVE  FALSE
  BY <1>4, <1>5 DEF Submit, InjectTurn, Enqueue, DispatchSkip, DispatchSpawn, Dequeue,
     KilledUnstarted, StartSuppress, Cleanup, lockVars
<1>6. ASSUME \/ \E t \in Sessions : CancelSession(t) \/ CancelReturns(t) \/ CancelTimesOut(t)
             \/ Start \/ Stop \/ \E r \in Submits : WaiterGivesUp(r)
      PROVE  FALSE
  BY <1>4, <1>6 DEF CancelSession, CancelReturns, CancelTimesOut, Start, Stop, StopBegins,
     StopDrained, StopEnds, KernelStep, WaiterGivesUp, lockVars
<1>7. ASSUME NEW r \in Requests, StartTurn(r)
      PROVE  JoinLock(r) /\ seniors' = seniors
  BY <1>7 DEF StartTurn
<1>8. ASSUME NEW g \in Gates, GateEnter(g)
      PROVE  JoinLock(g) /\ seniors' = seniors
  BY <1>8 DEF GateEnter
<1>. QED
  BY <1>1, <1>2, <1>3, <1>5, <1>6, <1>7, <1>8
     DEF Next, RequestStep, GateStep, FinishTurn, FailTurn, AbortTurn, KilledWaiting

\* Inside a session a request never overtakes an older one of the same or higher urgency,
\* in the queue, in the ready list or in the line for the lock.
THEOREM NobodyOvertakes == Spec => NoOvertaking
<1> DEFINE Fair(s) == owner'[s] # owner[s] /\ owner'[s] \in Requests =>
                        \A q \in seniors[owner'[s]] :
                           Priority[q] <= Priority[owner'[s]] =>
                              pc[q] \notin {"queued", "spawned", "lockwait"}
<1>1. Init => OrderKept
  BY DEF Init, OrderKept
<1>2. Spec => []OrderKept
  BY <1>1, OrderStep, Invariance, PTL DEF Spec
<1>3. ASSUME IInv, OrderKept', Next PROVE \A s \in Sessions : Fair(s)
  <2> SUFFICES ASSUME NEW s \in Sessions, owner'[s] # owner[s], NEW r \in Requests,
                      r = owner'[s], NEW q \in seniors[r], Priority[q] <= Priority[r]
               PROVE  pc[q] \notin {"queued", "spawned", "lockwait"}
    OBVIOUS
  <2>1. pc'[r] = "running" /\ seniors' = seniors /\ \A v \in Users : v # r => pc'[v] = pc[v]
    BY <1>3, OwnerStep
  <2>2. q \in Requests /\ q # r /\ Before(q, r)'
    BY <1>3, <2>1 DEF OrderKept, IInv, TypeOK
  <2>. QED  BY <2>1, <2>2 DEF Before
<1>4. IInv /\ OrderKept' /\ [Next]_vars => [\A s \in Sessions : Fair(s)]_vars
  BY <1>3
<1>5. Spec => [][\A s \in Sessions : Fair(s)]_vars
  BY <1>2, <1>4, Invariance, PTL DEF Spec
<1>. QED  BY <1>5 DEF NoOvertaking
=============================================================================
