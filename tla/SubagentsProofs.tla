-------------------------- MODULE SubagentsProofs --------------------------
(* What holds of Subagents for any number of subagents, turns, waits and     *)
(* cancellations: the types, and that no end gets lost or is told twice,     *)
(* that subs can be found until they are reaped, and that ends are final.    *)
EXTENDS Subagents, TLAPS

\* How the stage of the background task and the status of the entry go together.
StagesAgree ==
    \A s \in Subs :
        /\ bg[s] = "none" <=> status[s] = "none"
        /\ bg[s] \in {"opening", "waiting", "answered", "stopping"} =>
              status[s] = "running" /\ s \notin unwanted
        /\ bg[s] = "unwinding" => s \in unwanted
        /\ bg[s] \in {"ended", "evicting", "done"} /\ s \notin unwanted =>
              status[s] \in {"completed", "failed"}
        /\ bg[s] = "ended" => s \notin unwanted
        /\ s \in unwanted => status[s] \in {"running", "cancelled"}

\* A waiter is that of the wait in progress, or an abandoned one.
WaitersBelong ==
    \A s \in waiters : ~HasEnded(s) /\ (Blocked(s) \/ s \in abandoned)

\* What the tool of the running turn knows.
ToolKnows ==
    /\ \A s \in Subs : Blocked(s) /\ s \notin waiters => HasEnded(s)
    /\ tool.kind = "cancel" => tool.subs \subseteq unwanted

\* Marks, records and reports are only made of ends, marks of ends that were shown.
RecordsTrue ==
    /\ waited \subseteq heard
    /\ \A s \in Stale : HasEnded(s)
    /\ told \subseteq Stale
    /\ \A s \in Subs : req[s] # "idle" => HasEnded(s)
    /\ \A s \in Subs : req[s] = "running" => s \in heard

\* What is reaped when nothing of it is left stays away.
GoneIsGone ==
    \A s \in reaped \ revivable :
        bg[s] = "done" /\ s \notin Findable \cup closing

IInv ==
    /\ TypeOK
    /\ StagesAgree
    /\ WaitersBelong
    /\ ToolKnows
    /\ RecordsTrue
    /\ GoneIsGone
    /\ FindableUntilReaped
    /\ EndsAnnounced
    /\ NotToldTwice

Stations == {"idle", "pending", "queued", "started", "running", "over"}

\* A flush neither starts nor ends a turn.
LEMMA FlushedKeepsTurns ==
  ASSUME NEW stations \in [Requests -> Stations]
  PROVE  /\ Flushed(stations) \in [Requests -> Stations]
         /\ \A r \in Requests : Flushed(stations)[r] = "running" <=> stations[r] = "running"
BY DEF Flushed, Stations

LEMMA InitInvariant == Init => IInv
<1> SUFFICES ASSUME Init
             PROVE  IInv
  OBVIOUS
<1> USE SubagentsAssumption DEF Init, Requests, Ended, HasEnded, NoTool, Stale, Findable, Blocked
<1>1. TypeOK
  <2>1. Running = {} /\ tool = [kind |-> "none", subs |-> {}]
    BY DEF Running
  <2>2. tool \in [kind : {"none", "any", "all", "cancel"}, subs : SUBSET Subs]
    BY <2>1
  <2>3. waits \in 0..MaxWaits /\ cancels \in 0..MaxCancels
    OBVIOUS
  <2>4. QED
    BY <2>1, <2>2, <2>3 DEF TypeOK
<1>2. StagesAgree /\ WaitersBelong /\ ToolKnows
  BY DEF StagesAgree, WaitersBelong, ToolKnows
<1>3. RecordsTrue /\ GoneIsGone
  BY DEF RecordsTrue, GoneIsGone
<1>4. FindableUntilReaped /\ EndsAnnounced /\ NotToldTwice
  BY DEF FindableUntilReaped, EndsAnnounced, NotToldTwice
<1>5. QED
  BY <1>1, <1>2, <1>3, <1>4 DEF IInv

\* Types, one running turn, a tool only while it runs.
LEMMA TypeKept ==
  ASSUME IInv, [Next]_vars
  PROVE  TypeOK'
<1> USE SubagentsAssumption DEF vars, entryVars, taskVars, noticeVars, parentVars, boundVars, historyVars,
          TypeOK, Requests, Running, NoTool, HasEnded, Ended
<1>0. TypeOK /\ StagesAgree /\ RecordsTrue
  BY DEF IInv
<1>1. ASSUME NEW t \in Turns, UserSends(t)
      PROVE  TypeOK'
  BY <1>0, <1>1 DEF UserSends
<1>2. ASSUME NEW r \in Requests, DispatchDrops(r)
      PROVE  TypeOK'
  BY <1>0, <1>2 DEF DispatchDrops, MarkAfter
<1>3. ASSUME NEW r \in Requests, Dispatch(r)
      PROVE  TypeOK'
  BY <1>0, <1>3 DEF Dispatch
<1>4. ASSUME NEW r \in Requests, TurnBegins(r)
      PROVE  TypeOK'
  BY <1>0, <1>4 DEF TurnBegins
<1>5. ASSUME NEW r \in Requests, TurnEnds(r)
      PROVE  TypeOK'
  <2> DEFINE left == [req EXCEPT ![r] = "over"]
  <2>1. left \in [Requests -> Stations]
    BY <1>0 DEF Stations
  <2>2. req' = left \/ req' = Flushed(left)
    BY <1>5 DEF TurnEnds, Leaves
  <2>3. /\ req' \in [Requests -> Stations]
        /\ \A q \in Requests : req'[q] = "running" <=> left[q] = "running"
    BY <2>1, <2>2, FlushedKeepsTurns
  <2>4. Running' = Running \ {r}
    BY <1>0, <2>3
  <2>5. tool' = (IF r \in Running THEN NoTool ELSE tool)
    BY <1>5 DEF TurnEnds, Leaves
  <2>6. tool' # NoTool => Running' # {}
    BY <1>0, <2>4, <2>5
  <2>7. \A p, q \in Running' : p = q
    BY <1>0, <2>4
  <2>8. marked' \in BOOLEAN /\ tool' \in [kind : {"none", "any", "all", "cancel"}, subs : SUBSET Subs]
    BY <1>0, <1>5 DEF TurnEnds, Leaves, MarkAfter
  <2>9. QED
    BY <1>0, <1>5, <2>3, <2>6, <2>7, <2>8 DEF TurnEnds, Leaves, Stations
<1>6. CASE CancelParent
  BY <1>0, <1>6 DEF CancelParent, InflightIn
<1>7. CASE WaitAny
  BY <1>0, <1>7 DEF WaitAny, Reports
<1>8. CASE WaitAll
  BY <1>0, <1>8 DEF WaitAll, Reports
<1>9. CASE WaitTimesOut
  BY <1>0, <1>9 DEF WaitTimesOut
<1>10. ASSUME NEW s \in Subs, CancelEnds(s)
      PROVE  TypeOK'
  BY <1>0, <1>10 DEF CancelEnds, MarkCancelled
<1>11. ASSUME NEW kind \in {"any", "all"}, NEW subs \in SUBSET Subs, WaitBegins(kind, subs)
      PROVE  TypeOK'
  BY <1>0, <1>11 DEF WaitBegins, ToolCall
<1>12. ASSUME NEW s \in Subs, CreateSub(s)
      PROVE  TypeOK'
  BY <1>0, <1>12 DEF CreateSub, ToolCall
<1>13. ASSUME NEW s \in Subs, BgSubmits(s)
      PROVE  TypeOK'
  BY <1>0, <1>13 DEF BgSubmits
<1>14. ASSUME NEW s \in Subs, SubTurnStarts(s)
      PROVE  TypeOK'
  BY <1>0, <1>14 DEF SubTurnStarts
<1>15. ASSUME NEW s \in Subs, SubTurnEnds(s)
      PROVE  TypeOK'
  BY <1>0, <1>15 DEF SubTurnEnds
<1>16. ASSUME NEW s \in Subs, NEW end \in {"completed", "failed"}, BgEnds(s, end)
      PROVE  TypeOK'
  <2> DEFINE staged == [req EXCEPT ![s] = "pending"]
  <2>1. staged \in [Requests -> Stations]
    BY <1>0 DEF Stations
  <2>2. req' = req \/ req' = staged \/ req' = Flushed(staged)
    BY <1>16 DEF BgEnds, Announce, Staged
  <2>3. /\ req' \in [Requests -> Stations]
        /\ \/ req' = req
           \/ \A q \in Requests : req'[q] = "running" <=> staged[q] = "running"
    <3>1. CASE req' = req
      BY <1>0, <3>1 DEF Stations
    <3>2. CASE req' = staged
      BY <2>1, <3>2
    <3>3. CASE req' = Flushed(staged)
      BY <2>1, <3>3, FlushedKeepsTurns
    <3>4. QED
      BY <2>2, <3>1, <3>2, <3>3
  <2>4. req[s] # "running"
    BY <1>0, <1>16 DEF BgEnds, StagesAgree, RecordsTrue
  <2>5. Running' = Running
    <3>1. \A q \in Requests : staged[q] = "running" <=> req[q] = "running"
      BY <1>0, <2>4
    <3>2. QED
      BY <2>3, <3>1
  <2>6. bg' = [bg EXCEPT ![s] = "ended"] /\ waiters' \subseteq waiters
    BY <1>16 DEF BgEnds, Announce
  <2>7. status' \in [Subs -> {"none", "running", "completed", "failed", "cancelled"}]
    BY <1>0, <1>16 DEF BgEnds
  <2>8. UNCHANGED <<pooled, zombies, closing, reused, task, waited, reaped, killed, marked,
                    tool, waits, cancels, heard, told, abandoned, dropped, unwanted, revivable>>
    BY <1>16 DEF BgEnds
  <2>9. QED
    BY <1>0, <2>3, <2>5, <2>6, <2>7, <2>8 DEF Stations
<1>17. ASSUME NEW s \in Subs, EvictBegins(s)
      PROVE  TypeOK'
  BY <1>0, <1>17 DEF EvictBegins
<1>18. ASSUME NEW s \in Subs, EvictEnds(s)
      PROVE  TypeOK'
  BY <1>0, <1>18 DEF EvictEnds
<1>19. ASSUME NEW s \in Subs, IdleEvictEnds(s)
      PROVE  TypeOK'
  BY <1>0, <1>19 DEF IdleEvictEnds
<1>20. ASSUME NEW s \in Subs, BgTimesOut(s)
      PROVE  TypeOK'
  BY <1>0, <1>20 DEF BgTimesOut, Stopped
<1>21. ASSUME NEW s \in Subs, Reacquire(s)
      PROVE  TypeOK'
  BY <1>0, <1>21 DEF Reacquire
<1>22. ASSUME NEW s \in Subs, IdleEvict(s)
      PROVE  TypeOK'
  BY <1>0, <1>22 DEF IdleEvict
<1>23. ASSUME NEW s \in Subs, CancelBegins(s)
      PROVE  TypeOK'
  BY <1>0, <1>23 DEF CancelBegins, CancelTask, MarkCancelled, Stopped, ToolCall
<1>24. ASSUME NEW s \in Subs, ReapCall(s)
      PROVE  TypeOK'
  BY <1>0, <1>24 DEF ReapCall, Reap, ToolCall
<1>25. ASSUME NEW s \in Subs, ReapStale(s)
      PROVE  TypeOK'
  BY <1>0, <1>25 DEF ReapStale, Reap
<1>26. CASE UNCHANGED vars
  BY <1>0, <1>26
<1>27. QED
  BY <1>1, <1>2, <1>3, <1>4, <1>5, <1>6, <1>7, <1>8, <1>9, <1>10, <1>11, <1>12, <1>13, <1>14, <1>15, <1>16, <1>17, <1>18, <1>19, <1>20, <1>21, <1>22, <1>23, <1>24, <1>25, <1>26 DEF Next, ParentStep, BackgroundStep, ToolReturns

\* The stages of the background task.
LEMMA StagesKept ==
  ASSUME IInv, [Next]_vars
  PROVE  StagesAgree'
<1> USE SubagentsAssumption DEF vars, entryVars, taskVars, noticeVars, parentVars, boundVars, historyVars,
          TypeOK, StagesAgree, RecordsTrue, ToolKnows, FindableUntilReaped, HasEnded, Ended, Stale, NoTool
<1>0. TypeOK /\ StagesAgree /\ RecordsTrue /\ ToolKnows /\ FindableUntilReaped
  BY DEF IInv
<1>1. ASSUME NEW t \in Turns, UserSends(t)
      PROVE  StagesAgree'
  BY <1>0, <1>1 DEF UserSends
<1>2. ASSUME NEW r \in Requests, DispatchDrops(r)
      PROVE  StagesAgree'
  BY <1>0, <1>2 DEF DispatchDrops, MarkAfter
<1>3. ASSUME NEW r \in Requests, Dispatch(r)
      PROVE  StagesAgree'
  BY <1>0, <1>3 DEF Dispatch
<1>4. ASSUME NEW r \in Requests, TurnBegins(r)
      PROVE  StagesAgree'
  BY <1>0, <1>4 DEF TurnBegins
<1>5. ASSUME NEW r \in Requests, TurnEnds(r)
      PROVE  StagesAgree'
  BY <1>0, <1>5 DEF TurnEnds, Leaves, MayLeave, Flushed, MarkAfter
<1>6. CASE CancelParent
  BY <1>0, <1>6 DEF CancelParent, InflightIn
<1>7. CASE WaitAny
  BY <1>0, <1>7 DEF WaitAny, Reports
<1>8. CASE WaitAll
  BY <1>0, <1>8 DEF WaitAll, Reports
<1>9. CASE WaitTimesOut
  BY <1>0, <1>9 DEF WaitTimesOut
<1>10. ASSUME NEW s \in Subs, CancelEnds(s)
      PROVE  StagesAgree'
  BY <1>0, <1>10 DEF CancelEnds, MarkCancelled
<1>11. ASSUME NEW kind \in {"any", "all"}, NEW subs \in SUBSET Subs, WaitBegins(kind, subs)
      PROVE  StagesAgree'
  BY <1>0, <1>11 DEF WaitBegins, ToolCall
<1>12. ASSUME NEW s \in Subs, CreateSub(s)
      PROVE  StagesAgree'
  BY <1>0, <1>12 DEF CreateSub, ToolCall
<1>13. ASSUME NEW s \in Subs, BgSubmits(s)
      PROVE  StagesAgree'
  BY <1>0, <1>13 DEF BgSubmits
<1>14. ASSUME NEW s \in Subs, SubTurnStarts(s)
      PROVE  StagesAgree'
  BY <1>0, <1>14 DEF SubTurnStarts
<1>15. ASSUME NEW s \in Subs, SubTurnEnds(s)
      PROVE  StagesAgree'
  BY <1>0, <1>15 DEF SubTurnEnds
<1>16. ASSUME NEW s \in Subs, NEW end \in {"completed", "failed"}, BgEnds(s, end)
      PROVE  StagesAgree'
  BY <1>0, <1>16 DEF BgEnds, Announce, Staged, Flushed
<1>17. ASSUME NEW s \in Subs, EvictBegins(s)
      PROVE  StagesAgree'
  BY <1>0, <1>17 DEF EvictBegins
<1>18. ASSUME NEW s \in Subs, EvictEnds(s)
      PROVE  StagesAgree'
  BY <1>0, <1>18 DEF EvictEnds
<1>19. ASSUME NEW s \in Subs, IdleEvictEnds(s)
      PROVE  StagesAgree'
  BY <1>0, <1>19 DEF IdleEvictEnds
<1>20. ASSUME NEW s \in Subs, BgTimesOut(s)
      PROVE  StagesAgree'
  BY <1>0, <1>20 DEF BgTimesOut, Stopped
<1>21. ASSUME NEW s \in Subs, Reacquire(s)
      PROVE  StagesAgree'
  BY <1>0, <1>21 DEF Reacquire
<1>22. ASSUME NEW s \in Subs, IdleEvict(s)
      PROVE  StagesAgree'
  BY <1>0, <1>22 DEF IdleEvict
<1>23. ASSUME NEW s \in Subs, CancelBegins(s)
      PROVE  StagesAgree'
  BY <1>0, <1>23 DEF CancelBegins, CancelTask, MarkCancelled, Stopped, ToolCall
<1>24. ASSUME NEW s \in Subs, ReapCall(s)
      PROVE  StagesAgree'
  BY <1>0, <1>24 DEF ReapCall, Reap, ToolCall
<1>25. ASSUME NEW s \in Subs, ReapStale(s)
      PROVE  StagesAgree'
  BY <1>0, <1>25 DEF ReapStale, Reap
<1>26. CASE UNCHANGED vars
  BY <1>0, <1>26
<1>27. QED
  BY <1>1, <1>2, <1>3, <1>4, <1>5, <1>6, <1>7, <1>8, <1>9, <1>10, <1>11, <1>12, <1>13, <1>14, <1>15, <1>16, <1>17, <1>18, <1>19, <1>20, <1>21, <1>22, <1>23, <1>24, <1>25, <1>26 DEF Next, ParentStep, BackgroundStep, ToolReturns

\* Waiters and what the running tool knows.
LEMMA WaitersKept ==
  ASSUME IInv, [Next]_vars
  PROVE  (WaitersBelong /\ ToolKnows)'
<1> USE SubagentsAssumption DEF vars, entryVars, taskVars, noticeVars, parentVars, boundVars, historyVars,
          TypeOK, StagesAgree, WaitersBelong, ToolKnows, HasEnded, Ended, Blocked, NoTool
<1>0. TypeOK /\ StagesAgree /\ WaitersBelong /\ ToolKnows
  BY DEF IInv
<1>1. ASSUME NEW t \in Turns, UserSends(t)
      PROVE  (WaitersBelong /\ ToolKnows)'
  BY <1>0, <1>1 DEF UserSends
<1>2. ASSUME NEW r \in Requests, DispatchDrops(r)
      PROVE  (WaitersBelong /\ ToolKnows)'
  BY <1>0, <1>2 DEF DispatchDrops, MarkAfter
<1>3. ASSUME NEW r \in Requests, Dispatch(r)
      PROVE  (WaitersBelong /\ ToolKnows)'
  BY <1>0, <1>3 DEF Dispatch
<1>4. ASSUME NEW r \in Requests, TurnBegins(r)
      PROVE  (WaitersBelong /\ ToolKnows)'
  BY <1>0, <1>4 DEF TurnBegins
<1>5. ASSUME NEW r \in Requests, TurnEnds(r)
      PROVE  (WaitersBelong /\ ToolKnows)'
  BY <1>0, <1>5 DEF TurnEnds, Leaves, MayLeave, Flushed, MarkAfter
<1>6. CASE CancelParent
  BY <1>0, <1>6 DEF CancelParent, InflightIn
<1>7. CASE WaitAny
  BY <1>0, <1>7 DEF WaitAny, Reports
<1>8. CASE WaitAll
  BY <1>0, <1>8 DEF WaitAll, Reports
<1>9. CASE WaitTimesOut
  BY <1>0, <1>9 DEF WaitTimesOut
<1>10. ASSUME NEW s \in Subs, CancelEnds(s)
      PROVE  (WaitersBelong /\ ToolKnows)'
  BY <1>0, <1>10 DEF CancelEnds, MarkCancelled
<1>11. ASSUME NEW kind \in {"any", "all"}, NEW subs \in SUBSET Subs, WaitBegins(kind, subs)
      PROVE  (WaitersBelong /\ ToolKnows)'
  BY <1>0, <1>11 DEF WaitBegins, ToolCall
<1>12. ASSUME NEW s \in Subs, CreateSub(s)
      PROVE  (WaitersBelong /\ ToolKnows)'
  BY <1>0, <1>12 DEF CreateSub, ToolCall
<1>13. ASSUME NEW s \in Subs, BgSubmits(s)
      PROVE  (WaitersBelong /\ ToolKnows)'
  BY <1>0, <1>13 DEF BgSubmits
<1>14. ASSUME NEW s \in Subs, SubTurnStarts(s)
      PROVE  (WaitersBelong /\ ToolKnows)'
  BY <1>0, <1>14 DEF SubTurnStarts
<1>15. ASSUME NEW s \in Subs, SubTurnEnds(s)
      PROVE  (WaitersBelong /\ ToolKnows)'
  BY <1>0, <1>15 DEF SubTurnEnds
<1>16. ASSUME NEW s \in Subs, NEW end \in {"completed", "failed"}, BgEnds(s, end)
      PROVE  (WaitersBelong /\ ToolKnows)'
  BY <1>0, <1>16 DEF BgEnds, Announce, Staged, Flushed
<1>17. ASSUME NEW s \in Subs, EvictBegins(s)
      PROVE  (WaitersBelong /\ ToolKnows)'
  BY <1>0, <1>17 DEF EvictBegins
<1>18. ASSUME NEW s \in Subs, EvictEnds(s)
      PROVE  (WaitersBelong /\ ToolKnows)'
  BY <1>0, <1>18 DEF EvictEnds
<1>19. ASSUME NEW s \in Subs, IdleEvictEnds(s)
      PROVE  (WaitersBelong /\ ToolKnows)'
  BY <1>0, <1>19 DEF IdleEvictEnds
<1>20. ASSUME NEW s \in Subs, BgTimesOut(s)
      PROVE  (WaitersBelong /\ ToolKnows)'
  BY <1>0, <1>20 DEF BgTimesOut, Stopped
<1>21. ASSUME NEW s \in Subs, Reacquire(s)
      PROVE  (WaitersBelong /\ ToolKnows)'
  BY <1>0, <1>21 DEF Reacquire
<1>22. ASSUME NEW s \in Subs, IdleEvict(s)
      PROVE  (WaitersBelong /\ ToolKnows)'
  BY <1>0, <1>22 DEF IdleEvict
<1>23. ASSUME NEW s \in Subs, CancelBegins(s)
      PROVE  (WaitersBelong /\ ToolKnows)'
  BY <1>0, <1>23 DEF CancelBegins, CancelTask, MarkCancelled, Stopped, ToolCall
<1>24. ASSUME NEW s \in Subs, ReapCall(s)
      PROVE  (WaitersBelong /\ ToolKnows)'
  BY <1>0, <1>24 DEF ReapCall, Reap, ToolCall
<1>25. ASSUME NEW s \in Subs, ReapStale(s)
      PROVE  (WaitersBelong /\ ToolKnows)'
  BY <1>0, <1>25 DEF ReapStale, Reap
<1>26. CASE UNCHANGED vars
  BY <1>0, <1>26
<1>27. QED
  BY <1>1, <1>2, <1>3, <1>4, <1>5, <1>6, <1>7, <1>8, <1>9, <1>10, <1>11, <1>12, <1>13, <1>14, <1>15, <1>16, <1>17, <1>18, <1>19, <1>20, <1>21, <1>22, <1>23, <1>24, <1>25, <1>26 DEF Next, ParentStep, BackgroundStep, ToolReturns

\* Marks and records.
LEMMA RecordsKept ==
  ASSUME IInv, [Next]_vars
  PROVE  RecordsTrue'
<1> USE SubagentsAssumption DEF vars, entryVars, taskVars, noticeVars, parentVars, boundVars, historyVars,
          TypeOK, Requests, StagesAgree, WaitersBelong, ToolKnows, RecordsTrue, HasEnded, Ended, Blocked, NoTool, Stale
<1>0. TypeOK /\ StagesAgree /\ WaitersBelong /\ ToolKnows /\ RecordsTrue
  BY DEF IInv
<1>1. ASSUME NEW t \in Turns, UserSends(t)
      PROVE  RecordsTrue'
  BY <1>0, <1>1 DEF UserSends
<1>2. ASSUME NEW r \in Requests, DispatchDrops(r)
      PROVE  RecordsTrue'
  BY <1>0, <1>2 DEF DispatchDrops, MarkAfter
<1>3. ASSUME NEW r \in Requests, Dispatch(r)
      PROVE  RecordsTrue'
  BY <1>0, <1>3 DEF Dispatch
<1>4. ASSUME NEW r \in Requests, TurnBegins(r)
      PROVE  RecordsTrue'
  BY <1>0, <1>4 DEF TurnBegins
<1>5. ASSUME NEW r \in Requests, TurnEnds(r)
      PROVE  RecordsTrue'
  BY <1>0, <1>5 DEF TurnEnds, Leaves, MayLeave, Flushed, MarkAfter
<1>6. CASE CancelParent
  BY <1>0, <1>6 DEF CancelParent, InflightIn
<1>7. CASE WaitAny
  BY <1>0, <1>7 DEF WaitAny, Reports
<1>8. CASE WaitAll
  BY <1>0, <1>8 DEF WaitAll, Reports
<1>9. CASE WaitTimesOut
  BY <1>0, <1>9 DEF WaitTimesOut
<1>10. ASSUME NEW s \in Subs, CancelEnds(s)
      PROVE  RecordsTrue'
  BY <1>0, <1>10 DEF CancelEnds, MarkCancelled
<1>11. ASSUME NEW kind \in {"any", "all"}, NEW subs \in SUBSET Subs, WaitBegins(kind, subs)
      PROVE  RecordsTrue'
  BY <1>0, <1>11 DEF WaitBegins, ToolCall
<1>12. ASSUME NEW s \in Subs, CreateSub(s)
      PROVE  RecordsTrue'
  BY <1>0, <1>12 DEF CreateSub, ToolCall
<1>13. ASSUME NEW s \in Subs, BgSubmits(s)
      PROVE  RecordsTrue'
  BY <1>0, <1>13 DEF BgSubmits
<1>14. ASSUME NEW s \in Subs, SubTurnStarts(s)
      PROVE  RecordsTrue'
  BY <1>0, <1>14 DEF SubTurnStarts
<1>15. ASSUME NEW s \in Subs, SubTurnEnds(s)
      PROVE  RecordsTrue'
  BY <1>0, <1>15 DEF SubTurnEnds
<1>16. ASSUME NEW s \in Subs, NEW end \in {"completed", "failed"}, BgEnds(s, end)
      PROVE  RecordsTrue'
  BY <1>0, <1>16 DEF BgEnds, Announce, Staged, Flushed
<1>17. ASSUME NEW s \in Subs, EvictBegins(s)
      PROVE  RecordsTrue'
  BY <1>0, <1>17 DEF EvictBegins
<1>18. ASSUME NEW s \in Subs, EvictEnds(s)
      PROVE  RecordsTrue'
  BY <1>0, <1>18 DEF EvictEnds
<1>19. ASSUME NEW s \in Subs, IdleEvictEnds(s)
      PROVE  RecordsTrue'
  BY <1>0, <1>19 DEF IdleEvictEnds
<1>20. ASSUME NEW s \in Subs, BgTimesOut(s)
      PROVE  RecordsTrue'
  BY <1>0, <1>20 DEF BgTimesOut, Stopped
<1>21. ASSUME NEW s \in Subs, Reacquire(s)
      PROVE  RecordsTrue'
  BY <1>0, <1>21 DEF Reacquire
<1>22. ASSUME NEW s \in Subs, IdleEvict(s)
      PROVE  RecordsTrue'
  BY <1>0, <1>22 DEF IdleEvict
<1>23. ASSUME NEW s \in Subs, CancelBegins(s)
      PROVE  RecordsTrue'
  BY <1>0, <1>23 DEF CancelBegins, CancelTask, MarkCancelled, Stopped, ToolCall
<1>24. ASSUME NEW s \in Subs, ReapCall(s)
      PROVE  RecordsTrue'
  BY <1>0, <1>24 DEF ReapCall, Reap, ToolCall
<1>25. ASSUME NEW s \in Subs, ReapStale(s)
      PROVE  RecordsTrue'
  BY <1>0, <1>25 DEF ReapStale, Reap
<1>26. CASE UNCHANGED vars
  BY <1>0, <1>26
<1>27. QED
  BY <1>1, <1>2, <1>3, <1>4, <1>5, <1>6, <1>7, <1>8, <1>9, <1>10, <1>11, <1>12, <1>13, <1>14, <1>15, <1>16, <1>17, <1>18, <1>19, <1>20, <1>21, <1>22, <1>23, <1>24, <1>25, <1>26 DEF Next, ParentStep, BackgroundStep, ToolReturns

\* Where the entries are.
LEMMA EntriesKept ==
  ASSUME IInv, [Next]_vars
  PROVE  (GoneIsGone /\ FindableUntilReaped)'
<1> USE SubagentsAssumption DEF vars, entryVars, taskVars, noticeVars, parentVars, boundVars, historyVars,
          TypeOK, StagesAgree, ToolKnows, RecordsTrue, GoneIsGone, FindableUntilReaped, HasEnded, Ended, Findable, Stale, NoTool
<1>0. TypeOK /\ StagesAgree /\ ToolKnows /\ RecordsTrue /\ GoneIsGone /\ FindableUntilReaped
  BY DEF IInv
<1>1. ASSUME NEW t \in Turns, UserSends(t)
      PROVE  (GoneIsGone /\ FindableUntilReaped)'
  BY <1>0, <1>1 DEF UserSends
<1>2. ASSUME NEW r \in Requests, DispatchDrops(r)
      PROVE  (GoneIsGone /\ FindableUntilReaped)'
  BY <1>0, <1>2 DEF DispatchDrops, MarkAfter
<1>3. ASSUME NEW r \in Requests, Dispatch(r)
      PROVE  (GoneIsGone /\ FindableUntilReaped)'
  BY <1>0, <1>3 DEF Dispatch
<1>4. ASSUME NEW r \in Requests, TurnBegins(r)
      PROVE  (GoneIsGone /\ FindableUntilReaped)'
  BY <1>0, <1>4 DEF TurnBegins
<1>5. ASSUME NEW r \in Requests, TurnEnds(r)
      PROVE  (GoneIsGone /\ FindableUntilReaped)'
  BY <1>0, <1>5 DEF TurnEnds, Leaves, MayLeave, Flushed, MarkAfter
<1>6. CASE CancelParent
  BY <1>0, <1>6 DEF CancelParent, InflightIn
<1>7. CASE WaitAny
  BY <1>0, <1>7 DEF WaitAny, Reports
<1>8. CASE WaitAll
  BY <1>0, <1>8 DEF WaitAll, Reports
<1>9. CASE WaitTimesOut
  BY <1>0, <1>9 DEF WaitTimesOut
<1>10. ASSUME NEW s \in Subs, CancelEnds(s)
      PROVE  (GoneIsGone /\ FindableUntilReaped)'
  BY <1>0, <1>10 DEF CancelEnds, MarkCancelled
<1>11. ASSUME NEW kind \in {"any", "all"}, NEW subs \in SUBSET Subs, WaitBegins(kind, subs)
      PROVE  (GoneIsGone /\ FindableUntilReaped)'
  BY <1>0, <1>11 DEF WaitBegins, ToolCall
<1>12. ASSUME NEW s \in Subs, CreateSub(s)
      PROVE  (GoneIsGone /\ FindableUntilReaped)'
  BY <1>0, <1>12 DEF CreateSub, ToolCall
<1>13. ASSUME NEW s \in Subs, BgSubmits(s)
      PROVE  (GoneIsGone /\ FindableUntilReaped)'
  BY <1>0, <1>13 DEF BgSubmits
<1>14. ASSUME NEW s \in Subs, SubTurnStarts(s)
      PROVE  (GoneIsGone /\ FindableUntilReaped)'
  BY <1>0, <1>14 DEF SubTurnStarts
<1>15. ASSUME NEW s \in Subs, SubTurnEnds(s)
      PROVE  (GoneIsGone /\ FindableUntilReaped)'
  BY <1>0, <1>15 DEF SubTurnEnds
<1>16. ASSUME NEW s \in Subs, NEW end \in {"completed", "failed"}, BgEnds(s, end)
      PROVE  (GoneIsGone /\ FindableUntilReaped)'
  BY <1>0, <1>16 DEF BgEnds, Announce, Staged, Flushed
<1>17. ASSUME NEW s \in Subs, EvictBegins(s)
      PROVE  (GoneIsGone /\ FindableUntilReaped)'
  BY <1>0, <1>17 DEF EvictBegins
<1>18. ASSUME NEW s \in Subs, EvictEnds(s)
      PROVE  (GoneIsGone /\ FindableUntilReaped)'
  BY <1>0, <1>18 DEF EvictEnds
<1>19. ASSUME NEW s \in Subs, IdleEvictEnds(s)
      PROVE  (GoneIsGone /\ FindableUntilReaped)'
  BY <1>0, <1>19 DEF IdleEvictEnds
<1>20. ASSUME NEW s \in Subs, BgTimesOut(s)
      PROVE  (GoneIsGone /\ FindableUntilReaped)'
  BY <1>0, <1>20 DEF BgTimesOut, Stopped
<1>21. ASSUME NEW s \in Subs, Reacquire(s)
      PROVE  (GoneIsGone /\ FindableUntilReaped)'
  BY <1>0, <1>21 DEF Reacquire
<1>22. ASSUME NEW s \in Subs, IdleEvict(s)
      PROVE  (GoneIsGone /\ FindableUntilReaped)'
  BY <1>0, <1>22 DEF IdleEvict
<1>23. ASSUME NEW s \in Subs, CancelBegins(s)
      PROVE  (GoneIsGone /\ FindableUntilReaped)'
  BY <1>0, <1>23 DEF CancelBegins, CancelTask, MarkCancelled, Stopped, ToolCall
<1>24. ASSUME NEW s \in Subs, ReapCall(s)
      PROVE  (GoneIsGone /\ FindableUntilReaped)'
  BY <1>0, <1>24 DEF ReapCall, Reap, ToolCall
<1>25. ASSUME NEW s \in Subs, ReapStale(s)
      PROVE  (GoneIsGone /\ FindableUntilReaped)'
  BY <1>0, <1>25 DEF ReapStale, Reap
<1>26. CASE UNCHANGED vars
  BY <1>0, <1>26
<1>27. QED
  BY <1>1, <1>2, <1>3, <1>4, <1>5, <1>6, <1>7, <1>8, <1>9, <1>10, <1>11, <1>12, <1>13, <1>14, <1>15, <1>16, <1>17, <1>18, <1>19, <1>20, <1>21, <1>22, <1>23, <1>24, <1>25, <1>26 DEF Next, ParentStep, BackgroundStep, ToolReturns

\* No end gets lost unnoticed.
LEMMA EndsKept ==
  ASSUME IInv, [Next]_vars
  PROVE  EndsAnnounced'
<1> USE SubagentsAssumption DEF vars, entryVars, taskVars, noticeVars, parentVars, boundVars, historyVars,
          TypeOK, Requests, StagesAgree, WaitersBelong, ToolKnows, RecordsTrue, FindableUntilReaped, EndsAnnounced, HasEnded, Ended, Findable, Stale, Blocked, NoTool
<1>0. TypeOK /\ StagesAgree /\ WaitersBelong /\ ToolKnows /\ RecordsTrue /\ FindableUntilReaped /\ EndsAnnounced
  BY DEF IInv
<1>1. ASSUME NEW t \in Turns, UserSends(t)
      PROVE  EndsAnnounced'
  BY <1>0, <1>1 DEF UserSends
<1>2. ASSUME NEW r \in Requests, DispatchDrops(r)
      PROVE  EndsAnnounced'
  BY <1>0, <1>2 DEF DispatchDrops, MarkAfter
<1>3. ASSUME NEW r \in Requests, Dispatch(r)
      PROVE  EndsAnnounced'
  BY <1>0, <1>3 DEF Dispatch
<1>4. ASSUME NEW r \in Requests, TurnBegins(r)
      PROVE  EndsAnnounced'
  BY <1>0, <1>4 DEF TurnBegins
<1>5. ASSUME NEW r \in Requests, TurnEnds(r)
      PROVE  EndsAnnounced'
  BY <1>0, <1>5 DEF TurnEnds, Leaves, MayLeave, Flushed, MarkAfter
<1>6. CASE CancelParent
  BY <1>0, <1>6 DEF CancelParent, InflightIn
<1>7. CASE WaitAny
  BY <1>0, <1>7 DEF WaitAny, Reports
<1>8. CASE WaitAll
  BY <1>0, <1>8 DEF WaitAll, Reports
<1>9. CASE WaitTimesOut
  BY <1>0, <1>9 DEF WaitTimesOut
<1>10. ASSUME NEW s \in Subs, CancelEnds(s)
      PROVE  EndsAnnounced'
  BY <1>0, <1>10 DEF CancelEnds, MarkCancelled
<1>11. ASSUME NEW kind \in {"any", "all"}, NEW subs \in SUBSET Subs, WaitBegins(kind, subs)
      PROVE  EndsAnnounced'
  BY <1>0, <1>11 DEF WaitBegins, ToolCall
<1>12. ASSUME NEW s \in Subs, CreateSub(s)
      PROVE  EndsAnnounced'
  BY <1>0, <1>12 DEF CreateSub, ToolCall
<1>13. ASSUME NEW s \in Subs, BgSubmits(s)
      PROVE  EndsAnnounced'
  BY <1>0, <1>13 DEF BgSubmits
<1>14. ASSUME NEW s \in Subs, SubTurnStarts(s)
      PROVE  EndsAnnounced'
  BY <1>0, <1>14 DEF SubTurnStarts
<1>15. ASSUME NEW s \in Subs, SubTurnEnds(s)
      PROVE  EndsAnnounced'
  BY <1>0, <1>15 DEF SubTurnEnds
<1>16. ASSUME NEW s \in Subs, NEW end \in {"completed", "failed"}, BgEnds(s, end)
      PROVE  EndsAnnounced'
  BY <1>0, <1>16 DEF BgEnds, Announce, Staged, Flushed
<1>17. ASSUME NEW s \in Subs, EvictBegins(s)
      PROVE  EndsAnnounced'
  BY <1>0, <1>17 DEF EvictBegins
<1>18. ASSUME NEW s \in Subs, EvictEnds(s)
      PROVE  EndsAnnounced'
  BY <1>0, <1>18 DEF EvictEnds
<1>19. ASSUME NEW s \in Subs, IdleEvictEnds(s)
      PROVE  EndsAnnounced'
  BY <1>0, <1>19 DEF IdleEvictEnds
<1>20. ASSUME NEW s \in Subs, BgTimesOut(s)
      PROVE  EndsAnnounced'
  BY <1>0, <1>20 DEF BgTimesOut, Stopped
<1>21. ASSUME NEW s \in Subs, Reacquire(s)
      PROVE  EndsAnnounced'
  BY <1>0, <1>21 DEF Reacquire
<1>22. ASSUME NEW s \in Subs, IdleEvict(s)
      PROVE  EndsAnnounced'
  BY <1>0, <1>22 DEF IdleEvict
<1>23. ASSUME NEW s \in Subs, CancelBegins(s)
      PROVE  EndsAnnounced'
  BY <1>0, <1>23 DEF CancelBegins, CancelTask, MarkCancelled, Stopped, ToolCall
<1>24. ASSUME NEW s \in Subs, ReapCall(s)
      PROVE  EndsAnnounced'
  BY <1>0, <1>24 DEF ReapCall, Reap, ToolCall
<1>25. ASSUME NEW s \in Subs, ReapStale(s)
      PROVE  EndsAnnounced'
  BY <1>0, <1>25 DEF ReapStale, Reap
<1>26. CASE UNCHANGED vars
  BY <1>0, <1>26
<1>27. QED
  BY <1>1, <1>2, <1>3, <1>4, <1>5, <1>6, <1>7, <1>8, <1>9, <1>10, <1>11, <1>12, <1>13, <1>14, <1>15, <1>16, <1>17, <1>18, <1>19, <1>20, <1>21, <1>22, <1>23, <1>24, <1>25, <1>26 DEF Next, ParentStep, BackgroundStep, ToolReturns

\* No end is told twice.
LEMMA ToldKept ==
  ASSUME IInv, [Next]_vars
  PROVE  NotToldTwice'
<1> USE SubagentsAssumption DEF vars, entryVars, taskVars, noticeVars, parentVars, boundVars, historyVars,
          TypeOK, Requests, RecordsTrue, NotToldTwice, Stale, NoTool
<1>0. TypeOK /\ RecordsTrue /\ NotToldTwice
  BY DEF IInv
<1>1. ASSUME NEW t \in Turns, UserSends(t)
      PROVE  NotToldTwice'
  BY <1>0, <1>1 DEF UserSends
<1>2. ASSUME NEW r \in Requests, DispatchDrops(r)
      PROVE  NotToldTwice'
  BY <1>0, <1>2 DEF DispatchDrops, MarkAfter
<1>3. ASSUME NEW r \in Requests, Dispatch(r)
      PROVE  NotToldTwice'
  BY <1>0, <1>3 DEF Dispatch
<1>4. ASSUME NEW r \in Requests, TurnBegins(r)
      PROVE  NotToldTwice'
  BY <1>0, <1>4 DEF TurnBegins
<1>5. ASSUME NEW r \in Requests, TurnEnds(r)
      PROVE  NotToldTwice'
  BY <1>0, <1>5 DEF TurnEnds, Leaves, MayLeave, Flushed, MarkAfter
<1>6. CASE CancelParent
  BY <1>0, <1>6 DEF CancelParent, InflightIn
<1>7. CASE WaitAny
  BY <1>0, <1>7 DEF WaitAny, Reports
<1>8. CASE WaitAll
  BY <1>0, <1>8 DEF WaitAll, Reports
<1>9. CASE WaitTimesOut
  BY <1>0, <1>9 DEF WaitTimesOut
<1>10. ASSUME NEW s \in Subs, CancelEnds(s)
      PROVE  NotToldTwice'
  BY <1>0, <1>10 DEF CancelEnds, MarkCancelled
<1>11. ASSUME NEW kind \in {"any", "all"}, NEW subs \in SUBSET Subs, WaitBegins(kind, subs)
      PROVE  NotToldTwice'
  BY <1>0, <1>11 DEF WaitBegins, ToolCall
<1>12. ASSUME NEW s \in Subs, CreateSub(s)
      PROVE  NotToldTwice'
  BY <1>0, <1>12 DEF CreateSub, ToolCall
<1>13. ASSUME NEW s \in Subs, BgSubmits(s)
      PROVE  NotToldTwice'
  BY <1>0, <1>13 DEF BgSubmits
<1>14. ASSUME NEW s \in Subs, SubTurnStarts(s)
      PROVE  NotToldTwice'
  BY <1>0, <1>14 DEF SubTurnStarts
<1>15. ASSUME NEW s \in Subs, SubTurnEnds(s)
      PROVE  NotToldTwice'
  BY <1>0, <1>15 DEF SubTurnEnds
<1>16. ASSUME NEW s \in Subs, NEW end \in {"completed", "failed"}, BgEnds(s, end)
      PROVE  NotToldTwice'
  BY <1>0, <1>16 DEF BgEnds, Announce, Staged, Flushed
<1>17. ASSUME NEW s \in Subs, EvictBegins(s)
      PROVE  NotToldTwice'
  BY <1>0, <1>17 DEF EvictBegins
<1>18. ASSUME NEW s \in Subs, EvictEnds(s)
      PROVE  NotToldTwice'
  BY <1>0, <1>18 DEF EvictEnds
<1>19. ASSUME NEW s \in Subs, IdleEvictEnds(s)
      PROVE  NotToldTwice'
  BY <1>0, <1>19 DEF IdleEvictEnds
<1>20. ASSUME NEW s \in Subs, BgTimesOut(s)
      PROVE  NotToldTwice'
  BY <1>0, <1>20 DEF BgTimesOut, Stopped
<1>21. ASSUME NEW s \in Subs, Reacquire(s)
      PROVE  NotToldTwice'
  BY <1>0, <1>21 DEF Reacquire
<1>22. ASSUME NEW s \in Subs, IdleEvict(s)
      PROVE  NotToldTwice'
  BY <1>0, <1>22 DEF IdleEvict
<1>23. ASSUME NEW s \in Subs, CancelBegins(s)
      PROVE  NotToldTwice'
  BY <1>0, <1>23 DEF CancelBegins, CancelTask, MarkCancelled, Stopped, ToolCall
<1>24. ASSUME NEW s \in Subs, ReapCall(s)
      PROVE  NotToldTwice'
  BY <1>0, <1>24 DEF ReapCall, Reap, ToolCall
<1>25. ASSUME NEW s \in Subs, ReapStale(s)
      PROVE  NotToldTwice'
  BY <1>0, <1>25 DEF ReapStale, Reap
<1>26. CASE UNCHANGED vars
  BY <1>0, <1>26
<1>27. QED
  BY <1>1, <1>2, <1>3, <1>4, <1>5, <1>6, <1>7, <1>8, <1>9, <1>10, <1>11, <1>12, <1>13, <1>14, <1>15, <1>16, <1>17, <1>18, <1>19, <1>20, <1>21, <1>22, <1>23, <1>24, <1>25, <1>26 DEF Next, ParentStep, BackgroundStep, ToolReturns

\* Ends are final.
LEMMA EndsStay ==
  ASSUME IInv, [Next]_vars
  PROVE  \A s \in Subs : HasEnded(s) => status'[s] = status[s]
<1> USE SubagentsAssumption DEF vars, entryVars, taskVars, noticeVars, parentVars, boundVars, historyVars,
          TypeOK, StagesAgree, ToolKnows, HasEnded, Ended, NoTool
<1>0. TypeOK /\ StagesAgree /\ ToolKnows
  BY DEF IInv
<1>1. ASSUME NEW t \in Turns, UserSends(t)
      PROVE  \A x \in Subs : HasEnded(x) => status'[x] = status[x]
  BY <1>0, <1>1 DEF UserSends
<1>2. ASSUME NEW r \in Requests, DispatchDrops(r)
      PROVE  \A x \in Subs : HasEnded(x) => status'[x] = status[x]
  BY <1>0, <1>2 DEF DispatchDrops, MarkAfter
<1>3. ASSUME NEW r \in Requests, Dispatch(r)
      PROVE  \A x \in Subs : HasEnded(x) => status'[x] = status[x]
  BY <1>0, <1>3 DEF Dispatch
<1>4. ASSUME NEW r \in Requests, TurnBegins(r)
      PROVE  \A x \in Subs : HasEnded(x) => status'[x] = status[x]
  BY <1>0, <1>4 DEF TurnBegins
<1>5. ASSUME NEW r \in Requests, TurnEnds(r)
      PROVE  \A x \in Subs : HasEnded(x) => status'[x] = status[x]
  BY <1>0, <1>5 DEF TurnEnds, Leaves, MayLeave, Flushed, MarkAfter
<1>6. CASE CancelParent
  BY <1>0, <1>6 DEF CancelParent, InflightIn
<1>7. CASE WaitAny
  BY <1>0, <1>7 DEF WaitAny, Reports
<1>8. CASE WaitAll
  BY <1>0, <1>8 DEF WaitAll, Reports
<1>9. CASE WaitTimesOut
  BY <1>0, <1>9 DEF WaitTimesOut
<1>10. ASSUME NEW s \in Subs, CancelEnds(s)
      PROVE  \A x \in Subs : HasEnded(x) => status'[x] = status[x]
  BY <1>0, <1>10 DEF CancelEnds, MarkCancelled
<1>11. ASSUME NEW kind \in {"any", "all"}, NEW subs \in SUBSET Subs, WaitBegins(kind, subs)
      PROVE  \A x \in Subs : HasEnded(x) => status'[x] = status[x]
  BY <1>0, <1>11 DEF WaitBegins, ToolCall
<1>12. ASSUME NEW s \in Subs, CreateSub(s)
      PROVE  \A x \in Subs : HasEnded(x) => status'[x] = status[x]
  BY <1>0, <1>12 DEF CreateSub, ToolCall
<1>13. ASSUME NEW s \in Subs, BgSubmits(s)
      PROVE  \A x \in Subs : HasEnded(x) => status'[x] = status[x]
  BY <1>0, <1>13 DEF BgSubmits
<1>14. ASSUME NEW s \in Subs, SubTurnStarts(s)
      PROVE  \A x \in Subs : HasEnded(x) => status'[x] = status[x]
  BY <1>0, <1>14 DEF SubTurnStarts
<1>15. ASSUME NEW s \in Subs, SubTurnEnds(s)
      PROVE  \A x \in Subs : HasEnded(x) => status'[x] = status[x]
  BY <1>0, <1>15 DEF SubTurnEnds
<1>16. ASSUME NEW s \in Subs, NEW end \in {"completed", "failed"}, BgEnds(s, end)
      PROVE  \A x \in Subs : HasEnded(x) => status'[x] = status[x]
  BY <1>0, <1>16 DEF BgEnds, Announce, Staged, Flushed
<1>17. ASSUME NEW s \in Subs, EvictBegins(s)
      PROVE  \A x \in Subs : HasEnded(x) => status'[x] = status[x]
  BY <1>0, <1>17 DEF EvictBegins
<1>18. ASSUME NEW s \in Subs, EvictEnds(s)
      PROVE  \A x \in Subs : HasEnded(x) => status'[x] = status[x]
  BY <1>0, <1>18 DEF EvictEnds
<1>19. ASSUME NEW s \in Subs, IdleEvictEnds(s)
      PROVE  \A x \in Subs : HasEnded(x) => status'[x] = status[x]
  BY <1>0, <1>19 DEF IdleEvictEnds
<1>20. ASSUME NEW s \in Subs, BgTimesOut(s)
      PROVE  \A x \in Subs : HasEnded(x) => status'[x] = status[x]
  BY <1>0, <1>20 DEF BgTimesOut, Stopped
<1>21. ASSUME NEW s \in Subs, Reacquire(s)
      PROVE  \A x \in Subs : HasEnded(x) => status'[x] = status[x]
  BY <1>0, <1>21 DEF Reacquire
<1>22. ASSUME NEW s \in Subs, IdleEvict(s)
      PROVE  \A x \in Subs : HasEnded(x) => status'[x] = status[x]
  BY <1>0, <1>22 DEF IdleEvict
<1>23. ASSUME NEW s \in Subs, CancelBegins(s)
      PROVE  \A x \in Subs : HasEnded(x) => status'[x] = status[x]
  BY <1>0, <1>23 DEF CancelBegins, CancelTask, MarkCancelled, Stopped, ToolCall
<1>24. ASSUME NEW s \in Subs, ReapCall(s)
      PROVE  \A x \in Subs : HasEnded(x) => status'[x] = status[x]
  BY <1>0, <1>24 DEF ReapCall, Reap, ToolCall
<1>25. ASSUME NEW s \in Subs, ReapStale(s)
      PROVE  \A x \in Subs : HasEnded(x) => status'[x] = status[x]
  BY <1>0, <1>25 DEF ReapStale, Reap
<1>26. CASE UNCHANGED vars
  BY <1>0, <1>26
<1>27. QED
  BY <1>1, <1>2, <1>3, <1>4, <1>5, <1>6, <1>7, <1>8, <1>9, <1>10, <1>11, <1>12, <1>13, <1>14, <1>15, <1>16, <1>17, <1>18, <1>19, <1>20, <1>21, <1>22, <1>23, <1>24, <1>25, <1>26 DEF Next, ParentStep, BackgroundStep, ToolReturns

LEMMA NextInvariant == IInv /\ [Next]_vars => IInv'
BY TypeKept, StagesKept, WaitersKept, RecordsKept, EntriesKept, EndsKept, ToldKept
   DEF IInv

LEMMA Invariance == Spec => []IInv
BY InitInvariant, NextInvariant, PTL DEF Spec

-----------------------------------------------------------------------------
\* The state keeps its types; the parent runs one turn at a time.
THEOREM TypeCorrect == Spec => []TypeOK
<1>1. IInv => TypeOK
  BY DEF IInv
<1>2. QED
  BY <1>1, Invariance, PTL

\* Nobody looks for a sub in vain: evict enters the zombie before its first await.
THEOREM FindableCorrect == Spec => []FindableUntilReaped
<1>1. IInv => FindableUntilReaped
  BY DEF IInv
<1>2. QED
  BY <1>1, Invariance, PTL

\* Ends reach the parent, or a wait or a cancellation is to blame.
THEOREM AnnouncedCorrect == Spec => []EndsAnnounced
<1>1. IInv => EndsAnnounced
  BY DEF IInv
<1>2. QED
  BY <1>1, Invariance, PTL

\* What a wait or a reap has told is not told again by a request that begins later.
THEOREM ToldOnceCorrect == Spec => []NotToldTwice
<1>1. IInv => NotToldTwice
  BY DEF IInv
<1>2. QED
  BY <1>1, Invariance, PTL

\* A reaped sub comes back only if it was reaped too early.
THEOREM RevivalCorrect == Spec => []RevivedOnlyByRace
<1>1. IInv => RevivedOnlyByRace
  BY DEF IInv, GoneIsGone, RevivedOnlyByRace, TypeOK
<1>2. QED
  BY <1>1, Invariance, PTL

\* Ends are final, whatever races with a cancellation.
THEOREM FinalCorrect == Spec => EndIsFinal
<1>1. IInv /\ [Next]_vars => [\A s \in Subs : HasEnded(s) => status'[s] = status[s]]_vars
  BY EndsStay
<1>2. QED
  BY <1>1, Invariance, PTL DEF Spec, EndIsFinal

=============================================================================
