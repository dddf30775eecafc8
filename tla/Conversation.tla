---------------------------- MODULE Conversation ----------------------------
(***************************************************************************)
(* The conversation of one session: the turn of AgentCore                  *)
(* (src/agent_core/agent/agent.py) driven by AgentKernel                   *)
(* (src/system/kernel/kernel.py) over the messages of ConversationContext  *)
(* (src/agent_core/context/conversation.py), the rows of the chat history, *)
(* the checkpoint written at the end of a turn, and what reaches the same  *)
(* messages without the session lock: /clear, /compress and the notices of *)
(* the remote workspace (src/system/automation/core_gateway.py).           *)
(*                                                                         *)
(* A message keeps its role, its row in the history (0: none), the calls   *)
(* it makes or answers, and the rows a summary stands for. Token counts,   *)
(* texts and the shrinking of tool results are left out: any iteration may *)
(* find the window too full. Whether the goals are active and not deferred *)
(* is one bit, which the tools of a turn and /goal change.                 *)
(***************************************************************************)
EXTENDS Integers, Sequences, FiniteSets

CONSTANTS
    MaxTurns,        \* bound: turns of the session
    MaxIterations,   \* _max_iterations
    MaxNudges,       \* goal_auto_continue_max_nudges
    Keep,            \* compress_keep_recent_turns
    RecoverKeep,     \* the user turns kept after an overflow error
    RetryLimit,      \* _MISSING_TOOL_REASONING_RETRY_LIMIT
    MaxCalls,        \* bound: tool calls of the session
    Scenarios        \* bound: how often what may happen besides the turns

Events == {"clear", "compress", "notice", "goal", "row", "crash", "plan"}

ASSUME ConversationAssumption ==
    /\ MaxTurns \in Nat /\ MaxIterations \in Nat \ {0} /\ MaxNudges \in Nat
    /\ Keep \in Nat \ {0} /\ RecoverKeep \in Nat \ {0}
    /\ RetryLimit \in Nat /\ MaxCalls \in Nat
    /\ Scenarios \subseteq [Events -> Nat]

VARIABLES
    turnAt,     \* where the turn stands
    iter,       \* iteration
    prev,       \* previous_messages, what an error in the generator restores
    owed,       \* tool calls of the response not yet answered
    nudges,     \* _goal_continuation_nudges
    retries,    \* missing_reasoning_retries
    recovered,  \* context_overflow_retried
    fold,       \* what the turn's own compression split off before its summary
    turns,      \* turns begun
    calls,      \* tool calls made so far
    msgs,       \* _context.messages
    db,         \* the session's rows in the chat history: their roles
    last,       \* _last_history_id
    goal,       \* active goals that are not deferred
    remote,     \* a remote workspace is active
    ckpt,       \* the checkpoint on disk
    cmd,        \* the /compress that waits for its summary
    left,       \* how often each event may still happen
    question,   \* history: row of the turn's user message
    dirty,      \* history: a /compress has replaced the messages of a running turn,
                \* and they are there still
    cut,        \* history: a failed summary or a command dropped the question
    synced,     \* history: rows that have been in the conversation
    exposed     \* history: rows of others written during a turn or before a notice

turnVars == <<turnAt, iter, prev, owed, nudges, retries, recovered, fold>>
diskVars == <<turns, calls, goal, remote, ckpt, left>>
ghosts == <<question, dirty, cut, synced, exposed>>
conversation == <<turnVars, msgs, db, last, cmd, diskVars, ghosts>>

-----------------------------------------------------------------------------
(* Messages *)

User(r) == [role |-> "user", row |-> r, calls |-> {}, folds |-> {}]
Assistant(r, cs) == [role |-> "assistant", row |-> r, calls |-> cs, folds |-> {}]
Tool(c) == [role |-> "tool", row |-> 0, calls |-> {c}, folds |-> {}]
Summary(rows) == [role |-> "user", row |-> 0, calls |-> {}, folds |-> rows]

\* The n pieces of a conversation put together.
Joined(n, pieces) ==
    LET upTo[k \in 0 .. n] == IF k = 0 THEN <<>> ELSE upTo[k - 1] \o pieces[k]
    IN upTo[n]

\* The tool messages right after the assistant's message i reach up to k.
Answers(m, i, k) == \A j \in (i + 1) .. k : m[j].role = "tool"
Results(cs) == Joined(MaxCalls, [c \in 1 .. MaxCalls |-> IF c \in cs THEN <<Tool(c)>> ELSE <<>>])
ClosesRun(m, k) == k = Len(m) \/ m[k + 1].role # "tool"
Asked(m, k) == UNION {m[i].calls : i \in {i \in 1 .. k : m[i].role = "assistant" /\ Answers(m, i, k)}}
Heard(m, k) == UNION {m[i].calls : i \in {i \in 1 .. k : m[i].role = "tool" /\ Answers(m, i, k)}}

\* repair_incomplete_assistant_tool_call_sequence: a made-up result for each call
\* that has none, after the results that are there. (Slip: only when none is there.)
RepairNone(m) ==
    Joined(Len(m), [k \in 1 .. Len(m) |->
        <<m[k]>> \o IF ClosesRun(m, k) /\ m[k].role = "assistant" THEN Results(m[k].calls) ELSE <<>>])
Repair(m) ==
    Joined(Len(m), [k \in 1 .. Len(m) |->
        <<m[k]>> \o IF ClosesRun(m, k) THEN Results(Asked(m, k) \ Heard(m, k)) ELSE <<>>])

\* What InternalLoader.assemble sends: the messages repaired, and without the results
\* that follow neither calls nor other results.
CallsTools(m, i, k) == m[i].role = "assistant" /\ m[i].calls # {} /\ Answers(m, i, k)
StripOrphans(m) ==
    Joined(Len(m), [k \in 1 .. Len(m) |->
        IF m[k].role = "tool" /\ ~\E i \in 1 .. (k - 1) : CallsTools(m, i, k) THEN <<>> ELSE <<m[k]>>])
Request(m) == StripOrphans(Repair(m))

RowsOf(m) == {m[i].row : i \in 1 .. Len(m)} \ {0}
FoldsOf(m) == UNION {m[i].folds : i \in 1 .. Len(m)}

\* AgentKernel.compress_context up to the summary: the last k user turns are kept.
UsersAt(m) == {i \in 1 .. Len(m) : m[i].role = "user"}
Folds(m, k) == Len(m) > 2 * k /\ Cardinality(UsersAt(m)) > k
Split(m, k) ==
    LET s == CHOOSE i \in UsersAt(m) : Cardinality({j \in UsersAt(m) : j >= i}) = k
    IN  [old |-> RowsOf(SubSeq(m, 1, s - 1)) \cup FoldsOf(SubSeq(m, 1, s - 1)),
         new |-> SubSeq(m, s, Len(m))]
Nothing == [old |-> {}, new |-> <<>>]
NoCommand == [on |-> FALSE, fold |-> Nothing, dirty |-> FALSE]

\* The split and the summary, or the split alone when the summary failed.
Folded(f, ok) == (IF ok THEN <<Summary(f.old)>> ELSE <<>>) \o f.new

-----------------------------------------------------------------------------
(* The history database and the checkpoint *)

NextRow == Len(db) + 1

\* write_message, and the row counts as seen.
Write(role) ==
    /\ db' = Append(db, role)
    /\ last' = NextRow
    /\ synced' = synced \cup {NextRow}

NoCheckpoint == [msgs |-> <<>>, last |-> 0, goal |-> FALSE, dirty |-> FALSE, there |-> FALSE]
Saved(m, l) == [msgs |-> m, last |-> l, goal |-> goal, dirty |-> dirty, there |-> TRUE]

NewRows == {r \in (last + 1) .. Len(db) : db[r] # "tool"}
RowMessage(r) == IF db[r] = "user" THEN User(r) ELSE Assistant(r, {})

RowMessages(rows) ==
    Joined(Len(db), [r \in 1 .. Len(db) |-> IF r \in rows THEN <<RowMessage(r)>> ELSE <<>>])

\* _sync_external_session_updates. (Slip: the answers are left out.)
SyncedUsers == msgs \o RowMessages({r \in NewRows : db[r] = "user"})
Synced == msgs \o RowMessages(NewRows)

InitConversation ==
    /\ turnAt = "idle" /\ iter = 0 /\ prev = <<>> /\ owed = <<>>
    /\ nudges = 0 /\ retries = 0 /\ recovered = FALSE /\ fold = Nothing
    /\ turns = 0 /\ calls = 0
    /\ msgs = <<>> /\ db = <<>> /\ last = 0
    /\ goal = FALSE /\ remote = FALSE
    /\ ckpt = NoCheckpoint
    /\ cmd = NoCommand
    /\ left \in Scenarios
    /\ question = 0 /\ dirty = FALSE /\ cut = FALSE /\ synced = {} /\ exposed = {}

-----------------------------------------------------------------------------
(* prepare_turn *)

\* Rows of others are taken in, calls without results are answered; then the memory
\* recall is awaited.
BeginTurn ==
    /\ turnAt = "idle" /\ turns < MaxTurns
    /\ turnAt' = "recall"
    /\ msgs' = Repair(Synced)
    /\ last' = IF NewRows = {} THEN last ELSE CHOOSE r \in NewRows : \A q \in NewRows : q <= r
    /\ synced' = synced \cup RowsOf(Synced)
    /\ turns' = turns + 1
    /\ UNCHANGED <<iter, prev, owed, nudges, retries, recovered, fold, db, cmd, calls, goal,
                   remote, ckpt, left, question, dirty, cut, exposed>>

Ask ==
    /\ turnAt = "recall"
    /\ msgs' = Append(msgs, User(NextRow))
    /\ Write("user")
    /\ question' = NextRow
    /\ turnAt' = "top"
    /\ iter' = 0
    /\ UNCHANGED <<prev, owed, nudges, retries, recovered, fold, cmd, diskVars, dirty, cut, exposed>>

-----------------------------------------------------------------------------
(* The end of a turn: finalize_turn and the checkpoint *)

\* The turn has ended; m and l are its messages and its last row. The locals of the
\* turn are dead and cleared, here and wherever an iteration ends.
Finalize(m, l) ==
    /\ turnAt' = "idle"
    /\ iter' = 0 /\ prev' = <<>> /\ owed' = <<>>
    /\ nudges' = 0 /\ retries' = 0 /\ recovered' = FALSE /\ fold' = Nothing
    /\ question' = 0 /\ cut' = FALSE
    /\ msgs' = Repair(m)
    /\ ckpt' = Saved(msgs', l)

-----------------------------------------------------------------------------
(* run_loop, one iteration *)

EnterLlm ==
    /\ turnAt' = "llm"
    /\ retries' = 0 /\ recovered' = FALSE

\* The window is judged small enough, or there is nothing to fold.
Iterate ==
    /\ turnAt = "top" /\ iter < MaxIterations
    /\ iter' = iter + 1
    /\ prev' = msgs
    /\ msgs' = Repair(msgs)
    /\ EnterLlm
    /\ UNCHANGED <<owed, nudges, fold, db, last, cmd, diskVars, ghosts>>

\* ContextOverflowAction: the kernel asks for a summary of what is split off now.
Overflow ==
    /\ turnAt = "top" /\ iter < MaxIterations
    /\ Folds(msgs, Keep)
    /\ iter' = iter + 1
    /\ prev' = msgs
    /\ fold' = Split(msgs, Keep)
    /\ turnAt' = "compress"
    /\ UNCHANGED <<owed, nudges, retries, recovered, msgs, db, last, cmd, diskVars, ghosts>>

\* The summary of f is there or has failed: the messages are replaced, and a remote
\* workspace is announced once more. (Slip: the summary takes the place of all.)
Announced == IF remote THEN <<User(NextRow)>> ELSE <<>>
ReplacedWhole(f, ok) == (IF ok THEN <<Summary(f.old)>> ELSE f.new) \o Announced
Replaced(f, ok) == Folded(f, ok) \o Announced
Announce == IF remote THEN Write("user") ELSE UNCHANGED <<db, last, synced>>

Summarised ==
    /\ turnAt \in {"compress", "recover"}
    /\ \E ok \in BOOLEAN :
        /\ msgs' = Repair(Replaced(fold, ok))
        /\ cut' = (cut \/ (~ok /\ question \in fold.old))
    /\ Announce
    /\ IF turnAt = "compress" THEN EnterLlm ELSE turnAt' = "llm" /\ UNCHANGED <<retries, recovered>>
    /\ fold' = Nothing
    /\ UNCHANGED <<iter, prev, owed, nudges, cmd, diskVars, question, dirty, exposed>>

\* The model answers with an overflow error: once per iteration the window is cut
\* down to the last user turns and the model asked again.
OverflowError ==
    /\ turnAt = "llm" /\ ~recovered
    /\ recovered' = TRUE
    /\ IF Folds(msgs, RecoverKeep)
       THEN turnAt' = "recover" /\ fold' = Split(msgs, RecoverKeep) /\ UNCHANGED msgs
       ELSE msgs' = Repair(msgs) /\ UNCHANGED <<turnAt, fold>>
    /\ UNCHANGED <<iter, prev, owed, nudges, retries, db, last, cmd, diskVars, ghosts>>

\* Tool calls without their reasoning are thrown away and asked for again. (Slip: the
\* count of the attempts starts again.)
MissingReasoningAgain ==
    /\ turnAt = "llm"
    /\ retries' = (retries + 1) % (RetryLimit + 1)
    /\ msgs' = Repair(msgs)
    /\ UNCHANGED <<turnAt, iter, prev, owed, nudges, recovered, fold, db, last, cmd, diskVars, ghosts>>
MissingReasoning ==
    /\ turnAt = "llm" /\ retries < RetryLimit
    /\ retries' = retries + 1
    /\ msgs' = Repair(msgs)
    /\ UNCHANGED <<turnAt, iter, prev, owed, nudges, recovered, fold, db, last, cmd, diskVars, ghosts>>

\* The turn ends with an error, an overflow of a sub's tokens or a fallback, and
\* nothing of the response is stored.
EndWithout ==
    /\ turnAt = "llm"
    /\ Finalize(msgs, last)
    /\ UNCHANGED <<db, last, cmd, turns, calls, goal, remote, left, dirty, synced, exposed>>

\* Any other error, or a cancellation, inside the generator: the messages go back to
\* what they were at the start of the iteration.
Fails ==
    /\ turnAt \in {"llm", "recover", "calling", "storing"}
    /\ Finalize(prev, last)
    /\ UNCHANGED <<db, last, cmd, turns, calls, goal, remote, left, dirty, synced, exposed>>

\* A cancellation while the kernel has the turn, or before the loop: nothing goes back.
Cancelled ==
    /\ turnAt \in {"recall", "compress", "executing"}
    /\ Finalize(msgs, last)
    /\ UNCHANGED <<db, last, cmd, turns, calls, goal, remote, left, dirty, synced, exposed>>

-----------------------------------------------------------------------------
(* Tool calls *)

\* The response makes n calls: they are stored before any of them runs.
CallTools ==
    /\ turnAt = "llm"
    /\ \E n \in 1 .. 2 :
        /\ calls + n <= MaxCalls
        /\ calls' = calls + n
        /\ owed' = [i \in 1 .. n |-> calls + i]
        /\ msgs' = Append(msgs, Assistant(0, (calls + 1) .. (calls + n)))
    /\ turnAt' = "calling" /\ retries' = 0 /\ recovered' = FALSE
    /\ UNCHANGED <<iter, prev, nudges, fold, db, last, cmd, turns, goal, remote, ckpt,
                   left, ghosts>>

\* ToolCallAction: the kernel runs the call.
Execute ==
    /\ turnAt = "calling"
    /\ turnAt' = "executing"
    /\ UNCHANGED <<iter, prev, owed, nudges, retries, recovered, fold, msgs, db, last, cmd,
                   diskVars, ghosts>>

\* The tool has run; goal_create and goal_complete change the goals.
Executed ==
    /\ turnAt = "executing"
    /\ turnAt' = "storing"
    /\ \/ UNCHANGED <<goal, left>>
       \/ left["plan"] > 0 /\ left' = [left EXCEPT !["plan"] = @ - 1] /\ goal' = ~goal
    /\ UNCHANGED <<iter, prev, owed, nudges, retries, recovered, fold, msgs, db, last, cmd,
                   turns, calls, remote, ckpt, ghosts>>

\* The result, or the refusal of a call the kernel did not run.
StoreResult ==
    /\ turnAt \in {"calling", "storing"}
    /\ msgs' = Append(msgs, Tool(Head(owed)))
    /\ Write("tool")
    /\ owed' = Tail(owed)
    /\ IF Len(owed) > 1 THEN turnAt' = "calling" /\ UNCHANGED prev ELSE turnAt' = "top" /\ prev' = <<>>
    /\ UNCHANGED <<iter, nudges, retries, recovered, fold, cmd, diskVars,
                   question, dirty, cut, exposed>>

-----------------------------------------------------------------------------
(* The answer *)

\* _try_inject_goal_check: the model is asked whether the goals are reached.
GoalCheck ==
    /\ turnAt = "llm" /\ goal /\ iter < MaxIterations /\ nudges < MaxNudges
    /\ nudges' = nudges + 1
    /\ msgs' = msgs \o <<Assistant(NextRow, {}), User(NextRow + 1)>>
    /\ db' = db \o <<"assistant", "user">>
    /\ last' = NextRow + 1
    /\ synced' = synced \cup {NextRow, NextRow + 1}
    /\ turnAt' = "top" /\ prev' = <<>> /\ retries' = 0 /\ recovered' = FALSE
    /\ UNCHANGED <<iter, owed, fold, cmd, diskVars, question, dirty, cut, exposed>>

\* The turn is completed.
Answer ==
    /\ turnAt = "llm"
    /\ ~(goal /\ iter < MaxIterations /\ nudges < MaxNudges)
    /\ Finalize(Append(msgs, Assistant(NextRow, {})), NextRow)
    /\ Write("assistant")
    /\ UNCHANGED <<cmd, turns, calls, goal, remote, left, dirty, exposed>>

\* The iterations are used up without an answer.
Exhausted ==
    /\ turnAt = "top" /\ iter >= MaxIterations
    /\ Finalize(msgs, last)
    /\ UNCHANGED <<db, last, cmd, turns, calls, goal, remote, left, dirty, synced, exposed>>

-----------------------------------------------------------------------------
(* Outside the turns *)

\* No await lies at the top of an iteration.
Happens(e) ==
    /\ left[e] > 0
    /\ left' = [left EXCEPT ![e] = @ - 1]
    /\ turnAt # "top"
Running == turnAt # "idle"

\* clear_context_for_session does not wait for the session lock.
Clear ==
    /\ Happens("clear")
    /\ msgs' = <<>>
    /\ dirty' = (dirty /\ Running)
    /\ cut' = Running
    /\ UNCHANGED <<turnVars, db, last, cmd, turns, calls, goal, remote, ckpt, question,
                   synced, exposed>>

\* compress_context_for_session does not either: it splits, and replaces the
\* messages by what it split when the summary is there. (Bound: one at a time.)
Compress ==
    /\ Happens("compress")
    /\ ~cmd.on /\ Folds(msgs, Keep)
    /\ cmd' = [on |-> TRUE, fold |-> Split(msgs, Keep), dirty |-> dirty]
    /\ UNCHANGED <<turnVars, msgs, db, last, turns, calls, goal, remote, ckpt, ghosts>>

CompressEnd ==
    /\ cmd.on /\ turnAt # "top"
    /\ \E ok \in BOOLEAN : msgs' = Replaced(cmd.fold, ok)
    /\ Announce
    /\ cmd' = NoCommand
    /\ dirty' = (dirty \/ Running \/ cmd.dirty)
    /\ cut' = Running
    /\ exposed' = IF remote THEN exposed \cup NewRows ELSE exposed
    /\ UNCHANGED <<turnVars, diskVars, question>>

\* A remote workspace is entered (append_workspace_switch_notice).
Notice ==
    /\ Happens("notice")
    /\ remote' = TRUE
    /\ msgs' = Append(msgs, User(NextRow))
    /\ Write("user")
    /\ exposed' = exposed \cup NewRows
    /\ UNCHANGED <<turnVars, cmd, turns, calls, goal, ckpt, question, dirty, cut>>

\* /goal takes the session lock, creates a goal and writes a checkpoint.
NewGoal ==
    /\ Happens("goal")
    /\ ~Running
    /\ goal' = TRUE
    /\ msgs' = Repair(msgs)
    /\ ckpt' = [Saved(msgs', last) EXCEPT !.goal = TRUE]
    /\ UNCHANGED <<turnVars, db, last, cmd, turns, calls, remote, ghosts>>

\* Another process that has the session open writes a question or an answer.
OtherRow ==
    /\ Happens("row")
    /\ \E role \in {"user", "assistant"} : db' = Append(db, role)
    /\ exposed' = IF Running THEN exposed \cup {NextRow} ELSE exposed
    /\ UNCHANGED <<turnVars, msgs, last, cmd, turns, calls, goal, remote, ckpt,
                   question, dirty, cut, synced>>

\* The process dies and starts again: the checkpoint is restored, or the session
\* starts empty after the rows that are there (activate_session), perhaps with the
\* goals of an expired checkpoint. The remote workspace lives in memory.
Crash ==
    /\ Happens("crash")
    /\ turnAt' = "idle"
    /\ iter' = 0 /\ prev' = <<>> /\ owed' = <<>>
    /\ nudges' = 0 /\ retries' = 0 /\ recovered' = FALSE /\ fold' = Nothing
    /\ cmd' = NoCommand
    /\ remote' = FALSE
    /\ question' = 0 /\ cut' = FALSE
    /\ \/ /\ ckpt.there
          /\ msgs' = ckpt.msgs /\ last' = ckpt.last
          /\ goal' = ckpt.goal /\ dirty' = ckpt.dirty
          /\ UNCHANGED synced
       \/ /\ msgs' = <<>> /\ last' = Len(db)
          /\ goal' \in {FALSE, ckpt.goal} /\ dirty' = FALSE
          /\ synced' = 1 .. Len(db)
    /\ UNCHANGED <<db, turns, calls, ckpt, exposed>>

-----------------------------------------------------------------------------
TurnStep ==
    \/ Ask \/ Iterate \/ Overflow \/ Summarised
    \/ OverflowError \/ MissingReasoning \/ EndWithout \/ Fails \/ Cancelled
    \/ CallTools \/ Execute \/ Executed \/ StoreResult
    \/ GoalCheck \/ Answer \/ Exhausted

NextConversation ==
    \/ BeginTurn \/ TurnStep
    \/ Clear \/ Compress \/ CompressEnd \/ Notice \/ NewGoal \/ OtherRow \/ Crash

ConversationSpec == InitConversation /\ [][NextConversation]_conversation

\* Every await of a turn ends: a model call has its timeout, so have the tools.
FairConversation == WF_conversation(TurnStep)
-----------------------------------------------------------------------------
(* Properties *)

Message ==
    [role : {"user"}, row : Nat, calls : {{}}, folds : SUBSET Nat]
    \cup [role : {"assistant"}, row : Nat, calls : SUBSET (1 .. MaxCalls), folds : {{}}]
    \cup {Tool(c) : c \in 1 .. MaxCalls}
IsFold(f) == f.old \subseteq Nat /\ f.new \in Seq(Message)

\* Every variable keeps its type; in particular a turn never exceeds its iterations
\* and the rows it knows of exist.
ConversationTypeOK ==
    /\ turnAt \in {"idle", "recall", "top", "compress", "llm", "recover", "calling",
               "executing", "storing"}
    /\ iter \in 0 .. MaxIterations
    /\ msgs \in Seq(Message) /\ prev \in Seq(Message)
    /\ owed \in Seq(1 .. MaxCalls)
    /\ nudges \in 0 .. MaxNudges /\ retries \in 0 .. RetryLimit
    /\ recovered \in BOOLEAN /\ IsFold(fold)
    /\ turns \in 0 .. MaxTurns /\ calls \in 0 .. MaxCalls
    /\ db \in Seq({"user", "assistant", "tool"})
    /\ last \in 0 .. Len(db) /\ question \in 0 .. Len(db)
    /\ goal \in BOOLEAN /\ remote \in BOOLEAN
    /\ ckpt.msgs \in Seq(Message) /\ ckpt.last \in 0 .. Len(db)
    /\ ckpt.goal \in BOOLEAN /\ ckpt.dirty \in BOOLEAN
    /\ cmd.on \in BOOLEAN /\ IsFold(cmd.fold) /\ cmd.dirty \in BOOLEAN
    /\ left \in [Events -> Nat]
    /\ dirty \in BOOLEAN /\ cut \in BOOLEAN
    /\ synced \subseteq 1 .. Len(db) /\ exposed \subseteq 1 .. Len(db)

\* What the model is sent can be read: right after a message that calls tools come
\* the results of its calls, once, and no result stands anywhere else.
WellFormed(m) ==
    /\ \A i \in 1 .. Len(m) : m[i].role = "assistant" =>
          \A c \in m[i].calls : \E k \in (i + 1) .. Len(m) : m[k] = Tool(c) /\ Answers(m, i, k)
    /\ \A k \in 1 .. Len(m) : m[k].role = "tool" =>
          \E i \in 1 .. (k - 1) : /\ m[i].role = "assistant" /\ m[k].calls \subseteq m[i].calls
                                  /\ Answers(m, i, k)
    /\ \A j, k \in 1 .. Len(m) : m[j].role = "tool" /\ m[j] = m[k] => j = k

\* Whatever was cancelled, failed, folded, cleared, restored or taken from the history
\* before, the request that the messages make is well formed - unless a /compress
\* replaced the messages of a running turn by those it had split off before.
RequestWellFormed == dirty \/ WellFormed(Request(msgs))

\* The same without the exception.
EveryRequestWellFormed == WellFormed(Request(msgs))

\* The rows of the history and the conversation agree: no row is in it twice, and no
\* question or answer of the history is passed over, except one written by another
\* process during a turn or waiting when a notice is written, which the next row of
\* the session's own hides for ever.
HistoryKept ==
    /\ \A i, j \in 1 .. Len(msgs) : msgs[i].row = msgs[j].row /\ i # j => msgs[i].row = 0
    /\ \A r \in 1 .. last : db[r] # "tool" => r \in synced \cup exposed

\* The model is never asked without the question of the turn: goal checks and notices
\* count as user turns and can push it out of the part that is kept, then the summary
\* has it - unless that summary failed or a command changed the messages.
QuestionInRequest ==
    turnAt = "llm" => question \in RowsOf(msgs) \cup FoldsOf(msgs) \/ cut
=============================================================================
