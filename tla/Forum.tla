-------------------------------- MODULE Forum --------------------------------
(***************************************************************************)
(* The forum front end (frontend/shuiyuan_integration): a process of its   *)
(* own that looks for posts which call the agent (connector.py), has each  *)
(* answered by a turn of the daemon, posts the answer (session.py,         *)
(* reply.py) and edits into it what subagents report later.                *)
(*                                                                         *)
(* A round is one action: its requests block the event loop.  What it has  *)
(* found is kept in two files, and the process may end between their       *)
(* writes.  Posts are numbered as they appear.  All are of one user, whose *)
(* turns the daemon runs one after the other.                              *)
(*                                                                         *)
(* The daemon is external: it runs the turns and buffers the reports       *)
(* (Gateway).  Writes that fail, posts that need no answer and edits that  *)
(* the forum refuses are left out.                                         *)
(***************************************************************************)
EXTENDS Naturals, Sequences, FiniteSets, SequencesExt

CONSTANTS
    LastPost,    \* bound on the posts
    LastOld,     \* those up to it are there when the connector first starts
    Feeds,       \* the lists that are asked for mentions
    FeedsOf,     \* the lists a post is on
    MaxReplies,  \* MAX_CONCURRENT_REPLIES
    MaxDowns     \* bound on the ends of the connector

Posts == 1..LastPost

ASSUME ForumAssumption ==
    /\ LastPost \in Nat /\ LastOld \in 0..LastPost
    /\ FeedsOf \in [Posts -> SUBSET Feeds]
    /\ MaxReplies \in Nat \ {0} /\ MaxDowns \in Nat

VARIABLES
    watch,     \* whether topics are watched (allowed_topic_ids) or mentions are listed
    site,      \* the last post that is there
    life,      \* "up", "draining" after a stop, "down"
    downs,     \* ends of the connector
    seen,      \* stream_list, or the topic's set in stream_map
    seenFile,  \* connector_notify_stream.json or connector_stream_map.json
    marked,    \* connector_processed_post_ids.json
    stage,     \* where the reply task of a post is
    line,      \* the daemon: posts whose turns run or wait in the user's session
    working,   \* the daemon: posts whose subagents have still to report
    reports,   \* the daemon: CoreGateway._push_buffers of the session
    taken,     \* reports that a reply's poll has taken from there
    text,      \* the reports in a reply (merged)
    latest,    \* _SHUIYUAN_INJECT_REPLY_GEN: the last reply that began to poll
    begun,     \* history: turns begun for a post
    excused    \* history: posts that a failure, a stop or a death kept from a turn

sight == <<seen, seenFile, marked>>
process == <<life, downs>>
daemon == <<line, working, reports>>
edits == <<taken, text, latest>>
forum == <<watch, site, process, sight, stage, daemon, edits, begun, excused>>

Pending == {p \in Posts : stage[p] \notin {"none", "over"}}
Goes(p, s) == stage' = [stage EXCEPT ![p] = s]

InitForum ==
    /\ watch \in BOOLEAN
    /\ site = LastOld /\ life = "up" /\ downs = 0
    /\ seen = {} /\ seenFile = {} /\ marked = {}
    /\ stage = [p \in Posts |-> "none"]
    /\ line = <<>> /\ working = {} /\ reports = <<>>
    /\ taken = [p \in Posts |-> {}] /\ text = [p \in Posts |-> {}] /\ latest = 0
    /\ begun = [p \in Posts |-> 0] /\ excused = {}

-----------------------------------------------------------------------------
(* Rounds *)

PostAppears ==
    /\ site < LastPost /\ site' = site + 1
    /\ UNCHANGED <<watch, process, sight, stage, daemon, edits, begun, excused>>

\* What stands in the list before the first that is known.
Fresh(found) == {p \in found : \A k \in found \cap seen : p > k}

\* Those that get a task.  (Slip: also those that are marked.)
ScheduleAll(fresh) == fresh
Schedule(fresh) == fresh \ marked

\* What ends with the process: its tasks and what they hold.
Ceases(tasks) ==
    /\ life' = "down" /\ downs' = downs + 1
    /\ stage' = [p \in Posts |-> IF p \in tasks THEN "over" ELSE stage[p]]
    /\ taken' = [p \in Posts |-> {}]
    /\ excused' = excused \cup tasks

\* The fresh are marked and get their tasks, and the files are written.  Passed over are
\* posts that a failure hides from this round and the later ones.  The process may end
\* after the first file, when none of the new tasks has begun.
RoundEnds(known, fresh, passed) ==
    /\ marked' = marked \cup fresh
    /\ \/ /\ seen' = known /\ seenFile' = known
          /\ stage' = [p \in Posts |-> IF p \in Schedule(fresh) THEN "spawned" ELSE stage[p]]
          /\ excused' = excused \cup passed
          /\ UNCHANGED <<process, taken>>
       \/ /\ fresh # {} /\ downs < MaxDowns
          /\ Ceases(Pending \cup Schedule(fresh))
          /\ UNCHANGED <<seen, seenFile>>
    /\ UNCHANGED <<watch, site, daemon, text, latest, begun>>

\* The first round only looks.
FirstRound(known, passed) ==
    /\ seen' = known /\ seenFile' = known /\ excused' = excused \cup known \cup passed
    /\ UNCHANGED <<watch, site, process, marked, stage, daemon, edits, begun>>

\* _poll_once: what the lists that answer hold.  A post whose lists do not answer, while a
\* newer one is seen, is not fresh any more when they do.
ListRound == \E answer \in SUBSET Feeds :
    LET found == {p \in 1..site : FeedsOf[p] \cap answer # {}}
        passed == {p \in (1..site) \ found : \E q \in found : q > p}
    IN
    /\ life = "up" /\ ~watch /\ found # {}
    /\ IF seen = {} THEN FirstRound(found, passed)
       ELSE RoundEnds(found, Fresh(found), passed)

\* _poll_topic_watch: what is new in the topic.  A post that cannot be read counts as seen.
WatchRound == \E unread \in SUBSET ((1..site) \ seen) :
    /\ life = "up" /\ watch /\ site > 0
    /\ IF seen = {} THEN unread = {} /\ FirstRound(1..site, {})
       ELSE RoundEnds(1..site, (1..site) \ (seen \cup unread), unread)

-----------------------------------------------------------------------------
(* Reply tasks *)

\* One of the slots of the semaphore is free.  A watched post was read by the round.
Begin(p) ==
    /\ stage[p] = "spawned"
    /\ Cardinality({q \in Pending : stage[q] # "spawned"}) < MaxReplies
    /\ Goes(p, IF watch THEN "ready" ELSE "reading")
    /\ UNCHANGED <<watch, site, process, sight, daemon, edits, begun, excused>>

\* The post is read in a thread.
HasRead(p) ==
    /\ stage[p] = "reading" /\ Goes(p, "ready")
    /\ UNCHANGED <<watch, site, process, sight, daemon, edits, begun, excused>>

\* The post, the topic or the daemon's session cannot be had.
Fails(p) ==
    /\ stage[p] \in {"reading", "ready"} /\ Goes(p, "over")
    /\ excused' = excused \cup {p}
    /\ UNCHANGED <<watch, site, process, sight, daemon, edits, begun>>

\* run_turn: in the daemon, or if that does not answer by an agent of the connector's own.
RunTurn(p) ==
    /\ stage[p] = "ready"
    /\ \/ Goes(p, "turn") /\ line' = Append(line, p)
       \/ Goes(p, "own turn") /\ UNCHANGED line
    /\ begun' = [begun EXCEPT ![p] = @ + 1]
    /\ UNCHANGED <<watch, site, process, sight, working, reports, edits, excused>>

\* The daemon ends a turn, which may have made subagents, for a task that may be gone.
TurnEnds ==
    LET p == line[1] IN
    /\ line # <<>> /\ line' = Tail(line)
    /\ \/ working' = working \cup {p} /\ Goes(p, IF stage[p] = "turn" THEN "follow" ELSE stage[p])
       \/ UNCHANGED working /\ Goes(p, IF stage[p] = "turn" THEN "answer" ELSE stage[p])
    /\ UNCHANGED <<watch, site, process, sight, reports, edits, begun, excused>>

\* The connection breaks; the turn goes on.
Breaks(p) ==
    /\ stage[p] = "turn" /\ Goes(p, "over")
    /\ UNCHANGED <<watch, site, process, sight, daemon, edits, begun, excused>>

OwnTurnEnds(p) ==
    /\ stage[p] = "own turn" /\ Goes(p, "answer")
    /\ UNCHANGED <<watch, site, process, sight, daemon, edits, begun, excused>>

\* A subagent has ended, and so has the turn in which its parent was told.
Report(p) ==
    /\ p \in working /\ working' = working \ {p}
    /\ reports' = Append(reports, p)
    /\ UNCHANGED <<watch, site, process, sight, stage, line, edits, begun, excused>>

\* The result is posted.  With subagents on their way the reply is from now on the one
\* that polls.  Not so if the turn failed, had nothing to say or its post was refused.
PostAnswer(p) ==
    /\ stage[p] \in {"answer", "follow"}
    /\ \/ Goes(p, "over") /\ UNCHANGED latest
       \/ stage[p] = "follow" /\ Goes(p, "polling") /\ latest' = p
    /\ UNCHANGED <<watch, site, process, sight, daemon, taken, text, begun, excused>>

-----------------------------------------------------------------------------
(* _poll_shuiyuan_inject_edits *)

\* poll_push empties the daemon's buffer.
PollReports(p) ==
    /\ stage[p] = "polling" /\ latest = p /\ reports # <<>>
    /\ taken' = [taken EXCEPT ![p] = ToSet(reports)] /\ reports' = <<>>
    /\ Goes(p, "polled")
    /\ UNCHANGED <<watch, site, process, sight, line, working, text, latest, begun, excused>>

\* The reports are edited into the reply, one after the other.
\* (Slip: whether the reply is still the newest is only asked before the poll.)
HearAnyway(p) ==
    /\ stage[p] = "polled" /\ Goes(p, "polling")
    /\ text' = [text EXCEPT ![p] = @ \cup taken[p]] /\ taken' = [taken EXCEPT ![p] = {}]
    /\ UNCHANGED <<watch, site, process, sight, daemon, latest, begun, excused>>

Hear(p) ==
    /\ stage[p] = "polled" /\ latest = p /\ Goes(p, "polling")
    /\ text' = [text EXCEPT ![p] = @ \cup taken[p]] /\ taken' = [taken EXCEPT ![p] = {}]
    /\ UNCHANGED <<watch, site, process, sight, daemon, latest, begun, excused>>

\* A newer reply polls, the time is over, or the daemon cannot be reached: what was taken
\* is dropped.  (Slip: no end of the time, only the pause after a report.)
GiveUpAfterReport(p) ==
    /\ stage[p] \in {"polling", "polled"} /\ Goes(p, "over")
    /\ \/ latest # p
       \/ stage[p] = "polling" /\ text[p] # {}
    /\ taken' = [taken EXCEPT ![p] = {}]
    /\ UNCHANGED <<watch, site, process, sight, daemon, text, latest, begun, excused>>

GiveUp(p) ==
    /\ stage[p] \in {"polling", "polled"} /\ Goes(p, "over")
    /\ taken' = [taken EXCEPT ![p] = {}]
    /\ UNCHANGED <<watch, site, process, sight, daemon, text, latest, begun, excused>>

-----------------------------------------------------------------------------
(* The connector's own life *)

Stop ==
    /\ life = "up" /\ downs < MaxDowns /\ life' = "draining"
    /\ UNCHANGED <<watch, site, downs, sight, stage, daemon, edits, begun, excused>>

\* The drained process ends; after its time it cancels the tasks that are left.  Or it
\* dies.
End ==
    /\ \/ life = "draining"
       \/ life = "up" /\ downs < MaxDowns
    /\ Ceases(Pending)
    /\ UNCHANGED <<watch, site, sight, daemon, text, latest, begun>>

\* _load_notify_stream_list or _load_stream_map; where nothing was ever marked, what was
\* seen is.
Start ==
    /\ life = "down" /\ life' = "up"
    /\ seen' = seenFile
    /\ marked' = IF marked = {} THEN seenFile ELSE marked
    /\ latest' = 0
    /\ UNCHANGED <<watch, site, downs, seenFile, stage, daemon, taken, text, begun, excused>>

-----------------------------------------------------------------------------
TaskStep(p) == Begin(p) \/ HasRead(p) \/ Fails(p) \/ RunTurn(p) \/ OwnTurnEnds(p) \/ PostAnswer(p)

NextForum ==
    \/ PostAppears \/ ListRound \/ WatchRound
    \/ \E p \in Posts :
        TaskStep(p) \/ Breaks(p) \/ Report(p) \/ PollReports(p) \/ Hear(p) \/ GiveUp(p)
    \/ TurnEnds
    \/ Stop \/ End \/ Start

ForumSpec == InitForum /\ [][NextForum]_forum

\* The loop runs what is ready, the daemon ends its turns and a poll has its time.
FairForum ==
    /\ \A p \in Posts : WF_forum(TaskStep(p)) /\ WF_forum(GiveUp(p))
    /\ WF_forum(TurnEnds)

-----------------------------------------------------------------------------
(* Properties *)

\* Types.
ForumTypeOK ==
    /\ watch \in BOOLEAN /\ site \in 0..LastPost
    /\ life \in {"up", "draining", "down"} /\ downs \in 0..MaxDowns
    /\ {seen, seenFile, marked, working, excused} \subseteq SUBSET Posts
    /\ stage \in [Posts -> {"none", "spawned", "reading", "ready", "turn", "own turn",
                            "answer", "follow", "polling", "polled", "over"}]
    /\ line \in Seq(Posts) /\ reports \in Seq(Posts)
    /\ taken \in [Posts -> SUBSET Posts] /\ text \in [Posts -> SUBSET Posts]
    /\ latest \in 0..LastPost /\ begun \in [Posts -> Nat]

\* However rounds fail, and however often the process ends between its writes, a post gets
\* one turn at most; and a post that is known has its task, has had its turn, or was kept
\* from it by a failure or an end: none is forgotten in between.
MentionsHandled ==
    \A p \in Posts :
        /\ begun[p] <= 1
        /\ p \in seen \cup marked /\ begun[p] = 0 => p \in Pending \cup excused

\* An older reply is not edited any more once a newer one of the user polls, whatever its
\* poll still brings.
NewestEdited == [][\A p \in Posts : text'[p] # text[p] => latest = p]_forum

\* "The first run only initialises and leaves history alone" (connector.py). Not so when
\* a list does not answer in the first rounds: what is on it is fresh in a later one.
HistoryLeftAlone == \A p \in 1..LastOld : begun[p] = 0
=============================================================================
