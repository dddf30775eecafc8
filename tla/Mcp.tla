--------------------------------- MODULE Mcp ---------------------------------
(***************************************************************************)
(* Connections to MCP servers on this machine: the pool of processes that  *)
(* all cores share (src/agent_core/mcp/pool.py), counted by references,    *)
(* and each core's MCPClientManager (client.py), which connects the boot   *)
(* servers while the core is loaded, attaches and detaches others by       *)
(* command (session_overlay.py) and releases what it holds when the core   *)
(* is closed.                                                              *)
(*                                                                         *)
(* The pool's lock is held while a process starts, and everybody waits. A  *)
(* process that is stopped by another task than the one that started it    *)
(* raises (anyio), and the rest of a close is skipped.                     *)
(*                                                                         *)
(* Every server is one that is pooled, and two servers are two processes.  *)
(* Calls of tools, and remote servers (RemoteLink), are left out.          *)
(***************************************************************************)
EXTENDS Naturals, Sequences, FiniteSets, SequencesExt

CONSTANTS
    Cores,      \* cores, each with its manager
    Servers,    \* pooled servers
    Boot,       \* those connected with a core, in order
    Jobs,       \* what is done once: [does : {"load", "attach", "detach", "reload", "close"},
                \* core, task, server]
    Plans,      \* sets of jobs that are done in one run
    Idle        \* owner of the free pool lock

ASSUME McpAssumption ==
    /\ \A j \in Jobs : /\ j.does \in {"load", "attach", "detach", "reload", "close"}
                       /\ j.core \in Cores /\ j.server \in Servers
    /\ Plans \subseteq SUBSET Jobs /\ Boot \in Seq(Servers) /\ Idle \notin Jobs

VARIABLES
    jobs,       \* the plan of this run
    stage,      \* of a job: new, waits (for the pool's lock), starts, stops or over
    what,       \* the server a job is at
    step,       \* load: how far in Boot; close: how far in keys; reload: 2 once detached
    lock,       \* SharedMCPPool._lock
    refs,       \* refcount of an entry, 0 when there is none
    starter,    \* the task that started the entry's process
    core,       \* absent, loading, live, closing or closed
    connected,  \* managers that count as connected: the others' close does nothing
    has,        \* _servers of a manager
    keyOf,      \* keys of _pool_key_by_server
    keys,       \* _pooled_release_keys
    lost        \* history: cores whose references nobody releases any more

mcp == <<jobs, stage, what, step, lock, refs, starter, core, connected, has, keyOf,
         keys, lost>>
manager == <<connected, has, keyOf, keys>>

-----------------------------------------------------------------------------
InitMcp ==
    /\ jobs \in Plans
    /\ stage = [j \in Jobs |-> "new"]
    /\ what = [j \in Jobs |-> j.server]
    /\ step = [j \in Jobs |-> 1]
    /\ lock = Idle
    /\ refs = [s \in Servers |-> 0]
    /\ starter = [s \in Servers |-> Idle]
    /\ core = [c \in Cores |-> "absent"]
    /\ connected = {}
    /\ has = [c \in Cores |-> {}]
    /\ keyOf = [c \in Cores |-> {}]
    /\ keys = [c \in Cores |-> <<>>]
    /\ lost = {}

Goes(j, s) == stage' = [stage EXCEPT ![j] = s]
Acquires(j) == \/ j.does \in {"load", "attach"}
               \/ j.does = "reload" /\ step[j] = 2
Release(s) == refs' = [refs EXCEPT ![s] = IF @ = 0 THEN 0 ELSE @ - 1]

-----------------------------------------------------------------------------
(* A job begins; attach, detach and reload are handed a core that is in the pool *)

\* connect(): all boot servers, one after the other.
BeginLoad(j) ==
    /\ j.does = "load" /\ core[j.core] = "absent"
    /\ core' = [core EXCEPT ![j.core] = IF Boot = <<>> THEN "live" ELSE "loading"]
    /\ IF Boot = <<>>
       THEN Goes(j, "over") /\ connected' = connected \cup {j.core} /\ UNCHANGED what
       ELSE Goes(j, "waits") /\ what' = [what EXCEPT ![j] = Boot[1]] /\ UNCHANGED connected
    /\ UNCHANGED <<jobs, step, lock, refs, starter, has, keyOf, keys, lost>>

\* connect_server(): nothing to do for one that is connected.
ToAttach(j) ==
    /\ IF j.server \in has[j.core] THEN Goes(j, "over") ELSE Goes(j, "waits")
    /\ UNCHANGED <<connected, has, keyOf, keys>>
BeginAttach(j) ==
    /\ j.does = "attach" /\ core[j.core] = "live"
    /\ ToAttach(j)
    /\ UNCHANGED <<jobs, what, step, lock, refs, starter, core, lost>>

\* disconnect_server(): the key is taken off before the release is awaited. (Slip: the
\* list for close() keeps it.)
Without(s, q) == IF \E i \in DOMAIN q : q[i] = s
                 THEN RemoveAt(q, SelectInSeq(q, LAMBDA k : k = s)) ELSE q
ForgetNot(s, q) == q
Forget(s, q) == Without(s, q)
BeginDetach(j) == LET c == j.core  s == j.server IN
    /\ j.does \in {"detach", "reload"} /\ core[c] = "live"
    /\ IF s \in keyOf[c]
       THEN /\ keyOf' = [keyOf EXCEPT ![c] = @ \ {s}]
            /\ keys' = [keys EXCEPT ![c] = Forget(s, @)]
            /\ Goes(j, "waits")
            /\ UNCHANGED <<has, step, connected>>
       ELSE IF j.does = "detach"
       THEN has' = [has EXCEPT ![c] = @ \ {s}] /\ Goes(j, "over")
            /\ UNCHANGED <<keyOf, keys, step, connected>>
       ELSE has' = [has EXCEPT ![c] = @ \ {s}] /\ Goes(j, "waits") /\ step' = [step EXCEPT ![j] = 2]
            /\ UNCHANGED <<keyOf, keys, connected>>
    /\ UNCHANGED <<jobs, what, lock, refs, starter, core, lost>>

Empties(c) ==
    /\ keys' = [keys EXCEPT ![c] = <<>>] /\ keyOf' = [keyOf EXCEPT ![c] = {}]
    /\ has' = [has EXCEPT ![c] = {}] /\ connected' = connected \ {c}

\* close(): what is in the list, which others still change meanwhile.
BeginClose(j) == LET c == j.core IN
    /\ j.does = "close" /\ core[c] = "live"
    /\ IF c \notin connected \/ keys[c] = <<>>
       THEN /\ core' = [core EXCEPT ![c] = "closed"] /\ Goes(j, "over")
            /\ IF c \in connected THEN Empties(c) ELSE UNCHANGED manager
            /\ UNCHANGED what
       ELSE /\ core' = [core EXCEPT ![c] = "closing"] /\ Goes(j, "waits")
            /\ what' = [what EXCEPT ![j] = keys[c][1]]
            /\ UNCHANGED manager
    /\ UNCHANGED <<jobs, step, lock, refs, starter, lost>>

-----------------------------------------------------------------------------
(* Acquiring *)

\* The part after acquire(): _connect_one_server keeps the key, and the job goes on.
Connects(j, ok) == LET c == j.core  s == what[j]  more == j.does = "load" /\ step[j] < Len(Boot) IN
    /\ IF ok
       THEN /\ has' = [has EXCEPT ![c] = @ \cup {s}]
            /\ keyOf' = [keyOf EXCEPT ![c] = @ \cup {s}]
            /\ keys' = [keys EXCEPT ![c] = Append(@, s)]
       ELSE UNCHANGED <<has, keyOf, keys>>
    /\ connected' = IF more THEN connected ELSE connected \cup {c}
    /\ lost' = IF ok /\ core[c] = "closed" THEN lost \cup {c} ELSE lost
    /\ IF more
       THEN /\ step' = [step EXCEPT ![j] = @ + 1]
            /\ what' = [what EXCEPT ![j] = Boot[step[j] + 1]]
            /\ Goes(j, "waits") /\ UNCHANGED core
       ELSE /\ Goes(j, "over") /\ UNCHANGED <<step, what>>
            /\ core' = IF j.does = "load" THEN [core EXCEPT ![c] = "live"] ELSE core

\* An entry is there: one reference more.
Joins(j) ==
    /\ stage[j] = "waits" /\ Acquires(j) /\ lock = Idle /\ refs[what[j]] > 0
    /\ refs' = [refs EXCEPT ![what[j]] = @ + 1]
    /\ Connects(j, TRUE)
    /\ UNCHANGED <<jobs, lock, starter>>

\* There is none: the process is started under the lock.
Starts(j) ==
    /\ stage[j] = "waits" /\ Acquires(j) /\ lock = Idle /\ refs[what[j]] = 0
    /\ lock' = j
    /\ Goes(j, "starts")
    /\ UNCHANGED <<jobs, what, step, refs, starter, core, manager, lost>>

Started(j) ==
    /\ stage[j] = "starts"
    /\ lock' = Idle
    /\ refs' = [refs EXCEPT ![what[j]] = 1]
    /\ starter' = [starter EXCEPT ![what[j]] = j.task]
    /\ Connects(j, TRUE)
    /\ UNCHANGED jobs

StartFails(j) ==
    /\ stage[j] = "starts"
    /\ lock' = Idle
    /\ Connects(j, FALSE)
    /\ UNCHANGED <<jobs, refs, starter>>

-----------------------------------------------------------------------------
(* Releasing *)

\* What follows a release: detach forgets the server, reload attaches it again, close
\* goes to the next key of the list as it is by now.
Continues(j) == LET c == j.core IN
    CASE j.does = "detach" ->
           /\ has' = [has EXCEPT ![c] = @ \ {j.server}] /\ Goes(j, "over")
           /\ UNCHANGED <<what, step, core, connected, keyOf, keys, lost>>
      [] j.does = "reload" ->
           /\ has' = [has EXCEPT ![c] = @ \ {j.server}] /\ Goes(j, "waits")
           /\ step' = [step EXCEPT ![j] = 2]
           /\ UNCHANGED <<what, core, connected, keyOf, keys, lost>>
      [] j.does = "close" /\ step[j] < Len(keys[c]) ->
           /\ step' = [step EXCEPT ![j] = @ + 1]
           /\ what' = [what EXCEPT ![j] = keys[c][step[j] + 1]]
           /\ Goes(j, "waits")
           /\ UNCHANGED <<core, manager, lost>>
      [] OTHER ->
           /\ Empties(c)
           /\ core' = [core EXCEPT ![c] = "closed"]
           /\ Goes(j, "over")
           /\ UNCHANGED <<what, step, lost>>

Releases(j) == LET s == what[j] IN
    /\ stage[j] = "waits" /\ ~Acquires(j) /\ lock = Idle
    /\ Release(s)
    /\ IF refs[s] = 1
       THEN Goes(j, "stops") /\ UNCHANGED <<what, step, core, manager, lost>>
       ELSE Continues(j)
    /\ UNCHANGED <<jobs, lock, starter>>

Stopped(j) ==
    /\ stage[j] = "stops"
    /\ Continues(j)
    /\ UNCHANGED <<jobs, lock, refs, starter>>

\* aclose() raises in a task that did not start the process: a close leaves the rest of
\* its list, a detach the name of the server.
StopRaises(j) == LET c == j.core IN
    /\ stage[j] = "stops" /\ starter[what[j]] # j.task
    /\ IF j.does = "close"
       THEN /\ core' = [core EXCEPT ![c] = "closed"]
            /\ keys' = [keys EXCEPT ![c] = SubSeq(@, step[j] + 1, Len(@))]
            /\ lost' = lost \cup {c}
            /\ Goes(j, "over") /\ UNCHANGED step
       ELSE /\ IF j.does = "reload"
               THEN step' = [step EXCEPT ![j] = 2] /\ Goes(j, IF j.server \in has[c] THEN "over" ELSE "waits")
               ELSE Goes(j, "over") /\ UNCHANGED step
            /\ UNCHANGED <<core, keys, lost>>
    /\ UNCHANGED <<jobs, what, lock, refs, starter, connected, has, keyOf>>

\* The turn that loads a core, or the loop that closes it, is cancelled: the core is
\* dropped with what it holds. A process that was being started is left to the garbage
\* collector.
Cancelled(j) == LET c == j.core IN
    /\ j.does \in {"load", "close"} /\ stage[j] \in {"waits", "starts", "stops"}
    /\ Goes(j, "over")
    /\ lock' = IF lock = j THEN Idle ELSE lock
    /\ core' = [core EXCEPT ![c] = "closed"]
    /\ keys' = [keys EXCEPT ![c] =
          IF j.does = "load" THEN @
          ELSE SubSeq(@, IF stage[j] = "stops" THEN step[j] + 1 ELSE step[j], Len(@))]
    /\ lost' = lost \cup {c}
    /\ UNCHANGED <<jobs, what, step, refs, starter, connected, has, keyOf>>

NextMcp == \E j \in jobs :
    \/ stage[j] = "new" /\ (BeginLoad(j) \/ BeginAttach(j) \/ BeginDetach(j) \/ BeginClose(j))
    \/ Joins(j) \/ Starts(j) \/ Started(j) \/ StartFails(j)
    \/ Releases(j) \/ Stopped(j) \/ StopRaises(j) \/ Cancelled(j)

\* The lock is handed on, starts and stops have time-outs or end. Nobody has to begin.
FairMcp == \A j \in Jobs :
    WF_mcp(\/ Joins(j) \/ Starts(j) \/ Started(j) \/ StartFails(j)
           \/ Releases(j) \/ Stopped(j) \/ StopRaises(j))

McpSpec == InitMcp /\ [][NextMcp]_mcp /\ FairMcp

-----------------------------------------------------------------------------
(* Properties *)

\* What the close of core c has released, or left behind, of its list.
Passed(c, i) == \E j \in jobs :
    /\ j.does = "close" /\ j.core = c
    /\ \/ stage[j] = "waits" /\ i < step[j]
       \/ stage[j] = "stops" /\ i <= step[j]

\* The references to server s: what a close will still come to, and what a detach has
\* taken off and not yet released.
Listed(s) ==
    UNION {{<<c, i>> : i \in {k \in DOMAIN keys[c] : keys[c][k] = s /\ ~Passed(c, k)}} : c \in Cores}
TakenOff(s) ==
    {j \in jobs : j.does \in {"detach", "reload"} /\ j.server = s /\ stage[j] = "waits" /\ ~Acquires(j)}

\* The count of a process is the number of references to it, so nobody's use stops it
\* under another: a server a core in the pool can call has its process, unless this core
\* detached it. A core that is gone holds nothing, unless its load or close was cut short
\* or it was attached to while it was closed: then the process runs for ever.
CountedRight ==
    /\ \A s \in Servers : refs[s] = Cardinality(Listed(s)) + Cardinality(TakenOff(s))
    /\ \A c \in Cores : core[c] = "live" => \A s \in has[c] :
          \/ refs[s] > 0
          \/ \E j \in jobs : j.does \in {"detach", "reload"} /\ j.core = c /\ j.server = s
                              /\ stage[j] # "new"
    /\ \A c \in Cores \ lost : core[c] = "closed" => keys[c] = <<>>

\* No job is under way. (None begins twice: if this holds from some time on, all end.)
NobodyConnects == \A j \in jobs : stage[j] \in {"new", "over"}
=============================================================================
