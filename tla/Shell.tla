--------------------------------- MODULE Shell ---------------------------------
(***************************************************************************)
(* The shell of a core: one long-lived bash process that reads commands    *)
(* from a pipe (src/agent_core/bash_runtime.py) and the calls of the bash  *)
(* tool that use it (src/agent_core/tools/bash_tool.py).                   *)
(*                                                                         *)
(* A stateful command (cd, export, source ...) runs in the shell, and then *)
(* a snapshot of its environment is taken, from which a time-out restores  *)
(* the new shell. Any other command is a job of its own that is given the  *)
(* environment the shell is asked for. A call that is cancelled leaves its *)
(* input to the shell: it runs later, and its output is read by the next.  *)
(*                                                                         *)
(* The environment is the set of the exports that are in effect. Aliases   *)
(* and functions, which no snapshot holds, and unset are left out; so are  *)
(* a command that reads the pipe itself and the job's own course (Notices).*)
(***************************************************************************)
EXTENDS Naturals, Sequences, SequencesExt

CONSTANTS
    ShellCalls,  \* calls of the tool
    Does,        \* of a call: "export", "exit" (of the shell itself), "job", "restart"
    ShellPlans,  \* sets of calls made in one run
    Keep,        \* snapshot_keep_count, of a directory that all cores share
    NoCall, NoFile

ASSUME ShellAssumption ==
    /\ Does \in [ShellCalls -> {"export", "exit", "job", "restart"}]
    /\ ShellPlans \subseteq SUBSET ShellCalls
    /\ Keep \in Nat /\ NoCall \notin ShellCalls
    /\ \A set \in SUBSET ShellCalls : NoFile # set

VARIABLES
    uses,     \* the calls of this run
    enabled,  \* snapshot_enabled
    resolves, \* the shell finds a snapshot under its path: snapshot_dir is absolute, or
              \* the shell starts where the daemon did (with the defaults it does not)
    ended,    \* of a call: new, or how it ended
    doing,    \* the call under way: a turn makes one after the other
    phase,    \* what it awaits: idle, reads, kills or starts
    input,    \* what it is at: its command, pwd, or a capture: query, snap, save
    from,     \* the snapshot the shell is started from: none, last or saved
    held,     \* the runtime holds a process (_process)
    alive,    \* and it lives
    todo,     \* inputs in the pipe
    out,      \* output nobody has read
    env,      \* exports in effect in the shell
    files,    \* last: _last_snapshot_path, saved: the one a restart has written
    age,      \* snapshots in the directory that are newer
    closed,   \* the core was closed
    done,     \* history: exports that succeeded since the shell was lost
    kept,     \* history: those of them that the last snapshot was to hold
    short     \* history: jobs that lack one of done

given == <<uses, enabled, resolves>>
shell == <<given, ended, doing, phase, input, from, held, alive, todo, out, env, files,
           age, closed, done, kept, short>>
promises == <<done, kept, short>>

-----------------------------------------------------------------------------
Captures == {"query", "snap", "save"}
There(f) == files[f] # NoFile /\ age[f] < Keep
Own(o) == o.call = doing /\ o.as = input
\* What a capture can find in all that was read.
Shown(read) == UNION {read[k].shows : k \in DOMAIN read}

InitShell ==
    /\ uses \in ShellPlans
    /\ enabled \in BOOLEAN /\ resolves \in BOOLEAN
    /\ ended = [c \in ShellCalls |-> "new"]
    /\ doing = NoCall /\ phase = "idle" /\ input = "none" /\ from = "none"
    /\ held = TRUE /\ alive = TRUE /\ todo = <<>> /\ out = <<>> /\ env = {}
    /\ files = [f \in {"last", "saved"} |-> NoFile]
    /\ age = [f \in {"last", "saved"} |-> 0]
    /\ closed = FALSE
    /\ done = {} /\ kept = {} /\ short = {}

-----------------------------------------------------------------------------
(* Steps of a call *)

\* execute(): the input is written, to a new shell if there is none.
Execute(c, i) ==
    /\ doing' = c /\ input' = i
    /\ from' = "none"
    /\ IF alive
       THEN todo' = Append(todo, [call |-> c, as |-> i]) /\ phase' = "reads"
       ELSE phase' = "starts" /\ UNCHANGED todo
    /\ UNCHANGED <<ended, held, alive>>

\* close(), then start().
Replace(c, i, f) ==
    /\ doing' = c /\ input' = i
    /\ held' = FALSE /\ alive' = FALSE /\ todo' = <<>>
    /\ phase' = "kills"
    /\ from' = f
    /\ UNCHANGED ended

Ends(how) ==
    /\ ended' = [ended EXCEPT ![doing] = how]
    /\ doing' = NoCall /\ phase' = "idle" /\ input' = "none" /\ from' = "none"
    /\ UNCHANGED <<held, alive, todo>>

Begin(c) ==
    /\ doing = NoCall /\ c \in uses /\ ended[c] = "new"
    /\ CASE Does[c] \in {"export", "exit"} -> Execute(c, "command")
         [] Does[c] = "job"     -> Execute(c, IF alive THEN "query" ELSE "pwd")
         [] Does[c] = "restart" -> IF enabled /\ alive THEN Execute(c, "save")
                                   ELSE Replace(c, "save", "none")
    /\ UNCHANGED <<given, out, env, files, age, closed, promises>>

\* _write_snapshot: the new file is the youngest.
Writes(f, found) ==
    /\ files' = [files EXCEPT ![f] = found]
    /\ age' = [g \in DOMAIN age |-> IF g = f THEN 0 ELSE IF age[g] < Keep THEN age[g] + 1 ELSE Keep]

\* The end mark of the input is read, and all that stands before it. A capture finds less
\* than that shows where a value has several lines, and when 50,000 characters (what a
\* cancelled command left behind is among them) come before the end.
Returns == \E k \in DOMAIN out :
    /\ phase = "reads" /\ Own(out[k])
    /\ out' = SubSeq(out, k + 1, Len(out))
    /\ LET shown == Shown(SubSeq(out, 1, k)) IN \E found \in SUBSET shown :
       /\ input \notin Captures => found = shown
       /\ CASE input = "query" -> Ends("ok")
            [] input = "snap"  -> Ends("ok")
            [] input = "save"  -> Replace(doing, "save", "saved")
            [] OTHER           -> IF alive THEN Execute(doing, "snap") ELSE Ends("ok")
       /\ IF input = "snap" THEN Writes("last", found)
          ELSE IF input = "save" THEN Writes("saved", found)
          ELSE UNCHANGED <<files, age>>
       /\ done' = IF input = "command" THEN done \cup {doing} ELSE done
       /\ kept' = IF input = "snap" THEN done \ (shown \ found) ELSE kept
       /\ short' = IF input = "query" /\ ~(done \subseteq shown) THEN short \cup {doing} ELSE short
    /\ UNCHANGED <<given, env, closed>>

\* A capture that fails leaves no snapshot, and a job asks for the directory instead.
Uncaptured ==
    /\ CASE input = "query" -> Execute(doing, "pwd")
         [] input = "snap"  -> Ends("ok")
         [] input = "save"  -> Replace(doing, "save", "none")
    /\ files' = IF input = "snap" THEN [files EXCEPT !["last"] = NoFile] ELSE files

\* The shell is gone: end of file. When it was closed, the reader has no process to go on
\* reading from: an exception, which only the taking of a snapshot catches.
Fails ==
    /\ phase = "reads" /\ ~alive /\ ~\E k \in DOMAIN out : Own(out[k])
    /\ out' = <<>>
    /\ IF input \in Captures /\ held THEN Uncaptured
       ELSE /\ CASE input = "snap" -> Ends("ok")
                 [] input = "save" -> Replace(doing, "save", "none")
                 [] OTHER          -> Ends("died")
            /\ UNCHANGED files
    /\ UNCHANGED <<given, env, age, closed, promises>>

\* Of the output that has come so far the reader has taken some.
TakesSome == \E k \in 0..Len(out) : out' = SubSeq(out, k + 1, Len(out))

\* Only a command's time-out replaces the shell.
ExecTimesOut ==
    /\ phase = "reads"
    /\ TakesSome
    /\ IF input \in Captures THEN Uncaptured ELSE Replace(doing, input, "last") /\ UNCHANGED files
    /\ UNCHANGED <<given, env, age, closed, promises>>

Killed ==
    /\ phase = "kills"
    /\ phase' = "starts"
    /\ UNCHANGED <<given, ended, doing, input, from, held, alive, todo, out, env, files,
                   age, closed, promises>>

\* start(). The snapshot is sourced if the daemon finds its file, but under the path it
\* has in the daemon; that the shell does not find it there goes unnoticed.
\* (Slip: a snapshot is only taken up when they are enabled.)
RestoredEnabled(f) == IF f # "none" /\ There(f) /\ resolves /\ enabled THEN files[f] ELSE {}
Restored(f) == IF f # "none" /\ There(f) /\ resolves THEN files[f] ELSE {}
StartDone ==
    /\ phase = "starts"
    /\ held' = TRUE /\ alive' = TRUE /\ out' = <<>>
    /\ env' = Restored(from)
    /\ IF from = "none" /\ input \in {"command", "pwd"}
       THEN /\ todo' = <<[call |-> doing, as |-> input]>> /\ phase' = "reads"
            /\ UNCHANGED <<ended, doing, input, from>>
       ELSE /\ todo' = <<>> /\ phase' = "idle"
            /\ ended' = [ended EXCEPT ![doing] = IF input = "command" THEN "timeout" ELSE "ok"]
            /\ doing' = NoCall /\ input' = "none" /\ from' = "none"
    /\ done' = IF from = "last" /\ There("last") /\ resolves THEN kept ELSE {}
    /\ UNCHANGED <<given, files, age, closed, kept, short>>

-----------------------------------------------------------------------------
(* The turn, the process, the core and the other cores *)

CancelCall ==
    /\ doing # NoCall
    /\ Ends("cancelled")
    /\ IF phase = "reads" THEN TakesSome ELSE UNCHANGED out
    /\ UNCHANGED <<given, env, files, age, closed, promises>>

\* The shell comes to its next input.
ShellRuns ==
    /\ alive /\ todo # <<>>
    /\ LET i == Head(todo) IN
       IF i.as = "command" /\ Does[i.call] = "exit"
       THEN alive' = FALSE /\ todo' = <<>> /\ UNCHANGED <<env, out>>
       ELSE /\ env' = IF i.as = "command" THEN env \cup {i.call} ELSE env
            /\ out' = Append(out, [call |-> i.call, as |-> i.as,
                                   shows |-> IF i.as \in Captures THEN env ELSE {}])
            /\ todo' = Tail(todo)
            /\ UNCHANGED alive
    /\ UNCHANGED <<given, ended, doing, phase, input, from, held, files, age, closed, promises>>

\* AgentCore.close, which a command's eviction calls under a running turn.
CloseCore ==
    /\ ~closed /\ uses # {}
    /\ closed' = TRUE
    /\ held' = FALSE /\ alive' = FALSE /\ todo' = <<>>
    /\ UNCHANGED <<given, ended, doing, phase, input, from, out, env, files, age, promises>>

\* Another core's snapshot pushes this one's towards the end of the directory.
OthersWrite ==
    /\ \E f \in DOMAIN files : There(f)
    /\ age' = [f \in DOMAIN age |-> IF age[f] < Keep THEN age[f] + 1 ELSE Keep]
    /\ UNCHANGED <<given, ended, doing, phase, input, from, held, alive, todo, out, env,
                   files, closed, promises>>

NextShell ==
    \/ \E c \in ShellCalls : Begin(c)
    \/ Returns \/ Fails \/ ExecTimesOut \/ Killed \/ StartDone
    \/ CancelCall \/ ShellRuns \/ CloseCore \/ OthersWrite

\* A wait for the shell has a time-out; a kill and a start end. A command need not.
FairShell == WF_shell(Returns \/ Fails \/ ExecTimesOut \/ Killed \/ StartDone)

ShellSpec == InitShell /\ [][NextShell]_shell /\ FairShell

-----------------------------------------------------------------------------
(* Properties *)

\* What a command that succeeded has exported is in effect in the shell and is shown to
\* every job that asks it, through time-outs, cancellations and the output these leave
\* behind, until the shell exits or is closed or replaced by the tool - or a time-out
\* finds no snapshot: its capture failed or was cancelled, the other cores' snapshots have
\* pushed it out of the directory, or its path means another file in the shell. What the
\* reading of a capture drops, its job or its snapshot goes without.
EffectsKept ==
    /\ alive => done \subseteq env
    /\ short = {}

\* No call waits for the shell. (Each is made once.)
NobodyWaitsForShell == phase = "idle"

\* A shell that takes the place of one whose command timed out has what the last snapshot
\* holds (bash_runtime.py: "超时重启时恢复").
TimeoutRestores ==
    [][phase = "starts" /\ from = "last" /\ There("last") /\ alive' => files["last"] \subseteq env']_shell
=============================================================================
