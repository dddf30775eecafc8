------------------------------ MODULE MCTools ------------------------------
(* Small instances of what a tool call of an agent can wait for: a person    *)
(* (Questions), another agent (Messages), an MCP server (Mcp), the shell     *)
(* (Shell). The four share no state and a behaviour moves one of them: the   *)
(* others have nothing to do.                                                *)
EXTENDS Questions, Messages, Mcp, Shell, TLC

CONSTANTS bash, file, danger, batch, p1, p2, q1, q2, yes, no,
          parent, child, t, u, c1, c2, boot, manual,
          one, two, leave, run, again

MCCalls == {bash, file, danger, batch}
MCScenarios == {{}, {bash, file}, {file, danger}, {danger, batch}}
MCKind == [c \in MCCalls |-> CASE c = danger -> "ticket" [] c = batch -> "batch" [] OTHER -> "path"]
MCWants == [c \in MCCalls |-> CASE c = bash -> {p1, p2} [] c = file -> {p1} [] OTHER -> {}]

MCTurnOf == (t :> parent) @@ (u :> child)
MCHappenings == {{}, {t, "cancel"}, {t, "stop"}, {u, "end"}, {t, u}}

Job(does, c, s, task) == [does |-> does, core |-> c, server |-> s, task |-> task]
MCBoot == <<boot>>
Whole == {Job("load", c1, boot, "turn1"), Job("close", c1, boot, "ttl"),
          Job("load", c2, boot, "turn2"), Job("close", c2, boot, "turn2")}
Attach == Job("attach", c1, manual, "command1")
Other == Job("attach", c2, manual, "command2")
Again == Job("attach", c1, manual, "command2")
Detach == Job("detach", c1, manual, "command3")
Reload == Job("reload", c1, manual, "command4")
MCJobs == Whole \cup {Attach, Other, Again, Detach, Reload}
MCPlans == {{}, Whole \cup {Attach, Other, Again}, Whole \cup {Attach, Other, Detach},
            Whole \cup {Attach, Other, Reload},
            {j \in MCJobs : j.core = c1}}

MCDoes == [c \in {one, two, leave, run, again} |->
    CASE c = leave -> "exit" [] c = run -> "job" [] c = again -> "restart" [] OTHER -> "export"]
MCShellPlans == {{}, {one, two, run}, {one, again, two}, {one, leave, run}}

-----------------------------------------------------------------------------
Moves == (IF \A c \in Calls : call[c] = "unused" THEN {} ELSE {"asks"})
         \cup (IF plan = {} THEN {} ELSE {"talks"})
         \cup (IF jobs = {} THEN {} ELSE {"connects"})
         \cup (IF uses = {} THEN {} ELSE {"runs"})

ToolsInit ==
    /\ Init /\ InitTalk /\ InitMcp /\ InitShell
    /\ Cardinality(Moves) <= 1
    /\ (uses = {} => enabled) /\ (enabled => resolves)

ToolsNext ==
    \/ Next /\ UNCHANGED <<talk, mcp, shell>>
    \/ NextTalk /\ UNCHANGED <<vars, mcp, shell>>
    \/ NextMcp /\ UNCHANGED <<vars, talk, shell>>
    \/ NextShell /\ UNCHANGED <<vars, talk, mcp>>

ToolsSpec ==
    /\ ToolsInit /\ [][ToolsNext]_<<vars, talk, mcp, shell>>
    /\ FairAsks /\ FairTalk /\ FairMcp /\ FairShell

\* Whatever a tool call waits for - a person, another agent, a server to start or to stop,
\* the pool's lock, a command - it ends, and so does whoever waits behind it in a
\* session's line or for the kernel to stop.
WaitsEnd == <>[](NobodyAsks /\ NobodyTalks /\ NobodyConnects /\ NobodyWaitsForShell)
=============================================================================
