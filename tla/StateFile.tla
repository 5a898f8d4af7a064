----------------------------- MODULE StateFile -----------------------------
(***************************************************************************)
(* The consensus state file and all that write it whole: the commands of   *)
(* cli.py and tools.py, each of which loads it, works and saves it; the    *)
(* REST server (api.py) and the MCP server (mcp_server.py), which load it  *)
(* at the first call and keep the engine for as long as they run.  Nobody  *)
(* locks the file, and write_text truncates it before it writes.           *)
(*                                                                         *)
(* An engine is the set of the events of its chains.  A call of a server   *)
(* is one step but for its save: the MCP tools run on one event loop, and  *)
(* the threads of the REST server are the subject of module TaskApi.       *)
(***************************************************************************)
EXTENDS Naturals, FiniteSets

CONSTANTS
  Command,   \* processes that run commands
  AdminToken,\* whether the MCP server was given an admin token
  MaxMade, \* bound: events ever made
  MaxFaults, \* bound: saves that fail and processes that are killed
  MaxAtOnce  \* bound: commands and servers running at the same time

Server == {"api", "mcp"}
Writer == Command \cup Server

VARIABLES
  text,     \* the file: none, empty (truncated), partial or whole, and its events
  kept,     \* the events of the last complete save
  engine,   \* engine[w]: the events a writer holds in memory
  phase,    \* phase[w]: what the writer is doing
  missed,   \* missed[w]: another writer saved since w read the file
  blind,    \* blind[s]: the server took what was no whole file for an empty state
  made,     \* how many events were made
  faults    \* faults so far

fileVars == <<text, kept, engine, phase, missed, blind, made, faults>>

-----------------------------------------------------------------------------
Text(state, events) == [state |-> state, events |-> events]
Absent == Text("none", {})

Is(w, p) == phase[w] = p
Turn(w, p) == phase' = [phase EXCEPT ![w] = p]
Holds(w, events) == engine' = [engine EXCEPT ![w] = events]
UpToDate(w) == missed' = [missed EXCEPT ![w] = FALSE]
Room == Cardinality({v \in Writer : ~Is(v, "down")}) < MaxAtOnce
Leave(w) == Turn(w, "down") /\ Holds(w, {}) /\ UpToDate(w)

\* Mutant of CommandReads: a file that does not parse is a new state.
MutCommandReads(c) ==
  IF text.state \in {"none", "whole"}
  THEN Holds(c, text.events) /\ Turn(c, "loaded")
  ELSE Holds(c, {}) /\ Turn(c, "loaded")

\* cli._load_engine: no file is an empty engine; what does not parse, the empty
\* text included, ends the command.
CommandReads(c) ==
  IF text.state \in {"none", "whole"}
  THEN Holds(c, text.events) /\ Turn(c, "loaded")
  ELSE UNCHANGED <<engine, phase>>

StartCommand(c) ==
  /\ Is(c, "down") /\ Room /\ CommandReads(c) /\ UpToDate(c)
  /\ UNCHANGED <<text, kept, blind, made, faults>>

\* _cmd_runtime_run: the engine with the task and its events is never saved.
RunOnce(c) ==
  /\ Is(c, "loaded") /\ made < MaxMade
  /\ made' = made + 1
  /\ Leave(c)
  /\ UNCHANGED <<text, kept, blind, faults>>

\* A command refused by the registry ends without saving.
Refused(c) ==
  /\ Is(c, "loaded")
  /\ Leave(c)
  /\ UNCHANGED <<text, kept, blind, made, faults>>

\* Register what is registered: the command saves what it loaded.
SaveAsLoaded(c) ==
  /\ Is(c, "loaded") /\ Turn(c, "saving")
  /\ UNCHANGED <<text, kept, engine, missed, blind, made, faults>>

\* The work of a write command or tool.
MakeEvent(w) ==
  /\ made < MaxMade
  /\ made' = made + 1
  /\ Holds(w, engine[w] \cup {made'})
  /\ Turn(w, "saving")

Work(c) ==
  /\ Is(c, "loaded") /\ MakeEvent(c)
  /\ UNCHANGED <<text, kept, missed, blind, faults>>

-----------------------------------------------------------------------------
\* api._get_engine with _load_engine: an empty file is an empty state; the engine
\* is kept only when it was loaded to the end, so a torn file fails this call.
ApiLoads ==
  /\ Is("api", "down") /\ Room /\ text.state # "partial"
  /\ Holds("api", text.events) /\ Turn("api", "loaded") /\ UpToDate("api")
  /\ blind' = [blind EXCEPT !["api"] = (text.state = "empty")]
  /\ UNCHANGED <<text, kept, made, faults>>

\* mcp_server._get_engine: the engine is in its place before it is filled, so that
\* after a torn file failed this call the next one finds it, empty.
McpLoads ==
  /\ Is("mcp", "down") /\ Room
  /\ Holds("mcp", IF text.state = "partial" THEN {} ELSE text.events)
  /\ Turn("mcp", "loaded") /\ UpToDate("mcp")
  /\ blind' = [blind EXCEPT !["mcp"] = text.state \in {"empty", "partial"}]
  /\ UNCHANGED <<text, kept, made, faults>>

\* The write routes of the REST server.
ApiWrite ==
  /\ Is("api", "loaded") /\ MakeEvent("api")
  /\ UNCHANGED <<text, kept, missed, blind, faults>>

\* The tools adl_register, adl_transition and adl_fork.
McpWrite ==
  /\ Is("mcp", "loaded") /\ MakeEvent("mcp")
  /\ UNCHANGED <<text, kept, missed, blind, faults>>

\* adl_register of what is registered saves all the same.
McpSaveAsLoaded ==
  /\ Is("mcp", "loaded") /\ Turn("mcp", "saving")
  /\ UNCHANGED <<text, kept, engine, missed, blind, made, faults>>

\* The agent and task tools that write: only with an admin token.
McpGatedWrite == AdminToken /\ McpWrite

-----------------------------------------------------------------------------

\* write_text truncates,
EmptyFile(w) ==
  /\ Is(w, "saving")
  /\ text' = Text("empty", {}) /\ Turn(w, "writing")
  /\ UNCHANGED <<kept, engine, missed, blind, made, faults>>

\* writes a part
WritePart(w) ==
  /\ Is(w, "writing")
  /\ text' = Text("partial", {}) /\ Turn(w, "flushing")
  /\ UNCHANGED <<kept, engine, missed, blind, made, faults>>

\* and the rest.  Two writers at once leave one text or a mixture.
WriteRest(w) ==
  /\ Is(w, "flushing")
  /\ LET alone == \A v \in Writer \ {w} : ~Is(v, "writing") /\ ~Is(v, "flushing")
     IN  \/ text' = Text("whole", engine[w])
         \/ ~alone /\ text' = Text("partial", {})
  /\ kept' = IF text'.state = "whole" THEN engine[w] ELSE kept
  /\ missed' = [v \in Writer |-> IF v = w THEN w \in Server /\ missed[w]
                                          ELSE missed[v] \/ ~Is(v, "down")]
  /\ IF w \in Server THEN Turn(w, "loaded") /\ UNCHANGED engine
                     ELSE Turn(w, "down") /\ Holds(w, {})
  /\ UNCHANGED <<blind, made, faults>>

SaveStep(w) == EmptyFile(w) \/ WritePart(w) \/ WriteRest(w)

\* A save that raises, the disk being full: a command ends with the error, and a
\* server answers it and keeps the event in memory.
SaveFails(w) ==
  /\ phase[w] \in {"saving", "writing", "flushing"} /\ faults < MaxFaults
  /\ faults' = faults + 1
  /\ IF w \in Server THEN Turn(w, "loaded") /\ UNCHANGED <<engine, missed>> ELSE Leave(w)
  /\ UNCHANGED <<text, kept, blind, made>>

\* A process is killed, or a server restarted.
Kill(w) ==
  /\ ~Is(w, "down") /\ faults < MaxFaults
  /\ faults' = faults + 1
  /\ Leave(w)
  /\ blind' = [s \in Server |-> s # w /\ blind[s]]
  /\ UNCHANGED <<text, kept, made>>

-----------------------------------------------------------------------------
FileInit ==
  /\ text = Absent /\ kept = {} /\ engine = [w \in Writer |-> {}]
  /\ phase = [w \in Writer |-> "down"] /\ missed = [w \in Writer |-> FALSE]
  /\ blind = [s \in Server |-> FALSE]
  /\ made = 0 /\ faults = 0

CommandStep(c) == StartCommand(c) \/ RunOnce(c) \/ Refused(c) \/ SaveAsLoaded(c) \/ Work(c)
ServerStep == ApiLoads \/ ApiWrite \/ McpLoads \/ McpWrite \/ McpSaveAsLoaded \/ McpGatedWrite

FileNext ==
  \/ \E c \in Command : CommandStep(c)
  \/ ServerStep
  \/ \E w \in Writer : SaveStep(w) \/ SaveFails(w) \/ Kill(w)

FileSpec == FileInit /\ [][FileNext]_fileVars

-----------------------------------------------------------------------------
\* Saved events are lost only to a writer that read the file before they were saved,
\* or to a server that took a torn or truncated file for an empty state; a command
\* that cannot read the file never saves over it.
LostOnlyToStaleWriter ==
  [][~(kept \subseteq kept') =>
       \E w \in Writer : Is(w, "flushing") /\ (missed[w] \/ (w \in Server /\ blind[w]))]_fileVars

=============================================================================
