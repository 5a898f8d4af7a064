------------------------------ MODULE TaskApi ------------------------------
(***************************************************************************)
(* The REST side of a task (api.py, /api/v1/tasks/...): plain functions,   *)
(* which FastAPI runs on a pool of threads, over one engine per tenant     *)
(* with no lock around a request.  A request derives the status from a     *)
(* copy of the chain, checks the transition, appends, copies the chain     *)
(* again for the state file, truncates the file and writes it.  Each of    *)
(* these is one step; chain.events and chain.append lock the chain.        *)
(*                                                                         *)
(* One task of one tenant.  The text of the state file is the sequence of  *)
(* the events it lists and an end mark: two threads with the file open     *)
(* each write from offset 0, so a shorter text leaves the tail of a longer *)
(* one behind it.                                                          *)
(***************************************************************************)
EXTENDS TaskChain, SequencesExt

CONSTANTS
  Thread,     \* the threads of the pool
  MaxTaskEvents, \* bound: no request is taken once the chain is this long
  MaxCrashes  \* bound: crashes of the server process

VARIABLES
  task,   \* the events in memory; <<>> while the task does not exist
  request, \* request[th]: what the thread is doing
  taskFile,    \* the text of the state file
  up,      \* the process runs
  crashes, \* crashes so far
  overlap  \* history: two requests were being served at once

taskVars == <<task, request, taskFile, up, crashes, overlap>>

\* There is no handler for assign.
Op == {"claim", "submit", "accept", "reject", "close"}
Event == [type : StatusEvent]
End == [type |-> "end"]
Idle == [phase |-> "idle", op |-> "create", copy |-> <<>>]

Quiet == \A th \in Thread : request[th] = Idle
At(th, phase) == up /\ request[th].phase = phase
Goto(th, phase, op, copy) ==
  request' = [request EXCEPT ![th] = [phase |-> phase, op |-> op, copy |-> copy]]

\* What json.loads makes of the text: nothing of an empty one; it fails unless
\* the end mark is the last thing and the only one.
Loadable(text) ==
  text # <<>> => text[Len(text)] = End /\ \A i \in 1..(Len(text) - 1) : text[i] # End
Loaded(text) == IF text = <<>> THEN <<>> ELSE Front(text)

\* _guard_transition; an unknown task is refused.
Allowed(events, op) ==
  events # <<>> /\ EventStatus[op] \in TaskTransitions[DeriveStatus(events)]

-----------------------------------------------------------------------------
\* api_task_create: a fresh task id and no guard.
Create(th) ==
  /\ At(th, "idle") /\ task = <<>>
  /\ task' = <<[type |-> "create"]>>
  /\ Goto(th, "appended", "create", <<>>)
  /\ overlap' = (overlap \/ ~Quiet)
  /\ UNCHANGED <<taskFile, up, crashes>>

\* Mutant of Guard: any known task may be moved anywhere.
MutGuard(th, op) ==
  /\ At(th, "idle") /\ Len(task) < MaxTaskEvents
  /\ task # <<>>
  /\ Goto(th, "guarded", op, task)
  /\ overlap' = (overlap \/ ~Quiet)
  /\ UNCHANGED <<task, taskFile, up, crashes>>

\* The copy the guard reads; a refused request (409) changes nothing.
Guard(th, op) ==
  /\ At(th, "idle") /\ Len(task) < MaxTaskEvents
  /\ Allowed(task, op)
  /\ Goto(th, "guarded", op, task)
  /\ overlap' = (overlap \/ ~Quiet)
  /\ UNCHANGED <<task, taskFile, up, crashes>>

\* TaskRegistry._append
AppendTask(th) ==
  /\ At(th, "guarded")
  /\ task' = Append(task, [type |-> request[th].op])
  /\ Goto(th, "appended", request[th].op, request[th].copy)
  /\ UNCHANGED <<taskFile, up, crashes, overlap>>

\* _save_engine builds the payload.
Snapshot(th) ==
  /\ At(th, "appended")
  /\ Goto(th, "copied", request[th].op, task)
  /\ UNCHANGED <<task, taskFile, up, crashes, overlap>>

\* write_text opens the file, which empties it,
Truncate(th) ==
  /\ At(th, "copied")
  /\ taskFile' = <<>>
  /\ Goto(th, "opened", request[th].op, request[th].copy)
  /\ UNCHANGED <<task, up, crashes, overlap>>

\* and writes over what another thread may have written meanwhile.  The request
\* is then answered.
Write(th) ==
  /\ At(th, "opened")
  /\ LET text == Append(request[th].copy, End)
     IN  taskFile' = text \o SubSeq(taskFile, Len(text) + 1, Len(taskFile))
  /\ request' = [request EXCEPT ![th] = Idle]
  /\ UNCHANGED <<task, up, crashes, overlap>>

\* The process dies between any two steps.
Crash ==
  /\ up /\ crashes < MaxCrashes
  /\ up' = FALSE /\ crashes' = crashes + 1
  /\ request' = [th \in Thread |-> Idle]
  /\ UNCHANGED <<task, taskFile, overlap>>

\* _load_engine at the first request; it raises while the file does not parse.
RestartServer ==
  /\ ~up /\ Loadable(taskFile)
  /\ up' = TRUE /\ task' = Loaded(taskFile)
  /\ UNCHANGED <<request, taskFile, crashes, overlap>>

-----------------------------------------------------------------------------
TaskInit ==
  /\ task = <<>> /\ request = [th \in Thread |-> Idle]
  /\ taskFile = <<>> /\ up = TRUE /\ crashes = 0 /\ overlap = FALSE

Save(th) == Snapshot(th) \/ Truncate(th) \/ Write(th)

TaskNext ==
  \/ \E th \in Thread :
       Create(th) \/ (\E op \in Op : Guard(th, op)) \/ AppendTask(th) \/ Save(th)
  \/ Crash
  \/ RestartServer

TaskSpec == TaskInit /\ [][TaskNext]_taskVars

-----------------------------------------------------------------------------
\* Whatever the interleaving and the crashes, an event of the chain was allowed
\* by some earlier state of it: a race of two requests can repeat or contradict
\* a step of the lifecycle, but never skip one (a verdict without a submission, a
\* submission nobody claimed).
EveryEventWasAllowed ==
  \A i \in 2..Len(task) : \E j \in 1..(i - 1) :
    Allowed(SubSeq(task, 1, j), task[i].type)

\* A state file that parses is a past of the chain: a restart loses a suffix of
\* the events and never invents, reorders or drops one in the middle.  As long as no two
\* requests overlapped and the process did not die, at rest it loses nothing.
FileIsAPast ==
  /\ up /\ Loadable(taskFile) => IsPrefix(Loaded(taskFile), task)
  /\ ~overlap /\ up /\ crashes = 0 /\ task # <<>> /\ Quiet => taskFile = Append(task, End)

\* The record of a task, in memory and in the file, is one that the guards allow
\* (tasks.py, api.py).
TaskRecordHolds == EveryEventWasAllowed /\ FileIsAPast

=============================================================================
