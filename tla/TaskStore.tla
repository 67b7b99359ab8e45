------------------------------ MODULE TaskStore ------------------------------
(***************************************************************************)
(* state/tasks.json and its audit trail events.jsonl                       *)
(* (src/railwarden/runtime/tasks.py, tasks/file_backend.py, util/atomic.py,*)
(* runtime/events.py).  The controller, every `warden` command, the MCP    *)
(* server and the supervisor write them, each in its own process and       *)
(* without a lock: a writer holds a record it loaded some time ago, and to *)
(* change it loads the whole file, puts its record in, replaces the file   *)
(* and appends an event.  The record's status stands for the record.  Two  *)
(* history variables say where processes got into each other's way.        *)
(***************************************************************************)
EXTENDS Naturals, Sequences

CONSTANTS
  Writers,    \* processes
  Tasks,
  Statuses,   \* TASK_STATES
  Terminal,   \* TERMINAL_TASK_STATES
  Planned,    \* the status a task is created with
  Absent,     \* a task that has no record
  Crashes,    \* TRUE when writers may be killed
  MaxEvents   \* bound: no transition starts once events.jsonl is that long

ASSUME ConstantsAssumption ==
  /\ Tasks # {}
  /\ Terminal \subseteq Statuses
  /\ Planned \in Statuses \ Terminal
  /\ Absent \notin Statuses
  /\ Crashes \in BOOLEAN
  /\ MaxEvents \in Nat

VARIABLES
  tasks,    \* the file: each task's status
  events,   \* the rows of events.jsonl about tasks
  writer,   \* each process's in-memory record and load of the file
  unlogged, \* history: tasks with a saved transition whose event was cut off
  behind,   \* history: what others wrote since a process took its copies
  raced     \* history: tasks saved by a process that was behind on them, or
            \* whose last transition another process had yet to log

history == <<unlogged, behind, raced>>
vars == <<tasks, events, writer, history>>

File == [Tasks -> Statuses \cup {Absent}]
Event == [task : Tasks, old : Statuses \cup {Absent}, new : Statuses]

(***************************************************************************)
(* pc: "idle"; "holding" the record of `task` with status `old`; "loaded"  *)
(* the file in `load`, to set the status to `new`; "saved", the event not  *)
(* yet written.                                                            *)
(***************************************************************************)
Local == [pc : {"idle", "holding", "loaded", "saved"},
          task : Tasks,
          old : Statuses \cup {Absent},
          new : Statuses,
          load : File]

At(w, pc) == writer[w].pc = pc

Become(w, local) == writer' = [writer EXCEPT ![w] = local]

\* A process starts with nothing in memory.
Nothing == [pc |-> "idle", task |-> CHOOSE t \in Tasks : TRUE, old |-> Absent,
            new |-> Planned, load |-> [t \in Tasks |-> Absent]]

Init ==
  /\ tasks = [t \in Tasks |-> Absent]
  /\ events = <<>>
  /\ writer = [w \in Writers |-> Nothing]
  /\ unlogged = {}
  /\ behind = [w \in Writers |-> {}]
  /\ raced = {}

\* A process has come to the copies it holds: `missed` are those overwritten.
Behind(w, missed) == behind' = [behind EXCEPT ![w] = missed]

\* load_tasks, and the loop or filter that picks one record.
Hold(w, t) ==
  /\ At(w, "idle")
  /\ tasks[t] # Absent
  /\ Become(w, [Nothing EXCEPT !.pc = "holding", !.task = t, !.old = tasks[t]])
  /\ UNCHANGED <<tasks, events, history>>

Release(w) ==
  /\ At(w, "holding")
  /\ Become(w, Nothing)
  /\ Behind(w, {})
  /\ UNCHANGED <<tasks, events, unlogged, raced>>

\* ensure_task of a package without a record.
EnsureTask(w, t) ==
  /\ At(w, "idle")
  /\ tasks[t] = Absent
  /\ Len(events) < MaxEvents
  /\ Become(w, [Nothing EXCEPT !.pc = "loaded", !.task = t, !.load = tasks])
  /\ UNCHANGED <<tasks, events, history>>

\* Mutated Transition: a terminal task may be moved as well.
TransitionUnchecked(w, status) ==
  /\ At(w, "holding")
  /\ Len(events) < MaxEvents
  /\ Become(w, [writer[w] EXCEPT !.pc = "loaded", !.new = status, !.load = tasks])
  /\ Behind(w, behind[w] \cap {writer[w].task})
  /\ UNCHANGED <<tasks, events, unlogged, raced>>

\* transition_task up to upsert_task's load: the terminal check looks at the
\* record in memory.
Transition(w, status) ==
  /\ At(w, "holding")
  /\ writer[w].old \in Terminal => status = writer[w].old
  /\ Len(events) < MaxEvents
  /\ Become(w, [writer[w] EXCEPT !.pc = "loaded", !.new = status, !.load = tasks])
  /\ Behind(w, behind[w] \cap {writer[w].task})
  /\ UNCHANGED <<tasks, events, unlogged, raced>>

\* The others are behind on what a save changes; a task is raced when its
\* saver was behind on it or overtakes another process's event.
Overtake(w) ==
  /\ behind' = [v \in Writers |->
                  IF v = w \/ At(v, "idle") THEN {}
                  ELSE behind[v] \cup {t \in Tasks : tasks'[t] # tasks[t]}]
  /\ raced' = raced \cup behind[w] \cup
       {t \in Tasks : t = writer[w].task /\
          \E v \in Writers \ {w} : At(v, "saved") /\ writer[v].task = t}

\* Mutated SaveTasks: writes a status that is not one of TASK_STATES.
SaveUnknownStatus(w) ==
  /\ At(w, "loaded")
  /\ tasks' = [writer[w].load EXCEPT ![writer[w].task] = "saved"]
  /\ Become(w, [writer[w] EXCEPT !.pc = "saved", !.load = Nothing.load])
  /\ Overtake(w)
  /\ UNCHANGED <<events, unlogged>>

\* save_tasks: os.replace of the whole file.
SaveTasks(w) ==
  /\ At(w, "loaded")
  /\ tasks' = [writer[w].load EXCEPT ![writer[w].task] = writer[w].new]
  /\ Become(w, [writer[w] EXCEPT !.pc = "saved", !.load = Nothing.load])
  /\ Overtake(w)
  /\ UNCHANGED <<events, unlogged>>

\* Mutated AppendEvent: the record in memory keeps its old status.
AppendEventStale(w) ==
  /\ At(w, "saved")
  /\ events' = Append(events, [task |-> writer[w].task, old |-> writer[w].old,
                               new |-> writer[w].new])
  /\ Become(w, [Nothing EXCEPT !.pc = "holding", !.task = writer[w].task,
                               !.old = writer[w].old])
  /\ UNCHANGED <<tasks, history>>

\* append_event; the caller goes on with the record it holds.
AppendEvent(w) ==
  /\ At(w, "saved")
  /\ events' = Append(events, [task |-> writer[w].task, old |-> writer[w].old,
                               new |-> writer[w].new])
  /\ Become(w, [Nothing EXCEPT !.pc = "holding", !.task = writer[w].task,
                               !.old = writer[w].new])
  /\ UNCHANGED <<tasks, history>>

\* The temporary file of a save that was cut short is never the file.
Crash(w) ==
  /\ Crashes
  /\ ~At(w, "idle")
  /\ Become(w, Nothing)
  /\ unlogged' = IF At(w, "saved") THEN unlogged \cup {writer[w].task} ELSE unlogged
  /\ Behind(w, {})
  /\ UNCHANGED <<tasks, events, raced>>

Next ==
  \E w \in Writers :
    \/ \E t \in Tasks : Hold(w, t) \/ EnsureTask(w, t)
    \/ \E status \in Statuses : Transition(w, status)
    \/ Release(w)
    \/ SaveTasks(w)
    \/ AppendEvent(w)
    \/ Crash(w)

Spec == Init /\ [][Next]_vars
-----------------------------------------------------------------------------
(***************************************************************************)
(* Properties                                                              *)
(***************************************************************************)
TypeOK ==
  /\ tasks \in File
  /\ events \in Seq(Event)
  /\ writer \in [Writers -> Local]
  /\ unlogged \subseteq Tasks
  /\ behind \in [Writers -> SUBSET Tasks]
  /\ raced \subseteq Tasks

\* However many processes write the file, and wherever they are killed, a save
\* changes a record only by the transition its event will name, from the
\* status the record has and out of no terminal one, unless the record was
\* written since the process took its copy of it: only a process that another
\* has overtaken undoes a transition or resurrects a terminal task.
FreshRecordsKept ==
  [][\A w \in Writers : At(w, "loaded") /\ At(w, "saved")' =>
       \A t \in Tasks \ behind[w] : tasks'[t] # tasks[t] =>
         /\ t = writer[w].task
         /\ tasks[t] = writer[w].old
         /\ tasks[t] \notin Terminal]_vars

\* The event ledger explains the file: but for tasks with a writer killed
\* between save and event, and tasks on which two processes raced, a task has
\* the status of its last event unless the next is still owed, and its events
\* follow each other, each from the status the one before it left.
Rows(t) == {i \in DOMAIN events : events[i].task = t}

Last(S) == CHOOSE i \in S : \A j \in S : j <= i

StatusAfter(rows) == IF rows = {} THEN Absent ELSE events[Last(rows)].new

Owed(t) == \E w \in Writers : At(w, "saved") /\ writer[w].task = t

EventsExplainTasks ==
  \A t \in Tasks \ (unlogged \cup raced) :
    /\ Owed(t) \/ tasks[t] = StatusAfter(Rows(t))
    /\ \A i \in Rows(t) : events[i].old = StatusAfter({j \in Rows(t) : j < i})
=============================================================================
