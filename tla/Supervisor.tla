----------------------------- MODULE Supervisor -----------------------------
(***************************************************************************)
(* Failed workers under supervision_mode "hermes": the controller asks for *)
(* a decision (engine/controller.py, runtime/decisions.py) and another     *)
(* process, `warden hermes supervisor` (cli/main.py), takes it.  They      *)
(* share tasks.json, events.jsonl and the process records, and nothing is  *)
(* locked; the supervisor keeps a cursor into the events in a file of its  *)
(* own.  Of the events only those of type decision_required are modelled.  *)
(***************************************************************************)
EXTENDS Naturals, Sequences

CONSTANTS
  Tasks,
  MaxEvents,   \* bound: decision_required events
  MaxKills,    \* bound: kills of the controller and of the supervisor
  MaxRetries   \* bound: `warden retry` commands

ASSUME SupervisorAssumption == {MaxEvents, MaxKills, MaxRetries} \subseteq Nat

VARIABLES
  status,    \* each task's status
  work,      \* its worktree: untouched, with clean commits, or dirty
  process,   \* its process record: none, of a live or of a dead process
  result,    \* whether a result file for it exists
  events,    \* the decision_required rows of events.jsonl
  ctl,       \* what the controller is in the middle of
  cursor,    \* supervisor/state.json
  sup,       \* the supervisor's memory
  kills, retries,
  open,      \* history: tasks whose last wait the supervisor has not answered
  looked     \* history: the last event the supervisor has looked at

tasks == <<status, work, process, result>>
history == <<open, looked>>
vars == <<tasks, events, ctl, cursor, sup, kills, retries, history>>

Active == {"running", "validating"}

Statuses == Active \cup {"ready", "decision_required", "handoff_needed", "blocked", "merged"}

\* What a failure is called decides what is done about it:
\* missing_worker_result_with_commit; quota, authentication and quoting; any
\* other; and those for which only a person or a repair will do.
Kinds == {"committed", "provider", "transient", "contract"}

Event == [task : Tasks, kind : Kinds]

Waits(t) == status[t] = "decision_required"

NotBusy == [pc |-> "idle"]
Sleeping == [pc |-> "idle"]

Init ==
  /\ status = [t \in Tasks |-> "ready"]
  /\ work = [t \in Tasks |-> "untouched"]
  /\ process = [t \in Tasks |-> "none"]
  /\ result = [t \in Tasks |-> FALSE]
  /\ events = <<>>
  /\ ctl = NotBusy
  /\ cursor = 0
  /\ sup = Sleeping
  /\ kills = 0
  /\ retries = 0
  /\ open = {}
  /\ looked = 0

\* transition_task; `open` is the history's.
Transition(t, new) ==
  /\ status' = [status EXCEPT ![t] = new]
  /\ open' = IF new = "decision_required" THEN open \cup {t} ELSE open

-----------------------------------------------------------------------------
(***************************************************************************)
(* Workers                                                                 *)
(***************************************************************************)
\* A worker ends with or without commits and result; commits stay.
WorkerEnds(t) ==
  /\ process[t] = "alive"
  /\ process' = [process EXCEPT ![t] = "dead"]
  /\ \E left \in {"untouched", "clean", "dirty"}, written \in BOOLEAN :
       /\ left = "untouched" => work[t] = "untouched"
       /\ written => left = "clean"
       /\ work' = [work EXCEPT ![t] = left]
       /\ result' = [result EXCEPT ![t] = @ \/ written]
  /\ UNCHANGED <<status, events, ctl, cursor, sup, kills, retries, history>>

-----------------------------------------------------------------------------
(***************************************************************************)
(* The controller, which does one thing at a time                          *)
(***************************************************************************)
\* hydrate_task_state classifies a package and then moves its task.
Hydratable(t) ==
  /\ status[t] \notin Active \cup {"merged", "blocked"}
  /\ work[t] \in {"untouched", "dirty"}

Hydrate(t) ==
  /\ ctl.pc = "idle"
  /\ Hydratable(t)
  /\ status[t] # "ready"
  /\ ctl' = [pc |-> "hydrating", task |-> t]
  /\ UNCHANGED <<tasks, events, cursor, sup, kills, retries, history>>

\* The status it saves is that of the record it loaded before.
HydrateSave ==
  /\ ctl.pc = "hydrating"
  /\ Transition(ctl.task, "ready")
  /\ ctl' = NotBusy
  /\ UNCHANGED <<work, process, result, events, cursor, sup, kills, retries,
                 looked>>

\* An active task without a process record: no event is written.
MissingRecord(t) ==
  /\ ctl.pc = "idle"
  /\ status[t] \in Active
  /\ process[t] = "none"
  /\ Transition(t, "decision_required")
  /\ UNCHANGED <<work, process, result, events, ctl, cursor, sup, kills,
                 retries, looked>>

\* A result is there: validation and review accept it, and the package is
\* merged, or the task is handed off, or no provider is left for it.
Reconcile(t) ==
  /\ ctl.pc = "idle"
  /\ status[t] \in Active
  /\ process[t] # "none"
  /\ result[t]
  /\ \E new \in {"merged", "handoff_needed", "blocked"} : Transition(t, new)
  /\ UNCHANGED <<work, process, result, events, ctl, cursor, sup, kills,
                 retries, looked>>

\* _require_decision writes the event of a worker that died without a result
\* first and moves the task afterwards.
RequireDecision(t) ==
  /\ ctl.pc = "idle"
  /\ status[t] \in Active
  /\ process[t] = "dead"
  /\ ~result[t]
  /\ Len(events) < MaxEvents
  /\ \E kind \in Kinds :
       /\ (kind = "committed") <=> (work[t] = "clean")
       /\ events' = Append(events, [task |-> t, kind |-> kind])
  /\ ctl' = [pc |-> "asking", task |-> t]
  /\ UNCHANGED <<tasks, cursor, sup, kills, retries, history>>

RequireDecisionSave ==
  /\ ctl.pc = "asking"
  /\ Transition(ctl.task, "decision_required")
  /\ ctl' = NotBusy
  /\ UNCHANGED <<work, process, result, events, cursor, sup, kills, retries,
                 looked>>

\* Only a task that was handed off is launched into a dirty worktree.
Launch(t) ==
  /\ ctl.pc = "idle"
  /\ status[t] \in {"ready", "handoff_needed"}
  /\ IF status[t] = "ready" /\ work[t] = "dirty"
       THEN Transition(t, "blocked") /\ UNCHANGED process
       ELSE /\ Transition(t, "running")
            /\ process' = [process EXCEPT ![t] = "alive"]
  /\ UNCHANGED <<work, result, events, ctl, cursor, sup, kills, retries,
                 looked>>

\* A kill after the task is assigned leaves it without a process.
KillAtLaunch(t) ==
  /\ ctl.pc = "idle"
  /\ kills < MaxKills
  /\ status[t] = "ready" /\ work[t] # "dirty"
  /\ Transition(t, "running")
  /\ kills' = kills + 1
  /\ UNCHANGED <<work, process, result, events, ctl, cursor, sup, retries,
                 looked>>

KillController ==
  /\ ctl.pc # "idle"
  /\ kills < MaxKills
  /\ kills' = kills + 1
  /\ ctl' = NotBusy
  /\ UNCHANGED <<tasks, events, cursor, sup, retries, history>>

-----------------------------------------------------------------------------
(***************************************************************************)
(* The supervisor                                                          *)
(***************************************************************************)
\* Load the events and the cursor.
Read ==
  /\ sup.pc = "idle"
  /\ cursor < Len(events)
  /\ sup' = [pc |-> "scanning", length |-> Len(events), index |-> cursor + 1]
  /\ UNCHANGED <<tasks, events, ctl, cursor, kills, retries, history>>

Observed == events[sup.index]

\* Mutated LookAt: what the event asks for is done whatever the task's status.
LookAtEvent ==
  /\ sup.pc = "scanning" /\ sup.index <= sup.length
  /\ sup' = [sup EXCEPT !.pc = "acting"]
  /\ looked' = IF sup.index > looked THEN sup.index ELSE looked
  /\ UNCHANGED <<tasks, events, ctl, cursor, kills, retries, open>>

\* The event of a task that does not wait for a decision is passed over.
LookAt ==
  /\ sup.pc = "scanning" /\ sup.index <= sup.length
  /\ sup' = IF Waits(Observed.task) THEN [sup EXCEPT !.pc = "acting"]
                                    ELSE [sup EXCEPT !.index = @ + 1]
  /\ looked' = IF sup.index > looked THEN sup.index ELSE looked
  /\ UNCHANGED <<tasks, events, ctl, cursor, kills, retries, open>>

\* _choose_supervisor_action, by the kind the event names.
Choice(kind) == CASE kind = "committed" -> "validating"
                  [] kind = "provider" -> "handoff_needed"
                  [] kind = "transient" -> "ready"
                  [] kind = "contract" -> "blocked"

CanNormalize(t) == result[t] \/ work[t] # "dirty"

\* The task record it saves is the one it loaded when it looked.
Act ==
  /\ sup.pc = "acting"
  /\ Observed.kind = "committed" => CanNormalize(Observed.task)
  /\ status' = [status EXCEPT ![Observed.task] = Choice(Observed.kind)]
  /\ open' = open \ {Observed.task}
  /\ result' = [result EXCEPT ![Observed.task] = @ \/ Observed.kind = "committed"]
  /\ sup' = [sup EXCEPT !.pc = "acted"]
  /\ UNCHANGED <<work, process, events, ctl, cursor, kills, retries, looked>>

\* normalize_result raises, and nothing in the loop catches it.
Die ==
  /\ sup.pc = "acting"
  /\ Observed.kind = "committed" /\ ~CanNormalize(Observed.task)
  /\ sup' = [pc |-> "dead"]
  /\ UNCHANGED <<tasks, events, ctl, cursor, kills, retries, history>>

\* Mutated SaveCursor: the end of what was read instead of the event acted on.
SaveCursorAtEnd ==
  /\ sup.pc = "acted"
  /\ cursor' = sup.length
  /\ sup' = [sup EXCEPT !.pc = "scanning", !.index = @ + 1]
  /\ UNCHANGED <<tasks, events, ctl, kills, retries, history>>

\* Mutated SaveCursor: the event after the one acted on.
SaveCursorPast ==
  /\ sup.pc = "acted"
  /\ cursor' = sup.index + 1
  /\ sup' = [sup EXCEPT !.pc = "scanning", !.index = @ + 1]
  /\ UNCHANGED <<tasks, events, ctl, kills, retries, history>>

\* record_decision, which nobody reads, and the cursor after it.
SaveCursor ==
  /\ sup.pc = "acted"
  /\ cursor' = sup.index
  /\ sup' = [sup EXCEPT !.pc = "scanning", !.index = @ + 1]
  /\ UNCHANGED <<tasks, events, ctl, kills, retries, history>>

Scanned == sup.pc = "scanning" /\ sup.index > sup.length

\* Mutated Sleep: the cursor is set to the end the events have by now.
SleepAtEnd ==
  /\ Scanned
  /\ cursor' = Len(events)
  /\ sup' = Sleeping
  /\ UNCHANGED <<tasks, events, ctl, kills, retries, history>>

Sleep ==
  /\ Scanned
  /\ cursor' = sup.length
  /\ sup' = Sleeping
  /\ UNCHANGED <<tasks, events, ctl, kills, retries, history>>

\* `--once` returns before the cursor is moved past what was passed over.
Return ==
  /\ Scanned
  /\ sup' = Sleeping
  /\ UNCHANGED <<tasks, events, ctl, cursor, kills, retries, history>>

KillSupervisor ==
  /\ sup.pc \notin {"idle", "dead"}
  /\ kills < MaxKills
  /\ kills' = kills + 1
  /\ sup' = Sleeping
  /\ UNCHANGED <<tasks, events, ctl, cursor, retries, history>>

-----------------------------------------------------------------------------
\* `warden retry`
Retry(t) ==
  /\ retries < MaxRetries
  /\ status[t] # "merged"
  /\ retries' = retries + 1
  /\ Transition(t, "ready")
  /\ UNCHANGED <<work, process, result, events, ctl, cursor, sup, kills,
                 looked>>

Controls ==
  \/ \E t \in Tasks :
       Hydrate(t) \/ MissingRecord(t) \/ Reconcile(t) \/ RequireDecision(t) \/ Launch(t)
  \/ HydrateSave
  \/ RequireDecisionSave

Supervises == Read \/ LookAt \/ Act \/ Die \/ SaveCursor \/ Sleep

Kill == KillController \/ KillSupervisor \/ \E t \in Tasks : KillAtLaunch(t)

Next ==
  \/ Controls
  \/ Supervises
  \/ Return
  \/ Kill
  \/ \E t \in Tasks : WorkerEnds(t) \/ Retry(t)

Spec == Init /\ [][Next]_vars

\* Both loops go on; workers need not end.
FairSpec == Spec /\ WF_vars(Controls) /\ WF_vars(Supervises)

-----------------------------------------------------------------------------
(***************************************************************************)
(* Properties                                                              *)
(***************************************************************************)
TypeOK ==
  /\ status \in [Tasks -> Statuses]
  /\ work \in [Tasks -> {"untouched", "clean", "dirty"}]
  /\ process \in [Tasks -> {"none", "alive", "dead"}]
  /\ result \in [Tasks -> BOOLEAN]
  /\ events \in Seq(Event)
  /\ ctl \in [pc : {"idle"}] \cup [pc : {"hydrating", "asking"}, task : Tasks]
  /\ cursor \in 0 .. Len(events)
  /\ sup \in [pc : {"idle", "dead"}]
             \cup [pc : {"scanning", "acting", "acted"},
                   length : 1 .. Len(events), index : 1 .. Len(events) + 1]

\* However often the supervisor is killed and starts again from its cursor,
\* it ends each wait for a decision once.
AnsweredOnce ==
  [][sup.pc = "acting" /\ sup'.pc = "acted" => Observed.task \in open]_vars

\* The cursor never passes an event that the supervisor has not looked at.
NoneUnseen == cursor <= looked

\* The next event the supervisor will look at.
NextIndex ==
  CASE sup.pc \in {"idle", "dead"} -> cursor + 1
    [] sup.pc \in {"scanning", "acting"} -> sup.index
    [] OTHER -> sup.index + 1

EventAhead(t) == \E i \in DOMAIN events : i >= NextIndex /\ events[i].task = t

\* A task that waits for a decision does not wait for ever while an event of
\* its is still ahead of the supervisor, unless that event kills it.
AheadIsAnswered ==
  \A t \in Tasks : Waits(t) /\ EventAhead(t) ~> (~Waits(t) \/ sup.pc = "dead")

\* No task waits for ever for a decision.
WaitsEnd == \A t \in Tasks : Waits(t) ~> (~Waits(t) \/ sup.pc = "dead")
=============================================================================
