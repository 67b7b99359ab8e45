------------------------------- MODULE Panes -------------------------------
(***************************************************************************)
(* How the controller starts a worker and keeps sight of it: launch_task   *)
(* and reconcile_processes of engine/controller.py, the runner that        *)
(* processes/tmux_runner.py injects into a tmux pane, the headless launch  *)
(* of processes/supervisor.py, and the stop of the session in              *)
(* tmux/session.py.  A task has one process record, processes/<task>.json, *)
(* that the controller and the runners of all its attempts write.  Which   *)
(* task is next, and when a slot is free, is Controller's; here it is any. *)
(***************************************************************************)
EXTENDS Naturals, FiniteSets, FiniteSetsExt

CONSTANTS
  Tasks,
  Panes,        \* the worker panes; an agent beyond the fifth has none
  MaxLaunches,  \* bound: launches, of all tasks
  MaxFaults     \* bound: kills, dead panes, failed launches, stops, retries

ASSUME PanesAssumption ==
  /\ MaxLaunches \in Nat \ {0}
  /\ MaxFaults \in Nat

VARIABLES
  status,    \* each task's status
  attempt,   \* its last launch; each gets a number, and its process that pid
  record,    \* its process record
  old,       \* tasks whose record has not been written for TMUX_STALE_SECONDS
  result,    \* tasks with a result file
  workers,   \* the provider processes that live
  pane,      \* what is in each pane
  ctl,       \* where the controller is in a launch
  stopping,  \* `warden stop` is between the processes and the session
  faults,
  loose      \* history: tasks with a worker the records lost sight of

work == <<status, attempt, result>>
files == <<record, old>>
vars == <<work, files, workers, pane, ctl, stopping, faults, loose>>

Active == {"assigned", "running"}
Run == [task : Tasks, n : 1 .. MaxLaunches]
NoPane == "none"
Launches == Max({attempt[t] : t \in Tasks})
LiveOf(t) == {r \in workers : r.task = t}

\* A record: pid 0 until a process is known; "tmux" marks a pane's record.
Rec(state, pid, mode) == [state |-> state, pid |-> pid, mode |-> mode]
NoRecord == Rec("none", 0, "plain")
Torn == Rec("torn", 0, "plain")      \* opened for writing, and not written yet
Readable(r) == r.state \notin {"none", "torn"}

Empty(at) == [at |-> at]
Busy(at, run) == [at |-> at, run |-> run]
IsBusy(p) == pane[p].at \notin {"idle", "dead", "gone"}

Idle == [pc |-> "idle"]
Dead == [pc |-> "dead"]

Init ==
  /\ status = [t \in Tasks |-> "waiting"]
  /\ attempt = [t \in Tasks |-> 0]
  /\ record = [t \in Tasks |-> NoRecord]
  /\ old = {}
  /\ result = {}
  /\ workers = {}
  /\ pane = [p \in Panes |-> Empty("idle")]
  /\ ctl = Idle
  /\ stopping = FALSE
  /\ faults = 0
  /\ loose = {}

Write(t, r) ==
  /\ record' = [record EXCEPT ![t] = r]
  /\ old' = old \ {t}

-----------------------------------------------------------------------------
(***************************************************************************)
(* launch_task                                                             *)
(***************************************************************************)
At(pc) == ctl.pc = pc
Fault == faults < MaxFaults /\ faults' = faults + 1

\* The attempt is counted, assigned is saved, and the agent's pane is looked
\* up; pane_alive only asks whether there is a tmux server, so that the pane
\* may be gone.
Assign(t) ==
  /\ At("idle")
  /\ status[t] = "waiting"
  /\ Launches < MaxLaunches
  /\ attempt' = [attempt EXCEPT ![t] = Launches + 1]
  /\ status' = [status EXCEPT ![t] = "assigned"]
  /\ \E p \in Panes \cup {NoPane} :
       ctl' = [pc |-> "assigned", run |-> [task |-> t, n |-> attempt'[t]], pane |-> p]
  /\ UNCHANGED <<files, result, workers, pane, stopping, faults, loose>>

\* launch_tmux_managed: a launching record, before anything runs.
Stamp ==
  /\ At("assigned") /\ ctl.pane # NoPane
  /\ Write(ctl.run.task, Rec("launching", 0, "tmux"))
  /\ ctl' = [ctl EXCEPT !.pc = "stamped"]
  /\ UNCHANGED <<work, workers, pane, stopping, faults, loose>>

Launched(base) == [pc |-> "launched", run |-> ctl.run, base |-> base]

\* C-c ends what runs in the pane, its runner and its worker; then the script
\* is typed.  A dead pane takes the keys, and nothing happens.
Inject ==
  /\ At("stamped") /\ pane[ctl.pane].at # "gone"
  /\ IF pane[ctl.pane].at = "dead" THEN UNCHANGED pane
       ELSE pane' = [pane EXCEPT ![ctl.pane] = Busy("starting", ctl.run)]
  /\ workers' = IF IsBusy(ctl.pane) THEN workers \ {pane[ctl.pane].run} ELSE workers
  /\ ctl' = Launched(Rec("launching", 0, "tmux"))
  /\ UNCHANGED <<work, files, stopping, faults, loose>>

\* launch_managed, without a pane or where the pane is gone.
Spawn ==
  /\ \/ At("assigned") /\ ctl.pane = NoPane
     \/ At("stamped") /\ pane[ctl.pane].at = "gone"
  /\ workers' = workers \cup {ctl.run}
  /\ ctl' = [ctl EXCEPT !.pc = "spawned"]
  /\ UNCHANGED <<work, files, pane, stopping, faults, loose>>

\* The executable is not there: Popen raises, and the controller with it.
SpawnFails ==
  /\ \/ At("assigned") /\ ctl.pane = NoPane
     \/ At("stamped") /\ pane[ctl.pane].at = "gone"
  /\ Fault
  /\ ctl' = Dead
  /\ UNCHANGED <<work, files, workers, pane, stopping, loose>>

RecordSpawned ==
  /\ At("spawned")
  /\ Write(ctl.run.task, Rec("running", ctl.run.n, "plain"))
  /\ ctl' = Launched(IF ctl.pane = NoPane THEN Rec("running", ctl.run.n, "plain")
                                          ELSE Rec("launching", ctl.run.n, "tmux"))
  /\ UNCHANGED <<work, workers, pane, stopping, faults, loose>>

Rank(state) == CASE state = "launching" -> 0 [] state = "running" -> 1
                 [] state = "exited" -> 2

\* Mutant: the launcher knows the pid best.
MergePid(existing, base) ==
  IF ~Readable(existing) THEN base
  ELSE Rec(IF Rank(existing.state) >= Rank(base.state) THEN existing.state ELSE base.state,
           base.pid,
           IF existing.mode = "tmux" THEN "tmux" ELSE base.mode)

\* _merge_process_launch_record
Merge(existing, base) ==
  IF ~Readable(existing) THEN base
  ELSE Rec(IF Rank(existing.state) >= Rank(base.state) THEN existing.state ELSE base.state,
           IF existing.pid > 0 THEN existing.pid ELSE base.pid,
           IF existing.mode = "tmux" THEN "tmux" ELSE base.mode)

ReadRecord ==
  /\ At("launched")
  /\ LET seen == record[ctl.run.task]
     IN ctl' = [pc |-> "read", run |-> ctl.run, seen |-> seen,
                merged |-> Merge(seen, ctl.base)]
  /\ UNCHANGED <<work, files, workers, pane, stopping, faults, loose>>

\* What a runner wrote since the record was read is gone.
WriteRecord ==
  /\ At("read")
  /\ LET t == ctl.run.task
     IN /\ Write(t, ctl.merged)
        /\ status' = [status EXCEPT ![t] = "running"]
        /\ loose' = IF record[t] # ctl.seen THEN loose \cup {t} ELSE loose
  /\ ctl' = Idle
  /\ UNCHANGED <<attempt, result, workers, pane, stopping, faults>>

-----------------------------------------------------------------------------
(***************************************************************************)
(* _visible_runner_script, in a pane; write_text empties the file first    *)
(***************************************************************************)
Runner(p, from, to) ==
  /\ pane[p].at = from
  /\ pane' = [pane EXCEPT ![p] = to]

\* A runner that outlives its attempt writes over the next one's record.
RunnerWrites(p, r) ==
  LET t == pane[p].run.task
  IN /\ Write(t, r)
     /\ loose' = IF pane[p].run.n # attempt[t] THEN loose \cup {t} ELSE loose

RunnerSpawns(p) ==
  /\ Runner(p, "starting", Busy("spawned", pane[p].run))
  /\ workers' = workers \cup {pane[p].run}
  /\ UNCHANGED <<work, files, ctl, stopping, faults, loose>>

RunnerOpens(p) ==
  /\ Runner(p, "spawned", Busy("opened", pane[p].run))
  /\ RunnerWrites(p, Torn)
  /\ UNCHANGED <<work, workers, ctl, stopping, faults>>

RunnerRecords(p) ==
  /\ Runner(p, "opened", Busy("running", pane[p].run))
  /\ RunnerWrites(p, Rec("running", pane[p].run.n, "tmux"))
  /\ UNCHANGED <<work, workers, ctl, stopping, faults>>

\* Its worker's output has ended.
RunnerReopens(p) ==
  /\ Runner(p, "running", Busy("reopened", pane[p].run))
  /\ pane[p].run \notin workers
  /\ RunnerWrites(p, Torn)
  /\ UNCHANGED <<work, workers, ctl, stopping, faults>>

RunnerCloses(p) ==
  /\ Runner(p, "reopened", Empty("idle"))
  /\ RunnerWrites(p, Rec("exited", pane[p].run.n, "tmux"))
  /\ UNCHANGED <<work, workers, ctl, stopping, faults>>

\* A provider process ends, with its result or without.
WorkerEnds(r) ==
  /\ r \in workers
  /\ workers' = workers \ {r}
  /\ result' \in {result, result \cup {r.task}}
  /\ UNCHANGED <<status, attempt, files, pane, ctl, stopping, faults, loose>>

-----------------------------------------------------------------------------
(***************************************************************************)
(* reconcile_processes, and the decision on what it finds                  *)
(***************************************************************************)
Alive(t) == record[t].pid > 0 /\ [task |-> t, n |-> record[t].pid] \in workers

\* A pane's record without a live process: it may be one whose runner has not
\* written its pid, so it is given time.
Pending(t) == record[t].mode = "tmux" /\ record[t].state \in {"launching", "running"}

Looks(t) ==
  /\ At("idle") /\ status[t] \in Active
  /\ UNCHANGED <<attempt, files, workers, pane, stopping, faults, loose>>

NoProcessRecord(t) ==
  /\ Looks(t)
  /\ record[t] = NoRecord
  /\ status' = [status EXCEPT ![t] = "decision_required"]
  /\ UNCHANGED <<result, ctl>>

\* json.loads raises, and nothing up to cmd_controller catches it.
ReadsTorn(t) ==
  /\ Looks(t)
  /\ record[t] = Torn
  /\ ctl' = Dead
  /\ UNCHANGED <<status, result>>

ResultFound(t) ==
  /\ Looks(t)
  /\ Readable(record[t]) /\ t \in result
  /\ status' = [status EXCEPT ![t] = "done"]
  /\ UNCHANGED <<result, ctl>>

\* Mutant: a pane's record without a process is waited for as long as it takes.
WorkerGoneForGood(t) ==
  /\ Looks(t)
  /\ Readable(record[t]) /\ t \notin result
  /\ ~Alive(t) /\ ~Pending(t)
  /\ \/ /\ status' = [status EXCEPT ![t] = "decision_required"]
        /\ UNCHANGED result
     \/ /\ result' = result \cup {t}
        /\ UNCHANGED status
  /\ UNCHANGED ctl

\* Neither result nor process: its clean commits are completed to a result,
\* or a decision is asked for.
WorkerGone(t) ==
  /\ Looks(t)
  /\ Readable(record[t]) /\ t \notin result
  /\ ~Alive(t)
  /\ Pending(t) => t \in old
  /\ \/ /\ status' = [status EXCEPT ![t] = "decision_required"]
        /\ UNCHANGED result
     \/ /\ ~Pending(t)
        /\ result' = result \cup {t}
        /\ UNCHANGED status
  /\ UNCHANGED ctl

\* A handoff or a retry, or a person: where no provider is left, or nothing is
\* allowed since there was no record.
Decide(t) ==
  /\ At("idle") /\ status[t] = "decision_required"
  /\ \E s \in IF record[t] = NoRecord THEN {"blocked"} ELSE {"waiting", "blocked"} :
       status' = [status EXCEPT ![t] = s]
  /\ UNCHANGED <<attempt, result, files, workers, pane, ctl, stopping, faults, loose>>

-----------------------------------------------------------------------------
(***************************************************************************)
(* Time, faults and the operator                                           *)
(***************************************************************************)
\* TMUX_STALE_SECONDS is longer than any step of a launch or of a runner.
GrowsOld(t) ==
  /\ Pending(t) /\ t \notin old
  /\ ~(ctl.pc \notin {"idle", "dead"} /\ ctl.run.task = t)
  /\ \A p \in Panes : IsBusy(p) /\ pane[p].run.task = t =>
        pane[p].at = "running" /\ pane[p].run \in workers
  /\ old' = old \cup {t}
  /\ UNCHANGED <<work, record, workers, pane, ctl, stopping, faults, loose>>

InPanes == {pane[p].run : p \in {q \in Panes : IsBusy(q)}}

\* A launch that is cut short: its worker may not be in any record, and the
\* record it was writing may be left empty.
CutShort ==
  /\ loose' = IF At("spawned") THEN loose \cup {ctl.run.task} ELSE loose
  /\ IF At("read")
       THEN \E r \in {record[ctl.run.task], Torn} : Write(ctl.run.task, r)
       ELSE UNCHANGED files
  /\ ctl' = Dead

KillController ==
  /\ ~At("dead") /\ Fault
  /\ CutShort
  /\ UNCHANGED <<work, workers, pane, stopping>>

RestartController ==
  /\ At("dead") /\ ~stopping
  /\ ctl' = Idle
  /\ UNCHANGED <<work, files, workers, pane, stopping, faults, loose>>

\* The shell of a pane ends, or the pane is closed.
LosePane(p, how) ==
  /\ pane[p].at \notin {"dead", "gone"} /\ Fault
  /\ workers' = IF IsBusy(p) THEN workers \ {pane[p].run} ELSE workers
  /\ pane' = [pane EXCEPT ![p] = Empty(how)]
  /\ UNCHANGED <<work, files, ctl, stopping, loose>>

\* stop_session: the recorded process groups; a runner is in its worker's.
StopProcesses ==
  /\ ~stopping /\ Fault
  /\ stopping' = TRUE
  /\ LET killed == {r \in workers : record[r.task].pid = r.n}
     IN /\ workers' = workers \ killed
        /\ pane' = [p \in Panes |-> IF IsBusy(p) /\ pane[p].run \in killed
                                      THEN Empty("idle") ELSE pane[p]]
  /\ UNCHANGED <<work, files, ctl, loose>>

\* ... and the session, with the controller and what runs in the panes; then
\* create_session starts both anew.
StopSession ==
  /\ stopping
  /\ stopping' = FALSE
  /\ CutShort
  /\ workers' = workers \ InPanes
  /\ pane' = [p \in Panes |-> Empty("idle")]
  /\ UNCHANGED <<work, faults>>

\* `warden retry` does not ask whether a worker is left.
Retry(t) ==
  /\ Fault
  /\ status' = [status EXCEPT ![t] = "waiting"]
  /\ loose' = IF status[t] \in Active \cup {"done"} THEN loose \cup {t} ELSE loose
  /\ UNCHANGED <<attempt, result, files, workers, pane, ctl, stopping>>

Launch == Stamp \/ Inject \/ Spawn \/ RecordSpawned \/ ReadRecord \/ WriteRecord

Reconcile(t) == NoProcessRecord(t) \/ ReadsTorn(t) \/ ResultFound(t) \/ WorkerGone(t)

Step(p) ==
  RunnerSpawns(p) \/ RunnerOpens(p) \/ RunnerRecords(p) \/ RunnerReopens(p) \/ RunnerCloses(p)

Next ==
  \/ Launch \/ SpawnFails
  \/ \E t \in Tasks : Assign(t) \/ Reconcile(t) \/ Decide(t) \/ GrowsOld(t) \/ Retry(t)
  \/ \E p \in Panes : Step(p) \/ LosePane(p, "dead") \/ LosePane(p, "gone")
  \/ \E r \in Run : WorkerEnds(r)
  \/ KillController \/ RestartController \/ StopProcesses \/ StopSession

Spec == Init /\ [][Next]_vars

\* The controller's loop, the runners and the clock go on; a worker may last,
\* and nobody need start the controller again.
FairSpec ==
  /\ Spec
  /\ WF_vars(Launch) /\ WF_vars(StopSession)
  /\ \A t \in Tasks : WF_vars(Reconcile(t)) /\ WF_vars(GrowsOld(t))
  /\ \A p \in Panes : WF_vars(Step(p))

-----------------------------------------------------------------------------
(***************************************************************************)
(* Properties                                                              *)
(***************************************************************************)
Records ==
  {NoRecord, Torn}
  \cup [state : {"launching"}, pid : 0 .. MaxLaunches, mode : {"tmux"}]
  \cup [state : {"running", "exited"}, pid : 1 .. MaxLaunches, mode : {"plain", "tmux"}]

\* A record that says running or exited says of which process; a worker that
\* runs in a pane runs in one pane only.
TypeOK ==
  /\ status \in [Tasks -> Active \cup {"waiting", "decision_required", "blocked", "done"}]
  /\ attempt \in [Tasks -> 0 .. MaxLaunches]
  /\ record \in [Tasks -> Records]
  /\ old \subseteq Tasks /\ result \subseteq Tasks /\ loose \subseteq Tasks
  /\ workers \subseteq Run
  /\ \A p \in Panes : pane[p].at \in {"idle", "dead", "gone"} \/ pane[p].run \in Run
  /\ \A p, q \in Panes : p # q /\ IsBusy(p) /\ IsBusy(q) => pane[p].run # pane[q].run

\* A worker at work is the last attempt of its task, and the task is not asked
\* about, handed over or launched anew while it lives: whoever wrote the record
\* last, and in whatever pane.  Except a task whose launch was cut short, whose
\* launch record overwrote the runner's, whose record the runner of an earlier
\* attempt overwrote, or that the operator retried.
Tracked ==
  \A r \in workers :
    r.task \notin loose => /\ r.n = attempt[r.task]
                           /\ status[r.task] \in Active \cup {"done"}

\* A task without a worker does not hold its slot for ever, however the worker
\* was lost and whatever its record says, while the controller runs.
SlotComesBack ==
  \A t \in Tasks :
    <>[](LiveOf(t) = {} /\ ~At("dead")) => []<>(status[t] \notin Active)
=============================================================================
