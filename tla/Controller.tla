------------------------------ MODULE Controller ------------------------------
(***************************************************************************)
(* controller_tick of src/railwarden/engine/controller.py with the default *)
(* supervisor (supervision_mode "controller"): the tick classifies the     *)
(* packages, reconciles worker processes and results, decides on failures, *)
(* integrates one candidate and launches workers, over tasks.json, the     *)
(* process records, the result files and git.  The plan is approved and    *)
(* the context populated.  Workers, and the user's `warden` commands, act  *)
(* between any two steps of the tick.                                      *)
(*                                                                         *)
(* Each phase loads tasks.json once and then works on its in-memory copies *)
(* of the records, package by package.  integrate_one is one step here:    *)
(* Integration.tla models it.                                              *)
(***************************************************************************)
EXTENDS Naturals, Sequences, FiniteSets

CONSTANTS
  Packages,     \* numbers, in the order of the package ids
  Deps,         \* the packages each one depends on
  Concurrency,  \* workers.concurrency of the configuration
  Approval,     \* packages whose merge a human approves
  Faults,       \* what may go wrong in this run, out of AllFaults
  MaxSpawns,    \* bound: workers launched per package
  MaxCommits,   \* bound: commits workers make per package
  MaxCrashes,   \* bound: times the controller is killed
  MaxCommands   \* bound: commands the user gives

(***************************************************************************)
(*  dies         a worker exits without a result                           *)
(*  gives_up     a worker reports "blocked" or "failed"                    *)
(*  empty        a worker reports completion without a commit              *)
(*  unnamed      a result does not name a commit                           *)
(*  other        a result names a commit that is not the worktree's head   *)
(*  unreadable   a result is not a JSON object (or is half written), or    *)
(*               it names a commit that git does not know                  *)
(*  partial      a worker leaves uncommitted changes                       *)
(*  strays       a worker changes files outside the package's owned paths  *)
(*  overstays    a worker goes on committing after it has reported         *)
(*  fails        the package's validation commands or its review fail      *)
(*  no_provider  no (other) worker provider is eligible                    *)
(*  contract     the failure kind allows no handoff (_allowed_actions_...) *)
(*  quota        the quota gate refuses to start an agent                  *)
(*  conflict     integrate_one raises and leaves the branch as it was      *)
(*  crash        the controller is killed                                  *)
(*  operator     the user gives commands                                   *)
(***************************************************************************)
AllFaults == {"dies", "gives_up", "empty", "unnamed", "other", "unreadable",
              "partial", "strays", "overstays", "fails", "no_provider",
              "contract", "quota", "conflict", "crash", "operator"}

ASSUME ConstantsAssumption ==
  /\ Packages \subseteq Nat \ {0} /\ IsFiniteSet(Packages)
  /\ Deps \in [Packages -> SUBSET Packages]
  /\ Concurrency \in Nat
  /\ Approval \subseteq Packages
  /\ Faults \subseteq AllFaults
  /\ MaxSpawns \in Nat /\ MaxCommits \in Nat
  /\ MaxCrashes \in Nat /\ MaxCommands \in Nat

\* Sets of statuses of the code.  validated, review_ready and
\* integration_ready are written by the CLI and MCP commands left out here.
TASK_STATES == {"planned", "ready", "assigned", "running", "handoff_needed",
                "cooldown_wait", "decision_required", "validating", "validated",
                "review_ready", "reviewing", "review_passed", "merge_ready",
                "merge_approved", "integration_ready", "integrating", "merged",
                "rejected", "blocked", "failed"}
TERMINAL_TASK_STATES == {"merged", "rejected"}
TERMINAL_STATES == {"merged", "blocked", "failed"}
ACTIVE_STATES == {"assigned", "running", "validating", "reviewing", "integrating"}
ACTIVE_TASK_STATES ==
  {"ready", "assigned", "running", "handoff_needed", "cooldown_wait",
   "validating", "validated", "review_ready", "reviewing", "review_passed",
   "merge_ready", "merge_approved", "integrating", "blocked"}
IntegrationStates == {"review_passed", "merge_approved", "integration_ready"}
LaunchStates == {"ready", "handoff_needed", "cooldown_wait"}

(***************************************************************************)
(* A branch is the set of commits its head reaches.  Author 0 is the       *)
(* repository's base (n = 0) and the integration manager's merges.         *)
(***************************************************************************)
Commit == [author : Packages \cup {0}, n : Nat, owned : BOOLEAN]
RootCommit == [author |-> 0, n |-> 0, owned |-> TRUE]
NoBranch == {}
Own(p, commits) == {c \in commits : c.author = p}

\* A task record: commit is its commit_hash, handoff says that its
\* allowed_actions include "handoff_provider".
Task == [status : TASK_STATES, commit : SUBSET Commit, handoff : BOOLEAN]

\* A worker's result file; head is its commit_hash, NoBranch when it has none.
Report == [status : {"completed", "blocked", "failed", "unreadable"},
           head : SUBSET Commit]
NoReport == [status |-> "none", head |-> NoBranch]

VARIABLES
  task,         \* state/tasks.json
  workers,      \* the worker processes launched for each package
  record,       \* processes/<task>.json: which of them it names, 0 when absent
  result,       \* the result file in the package's worktree
  branch,       \* commits of the task branch
  dirty,        \* kinds of uncommitted changes in the worktree
  integration,  \* commits of the integration branch
  ctl,          \* the controller's local state
  crashes,
  commands

git == <<branch, dirty, integration>>
vars == <<task, workers, record, result, git, ctl, crashes, commands>>

Stage == {"working", "reported", "gone"}
Phases == {"idle", "hydrate", "reconcile", "decide", "integrate", "launch", "dead"}
Steps == {"start", "validating", "reviewing", "integrating", "merged", "refused",
          "assigned", "spawned", "recorded"}

\* seen holds the in-memory records of the packages this phase has yet to
\* handle; the first of them, in package order, is in hand and at `step`.
Idle == [phase |-> "idle", step |-> "start", seen |-> <<>>, landed |-> {},
         report |-> NoReport, head |-> NoBranch, slots |-> 0]

Init ==
  /\ task = [p \in Packages |->
               [status |-> "planned", commit |-> NoBranch, handoff |-> FALSE]]
  /\ workers = [p \in Packages |-> <<>>]
  /\ record = [p \in Packages |-> 0]
  /\ result = [p \in Packages |-> NoReport]
  /\ branch = [p \in Packages |-> NoBranch]
  /\ dirty = [p \in Packages |-> {}]
  /\ integration = {RootCommit}
  /\ ctl = Idle
  /\ crashes = 0
  /\ commands = 0

(***************************************************************************)
(* What the controller reads.                                              *)
(***************************************************************************)
InStatus(S) == {p \in Packages : task[p].status \in S}

Alive(p, i) == workers[p][i] \in {"working", "reported"}

\* Mutated ProcessAlive: takes a worker for alive only once it has reported.
AliveWhenReported(p) == record[p] # 0 /\ workers[p][record[p]] = "reported"

ProcessAlive(p) == record[p] # 0 /\ Alive(p, record[p])

\* Mutated MergedIds: the branch is only compared with integration's head.
MovedPast == {p \in Packages : branch[p] # NoBranch /\ branch[p] # integration}

\* classify_packages: a branch counts as merged when integration contains it
\* and has moved past it.
MergedIds == {p \in Packages : /\ branch[p] # NoBranch
                               /\ branch[p] \subseteq integration
                               /\ branch[p] # integration}

RepairRequired(p) == dirty[p] # {}

Merged(p) == ~RepairRequired(p) /\ p \in MergedIds

\* Mutated ExecutionReady: dependencies are not looked at.
ReadyAnyway(p) ==
  /\ ~RepairRequired(p)
  /\ p \notin MergedIds
  /\ task[p].status \notin ACTIVE_TASK_STATES
  /\ branch[p] \subseteq integration

ExecutionReady(p) ==
  /\ ~RepairRequired(p)
  /\ p \notin MergedIds
  /\ task[p].status \notin ACTIVE_TASK_STATES
  /\ branch[p] \subseteq integration   \* no new commits
  /\ Deps[p] \subseteq MergedIds

\* validate_owned_paths looks at the files of the branch's last commit; a
\* merge commit lists none.
HeadInOwnedPaths(p) ==
  IF Own(p, branch[p]) = {}
    THEN branch[p] # {RootCommit}
    ELSE \E c \in Own(p, branch[p]) :
           c.owned /\ \A d \in Own(p, branch[p]) : d.n <= c.n

\* validate_completed_package, of a result that normalize_result has read
Credible(p, report) ==
  /\ report.head \in {branch[p], NoBranch}
  /\ dirty[p] = {}
  /\ HeadInOwnedPaths(p)

(***************************************************************************)
(* The tick's bookkeeping.                                                 *)
(***************************************************************************)
InHand(phase, p) ==
  /\ ctl.phase = phase
  /\ p \in DOMAIN ctl.seen
  /\ \A q \in DOMAIN ctl.seen : p <= q

At(phase, step, p) == InHand(phase, p) /\ ctl.step = step

Copies(S) == [p \in S |-> task[p]]

Enter(phase, S) ==
  ctl' = [Idle EXCEPT !.phase = phase, !.seen = Copies(S)]

Drop(p) == [q \in DOMAIN ctl.seen \ {p} |-> ctl.seen[q]]

Done(p) ==
  ctl' = [ctl EXCEPT !.step = "start", !.seen = Drop(p), !.report = NoReport]

\* transition_task of an in-memory record that is not terminal.
Save(p, rec) == task' = [task EXCEPT ![p] = rec]

SaveStatus(p, status) == Save(p, [ctl.seen[p] EXCEPT !.status = status])

\* An exception that controller_tick does not catch ends the process.
Die == ctl' = [Idle EXCEPT !.phase = "dead"]

\* _checkpoint_preserved_work commits what is in the owned paths.
Checkpoint(p) ==
  IF "owned" \in dirty[p]
    THEN /\ branch' = [branch EXCEPT ![p] = @ \cup
              {[author |-> p, n |-> Cardinality(Own(p, @)) + 1, owned |-> TRUE]}]
         /\ dirty' = [dirty EXCEPT ![p] = @ \ {"owned"}]
    ELSE UNCHANGED <<branch, dirty>>

HandoffOrBlock(p) ==
  /\ Checkpoint(p)
  /\ \/ SaveStatus(p, "handoff_needed")
     \/ "no_provider" \in Faults /\ SaveStatus(p, "blocked")
  /\ Done(p)
  /\ UNCHANGED integration

(***************************************************************************)
(* hydrate_task_state                                                      *)
(***************************************************************************)
\* Mutated StartTick: tasks in TERMINAL_STATES are hydrated too.
StartTickOnAll ==
  LET open == {p \in Packages :
                 /\ task[p].status \notin ACTIVE_STATES
                 /\ RepairRequired(p) \/ Merged(p) \/ ExecutionReady(p)}
  IN
  /\ ctl.phase = "idle"
  /\ ctl' = [Idle EXCEPT !.phase = "hydrate", !.seen = Copies(open)]
  /\ UNCHANGED <<task, workers, record, result, git, crashes, commands>>

StartTick ==
  LET open == {p \in Packages :
                 /\ task[p].status \notin ACTIVE_STATES \cup TERMINAL_STATES
                 /\ RepairRequired(p) \/ Merged(p) \/ ExecutionReady(p)}
  IN
  /\ ctl.phase = "idle"
  /\ ctl' = [Idle EXCEPT !.phase = "hydrate", !.seen = Copies(open),
                         !.landed = {p \in open : Merged(p)}]
  /\ UNCHANGED <<task, workers, record, result, git, crashes, commands>>

Hydrate(p) ==
  /\ InHand("hydrate", p)
  /\ ctl.seen[p].status \notin TERMINAL_TASK_STATES
  /\ SaveStatus(p, IF p \in ctl.landed THEN "merged" ELSE "ready")
  /\ Done(p)
  /\ UNCHANGED <<workers, record, result, git, crashes, commands>>

\* "rejected" is terminal for transition_task and not for hydration.
HydrateRaises(p) ==
  /\ InHand("hydrate", p)
  /\ ctl.seen[p].status \in TERMINAL_TASK_STATES
  /\ Die
  /\ UNCHANGED <<task, workers, record, result, git, crashes, commands>>

EndHydrate ==
  /\ ctl.phase = "hydrate" /\ DOMAIN ctl.seen = {}
  /\ Enter("reconcile", InStatus(ACTIVE_STATES))
  /\ UNCHANGED <<task, workers, record, result, git, crashes, commands>>

(***************************************************************************)
(* reconcile_processes                                                     *)
(***************************************************************************)
\* Mutated MissingRecord: a task without a process record is passed over.
SkipMissingRecord(p) ==
  /\ At("reconcile", "start", p)
  /\ record[p] = 0
  /\ Done(p)
  /\ UNCHANGED <<task, workers, record, result, git, crashes, commands>>

MissingRecord(p) ==
  /\ At("reconcile", "start", p)
  /\ record[p] = 0
  /\ SaveStatus(p, "decision_required")
  /\ Done(p)
  /\ UNCHANGED <<workers, record, result, git, crashes, commands>>

\* normalize_result parses the file, and asks git for the files of the commit it
\* names whatever its status, before the task is touched.
UnreadableResult(p) ==
  /\ At("reconcile", "start", p)
  /\ record[p] # 0
  /\ result[p].status = "unreadable"
  /\ Die
  /\ UNCHANGED <<task, workers, record, result, git, crashes, commands>>

\* The file is taken as the result of the current attempt, whichever wrote it.
TakeResult(p) ==
  /\ At("reconcile", "start", p)
  /\ record[p] # 0
  /\ result[p].status \in {"completed", "blocked", "failed"}
  /\ SaveStatus(p, "validating")
  /\ ctl' = [ctl EXCEPT !.step = "validating", !.report = result[p],
                        !.seen[p].status = "validating"]
  /\ UNCHANGED <<workers, record, result, git, crashes, commands>>

WorkerGaveUp(p) ==
  /\ At("reconcile", "validating", p)
  /\ ctl.report.status \in {"blocked", "failed"}
  /\ SaveStatus(p, ctl.report.status)
  /\ Done(p)
  /\ UNCHANGED <<workers, record, result, git, crashes, commands>>

Validated(p) ==
  /\ At("reconcile", "validating", p)
  /\ ctl.report.status = "completed"
  /\ Credible(p, ctl.report)
  /\ LET rec == [ctl.seen[p] EXCEPT !.status = "reviewing", !.commit = branch[p]]
     IN /\ Save(p, rec)
        /\ ctl' = [ctl EXCEPT !.step = "reviewing", !.seen[p] = rec]
  /\ UNCHANGED <<workers, record, result, git, crashes, commands>>

ValidationFailed(p) ==
  /\ At("reconcile", "validating", p)
  /\ ctl.report.status = "completed"
  /\ ~Credible(p, ctl.report) \/ "fails" \in Faults
  /\ HandoffOrBlock(p)
  /\ UNCHANGED <<workers, record, result, crashes, commands>>

\* Mutated ReviewPassed: a status transition_task does not know.
ReviewApproved(p) ==
  /\ At("reconcile", "reviewing", p)
  /\ SaveStatus(p, "approved")
  /\ Done(p)
  /\ UNCHANGED <<workers, record, result, git, crashes, commands>>

\* Mutated ReviewPassed: asks for a human where none is required.
ReviewAwaitsHuman(p) ==
  /\ At("reconcile", "reviewing", p)
  /\ SaveStatus(p, IF p \in Approval THEN "review_passed" ELSE "merge_ready")
  /\ Done(p)
  /\ UNCHANGED <<workers, record, result, git, crashes, commands>>

ReviewPassed(p) ==
  /\ At("reconcile", "reviewing", p)
  /\ SaveStatus(p, IF p \in Approval THEN "merge_ready" ELSE "review_passed")
  /\ Done(p)
  /\ UNCHANGED <<workers, record, result, git, crashes, commands>>

ReviewFailed(p) ==
  /\ At("reconcile", "reviewing", p)
  /\ "fails" \in Faults
  /\ HandoffOrBlock(p)
  /\ UNCHANGED <<workers, record, result, crashes, commands>>

StillRunning(p) ==
  /\ At("reconcile", "start", p)
  /\ ProcessAlive(p)
  /\ result[p] = NoReport
  /\ Done(p)
  /\ UNCHANGED <<task, workers, record, result, git, crashes, commands>>

\* Mutated WorkerLost: commits left behind are taken for finished work.
TrustLostWorker(p) ==
  /\ At("reconcile", "start", p)
  /\ record[p] # 0 /\ ~ProcessAlive(p)
  /\ result[p] = NoReport
  /\ SaveStatus(p, IF Own(p, branch[p]) # {} THEN "review_passed"
                                             ELSE "decision_required")
  /\ Done(p)
  /\ UNCHANGED <<workers, record, result, git, crashes, commands>>

\* The process is gone and left no result: _require_decision, with the
\* actions the failure kind allows.
WorkerLost(p) ==
  /\ At("reconcile", "start", p)
  /\ record[p] # 0 /\ ~ProcessAlive(p)
  /\ result[p] = NoReport
  /\ \E handoff \in BOOLEAN :
       /\ handoff \/ "contract" \in Faults
       /\ Save(p, [ctl.seen[p] EXCEPT !.status = "decision_required",
                                      !.handoff = handoff])
  /\ Done(p)
  /\ UNCHANGED <<workers, record, result, git, crashes, commands>>

\* Mutated EndReconcile: nothing is decided in the tick that failed.
DecideLater ==
  /\ ctl.phase = "reconcile" /\ DOMAIN ctl.seen = {}
  /\ Enter("decide", {})
  /\ UNCHANGED <<task, workers, record, result, git, crashes, commands>>

EndReconcile ==
  /\ ctl.phase = "reconcile" /\ DOMAIN ctl.seen = {}
  /\ Enter("decide", InStatus({"decision_required"}))
  /\ UNCHANGED <<task, workers, record, result, git, crashes, commands>>

(***************************************************************************)
(* _default_supervisor_decisions                                           *)
(***************************************************************************)
HandOver(p) ==
  /\ InHand("decide", p)
  /\ ctl.seen[p].handoff
  /\ HandoffOrBlock(p)
  /\ UNCHANGED <<workers, record, result, crashes, commands>>

AskUser(p) ==
  /\ InHand("decide", p)
  /\ ~ctl.seen[p].handoff
  /\ SaveStatus(p, "blocked")
  /\ Done(p)
  /\ UNCHANGED <<workers, record, result, git, crashes, commands>>

\* integration_candidates reads the head of every candidate, then the first
\* one is in hand; a candidate without a branch is an uncaught GitError.
EndDecide ==
  LET candidates == InStatus(IntegrationStates)
      first == {p \in candidates : \A q \in candidates : p <= q}
  IN
  /\ ctl.phase = "decide" /\ DOMAIN ctl.seen = {}
  /\ IF \E p \in candidates : branch[p] = NoBranch
       THEN Die
       ELSE ctl' = [Idle EXCEPT !.phase = "integrate", !.seen = Copies(first),
                                !.head = UNION {branch[p] : p \in first}]
  /\ UNCHANGED <<task, workers, record, result, git, crashes, commands>>

(***************************************************************************)
(* The integration part of controller_tick                                 *)
(***************************************************************************)
BeginIntegration(p) ==
  /\ At("integrate", "start", p)
  /\ SaveStatus(p, "integrating")
  /\ ctl' = [ctl EXCEPT !.step = "integrating", !.seen[p].status = "integrating"]
  /\ UNCHANGED <<workers, record, result, git, crashes, commands>>

MergeCommit ==
  [author |-> 0, n |-> Cardinality(Own(0, integration)), owned |-> TRUE]

Mergeable(p) ==
  /\ branch[p] = ctl.head
  /\ ~(branch[p] \subseteq integration)   \* not already merged

Integrate(p) ==
  /\ At("integrate", "integrating", p)
  /\ Mergeable(p)
  /\ integration' = integration \cup branch[p] \cup {MergeCommit}
  /\ ctl' = [ctl EXCEPT !.step = "merged"]
  /\ UNCHANGED <<task, workers, record, result, branch, dirty, crashes, commands>>

IntegrateRaises(p) ==
  /\ At("integrate", "integrating", p)
  /\ ~Mergeable(p) \/ "conflict" \in Faults
  /\ ctl' = [ctl EXCEPT !.step = "refused"]
  /\ UNCHANGED <<task, workers, record, result, git, crashes, commands>>

RecordIntegration(p) ==
  /\ At("integrate", ctl.step, p)
  /\ ctl.step \in {"merged", "refused"}
  /\ SaveStatus(p, IF ctl.step = "merged" THEN "merged" ELSE "failed")
  /\ Done(p)
  /\ UNCHANGED <<workers, record, result, git, crashes, commands>>

\* Mutated FreeSlots: running tasks keep no slot.
AllSlots == Concurrency

FreeSlots == LET running == Cardinality(InStatus(ACTIVE_STATES))
             IN IF running < Concurrency THEN Concurrency - running ELSE 0

\* Packages launched MaxSpawns times are passed over.
EndIntegrate ==
  LET launchable == {p \in InStatus(LaunchStates) : Len(workers[p]) < MaxSpawns} IN
  /\ ctl.phase = "integrate" /\ DOMAIN ctl.seen = {}
  /\ ctl' = [Idle EXCEPT !.phase = "launch", !.seen = Copies(launchable),
                         !.slots = FreeSlots]
  /\ UNCHANGED <<task, workers, record, result, git, crashes, commands>>

(***************************************************************************)
(* The launch part of controller_tick, and launch_task                     *)
(***************************************************************************)
ToLaunch(p) == At("launch", "start", p) /\ ctl.slots > 0

NoProvider(p) ==
  /\ ToLaunch(p)
  /\ "no_provider" \in Faults
  /\ SaveStatus(p, "blocked")
  /\ Done(p)
  /\ UNCHANGED <<workers, record, result, git, crashes, commands>>

PauseForQuota(p) ==
  /\ ToLaunch(p)
  /\ "quota" \in Faults
  /\ Checkpoint(p)
  /\ SaveStatus(p, "handoff_needed")
  /\ Done(p)
  /\ UNCHANGED <<workers, record, result, integration, crashes, commands>>

\* Only a handoff may repair a dirty worktree; otherwise ensure_worktree raises.
Reusable(p) == dirty[p] # {} => ctl.seen[p].status = "handoff_needed"

RefuseDirty(p) ==
  /\ ToLaunch(p)
  /\ ~Reusable(p)
  /\ SaveStatus(p, "blocked")
  /\ Done(p)
  /\ UNCHANGED <<workers, record, result, git, crashes, commands>>

Assign(p) ==
  /\ ToLaunch(p)
  /\ Reusable(p)
  /\ branch' = [branch EXCEPT ![p] = IF @ = NoBranch THEN integration ELSE @]
  /\ SaveStatus(p, "assigned")
  /\ ctl' = [ctl EXCEPT !.step = "assigned", !.seen[p].status = "assigned"]
  /\ UNCHANGED <<workers, record, result, dirty, integration, crashes, commands>>

\* Popen, then the process record, then the task.
Spawn(p) ==
  /\ At("launch", "assigned", p)
  /\ workers' = [workers EXCEPT ![p] = Append(@, "working")]
  /\ ctl' = [ctl EXCEPT !.step = "spawned"]
  /\ UNCHANGED <<task, record, result, git, crashes, commands>>

RecordProcess(p) ==
  /\ At("launch", "spawned", p)
  /\ record' = [record EXCEPT ![p] = Len(workers[p])]
  /\ ctl' = [ctl EXCEPT !.step = "recorded"]
  /\ UNCHANGED <<task, workers, result, git, crashes, commands>>

Launched(p) ==
  /\ At("launch", "recorded", p)
  /\ SaveStatus(p, "running")
  /\ ctl' = [ctl EXCEPT !.step = "start", !.seen = Drop(p),
                         !.slots = ctl.slots - 1]
  /\ UNCHANGED <<workers, record, result, git, crashes, commands>>

EndTick ==
  /\ ctl.phase = "launch" /\ ctl.step = "start"
  /\ DOMAIN ctl.seen = {} \/ ctl.slots = 0
  /\ ctl' = Idle
  /\ UNCHANGED <<task, workers, record, result, git, crashes, commands>>

(***************************************************************************)
(* The workers: coding agents in the package's worktree, outlived by no    *)
(* record of theirs and never stopped by the tick.                         *)
(***************************************************************************)
WorkerEdits(p, i) ==
  /\ "partial" \in Faults
  /\ workers[p][i] = "working"
  /\ Cardinality(Own(p, branch[p])) < MaxCommits
  /\ \E kind \in {"owned", "stray"} :
       /\ kind = "stray" => "strays" \in Faults
       /\ dirty' = [dirty EXCEPT ![p] = @ \cup {kind}]
  /\ UNCHANGED <<task, workers, record, result, branch, integration, ctl,
                 crashes, commands>>

WorkerCommits(p, i) ==
  LET own == Own(p, branch[p]) IN
  /\ workers[p][i] = "working" \/ (workers[p][i] = "reported" /\ "overstays" \in Faults)
  /\ Cardinality(own) < MaxCommits
  /\ \E owned \in BOOLEAN :
       /\ owned \/ "strays" \in Faults
       /\ branch' = [branch EXCEPT ![p] = @ \cup
            {[author |-> p, n |-> Cardinality(own) + 1, owned |-> owned]}]
  /\ dirty' = [dirty EXCEPT ![p] = {}]
  /\ UNCHANGED <<task, workers, record, result, integration, ctl, crashes,
                 commands>>

ReportStatuses(p) ==
  (IF Own(p, branch[p]) # {} \/ "empty" \in Faults THEN {"completed"} ELSE {})
  \cup (IF "gives_up" \in Faults THEN {"blocked", "failed"} ELSE {})
  \cup (IF "unreadable" \in Faults THEN {"unreadable"} ELSE {})

\* The oldest commit stands for the others that a result may name.
ReportHeads(p) ==
  {branch[p]}
  \cup (IF "unnamed" \in Faults THEN {NoBranch} ELSE {})
  \cup (IF "other" \in Faults THEN {{RootCommit}} ELSE {})

\* The new file replaces the previous attempt's, which nothing else removes.
WorkerReports(p, i) ==
  /\ workers[p][i] = "working"
  /\ \E status \in ReportStatuses(p), head \in ReportHeads(p) :
       /\ result' = [result EXCEPT ![p] = [status |-> status, head |-> head]]
  /\ workers' = [workers EXCEPT ![p][i] = "reported"]
  /\ UNCHANGED <<task, record, git, ctl, crashes, commands>>

WorkerExits(p, i) ==
  /\ workers[p][i] = "reported" \/ (workers[p][i] = "working" /\ "dies" \in Faults)
  /\ workers' = [workers EXCEPT ![p][i] = "gone"]
  /\ UNCHANGED <<task, record, result, git, ctl, crashes, commands>>

(***************************************************************************)
(* The user: warden retry, handoff, reject and approve-merge, which read   *)
(* the record and write it at once, and a restart of a dead controller.    *)
(***************************************************************************)
Command(p, status) ==
  /\ "operator" \in Faults
  /\ commands < MaxCommands
  /\ commands' = commands + 1
  /\ task[p].status \notin TERMINAL_TASK_STATES
  /\ task' = [task EXCEPT ![p].status = status]
  /\ UNCHANGED <<workers, record, result, git, ctl, crashes>>

UserCommands == {"ready", "handoff_needed", "rejected", "merge_approved"}

\* warden abort-goal
AbortGoal ==
  /\ "operator" \in Faults
  /\ commands < MaxCommands
  /\ commands' = commands + 1
  /\ task' = [p \in Packages |->
                IF task[p].status \in {"merged", "blocked", "failed", "rejected"}
                  THEN task[p] ELSE [task[p] EXCEPT !.status = "blocked"]]
  /\ UNCHANGED <<workers, record, result, git, ctl, crashes>>

\* The controller is killed in a tick and started again; its workers, in
\* sessions of their own, live on.
Crash ==
  /\ "crash" \in Faults
  /\ crashes < MaxCrashes
  /\ crashes' = crashes + 1
  /\ ctl.phase \notin {"idle", "dead"}
  /\ ctl' = Idle
  /\ UNCHANGED <<task, workers, record, result, git, commands>>

Restart ==
  /\ ctl.phase = "dead"
  /\ ctl' = Idle
  /\ UNCHANGED <<task, workers, record, result, git, crashes, commands>>

Reconcile(p) ==
  \/ MissingRecord(p) \/ UnreadableResult(p) \/ TakeResult(p) \/ WorkerGaveUp(p)
  \/ Validated(p) \/ ValidationFailed(p) \/ ReviewPassed(p) \/ ReviewFailed(p)
  \/ StillRunning(p) \/ WorkerLost(p)

Decide(p) == HandOver(p) \/ AskUser(p)

IntegrateOne(p) ==
  \/ BeginIntegration(p) \/ Integrate(p) \/ IntegrateRaises(p)
  \/ RecordIntegration(p)

Launch(p) ==
  \/ NoProvider(p) \/ PauseForQuota(p) \/ RefuseDirty(p)
  \/ Assign(p) \/ Spawn(p) \/ RecordProcess(p) \/ Launched(p)

Tick ==
  \/ StartTick \/ EndHydrate \/ EndReconcile \/ EndDecide \/ EndIntegrate
  \/ EndTick
  \/ \E p \in Packages : \/ Hydrate(p) \/ HydrateRaises(p)
                         \/ Reconcile(p)
                         \/ Decide(p)
                         \/ IntegrateOne(p)
                         \/ Launch(p)

WorkerStep(p, i) ==
  \/ WorkerEdits(p, i) \/ WorkerCommits(p, i)
  \/ WorkerReports(p, i) \/ WorkerExits(p, i)

Next ==
  \/ Tick
  \/ \E p \in Packages : \E i \in DOMAIN workers[p] : WorkerStep(p, i)
  \/ \E p \in Packages, status \in UserCommands : Command(p, status)
  \/ AbortGoal
  \/ Crash
  \/ Restart

Spec == Init /\ [][Next]_vars

(***************************************************************************)
(* `warden controller` ticks for ever, and an agent works until it has     *)
(* reported.  Nothing makes the user act.                                  *)
(***************************************************************************)
FairSpec ==
  /\ Spec
  /\ WF_vars(Tick)
  /\ \A p \in Packages, i \in 1 .. MaxSpawns :
       WF_vars(i \in DOMAIN workers[p] /\ WorkerStep(p, i))
-----------------------------------------------------------------------------
(***************************************************************************)
(* Properties                                                              *)
(***************************************************************************)
\* The type of the controller's local state.
Local(c) ==
  /\ c \in [phase : Phases, step : Steps, seen : {c.seen},
            landed : SUBSET Packages, report : Report \cup {NoReport},
            head : SUBSET Commit, slots : Nat]
  /\ DOMAIN c.seen \subseteq Packages
  /\ c.seen \in [DOMAIN c.seen -> Task]

TypeOK ==
  /\ task \in [Packages -> Task]
  /\ workers \in [Packages -> Seq(Stage)]
  /\ record \in [Packages -> Nat]
  /\ result \in [Packages -> Report \cup {NoReport}]
  /\ branch \in [Packages -> SUBSET Commit]
  /\ dirty \in [Packages -> SUBSET {"owned", "stray"}]
  /\ integration \in SUBSET Commit
  /\ Local(ctl)
  /\ crashes \in Nat /\ commands \in Nat

\* The tasks recorded as assigned or running never outnumber
\* workers.concurrency, whatever the workers, a crash or the user do between
\* two steps of a tick.
WithinConcurrency == Cardinality(InStatus({"assigned", "running"})) <= Concurrency

\* Nor do the agents that are at work, which is what the limit is for.
AgentsWithinConcurrency ==
  Cardinality({w \in Packages \X (1 .. MaxSpawns) :
                 /\ w[2] \in DOMAIN workers[w[1]]
                 /\ workers[w[1]][w[2]] = "working"})
    <= Concurrency

\* "The scheduler enforces dependency readiness": the branch a worker was
\* launched on contains work of every package it depends on.
StartedOnWork ==
  \A p \in Packages : workers[p] # <<>> =>
    \A d \in Deps[p] : Own(d, branch[p]) # {}

\* A package recorded as merged has commits of its own.
MergedHasWork ==
  \A p \in Packages : task[p].status = "merged" => Own(p, branch[p]) # {}

\* Both: a branch on which nothing was done passes for merged neither with the
\* packages that wait for it nor in its own record.
DependencySafe == StartedOnWork /\ MergedHasWork

\* A worktree has one worker at a time.
OneWorkerPerWorktree ==
  \A p \in Packages : Cardinality({i \in DOMAIN workers[p] : Alive(p, i)}) <= 1

\* Both: workers keep to the slots and out of each other's worktrees.
WorkersBounded == AgentsWithinConcurrency /\ OneWorkerPerWorktree

\* "A task is complete only when its scoped changes are committed,
\* mechanically validated and integrated": the commit that a merged task's
\* record names, which was validated, is on the integration branch, whoever
\* wrote tasks.json between the controller's load and its save.
MergedIsIntegrated ==
  \A p \in Packages : task[p].status = "merged" =>
    task[p].commit \subseteq integration

\* A failed task has nothing on the integration branch.
FailedIsNotIntegrated ==
  \A p \in Packages : task[p].status = "failed" => Own(p, integration) = {}

\* What is integrated was validated and reviewed: its record names a commit, and
\* all of that is on the integration branch, with what a worker may have
\* committed since.
IntegratedIsReviewed ==
  \A p \in Packages : Own(p, integration) # {} =>
    task[p].commit # NoBranch /\ task[p].commit \subseteq integration

\* Both: nothing comes to the integration branch behind the records' back.
RecordsMatchGit == FailedIsNotIntegrated /\ IntegratedIsReviewed

\* "A terminal task must never be silently resurrected."
TerminalIsKept ==
  [][\A p \in Packages : task[p].status \in TERMINAL_TASK_STATES
       => task'[p].status = task[p].status]_vars

\* No state of the tasks, the branches or the worktrees makes the tick raise:
\* the one thing that ends the controller, other than a kill, is a result that
\* normalize_result cannot read, met when its package is reconciled.
DiesOfResultsOnly ==
  [][ctl'.phase = "dead" /\ ctl.phase # "dead"
       => \E p \in Packages : /\ At("reconcile", "start", p)
                              /\ result[p].status = "unreadable"]_vars

\* A recorded failure is decided: a task leaves decision_required by the
\* supervisor's decision and not by the next tick's hydration.
Decided ==
  [][\A p \in Packages :
       task[p].status = "decision_required" /\ task'[p].status # "decision_required"
       => ctl.phase # "hydrate"]_vars

\* No task keeps its slot for ever while the controller runs: it leaves the
\* active states, even when a worker dies without a word, a gate fails, or the
\* controller was killed between launching a process and recording it.
SlotsComeBack ==
  \A p \in Packages :
    task[p].status \in ACTIVE_STATES
      ~> task[p].status \notin ACTIVE_STATES \/ ctl.phase = "dead"

\* Every package gets merged, unless a worker dies or gives up or a task is
\* blocked on the way.
Smooth ==
  \A p \in Packages :
    /\ result[p].status \in {"none", "completed"}
    /\ \A i \in DOMAIN workers[p] : workers[p][i] = "gone" => result[p] # NoReport
    /\ task[p].status # "blocked"

AllMerge == []Smooth => \A p \in Packages : <>(task[p].status = "merged")
=============================================================================
