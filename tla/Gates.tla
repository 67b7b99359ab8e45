-------------------------------- MODULE Gates --------------------------------
(***************************************************************************)
(* The gates between a worker's commits and the integration branch, for    *)
(* one package without dependencies: the validation, review and merge      *)
(* approval that controller_tick goes through, and the commands and MCP    *)
(* tools by which a user gives, repeats, takes back or goes around their   *)
(* verdicts while the controller and the workers go on.                    *)
(*                                                                         *)
(* Steps of the tick that run commands (validation, review, the merge)     *)
(* work on a copy of the task's record; a short read and write of it is    *)
(* one step here, which Controller.tla and TaskStore.tla take apart.       *)
(***************************************************************************)
EXTENDS Naturals, Sequences

CONSTANTS
  MaxCommits,   \* bound: commits on the package's branch
  MaxAttempts,  \* bound: workers launched
  MaxEvents     \* bound: commands the user and the MCP clients give, and
                \* times the controller is killed

ASSUME BoundsAssumption ==
  /\ MaxCommits \in Nat /\ MaxAttempts \in Nat /\ MaxEvents \in Nat

TERMINAL_TASK_STATES == {"merged", "rejected"}
TERMINAL_STATES == {"merged", "blocked", "failed"}
ACTIVE_STATES == {"assigned", "running", "validating", "reviewing", "integrating"}
ACTIVE_TASK_STATES ==
  {"ready", "running", "handoff_needed", "validating", "validated", "reviewing",
   "review_passed", "merge_ready", "merge_approved", "integrating", "blocked"}
IntegrationStates == {"review_passed", "merge_approved", "integration_ready"}
LaunchStates == {"ready", "handoff_needed"}
TASK_STATES == ACTIVE_STATES \cup ACTIVE_TASK_STATES \cup IntegrationStates
               \cup TERMINAL_STATES \cup {"rejected", "planned", "decision_required"}

\* A commit: the package's validation commands pass on its tree or fail, or it
\* strays from the owned paths.  Commits are known by their place on the branch.
Commit == {"good", "failing", "stray"}

\* Evidence kept in the record: the commit it names (of), and the one that
\* was checked out when the commands ran (ran, not recorded by the code).
Evidence == [status : {"none", "passed", "failed"},
             of : 0 .. MaxCommits, ran : 0 .. MaxCommits]
NoEvidence == [status |-> "none", of |-> 0, ran |-> 0]
Task == [status : TASK_STATES, commit : 0 .. MaxCommits,
         validation : Evidence, review : Evidence]
NoResult == [status |-> "none", commit |-> 0]
Result == {NoResult} \cup [status : {"completed", "failed"}, commit : 0 .. MaxCommits]

VARIABLES
  manual,    \* requires_human_merge_approval of the package
  task,      \* its record in tasks.json
  branch,    \* commits of the task branch
  dirty,     \* the worktree has uncommitted changes, in owned paths
  landed,    \* how much of the branch the integration branch contains
  result,    \* the worker's result file
  attempts,  \* workers launched; the process record names the last one
  working,   \* which of them are at work
  ctl,       \* the controller's place in the tick
  cmd,       \* a validate or review command that is under way
  events,    \* commands given, and kills
  consent,   \* a command that orders the merge was carried out since the last
             \* launch, though it may have been given before it
  meddled    \* a command was carried out, or a commit made, since the result
             \* in hand was taken

git == <<branch, dirty, landed>>
agents == <<result, attempts, working>>
history == <<consent, meddled>>
vars == <<manual, task, git, agents, ctl, cmd, events, history>>

Phases == {"hydrate", "reconcile", "checking", "validating", "reviewing",
           "decide", "integrate", "merging", "merged", "refused", "launch"}
NewTask == [status |-> "planned", commit |-> 0,
            validation |-> NoEvidence, review |-> NoEvidence]
\* Between the steps that hold a copy of the record there is none to keep.
AtPhase(phase) == [phase |-> phase, copy |-> NewTask, head |-> 0]
Holding(phase, copy, head) == [phase |-> phase, copy |-> copy, head |-> head]
NoCommand == [kind |-> "none", copy |-> NewTask, commit |-> 0]

Init ==
  /\ manual \in BOOLEAN
  /\ task = NewTask
  /\ branch = <<>> /\ dirty = FALSE /\ landed = 0
  /\ result = NoResult /\ attempts = 0 /\ working = {}
  /\ ctl = AtPhase("hydrate")
  /\ cmd = NoCommand
  /\ events = 0
  /\ consent = FALSE /\ meddled = FALSE

Tip == Len(branch)
TipKind == IF Tip = 0 THEN "good" ELSE branch[Tip]
\* changed_files_in_commit against validate_owned_paths; the base's files are
\* not the package's.
InOwnedPaths(commit) == commit # 0 /\ branch[commit] # "stray"

\* transition_task, of a copy of the record
Save(copy, status) == task' = [copy EXCEPT !.status = status]
To(status) == Save(task, status)
Go(phase) == ctl' = AtPhase(phase)

\* create_checkpoint_commit: whatever is changed in the owned paths.
Checkpoint(changed) ==
  IF changed /\ Tip < MaxCommits
    THEN /\ \E commit \in {"good", "failing"} : branch' = Append(branch, commit)
         /\ dirty' = FALSE
    ELSE dirty' = changed /\ UNCHANGED branch

HandoffOrBlock(copy, changed) ==
  /\ Checkpoint(changed)
  /\ \E status \in {"handoff_needed", "blocked"} : Save(copy, status)

\* run_package_validation in a clean worktree: the suite's verdict, under the
\* name of the commit the caller gave.
Verdict(commit) ==
  [status |-> IF TipKind # "failing" THEN "passed" ELSE "failed",
   of |-> commit, ran |-> Tip]

\* run_package_review: the reviewer must not be the worker's provider.
ReviewStatus(validation, commit, other) ==
  IF other /\ validation.status = "passed" /\ InOwnedPaths(commit)
    THEN "passed" ELSE "failed"

Reviewed(status, commit) == [status |-> status, of |-> commit, ran |-> commit]

(***************************************************************************)
(* controller_tick                                                         *)
(***************************************************************************)
Quiet == UNCHANGED <<manual, cmd, events>>

ExecutionReady == task.status \notin ACTIVE_TASK_STATES /\ Tip = landed

\* hydrate_task_state
Hydrate ==
  /\ ctl.phase = "hydrate"
  /\ IF task.status \in ACTIVE_STATES \cup TERMINAL_STATES
       THEN UNCHANGED task
       ELSE IF dirty THEN To("ready")
       ELSE IF landed > 0 /\ landed = Tip THEN To("merged")
       ELSE IF ExecutionReady THEN To("ready")
       ELSE UNCHANGED task
  /\ Go("reconcile")
  /\ UNCHANGED <<git, agents, history>> /\ Quiet

\* reconcile_processes has nothing to do: the task is not active, or its
\* worker is still at it.
NothingToReconcile ==
  /\ ctl.phase = "reconcile"
  /\ \/ task.status \notin ACTIVE_STATES
     \/ result = NoResult /\ attempts \in working
  /\ UNCHANGED task /\ Go("decide")
  /\ UNCHANGED <<git, agents, history>> /\ Quiet

WorkerLost ==
  /\ ctl.phase = "reconcile"
  /\ task.status \in ACTIVE_STATES
  /\ result = NoResult /\ attempts \notin working
  /\ To("decision_required") /\ Go("decide")
  /\ UNCHANGED <<git, agents, history>> /\ Quiet

TakeResult ==
  /\ ctl.phase = "reconcile"
  /\ task.status \in ACTIVE_STATES
  /\ result # NoResult
  /\ IF result.status = "completed"
       THEN /\ To("validating")
            /\ ctl' = Holding("checking", task', result.commit)
       ELSE To(result.status) /\ Go("decide")
  /\ meddled' = FALSE
  /\ UNCHANGED <<git, agents, consent>> /\ Quiet

\* validate_completed_package: the commit the result names is the head, the
\* worktree is clean, and the files are the package's.
Credible == ctl.head = Tip /\ ~dirty /\ InOwnedPaths(Tip)

Check ==
  /\ ctl.phase = "checking"
  /\ IF Credible
       THEN /\ ctl' = [ctl EXCEPT !.phase = "validating"]
            /\ UNCHANGED <<task, branch, dirty>>
       ELSE HandoffOrBlock(ctl.copy, dirty) /\ Go("decide")
  /\ UNCHANGED <<landed, agents, history>> /\ Quiet

\* Mutated Validate: evidence that is at hand is not gathered again.
ValidateOnce ==
  /\ ctl.phase = "validating"
  /\ ~dirty
  /\ LET kept == ctl.copy.validation
         found == IF kept = NoEvidence THEN Verdict(ctl.head) ELSE kept
     IN task' = [ctl.copy EXCEPT !.status = "reviewing", !.commit = ctl.head,
                                 !.validation = found]
  /\ ctl' = Holding("reviewing", task', 0)
  /\ UNCHANGED <<git, agents, history>> /\ Quiet

Validate ==
  /\ ctl.phase = "validating"
  /\ ~dirty
  /\ task' = [ctl.copy EXCEPT !.status = "reviewing", !.commit = ctl.head,
                              !.validation = Verdict(ctl.head)]
  /\ ctl' = Holding("reviewing", task', 0)
  /\ UNCHANGED <<git, agents, history>> /\ Quiet

\* run_validation_suite raises: tracked files are changed before the commands
\* run, or by commands that pass.
ValidateRaises ==
  /\ ctl.phase = "validating"
  /\ dirty \/ TipKind # "failing"
  /\ HandoffOrBlock(ctl.copy, TRUE) /\ Go("decide")
  /\ UNCHANGED <<landed, agents, history>> /\ Quiet

\* Mutated ReviewEnds: the merge policy is not asked for.
ReviewPasses ==
  /\ ctl.phase = "reviewing"
  /\ LET copy == ctl.copy
         status == ReviewStatus(copy.validation, copy.commit, TRUE)
     IN IF status = "passed"
          THEN /\ Save([copy EXCEPT !.review = Reviewed(status, copy.commit)],
                       "review_passed")
               /\ UNCHANGED <<branch, dirty>>
          ELSE HandoffOrBlock(copy, dirty)
  /\ Go("decide")
  /\ UNCHANGED <<landed, agents, history>> /\ Quiet

\* _reviewer_provider_for names a provider other than the worker's.
ReviewEnds ==
  /\ ctl.phase = "reviewing"
  /\ LET copy == ctl.copy
         status == ReviewStatus(copy.validation, copy.commit, TRUE)
     IN IF status = "passed"
          THEN /\ Save([copy EXCEPT !.review = Reviewed(status, copy.commit)],
                       IF manual THEN "merge_ready" ELSE "review_passed")
               /\ UNCHANGED <<branch, dirty>>
          ELSE HandoffOrBlock(copy, dirty)
  /\ Go("decide")
  /\ UNCHANGED <<landed, agents, history>> /\ Quiet

\* _default_supervisor_decisions
Decide ==
  /\ ctl.phase = "decide"
  /\ IF task.status = "decision_required"
       THEN HandoffOrBlock(task, dirty)
       ELSE UNCHANGED <<task, branch, dirty>>
  /\ Go("integrate")
  /\ UNCHANGED <<landed, agents, history>> /\ Quiet

\* integration_candidates, and the task that is put to "integrating"
Candidate ==
  /\ ctl.phase = "integrate"
  /\ IF task.status \in IntegrationStates
       THEN /\ To("integrating")
            /\ ctl' = Holding("merging", task', Tip)
       ELSE UNCHANGED task /\ Go("launch")
  /\ UNCHANGED <<git, agents, history>> /\ Quiet

\* integrate_one refuses a branch that moved since, or that is merged
\* already; it also raises, and undoes the merge, for the repository's sake.
Integrate ==
  /\ ctl.phase = "merging"
  /\ \/ /\ Tip = ctl.head /\ Tip > landed
        /\ landed' = Tip
        /\ ctl' = [ctl EXCEPT !.phase = "merged"]
     \/ ctl' = [ctl EXCEPT !.phase = "refused"] /\ UNCHANGED landed
  /\ UNCHANGED <<task, branch, dirty, agents, history>> /\ Quiet

RecordIntegration ==
  /\ ctl.phase \in {"merged", "refused"}
  /\ Save(ctl.copy, IF ctl.phase = "merged" THEN "merged" ELSE "failed")
  /\ Go("launch")
  /\ UNCHANGED <<git, agents, history>> /\ Quiet

\* launch_task: only a handoff may take over a dirty worktree, and there
\* may be no eligible provider.
Launch ==
  /\ ctl.phase = "launch"
  /\ task.status \in LaunchStates
  /\ \/ /\ dirty => task.status = "handoff_needed"
        /\ attempts < MaxAttempts
        /\ To("running")
        /\ attempts' = attempts + 1
        /\ working' = working \cup {attempts'}
        /\ consent' = FALSE
     \/ To("blocked") /\ UNCHANGED <<attempts, working, consent>>
  /\ Go("hydrate")
  /\ UNCHANGED <<git, result, meddled>> /\ Quiet

NothingToLaunch ==
  /\ ctl.phase = "launch"
  /\ task.status \in LaunchStates => attempts = MaxAttempts
  /\ UNCHANGED task /\ Go("hydrate")
  /\ UNCHANGED <<git, agents, history>> /\ Quiet

ControllerTick ==
  \/ Hydrate \/ NothingToReconcile \/ WorkerLost \/ TakeResult \/ Check
  \/ Validate \/ ValidateRaises \/ ReviewEnds \/ Decide
  \/ Candidate \/ Integrate \/ RecordIntegration
  \/ Launch \/ NothingToLaunch

\* The controller is killed between two steps, and started again.
Crash ==
  /\ events < MaxEvents
  /\ events' = events + 1
  /\ ctl.phase # "hydrate"
  /\ ctl' = AtPhase("hydrate")
  /\ UNCHANGED <<manual, task, git, agents, cmd, history>>

(***************************************************************************)
(* The workers, in the one worktree of the package.                        *)
(***************************************************************************)
Elsewhere ==
  UNCHANGED <<manual, task, landed, attempts, ctl, cmd, events, consent>>

WorkerEdits(i) ==
  /\ i \in working
  /\ dirty' = TRUE
  /\ UNCHANGED <<branch, result, working, meddled>> /\ Elsewhere

WorkerCommits(i) ==
  /\ i \in working
  /\ Tip < MaxCommits
  /\ \E commit \in Commit : branch' = Append(branch, commit)
  /\ dirty' = FALSE
  /\ meddled' = TRUE
  /\ UNCHANGED <<result, working>> /\ Elsewhere

\* A worker that reports completion has committed.  What it reports when it
\* gives up, Controller.tla tells apart.
WorkerReports(i) ==
  /\ i \in working
  /\ \E status \in {"completed", "failed"} :
       /\ status = "completed" => Tip > 0
       /\ result' = [status |-> status, commit |-> Tip]
  /\ working' = working \ {i}
  /\ UNCHANGED <<branch, dirty, meddled>> /\ Elsewhere

WorkerDies(i) ==
  /\ i \in working
  /\ working' = working \ {i}
  /\ UNCHANGED <<branch, dirty, result, meddled>> /\ Elsewhere

Worker(i) == WorkerEdits(i) \/ WorkerCommits(i) \/ WorkerReports(i) \/ WorkerDies(i)

(***************************************************************************)
(* The commands, and the MCP tools that do the same.                       *)
(***************************************************************************)
Given ==
  /\ events < MaxEvents
  /\ events' = events + 1
  /\ attempts > 0

\* A review orders the merge when it ends and writes its status, also one that
\* was begun on an earlier attempt.
CarriedOut(order) ==
  /\ consent' = (consent \/ order \in {"approve", "review", "route", "integrate"})
  /\ meddled' = TRUE

\* Mutated OrderStatus: a status that transition_task does not know.
OrderMisspelt ==
  [retry |-> {"ready"}, handoff |-> {"handoff_needed"},
   approve |-> {"approved"}, abort |-> {"blocked"},
   route |-> {"review_passed", "integration_ready"}]

\* Once a worker has been launched: retry and task.assign, handoff and
\* task.handoff, approve-merge and merge.approve, abort-goal and goal.abort,
\* task.route
OrderStatus ==
  [retry |-> {"ready"}, handoff |-> {"handoff_needed"},
   approve |-> {"merge_approved"}, abort |-> {"blocked"},
   route |-> {"review_passed", "integration_ready"}]

Order(order) ==
  /\ Given
  /\ task.status \notin TERMINAL_TASK_STATES
  /\ order = "abort" => task.status \notin {"blocked", "failed"}
  /\ \E status \in OrderStatus[order] : To(status)
  /\ CarriedOut(order)
  /\ UNCHANGED <<manual, git, agents, ctl, cmd>>

\* validate-package and validation.run, review-package and review.run: the
\* record is read first, and written back when the commands have run.
Begin(kind) ==
  /\ Given
  /\ cmd.kind = "none"
  /\ task.status \notin TERMINAL_TASK_STATES
  /\ cmd' = [kind |-> kind, copy |-> task,
             commit |-> IF task.commit # 0 THEN task.commit ELSE Tip]
  /\ UNCHANGED <<manual, task, git, agents, ctl, history>>

ToRun == cmd.kind = "validate" \/ cmd.copy.validation = NoEvidence

ValidatePackage ==
  /\ cmd.kind = "validate" /\ ~dirty
  /\ LET found == Verdict(cmd.commit)
     IN Save([cmd.copy EXCEPT !.validation = found],
             IF found.status = "passed" THEN "validated" ELSE "blocked")
  /\ CarriedOut("validate")
  /\ cmd' = NoCommand
  /\ UNCHANGED <<manual, git, agents, ctl, events>>

\* Evidence of the record is used whatever commit it is of; the reviewer the
\* user names may be the worker's provider.
ReviewPackage ==
  /\ cmd.kind = "review"
  /\ ToRun => ~dirty
  /\ LET copy == cmd.copy
         commit == cmd.commit
         found == IF ToRun THEN Verdict(commit) ELSE copy.validation
     IN \E other \in BOOLEAN :
          LET status == ReviewStatus(found, commit, other)
          IN Save([copy EXCEPT !.review = Reviewed(status, commit)],
                  IF status = "passed" THEN "review_passed" ELSE "blocked")
  /\ CarriedOut("review")
  /\ cmd' = NoCommand
  /\ UNCHANGED <<manual, git, agents, ctl, events>>

\* run_validation_suite raises, and the command ends.
CommandRaises ==
  /\ cmd.kind # "none" /\ ToRun
  /\ dirty \/ TipKind # "failing"
  /\ dirty' = TRUE
  /\ cmd' = NoCommand
  /\ UNCHANGED <<manual, task, branch, landed, agents, ctl, events,
                 history>>

\* execution_plan puts the packages in state integration_ready in its queue.
IntegrationQueue == ~dirty /\ Tip > landed /\ task.status \notin ACTIVE_TASK_STATES

\* warden integrate --execute: the queue's first is merged, and its task is not
\* looked at.
IntegratePackage ==
  /\ Given
  /\ IntegrationQueue
  /\ landed' = Tip
  /\ CarriedOut("integrate")
  /\ UNCHANGED <<manual, task, branch, dirty, agents, ctl, cmd>>

\* integration.reconcile: the first candidate, then a tick that does not
\* integrate or launch.
IntegrationReconcile ==
  /\ Given
  /\ task.status \in IntegrationStates
  /\ Tip > landed
  /\ landed' = Tip
  /\ To(IF dirty THEN "ready" ELSE "merged")
  /\ UNCHANGED <<manual, branch, dirty, agents, ctl, cmd, history>>

\* checkpoint.create
CheckpointCreate ==
  /\ Given
  /\ Checkpoint(dirty)
  /\ CarriedOut("checkpoint")
  /\ UNCHANGED <<manual, task, landed, agents, ctl, cmd>>

\* result normalize and result.normalize, where there is no result: the
\* head of a clean worktree is reported complete.
NormalizeResult ==
  /\ Given
  /\ result = NoResult /\ ~dirty
  /\ result' = [status |-> "completed", commit |-> Tip]
  /\ CarriedOut("normalize")
  /\ UNCHANGED <<manual, task, git, attempts, working, ctl, cmd>>

User ==
  \/ \E order \in DOMAIN OrderStatus : Order(order)
  \/ \E kind \in {"validate", "review"} : Begin(kind)
  \/ ValidatePackage \/ ReviewPackage \/ CommandRaises
  \/ IntegratePackage \/ IntegrationReconcile
  \/ CheckpointCreate \/ NormalizeResult

Next ==
  \/ ControllerTick
  \/ Crash
  \/ \E i \in 1 .. MaxAttempts : Worker(i)
  \/ User

Spec == Init /\ [][Next]_vars
-----------------------------------------------------------------------------
(***************************************************************************)
(* Properties                                                              *)
(***************************************************************************)
TypeOK ==
  /\ manual \in BOOLEAN /\ dirty \in BOOLEAN
  /\ task \in Task
  /\ branch \in Seq(Commit) /\ Tip <= MaxCommits
  /\ landed \in 0 .. Tip
  /\ result \in Result
  /\ attempts \in 0 .. MaxAttempts /\ working \subseteq 1 .. attempts
  /\ ctl \in [phase : Phases, copy : Task, head : 0 .. MaxCommits]
  /\ cmd \in [kind : {"none", "validate", "review"}, copy : Task,
              commit : 0 .. MaxCommits]
  /\ events \in 0 .. MaxEvents

\* The record's evidence is about the branch's head: validation ran on it and
\* passed, and so did the review.
Gated ==
  /\ task.validation = [status |-> "passed", of |-> Tip, ran |-> Tip]
  /\ task.review = Reviewed("passed", Tip)

\* What the tick merges by itself, no command and no commit having come in
\* between since it took the result, went through both gates as it is, and
\* the evidence in the record says so.
MergesWhatItGated == [][landed' # landed /\ ~meddled' => Gated]_vars

\* What needs a human's approval is merged only when a command that orders it was
\* carried out after the worker's launch: approve-merge, a review of the user's
\* own, or one that names the status or the merge.  No order that was carried out
\* on an earlier attempt counts; of a review that was begun on one and ends on
\* this, the code makes an order, for it writes its status into its old copy.
HumanGate ==
  [][manual /\ landed' # landed => consent']_vars

\* "permits integration only after mechanical gates pass"
IntegratedIsGated == [][landed' # landed => Gated]_vars
=============================================================================
