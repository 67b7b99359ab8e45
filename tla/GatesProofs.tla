----------------------------- MODULE GatesProofs -----------------------------
(***************************************************************************)
(* That no package that needs a human's approval is merged without an      *)
(* order, and that the tick merges by itself only what passed both gates,  *)
(* for any number of commits, attempts, commands and kills.                *)
(***************************************************************************)
EXTENDS Gates, TLAPS

(***************************************************************************)
(* The inductive invariant: who finds the task in a status that lets it be *)
(* merged, or is merging it, finds that the merge was ordered.  A launch   *)
(* takes the order back and leaves no such status behind.                  *)
(***************************************************************************)
Ordered ==
  manual /\ (task.status \in IntegrationStates \/ ctl.phase = "merging") => consent

IInv == TypeOK /\ consent \in BOOLEAN /\ meddled \in BOOLEAN /\ Ordered

-----------------------------------------------------------------------------
(***************************************************************************)
(* Types of the values that the actions build                              *)
(***************************************************************************)
LEMMA EvidenceType ==
  ASSUME NEW status \in {"passed", "failed"}, NEW commit \in 0 .. MaxCommits,
         NEW ran \in 0 .. MaxCommits
  PROVE  [status |-> status, of |-> commit, ran |-> ran] \in Evidence
BY DEF Evidence

LEMMA VerdictType ==
  ASSUME TypeOK, NEW commit \in 0 .. MaxCommits
  PROVE  Verdict(commit) \in Evidence
<1>1. Tip \in 0 .. MaxCommits
  BY BoundsAssumption DEF TypeOK, Tip
<1> QED BY <1>1, EvidenceType DEF Verdict

LEMMA NewTaskType == NewTask \in Task
BY BoundsAssumption DEF NewTask, Task, NoEvidence, Evidence, TASK_STATES

LEMMA HoldingType ==
  ASSUME NEW phase \in Phases, NEW copy \in Task, NEW head \in 0 .. MaxCommits
  PROVE  /\ Holding(phase, copy, head) \in [phase : Phases, copy : Task, head : 0 .. MaxCommits]
         /\ Holding(phase, copy, head).phase = phase
BY DEF Holding

LEMMA AtPhaseType ==
  ASSUME NEW phase \in Phases
  PROVE  /\ AtPhase(phase) \in [phase : Phases, copy : Task, head : 0 .. MaxCommits]
         /\ AtPhase(phase).phase = phase
BY NewTaskType, BoundsAssumption DEF AtPhase

LEMMA NoCommandType ==
  NoCommand \in [kind : {"none", "validate", "review"}, copy : Task, commit : 0 .. MaxCommits]
BY NewTaskType, BoundsAssumption DEF NoCommand

LEMMA SaveType ==
  ASSUME NEW copy \in Task, NEW status \in TASK_STATES, Save(copy, status)
  PROVE  task' \in Task /\ task'.status = status
BY DEF Save, Task

LEMMA ReviewedCopyType ==
  ASSUME NEW copy \in Task, NEW evidence \in Evidence
  PROVE  /\ [copy EXCEPT !.review = evidence] \in Task
         /\ [copy EXCEPT !.validation = evidence] \in Task
BY DEF Task

LEMMA Statuses ==
  /\ LaunchStates \subseteq TASK_STATES /\ IntegrationStates \subseteq TASK_STATES
  /\ {"merged", "failed", "ready", "validating", "reviewing", "integrating", "running",
      "blocked", "decision_required", "handoff_needed", "merge_ready", "review_passed",
      "merge_approved", "integration_ready", "validated"} \subseteq TASK_STATES
  /\ IntegrationStates = {"review_passed", "merge_approved", "integration_ready"}
BY DEF TASK_STATES, LaunchStates, IntegrationStates, ACTIVE_STATES, ACTIVE_TASK_STATES,
       TERMINAL_STATES

-----------------------------------------------------------------------------
(***************************************************************************)
(* The branch grows at its end only, and what has landed stays its part.   *)
(***************************************************************************)
BranchOK == branch \in Seq(Commit) /\ Tip <= MaxCommits /\ landed \in 0 .. Tip

LEMMA AppendStep ==
  ASSUME BranchOK, Tip < MaxCommits, NEW commit \in Commit,
         branch' = Append(branch, commit), UNCHANGED landed
  PROVE  BranchOK'
<1>1. Len(branch') = Len(branch) + 1 /\ branch' \in Seq(Commit) /\ Len(branch) \in Nat
  BY DEF BranchOK
<1> QED BY <1>1, BoundsAssumption DEF BranchOK, Tip

LEMMA CheckpointStep ==
  ASSUME BranchOK, NEW changed \in BOOLEAN, Checkpoint(changed), UNCHANGED landed
  PROVE  BranchOK' /\ dirty' \in BOOLEAN
<1>1. CASE changed /\ Tip < MaxCommits
  BY <1>1, AppendStep DEF Checkpoint, Commit
<1>2. CASE ~(changed /\ Tip < MaxCommits)
  BY <1>2 DEF Checkpoint, BranchOK, Tip
<1> QED BY <1>1, <1>2

LEMMA HandoffStep ==
  ASSUME BranchOK, NEW copy \in Task, NEW changed \in BOOLEAN,
         HandoffOrBlock(copy, changed), UNCHANGED landed
  PROVE  /\ BranchOK' /\ dirty' \in BOOLEAN
         /\ task' \in Task /\ task'.status \notin IntegrationStates
<1>1. BranchOK' /\ dirty' \in BOOLEAN
  BY CheckpointStep DEF HandoffOrBlock
<1>2. PICK status \in {"handoff_needed", "blocked"} : Save(copy, status)
  BY DEF HandoffOrBlock
<1> QED BY <1>1, <1>2, SaveType, Statuses

\* The other parts of TypeOK
RestOK ==
  /\ manual \in BOOLEAN /\ dirty \in BOOLEAN
  /\ task \in Task
  /\ ctl \in [phase : Phases, copy : Task, head : 0 .. MaxCommits]
  /\ consent \in BOOLEAN /\ meddled \in BOOLEAN

AgentsOK ==
  /\ result \in Result
  /\ attempts \in 0 .. MaxAttempts /\ working \subseteq 1 .. attempts

CmdOK ==
  /\ cmd \in [kind : {"none", "validate", "review"}, copy : Task, commit : 0 .. MaxCommits]
  /\ events \in 0 .. MaxEvents

LEMMA Parts == IInv <=> BranchOK /\ RestOK /\ AgentsOK /\ CmdOK /\ Ordered
BY DEF IInv, TypeOK, BranchOK, RestOK, AgentsOK, CmdOK

LEMMA PartsNext == IInv' <=> BranchOK' /\ RestOK' /\ AgentsOK' /\ CmdOK' /\ Ordered'
BY DEF IInv, TypeOK, BranchOK, RestOK, AgentsOK, CmdOK, Tip

-----------------------------------------------------------------------------
(***************************************************************************)
(* The controller's steps                                                  *)
(***************************************************************************)
\* A step that leaves the branch, the agents and the commands alone, and puts
\* the task into a status that does not let it be merged, or keeps it.
LEMMA QuietStep ==
  ASSUME IInv, UNCHANGED <<git, agents, consent>>, Quiet,
         task' \in Task, meddled' \in BOOLEAN,
         ctl' \in [phase : Phases, copy : Task, head : 0 .. MaxCommits],
         ctl'.phase # "merging",
         task'.status \notin IntegrationStates \/ task' = task
  PROVE  IInv'
<1>1. BranchOK'
  BY Parts DEF BranchOK, Tip, git
<1>2. RestOK' /\ AgentsOK' /\ CmdOK'
  BY Parts DEF RestOK, AgentsOK, CmdOK, git, agents, Quiet
<1>3. Ordered'
  BY DEF IInv, Ordered, Quiet
<1> QED BY <1>1, <1>2, <1>3, PartsNext

\* One that may also have made a checkpoint.
LEMMA HandedOff ==
  ASSUME IInv, UNCHANGED <<landed, agents, history>>, Quiet,
         NEW copy \in Task, NEW changed \in BOOLEAN, HandoffOrBlock(copy, changed),
         NEW phase \in Phases \ {"merging"}, Go(phase)
  PROVE  IInv'
<1>1. /\ BranchOK' /\ dirty' \in BOOLEAN
      /\ task' \in Task /\ task'.status \notin IntegrationStates
  BY Parts, HandoffStep
<1>2. /\ ctl' \in [phase : Phases, copy : Task, head : 0 .. MaxCommits]
      /\ ctl'.phase = phase
  BY AtPhaseType DEF Go
<1>3. RestOK' /\ AgentsOK' /\ CmdOK'
  BY <1>1, <1>2, Parts DEF RestOK, AgentsOK, CmdOK, agents, history, Quiet
<1>4. Ordered'
  BY <1>1, <1>2 DEF Ordered
<1> QED BY <1>1, <1>3, <1>4, PartsNext

LEMMA GoType ==
  ASSUME NEW phase \in Phases, Go(phase)
  PROVE  ctl' \in [phase : Phases, copy : Task, head : 0 .. MaxCommits] /\ ctl'.phase = phase
BY AtPhaseType DEF Go

LEMMA Named ==
  {"hydrate", "reconcile", "checking", "validating", "reviewing", "decide", "integrate",
   "merging", "merged", "refused", "launch"} = Phases
BY DEF Phases

LEMMA HydrateStep == ASSUME IInv, Hydrate PROVE IInv'
<1>1. task \in Task /\ (task' = task \/ To("ready") \/ To("merged"))
  BY DEF IInv, TypeOK, Hydrate
<1>2. task' \in Task /\ (task'.status \notin IntegrationStates \/ task' = task)
  BY <1>1, SaveType, Statuses DEF To
<1>3. /\ ctl' \in [phase : Phases, copy : Task, head : 0 .. MaxCommits]
      /\ ctl'.phase = "reconcile"
  BY GoType, Named DEF Hydrate
<1>4. UNCHANGED <<git, agents, consent>> /\ UNCHANGED meddled /\ Quiet
  BY DEF Hydrate, history
<1> QED BY <1>2, <1>3, <1>4, QuietStep DEF IInv

LEMMA ReconcileStep == ASSUME IInv, NothingToReconcile \/ WorkerLost PROVE IInv'
<1>1. task \in Task /\ (task' = task \/ To("decision_required"))
  BY DEF IInv, TypeOK, NothingToReconcile, WorkerLost
<1>2. task' \in Task /\ (task'.status \notin IntegrationStates \/ task' = task)
  BY <1>1, SaveType, Statuses DEF To
<1>3. /\ ctl' \in [phase : Phases, copy : Task, head : 0 .. MaxCommits]
      /\ ctl'.phase = "decide"
  BY GoType, Named DEF NothingToReconcile, WorkerLost
<1>4. UNCHANGED <<git, agents, consent>> /\ UNCHANGED meddled /\ Quiet
  BY DEF NothingToReconcile, WorkerLost, history
<1> QED BY <1>2, <1>3, <1>4, QuietStep DEF IInv

LEMMA TakeResultStep == ASSUME IInv, TakeResult PROVE IInv'
<1>1. UNCHANGED <<git, agents, consent>> /\ meddled' \in BOOLEAN /\ Quiet
  BY DEF TakeResult
<1>2. task \in Task /\ result \in Result
  BY DEF IInv, TypeOK
<1>3. CASE result.status = "completed"
  <2>1. task' \in Task /\ task'.status = "validating"
    BY <1>2, <1>3, SaveType, Statuses DEF TakeResult, To
  <2>2. ctl' = Holding("checking", task', result.commit)
    BY <1>3 DEF TakeResult
  <2>3. result.commit \in 0 .. MaxCommits
    BY <1>2, BoundsAssumption DEF Result, NoResult
  <2>4. /\ ctl' \in [phase : Phases, copy : Task, head : 0 .. MaxCommits]
        /\ ctl'.phase = "checking"
    BY <2>1, <2>2, <2>3, HoldingType, Named
  <2>5. task'.status \notin IntegrationStates
    BY <2>1, Statuses
  <2> QED BY <1>1, <2>1, <2>4, <2>5, QuietStep
<1>4. CASE result.status # "completed"
  <2>1. result.status = "failed"
    BY <1>2, <1>4 DEF Result, TakeResult
  <2>2. task' \in Task /\ task'.status = "failed"
    BY <1>2, <1>4, <2>1, SaveType, Statuses DEF TakeResult, To
  <2>3. /\ ctl' \in [phase : Phases, copy : Task, head : 0 .. MaxCommits]
        /\ ctl'.phase = "decide"
    BY <1>4, GoType, Named DEF TakeResult
  <2>4. task'.status \notin IntegrationStates
    BY <2>2, Statuses
  <2> QED BY <1>1, <2>2, <2>3, <2>4, QuietStep
<1> QED BY <1>3, <1>4

\* What a step in the middle of the tick finds in its hands.
LEMMA InHand ==
  ASSUME IInv
  PROVE  /\ ctl = [phase |-> ctl.phase, copy |-> ctl.copy, head |-> ctl.head]
         /\ ctl.copy \in Task /\ ctl.head \in 0 .. MaxCommits
         /\ dirty \in BOOLEAN /\ task \in Task /\ meddled \in BOOLEAN
BY DEF IInv, TypeOK

LEMMA CheckStep == ASSUME IInv, Check PROVE IInv'
<1>1. UNCHANGED <<landed, agents, history>> /\ Quiet
  BY DEF Check
<1>2. CASE Credible
  <2>1. ctl' = Holding("validating", ctl.copy, ctl.head)
    BY <1>2, InHand DEF Check, Holding
  <2>2. /\ ctl' \in [phase : Phases, copy : Task, head : 0 .. MaxCommits]
        /\ ctl'.phase = "validating"
    BY <2>1, InHand, HoldingType, Named
  <2>3. UNCHANGED <<git, agents, consent>> /\ UNCHANGED <<task, meddled>>
    BY <1>1, <1>2 DEF Check, git, history
  <2> QED BY <1>1, <2>2, <2>3, InHand, QuietStep
<1>3. CASE ~Credible
  BY <1>1, <1>3, InHand, HandedOff, Named DEF Check
<1> QED BY <1>2, <1>3

LEMMA ValidateStep == ASSUME IInv, Validate PROVE IInv'
<1> DEFINE found == Verdict(ctl.head)
<1>1. found \in Evidence
  BY InHand, VerdictType DEF IInv
<1>2. task' = [ctl.copy EXCEPT !.status = "reviewing", !.commit = ctl.head,
                               !.validation = found]
  BY DEF Validate
<1>3. task' \in Task /\ task'.status = "reviewing"
  BY <1>1, <1>2, InHand, Statuses DEF Task
<1>4. ctl' = Holding("reviewing", task', 0) /\ 0 \in 0 .. MaxCommits
      /\ "reviewing" \in Phases
  BY BoundsAssumption, Named DEF Validate
<1>5. /\ ctl' \in [phase : Phases, copy : Task, head : 0 .. MaxCommits]
      /\ ctl'.phase = "reviewing"
  BY <1>3, <1>4 DEF Holding
<1>6. UNCHANGED <<git, agents, consent>> /\ UNCHANGED meddled /\ Quiet
  BY DEF Validate, history
<1>7. task'.status \notin IntegrationStates
  BY <1>3, Statuses
<1> QED BY <1>3, <1>5, <1>6, <1>7, InHand, QuietStep

LEMMA ValidateRaisesStep == ASSUME IInv, ValidateRaises PROVE IInv'
BY InHand, HandedOff, Named DEF ValidateRaises

LEMMA DecideStep == ASSUME IInv, Decide PROVE IInv'
<1>1. UNCHANGED <<landed, agents, history>> /\ Quiet /\ Go("integrate")
  BY DEF Decide
<1>2. CASE task.status = "decision_required"
  BY <1>1, <1>2, InHand, HandedOff, Named DEF Decide
<1>3. CASE task.status # "decision_required"
  <2>1. /\ ctl' \in [phase : Phases, copy : Task, head : 0 .. MaxCommits]
        /\ ctl'.phase = "integrate"
    BY <1>1, GoType, Named
  <2>2. UNCHANGED <<git, agents, consent>> /\ UNCHANGED <<task, meddled>>
    BY <1>1, <1>3 DEF Decide, git, history
  <2> QED BY <1>1, <2>1, <2>2, InHand, QuietStep
<1> QED BY <1>2, <1>3

\* The review of a package that needs a human's approval ends in merge_ready.
LEMMA ReviewEndsStep == ASSUME IInv, ReviewEnds PROVE IInv'
<1> DEFINE status == ReviewStatus(ctl.copy.validation, ctl.copy.commit, TRUE)
           kept == [ctl.copy EXCEPT !.review = Reviewed(status, ctl.copy.commit)]
<1>1. UNCHANGED <<landed, agents, history>> /\ Quiet /\ Go("decide")
  BY DEF ReviewEnds
<1>2. CASE status = "passed"
  <2>1. ctl.copy.commit \in 0 .. MaxCommits
    BY InHand DEF Task
  <2>2. Reviewed(status, ctl.copy.commit) \in Evidence
    BY <1>2, <2>1, EvidenceType DEF Reviewed
  <2>3. kept \in Task
    BY <2>2, InHand, ReviewedCopyType
  <2>4. /\ Save(kept, IF manual THEN "merge_ready" ELSE "review_passed")
        /\ UNCHANGED <<branch, dirty>>
    BY <1>2 DEF ReviewEnds
  <2>5. /\ task' \in Task
        /\ task'.status = IF manual THEN "merge_ready" ELSE "review_passed"
    BY <2>3, <2>4, SaveType, Statuses
  <2>6. /\ ctl' \in [phase : Phases, copy : Task, head : 0 .. MaxCommits]
        /\ ctl'.phase = "decide"
    BY <1>1, GoType, Named
  <2>7. BranchOK' /\ RestOK' /\ AgentsOK' /\ CmdOK'
    BY <1>1, <2>4, <2>5, <2>6, Parts
    DEF BranchOK, Tip, RestOK, AgentsOK, CmdOK, agents, history, Quiet
  <2>8. Ordered'
    BY <1>1, <2>5, <2>6, Statuses DEF Ordered, Quiet
  <2> QED BY <2>7, <2>8, PartsNext
<1>3. CASE status # "passed"
  BY <1>1, <1>3, InHand, HandedOff, Named DEF ReviewEnds
<1> QED BY <1>2, <1>3

\* Who takes up the merge finds a status that says it was ordered.
LEMMA CandidateStep == ASSUME IInv, Candidate PROVE IInv'
<1>1. UNCHANGED <<git, agents, history>> /\ Quiet
  BY DEF Candidate
<1>2. CASE task.status \in IntegrationStates
  <2>1. task' \in Task /\ task'.status = "integrating"
    BY <1>2, InHand, SaveType, Statuses DEF Candidate, To
  <2>2. Tip \in 0 .. MaxCommits
    BY BoundsAssumption DEF IInv, TypeOK, Tip
  <2>3. ctl' \in [phase : Phases, copy : Task, head : 0 .. MaxCommits]
    <3>1. ctl' = Holding("merging", task', Tip) /\ "merging" \in Phases
      BY <1>2, Named DEF Candidate
    <3> QED BY <2>1, <2>2, <3>1 DEF Holding
  <2>4. BranchOK' /\ RestOK' /\ AgentsOK' /\ CmdOK'
    BY <1>1, <2>1, <2>3, Parts
    DEF BranchOK, Tip, RestOK, AgentsOK, CmdOK, git, agents, history, Quiet
  <2>5. Ordered'
    BY <1>1, <1>2 DEF IInv, Ordered, history, Quiet
  <2> QED BY <2>4, <2>5, PartsNext
<1>3. CASE task.status \notin IntegrationStates
  <2>1. /\ ctl' \in [phase : Phases, copy : Task, head : 0 .. MaxCommits]
        /\ ctl'.phase = "launch" /\ task' = task
    BY <1>3, GoType, Named DEF Candidate
  <2> QED BY <1>1, <2>1, InHand, QuietStep DEF history
<1> QED BY <1>2, <1>3

LEMMA IntegrateStep == ASSUME IInv, Integrate PROVE IInv'
<1>1. UNCHANGED <<task, branch, dirty, agents, history>> /\ Quiet
  BY DEF Integrate
<1>2. landed' = landed \/ landed' = Tip
  BY DEF Integrate
<1>3. ctl' = Holding("merged", ctl.copy, ctl.head) \/ ctl' = Holding("refused", ctl.copy, ctl.head)
  BY InHand DEF Integrate, Holding
<1>4. /\ ctl' \in [phase : Phases, copy : Task, head : 0 .. MaxCommits]
      /\ ctl'.phase # "merging"
  <2>1. "merged" \in Phases /\ "refused" \in Phases
    BY Named
  <2> QED BY <1>3, <2>1, InHand DEF Holding
<1>5. BranchOK'
  BY <1>1, <1>2, Parts DEF BranchOK, Tip
<1>6. RestOK' /\ AgentsOK' /\ CmdOK'
  BY <1>1, <1>4, Parts DEF RestOK, AgentsOK, CmdOK, agents, history, Quiet
<1>7. Ordered'
  BY <1>1, <1>4 DEF IInv, Ordered, history, Quiet
<1> QED BY <1>5, <1>6, <1>7, PartsNext

LEMMA RecordStep == ASSUME IInv, RecordIntegration PROVE IInv'
<1>1. task' \in Task /\ task'.status \in {"merged", "failed"}
  BY InHand, SaveType, Statuses DEF RecordIntegration
<1>2. /\ ctl' \in [phase : Phases, copy : Task, head : 0 .. MaxCommits]
      /\ ctl'.phase = "launch"
  BY GoType, Named DEF RecordIntegration
<1>3. UNCHANGED <<git, agents, consent>> /\ UNCHANGED meddled /\ Quiet
  BY DEF RecordIntegration, history
<1>4. task'.status \notin IntegrationStates
  BY <1>1, Statuses
<1> QED BY <1>1, <1>2, <1>3, <1>4, InHand, QuietStep

LEMMA LaunchStep == ASSUME IInv, Launch PROVE IInv'
<1>1. UNCHANGED <<git, result, meddled>> /\ Quiet
  BY DEF Launch
<1>2. /\ ctl' \in [phase : Phases, copy : Task, head : 0 .. MaxCommits]
      /\ ctl'.phase = "hydrate"
  BY GoType, Named DEF Launch
<1>3. task' \in Task /\ task'.status \in {"running", "blocked"}
  BY InHand, SaveType, Statuses DEF Launch, To
<1>4. AgentsOK' /\ consent' \in BOOLEAN
  <2>1. CASE /\ attempts < MaxAttempts
             /\ attempts' = attempts + 1
             /\ working' = working \cup {attempts'}
             /\ consent' = FALSE
    <3>1. attempts \in 0 .. MaxAttempts /\ working \subseteq 1 .. attempts
      BY Parts DEF AgentsOK
    <3>2. attempts' \in 0 .. MaxAttempts
      BY <2>1, <3>1, BoundsAssumption
    <3>3. working' \subseteq 1 .. attempts'
      BY <2>1, <3>1, BoundsAssumption
    <3>4. result' \in Result
      BY <1>1, Parts DEF AgentsOK
    <3> QED BY <2>1, <3>2, <3>3, <3>4 DEF AgentsOK
  <2>2. CASE UNCHANGED <<attempts, working, consent>>
    BY <1>1, <2>2, Parts DEF AgentsOK, RestOK
  <2> QED BY <2>1, <2>2 DEF Launch
<1>5. BranchOK' /\ RestOK' /\ CmdOK'
  BY <1>1, <1>2, <1>3, <1>4, Parts DEF BranchOK, Tip, RestOK, CmdOK, git, Quiet
<1>6. Ordered'
  BY <1>2, <1>3, Statuses DEF Ordered
<1> QED BY <1>4, <1>5, <1>6, PartsNext

LEMMA NothingToLaunchStep == ASSUME IInv, NothingToLaunch PROVE IInv'
<1>1. /\ ctl' \in [phase : Phases, copy : Task, head : 0 .. MaxCommits]
      /\ ctl'.phase = "hydrate"
  BY GoType, Named DEF NothingToLaunch
<1> QED BY <1>1, InHand, QuietStep DEF NothingToLaunch, history

LEMMA CrashStep == ASSUME IInv, Crash PROVE IInv'
<1>1. /\ ctl' \in [phase : Phases, copy : Task, head : 0 .. MaxCommits]
      /\ ctl'.phase = "hydrate"
  BY AtPhaseType, Named DEF Crash
<1>2. events' \in 0 .. MaxEvents
  BY BoundsAssumption DEF Crash, IInv, TypeOK
<1>3. BranchOK' /\ RestOK' /\ AgentsOK' /\ CmdOK'
  BY <1>1, <1>2, Parts
  DEF Crash, BranchOK, Tip, RestOK, AgentsOK, CmdOK, git, agents, history
<1>4. Ordered'
  BY <1>1 DEF Crash, IInv, Ordered, history
<1> QED BY <1>3, <1>4, PartsNext

LEMMA ControllerStep == ASSUME IInv, ControllerTick \/ Crash PROVE IInv'
BY HydrateStep, ReconcileStep, TakeResultStep, CheckStep, ValidateStep,
   ValidateRaisesStep, ReviewEndsStep, DecideStep, CandidateStep, IntegrateStep,
   RecordStep, LaunchStep, NothingToLaunchStep, CrashStep
DEF ControllerTick

-----------------------------------------------------------------------------
(***************************************************************************)
(* The workers, who have nothing to do with the task's status              *)
(***************************************************************************)
LEMMA WorkerStep ==
  ASSUME IInv, NEW i \in 1 .. MaxAttempts, Worker(i) PROVE IInv'
<1>1. /\ UNCHANGED <<manual, task, landed, attempts, ctl, cmd, events, consent>>
      /\ dirty' \in BOOLEAN /\ meddled' \in BOOLEAN
      /\ working' \subseteq working
  BY DEF IInv, TypeOK, Worker, WorkerEdits, WorkerCommits, WorkerReports, WorkerDies,
         Elsewhere
<1>2. BranchOK'
  <2>1. CASE WorkerCommits(i)
    BY <1>1, <2>1, Parts, AppendStep DEF WorkerCommits
  <2>2. CASE UNCHANGED branch
    BY <1>1, <2>2, Parts DEF BranchOK, Tip
  <2> QED BY <2>1, <2>2 DEF Worker, WorkerEdits, WorkerReports, WorkerDies
<1>3. result' \in Result
  <2>1. CASE WorkerReports(i)
    <3>1. Tip \in 0 .. MaxCommits
      BY BoundsAssumption DEF IInv, TypeOK, Tip
    <3> QED BY <2>1, <3>1 DEF WorkerReports, Result
  <2>2. CASE UNCHANGED result
    BY <2>2 DEF IInv, TypeOK
  <2> QED BY <2>1, <2>2 DEF Worker, WorkerEdits, WorkerCommits, WorkerDies
<1>4. RestOK' /\ AgentsOK' /\ CmdOK'
  BY <1>1, <1>3, Parts DEF RestOK, AgentsOK, CmdOK
<1>5. Ordered'
  BY <1>1 DEF IInv, Ordered
<1> QED BY <1>2, <1>4, <1>5, PartsNext

-----------------------------------------------------------------------------
(***************************************************************************)
(* The commands: those that put the task into a status that lets it be     *)
(* merged are the order.                                                   *)
(***************************************************************************)
LEMMA GivenType ==
  ASSUME IInv, Given PROVE events' \in 0 .. MaxEvents
BY BoundsAssumption DEF IInv, TypeOK, Given

LEMMA CarriedOutType ==
  ASSUME IInv, NEW order, CarriedOut(order)
  PROVE  /\ consent' \in BOOLEAN /\ meddled' \in BOOLEAN /\ (consent => consent')
         /\ order \in {"approve", "review", "route", "integrate"} => consent'
BY DEF IInv, CarriedOut

\* A command that leaves the controller and the agents alone.
LEMMA CommandStep ==
  ASSUME IInv, UNCHANGED <<manual, ctl>>, BranchOK', AgentsOK', CmdOK',
         dirty' \in BOOLEAN, task' \in Task,
         consent' \in BOOLEAN, meddled' \in BOOLEAN, consent => consent',
         \/ consent'
         \/ task'.status \notin IntegrationStates
         \/ task' = task
  PROVE  IInv'
<1>1. RestOK'
  BY Parts DEF RestOK
<1>2. Ordered'
  BY DEF IInv, Ordered
<1> QED BY <1>1, <1>2, PartsNext

LEMMA OrderStep ==
  ASSUME IInv, NEW order \in DOMAIN OrderStatus, Order(order) PROVE IInv'
<1>1. PICK status \in OrderStatus[order] : Save(task, status)
  BY DEF Order, To
<1>2. status \in TASK_STATES
  BY Statuses DEF OrderStatus
<1>3. status \in IntegrationStates => order \in {"approve", "route"}
  BY Statuses DEF OrderStatus
<1>4. task' \in Task /\ task'.status = status
  BY <1>1, <1>2, InHand, SaveType
<1>5. /\ consent' \in BOOLEAN /\ meddled' \in BOOLEAN /\ (consent => consent')
      /\ order \in {"approve", "review", "route", "integrate"} => consent'
  BY CarriedOutType DEF Order
<1>6. BranchOK' /\ AgentsOK' /\ CmdOK' /\ dirty' \in BOOLEAN
  BY Parts, GivenType, InHand
  DEF Order, BranchOK, Tip, AgentsOK, CmdOK, git, agents
<1>7. UNCHANGED <<manual, ctl>>
  BY DEF Order
<1> QED BY <1>3, <1>4, <1>5, <1>6, <1>7, CommandStep

LEMMA BeginStep ==
  ASSUME IInv, NEW kind \in {"validate", "review"}, Begin(kind) PROVE IInv'
<1> DEFINE commit == IF task.commit # 0 THEN task.commit ELSE Tip
<1>1. commit \in 0 .. MaxCommits
  BY BoundsAssumption DEF IInv, TypeOK, Tip, Task
<1>2. cmd' \in [kind : {"none", "validate", "review"}, copy : Task, commit : 0 .. MaxCommits]
  BY <1>1, InHand DEF Begin
<1>3. BranchOK' /\ AgentsOK' /\ CmdOK' /\ dirty' \in BOOLEAN
  BY <1>2, Parts, GivenType, InHand
  DEF Begin, BranchOK, Tip, AgentsOK, CmdOK, git, agents
<1>4. UNCHANGED <<manual, ctl, task, consent, meddled>>
  BY DEF Begin, history
<1> QED BY <1>3, <1>4, CommandStep DEF IInv, TypeOK

\* What a command that comes to its end holds.
LEMMA CmdInHand ==
  ASSUME IInv
  PROVE  cmd.copy \in Task /\ cmd.commit \in 0 .. MaxCommits
BY DEF IInv, TypeOK

LEMMA ValidatePackageStep == ASSUME IInv, ValidatePackage PROVE IInv'
<1> DEFINE found == Verdict(cmd.commit)
           kept == [cmd.copy EXCEPT !.validation = found]
           status == IF found.status = "passed" THEN "validated" ELSE "blocked"
<1>1. kept \in Task
  BY CmdInHand, VerdictType, ReviewedCopyType DEF IInv
<1>2. Save(kept, status) /\ status \in {"validated", "blocked"}
  BY DEF ValidatePackage
<1>3. task' \in Task /\ task'.status = status
  <2> HIDE DEF kept
  <2> QED BY <1>1, <1>2, SaveType, Statuses
<1>4. task'.status \notin IntegrationStates
  BY <1>2, <1>3, Statuses
<1>5. consent' \in BOOLEAN /\ meddled' \in BOOLEAN /\ (consent => consent')
  BY CarriedOutType DEF ValidatePackage
<1>6. BranchOK' /\ AgentsOK' /\ CmdOK' /\ dirty' \in BOOLEAN
  BY Parts, NoCommandType, InHand
  DEF ValidatePackage, BranchOK, Tip, AgentsOK, CmdOK, git, agents
<1>7. UNCHANGED <<manual, ctl>>
  BY DEF ValidatePackage
<1> QED BY <1>3, <1>4, <1>5, <1>6, <1>7, CommandStep

LEMMA ReviewPackageStep == ASSUME IInv, ReviewPackage PROVE IInv'
<1>1. task' \in Task
  <2> DEFINE found == IF ToRun THEN Verdict(cmd.commit) ELSE cmd.copy.validation
             status(other) == ReviewStatus(found, cmd.commit, other)
             kept(other) == [cmd.copy EXCEPT !.review = Reviewed(status(other), cmd.commit)]
  <2>1. PICK other \in BOOLEAN :
          Save(kept(other), IF status(other) = "passed" THEN "review_passed" ELSE "blocked")
    BY DEF ReviewPackage
  <2>2. status(other) \in {"passed", "failed"}
    BY DEF ReviewStatus
  <2>3. Reviewed(status(other), cmd.commit) \in Evidence
    BY <2>2, CmdInHand, EvidenceType DEF Reviewed
  <2>4. kept(other) \in Task
    BY <2>3, CmdInHand, ReviewedCopyType
  <2> HIDE DEF kept, status
  <2> QED BY <2>1, <2>4, SaveType, Statuses
<1>2. consent' \in BOOLEAN /\ meddled' \in BOOLEAN /\ consent'
  BY CarriedOutType DEF ReviewPackage
<1>3. BranchOK' /\ AgentsOK' /\ CmdOK' /\ dirty' \in BOOLEAN
  BY Parts, NoCommandType, InHand
  DEF ReviewPackage, BranchOK, Tip, AgentsOK, CmdOK, git, agents
<1>4. UNCHANGED <<manual, ctl>>
  BY DEF ReviewPackage
<1> QED BY <1>1, <1>2, <1>3, <1>4, CommandStep

LEMMA CommandRaisesStep == ASSUME IInv, CommandRaises PROVE IInv'
<1>1. BranchOK' /\ AgentsOK' /\ CmdOK' /\ dirty' \in BOOLEAN
  BY Parts, NoCommandType
  DEF CommandRaises, BranchOK, Tip, AgentsOK, CmdOK, agents
<1>2. UNCHANGED <<manual, ctl, task, consent, meddled>>
  BY DEF CommandRaises, history
<1> QED BY <1>1, <1>2, CommandStep DEF IInv, TypeOK

LEMMA IntegratePackageStep == ASSUME IInv, IntegratePackage PROVE IInv'
<1>1. consent' \in BOOLEAN /\ meddled' \in BOOLEAN /\ consent'
  BY CarriedOutType DEF IntegratePackage
<1>2. BranchOK' /\ AgentsOK' /\ CmdOK' /\ dirty' \in BOOLEAN
  BY Parts, GivenType, InHand
  DEF IntegratePackage, BranchOK, Tip, AgentsOK, CmdOK, agents
<1>3. UNCHANGED <<manual, ctl, task>>
  BY DEF IntegratePackage
<1> QED BY <1>1, <1>2, <1>3, InHand, CommandStep

LEMMA ReconcileToolStep == ASSUME IInv, IntegrationReconcile PROVE IInv'
<1>1. task' \in Task /\ task'.status \in {"ready", "merged"}
  BY InHand, SaveType, Statuses DEF IntegrationReconcile, To
<1>2. BranchOK' /\ AgentsOK' /\ CmdOK' /\ dirty' \in BOOLEAN
  BY Parts, GivenType, InHand
  DEF IntegrationReconcile, BranchOK, Tip, AgentsOK, CmdOK, agents
<1>3. UNCHANGED <<manual, ctl, consent, meddled>>
  BY DEF IntegrationReconcile, history
<1>4. task'.status \notin IntegrationStates
  BY <1>1, Statuses
<1> QED BY <1>1, <1>2, <1>3, <1>4, CommandStep DEF IInv, TypeOK

LEMMA CheckpointCreateStep == ASSUME IInv, CheckpointCreate PROVE IInv'
<1>1. BranchOK' /\ dirty' \in BOOLEAN
  BY Parts, InHand, CheckpointStep DEF CheckpointCreate
<1>2. consent' \in BOOLEAN /\ meddled' \in BOOLEAN /\ (consent => consent')
  BY CarriedOutType DEF CheckpointCreate
<1>3. AgentsOK' /\ CmdOK'
  BY Parts, GivenType DEF CheckpointCreate, AgentsOK, CmdOK, agents
<1>4. UNCHANGED <<manual, ctl, task>>
  BY DEF CheckpointCreate
<1> QED BY <1>1, <1>2, <1>3, <1>4, InHand, CommandStep

LEMMA NormalizeResultStep == ASSUME IInv, NormalizeResult PROVE IInv'
<1>1. Tip \in 0 .. MaxCommits
  BY BoundsAssumption DEF IInv, TypeOK, Tip
<1>2. result' \in Result
  BY <1>1 DEF NormalizeResult, Result
<1>3. consent' \in BOOLEAN /\ meddled' \in BOOLEAN /\ (consent => consent')
  BY CarriedOutType DEF NormalizeResult
<1>4. BranchOK' /\ AgentsOK' /\ CmdOK' /\ dirty' \in BOOLEAN
  BY <1>2, Parts, GivenType, InHand
  DEF NormalizeResult, BranchOK, Tip, AgentsOK, CmdOK, git
<1>5. UNCHANGED <<manual, ctl, task>>
  BY DEF NormalizeResult
<1> QED BY <1>3, <1>4, <1>5, InHand, CommandStep

LEMMA UserStep == ASSUME IInv, User PROVE IInv'
BY OrderStep, BeginStep, ValidatePackageStep, ReviewPackageStep, CommandRaisesStep,
   IntegratePackageStep, ReconcileToolStep, CheckpointCreateStep, NormalizeResultStep
DEF User

-----------------------------------------------------------------------------
LEMMA InitInv == Init => IInv
<1> SUFFICES ASSUME Init PROVE IInv
  OBVIOUS
<1>1. BranchOK
  BY BoundsAssumption DEF Init, BranchOK, Tip
<1>2. RestOK
  BY AtPhaseType, Named, NewTaskType DEF Init, RestOK
<1>3. AgentsOK /\ CmdOK
  BY BoundsAssumption, NoCommandType DEF Init, AgentsOK, CmdOK, Result
<1>4. Ordered
  <2>1. task.status = "planned" /\ ctl.phase = "hydrate"
    BY AtPhaseType, Named DEF Init, NewTask
  <2> QED BY <2>1, Statuses DEF Ordered
<1> QED BY <1>1, <1>2, <1>3, <1>4, Parts

LEMMA NextInv == ASSUME IInv, [Next]_vars PROVE IInv'
<1>1. CASE ControllerTick \/ Crash
  BY <1>1, ControllerStep
<1>2. CASE \E i \in 1 .. MaxAttempts : Worker(i)
  BY <1>2, WorkerStep
<1>3. CASE User
  BY <1>3, UserStep
<1>4. CASE UNCHANGED vars
  BY <1>4, Parts, PartsNext
  DEF vars, git, agents, history, BranchOK, Tip, RestOK, AgentsOK, CmdOK, Ordered
<1> QED BY <1>1, <1>2, <1>3, <1>4 DEF Next

LEMMA Invariance == Spec => []IInv
<1>1. Init => IInv
  BY InitInv
<1>2. IInv /\ [Next]_vars => IInv'
  BY NextInv
<1> QED BY <1>1, <1>2, PTL DEF Spec

\* The record holds statuses that transition_task knows, and evidence of
\* commits that exist.
THEOREM TypeCorrect == Spec => []TypeOK
<1>1. IInv => TypeOK
  BY DEF IInv
<1> QED BY <1>1, Invariance, PTL

\* The only steps that merge are controller_tick's, which found an order, the
\* commands' that are one, and integration.reconcile's, which found one.
LEMMA MergesAreOrdered ==
  ASSUME IInv, [Next]_vars, manual, landed' # landed
  PROVE  consent'
<1>1. CASE ControllerTick \/ Crash
  <2>1. Integrate
    BY <1>1
    DEF ControllerTick, Crash, Hydrate, NothingToReconcile, WorkerLost, TakeResult,
        Check, Validate, ValidateRaises, ReviewEnds, Decide, Candidate,
        RecordIntegration, Launch, NothingToLaunch, git
  <2> QED BY <2>1 DEF Integrate, IInv, Ordered, history
<1>2. CASE \E i \in 1 .. MaxAttempts : Worker(i)
  BY <1>2
  DEF Worker, WorkerEdits, WorkerCommits, WorkerReports, WorkerDies, Elsewhere
<1>3. CASE User
  <2>1. IntegratePackage \/ IntegrationReconcile
    BY <1>3
    DEF User, Order, Begin, ValidatePackage, ReviewPackage, CommandRaises,
        CheckpointCreate, NormalizeResult, git
  <2>2. CASE IntegratePackage
    BY <2>2, CarriedOutType DEF IntegratePackage
  <2>3. CASE IntegrationReconcile
    BY <2>3 DEF IntegrationReconcile, IInv, Ordered, history
  <2> QED BY <2>1, <2>2, <2>3
<1>4. CASE UNCHANGED vars
  BY <1>4 DEF vars, git
<1> QED BY <1>1, <1>2, <1>3, <1>4 DEF Next

\* Whatever commands, kills and attempts come between: the branch of a package
\* that needs a human's approval reaches the integration branch on an order only,
\* one that was carried out (the record saved) since the last launch.
THEOREM HumanGateHolds == Spec => HumanGate
<1>1. IInv /\ [Next]_vars => [manual /\ landed' # landed => consent']_vars
  BY MergesAreOrdered
<1> QED BY <1>1, Invariance, PTL DEF Spec, HumanGate

-----------------------------------------------------------------------------
(***************************************************************************)
(* The second invariant: as long as no command and no commit has come in,  *)
(* what the tick holds in its hands is about the branch's head, and a task *)
(* that may be merged has passed both gates as it is.                      *)
(***************************************************************************)
Untouched ==
  ~meddled =>
    /\ task.status \in IntegrationStates \/ ctl.phase = "merging" => Gated
    /\ ctl.phase = "validating" => ctl.head = Tip
    /\ ctl.phase = "reviewing" =>
         /\ ctl.copy.commit = Tip
         /\ ctl.copy.validation.of = Tip /\ ctl.copy.validation.ran = Tip

Holds == {"merging", "validating", "reviewing"}

\* A step after which nothing is in hand, and the task may not be merged.
LEMMA LetsGo ==
  ASSUME task'.status \notin IntegrationStates, ctl'.phase \notin Holds
  PROVE  Untouched'
BY DEF Untouched, Holds

\* A step that leaves the evidence and the branch as they are.
LEMMA LeavesEvidence ==
  ASSUME Untouched, UNCHANGED <<branch, meddled>>,
         task'.validation = task.validation, task'.review = task.review,
         task'.status \in IntegrationStates => task.status \in IntegrationStates,
         ctl' = ctl \/ ctl'.phase \notin Holds
  PROVE  Untouched'
BY DEF Untouched, Gated, Tip, Holds

LEMMA SaveKeeps ==
  ASSUME NEW status \in TASK_STATES, task \in Task, To(status)
  PROVE  /\ task'.validation = task.validation /\ task'.review = task.review
         /\ task'.status = status
BY DEF To, Save, Task

LEMMA HandedOffUntouched ==
  ASSUME NEW copy \in Task, NEW changed \in BOOLEAN, HandoffOrBlock(copy, changed),
         NEW phase \in Phases \ Holds, Go(phase)
  PROVE  Untouched'
<1>1. PICK status \in {"handoff_needed", "blocked"} : Save(copy, status)
  BY DEF HandoffOrBlock
<1>2. task'.status \notin IntegrationStates
  BY <1>1, SaveType, Statuses
<1>3. ctl'.phase = phase
  BY GoType
<1> QED BY <1>2, <1>3, LetsGo

LEMMA PhaseNames ==
  {"hydrate", "reconcile", "checking", "decide", "integrate", "merged", "refused", "launch"}
    = Phases \ Holds
BY DEF Phases, Holds

LEMMA ReconcileUntouched ==
  ASSUME IInv, Untouched, Hydrate \/ NothingToReconcile \/ WorkerLost
  PROVE  Untouched'
<1>1. task \in Task /\ UNCHANGED <<branch, meddled>>
  BY InHand DEF Hydrate, NothingToReconcile, WorkerLost, git, history
<1>2. \/ task' = task
      \/ To("ready") \/ To("merged") \/ To("decision_required")
  BY DEF Hydrate, NothingToReconcile, WorkerLost
<1>3. /\ task'.validation = task.validation /\ task'.review = task.review
      /\ task'.status \in IntegrationStates => task.status \in IntegrationStates
  BY <1>1, <1>2, SaveKeeps, Statuses
<1>4. ctl'.phase \notin Holds
  BY GoType, PhaseNames DEF Hydrate, NothingToReconcile, WorkerLost
<1> QED BY <1>1, <1>3, <1>4, LeavesEvidence

LEMMA TakeResultUntouched == ASSUME IInv, Untouched, TakeResult PROVE Untouched'
<1>1. task \in Task /\ result \in Result
  BY DEF IInv, TypeOK
<1>2. CASE result.status = "completed"
  <2>1. task'.status = "validating"
    BY <1>1, <1>2, SaveKeeps, Statuses DEF TakeResult
  <2>2. ctl'.phase = "checking"
    BY <1>2 DEF TakeResult, Holding
  <2> QED BY <2>1, <2>2, LetsGo, Statuses, PhaseNames
<1>3. CASE result.status # "completed"
  <2>1. result.status = "failed"
    BY <1>1, <1>3 DEF Result, TakeResult
  <2>2. task'.status = "failed"
    BY <1>1, <1>3, <2>1, SaveKeeps, Statuses DEF TakeResult
  <2>3. ctl'.phase = "decide"
    BY <1>3, GoType, Named DEF TakeResult
  <2> QED BY <2>2, <2>3, LetsGo, Statuses, PhaseNames
<1> QED BY <1>2, <1>3

\* The commit a result names is taken for the head only when it is.
LEMMA CheckUntouched == ASSUME IInv, Untouched, Check PROVE Untouched'
<1>1. CASE Credible
  <2>1. /\ ctl'.phase = "validating" /\ ctl'.head = ctl.head
        /\ UNCHANGED <<task, branch, meddled>>
    BY <1>1, InHand DEF Check, history
  <2>2. CASE ~meddled /\ task.status \in IntegrationStates
    BY <1>1, <2>1, <2>2 DEF Untouched, Gated, Tip, Credible
  <2>3. CASE meddled \/ task.status \notin IntegrationStates
    BY <1>1, <2>1, <2>3 DEF Untouched, Gated, Tip, Credible
  <2> QED BY <2>2, <2>3
<1>2. CASE ~Credible
  BY <1>2, InHand, HandedOffUntouched, PhaseNames DEF Check
<1> QED BY <1>1, <1>2

\* The suite's evidence is of the head, and ran on it.
LEMMA ValidateUntouched == ASSUME IInv, Untouched, Validate PROVE Untouched'
<1>1. /\ task'.status = "reviewing" /\ task'.commit = ctl.head
      /\ task'.validation.of = ctl.head /\ task'.validation.ran = Tip
  BY InHand DEF Validate, Task, Verdict
<1>2. ctl'.phase = "reviewing" /\ ctl'.copy = task'
  BY DEF Validate, Holding
<1>3. ctl.phase = "validating" /\ UNCHANGED <<branch, meddled>>
  BY DEF Validate, git, history
<1>4. task'.status \notin IntegrationStates
  BY <1>1, Statuses
<1>5. Tip' = Tip
  BY <1>3 DEF Tip
<1>6. ~meddled => ctl.head = Tip
  BY <1>3 DEF Untouched
<1> QED BY <1>1, <1>2, <1>3, <1>4, <1>5, <1>6 DEF Untouched

LEMMA ValidateRaisesUntouched == ASSUME IInv, Untouched, ValidateRaises PROVE Untouched'
BY InHand, HandedOffUntouched, PhaseNames DEF ValidateRaises

\* A review passes on evidence that passed, and both are of the head.
LEMMA ReviewUntouched == ASSUME IInv, Untouched, ReviewEnds PROVE Untouched'
<1> DEFINE status == ReviewStatus(ctl.copy.validation, ctl.copy.commit, TRUE)
           kept == [ctl.copy EXCEPT !.review = Reviewed(status, ctl.copy.commit)]
<1>1. ctl.phase = "reviewing" /\ UNCHANGED meddled /\ Go("decide")
  BY DEF ReviewEnds, history
<1>2. ctl'.phase = "decide"
  BY <1>1, GoType, Named
<1>3. CASE status = "passed"
  <2>1. /\ Save(kept, IF manual THEN "merge_ready" ELSE "review_passed")
        /\ UNCHANGED branch
    BY <1>3 DEF ReviewEnds
  <2>2. /\ task'.validation = ctl.copy.validation
        /\ task'.review = Reviewed("passed", ctl.copy.commit)
    BY <1>3, <2>1, InHand DEF Save, Task
  <2>3. ctl.copy.validation.status = "passed"
    BY <1>3 DEF ReviewStatus
  <2>4. ctl.copy.validation \in Evidence
    BY InHand DEF Task
  <2>5. ASSUME ~meddled
        PROVE  Gated'
    <3>1. /\ ctl.copy.commit = Tip
          /\ ctl.copy.validation.of = Tip /\ ctl.copy.validation.ran = Tip
      BY <1>1, <2>5 DEF Untouched
    <3>2. ctl.copy.validation = [status |-> "passed", of |-> Tip, ran |-> Tip]
      BY <2>3, <2>4, <3>1 DEF Evidence
    <3>3. Tip' = Tip
      BY <2>1 DEF Tip
    <3> QED BY <2>2, <3>1, <3>2, <3>3 DEF Gated, Reviewed
  <2> QED BY <1>1, <1>2, <2>5 DEF Untouched
<1>4. CASE status # "passed"
  BY <1>1, <1>4, InHand, HandedOffUntouched, PhaseNames DEF ReviewEnds
<1> QED BY <1>3, <1>4

LEMMA DecideUntouched == ASSUME IInv, Untouched, Decide PROVE Untouched'
<1>1. CASE task.status = "decision_required"
  BY <1>1, InHand, HandedOffUntouched, PhaseNames DEF Decide
<1>2. CASE task.status # "decision_required"
  <2>1. ctl'.phase \notin Holds
    BY GoType, PhaseNames DEF Decide
  <2>2. UNCHANGED <<task, branch, meddled>>
    BY <1>2 DEF Decide, history
  <2> QED BY <2>1, <2>2, LeavesEvidence
<1> QED BY <1>1, <1>2

\* Who takes up the merge finds a task that passed the gates.
LEMMA CandidateUntouched == ASSUME IInv, Untouched, Candidate PROVE Untouched'
<1>1. task \in Task /\ UNCHANGED <<branch, meddled>>
  BY InHand DEF Candidate, git, history
<1>2. CASE task.status \in IntegrationStates
  <2>1. /\ task'.validation = task.validation /\ task'.review = task.review
        /\ task'.status = "integrating"
    BY <1>1, <1>2, SaveKeeps, Statuses DEF Candidate
  <2>2. ctl'.phase = "merging"
    BY <1>2 DEF Candidate, Holding
  <2>3. ~meddled => Gated'
    BY <1>1, <1>2, <2>1 DEF Untouched, Gated, Tip
  <2> QED BY <1>1, <2>2, <2>3 DEF Untouched
<1>3. CASE task.status \notin IntegrationStates
  <2>1. ctl'.phase \notin Holds /\ task' = task
    BY <1>3, GoType, PhaseNames DEF Candidate
  <2> QED BY <1>1, <2>1, LeavesEvidence
<1> QED BY <1>2, <1>3

LEMMA IntegrateUntouched == ASSUME IInv, Untouched, Integrate \/ Crash PROVE Untouched'
<1>1. UNCHANGED <<task, branch, meddled>>
  BY DEF Integrate, Crash, git, history
<1>2. ctl'.phase \notin Holds
  BY InHand, AtPhaseType, PhaseNames DEF Integrate, Crash, Holds
<1> QED BY <1>1, <1>2, LeavesEvidence

LEMMA RecordUntouched == ASSUME IInv, Untouched, RecordIntegration \/ Launch PROVE Untouched'
<1>1. task'.status \in {"merged", "failed", "running", "blocked"}
  BY InHand, SaveType, Statuses DEF RecordIntegration, Launch, To
<1>2. ctl'.phase \notin Holds
  BY GoType, PhaseNames DEF RecordIntegration, Launch
<1> QED BY <1>1, <1>2, LetsGo, Statuses

LEMMA NothingToLaunchUntouched == ASSUME IInv, Untouched, NothingToLaunch PROVE Untouched'
<1>1. ctl'.phase \notin Holds
  BY GoType, PhaseNames DEF NothingToLaunch
<1> QED BY <1>1, LeavesEvidence DEF NothingToLaunch, git, history

\* A worker that commits, and a command that is carried out, are a reason not
\* to rely on it; integration.reconcile, which is not, leaves the evidence.
LEMMA OthersUntouched ==
  ASSUME IInv, Untouched, (\E i \in 1 .. MaxAttempts : Worker(i)) \/ User
  PROVE  Untouched'
<1>1. CASE meddled'
  BY <1>1 DEF Untouched
<1>2. CASE IntegrationReconcile
  <2>1. task \in Task /\ UNCHANGED <<branch, meddled, ctl>>
    BY <1>2, InHand DEF IntegrationReconcile, history
  <2>2. To("ready") \/ To("merged")
    BY <1>2 DEF IntegrationReconcile
  <2>3. /\ task'.validation = task.validation /\ task'.review = task.review
        /\ task'.status \notin IntegrationStates
    BY <2>1, <2>2, SaveKeeps, Statuses
  <2> QED BY <2>1, <2>3, LeavesEvidence
<1>3. CASE ~meddled' /\ ~IntegrationReconcile
  <2>1. UNCHANGED <<task, branch, meddled, ctl>>
    BY <1>3
    DEF Worker, WorkerEdits, WorkerCommits, WorkerReports, WorkerDies, Elsewhere,
        User, Order, Begin, ValidatePackage, ReviewPackage, CommandRaises,
        IntegratePackage, CheckpointCreate, NormalizeResult, CarriedOut, git, history
  <2> QED BY <2>1, LeavesEvidence
<1> QED BY <1>1, <1>2, <1>3

LEMMA UntouchedNext == ASSUME IInv, Untouched, [Next]_vars PROVE Untouched'
<1>1. CASE ControllerTick \/ Crash
  BY <1>1, ReconcileUntouched, TakeResultUntouched, CheckUntouched, ValidateUntouched,
     ValidateRaisesUntouched, ReviewUntouched, DecideUntouched, CandidateUntouched,
     IntegrateUntouched, RecordUntouched, NothingToLaunchUntouched
  DEF ControllerTick
<1>2. CASE (\E i \in 1 .. MaxAttempts : Worker(i)) \/ User
  BY <1>2, OthersUntouched
<1>3. CASE UNCHANGED vars
  BY <1>3, LeavesEvidence DEF vars, git, history
<1> QED BY <1>1, <1>2, <1>3 DEF Next

LEMMA UntouchedInit == Init => Untouched
<1> SUFFICES ASSUME Init PROVE Untouched
  OBVIOUS
<1>1. task.status = "planned" /\ ctl.phase = "hydrate"
  BY AtPhaseType, Named DEF Init, NewTask
<1> QED BY <1>1, Statuses DEF Untouched

\* The tick merges in one place; integration.reconcile takes up what the tick
\* would, and the command that merges whatever there is has meddled.
LEMMA MergesAreGated ==
  ASSUME IInv, Untouched, [Next]_vars, landed' # landed, ~meddled'
  PROVE  Gated
<1>1. CASE ControllerTick \/ Crash
  <2>1. Integrate
    BY <1>1
    DEF ControllerTick, Crash, Hydrate, NothingToReconcile, WorkerLost, TakeResult,
        Check, Validate, ValidateRaises, ReviewEnds, Decide, Candidate,
        RecordIntegration, Launch, NothingToLaunch, git
  <2> QED BY <2>1 DEF Integrate, Untouched, history
<1>2. CASE \E i \in 1 .. MaxAttempts : Worker(i)
  BY <1>2
  DEF Worker, WorkerEdits, WorkerCommits, WorkerReports, WorkerDies, Elsewhere
<1>3. CASE User
  <2>1. IntegrationReconcile
    BY <1>3
    DEF User, Order, Begin, ValidatePackage, ReviewPackage, CommandRaises,
        IntegratePackage, CheckpointCreate, NormalizeResult, CarriedOut, git
  <2> QED BY <2>1 DEF IntegrationReconcile, Untouched, history
<1>4. CASE UNCHANGED vars
  BY <1>4 DEF vars, git
<1> QED BY <1>1, <1>2, <1>3, <1>4 DEF Next

\* What is merged while no command and no commit came in since its result was
\* taken has been validated and reviewed as it is: also when the controller is
\* killed in between, and whatever the worktree's state.
THEOREM GatesAreKept == Spec => MergesWhatItGated
<1>1. Init => Untouched
  BY UntouchedInit
<1>2. IInv /\ Untouched /\ [Next]_vars => Untouched'
  BY UntouchedNext
<1>3. IInv /\ Untouched /\ [Next]_vars => [landed' # landed /\ ~meddled' => Gated]_vars
  BY MergesAreGated
<1> QED BY <1>1, <1>2, <1>3, Invariance, PTL DEF Spec, MergesWhatItGated
==============================================================================
