------------------------------ MODULE Planning ------------------------------
(***************************************************************************)
(* From a goal to frozen contracts (src/railwarden/planning/jobs.py,       *)
(* planning/pipeline.py, and the handlers of cli/main.py and mcp/server.py *)
(* that call them).  Planner processes, one operator (console, commands or *)
(* MCP tools, one at a time) and the controller's loop share three kinds   *)
(* of files: planning-jobs/<run>.json, state/pending-plan.json with        *)
(* runs/<run>/plan.md, and the frozen work_packages.yaml with plan.md      *)
(* beside it.  None is locked.                                             *)
(***************************************************************************)
EXTENDS Contracts

CONSTANTS
  Plans,            \* the lists of packages a planner may answer, by run
  Patches,          \* the patches an operator may record, by package
  RequireApproval,  \* execution.require_plan_approval
  MaxRuns,          \* bound: planning runs
  MaxCommands       \* bound: approvals, rejections and repairs

ASSUME PlanningAssumption ==
  /\ RequireApproval \in BOOLEAN
  /\ MaxRuns \in Nat \ {0}
  /\ MaxCommands \in Nat
  /\ DOMAIN Plans = 1 .. MaxRuns
  /\ \A r \in 1 .. MaxRuns : \A plan \in Plans[r] : PackageList(plan)
  /\ DOMAIN Patches = Ids
  /\ \A id \in Ids : \A patch \in Patches[id] :
       DOMAIN patch \subseteq Fields /\ ("id" \in DOMAIN patch => patch.id \in Ids)

Runs == 1 .. MaxRuns

VARIABLES
  jobs,       \* status of planning-jobs/<run>.json
  fresh,      \* runs whose job file is less than five seconds old
  planner,    \* where the process that plans a run is
  started,    \* number of run ids given out
  pending,    \* pending-plan.json
  documents,  \* runs with a plan.md
  charter,    \* the run whose plan.md is the project's
  frozen,     \* work_packages.yaml
  tasks,      \* package ids with a task record
  repairs,    \* contract-repairs/<id>.json
  op,         \* the operator's command under way
  tick,       \* the controller's loop
  commands,   \* number of commands given
  sanctioned, \* history: contracts approved to the end, approved again or repaired
  cutOff,     \* history: contracts left by an approval that was killed
  repaired    \* history: packages repaired since they were frozen

files == <<jobs, fresh, pending, documents, charter, frozen, tasks, repairs>>
history == <<sanctioned, cutOff, repaired>>
vars == <<files, planner, started, op, tick, commands, history>>

NoPlan == [run |-> 0, packages |-> <<>>, approved |-> FALSE, rejected |-> FALSE]

\* What a rejection leaves when it is killed while it writes: no JSON.
Torn == [NoPlan EXCEPT !.rejected = TRUE]

NoPatch == <<>>

Idle == [pc |-> "idle", run |-> 0, payload |-> NoPlan, contracts |-> <<>>]

Resting == [pc |-> "idle", contracts |-> <<>>]

Init ==
  /\ jobs = [r \in Runs |-> "none"]
  /\ fresh = {}
  /\ planner = [r \in Runs |-> "none"]
  /\ started = 0
  /\ pending = NoPlan
  /\ documents = {}
  /\ charter = 0
  /\ frozen = <<>>
  /\ tasks = {}
  /\ repairs = [id \in Ids |-> NoPatch]
  /\ op = Idle
  /\ tick = Resting
  /\ commands = 0
  /\ sanctioned = {<<>>}
  /\ cutOff = {}
  /\ repaired = {}

-----------------------------------------------------------------------------
(***************************************************************************)
(* Starting a planning run                                                 *)
(***************************************************************************)
\* pgrep finds the process: it has been executed and has not ended.
Running(r) == planner[r] \in {"asking", "structuring", "presenting", "presented"}

PlanningJobs == {r \in Runs : jobs[r] = "planning"}

\* active_planning_job: the last of the jobs still planning.
Active(r) == r \in PlanningJobs /\ \A q \in PlanningJobs : q <= r

\* A torn file is refused like a plan nobody has decided on.
Undecided ==
  pending = Torn \/ (pending.run # 0 /\ ~pending.approved /\ ~pending.rejected)

\* Mutated Busy: a job file that is still young does not count.
BusyIfRunning == \E r \in Runs : Active(r) /\ Running(r)

Busy == \E r \in Runs : Active(r) /\ (Running(r) \/ r \in fresh)

\* start_planning_job: refused while a plan is undecided, answered with the
\* active job while there is one; an active job without a process is failed.
Submit(replace) ==
  /\ op.pc = "idle"
  /\ started < MaxRuns
  /\ replace \/ ~Undecided
  /\ ~Busy
  /\ started' = started + 1
  /\ jobs' = [r \in Runs |-> IF r = started' THEN "planning"
                             ELSE IF Active(r) THEN "failed" ELSE jobs[r]]
  /\ fresh' = fresh \cup {started'}
  /\ op' = [Idle EXCEPT !.pc = "spawning", !.run = started']
  /\ UNCHANGED <<planner, pending, documents, charter, frozen, tasks, repairs,
                 tick, commands, history>>

\* _spawn_planning_worker
Spawn ==
  /\ op.pc = "spawning"
  /\ planner' = [planner EXCEPT ![op.run] = "spawned"]
  /\ op' = Idle
  /\ UNCHANGED <<files, started, tick, commands, history>>

\* `warden run` and the console's goal plan in their own process, without a
\* job and whatever else is planned or pending.
RunGoal ==
  /\ op.pc = "idle"
  /\ started < MaxRuns
  /\ started' = started + 1
  /\ planner' = [planner EXCEPT ![started'] = "asking"]
  /\ op' = [Idle EXCEPT !.pc = "planning", !.run = started']
  /\ UNCHANGED <<files, tick, commands, history>>

\* Five seconds pass; a spawned process is executed well before that.
Age(r) ==
  /\ r \in fresh
  /\ op.pc # "spawning"
  /\ planner[r] # "spawned"
  /\ fresh' = fresh \ {r}
  /\ UNCHANGED <<jobs, planner, started, pending, documents, charter, frozen,
                 tasks, repairs, op, tick, commands, history>>

-----------------------------------------------------------------------------
(***************************************************************************)
(* The process that plans a run                                            *)
(***************************************************************************)
\* The process is over: a command returns, a job gets its status.
End(r, status) ==
  /\ planner' = [planner EXCEPT ![r] = "over"]
  /\ jobs' = [jobs EXCEPT ![r] = IF @ = "none" THEN @ ELSE status]
  /\ op' = IF op.pc = "planning" /\ op.run = r THEN Idle ELSE op

\* cmd_planning_worker reads its job.
Execute(r) ==
  /\ planner[r] = "spawned"
  /\ planner' = [planner EXCEPT ![r] = "asking"]
  /\ UNCHANGED <<files, started, op, tick, commands, history>>

\* The answer has no structured plan: the planner is asked to structure it.
AnswerInProse(r) ==
  /\ planner[r] = "asking"
  /\ planner' = [planner EXCEPT ![r] = "structuring"]
  /\ UNCHANGED <<files, started, op, tick, commands, history>>

\* create_pending_plan up to pending-plan.json, whose last plan is gone.
Answer(r, plan) ==
  /\ planner[r] \in {"asking", "structuring"}
  /\ pending' = [NoPlan EXCEPT
                   !.run = r,
                   !.packages = [i \in DOMAIN plan |-> SanitizeCommands(plan[i])]]
  /\ planner' = [planner EXCEPT ![r] = "presenting"]
  /\ UNCHANGED <<jobs, fresh, started, documents, charter, frozen, tasks,
                 repairs, op, tick, commands, history>>

\* runs/<run>/plan.md comes after the pending plan that points to it.
WriteDocument(r) ==
  /\ planner[r] = "presenting"
  /\ documents' = documents \cup {r}
  /\ planner' = [planner EXCEPT ![r] = "presented"]
  /\ UNCHANGED <<jobs, fresh, started, pending, charter, frozen, tasks, repairs,
                 op, tick, commands, history>>

Finish(r) ==
  /\ planner[r] = "presented"
  /\ End(r, "ready")
  /\ UNCHANGED <<fresh, started, pending, documents, charter, frozen, tasks,
                 repairs, tick, commands, history>>

\* A timeout, an error of the planner's or an answer of no use.
PlannerFails(r) ==
  /\ planner[r] \in {"asking", "structuring"}
  /\ End(r, "failed")
  /\ UNCHANGED <<fresh, started, pending, documents, charter, frozen, tasks,
                 repairs, tick, commands, history>>

\* A killed worker leaves its job as it was.
KillPlanner(r) ==
  /\ planner[r] = "spawned" \/ (Running(r) /\ jobs[r] # "none")
  /\ planner' = [planner EXCEPT ![r] = "over"]
  /\ UNCHANGED <<files, started, op, tick, commands, history>>

-----------------------------------------------------------------------------
(***************************************************************************)
(* approve_latest_plan                                                     *)
(***************************************************************************)
\* A command of the operator's, when no other is under way.
Command ==
  /\ op.pc = "idle"
  /\ commands < MaxCommands
  /\ commands' = commands + 1

\* Read the pending plan and prepare its contracts; any error ends it here.
Approve ==
  /\ Command
  /\ pending.run # 0
  /\ LET contracts == Prepared(pending.packages) IN
       /\ Freezable(contracts, TRUE)
       /\ op' = [pc |-> "approving", run |-> pending.run, payload |-> pending,
                 contracts |-> contracts]
  /\ UNCHANGED <<files, planner, started, tick, history>>

\* Mutated WriteCharter: does not look whether the run has a plan.md.
WriteCharterBlindly ==
  /\ op.pc = "approving"
  /\ charter' = op.run
  /\ op' = [op EXCEPT !.pc = "freezing"]
  /\ UNCHANGED <<jobs, fresh, planner, started, pending, documents, frozen,
                 tasks, repairs, tick, commands, history>>

\* The project's plan.md, copied from the run's.
WriteCharter ==
  /\ op.pc = "approving"
  /\ op.run \in documents
  /\ charter' = op.run
  /\ op' = [op EXCEPT !.pc = "freezing"]
  /\ UNCHANGED <<jobs, fresh, planner, started, pending, documents, frozen,
                 tasks, repairs, tick, commands, history>>

\* There is no plan.md yet, and will be none if its planner was killed.
CharterMissing ==
  /\ op.pc = "approving"
  /\ op.run \notin documents
  /\ op' = Idle
  /\ UNCHANGED <<files, planner, started, tick, commands, history>>

\* A second approval of an approved plan changes contracts that are in force.
WriteContracts ==
  /\ op.pc = "freezing"
  /\ frozen' = op.contracts
  /\ repaired' = {}
  /\ sanctioned' = IF op.payload.approved THEN sanctioned \cup {op.contracts}
                   ELSE sanctioned
  /\ op' = [op EXCEPT !.pc = "creating"]
  /\ UNCHANGED <<jobs, fresh, planner, started, pending, documents, charter,
                 tasks, repairs, tick, cutOff, commands>>

Missing(contracts) == {i \in DOMAIN contracts : contracts[i].id \notin tasks}

\* ensure_task, package by package; an id that has a task keeps it.
EnsureTask ==
  /\ op.pc = "creating"
  /\ \E i \in Missing(op.contracts) :
       /\ \A j \in Missing(op.contracts) : i <= j
       /\ tasks' = tasks \cup {op.contracts[i].id}
  /\ UNCHANGED <<jobs, fresh, planner, started, pending, documents, charter,
                 frozen, repairs, op, tick, commands, history>>

\* The payload read at the start is written back, over a plan that was made
\* pending meanwhile.  Whether it was rejected is not looked at.
MarkApproved ==
  /\ op.pc = "creating"
  /\ Missing(op.contracts) = {}
  /\ pending' = [op.payload EXCEPT !.packages = op.contracts, !.approved = TRUE]
  /\ sanctioned' = sanctioned \cup {op.contracts}
  /\ op' = Idle
  /\ UNCHANGED <<jobs, fresh, planner, started, documents, charter, frozen,
                 tasks, repairs, tick, cutOff, repaired, commands>>

-----------------------------------------------------------------------------
(***************************************************************************)
(* Rejection and repairs: each reads the pending plan and writes it back   *)
(***************************************************************************)
WritesBack(pc, payload) ==
  op' = [Idle EXCEPT !.pc = pc, !.payload = payload]

Reject ==
  /\ Command
  /\ pending.run # 0
  /\ WritesBack("rejecting", [pending EXCEPT !.approved = FALSE, !.rejected = TRUE])
  /\ UNCHANGED <<files, planner, started, tick, history>>

\* A rejection writes the file where it is: it empties it first, ...
Truncate ==
  /\ op.pc = "rejecting"
  /\ pending' = Torn
  /\ op' = [op EXCEPT !.pc = "rewriting"]
  /\ UNCHANGED <<jobs, fresh, planner, started, documents, charter, frozen,
                 tasks, repairs, tick, commands, history>>

\* ... and what it writes is lost with that file when an answer replaced it.
Rewrite ==
  /\ op.pc = "rewriting"
  /\ pending' = IF pending = Torn THEN op.payload ELSE pending
  /\ op' = Idle
  /\ UNCHANGED <<jobs, fresh, planner, started, documents, charter, frozen,
                 tasks, repairs, tick, commands, history>>

\* A repair replaces the file in one step.
WritePending ==
  /\ op.pc = "writing"
  /\ pending' = op.payload
  /\ op' = Idle
  /\ UNCHANGED <<jobs, fresh, planner, started, documents, charter, frozen,
                 tasks, repairs, tick, commands, history>>

\* contract.repair: the frozen contracts name the packages, if there are any.
RecordRepair(id, patch) ==
  /\ Command
  /\ id \in IdsOf(IF frozen # <<>> THEN frozen ELSE pending.packages)
  /\ repairs' = [repairs EXCEPT ![id] = patch]
  /\ UNCHANGED <<jobs, fresh, planner, started, pending, documents, charter,
                 frozen, tasks, op, tick, history>>

\* Mutated RepairPending: an approved plan is repaired where it is pending.
RepairPendingAlways(id) ==
  /\ Command
  /\ repairs[id] # NoPatch
  /\ pending.run # 0
  /\ id \in IdsOf(pending.packages)
  /\ LET packages == Patched(pending.packages, id, repairs[id]) IN
       /\ Freezable(packages, FALSE)
       /\ WritesBack("writing", [pending EXCEPT !.packages = packages])
  /\ UNCHANGED <<files, planner, started, tick, history>>

\* contract.repair.apply on a plan that is not approved, rejected or not.
RepairPending(id) ==
  /\ Command
  /\ repairs[id] # NoPatch
  /\ pending.run # 0 /\ ~pending.approved
  /\ id \in IdsOf(pending.packages)
  /\ LET packages == Patched(pending.packages, id, repairs[id]) IN
       /\ Freezable(packages, FALSE)
       /\ WritesBack("writing", [pending EXCEPT !.packages = packages])
  /\ UNCHANGED <<files, planner, started, tick, history>>

\* contract.repair.apply on frozen contracts: only work_packages.yaml changes.
RepairFrozen(id) ==
  /\ Command
  /\ repairs[id] # NoPatch
  /\ pending = NoPlan \/ pending.approved
  /\ id \in IdsOf(frozen)
  /\ frozen' = Patched(frozen, id, repairs[id])
  /\ Freezable(frozen', FALSE)
  /\ sanctioned' = sanctioned \cup {frozen'}
  /\ repaired' = repaired \cup {id}
  /\ cutOff' = IF frozen \in cutOff THEN cutOff \cup {frozen'} ELSE cutOff
  /\ UNCHANGED <<jobs, fresh, planner, started, pending, documents, charter,
                 tasks, repairs, op, tick>>

\* The command is killed, and with it the planning it does itself.
KillOperator ==
  /\ op.pc # "idle"
  /\ planner' = IF op.pc = "planning" THEN [planner EXCEPT ![op.run] = "over"]
                ELSE planner
  /\ cutOff' = IF op.pc = "creating" THEN cutOff \cup {frozen} ELSE cutOff
  /\ op' = Idle
  /\ UNCHANGED <<files, started, tick, sanctioned, repaired, commands>>

-----------------------------------------------------------------------------
(***************************************************************************)
(* The controller's loop: load_project_files, and then controller_tick,    *)
(* which asks plan_is_approved.                                            *)
(***************************************************************************)
PlanIsApproved == IF pending = NoPlan THEN ~RequireApproval ELSE pending.approved

LoadContracts ==
  /\ tick.pc = "idle"
  /\ tick' = [pc |-> "loaded", contracts |-> frozen]
  /\ UNCHANGED <<files, planner, started, op, commands, history>>

\* Mutated StartWork: waits until no command is under way.
StartWorkUndisturbed ==
  /\ tick.pc = "loaded"
  /\ PlanIsApproved
  /\ op.pc = "idle"
  /\ tick' = [tick EXCEPT !.pc = "working"]
  /\ UNCHANGED <<files, planner, started, op, commands, history>>

\* Mutated StartWork: any plan that is there will do.
StartWorkOnAnyPlan ==
  /\ tick.pc = "loaded"
  /\ pending.run # 0
  /\ tick' = [tick EXCEPT !.pc = "working"]
  /\ UNCHANGED <<files, planner, started, op, commands, history>>

StartWork ==
  /\ tick.pc = "loaded"
  /\ PlanIsApproved
  /\ tick' = [tick EXCEPT !.pc = "working"]
  /\ UNCHANGED <<files, planner, started, op, commands, history>>

WaitForApproval ==
  /\ tick.pc = "loaded"
  /\ ~PlanIsApproved
  /\ pending # Torn
  /\ tick' = Resting
  /\ UNCHANGED <<files, planner, started, op, commands, history>>

\* Nothing catches what json.loads raises: the controller ends, ...
DieOfTornPlan ==
  /\ tick.pc = "loaded"
  /\ pending = Torn
  /\ tick' = [Resting EXCEPT !.pc = "dead"]
  /\ UNCHANGED <<files, planner, started, op, commands, history>>

\* ... until the user starts it again.
Restart ==
  /\ tick.pc = "dead"
  /\ tick' = Resting
  /\ UNCHANGED <<files, planner, started, op, commands, history>>

EndTick ==
  /\ tick.pc = "working"
  /\ tick' = Resting
  /\ UNCHANGED <<files, planner, started, op, commands, history>>

-----------------------------------------------------------------------------
Controller ==
  LoadContracts \/ StartWork \/ WaitForApproval \/ DieOfTornPlan \/ EndTick

\* Steps a planner takes by itself; the limits on its calls end each of them.
Plan(r) ==
  \/ Execute(r)
  \/ AnswerInProse(r)
  \/ \E plan \in Plans[r] : Answer(r, plan)
  \/ WriteDocument(r)
  \/ Finish(r)
  \/ PlannerFails(r)

Operator ==
  \/ \E replace \in BOOLEAN : Submit(replace)
  \/ Spawn
  \/ RunGoal
  \/ Approve
  \/ WriteCharter
  \/ CharterMissing
  \/ WriteContracts
  \/ EnsureTask
  \/ MarkApproved
  \/ Reject
  \/ Truncate
  \/ Rewrite
  \/ WritePending
  \/ \E id \in Ids :
       \/ \E patch \in Patches[id] : RecordRepair(id, patch)
       \/ RepairPending(id)
       \/ RepairFrozen(id)
  \/ KillOperator

Next ==
  \/ Operator
  \/ \E r \in Runs : Plan(r) \/ KillPlanner(r) \/ Age(r)
  \/ Controller
  \/ Restart

Spec == Init /\ [][Next]_vars

FairSpec ==
  /\ Spec
  /\ \A r \in Runs : WF_vars(Plan(r))
  /\ WF_vars(Controller)

-----------------------------------------------------------------------------
(***************************************************************************)
(* Properties                                                              *)
(***************************************************************************)
PendingPlan(p) ==
  /\ p.run \in Runs \cup {0}
  /\ PackageList(p.packages)
  /\ p.approved \in BOOLEAN
  /\ p.rejected \in BOOLEAN

TypeOK ==
  /\ jobs \in [Runs -> {"none", "planning", "ready", "failed"}]
  /\ fresh \subseteq Runs
  /\ planner \in [Runs -> {"none", "spawned", "asking", "structuring",
                           "presenting", "presented", "over"}]
  /\ started \in 0 .. MaxRuns
  /\ commands \in 0 .. MaxCommands
  /\ PendingPlan(pending)
  /\ documents \subseteq Runs
  /\ charter \in documents \cup {0}
  /\ PackageList(frozen)
  /\ tasks \subseteq Ids
  /\ \A id \in Ids : repairs[id] \in Patches[id] \cup {NoPatch}
  /\ op.pc \in {"idle", "spawning", "planning", "approving", "freezing",
                "creating", "rejecting", "rewriting", "writing"}
  /\ PendingPlan(op.payload) /\ PackageList(op.contracts)
  /\ tick.pc \in {"idle", "loaded", "working", "dead"} /\ PackageList(tick.contracts)

\* At most one background planner is at work, however often a goal is
\* submitted, with or without replace, and whichever planner is killed.
OnePlanner ==
  \A q, r \in Runs :
    /\ jobs[q] # "none" /\ (Running(q) \/ planner[q] = "spawned")
    /\ jobs[r] # "none" /\ (Running(r) \/ planner[r] = "spawned")
    => q = r

\* An approved plan is the frozen one: the project's plan.md is its document,
\* work_packages.yaml lists its packages, and a package that was not repaired
\* since is as approved; whenever planners answer and commands are killed,
\* unless the kill cut a second approval of it off.
ApprovedIsFrozen ==
  pending.approved /\ op.pc = "idle" /\ frozen \notin cutOff =>
    /\ charter = pending.run
    /\ DOMAIN frozen = DOMAIN pending.packages
    /\ \A i \in DOMAIN frozen :
         \/ frozen[i] = pending.packages[i]
         \/ frozen[i].id = pending.packages[i].id /\ frozen[i].id \in repaired

\* Every package of an approved plan has a task, so that none of them waits
\* for ever for one that nobody will start.
ApprovedHasTasks == pending.approved => IdsOf(frozen) \subseteq tasks

\* Both: an approved plan is in force.
ApprovedIsInForce == ApprovedIsFrozen /\ ApprovedHasTasks

\* Whatever the planner answers and the operator repairs, frozen contracts can
\* be executed: dependencies exist and have an order, every package owns
\* something, no two list the same path, and no command needs a shell.
FrozenIsSound ==
  /\ KnownDependencies(frozen)
  /\ Acyclic(frozen)
  /\ \A id \in IdsOf(frozen) :
       /\ Contract(frozen, id).owned # {}
       /\ Contract(frozen, id).commands \cap ShellCommands = {}
  /\ NoSharedEntry(frozen)

\* The controller works on contracts that an operator approved to the end,
\* approved again or repaired, or on those of an approval killed in the middle:
\* never on a plan whose approval is still under way.
WorkIsSanctioned ==
  tick.pc = "working" => tick.contracts \in sanctioned \cup cutOff

\* An approved plan is worked on, unless it is rejected or replaced.  A
\* controller that has read the file a rejection was writing has ended, and
\* works again only when the user starts it.
ApprovedIsWorkedOn ==
  PlanIsApproved ~> (tick.pc \in {"working", "dead"} \/ ~PlanIsApproved)

\* The owned paths of two frozen packages do not overlap.
OwnedPathsDisjoint ==
  \A i, j \in IdsOf(frozen) :
    i # j => ~Overlap(Contract(frozen, i).owned, Contract(frozen, j).owned)
=============================================================================
