# A TLA+ model of RailWarden

RailWarden drives coding agents through a plan: a goal becomes a plan of work
packages, an operator approves it, packages are launched as agents in git
worktrees, their results are validated and reviewed, and their branches are
merged into an integration branch one at a time.  All its state is files and git
refs; several processes read and write them, any of which may be killed, and
agents run on their own between any two steps of RailWarden.
This directory models the parts that decide, checks them with TLC on small
instances, and proves the central results with TLAPS for every instance.

Source paths below are relative to the repository's `src/railwarden/`.

## 1. Inventory

| Component | State it keeps | Operations | Interacts through |
|---|---|---|---|
| Controller tick (`engine/controller.py`) | in-memory copies of task records during a phase | hydrate, reconcile, default decisions, integrate one, launch | tasks.json, process records, result files, git; calls every component below |
| Task store and event ledger (`runtime/tasks.py`, `tasks/file_backend.py`, `runtime/events.py`, `util/atomic.py`) | `state/tasks.json`, `events.jsonl` | ensure_task, transition_task, upsert_task, append_event | shared files; written by the controller, commands, the MCP server and the supervisor without a lock |
| Classifier (`scheduler/classifier.py`, `scheduler/dag.py`) | none | classify_packages, execution_plan, validate_dag | reads git refs and tasks.json |
| Integration manager (`integration/manager.py`, `git.py`) | `locks/integration.lock`, the main checkout, the integration branch, evidence in `validation/` | integrate_one | called by the controller, `warden integrate` and the MCP server, each in its process |
| Worktree provisioning (`provisioning/worktrees.py`) | worktrees and task branches | ensure_worktree | called by the launch; takes no lock |
| Worker processes (`processes/`, `workers/pane_runtime.py`) | `processes/<task>.json`, detached agents, tmux panes | launch, poll, terminate; the runner in the pane updates the record itself | the record, the result file, the agent's commits |
| Validation and review (`validation/`, `runtime/results.py`, `workers/completion.py`) | normalized results, evidence | normalize_result, validate_completed_package, run_package_validation, run_package_review | called by the controller, commands and the MCP server |
| Checkpoints, handoffs, decisions (`runtime/checkpoints.py`, `handoff.py`, `decisions.py`) | checkpoint commits, packets, decisions.jsonl | create_checkpoint_commit, create_handoff_packet, record_decision | called by the controller and the supervisor |
| Decision supervisor (`cmd_hermes_supervisor` in `cli/main.py`) | a cursor into events.jsonl | choose and apply an action per decision event | events, tasks.json |
| Provider health, sessions, quota (`providers/health.py`, `runtime/session.py`, `quota.py`) | `provider-health/*.json`, `session-profile.json` | record_failure, record_success, refresh_state, quota_allows_start, agent commands | called by the tick; the profile is also replaced by commands |
| Planning (`planning/jobs.py`, `pipeline.py`, `validation/contract.py`) | planning jobs, the pending plan, frozen contracts | submit, plan, approve, reject, repair | detached planning workers; files; the tick asks whether a plan is approved |
| Commands and MCP handlers (`cli/main.py`, `mcp/server.py`) | none of their own | retry, handoff, reject, approve-merge, abort-goal, review, validate, integrate, agent and quota commands | tasks.json and every component |
| Workflow stage and mailbox (`runtime/workflow.py`, `hermes/mailbox.py`) | one JSON file each | advance_workflow, post, read | shared files |

What is hard, and where it bites (PROJECT.json `hazards` gives each at its line):

* **Stale copies.** A phase of the tick loads tasks.json once and saves its
  records one by one, minutes later; commands hold a record while a suite runs;
  the session profile is loaded, changed and replaced whole by several processes.
* **Facts derived from git.** "Merged" is read off the shape of the branches,
  and a branch's shape is changed by branch creation and other packages' merges.
* **Things that outlive their attempt.** Workers are detached and never
  stopped by the tick; result files are never removed; evidence stays in the
  task's record; a runner in a pane goes on writing the record of its task.
* **Two writes that belong together.** Merge and evidence, merge and task
  status, process and record, transition and event, contracts and approval,
  action and cursor: a kill falls in between, or another process does.
* **Two vocabularies of "final".** Hydration and transition_task disagree on
  which statuses are terminal.
* **Check, then use by name.** Heads are compared or reviewed, and branches are
  merged by name later; contracts are loaded, and the approval is asked for later.
* **One record, several causes.** Failures, cooldowns and successes of a provider,
  quota pauses and user pauses of an agent, overwrite each other.

What makes each component correct: *integration* only grows by validated
merges that have evidence and rolls back its own merge only; *the store* keeps what
a writer holds that has seen everything before, and the events explain it; *the controller* launches
only what its dependencies allow and within its limit, records merges and
failures as they are, decides every failure, is not ended by anything it can work on (a result
that cannot be read does end it), and makes progress; *the gates* let through what they have examined and what a human has
agreed to; *worker processes* are never lost sight of while they live and free
their slot when they are gone; *the supervisor* ends each wait once and passes over no
event unseen; *health* gives no task to a provider that has just failed and
brings every provider and task back; *planning* freezes plans that can be executed and
lets the controller work on no other than an operator sanctioned.

## 2. Modules

| Module | Models |
|---|---|
| `MergeGate` | abstract: the integration branch moves by validated merges, forward, with evidence |
| `Integration` | integrate_one, called by several managers on one repository |
| `IntegrationProofs` | its invariants, its refinement of `MergeGate` and when the user's branch comes back, proved |
| `TaskStore` | tasks.json and events.jsonl with several writers |
| `TaskStoreProofs` | its types, that fresh records are kept and that the events explain the tasks, proved for any writers |
| `Controller` | controller_tick with several packages, workers, user commands and kills |
| `ControllerProofs` | its types, slots, workers, records, decisions and what ends it, proved, each under the faults that leave it true |
| `Gates` | one package's way through validation, review, approval and merge, with every command that interferes |
| `GatesProofs` | its types, that a human's approval is not gone around and that the tick merges what it gated, proved |
| `Panes` | launching a worker headless or in a pane, and the process record that both sides write |
| `PanesProofs` | its types, and that no live worker is lost sight of, proved |
| `Providers` | provider health, agents, quotas and the choice of a provider |
| `ProvidersProofs` | its types, that a failed provider rests and that quota pauses last, proved |
| `Supervisor` | the decision supervisor behind its cursor, against the controller |
| `SupervisorProofs` | its types, and that it passes over nothing and answers once, proved |
| `Contracts` | pure: what approval makes of a plan, and what a plan must satisfy |
| `Planning` | planner processes, the operator and the controller's loop around `Contracts` |
| `PlanningProofs` | its types and safety properties, and what `Contracts` computes, proved for every list of packages |
| `MC...` | each module's instances for TLC: definitions of constants, where there are any |

A tick of the controller is more than one state space can hold with everything
that goes on around it.  `Controller` has all its phases for several packages, with each
gate, launch and choice of a provider as one step; `Gates`, `Panes` and `Providers`
each take one of these steps apart, reduce the rest of the tick to what that
part sees of it, and add the processes that interfere there.  What they
share is the vocabulary of statuses and the order of the phases.

### Integration

A branch is the set of commits reachable from its head: equal heads are equal
sets, ancestry is inclusion, and a merge adds both sides and one new commit.  Each
manager has a program counter (`mgr[m].pc`) and the locals of the call
(`before`, `after`, `orig`, the scheduled `head`).  One action stands for each
stretch between two points where another process can act: taking the flock,
the switch, the head checks, the merge, the verdict of the suite, rollback,
switching back, writing the evidence.  The environment creates branches
(`EnsureWorktree`, which takes no lock), commits late, makes git fail (conflict,
collision of untracked files, an abort or a reset that fails) and kills managers.  A tree is
clean or is not (`treeClean`): a merge whose abort fails, and a suite whose changes a failing
reset does not remove, leave it dirty; then the manager does not switch back, and the next call
refuses to start.

### TaskStore

A writer (the controller, a command, a handler of the MCP server or the supervisor: each
calls transition_task without a lock) holds a record in memory, loads the file, saves it
with its record put in, appends the event.  The record is reduced to its status, the only
part of it transition_task looks at.  os.replace makes the save itself atomic, so a kill
falls between steps only.  A transition is *fresh* if no other writer saved a record
between its copy of it and its save; the histories `behind` and `raced` tell which ones
are not, and `unlogged` the tasks whose event a kill cut off.

### Controller

`ctl` is the tick's control: the phase, the in-memory copies (`seen`) of the
records the phase has yet to handle, the step reached with the package in hand,
and the locals that survive from one step to the next (`landed`: what
classification called merged; `report`; `head`: the candidate's; `slots`).
Statuses are the code's own.  Workers are
processes per package, of which the process record names one; they
edit, commit, report, exit, and may die, leave work uncommitted, stray out of
their paths, report without a commit, or go on after reporting.  A result names the branch's
head, no commit, another commit that exists (which validation refuses), or is
`unreadable`: it is not a JSON object, or it names a commit that git does not know.
normalize_result asks git about the commit whatever the result's status, nothing catches what
it raises, and the controller ends (`UnreadableResult`), at each start again.  A
branch is again a set of commits, with the author and whether the commit stays in
the owned paths.  Validation commands and review are one verdict each, chosen freely
when the run includes the fault `fails`.  integrate_one is one step of it, either
done or refused: `Integration` models its inside, and its crash windows are
covered there.  The merge and the transition that follows are two steps.

In the default supervision every failure kind that can occur allows
`handoff_provider`, except those that ask for a contract repair or a branch
reconciliation; `handoff` in the record is that bit, and the fault `contract` produces
the others.  The kinds for `normalize_result` arise in Hermes supervision only:
complete_worker_task compares the worktree's head with the branch that is checked out
in it, so it never finds a commit to normalize.

### Gates

One package without dependencies, one worktree, several attempts.  A commit is `good`,
`failing` (the suite fails on it) or `stray` (it leaves the owned paths), and is known by its place on
the branch; `landed` says how much of the branch the integration branch
contains.  The task's record carries its status, the commit it names and the evidence
of validation and review; evidence says which commit it names (`of`) and which was
checked out when the commands ran (`ran`, which the code does not write down).
The steps that run commands for minutes (`Validate`, `ReviewEnds`, `Integrate`)
hold a copy of the record in `ctl` and save that copy; `validate-package`
and `review-package` hold theirs in `cmd` between `Begin` and their end.  All other
commands are one step: `Order` (retry, handoff, approve-merge, abort-goal, task.route and
their MCP twins), `IntegratePackage` (`warden integrate --execute`), `IntegrationReconcile`,
`CheckpointCreate`, `NormalizeResult`.  `consent` and `meddled` are histories: whether an order to merge was
carried out, that is, saved, since the last launch, and whether anything came in between since the
controller took the result.

### Panes

Each launch gets a number, which is also its process's pid.  A task's record is none, one that
says `launching`, `running` or `exited` of a pid, or `Torn`: opened for writing by the
runner and not written yet.  `launch_task` is taken apart into assigning, stamping the
launching record, injecting the command into the pane, and the read, merge and
write of the record afterwards (`ReadRecord`, `WriteRecord`, with the ranks of
_merge_process_launch_record); the runner into spawning the worker, opening and writing the
record that it runs, waiting, and opening and writing the record that it exited.
An injection interrupts whatever runs in the pane.  `old` holds the tasks whose record has
not been written for TMUX_STALE_SECONDS, after which a pane's record without a live pid no longer
counts.  `warden stop` is two steps, the recorded processes and the session;
panes die or vanish; the controller is killed anywhere and dies of a torn record it reads.
`loose` holds the tasks with a worker that a kill, an overwritten record or a retry
has cut loose.

### Providers

Providers, agents and tasks are numbered in the order in which the code considers
them.  An agent has an adapter and a model, which is another provider's after
`railwarden.agent.swap`; `AgentFor` looks for an agent by its adapter and then by its
model's provider (`engine/controller.py:993-995`).  A run starts from the default profile or from
one in which a swap has left a provider without an adapter of its own.  Agents for the roles of
architect and reviewer, whom no task is given to, are left out.  `health` is one file per provider; `agents` is the session profile, which a
command reads in one step and replaces in another, so that it undoes what the
controller did in between.  The tick's phases (refresh of health, reconciliation,
decisions, launches) handle their tasks one at a time, and a launch is taken
apart at its writes: `Start` (the quota gate), `Assign`, `Run`.  `failed` and `held`
are histories: providers whose failure in this tick stands, and agents paused for a quota
that no command has touched since.

### Supervisor

The controller appends the event of a decision and then moves the task to
`decision_required`, two steps; it hydrates in two steps, too.  The supervisor reads the events
from its cursor, looks at one event at a time, acts on tasks that wait, records the
decision and saves the cursor; either process is killed between any two of these.
Of a worktree it matters whether it is untouched, has clean commits or is dirty.
`open` and `looked` are histories: tasks whose wait has not been answered, and the last
event the supervisor has looked at.

### Contracts and Planning

A plan is a sequence of packages and a path a sequence of names, so that path
containment is a prefix.  `Contracts` translates the pipeline of approval in its order
(normalising paths to files of the repository, resolving overlaps by number, extending scaffolding,
sanitising context references and commands) and the validation of a plan; it also has
the reference notions `Acyclic` and `Overlap` to compare with.  `Planning` has a planner process per
run (`planner`), one operator whose command under way is `op`, the loop of `warden
controller` as `tick`, and the files they share: `jobs`, `pending`, `documents` (the runs' plan.md),
`charter` (the project's), `frozen`, `tasks`, `repairs`.  Approval is taken apart at each of
its writes; a rejection or repair writes back the payload it read, a repair at once and a
rejection in place (`Truncate`, `Rewrite`: `mcp/server.py:743` is a plain write_text), so that
the pending plan is `Torn` in between, and a controller that reads it then ends
(`DieOfTornPlan`) until the user starts it again.  `sanctioned`, `cutOff` and
`repaired` are histories of what the operator approved, what a killed approval left, and what was
repaired since.

## 3. What the runs check

Runs that pass:

| Run | Instance | Shows |
|---|---|---|
| `IntegrationFaults` | 2 managers, 2 packages, every fault, 2 merges, 1 kill, fair | `TypeOK`; a rollback removes only the manager's own merge (`RollBackIsOwnMerge`); an evidenced merge stays (`EvidencedIsKept`); every call ends (`CallEnds`) |
| `IntegrationGate` | 2 managers, late commits, aborts that fail | integrate_one implements `MergeGate` (`GateSpec`); the user's branch is checked out again, or the tree is left dirty (`HeadRestored`) |
| `TaskStoreWriters` | 2 writers, killed at will, 2 tasks, 2 events | `TypeOK`; a save changes nothing but a record the writer has seen the last of, and by a legal transition, unless the other overtook the writer (`FreshRecordsKept`); the events explain every task but those on which the two raced or one was killed between save and event (`EventsExplainTasks`) |
| `ControllerFailures` | 2 packages in a chain, 1 slot, thirteen kinds of failure | `TypeOK`; no package starts without its dependency's work, and none is recorded as merged without its own (`DependencySafe`); failed means not integrated, and what is integrated was validated and reviewed (`RecordsMatchGit`); nothing but an unreadable result ends the controller (`DiesOfResultsOnly`); a failure is decided before the next tick looks at the task (`Decided`) |
| `ControllerWorkers` | 3 packages, 1 dependency, 2 slots, workers die and give up, fair | agents stay within the limit and out of each other's worktree (`WorkersBounded`); when nothing fails everything is merged (`AllMerge`) |
| `ControllerInterrupted` | 2 packages, 1 slot, 1 kill, 1 user command, deaths, unreadable results, fair | recorded tasks stay within the limit (`WithinConcurrency`); a task recorded as merged has its validated commit integrated (`MergedIsIntegrated`); no task keeps its slot while the controller runs (`SlotsComeBack`) |
| `GatesCommands` | 1 package, 2 commits, 2 attempts, 2 commands or kills | `TypeOK`; what the tick merges undisturbed passed both gates as it is (`MergesWhatItGated`); a package that needs a human's approval is merged only on an order carried out since its launch (`HumanGate`) |
| `PanesLaunches` | 2 tasks that share a pane or have none, 2 launches, 2 faults, fair | `TypeOK`; a worker that lives is the one its task is recorded with (`Tracked`); a task without a worker does not hold its slot for ever (`SlotComesBack`) |
| `ProvidersOutages` | 2 providers, 2 tasks, 2 slots, 1 outage or command or a swap before, fair | `TypeOK`; no launch on a provider that failed in this tick (`FailureRests`); the controller never ends a pause it made for the quota of an agent of its own model (`QuotaPauseKept`); no task waits for ever while workers are free (`NotParked`); a working provider comes back (`Recovers`) |
| `SupervisorRestarts` | 1 task, 3 events, 2 kills, 1 retry, fair | `TypeOK`; the cursor passes no event unseen (`NoneUnseen`); each wait is ended once (`AnsweredOnce`); a wait whose event is ahead is answered (`AheadIsAnswered`) |
| `PlanningApproval` | 3 packages, 2 planning runs, 3 commands, kills, fair | `TypeOK`; one background planner (`OnePlanner`); an approved plan is the frozen one and has its tasks (`ApprovedIsInForce`); frozen contracts can be executed (`FrozenIsSound`); the controller works on sanctioned contracts only (`WorkIsSanctioned`) and does work on an approved plan, unless a torn one has ended it (`ApprovedIsWorkedOn`) |

One run ends in a counterexample to what a comment of the repository says (PROJECT.json
`findings` quotes it): `ControllerStaleCopy`, in which a rejected task is written
back as live from an old copy.

The passing runs say under which circumstances a property does hold.  What the
modules contain and no run isolates, each with the instance on which TLC
shows it:

* A branch created during a merge that is rolled back brings the rejected commits in
  with its own (`IntegratedIsEvidenced` of `Integration`, no faults); a manager killed
  during validation leaves an unvalidated merge (the same, fault `crash`); a conflict on the
  way back to the user's branch loses the evidence (`conflict`); a commit between
  the head check and the merge is merged unseen (`late_commit`).
* A writer that another overtook brings back a terminal record, and then the events no longer
  follow each other (`FreshRecordsKept` and `EventsExplainTasks` without their exceptions
  `behind` and `raced`; `ControllerStaleCopy` shows the first in the controller).
* A branch without commits counts as merged after another package's merge, and its
  dependents start (`DependencySafe` with `Fork` of three packages and two slots).
* A result of an old attempt fails the new one again and again, and each tick
  adds an agent (`WorkersBounded`, fault `fails`).
* A rejected task makes every tick raise (`DiesOfResultsOnly`, fault `operator`).
* A kill between merge and transition ends with an integrated package recorded as
  failed (`RecordsMatchGit`, fault `crash`), and an approve-merge merges what nobody has
  reviewed (the same, fault `operator`).
* Commits made after the review are integrated with those that were reviewed: all of the
  branch is merged, and `RecordsMatchGit` asks only for what the record names (fault `overstays`).
* After a swap of models an agent may serve a provider whose adapter it does not have.  Pausing it
  for its quota does not make that provider ineligible, so a task is put off in every tick
  (`NotParked` without `Borrowing`, with `low = {2}` after the swap), and when the quota is back a
  launch takes the agent that the controller had paused (`QuotaPauseKept` for agents with another
  provider's model, the same with one change more).
* `warden integrate --execute` merges a failed package, although the README says
  integration is permitted only after the gates pass (`IntegratedIsGated`, under `GatesCommands`).
* Owned paths of frozen packages overlap, since they are compared entry by entry:
  `src` and `src/app.py` pass (`OwnedPathsDisjoint`, under `PlanningApproval`).
* A repair may give a package another id (`mcp/server.py:963` puts any field of the patch into the
  item), and then a frozen package has no task (`ApprovedIsInForce`, a patch with an `id`).
* A task whose event the supervisor met before the task was moved waits for ever
  (`WaitsEnd`, under `SupervisorRestarts`).

So `ControllerWorkers` has no failing gates; `ControllerFailures` has a chain of two
and one slot, because the misreading of empty branches needs another package's
merge while a branch is empty, and neither kills nor commands.  For the same reason some properties name
their exceptions: `Tracked` the tasks in `loose`, `FreshRecordsKept` and `EventsExplainTasks` the tasks two
writers raced on, `HeadRestored` a tree left dirty, `ApprovedIsInForce` contracts that a kill left
in the middle of a second approval, `MergesWhatItGated` merges somebody interfered with,
`Recovers` providers with several agents, of which only the first is made ready.

### Bounds

All cap counters in the guards of the actions that raise them: `MaxCommits`, `MaxMerges`,
`MaxSpawns`, `MaxCrashes`, `MaxCommands` and `MaxEvents` in the modules of integration,
store and controller; `MaxAttempts`, `MaxLaunches`, `MaxFaults`, `MaxChanges`, `MaxKills`,
`MaxRetries` and `MaxRuns` in the others.  One commit per package
tells an empty branch from one worked on; two tell a scheduled head from a later one
(`IntegrationGate`) and evidence of one commit from the commit that is merged (`GatesCommands`).
Two merges are needed for a rollback or a creation to race with a
second merge.  Two launches make a handoff to a second worker, or two tasks that meet in a pane.
One kill, at any step, covers each crash window of a single call; the supervisor gets two, since
its second start may meet what its first left, and `Gates` has two attempts for
evidence and approvals of the first to meet the second.  Two packages share one slot or one
file; the third is there for what one package's merge does to two others.
Two planning runs make a late answer meet its successor; three commands
approve, repair and approve again.  Packages are symmetric in `IntegrationGate`, writers in `TaskStoreWriters`.

`CHECK_DEADLOCK FALSE` is set where the bounds stop the environment and a call, a store nobody
writes, a supervisor or a controller that died, or a launch may really stop.  `ProvidersOutages` and
`PlanningApproval` check for deadlock: the tick's loop goes on for ever in both, and in the second
the user may always start it again.

### Fairness

`Integration!FairSpec` makes a started call go on: git and the suite terminate, and
nothing waits.  `Controller!FairSpec` makes the tick go on, because `warden
controller` loops for ever and no step of it waits for anyone, and makes each
worker take steps until it has reported or died.  No fairness is assumed of the
user, of kills, or of late commits.  In `ControllerInterrupted` a controller that was
killed is running again at once, since someone has to start it; one that raised need not be.

`Providers!FairSpec` and `Supervisor!FairSpec` make the loops of the tick and of the supervisor go on;
workers, outages and cooldowns may last, and nothing makes anyone give a command.  `Panes!FairSpec` makes
the launch under way, the reconciliation of each task (every tick visits every task), the runner in each pane and the
clock go on, and a stop that was begun end; nobody need start a dead controller again, and
`SlotComesBack` supposes that one runs.  `Planning!FairSpec` makes each planner end and the controller's loop
go on; the operator need not do anything.  `Gates` states safety only.

## 4. What is proved

Every safety invariant and action property of the passing runs but `DependencySafe`, and the refinement
of `MergeGate`, is a theorem; the run shows it on an instance, the theorem for every value of the
constants.  The hypotheses some theorems have about faults hold in the run that checks the property;
where TLC has a counterexample beyond them, §3 or the theorem's entry below names it.

`IntegrationProofs`, for any managers, packages and bounds:

* `TypeCorrect`, `RollBackOwn`, `EvidenceKept`: `Spec => []...` of the three invariants
  of `IntegrationFaults`, under every fault.  Neither of the last two is inductive alone.  The strengthening
  `IInv` adds: whoever is past the lock is its holder (so at most one is); from
  the head check on, `before` is the integration branch, and from the merge on
  `after` is; what has evidence is included in the integration branch *and* in
  the holder's `before`, so that a rollback keeps it.  Each action either is
  outside the critical section and changes none of these, or leaves it, or is a
  step inside it; the lemmas `OutsideCriticalStep`, `LeavingStep` and
  `CriticalStep` take the three groups.
* `GateImplemented`: with late commits and failing aborts as the only faults, `Spec => GateSpec`.
  `visible` is the branch before the merge in flight; a call is invisible until
  its evidence is written, which is one `Accept` of the gate.
* `HeadComesBack` (`HeadRestored`): under every fault but `collision`, which is what makes `git switch`
  fail, a call that ends, not killed, is back on the user's branch or leaves tracked changes behind
  that no reset or abort has removed.  The invariant `WayBack` says that the tree is clean while a
  call is inside, until it leaves, and that who returns has switched.

`TaskStoreProofs`:

* `TypeCorrect`, `FreshKept` (`FreshRecordsKept`) and `EventsExplainTheFile` (`EventsExplainTasks`), for
  any number of writers, killed at any step, and any tasks and statuses.  The invariant `MemoryIsFresh` says
  that what a writer holds of a task it is not behind on is what the file says; a save of any
  other writer puts it behind on the tasks that save changes.  `EventsExplain` speaks of the steps
  between save and append as well: then the event still to come starts from the status that the events
  written so far lead to, and nobody else owes one of this task, unless the task has been raced on.

`ControllerProofs`, for any packages, dependencies, limits and bounds, with four inductive invariants:

* `IInv`, under every fault.  `TypeCorrect`; `SlotsSuffice` (`WithinConcurrency`), where the tasks
  assigned or running, without the one whose launch is in hand, and the free slots of the tick together
  never exceed the limit; `EndsOnResultsOnly` (`DiesOfResultsOnly`), without `operator`, since then a
  task that has got as far as a record or a review has a branch, and no task is
  terminal when hydration saves it; `FailuresAreDecided` (`Decided`), without `unreadable` and `crash`, which
  end the controller in the middle of a tick, since then tasks wait for a decision only from
  reconciliation to decision.
* `JInv`, for `Undisturbed` runs (no failing gates, no uncommitted or stray changes, no work after the
  report, no kills and no commands; `ControllerWorkers` is one): `WorkersKeepToSlots`
  (`WorkersBounded`).  It says for each package which statuses belong to which step of the tick, that a worker
  at work is the one recorded and its task is assigned or running, and that
  an attempt is over and its result gone before the next may begin.  With `fails` TLC refutes it (§3).
* `LInv`, under every fault, kills and commands included: `MergedIsInGit` (`MergedIsIntegrated`).  The commit a
  record names, and the one a copy of it names, stays on its branch, and what the tick is about to record
  as merged, at hydration or after a merge, is on the integration branch.
* `RInv`, without `crash` and `operator`, for any plan, packages side by side included: `RecordsAreRight`
  (`RecordsMatchGit`).  What the integration branch has of a package has come there by its own merge, since no
  branch has another package's commits from anywhere else; a package with something integrated
  is merged, or its merge is the step in hand; and whatever may be merged names the commit that was
  reviewed.  A kill or a command refutes it (§3).

`GatesProofs`, for any number of commits, attempts, commands and kills:

* `TypeCorrect`: no step, also none that saves an old copy, puts a status into the record that transition_task
  would refuse, or evidence of a commit that does not exist.
* `HumanGateHolds` (`HumanGate`).  The invariant `Ordered` says that whoever finds the task of such
  a package in a status that lets it be merged, or is merging it, finds an order carried out since the
  last launch.  An order is carried out when the command saves the record, so a review begun before the launch
  that ends after it is one: the code saves its old copy, with a status that may be merged.  A launch takes the order back and leaves the status `running`; saves of old
  copies bring a mergeable status back only by commands that are themselves the order.
* `GatesAreKept` (`MergesWhatItGated`).  `Untouched` says that, as long as nothing has interfered, what the tick has in
  hand is about the branch's head, and a task that may be merged has passed both gates as it is.

`PanesProofs`, for any tasks, panes, launches and faults:

* `TypeCorrect` and `WorkersStayTracked` (`Tracked`).  `Watched` follows each worker from its pane to its record: a
  runner that has yet to record its worker has a record that is waited for (`Fresh`), one that has is named by it
  (`Known`), and a worker without a pane is named or is about to be; `LaunchOK` and `CtlOK` say the same of
  the launch, whose own write merges with the runner's in either order.  No run is in two panes (`Distinct`).

`ProvidersProofs`, for any providers, agents, tasks and limits:

* `TypeCorrect`; `FailedProvidersRest` (`FailureRests`), since the health of a provider whose failure stands makes it
  ineligible; `QuotaPausesLast` (`QuotaPauseKept`), for agents whose model is their adapter's.  `KeptPaused` says that
  such an agent, once paused, keeps the task it was paused for, that
  this task is in no list the tick goes through, and that no launch under way
  has chosen this agent or its provider: whatever would resume the agent needs one of these.  The
  fallback of `AgentFor` cannot choose it either: an agent is found by its model only for a provider
  that no agent has as its adapter.

`SupervisorProofs`, for any tasks and any number of events, kills and retries:

* `TypeCorrect`, `Unseen` (`NoneUnseen`) and `Once` (`AnsweredOnce`).  The inductive invariant adds to the
  types that all events before the index of a scan have been looked at (`ScanIsSeen`), that a task
  that waits has not been answered since it was last moved there (`WaitsAreOpen`), and that the task
  the supervisor is about to act on is such a one (`ActsOnOpen`): others may move it
  meanwhile, but only the supervisor answers.  A step of anyone else moves one task and adds
  to the events at most; `TasksStep` shows these for all of them at once.

`PlanningProofs`, for any runs, packages, paths, patches and kills, and for every list of packages:

* About `Contracts`: `CycleCheckIsExact`, that the depth-first search of validate_dag refuses the lists without
  an order and no others.  A search that comes to an end marks every package after all it
  depends on, and the order of the marks is the order; the argument takes the least element of a
  set of numbers where a book would use induction.  `OverlapsAreResolved`: resolving overlaps
  loses no claimed path, leaves none to two ids, and gives each to the highest number.  It is a fact of this
  stage only; scaffolding is extended after it, and approval validates what comes out of that.
* `TypeCorrect`; `OnePlannerAtWork` (`OnePlanner`), from `OneJob`: one job at most is planning, and whoever plans has it;
  `FrozenContractsAreSound` (`FrozenIsSound`), from the checks before each write of the contracts and `CycleCheckIsExact`;
  `OnlySanctionedWork` (`WorkIsSanctioned`), from `Sanctioned`, which follows the loop's copy of the contracts too.
* `ApprovedPlansAreInForce` (`ApprovedIsInForce`), if no repair renames a package (`NoRenames`; the patches of
  `PlanningApproval` do not).  `Covered` and `InForce` relate the pending plan, the payload a command has
  read, the frozen packages and the tasks at every step of an approval (`Approving`).

All rest on the `ASSUME` of their module, evaluated by TLC in every run, and on nothing else.
Only model-checked are `DependencySafe`, which packages side by side break (§3), and the
liveness properties: `CallEnds`, `AllMerge`, `SlotsComeBack`, `SlotComesBack`,
`NotParked`, `Recovers`, `AheadIsAnswered` and `ApprovedIsWorkedOn`.  They depend on fairness, and the prover has
no rules for it.

## 5. Plan

1. Proofs of `DependencySafe` where independent packages are never in the works at once, and of
   `WorkersBounded` under `partial` and `strays`.
2. More about `Contracts`: that sanitised packages are what validation asks for, field by field.
3. `Worktrees`: cleanup and path checks, against the launch and the classifier.
4. Packages that leave the plan while their workers run.

## 6. Not modelled, and why

* **Views and set-up**: the Kanban projection and the Hermes profile (`hermes/kanban.py`,
  `hermes/profile.py`) write for another program and decide nothing; the dashboard, console, `doctor`, `demo`,
  launch wizard, launch set-ups, model registry and configuration loading parse, show or write files read at a start.
  `workflow.py` writes a stage nobody decides on, and the mailbox stores messages no component acts on.
* **Text**: handoff packets, prompts, provider command lines and what validation commands print;
  difflib's close matches in path normalisation (names are equal or not similar).
* **Left out of a modelled part**: packages removed from the plan during a run and
  `launch=False` dry runs (`Controller`); `reject` in `Gates`, which `Controller` has; two
  operators at once in `Planning`; `needs_auth`, treated as `degraded`, `probe`, treated
  as `healthy`, and swaps to the model the agent has already in `Providers`; events other than
  `decision_required` in `Supervisor`.
* **Assumed**: an interrupt ends a provider's process; pids are not reused;
  TMUX_STALE_SECONDS is longer than any step between two writes of a record; the files of the
  base commit are not within a package's owned paths.

Behaviour the models show that no property is about, because the code means it or
nothing says otherwise: a launch interrupts whatever runs in the agent's pane, also the worker
of another task of that provider, whose task then waits for its record to grow old; a torn record ends
the controller that reads it, and so does a plan whose rejection is being written; `warden stop` may leave a worker that was launched between its two steps;
a refresh that finds the executable healthy clears a cooldown; a user's `agent pause` is lost
when the agent's task ends; after a swap of providers two agents may share one, and only the first is
made ready again; hydration resets a waiting task whose worktree has no clean commits; an old event's kind decides
a later incident of its task; an event the supervisor dies of stops every supervisor that is started.
