----------------------------- MODULE Providers -----------------------------
(***************************************************************************)
(* Which provider gets a task: provider health (providers/health.py), the  *)
(* agents of the session profile (runtime/session.py), their quotas        *)
(* (runtime/quota.py), the part of engine/controller.py that reads and     *)
(* writes all three, and the commands that change them.  The profile is    *)
(* one file: each writer replaces all of it.  Providers, agents and tasks  *)
(* are numbered in the order the code considers them.                      *)
(***************************************************************************)
EXTENDS Naturals, FiniteSets, FiniteSetsExt

CONSTANTS
  NProviders,   \* worker_providers, by priority; one agent for each
  NTasks,
  Concurrency,
  MaxChanges    \* bound: commands, and changes of what the executables do

ASSUME ProvidersAssumption ==
  /\ {NProviders, NTasks, Concurrency} \subseteq Nat \ {0}
  /\ MaxChanges \in Nat

Provider == 1 .. NProviders
Agent == 1 .. NProviders
Task == 1 .. NTasks
None == 0

VARIABLES
  exe,       \* what `<executable> --help` does: healthy, degraded, unavailable
  health,    \* provider-health/<provider>.json
  agents,    \* session-profile.json
  low,       \* agents whose quota is below the pause threshold
  status,    \* each task's status
  provider,  \* the provider recorded with it
  override,  \* its provider_override
  ctl,       \* where the controller is in its tick
  op,        \* the operator's command, with the profile it read
  changes,
  held,      \* history: agents of one provider's model and adapter that were
             \* paused for their quota, and that no command touched since
  failed     \* history: providers whose failure in this tick still stands

tasks == <<status, provider, override>>
vars == <<exe, health, agents, low, tasks, ctl, op, changes, held, failed>>

Executable == {"healthy", "degraded", "unavailable"}
\* needs_auth is treated as degraded is, and probe as healthy: both are left out.
Health == {"healthy", "cooldown", "degraded", "unavailable"}
AgentState == {"ready", "running", "paused", "handoff_needed", "unavailable"}
Status == {"ready", "running", "decision_required", "handoff_needed", "blocked",
           "review_passed"}

At(pc, todo) == [pc |-> pc, todo |-> todo, slots |-> 0]

NoCommand == [name |-> "none"]

\* The default profile's workers.
Default == [a \in Agent |-> [adapter |-> a, model |-> a, state |-> "ready", task |-> None]]

\* The last one after `warden agent swap` to the first provider's model, and
\* railwarden.agent.swap back: it keeps the first provider's adapter.
Swapped == [Default EXCEPT ![NProviders].adapter = 1]

Init ==
  /\ exe = [p \in Provider |-> "healthy"]
  /\ health = [p \in Provider |-> "healthy"]
  \* An earlier session may have used up a quota, and swapped models.
  /\ \/ agents = Default /\ low \in {{}, {1}} /\ changes = 0
     \/ agents = Swapped /\ low = {1} /\ changes = MaxChanges
  /\ status = [t \in Task |-> "ready"]
  /\ provider = [t \in Task |-> None]
  /\ override = [t \in Task |-> None]
  /\ ctl = At("refresh", Provider)
  /\ op = NoCommand
  /\ held = {}
  /\ failed = {}

-----------------------------------------------------------------------------
(***************************************************************************)
(* Helpers                                                                 *)
(***************************************************************************)
AgentsOf(p) == {a \in Agent : agents[a].adapter = p}

ModelsOf(p) == {a \in Agent : agents[a].model = p}

\* _agent_for_provider: the first in the profile whose adapter it is, or else the
\* first whose model is the provider's.
AgentFor(p) == CASE AgentsOf(p) # {} -> Min(AgentsOf(p))
                 [] AgentsOf(p) = {} /\ ModelsOf(p) # {} -> Min(ModelsOf(p))
                 [] OTHER -> None

\* _set_agent_runtime_state; an agent that is not there is left alone.
SetAgent(a, state, task) ==
  agents' = [b \in Agent |->
               IF b = a THEN [agents[b] EXCEPT !.state = state, !.task = task]
                        ELSE agents[b]]

\* Mutant: whatever the agent is at.
FreeProviderAgent(p, t) ==
  LET a == AgentFor(p)
  IN IF a # None THEN SetAgent(a, "ready", None) ELSE UNCHANGED agents

\* _set_provider_agent_ready
SetProviderAgentReady(p, t) ==
  LET a == AgentFor(p)
  IN IF a # None /\ agents[a].task \in {None, t} THEN SetAgent(a, "ready", None)
                                                 ELSE UNCHANGED agents

\* Mutant: a degraded provider still serves.
EligibleAnyway(profile) ==
  {p \in Provider :
     /\ health[p] # "unavailable"
     /\ \A a \in Agent :
          profile[a].adapter = p => profile[a].state \notin {"paused", "unavailable"}}

\* eligible_providers, by the profile that is there afterwards.
Eligible(profile) ==
  {p \in Provider :
     /\ health[p] = "healthy"
     /\ \A a \in Agent :
          profile[a].adapter = p => profile[a].state \notin {"paused", "unavailable"}}

\* The next of the things a phase works through.
First == Min(ctl.todo)
Rest == ctl.todo \ {First}
WaitsForWorker(t) == status[t] \in {"ready", "handoff_needed"}
Running == {t \in Task : status[t] = "running"}
Slots == IF Cardinality(Running) < Concurrency THEN Concurrency - Cardinality(Running) ELSE 0

-----------------------------------------------------------------------------
(***************************************************************************)
(* One tick of the controller                                              *)
(***************************************************************************)
\* Mutant: a working executable ends an outage only.
RefreshOutage ==
  /\ ctl.pc = "refresh" /\ ctl.todo # {}
  /\ LET p == First
         a == AgentFor(p)
         idle == a # None /\ agents[a].task = None
     IN CASE exe[p] = "healthy" ->
               /\ health' = [health EXCEPT ![p] = IF @ = "unavailable" THEN "healthy" ELSE @]
               /\ IF idle /\ agents[a].state = "unavailable"
                    THEN SetAgent(a, "ready", None) ELSE UNCHANGED agents
          [] exe[p] = "unavailable" ->
               /\ health' = [health EXCEPT ![p] = "unavailable"]
               /\ IF idle THEN SetAgent(a, "unavailable", None) ELSE UNCHANGED agents
          [] exe[p] = "degraded" -> UNCHANGED <<health, agents>>
  /\ ctl' = At("refresh", Rest)
  /\ UNCHANGED <<exe, low, tasks, op, changes, held, failed>>

\* _refresh_provider_health for one provider.
Refresh ==
  /\ ctl.pc = "refresh" /\ ctl.todo # {}
  /\ LET p == First
         a == AgentFor(p)
         idle == a # None /\ agents[a].task = None
     IN CASE exe[p] = "healthy" ->
               /\ health' = [health EXCEPT ![p] = "healthy"]
               /\ IF idle /\ agents[a].state = "unavailable"
                    THEN SetAgent(a, "ready", None) ELSE UNCHANGED agents
          [] exe[p] = "unavailable" ->
               /\ health' = [health EXCEPT ![p] = "unavailable"]
               /\ IF idle THEN SetAgent(a, "unavailable", None) ELSE UNCHANGED agents
          [] exe[p] = "degraded" -> UNCHANGED <<health, agents>>
  /\ ctl' = At("refresh", Rest)
  /\ UNCHANGED <<exe, low, tasks, op, changes, held, failed>>

\* The next phase, with the tasks it loads.
EndPhase ==
  /\ ctl.todo = {}
  /\ \/ /\ ctl.pc = "refresh"
        /\ ctl' = At("reconcile", Running)
     \/ /\ ctl.pc = "reconcile"
        /\ ctl' = At("decide", {t \in Task : status[t] = "decision_required"})
     \/ /\ ctl.pc = "decide"
        /\ ctl' = [At("launch", {t \in Task : WaitsForWorker(t)}) EXCEPT !.slots = Slots]
  /\ UNCHANGED <<exe, health, agents, low, tasks, op, changes, held, failed>>

\* handoff_or_block, by what is eligible once the agent is ready.
HandoffOrBlock(t) ==
  /\ SetProviderAgentReady(provider[t], t)
  /\ status' = [status EXCEPT ![t] =
                  IF Eligible(agents') \ {provider[t]} # {} THEN "handoff_needed"
                                                            ELSE "blocked"]

\* The worker is still at work.
StillRuns ==
  /\ ctl.pc = "reconcile" /\ ctl.todo # {}
  /\ ctl' = At("reconcile", Rest)
  /\ UNCHANGED <<exe, health, agents, low, tasks, op, changes, held, failed>>

\* It succeeded, and record_success forgets every earlier failure.
Succeeds ==
  /\ ctl.pc = "reconcile" /\ ctl.todo # {}
  /\ LET t == First
         p == provider[t]
     IN /\ health' = [health EXCEPT ![p] = "healthy"]
        /\ failed' = failed \ {p}
        /\ SetProviderAgentReady(p, t)
        /\ status' = [status EXCEPT ![t] = "review_passed"]
  /\ ctl' = At("reconcile", Rest)
  /\ UNCHANGED <<exe, low, provider, override, op, changes, held>>

\* Its result is refused, or says that it gave up: the provider's health is not
\* touched.
IsRefused ==
  /\ ctl.pc = "reconcile" /\ ctl.todo # {}
  /\ \/ HandoffOrBlock(First)
     \/ /\ SetProviderAgentReady(provider[First], First)
        /\ status' = [status EXCEPT ![First] = "blocked"]
  /\ ctl' = At("reconcile", Rest)
  /\ UNCHANGED <<exe, health, low, provider, override, op, changes, held, failed>>

\* record_failure: what classify_failure makes of the log.
Fails ==
  /\ ctl.pc = "reconcile" /\ ctl.todo # {}
  /\ LET t == First
         p == provider[t]
     IN /\ \E kind \in {"cooldown", "degraded"} :
             health' = [health EXCEPT ![p] = kind]
        /\ failed' = failed \cup {p}
        /\ status' = [status EXCEPT ![t] = "decision_required"]
  /\ ctl' = At("reconcile", Rest)
  /\ UNCHANGED <<exe, agents, low, provider, override, op, changes, held>>

\* _default_supervisor_decisions: a handoff, or a person for a broken contract.
Decide ==
  /\ ctl.pc = "decide" /\ ctl.todo # {}
  /\ \/ HandoffOrBlock(First)
     \/ /\ status' = [status EXCEPT ![First] = "blocked"]
        /\ UNCHANGED agents
  /\ ctl' = At("decide", Rest)
  /\ UNCHANGED <<exe, health, low, provider, override, op, changes, held, failed>>

Launching == ctl.pc = "launch" /\ ctl.todo # {} /\ ctl.slots > 0

\* The first eligible provider, or the one the task asks for.
Chosen(t) ==
  LET E == Eligible(agents)
  IN CASE E = {} -> None
       [] override[t] \in E -> override[t]
       [] OTHER -> Min(E)

Passed == [ctl EXCEPT !.todo = Rest]

NoProvider ==
  /\ Launching
  /\ Chosen(First) = None
  /\ status' = [status EXCEPT ![First] = "blocked"]
  /\ ctl' = Passed
  /\ UNCHANGED <<exe, health, agents, low, provider, override, op, changes, held, failed>>

\* Mutant: the task is put off, and the agent stays where it is.
PutOffForQuota ==
  /\ Launching
  /\ LET t == First
         p == Chosen(t)
     IN /\ p # None /\ AgentFor(p) \in low
        /\ status' = [status EXCEPT ![t] = "handoff_needed"]
        /\ provider' = [provider EXCEPT ![t] = p]
  /\ ctl' = Passed
  /\ UNCHANGED <<exe, health, agents, low, override, op, changes, held, failed>>

\* _pause_for_quota
PauseForQuota ==
  /\ Launching
  /\ LET t == First
         p == Chosen(t)
         a == AgentFor(p)
     IN /\ p # None /\ a \in low
        /\ SetAgent(a, "paused", t)
        /\ status' = [status EXCEPT ![t] = "handoff_needed"]
        /\ provider' = [provider EXCEPT ![t] = p]
        /\ held' = IF agents[a].model = agents[a].adapter THEN held \cup {a} ELSE held
  /\ ctl' = Passed
  /\ UNCHANGED <<exe, health, low, override, op, changes, failed>>

\* Mutant: without asking whether there is a provider.
StartAnyway ==
  /\ Launching
  /\ LET p == Chosen(First)
     IN /\ AgentFor(p) \notin low
        /\ ctl' = [pc |-> "starting", todo |-> Rest, slots |-> ctl.slots,
                   task |-> First, provider |-> p]
  /\ UNCHANGED <<exe, health, agents, low, tasks, op, changes, held, failed>>

\* The quota allows it; the worktree is prepared.
Start ==
  /\ Launching
  /\ LET p == Chosen(First)
     IN /\ p # None /\ AgentFor(p) \notin low
        /\ ctl' = [pc |-> "starting", todo |-> Rest, slots |-> ctl.slots,
                   task |-> First, provider |-> p]
  /\ UNCHANGED <<exe, health, agents, low, tasks, op, changes, held, failed>>

\* ensure_worktree refuses.
StartFails ==
  /\ ctl.pc = "starting"
  /\ status' = [status EXCEPT ![ctl.task] = "blocked"]
  /\ ctl' = [At("launch", ctl.todo) EXCEPT !.slots = ctl.slots]
  /\ UNCHANGED <<exe, health, agents, low, provider, override, op, changes, held, failed>>

\* launch_task looks its agent up again, and moves the task to assigned.
Assign ==
  /\ ctl.pc = "starting"
  /\ status' = [status EXCEPT ![ctl.task] = "running"]
  /\ provider' = [provider EXCEPT ![ctl.task] = ctl.provider]
  /\ LET a == AgentFor(ctl.provider)
     IN ctl' = [pc |-> "assigned", todo |-> ctl.todo, slots |-> ctl.slots - 1,
                task |-> ctl.task, agent |-> a,
                adapter |-> IF a = None THEN None ELSE agents[a].adapter,
                model |-> IF a = None THEN None ELSE agents[a].model]
  /\ UNCHANGED <<exe, health, agents, low, override, op, changes, held, failed>>

\* The agent record it looked up is the one it writes back.
Run ==
  /\ ctl.pc = "assigned"
  /\ agents' = [a \in Agent |->
                  IF a = ctl.agent
                    THEN [adapter |-> ctl.adapter, model |-> ctl.model,
                          state |-> "running", task |-> ctl.task]
                    ELSE agents[a]]
  /\ ctl' = [At("launch", ctl.todo) EXCEPT !.slots = ctl.slots]
  /\ UNCHANGED <<exe, health, low, tasks, op, changes, held, failed>>

EndTick ==
  /\ ctl.pc = "launch" /\ (ctl.todo = {} \/ ctl.slots = 0)
  /\ ctl' = At("refresh", Provider)
  /\ failed' = {}
  /\ UNCHANGED <<exe, health, agents, low, tasks, op, changes, held>>

-----------------------------------------------------------------------------
(***************************************************************************)
(* The operator: a command reads the profile, and writes all of it back    *)
(***************************************************************************)
Read(command) ==
  /\ op.name = "none"
  /\ changes < MaxChanges
  /\ changes' = changes + 1
  /\ op' = command
  /\ UNCHANGED <<exe, health, agents, low, tasks, ctl, held, failed>>

\* Bound: a swap goes to another model.
AgentCommand ==
  \E a \in Agent, p \in Provider, name \in {"pause", "resume", "swap", "mcp_swap"} :
    /\ IF name \in {"swap", "mcp_swap"} THEN p # agents[a].model ELSE p = agents[a].adapter
    /\ Read([name |-> name, agent |-> a, to |-> p, profile |-> agents, task |-> None])

\* _active_task_for_agent
ActiveTask(agent) ==
  LET its == {t \in Task : /\ provider[t] = agent.adapter
                           /\ status[t] \in {"running", "handoff_needed"}}
  IN CASE agent.task # None -> agent.task
       [] agent.task = None /\ its # {} -> Min(its)
       [] OTHER -> None

\* `warden agent swap` hands the agent's task over to the target first.
SwapTask ==
  /\ op.name = "swap"
  /\ LET t == ActiveTask(op.profile[op.agent])
     IN /\ op' = [op EXCEPT !.name = "swapped", !.task = t]
        /\ status' = [u \in Task |-> IF u = t THEN "handoff_needed" ELSE status[u]]
        /\ override' = [u \in Task |-> IF u = t THEN op.to ELSE override[u]]
  /\ UNCHANGED <<exe, health, agents, low, provider, ctl, changes, held, failed>>

\* What the commands make of the agent they read.
Updated ==
  LET agent == op.profile[op.agent]
  IN CASE op.name = "pause" -> [agent EXCEPT !.state = "paused"]
       [] op.name = "resume" -> [agent EXCEPT !.state = "ready"]
       [] op.name = "mcp_swap" ->
            [agent EXCEPT !.model = op.to,
                          !.state = IF agent.task = None THEN "ready" ELSE "handoff_needed"]
       [] op.name = "swapped" ->
            [adapter |-> op.to, model |-> op.to, task |-> op.task,
             state |-> IF op.task = None THEN "ready" ELSE "handoff_needed"]

WriteProfile ==
  /\ op.name \in {"pause", "resume", "mcp_swap", "swapped"}
  /\ agents' = [op.profile EXCEPT ![op.agent] = Updated]
  /\ op' = NoCommand
  \* A quota is kept for the model, and another model has its own.
  /\ low' \in IF op.name \in {"swapped", "mcp_swap"}
               THEN {low \ {op.agent}, low \cup {op.agent}} ELSE {low}
  /\ held' = {a \in held \ {op.agent} : agents'[a] = agents[a]}
  /\ UNCHANGED <<exe, health, tasks, ctl, changes, failed>>

\* `warden retry`, and railwarden.task.assign with a provider.
Retry(t) ==
  /\ changes < MaxChanges
  /\ changes' = changes + 1
  /\ status[t] # "review_passed"
  /\ status' = [status EXCEPT ![t] = "ready"]
  /\ \E p \in Provider \cup {override[t]} : override' = [override EXCEPT ![t] = p]
  /\ UNCHANGED <<exe, health, agents, low, provider, ctl, op, held, failed>>

\* update_usage, from a command or a launcher.
SetQuota(a) ==
  /\ changes < MaxChanges
  /\ changes' = changes + 1
  /\ low' = IF a \in low THEN low \ {a} ELSE low \cup {a}
  /\ UNCHANGED <<exe, health, agents, tasks, ctl, op, held, failed>>

-----------------------------------------------------------------------------
\* What the executable does changes; the time of a cooldown is up.
Outage(p) ==
  /\ changes < MaxChanges
  /\ changes' = changes + 1
  /\ \E x \in Executable \ {exe[p]} : exe' = [exe EXCEPT ![p] = x]
  /\ UNCHANGED <<health, agents, low, tasks, ctl, op, held, failed>>

CooldownEnds(p) ==
  /\ health[p] = "cooldown"
  /\ health' = [health EXCEPT ![p] = "healthy"]
  /\ failed' = failed \ {p}
  /\ UNCHANGED <<exe, agents, low, tasks, ctl, op, changes, held>>

Tick ==
  \/ Refresh \/ EndPhase \/ StillRuns \/ Succeeds \/ IsRefused \/ Fails \/ Decide
  \/ NoProvider \/ PauseForQuota \/ Start \/ StartFails \/ Assign \/ Run \/ EndTick

Operator ==
  \/ AgentCommand \/ SwapTask \/ WriteProfile
  \/ \E t \in Task : Retry(t)
  \/ \E a \in Agent : SetQuota(a)

Next ==
  \/ Tick
  \/ Operator
  \/ \E p \in Provider : Outage(p) \/ CooldownEnds(p)

Spec == Init /\ [][Next]_vars

\* The controller's loop goes on; workers and cooldowns may last.
FairSpec == Spec /\ WF_vars(Tick)

-----------------------------------------------------------------------------
(***************************************************************************)
(* Properties                                                              *)
(***************************************************************************)
Phases == [pc : {"refresh"}, todo : SUBSET Provider, slots : {0}]
          \cup [pc : {"reconcile", "decide", "launch"}, todo : SUBSET Task,
                slots : 0 .. Concurrency]

\* A launch under way has a provider and a slot.
TypeOK ==
  /\ exe \in [Provider -> Executable]
  /\ health \in [Provider -> Health]
  /\ agents \in [Agent -> [adapter : Provider, model : Provider, state : AgentState,
                          task : Task \cup {None}]]
  /\ low \subseteq Agent
  /\ status \in [Task -> Status]
  /\ provider \in [Task -> Provider \cup {None}]
  /\ override \in [Task -> Provider \cup {None}]
  /\ ctl \in Phases
             \cup [pc : {"starting"}, todo : SUBSET Task, slots : 1 .. Concurrency,
                   task : Task, provider : Provider]
             \cup [pc : {"assigned"}, todo : SUBSET Task, slots : 0 .. Concurrency - 1,
                   task : Task, agent : Agent \cup {None}, adapter : Provider \cup {None},
                   model : Provider \cup {None}]
  /\ held \subseteq Agent /\ failed \subseteq Provider

\* The controller never ends a pause it made for the quota of an agent whose
\* model is its adapter's: no worker of the agent that ends, no outage and no
\* launch resumes it; only a command does.
QuotaPauseKept ==
  [][Tick => \A a \in held : agents'[a].state = "paused"]_vars

\* A provider that failed in this tick gets no task in it, unless another of
\* its tasks has succeeded since.
FailureRests == ctl.pc = "starting" => ctl.provider \notin failed

\* The quota is used up of an agent that serves a provider which has none of its
\* own adapter.
Borrowing == \E p \in Provider : AgentsOf(p) = {} /\ AgentFor(p) \in low

\* A task does not wait for ever while workers are free: it is launched, or
\* blocked.  Pausing a borrowed agent leaves the provider eligible that borrows
\* it, and the tick puts the task off again and again.
NotParked == \A t \in Task : []<>(~WaitsForWorker(t) \/ Slots = 0 \/ Borrowing)

\* A provider whose executable works for good comes back, whatever failed on
\* it, unless an agent of its is paused or it has several agents.
Recovers ==
  \A p \in Provider :
    <>[](exe[p] = "healthy" /\ \A a \in AgentsOf(p) : agents[a].state # "paused"
                            /\ AgentsOf(p) = {a})
      => []<>(p \in Eligible(agents))
=============================================================================
