--------------------------- MODULE ProvidersProofs ---------------------------
(***************************************************************************)
(* That a provider which failed is given no task in the tick, and that the *)
(* controller never ends a pause it made for a quota: for any number of    *)
(* providers and tasks, whatever the operator's commands write back.       *)
(***************************************************************************)
EXTENDS Providers, TLAPS, FiniteSetTheorems

(***************************************************************************)
(* The inductive invariant                                                 *)
(***************************************************************************)
AgentRec ==
  [adapter : Provider, model : Provider, state : AgentState, task : Task \cup {None}]

\* A command under way: what it read of the profile may be stale by now.
Commands ==
  [name : {"pause", "resume", "swap", "mcp_swap", "swapped"}, agent : Agent,
   to : Provider, task : Task \cup {None}, profile : [Agent -> AgentRec]]

\* A failure stands until the provider succeeds or its time is up, and while
\* it stands the provider is not eligible.
Rests ==
  /\ \A p \in failed : health[p] # "healthy"
  /\ ctl.pc = "refresh" => failed = {}
  /\ FailureRests

\* An agent paused for its quota keeps the task it was paused for.  Neither
\* reconcile_processes nor a decision takes that task up under the agent's
\* provider, for it waits for a worker; and no launch takes the provider, or
\* the agent, for it is not eligible.
KeptPaused(a) ==
  /\ agents[a].state = "paused" /\ agents[a].task # None
  /\ agents[a].model = agents[a].adapter
  /\ provider[agents[a].task] = agents[a].adapter =>
       /\ status[agents[a].task] \notin {"running", "decision_required"}
       /\ ctl.pc \in {"reconcile", "decide"} => agents[a].task \notin ctl.todo
  /\ ctl.pc = "starting" => ctl.provider # agents[a].adapter
  /\ ctl.pc = "assigned" => ctl.agent # a

Pauses == \A a \in held : KeptPaused(a)

\* A task with a worker, also one that was found with a worker, has a provider.
Provided ==
  /\ \A t \in Task : status[t] = "running" => provider[t] # None
  /\ ctl.pc = "reconcile" => \A t \in ctl.todo : provider[t] # None

Starting ==
  [pc : {"starting"}, todo : SUBSET Task, slots : 1 .. Concurrency,
   task : Task, provider : Provider]

Assigned ==
  [pc : {"assigned"}, todo : SUBSET Task, slots : 0 .. Concurrency - 1,
   task : Task, agent : Agent \cup {None}, adapter : Provider \cup {None},
   model : Provider \cup {None}]

ProfileOK == agents \in [Agent -> AgentRec] /\ low \subseteq Agent /\ held \subseteq Agent

HealthOK ==
  exe \in [Provider -> Executable] /\ health \in [Provider -> Health] /\ failed \subseteq Provider

TasksOK ==
  /\ status \in [Task -> Status]
  /\ provider \in [Task -> Provider \cup {None}]
  /\ override \in [Task -> Provider \cup {None}]

CtlOK ==
  /\ ctl \in Phases \cup Starting \cup Assigned
  /\ ctl.pc = "assigned" =>
       (ctl.agent = None \/ (ctl.adapter # None /\ ctl.model # None))

CmdOK == op = NoCommand \/ op \in Commands

TypeInv == ProfileOK /\ HealthOK /\ TasksOK /\ CtlOK /\ CmdOK

IInv == TypeInv /\ Provided /\ Rests /\ Pauses

LEMMA TypeInvSuffices == TypeInv => TypeOK
BY DEF TypeInv, TypeOK, ProfileOK, HealthOK, TasksOK, CtlOK, AgentRec, Starting, Assigned

-----------------------------------------------------------------------------
(***************************************************************************)
(* The operators                                                           *)
(***************************************************************************)
LEMMA Constants ==
  /\ NProviders \in Nat \ {0} /\ NTasks \in Nat \ {0} /\ Concurrency \in Nat \ {0}
  /\ 1 \in Agent
  /\ Provider \subseteq Nat /\ Agent = Provider /\ Task \subseteq Nat
  /\ None \notin Provider /\ None \notin Task
BY ProvidersAssumption DEF Provider, Agent, Task, None

\* A nonempty set of numbers has a first.
LEMMA MinOf ==
  ASSUME NEW S \in SUBSET Nat, S # {}
  PROVE  Min(S) \in S
<1>1. PICK x \in S : \A y \in S : ~(<<y, x>> \in OpToRel(<, Nat))
  BY NatLessThanWellFounded, WFMin
<1>2. ASSUME NEW y \in S
      PROVE  x =< y
  <2>1. x \in Nat /\ y \in Nat
    OBVIOUS
  <2>2. <<y, x>> \notin OpToRel(<, Nat)
    BY <1>1
  <2>3. ~(y < x)
    BY <2>1, <2>2 DEF OpToRel
  <2> QED BY <2>1, <2>3
<1> QED BY <1>2 DEF Min

LEMMA AgentForType ==
  ASSUME ProfileOK, NEW p
  PROVE  \/ AgentFor(p) = None
         \/ AgentFor(p) \in Agent /\ p \in {agents[AgentFor(p)].adapter,
                                            agents[AgentFor(p)].model}
<1>1. AgentsOf(p) \subseteq Agent /\ AgentsOf(p) \in SUBSET Nat
  BY Constants DEF AgentsOf
<1>2. ModelsOf(p) \subseteq Agent /\ ModelsOf(p) \in SUBSET Nat
  BY Constants DEF ModelsOf
<1>3. CASE AgentsOf(p) # {}
  BY <1>1, <1>3, MinOf DEF AgentFor, AgentsOf
<1>4. CASE AgentsOf(p) = {} /\ ModelsOf(p) # {}
  BY <1>2, <1>4, MinOf DEF AgentFor, ModelsOf
<1>5. CASE AgentsOf(p) = {} /\ ModelsOf(p) = {}
  BY <1>5 DEF AgentFor
<1> QED BY <1>3, <1>4, <1>5

LEMMA FirstType ==
  ASSUME CtlOK, ctl.todo # {}
  PROVE  First \in ctl.todo /\ Rest \subseteq ctl.todo
<1>1. ctl.todo \in SUBSET Nat
  BY Constants DEF CtlOK, Phases, Starting, Assigned
<1> QED BY <1>1, MinOf DEF First, Rest

LEMMA PhaseType ==
  ASSUME CtlOK
  PROVE  /\ ctl.pc = "refresh" => ctl.todo \subseteq Provider /\ ctl.slots = 0
         /\ ctl.pc \in {"reconcile", "decide", "launch"} =>
              /\ ctl.todo \subseteq Task /\ ctl.slots \in 0 .. Concurrency
              /\ ctl = [pc |-> ctl.pc, todo |-> ctl.todo, slots |-> ctl.slots]
         /\ ctl.pc = "starting" => ctl \in Starting
         /\ ctl.pc = "assigned" => ctl \in Assigned
BY DEF CtlOK, Phases, Starting, Assigned

LEMMA SlotsType == Slots \in 0 .. Concurrency
<1>1. IsFiniteSet(Running)
  BY Constants, FS_Interval, FS_Subset DEF Running, Task
<1>2. Cardinality(Running) \in Nat
  BY <1>1, FS_CardinalityType
<1> QED BY <1>2, Constants DEF Slots

LEMMA ChosenType ==
  ASSUME NEW t
  PROVE  Chosen(t) = None \/ Chosen(t) \in Eligible(agents)
<1>1. Eligible(agents) \in SUBSET Nat
  BY Constants DEF Eligible
<1> QED BY <1>1, MinOf DEF Chosen

-----------------------------------------------------------------------------
(***************************************************************************)
(* Kinds of steps                                                          *)
(***************************************************************************)
\* One that leaves the agents, the operator's command and the history of
\* pauses alone, and lets no task be taken up that was not.
LEMMA LeavesAgents ==
  ASSUME Pauses, UNCHANGED <<agents, held>>,
         \A a \in held :
           provider'[agents[a].task] = agents[a].adapter =>
             /\ status'[agents[a].task] \notin {"running", "decision_required"}
             /\ ctl'.pc \in {"reconcile", "decide"} => agents[a].task \notin ctl'.todo,
         \A a \in held :
           /\ ctl'.pc = "starting" => ctl'.provider # agents[a].adapter
           /\ ctl'.pc = "assigned" => ctl'.agent # a
  PROVE  Pauses'
BY DEF Pauses, KeptPaused

\* One that stays in its phase of the tick, or starts the next, and goes on to
\* the rest of its tasks; a task it gives back is not taken up any more.
LEMMA GoesOn ==
  ASSUME Pauses, UNCHANGED held, \A a \in held : agents'[a] = agents[a],
         UNCHANGED provider,
         \A t \in Task : \/ status'[t] \notin {"running", "decision_required"}
                         \/ status'[t] = status[t],
         \/ ctl' = ctl
         \/ ctl'.pc \notin {"reconcile", "decide", "starting", "assigned"}
         \/ /\ ctl'.pc = ctl.pc /\ ctl.pc \in {"reconcile", "decide"}
            /\ ctl'.todo \subseteq ctl.todo,
         \A a \in held : agents[a].task \in Task
  PROVE  Pauses'
BY DEF Pauses, KeptPaused

LEMMA HeldTask ==
  ASSUME ProfileOK, Pauses
  PROVE  \A a \in held : agents[a].task \in Task /\ agents[a].adapter \in Provider
BY DEF ProfileOK, Pauses, KeptPaused, AgentRec

LEMMA SetAgentType ==
  ASSUME ProfileOK, NEW a, NEW state \in AgentState, NEW t \in Task \cup {None},
         SetAgent(a, state, t)
  PROVE  /\ agents' \in [Agent -> AgentRec]
         /\ \A b \in Agent : b # a => agents'[b] = agents[b]
         /\ a \in Agent => /\ agents'[a].state = state /\ agents'[a].task = t
                           /\ agents'[a].adapter = agents[a].adapter
                           /\ agents'[a].model = agents[a].model
BY DEF SetAgent, ProfileOK, AgentRec

\* Who gives an agent back looks whether it is at the task, or at none: an
\* agent paused for its quota is at a task that its provider is not at.
LEMMA GivesBack ==
  ASSUME IInv, ctl.pc \in {"reconcile", "decide"}, NEW t \in ctl.todo,
         SetProviderAgentReady(provider[t], t)
  PROVE  agents' \in [Agent -> AgentRec] /\ \A a \in held : agents'[a] = agents[a]
<1> DEFINE a == AgentFor(provider[t])
<1>1. ProfileOK /\ Pauses
  BY DEF IInv, TypeInv
<1>2. CASE a # None /\ agents[a].task \in {None, t}
  <2>1. a \in Agent /\ provider[t] \in {agents[a].adapter, agents[a].model}
    BY <1>1, <1>2, AgentForType
  <2>2. SetAgent(a, "ready", None)
    BY <1>2 DEF SetProviderAgentReady
  <2>3. a \notin held
    BY <1>1, <1>2, <2>1 DEF Pauses, KeptPaused
  <2>4. /\ agents' \in [Agent -> AgentRec]
        /\ \A b \in Agent : b # a => agents'[b] = agents[b]
    <3> HIDE DEF a
    <3> QED BY <1>1, <2>2, SetAgentType DEF AgentState
  <2> QED BY <1>1, <2>3, <2>4 DEF ProfileOK
<1>3. CASE ~(a # None /\ agents[a].task \in {None, t})
  BY <1>1, <1>3 DEF SetProviderAgentReady, ProfileOK
<1> QED BY <1>2, <1>3

-----------------------------------------------------------------------------
(***************************************************************************)
(* The tick, up to the launches                                            *)
(***************************************************************************)
LEMMA AtType ==
  ASSUME NEW todo
  PROVE  /\ todo \subseteq Provider => At("refresh", todo) \in Phases
         /\ todo \subseteq Task =>
              /\ At("reconcile", todo) \in Phases /\ At("decide", todo) \in Phases
              /\ \A n \in 0 .. Concurrency :
                   [At("launch", todo) EXCEPT !.slots = n] \in Phases
         /\ \A pc \in {"refresh", "reconcile", "decide", "launch"} :
              At(pc, todo).pc = pc /\ At(pc, todo).todo = todo
         /\ \A n : /\ [At("launch", todo) EXCEPT !.slots = n].pc = "launch"
                   /\ [At("launch", todo) EXCEPT !.slots = n].todo = todo
BY Constants DEF At, Phases

LEMMA ProvidedInv == IInv => Provided
BY DEF IInv

LEMMA RefreshStep == ASSUME IInv, Refresh PROVE IInv'
<1> DEFINE p == First
           a == AgentFor(p)
           idle == a # None /\ agents[a].task = None
<1>1. ProfileOK /\ HealthOK /\ TasksOK /\ CtlOK /\ CmdOK /\ Rests /\ Pauses
  BY DEF IInv, TypeInv
<1>2. /\ ctl.pc = "refresh" /\ ctl.todo # {} /\ ctl' = At("refresh", Rest)
      /\ UNCHANGED <<low, status, provider, override, op, held, failed>>
      /\ exe' = exe
  BY DEF Refresh, tasks
<1>3. p \in Provider /\ Rest \subseteq Provider
  BY <1>1, <1>2, FirstType, PhaseType
<1>4. CtlOK' /\ ctl'.pc = "refresh"
  BY <1>2, <1>3, AtType DEF CtlOK
<1>5. health' \in [Provider -> Health]
  <2>1. exe[p] \in Executable
    BY <1>1, <1>3 DEF HealthOK
  <2>2. /\ exe[p] = "healthy" => health' = [health EXCEPT ![p] = "healthy"]
        /\ exe[p] = "unavailable" => health' = [health EXCEPT ![p] = "unavailable"]
        /\ exe[p] = "degraded" => health' = health
    BY DEF Refresh
  <2> HIDE DEF p
  <2> QED BY <1>1, <2>1, <2>2 DEF HealthOK, Health, Executable
<1>6. \/ UNCHANGED agents
      \/ idle /\ agents[a].state = "unavailable" /\ SetAgent(a, "ready", None)
      \/ idle /\ SetAgent(a, "unavailable", None)
  <2>1. exe[p] \in Executable
    BY <1>1, <1>3 DEF HealthOK
  <2>2. /\ exe[p] = "healthy" =>
             IF idle /\ agents[a].state = "unavailable"
               THEN SetAgent(a, "ready", None) ELSE UNCHANGED agents
        /\ exe[p] = "unavailable" =>
             IF idle THEN SetAgent(a, "unavailable", None) ELSE UNCHANGED agents
        /\ exe[p] = "degraded" => UNCHANGED agents
    BY DEF Refresh
  <2> HIDE DEF p, a, idle
  <2> QED BY <2>1, <2>2 DEF Executable
<1>7. agents' \in [Agent -> AgentRec] /\ \A b \in held : agents'[b] = agents[b]
  <2>1. CASE UNCHANGED agents
    BY <1>1, <2>1 DEF ProfileOK
  <2>2. CASE idle /\ (SetAgent(a, "ready", None) \/ SetAgent(a, "unavailable", None))
    <3>1. a \notin held
      BY <1>1, <2>2 DEF Pauses, KeptPaused
    <3>2. /\ agents' \in [Agent -> AgentRec]
          /\ \A b \in Agent : b # a => agents'[b] = agents[b]
      <4> HIDE DEF a
      <4> QED BY <1>1, <2>2, SetAgentType DEF AgentState
    <3> QED BY <1>1, <3>1, <3>2 DEF ProfileOK
  <2> QED BY <1>6, <2>1, <2>2
<1>8. TypeInv'
  BY <1>1, <1>2, <1>4, <1>5, <1>7 DEF TypeInv, ProfileOK, HealthOK, TasksOK, CmdOK
<1>9. Rests'
  BY <1>1, <1>2, <1>4 DEF Rests, FailureRests
<1>10. Pauses'
  <2>1. \A b \in held : agents[b].task \in Task
    BY <1>1, HeldTask
  <2>2. ctl'.pc \notin {"reconcile", "decide", "starting", "assigned"}
    BY <1>4
  <2>3. UNCHANGED <<held, provider, status>>
    BY <1>2
  <2>4. Pauses /\ \A b \in held : agents'[b] = agents[b]
    BY <1>1, <1>7
  <2>5. \A t \in Task : \/ status'[t] \notin {"running", "decision_required"}
                         \/ status'[t] = status[t]
    BY <2>3
  <2> HIDE DEF p, a, idle
  <2> QED BY <2>1, <2>2, <2>3, <2>4, <2>5, GoesOn
<1>11. Provided'
  BY <1>2, <1>4, ProvidedInv DEF Provided
<1> QED BY <1>8, <1>9, <1>10, <1>11 DEF IInv

LEMMA EndPhaseStep == ASSUME IInv, EndPhase PROVE IInv'
<1>1. ProfileOK /\ HealthOK /\ TasksOK /\ CtlOK /\ CmdOK /\ Rests /\ Pauses
  BY DEF IInv, TypeInv
<1>2. UNCHANGED <<exe, health, agents, low, status, provider, override, op, held, failed>>
  BY DEF EndPhase, tasks
<1> DEFINE asked == {t \in Task : status[t] = "decision_required"}
           waiting == {t \in Task : WaitsForWorker(t)}
<1>3. \/ ctl' = At("reconcile", Running)
      \/ ctl' = At("decide", asked)
      \/ ctl' = [At("launch", waiting) EXCEPT !.slots = Slots]
  BY DEF EndPhase
<1>4. CtlOK' /\ ctl'.pc \in {"reconcile", "decide", "launch"}
      /\ (ctl'.pc = "reconcile" => ctl'.todo = Running)
      /\ (ctl'.pc = "decide" => ctl'.todo = asked)
  <2>1. Running \subseteq Task /\ asked \subseteq Task /\ waiting \subseteq Task
    BY DEF Running
  <2> HIDE DEF asked, waiting
  <2>2. CASE ctl' = At("reconcile", Running)
    BY <2>1, <2>2, AtType DEF CtlOK
  <2>3. CASE ctl' = At("decide", asked)
    BY <2>1, <2>3, AtType DEF CtlOK
  <2>4. CASE ctl' = [At("launch", waiting) EXCEPT !.slots = Slots]
    <3>1. ctl' \in Phases
      BY <2>1, <2>4, AtType, SlotsType
    <3>2. ctl'.pc = "launch"
      BY <2>4, AtType
    <3> QED BY <3>1, <3>2 DEF CtlOK
  <2> QED BY <1>3, <2>2, <2>3, <2>4
<1>5. TypeInv'
  BY <1>1, <1>2, <1>4 DEF TypeInv, ProfileOK, HealthOK, TasksOK, CmdOK
<1>6. Rests'
  BY <1>1, <1>2, <1>4 DEF Rests, FailureRests
<1>7. Pauses'
  BY <1>1, <1>2, <1>4, LeavesAgents DEF Pauses, KeptPaused, Running
<1>8. Provided'
  BY <1>2, <1>4 DEF IInv, Provided, Running
<1> QED BY <1>5, <1>6, <1>7, <1>8 DEF IInv

\* A step of reconcile_processes or of the decisions, on the first task.
LEMMA AtTask ==
  ASSUME IInv, ctl.pc \in {"reconcile", "decide"}, ctl.todo # {},
         ctl' = At(ctl.pc, Rest)
  PROVE  /\ First \in ctl.todo /\ First \in Task
         /\ CtlOK' /\ ctl'.pc = ctl.pc /\ ctl'.todo \subseteq ctl.todo
<1>1. CtlOK
  BY DEF IInv, TypeInv
<1>2. First \in ctl.todo /\ Rest \subseteq ctl.todo /\ ctl.todo \subseteq Task
  BY <1>1, FirstType, PhaseType
<1>3. At(ctl.pc, Rest) \in Phases /\ At(ctl.pc, Rest).pc = ctl.pc
      /\ At(ctl.pc, Rest).todo = Rest
  BY <1>2, AtType
<1> QED BY <1>2, <1>3 DEF CtlOK

LEMMA TakesTask ==
  ASSUME IInv, ctl.pc \in {"reconcile", "decide"}, ctl.todo # {},
         ctl' = At(ctl.pc, Rest), UNCHANGED <<exe, low, provider, override, op, held>>,
         health' \in [Provider -> Health], failed' \subseteq Provider,
         \A p \in failed' : health'[p] # "healthy",
         agents' \in [Agent -> AgentRec], \A a \in held : agents'[a] = agents[a],
         status' \in [Task -> Status],
         \A t \in Task : \/ status'[t] \notin {"running", "decision_required"}
                         \/ status'[t] = status[t]
  PROVE  IInv'
<1>1. ProfileOK /\ HealthOK /\ TasksOK /\ CtlOK /\ CmdOK /\ Rests /\ Pauses
  BY DEF IInv, TypeInv
<1>2. CtlOK' /\ ctl'.pc = ctl.pc /\ ctl'.todo \subseteq ctl.todo
  BY AtTask
<1>3. TypeInv'
  BY <1>1, <1>2 DEF TypeInv, ProfileOK, HealthOK, TasksOK, CmdOK
<1>4. Rests'
  BY <1>1, <1>2 DEF Rests, FailureRests
<1>5. Pauses'
  BY <1>1, <1>2, HeldTask, GoesOn
<1>6. Provided'
  BY <1>2 DEF IInv, Provided
<1> QED BY <1>3, <1>4, <1>5, <1>6 DEF IInv

LEMMA StillRunsStep == ASSUME IInv, StillRuns PROVE IInv'
<1>1. ProfileOK /\ HealthOK /\ TasksOK /\ Rests
  BY DEF IInv, TypeInv
<1>2. ctl.pc = "reconcile" /\ ctl.todo # {} /\ ctl' = At("reconcile", Rest)
      /\ UNCHANGED <<exe, health, agents, low, status, provider, override, op, held, failed>>
  BY DEF StillRuns, tasks
<1> QED BY <1>1, <1>2, TakesTask DEF ProfileOK, HealthOK, TasksOK, Rests

\* record_success, before the agent is given back.
LEMMA SucceedsStep == ASSUME IInv, Succeeds PROVE IInv'
<1> DEFINE t == First
           p == provider[t]
<1>1. ProfileOK /\ HealthOK /\ TasksOK /\ Rests
  BY DEF IInv, TypeInv
<1>2. /\ ctl.pc = "reconcile" /\ ctl.todo # {} /\ ctl' = At("reconcile", Rest)
      /\ UNCHANGED <<exe, low, provider, override, op, held>>
      /\ SetProviderAgentReady(p, t)
      /\ status' = [status EXCEPT ![t] = "review_passed"]
      /\ health' = [health EXCEPT ![p] = "healthy"] /\ failed' = failed \ {p}
  BY DEF Succeeds
<1>3. t \in ctl.todo /\ t \in Task
  BY <1>2, AtTask
<1>4. agents' \in [Agent -> AgentRec] /\ \A a \in held : agents'[a] = agents[a]
  BY <1>2, <1>3, GivesBack
<1> HIDE DEF t, p
<1>5. /\ health' \in [Provider -> Health] /\ failed' \subseteq Provider
      /\ \A q \in failed' : health'[q] # "healthy"
  BY <1>1, <1>2 DEF HealthOK, Health, Rests
<1>6. /\ status' \in [Task -> Status]
      /\ \A u \in Task : \/ status'[u] \notin {"running", "decision_required"}
                         \/ status'[u] = status[u]
  BY <1>1, <1>2 DEF TasksOK, Status
<1> QED BY <1>2, <1>4, <1>5, <1>6, TakesTask

LEMMA HandoffType ==
  ASSUME IInv, ctl.pc \in {"reconcile", "decide"}, NEW t \in ctl.todo, HandoffOrBlock(t)
  PROVE  /\ agents' \in [Agent -> AgentRec] /\ \A a \in held : agents'[a] = agents[a]
         /\ \E s \in {"handoff_needed", "blocked"} : status' = [status EXCEPT ![t] = s]
<1>1. SetProviderAgentReady(provider[t], t)
  BY DEF HandoffOrBlock
<1> QED BY <1>1, GivesBack DEF HandoffOrBlock

LEMMA IsRefusedStep == ASSUME IInv, IsRefused \/ Decide PROVE IInv'
<1>1. ProfileOK /\ HealthOK /\ TasksOK /\ Rests
  BY DEF IInv, TypeInv
<1>2. /\ ctl.pc \in {"reconcile", "decide"} /\ ctl.todo # {} /\ ctl' = At(ctl.pc, Rest)
      /\ UNCHANGED <<exe, health, low, provider, override, op, held, failed>>
  BY DEF IsRefused, Decide
<1>3. First \in ctl.todo
  BY <1>2, AtTask
<1>4. /\ agents' \in [Agent -> AgentRec] /\ \A a \in held : agents'[a] = agents[a]
      /\ \E s \in {"handoff_needed", "blocked"} : status' = [status EXCEPT ![First] = s]
  <2>1. CASE HandoffOrBlock(First)
    BY <1>2, <1>3, <2>1, HandoffType
  <2>2. CASE /\ SetProviderAgentReady(provider[First], First)
             /\ status' = [status EXCEPT ![First] = "blocked"]
    BY <1>2, <1>3, <2>2, GivesBack
  <2>3. CASE /\ status' = [status EXCEPT ![First] = "blocked"]
             /\ UNCHANGED agents
    BY <1>1, <2>3 DEF ProfileOK
  <2> QED BY <2>1, <2>2, <2>3 DEF IsRefused, Decide
<1>5. PICK s \in {"handoff_needed", "blocked"} : status' = [status EXCEPT ![First] = s]
  BY <1>4
<1>6. /\ status' \in [Task -> Status]
      /\ \A u \in Task : \/ status'[u] \notin {"running", "decision_required"}
                         \/ status'[u] = status[u]
  BY <1>1, <1>5 DEF TasksOK, Status
<1> QED BY <1>1, <1>2, <1>4, <1>6, TakesTask DEF HealthOK, Rests

\* A failure asks for a decision on a task that is not the one an agent is
\* paused for, or not under that agent's provider.
LEMMA FailsStep == ASSUME IInv, Fails PROVE IInv'
<1> DEFINE t == First
           p == provider[t]
<1>1. ProfileOK /\ HealthOK /\ TasksOK /\ CmdOK /\ Rests /\ Pauses
  BY DEF IInv, TypeInv
<1>2. /\ ctl.pc = "reconcile" /\ ctl.todo # {} /\ ctl' = At("reconcile", Rest)
      /\ UNCHANGED <<exe, agents, low, provider, override, op, held>>
      /\ \E kind \in {"cooldown", "degraded"} : health' = [health EXCEPT ![p] = kind]
      /\ status' = [status EXCEPT ![t] = "decision_required"]
      /\ failed' = failed \cup {p}
  BY DEF Fails
<1>3. /\ t \in ctl.todo /\ t \in Task
      /\ CtlOK' /\ ctl'.pc = "reconcile" /\ ctl'.todo \subseteq ctl.todo
  BY <1>2, AtTask
<1>4. \A a \in held : provider[agents[a].task] = agents[a].adapter => agents[a].task # t
  BY <1>1, <1>2, <1>3 DEF Pauses, KeptPaused
<1>5. p \in Provider
  BY <1>1, <1>2, <1>3 DEF IInv, Provided, TasksOK
<1> HIDE DEF t, p
<1>6. Pauses'
  <2>1. \A a \in held :
          provider'[agents[a].task] = agents[a].adapter =>
            /\ status'[agents[a].task] \notin {"running", "decision_required"}
            /\ ctl'.pc \in {"reconcile", "decide"} => agents[a].task \notin ctl'.todo
    BY <1>1, <1>2, <1>3, <1>4, HeldTask DEF Pauses, KeptPaused, TasksOK
  <2> QED BY <1>1, <1>2, <1>3, <2>1, LeavesAgents
<1>7. TypeInv'
  BY <1>1, <1>2, <1>3, <1>5 DEF TypeInv, ProfileOK, HealthOK, Health, TasksOK, Status, CmdOK
<1>8. Rests'
  <2>1. \A q \in failed' : health'[q] # "healthy"
    BY <1>1, <1>2, <1>5 DEF HealthOK, Rests
  <2> QED BY <1>3, <2>1 DEF Rests, FailureRests
<1>9. Provided'
  BY <1>1, <1>2, <1>3, ProvidedInv DEF Provided, TasksOK
<1> QED BY <1>6, <1>7, <1>8, <1>9 DEF IInv

-----------------------------------------------------------------------------
(***************************************************************************)
(* The launches                                                            *)
(***************************************************************************)
\* What a launch that is about to begin finds.
LEMMA AtLaunch ==
  ASSUME IInv, Launching
  PROVE  /\ First \in Task /\ Rest \subseteq Task
         /\ ctl.pc = "launch" /\ ctl.slots \in 1 .. Concurrency
         /\ Passed \in Phases /\ Passed.pc = "launch"
         /\ Chosen(First) # None => /\ Chosen(First) \in Provider
                                    /\ health[Chosen(First)] = "healthy"
                                    /\ \A a \in Agent : agents[a].adapter = Chosen(First) =>
                                         agents[a].state \notin {"paused", "unavailable"}
<1>1. CtlOK /\ ctl.pc = "launch" /\ ctl.todo # {} /\ ctl.slots > 0
  BY DEF IInv, TypeInv, Launching
<1>2. /\ First \in Task /\ Rest \subseteq Task
      /\ ctl = [pc |-> "launch", todo |-> ctl.todo, slots |-> ctl.slots]
      /\ ctl.slots \in 0 .. Concurrency
  BY <1>1, FirstType, PhaseType
<1>3. Passed = [pc |-> "launch", todo |-> Rest, slots |-> ctl.slots]
  BY <1>2 DEF Passed
<1>4. Passed \in Phases /\ Passed.pc = "launch"
  BY <1>2, <1>3 DEF Phases
<1>5. Chosen(First) # None => Chosen(First) \in Eligible(agents)
  BY ChosenType
<1>6. ctl.slots \in 1 .. Concurrency
  BY <1>1, <1>2, Constants
<1> QED BY <1>1, <1>2, <1>4, <1>5, <1>6 DEF Eligible

\* A step of the launches that starts no worker.
LEMMA BackToLaunch ==
  ASSUME IInv, ctl' \in Phases, ctl'.pc = "launch",
         UNCHANGED <<exe, health, agents, low, override, op, held, failed>>,
         status' \in [Task -> Status], provider' \in [Task -> Provider \cup {None}],
         NEW t \in Task, status'[t] \in {"blocked", "handoff_needed"},
         \A u \in Task : u # t => status'[u] = status[u] /\ provider'[u] = provider[u]
  PROVE  IInv'
<1>1. ProfileOK /\ HealthOK /\ TasksOK /\ CtlOK /\ CmdOK /\ Rests /\ Pauses
  BY DEF IInv, TypeInv
<1>2. TypeInv'
  BY <1>1 DEF TypeInv, ProfileOK, HealthOK, TasksOK, CtlOK, CmdOK
<1>3. Rests'
  BY <1>1 DEF Rests, FailureRests
<1>4. Provided'
  BY <1>1, ProvidedInv DEF Provided
<1>5. Pauses'
  <2>1. \A a \in held :
          provider'[agents[a].task] = agents[a].adapter =>
            /\ status'[agents[a].task] \notin {"running", "decision_required"}
            /\ ctl'.pc \in {"reconcile", "decide"} => agents[a].task \notin ctl'.todo
    BY <1>1, HeldTask DEF Pauses, KeptPaused
  <2> QED BY <1>1, <2>1, LeavesAgents
<1> QED BY <1>2, <1>3, <1>4, <1>5 DEF IInv

LEMMA NoProviderStep == ASSUME IInv, NoProvider PROVE IInv'
<1>1. TasksOK
  BY DEF IInv, TypeInv
<1>2. First \in Task /\ Passed \in Phases /\ Passed.pc = "launch"
  BY AtLaunch DEF NoProvider
<1>3. /\ status' = [status EXCEPT ![First] = "blocked"] /\ ctl' = Passed
      /\ UNCHANGED <<exe, health, agents, low, provider, override, op, held, failed>>
  BY DEF NoProvider
<1>4. /\ status' \in [Task -> Status] /\ status'[First] = "blocked"
      /\ \A u \in Task : u # First => status'[u] = status[u]
  BY <1>1, <1>2, <1>3 DEF TasksOK, Status
<1> QED BY <1>1, <1>2, <1>3, <1>4, BackToLaunch DEF TasksOK

LEMMA StartFailsStep == ASSUME IInv, StartFails PROVE IInv'
<1>1. TasksOK /\ CtlOK /\ ctl.pc = "starting"
  BY DEF IInv, TypeInv, StartFails
<1>2. ctl \in Starting
  BY <1>1, PhaseType
<1>3. /\ ctl.task \in Task /\ ctl.todo \subseteq Task /\ ctl.slots \in 0 .. Concurrency
  BY <1>2, Constants DEF Starting
<1>4. /\ status' = [status EXCEPT ![ctl.task] = "blocked"]
      /\ ctl' = [At("launch", ctl.todo) EXCEPT !.slots = ctl.slots]
      /\ UNCHANGED <<exe, health, agents, low, provider, override, op, held, failed>>
  BY DEF StartFails
<1>5. ctl' \in Phases /\ ctl'.pc = "launch"
  BY <1>3, <1>4, AtType
<1>6. /\ status' \in [Task -> Status] /\ status'[ctl.task] = "blocked"
      /\ \A u \in Task : u # ctl.task => status'[u] = status[u]
  BY <1>1, <1>3, <1>4 DEF TasksOK, Status
<1> QED BY <1>1, <1>3, <1>4, <1>5, <1>6, BackToLaunch DEF TasksOK

\* The agent is paused with the task in its hands, which waits for a worker;
\* the other paused agents are not the chosen provider's.
LEMMA PauseForQuotaStep == ASSUME IInv, PauseForQuota PROVE IInv'
<1> DEFINE t == First
           p == Chosen(t)
           a == AgentFor(p)
<1>1. ProfileOK /\ HealthOK /\ TasksOK /\ CtlOK /\ CmdOK /\ Rests /\ Pauses
  BY DEF IInv, TypeInv
<1>2. /\ p # None /\ a \in low /\ SetAgent(a, "paused", t)
      /\ status' = [status EXCEPT ![t] = "handoff_needed"]
      /\ provider' = [provider EXCEPT ![t] = p]
      /\ held' = IF agents[a].model = agents[a].adapter THEN held \cup {a} ELSE held
      /\ ctl' = Passed
      /\ UNCHANGED <<exe, health, low, override, op, failed>>
  BY DEF PauseForQuota
<1>3. /\ t \in Task /\ p \in Provider /\ Passed \in Phases /\ Passed.pc = "launch"
      /\ \A b \in Agent : agents[b].adapter = p => agents[b].state \notin {"paused", "unavailable"}
  BY <1>2, AtLaunch DEF PauseForQuota
<1>4. a \in Agent /\ p \in {agents[a].adapter, agents[a].model}
  BY <1>1, <1>2, Constants, AgentForType DEF ProfileOK
<1> HIDE DEF t, p, a
<1>5. PICK u \in Task, q \in Provider, b \in Agent : u = t /\ q = p /\ b = a
  BY <1>3, <1>4
<1>6. /\ agents' \in [Agent -> AgentRec]
      /\ \A c \in Agent : c # b => agents'[c] = agents[c]
      /\ agents'[b].state = "paused" /\ agents'[b].task = u
      /\ agents'[b].adapter = agents[b].adapter /\ agents'[b].model = agents[b].model
  BY <1>1, <1>2, <1>4, <1>5, SetAgentType DEF AgentState
<1>7. /\ status' = [status EXCEPT ![u] = "handoff_needed"]
      /\ provider' = [provider EXCEPT ![u] = q]
      /\ held' = IF agents[b].model = agents[b].adapter THEN held \cup {b} ELSE held
      /\ ctl' \in Phases /\ ctl'.pc = "launch"
      /\ UNCHANGED <<exe, health, low, override, op, failed>>
  BY <1>2, <1>3, <1>5
<1>8. TypeInv'
  BY <1>1, <1>6, <1>7 DEF TypeInv, ProfileOK, HealthOK, TasksOK, Status, CtlOK, CmdOK
<1>9. Rests'
  BY <1>1, <1>7 DEF Rests, FailureRests
<1>10. Provided'
  BY <1>1, <1>7, ProvidedInv DEF Provided, TasksOK
<1>11. Pauses'
  <2>1. agents[b].model = agents[b].adapter => KeptPaused(b)'
    BY <1>1, <1>6, <1>7, Constants DEF KeptPaused, TasksOK
  <2>2. ASSUME NEW c \in held, c # b
        PROVE  KeptPaused(c)'
    <3>1. KeptPaused(c) /\ c \in Agent /\ agents[c].task \in Task
      BY <1>1, <2>2, HeldTask DEF Pauses, ProfileOK
    <3>2. agents'[c] = agents[c]
      BY <1>6, <2>2, <3>1
    <3>3. status'[agents[c].task] = IF agents[c].task = u THEN "handoff_needed"
                                    ELSE status[agents[c].task]
      BY <1>1, <1>7, <3>1 DEF TasksOK
    <3>4. agents[c].task # u => provider'[agents[c].task] = provider[agents[c].task]
      BY <1>1, <1>7, <3>1 DEF TasksOK
    <3> QED BY <1>7, <3>1, <3>2, <3>3, <3>4 DEF KeptPaused
  <2>3. b \in held => agents[b].model = agents[b].adapter
    BY <1>1 DEF Pauses, KeptPaused
  <2> QED BY <1>7, <2>1, <2>2, <2>3 DEF Pauses
<1> QED BY <1>8, <1>9, <1>10, <1>11 DEF IInv

\* A provider is chosen that rests from no failure, and that no agent which is
\* paused works for.
LEMMA StartStep == ASSUME IInv, Start PROVE IInv'
<1> DEFINE p == Chosen(First)
<1>1. ProfileOK /\ HealthOK /\ TasksOK /\ CtlOK /\ CmdOK /\ Rests /\ Pauses
  BY DEF IInv, TypeInv
<1>2. /\ p # None
      /\ ctl' = [pc |-> "starting", todo |-> Rest, slots |-> ctl.slots,
                 task |-> First, provider |-> p]
      /\ UNCHANGED <<exe, health, agents, low, status, provider, override, op, held, failed>>
  BY DEF Start, tasks
<1>3. /\ First \in Task /\ Rest \subseteq Task /\ ctl.slots \in 1 .. Concurrency
      /\ p \in Provider /\ health[p] = "healthy"
      /\ \A b \in Agent : agents[b].adapter = p => agents[b].state \notin {"paused", "unavailable"}
  BY <1>2, AtLaunch DEF Start
<1> HIDE DEF p
<1>4. ctl' \in Starting /\ ctl'.pc = "starting" /\ ctl'.provider = p
  BY <1>2, <1>3 DEF Starting
<1>5. TypeInv'
  BY <1>1, <1>2, <1>4 DEF TypeInv, ProfileOK, HealthOK, TasksOK, CtlOK, CmdOK
<1>6. Rests'
  BY <1>1, <1>2, <1>3, <1>4 DEF Rests, FailureRests
<1>7. Provided'
  BY <1>2, <1>4, ProvidedInv DEF Provided
<1>8. Pauses'
  <2>1. \A a \in held : agents[a].state = "paused" /\ a \in Agent
    BY <1>1 DEF Pauses, KeptPaused, ProfileOK
  <2>2. \A a \in held : provider'[agents[a].task] = agents[a].adapter =>
          status'[agents[a].task] \notin {"running", "decision_required"}
    BY <1>1, <1>2 DEF Pauses, KeptPaused
  <2>3. \A a \in held : ctl'.provider # agents[a].adapter
    BY <1>3, <1>4, <2>1
  <2> QED BY <1>1, <1>2, <1>4, <2>2, <2>3, LeavesAgents
<1> QED BY <1>5, <1>6, <1>7, <1>8 DEF IInv

LEMMA AssignStep == ASSUME IInv, Assign PROVE IInv'
<1> DEFINE a == AgentFor(ctl.provider)
           w == IF a = None THEN None ELSE agents[a].adapter
           m == IF a = None THEN None ELSE agents[a].model
<1>1. ProfileOK /\ HealthOK /\ TasksOK /\ CtlOK /\ CmdOK /\ Rests /\ Pauses
  BY DEF IInv, TypeInv
<1>2. ctl.pc = "starting" /\ ctl \in Starting
  BY <1>1, PhaseType DEF Assign
<1>3. /\ ctl.task \in Task /\ ctl.todo \subseteq Task /\ ctl.slots \in 1 .. Concurrency
      /\ ctl.provider \in Provider
  BY <1>2 DEF Starting
<1>4. /\ status' = [status EXCEPT ![ctl.task] = "running"]
      /\ provider' = [provider EXCEPT ![ctl.task] = ctl.provider]
      /\ ctl' = [pc |-> "assigned", todo |-> ctl.todo, slots |-> ctl.slots - 1,
                 task |-> ctl.task, agent |-> a, adapter |-> w, model |-> m]
      /\ UNCHANGED <<exe, health, agents, low, override, op, held, failed>>
  BY DEF Assign
<1>5. a = None \/ (a \in Agent /\ ctl.provider \in {agents[a].adapter, agents[a].model})
  BY <1>1, AgentForType
<1>11. (a = None /\ w = None /\ m = None) \/ (a \in Agent /\ w \in Provider /\ m \in Provider)
  BY <1>1, <1>5, Constants DEF ProfileOK, AgentRec
<1> HIDE DEF a, w, m
<1>6. ctl' \in Assigned /\ ctl'.pc = "assigned" /\ ctl'.agent = a
  <2>1. ctl.slots - 1 \in 0 .. Concurrency - 1
    BY <1>3, Constants
  <2> QED BY <1>3, <1>4, <1>11, <2>1 DEF Assigned
<1>7. TypeInv'
  <2>1. CtlOK'
    BY <1>3, <1>4, <1>11, <1>6, Constants DEF CtlOK
  <2> QED BY <1>1, <1>3, <1>4, <2>1 DEF TypeInv, ProfileOK, HealthOK, TasksOK, Status, CmdOK
<1>8. Rests'
  BY <1>1, <1>4, <1>6 DEF Rests, FailureRests
<1>9. Provided'
  BY <1>1, <1>3, <1>4, <1>6, Constants, ProvidedInv DEF Provided, TasksOK
<1>10. Pauses'
  <2>1. \A b \in held : /\ agents[b].task \in Task /\ agents[b].adapter # ctl.provider
                        /\ b \in Agent /\ agents[b].model = agents[b].adapter
    BY <1>1, <1>2, HeldTask DEF Pauses, KeptPaused, ProfileOK
  <2>2. \A b \in held : provider'[agents[b].task] = agents[b].adapter =>
          agents[b].task # ctl.task
    BY <1>1, <1>3, <1>4, <2>1 DEF TasksOK
  <2>3. \A b \in held : provider'[agents[b].task] = agents[b].adapter =>
          status'[agents[b].task] \notin {"running", "decision_required"}
    BY <1>1, <1>3, <1>4, <2>1, <2>2 DEF Pauses, KeptPaused, TasksOK
  <2>4. \A b \in held : a # b
    BY <1>5, <2>1, Constants DEF ProfileOK
  <2> QED BY <1>1, <1>4, <1>6, <2>3, <2>4, LeavesAgents
<1> QED BY <1>7, <1>8, <1>9, <1>10 DEF IInv

LEMMA RunStep == ASSUME IInv, Run PROVE IInv'
<1>1. ProfileOK /\ HealthOK /\ TasksOK /\ CtlOK /\ CmdOK /\ Rests /\ Pauses
  BY DEF IInv, TypeInv
<1>2. ctl.pc = "assigned" /\ ctl \in Assigned
  BY <1>1, PhaseType DEF Run
<1>3. /\ ctl.task \in Task /\ ctl.todo \subseteq Task /\ ctl.slots \in 0 .. Concurrency
      /\ ctl.agent = None \/ (ctl.adapter \in Provider /\ ctl.model \in Provider)
  BY <1>1, <1>2, Constants DEF Assigned, CtlOK
<1>4. /\ agents' = [a \in Agent |->
                      IF a = ctl.agent
                        THEN [adapter |-> ctl.adapter, model |-> ctl.model,
                              state |-> "running", task |-> ctl.task]
                        ELSE agents[a]]
      /\ ctl' = [At("launch", ctl.todo) EXCEPT !.slots = ctl.slots]
      /\ UNCHANGED <<exe, health, low, status, provider, override, op, held, failed>>
  BY DEF Run, tasks
<1>5. ctl' \in Phases /\ ctl'.pc = "launch"
  BY <1>3, <1>4, AtType
<1>6. agents' \in [Agent -> AgentRec] /\ \A a \in held : agents'[a] = agents[a]
  <2>1. ctl.agent # None =>
          [adapter |-> ctl.adapter, model |-> ctl.model,
           state |-> "running", task |-> ctl.task] \in AgentRec
    BY <1>3 DEF AgentRec, AgentState
  <2>2. \A a \in held : a # ctl.agent /\ a \in Agent
    BY <1>1, <1>2 DEF Pauses, KeptPaused, ProfileOK
  <2> QED BY <1>1, <1>4, <2>1, <2>2, Constants DEF ProfileOK
<1>7. TypeInv'
  BY <1>1, <1>4, <1>5, <1>6 DEF TypeInv, ProfileOK, HealthOK, TasksOK, CtlOK, CmdOK
<1>8. Rests'
  BY <1>1, <1>4, <1>5 DEF Rests, FailureRests
<1>9. Provided'
  BY <1>4, <1>5, ProvidedInv DEF Provided
<1>10. Pauses'
  <2>1. \A t \in Task : status'[t] = status[t]
    BY <1>4
  <2>2. UNCHANGED <<held, provider>>
    BY <1>4
  <2> QED BY <1>1, <1>5, <1>6, <2>1, <2>2, HeldTask, GoesOn
<1> QED BY <1>7, <1>8, <1>9, <1>10 DEF IInv

LEMMA EndTickStep == ASSUME IInv, EndTick PROVE IInv'
<1>1. ProfileOK /\ HealthOK /\ TasksOK /\ CtlOK /\ CmdOK /\ Rests /\ Pauses
  BY DEF IInv, TypeInv
<1>2. /\ ctl' = At("refresh", Provider) /\ failed' = {}
      /\ UNCHANGED <<exe, health, agents, low, status, provider, override, op, held>>
  BY DEF EndTick, tasks
<1>3. ctl' \in Phases /\ ctl'.pc = "refresh"
  BY <1>2, AtType
<1>4. TypeInv'
  BY <1>1, <1>2, <1>3 DEF TypeInv, ProfileOK, HealthOK, TasksOK, CtlOK, CmdOK
<1>5. Rests'
  BY <1>2, <1>3 DEF Rests, FailureRests
<1>6. Provided'
  BY <1>2, <1>3, ProvidedInv DEF Provided
<1>7. Pauses'
  <2>1. \A t \in Task : status'[t] = status[t]
    BY <1>2
  <2>2. UNCHANGED <<held, provider>> /\ \A a \in held : agents'[a] = agents[a]
    BY <1>2
  <2> QED BY <1>1, <1>3, <2>1, <2>2, HeldTask, GoesOn
<1> QED BY <1>4, <1>5, <1>6, <1>7 DEF IInv

LEMMA TickStep == ASSUME IInv, Tick PROVE IInv'
BY RefreshStep, EndPhaseStep, StillRunsStep, SucceedsStep, IsRefusedStep, FailsStep,
   NoProviderStep, PauseForQuotaStep, StartStep, StartFailsStep, AssignStep, RunStep,
   EndTickStep
DEF Tick

-----------------------------------------------------------------------------
(***************************************************************************)
(* The operator, and what changes by itself                                *)
(***************************************************************************)
\* A step that leaves the controller, the health and the agents alone.
LEMMA Outside ==
  ASSUME IInv, UNCHANGED <<health, agents, provider, ctl, held, failed>>,
         exe' \in [Provider -> Executable], low' \subseteq Agent, CmdOK',
         status' \in [Task -> Status], override' \in [Task -> Provider \cup {None}],
         \A t \in Task : \/ status'[t] \in {"ready", "handoff_needed"}
                         \/ status'[t] = status[t]
  PROVE  IInv'
<1>1. ProfileOK /\ HealthOK /\ TasksOK /\ CtlOK /\ CmdOK /\ Rests /\ Pauses
  BY DEF IInv, TypeInv
<1>2. TypeInv'
  BY <1>1 DEF TypeInv, ProfileOK, HealthOK, TasksOK, CtlOK, CmdOK
<1>3. Rests'
  BY <1>1 DEF Rests, FailureRests
<1>4. Provided'
  BY ProvidedInv DEF Provided
<1>5. Pauses'
  BY <1>1, HeldTask, GoesOn
<1> QED BY <1>2, <1>3, <1>4, <1>5 DEF IInv

LEMMA AgentCommandStep == ASSUME IInv, AgentCommand PROVE IInv'
<1>1. ProfileOK /\ HealthOK /\ TasksOK /\ CtlOK /\ CmdOK /\ Rests /\ Pauses
  BY DEF IInv, TypeInv
<1>2. PICK a \in Agent, p \in Provider, name \in {"pause", "resume", "swap", "mcp_swap"} :
        Read([name |-> name, agent |-> a, to |-> p, profile |-> agents, task |-> None])
  BY DEF AgentCommand
<1>3. CmdOK'
  BY <1>1, <1>2 DEF Read, CmdOK, Commands, ProfileOK
<1>4. UNCHANGED <<exe, health, agents, low, status, provider, override, ctl, held, failed>>
  BY <1>2 DEF Read, tasks
<1> QED BY <1>1, <1>3, <1>4, Outside DEF ProfileOK, HealthOK, TasksOK

LEMMA SwapTaskStep == ASSUME IInv, SwapTask PROVE IInv'
<1> DEFINE t == ActiveTask(op.profile[op.agent])
<1>1. ProfileOK /\ HealthOK /\ TasksOK /\ CtlOK /\ CmdOK /\ Rests /\ Pauses
  BY DEF IInv, TypeInv
<1>2. op.name = "swap" /\ op \in Commands
  BY <1>1 DEF SwapTask, CmdOK, NoCommand
<1>3. t \in Task \cup {None}
  <2> DEFINE agent == op.profile[op.agent]
             its == {u \in Task : /\ provider[u] = agent.adapter
                                  /\ status[u] \in {"running", "handoff_needed"}}
  <2>1. agent \in AgentRec
    BY <1>2 DEF Commands
  <2>2. its # {} => Min(its) \in Task
    BY MinOf, Constants
  <2>3. agent.task \in Task \cup {None}
    BY <2>1 DEF AgentRec
  <2>4. t = CASE agent.task # None -> agent.task
              [] agent.task = None /\ its # {} -> Min(its)
              [] OTHER -> None
    BY DEF ActiveTask
  <2> HIDE DEF agent, its, t
  <2> QED BY <2>2, <2>3, <2>4
<1>4. /\ op' = [op EXCEPT !.name = "swapped", !.task = t]
      /\ status' = [u \in Task |-> IF u = t THEN "handoff_needed" ELSE status[u]]
      /\ override' = [u \in Task |-> IF u = t THEN op.to ELSE override[u]]
      /\ UNCHANGED <<exe, health, agents, low, provider, ctl, held, failed>>
  BY DEF SwapTask
<1> HIDE DEF t
<1>5. CmdOK'
  BY <1>2, <1>3, <1>4 DEF CmdOK, Commands
<1>6. /\ status' \in [Task -> Status] /\ override' \in [Task -> Provider \cup {None}]
      /\ \A u \in Task : \/ status'[u] \in {"ready", "handoff_needed"}
                         \/ status'[u] = status[u]
  BY <1>1, <1>2, <1>4 DEF TasksOK, Status, Commands
<1> QED BY <1>1, <1>4, <1>5, <1>6, Outside DEF ProfileOK, HealthOK

\* The profile that was read is written back: an agent of which it says
\* something else than the file does is not counted as paused any more.
LEMMA WriteProfileStep == ASSUME IInv, WriteProfile PROVE IInv'
<1>1. ProfileOK /\ HealthOK /\ TasksOK /\ CtlOK /\ CmdOK /\ Rests /\ Pauses
  BY DEF IInv, TypeInv
<1>2. /\ op.name \in {"pause", "resume", "mcp_swap", "swapped"}
      /\ agents' = [op.profile EXCEPT ![op.agent] = Updated]
      /\ op' = NoCommand
      /\ low' \in {low, low \ {op.agent}, low \cup {op.agent}}
      /\ held' = {a \in held \ {op.agent} : agents'[a] = agents[a]}
      /\ UNCHANGED <<exe, health, status, provider, override, ctl, failed>>
  BY DEF WriteProfile, tasks
<1>3. op \in Commands
  BY <1>1, <1>2 DEF CmdOK, NoCommand
<1>4. Updated \in AgentRec
  <2>1. /\ op.profile[op.agent] \in AgentRec /\ op.to \in Provider
        /\ op.task \in Task \cup {None}
    BY <1>3 DEF Commands
  <2> QED BY <1>2, <2>1 DEF Updated, AgentRec, AgentState
<1>5. agents' \in [Agent -> AgentRec] /\ op.agent \in Agent
  BY <1>2, <1>3, <1>4 DEF Commands
<1>6. TypeInv'
  BY <1>1, <1>2, <1>5 DEF TypeInv, ProfileOK, HealthOK, TasksOK, CtlOK, CmdOK
<1>7. Rests'
  BY <1>1, <1>2 DEF Rests, FailureRests
<1>8. Provided'
  BY <1>2, ProvidedInv DEF Provided
<1>9. Pauses'
  <2>1. ASSUME NEW a \in held'
        PROVE  KeptPaused(a)'
    <3>1. a \in held /\ agents'[a] = agents[a]
      BY <1>2, <2>1
    <3>2. KeptPaused(a)
      BY <1>1, <3>1 DEF Pauses
    <3> QED BY <1>2, <3>1, <3>2 DEF KeptPaused
  <2> QED BY <2>1 DEF Pauses
<1> QED BY <1>6, <1>7, <1>8, <1>9 DEF IInv

LEMMA RetryStep == ASSUME IInv, NEW t \in Task, Retry(t) PROVE IInv'
<1>1. ProfileOK /\ HealthOK /\ TasksOK /\ CtlOK /\ CmdOK /\ Rests /\ Pauses
  BY DEF IInv, TypeInv
<1>2. PICK p \in Provider \cup {override[t]} : override' = [override EXCEPT ![t] = p]
  BY DEF Retry
<1>3. /\ status' = [status EXCEPT ![t] = "ready"]
      /\ UNCHANGED <<exe, health, agents, low, provider, ctl, op, held, failed>>
  BY DEF Retry
<1>4. /\ status' \in [Task -> Status] /\ override' \in [Task -> Provider \cup {None}]
      /\ \A u \in Task : \/ status'[u] \in {"ready", "handoff_needed"}
                         \/ status'[u] = status[u]
  BY <1>1, <1>2, <1>3 DEF TasksOK, Status
<1> QED BY <1>1, <1>3, <1>4, Outside DEF ProfileOK, HealthOK, CmdOK

LEMMA SetQuotaStep == ASSUME IInv, NEW a \in Agent, SetQuota(a) PROVE IInv'
<1>1. ProfileOK /\ HealthOK /\ TasksOK /\ CmdOK
  BY DEF IInv, TypeInv
<1>2. /\ low' \subseteq low \cup {a}
      /\ UNCHANGED <<exe, health, agents, status, provider, override, ctl, op, held, failed>>
  BY DEF SetQuota, tasks
<1> QED BY <1>1, <1>2, Outside DEF ProfileOK, HealthOK, TasksOK, CmdOK

LEMMA OutageStep == ASSUME IInv, NEW p \in Provider, Outage(p) PROVE IInv'
<1>1. ProfileOK /\ HealthOK /\ TasksOK /\ CmdOK
  BY DEF IInv, TypeInv
<1>2. /\ \E x \in Executable : exe' = [exe EXCEPT ![p] = x]
      /\ UNCHANGED <<health, agents, low, status, provider, override, ctl, op, held, failed>>
  BY DEF Outage, tasks
<1> QED BY <1>1, <1>2, Outside DEF ProfileOK, HealthOK, TasksOK, CmdOK

LEMMA CooldownEndsStep == ASSUME IInv, NEW p \in Provider, CooldownEnds(p) PROVE IInv'
<1>1. ProfileOK /\ HealthOK /\ TasksOK /\ CtlOK /\ CmdOK /\ Rests /\ Pauses
  BY DEF IInv, TypeInv
<1>2. /\ health' = [health EXCEPT ![p] = "healthy"] /\ failed' = failed \ {p}
      /\ UNCHANGED <<exe, agents, low, status, provider, override, ctl, op, held>>
  BY DEF CooldownEnds, tasks
<1>3. TypeInv'
  BY <1>1, <1>2 DEF TypeInv, ProfileOK, HealthOK, Health, TasksOK, CtlOK, CmdOK
<1>4. Rests'
  BY <1>1, <1>2 DEF Rests, FailureRests, HealthOK
<1>5. Provided'
  BY <1>2, ProvidedInv DEF Provided
<1>6. Pauses'
  <2>1. \A t \in Task : status'[t] = status[t]
    BY <1>2
  <2>2. UNCHANGED <<held, provider, ctl>> /\ \A a \in held : agents'[a] = agents[a]
    BY <1>2
  <2> QED BY <1>1, <2>1, <2>2, HeldTask, GoesOn
<1> QED BY <1>3, <1>4, <1>5, <1>6 DEF IInv

-----------------------------------------------------------------------------
LEMMA InitInv == Init => IInv
<1> SUFFICES ASSUME Init PROVE IInv
  OBVIOUS
<1>1. ProfileOK
  <2>1. Default \in [Agent -> AgentRec]
    BY Constants DEF Default, AgentRec, AgentState
  <2>2. Swapped \in [Agent -> AgentRec]
    <3>1. NProviders \in Agent /\ 1 \in Provider
      BY Constants DEF Agent
    <3> QED BY <2>1, <3>1 DEF Swapped, AgentRec
  <2>3. low \subseteq Agent /\ held = {}
    BY Constants DEF Init
  <2> QED BY <2>1, <2>2, <2>3 DEF Init, ProfileOK
<1>2. HealthOK /\ TasksOK /\ CmdOK
  BY DEF Init, HealthOK, Executable, Health, TasksOK, Status, CmdOK
<1>3. ctl \in Phases /\ ctl.pc = "refresh"
  BY AtType DEF Init
<1>4. CtlOK
  BY <1>3 DEF CtlOK
<1>5. Rests /\ Provided /\ Pauses
  BY <1>3 DEF Init, Rests, FailureRests, Provided, Pauses
<1> QED BY <1>1, <1>2, <1>4, <1>5 DEF IInv, TypeInv

LEMMA NextInv == ASSUME IInv, [Next]_vars PROVE IInv'
<1>1. CASE Tick
  BY <1>1, TickStep
<1>2. CASE Operator
  BY <1>2, AgentCommandStep, SwapTaskStep, WriteProfileStep, RetryStep, SetQuotaStep
  DEF Operator
<1>3. CASE \E p \in Provider : Outage(p) \/ CooldownEnds(p)
  BY <1>3, OutageStep, CooldownEndsStep
<1>4. CASE UNCHANGED vars
  <2>1. ProfileOK /\ HealthOK /\ TasksOK /\ CmdOK
    BY DEF IInv, TypeInv
  <2>2. /\ UNCHANGED <<exe, health, agents, low, status, provider, override, ctl, op>>
        /\ UNCHANGED <<held, failed>>
    BY <1>4 DEF vars, tasks
  <2> QED BY <2>1, <2>2, Outside DEF ProfileOK, HealthOK, TasksOK, CmdOK
<1> QED BY <1>1, <1>2, <1>3, <1>4 DEF Next

LEMMA Invariance == Spec => []IInv
<1>1. Init => IInv
  BY InitInv
<1>2. IInv /\ [Next]_vars => IInv'
  BY NextInv
<1> QED BY <1>1, <1>2, PTL DEF Spec

\* Providers, agents and tasks are recorded as such, and a launch under way
\* has a provider and a slot: whatever profile a command writes back.
THEOREM TypeCorrect == Spec => []TypeOK
<1>1. IInv => TypeOK
  BY TypeInvSuffices DEF IInv
<1> QED BY <1>1, Invariance, PTL

\* A provider that failed gets no task in the same tick, unless another of its
\* tasks has succeeded or its time is up: with any number of providers.
THEOREM FailedProvidersRest == Spec => []FailureRests
<1>1. IInv => FailureRests
  BY DEF IInv, Rests
<1> QED BY <1>1, Invariance, PTL

\* A step of the tick adds to the agents paused for their quota, and after it
\* they are paused.
LEMMA TickKeepsPauses ==
  ASSUME IInv, Tick
  PROVE  \A a \in held : agents'[a].state = "paused"
<1>1. Pauses'
  BY TickStep DEF IInv
<1>2. held \subseteq held'
  BY DEF Tick, Refresh, EndPhase, StillRuns, Succeeds, IsRefused, Fails, Decide,
         NoProvider, PauseForQuota, Start, StartFails, Assign, Run, EndTick
<1> QED BY <1>1, <1>2 DEF Pauses, KeptPaused

\* The controller never ends a pause that it made for the quota of an agent whose
\* model is its adapter's: no success, no refusal, no outage and no launch resumes
\* it, however many commands write the profile in between, also those after which
\* _agent_for_provider finds some agents by their model.
THEOREM QuotaPausesLast == Spec => QuotaPauseKept
<1>1. IInv /\ [Next]_vars => [Tick => \A a \in held : agents'[a].state = "paused"]_vars
  BY TickKeepsPauses
<1> QED BY <1>1, Invariance, PTL DEF Spec, QuotaPauseKept
==============================================================================
