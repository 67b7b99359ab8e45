--------------------------- MODULE SupervisorProofs ---------------------------
(***************************************************************************)
(* That the decision supervisor passes over no event it has not looked at  *)
(* and ends each wait once, for any tasks and any number of events, kills  *)
(* and retries.                                                            *)
(***************************************************************************)
EXTENDS Supervisor, TLAPS

(***************************************************************************)
(* The inductive invariant.  Within a scan all events before the index     *)
(* have been looked at; a task that waits has not been answered since it   *)
(* was last moved to the waiting status, and once the supervisor acts on   *)
(* an event nobody else can answer its task.                               *)
(***************************************************************************)
HistoryOK == looked \in Nat /\ open \subseteq Tasks

ScanIsSeen ==
  /\ sup.pc = "scanning" => sup.index <= looked + 1
  /\ sup.pc \in {"acting", "acted"} => sup.index <= looked /\ sup.index <= sup.length

WaitsAreOpen == \A t \in Tasks : Waits(t) => t \in open

ActsOnOpen == sup.pc = "acting" => Observed.task \in open

IInv == TypeOK /\ HistoryOK /\ NoneUnseen /\ ScanIsSeen /\ WaitsAreOpen /\ ActsOnOpen

\* Only "scanning", "acting" and "acted" have a length and an index.
LEMMA SupFields ==
  ASSUME TypeOK, sup.pc \in {"scanning", "acting", "acted"}
  PROVE  /\ sup = [pc |-> sup.pc, length |-> sup.length, index |-> sup.index]
         /\ sup.length \in 1 .. Len(events)
         /\ sup.index \in 1 .. Len(events) + 1
         /\ Len(events) \in Nat
BY DEF TypeOK

\* What transition_task keeps, whoever calls it.
LEMMA TransitionStep ==
  ASSUME IInv, NEW t \in Tasks, NEW new \in Statuses, Transition(t, new)
  PROVE  /\ status' \in [Tasks -> Statuses]
         /\ open \subseteq open'
         /\ open' \subseteq Tasks
         /\ WaitsAreOpen'
BY DEF IInv, TypeOK, HistoryOK, WaitsAreOpen, Waits, Transition

\* A step that leaves the supervisor alone, and only adds to the events and to
\* the tasks that wait.
LEMMA OthersStep ==
  ASSUME IInv, UNCHANGED <<cursor, sup, looked>>,
         events' = events \/ \E e \in Event : events' = Append(events, e),
         open \subseteq open', open' \subseteq Tasks
  PROVE  /\ events' \in Seq(Event)
         /\ cursor' \in 0 .. Len(events')
         /\ sup' \in [pc : {"idle", "dead"}]
                     \cup [pc : {"scanning", "acting", "acted"},
                           length : 1 .. Len(events'), index : 1 .. Len(events') + 1]
         /\ HistoryOK' /\ NoneUnseen' /\ ScanIsSeen' /\ ActsOnOpen'
<1>1. events \in Seq(Event) /\ Len(events) \in Nat
  BY DEF IInv, TypeOK
<1>2. /\ events' \in Seq(Event)
      /\ Len(events') \in Nat /\ Len(events') >= Len(events)
      /\ \A i \in 1 .. Len(events) : events'[i] = events[i]
  BY <1>1
<1>3. cursor' \in 0 .. Len(events')
  BY <1>1, <1>2 DEF IInv, TypeOK
<1>4. sup' \in [pc : {"idle", "dead"}]
               \cup [pc : {"scanning", "acting", "acted"},
                     length : 1 .. Len(events'), index : 1 .. Len(events') + 1]
  <2>1. 1 .. Len(events) \subseteq 1 .. Len(events')
    BY <1>2, <1>1
  <2>2. 1 .. Len(events) + 1 \subseteq 1 .. Len(events') + 1
    BY <1>2, <1>1
  <2> QED BY <2>1, <2>2 DEF IInv, TypeOK
<1>5. HistoryOK' /\ NoneUnseen' /\ ScanIsSeen'
  BY DEF IInv, HistoryOK, NoneUnseen, ScanIsSeen
<1>6. ActsOnOpen'
  <2> SUFFICES ASSUME sup.pc = "acting" PROVE events'[sup.index].task \in open'
    BY DEF ActsOnOpen, Observed
  <2>1. sup.index \in 1 .. Len(events)
    BY SupFields DEF IInv, ScanIsSeen
  <2>2. events[sup.index].task \in open
    BY DEF IInv, ActsOnOpen, Observed
  <2> QED BY <2>1, <2>2, <1>2
<1> QED BY <1>2, <1>3, <1>4, <1>5, <1>6

LEMMA InitInv == Init => IInv
<1> SUFFICES ASSUME Init PROVE IInv
  OBVIOUS
<1> USE DEF Init
<1>1. TypeOK
  BY DEF TypeOK, Statuses, Active, NotBusy, Sleeping
<1>2. HistoryOK /\ NoneUnseen /\ ScanIsSeen /\ ActsOnOpen
  BY DEF HistoryOK, NoneUnseen, ScanIsSeen, ActsOnOpen, Sleeping
<1>3. WaitsAreOpen
  BY DEF WaitsAreOpen, Waits
<1> QED BY <1>1, <1>2, <1>3 DEF IInv

\* The controller, the workers and the user: each moves one task at most.
LEMMA TasksStep ==
  ASSUME IInv,
         \/ Controls
         \/ KillController
         \/ \E t \in Tasks : KillAtLaunch(t) \/ WorkerEnds(t) \/ Retry(t)
  PROVE  IInv'
<1>1. TypeOK
  BY DEF IInv
<1> DEFINE Moves == \E t \in Tasks, new \in Statuses : Transition(t, new)
           Stays == UNCHANGED <<status, open>>
           Works == /\ work' \in [Tasks -> {"untouched", "clean", "dirty"}]
                    /\ process' \in [Tasks -> {"none", "alive", "dead"}]
                    /\ result' \in [Tasks -> BOOLEAN]
                    /\ ctl' \in [pc : {"idle"}] \cup [pc : {"hydrating", "asking"}, task : Tasks]
           Adds == events' = events \/ \E e \in Event : events' = Append(events, e)
           Others == UNCHANGED <<cursor, sup, looked>>
<1>2. (Moves \/ Stays) /\ Works /\ Adds /\ Others
  <2>1. ASSUME NEW t \in Tasks, Hydrate(t)
        PROVE  (Moves \/ Stays) /\ Works /\ Adds /\ Others
    BY <1>1, <2>1 DEF Hydrate, TypeOK, tasks, history
  <2>2. ASSUME NEW t \in Tasks, MissingRecord(t)
        PROVE  (Moves \/ Stays) /\ Works /\ Adds /\ Others
    BY <1>1, <2>2 DEF MissingRecord, TypeOK, Statuses
  <2>3. ASSUME NEW t \in Tasks, Reconcile(t)
        PROVE  (Moves \/ Stays) /\ Works /\ Adds /\ Others
    BY <1>1, <2>3 DEF Reconcile, TypeOK, Statuses
  <2>4. ASSUME NEW t \in Tasks, RequireDecision(t)
        PROVE  (Moves \/ Stays) /\ Works /\ Adds /\ Others
    <3>1. PICK kind \in Kinds : events' = Append(events, [task |-> t, kind |-> kind])
      BY <2>4 DEF RequireDecision
    <3>2. [task |-> t, kind |-> kind] \in Event
      BY DEF Event
    <3> QED BY <1>1, <2>4, <3>1, <3>2 DEF RequireDecision, TypeOK, tasks, history
  <2>5. ASSUME NEW t \in Tasks, Launch(t)
        PROVE  (Moves \/ Stays) /\ Works /\ Adds /\ Others
    <3>1. Moves
      BY <2>5 DEF Launch, Statuses, Active
    <3>2. process' \in [Tasks -> {"none", "alive", "dead"}]
      BY <1>1, <2>5 DEF Launch, TypeOK
    <3> QED BY <1>1, <2>5, <3>1, <3>2 DEF Launch, TypeOK
  <2>6. ASSUME HydrateSave PROVE (Moves \/ Stays) /\ Works /\ Adds /\ Others
    <3>1. ctl.task \in Tasks
      BY <1>1, <2>6 DEF HydrateSave, TypeOK
    <3> QED BY <1>1, <2>6, <3>1 DEF HydrateSave, TypeOK, Statuses, NotBusy
  <2>7. ASSUME RequireDecisionSave PROVE (Moves \/ Stays) /\ Works /\ Adds /\ Others
    <3>1. ctl.task \in Tasks
      BY <1>1, <2>7 DEF RequireDecisionSave, TypeOK
    <3> QED BY <1>1, <2>7, <3>1 DEF RequireDecisionSave, TypeOK, Statuses, NotBusy
  <2>8. ASSUME KillController PROVE (Moves \/ Stays) /\ Works /\ Adds /\ Others
    BY <1>1, <2>8 DEF KillController, TypeOK, tasks, history, NotBusy
  <2>9. ASSUME NEW t \in Tasks, KillAtLaunch(t)
        PROVE  (Moves \/ Stays) /\ Works /\ Adds /\ Others
    BY <1>1, <2>9 DEF KillAtLaunch, TypeOK, Statuses, Active
  <2>10. ASSUME NEW t \in Tasks, WorkerEnds(t)
         PROVE  (Moves \/ Stays) /\ Works /\ Adds /\ Others
    <3>1. PICK left \in {"untouched", "clean", "dirty"}, written \in BOOLEAN :
            /\ work' = [work EXCEPT ![t] = left]
            /\ result' = [result EXCEPT ![t] = @ \/ written]
      BY <2>10 DEF WorkerEnds
    <3>2. result' \in [Tasks -> BOOLEAN]
      BY <1>1, <3>1 DEF TypeOK
    <3>3. work' \in [Tasks -> {"untouched", "clean", "dirty"}]
      BY <1>1, <3>1 DEF TypeOK
    <3> QED BY <1>1, <2>10, <3>2, <3>3 DEF WorkerEnds, TypeOK, history
  <2>11. ASSUME NEW t \in Tasks, Retry(t)
         PROVE  (Moves \/ Stays) /\ Works /\ Adds /\ Others
    BY <1>1, <2>11 DEF Retry, TypeOK, Statuses
  <2> QED
    BY <2>1, <2>2, <2>3, <2>4, <2>5, <2>6, <2>7, <2>8, <2>9, <2>10, <2>11
    DEF Controls
<1>3. /\ status' \in [Tasks -> Statuses]
      /\ open \subseteq open' /\ open' \subseteq Tasks
      /\ WaitsAreOpen'
  <2>1. CASE Moves
    BY <2>1, TransitionStep
  <2>2. CASE Stays
    BY <2>2 DEF IInv, TypeOK, HistoryOK, WaitsAreOpen, Waits
  <2> QED BY <1>2, <2>1, <2>2
<1>4. Adds /\ Others
  BY <1>2
<1>5. /\ events' \in Seq(Event)
      /\ cursor' \in 0 .. Len(events')
      /\ sup' \in [pc : {"idle", "dead"}]
                  \cup [pc : {"scanning", "acting", "acted"},
                        length : 1 .. Len(events'), index : 1 .. Len(events') + 1]
      /\ HistoryOK' /\ NoneUnseen' /\ ScanIsSeen' /\ ActsOnOpen'
  BY <1>3, <1>4, OthersStep
<1>6. TypeOK'
  BY <1>2, <1>3, <1>5 DEF TypeOK
<1> QED BY <1>3, <1>5, <1>6 DEF IInv

\* What a step of the supervisor other than Act leaves as it was.
LEMMA SupervisorStep ==
  ASSUME IInv, UNCHANGED <<tasks, events, ctl, open>>,
         cursor' \in 0 .. Len(events), looked' \in Nat,
         sup' \in [pc : {"idle", "dead"}]
                  \cup [pc : {"scanning", "acting", "acted"},
                        length : 1 .. Len(events), index : 1 .. Len(events) + 1],
         NoneUnseen', ScanIsSeen', ActsOnOpen'
  PROVE  IInv'
<1>1. TypeOK'
  BY DEF IInv, TypeOK, tasks
<1>2. HistoryOK'
  BY DEF IInv, HistoryOK
<1>3. WaitsAreOpen'
  BY DEF IInv, WaitsAreOpen, Waits, tasks
<1> QED BY <1>1, <1>2, <1>3 DEF IInv

LEMMA ReadStep == ASSUME IInv, Read PROVE IInv'
<1>1. Len(events) \in Nat /\ cursor \in 0 .. Len(events) /\ cursor < Len(events)
  BY DEF IInv, TypeOK, Read
<1>2. sup' = [pc |-> "scanning", length |-> Len(events), index |-> cursor + 1]
  BY DEF Read
<1>3. /\ UNCHANGED <<tasks, events, ctl, open>>
      /\ UNCHANGED cursor /\ UNCHANGED looked
  BY DEF Read, history
<1>4. /\ Len(events) \in 1 .. Len(events)
      /\ cursor + 1 \in 1 .. Len(events) + 1
  BY <1>1
<1>5. sup' \in [pc : {"scanning", "acting", "acted"},
                length : 1 .. Len(events), index : 1 .. Len(events) + 1]
  BY <1>2, <1>4
<1>6. NoneUnseen' /\ ScanIsSeen' /\ ActsOnOpen'
  BY <1>1, <1>2, <1>3 DEF IInv, NoneUnseen, ScanIsSeen, ActsOnOpen, HistoryOK
<1>7. cursor' \in 0 .. Len(events) /\ looked' \in Nat
  BY <1>1, <1>3 DEF IInv, HistoryOK
<1> QED BY <1>3, <1>5, <1>6, <1>7, SupervisorStep

LEMMA LookAtStep == ASSUME IInv, LookAt PROVE IInv'
<1>1. /\ sup = [pc |-> "scanning", length |-> sup.length, index |-> sup.index]
      /\ sup.length \in 1 .. Len(events)
      /\ sup.index \in 1 .. Len(events) + 1
      /\ Len(events) \in Nat
      /\ sup.index <= sup.length
      /\ looked \in Nat
  BY SupFields DEF IInv, LookAt, HistoryOK
<1>2. /\ UNCHANGED <<tasks, events, ctl, open>> /\ UNCHANGED cursor
      /\ looked' = IF sup.index > looked THEN sup.index ELSE looked
  BY DEF LookAt
<1>3. looked' \in Nat /\ looked' >= looked /\ sup.index <= looked'
  BY <1>1, <1>2
<1>4. cursor' \in 0 .. Len(events) /\ NoneUnseen'
  BY <1>1, <1>2, <1>3 DEF IInv, TypeOK, NoneUnseen
<1>5. CASE Waits(Observed.task)
  <2>1. sup' = [pc |-> "acting", length |-> sup.length, index |-> sup.index]
    BY <1>1, <1>5 DEF LookAt
  <2>2. sup' \in [pc : {"scanning", "acting", "acted"},
                  length : 1 .. Len(events), index : 1 .. Len(events) + 1]
    BY <1>1, <2>1
  <2>3. events[sup.index].task \in Tasks
    <3>1. sup.index \in 1 .. Len(events) /\ events \in Seq(Event)
      BY <1>1 DEF IInv, TypeOK
    <3>2. events[sup.index] \in Event
      BY <3>1
    <3> QED BY <3>2 DEF Event
  <2>4. Observed.task \in open
    BY <1>5, <2>3 DEF IInv, WaitsAreOpen, Observed
  <2>5. ScanIsSeen' /\ ActsOnOpen'
    BY <1>1, <1>2, <1>3, <2>1, <2>4 DEF ScanIsSeen, ActsOnOpen, Observed
  <2> QED BY <1>2, <1>3, <1>4, <2>2, <2>5, SupervisorStep
<1>6. CASE ~Waits(Observed.task)
  <2>1. sup' = [pc |-> "scanning", length |-> sup.length, index |-> sup.index + 1]
    BY <1>1, <1>6 DEF LookAt
  <2>2. sup.index + 1 \in 1 .. Len(events) + 1
    BY <1>1
  <2>3. sup' \in [pc : {"scanning", "acting", "acted"},
                  length : 1 .. Len(events), index : 1 .. Len(events) + 1]
    BY <1>1, <2>1, <2>2
  <2>4. ScanIsSeen' /\ ActsOnOpen'
    BY <1>1, <1>3, <2>1 DEF ScanIsSeen, ActsOnOpen
  <2> QED BY <1>2, <1>3, <1>4, <2>3, <2>4, SupervisorStep
<1> QED BY <1>5, <1>6

LEMMA ActStep == ASSUME IInv, Act PROVE IInv'
<1>1. /\ sup = [pc |-> "acting", length |-> sup.length, index |-> sup.index]
      /\ sup.length \in 1 .. Len(events)
      /\ sup.index \in 1 .. Len(events) + 1
      /\ Len(events) \in Nat
      /\ sup.index <= sup.length
  BY SupFields DEF IInv, Act, ScanIsSeen
<1>2. events[sup.index] \in Event
  BY <1>1 DEF IInv, TypeOK
<1>3. Observed.task \in Tasks /\ Observed.kind \in Kinds
  BY <1>2 DEF Event, Observed
<1>4. Choice(Observed.kind) \in Statuses \ {"decision_required"}
  BY <1>3 DEF Choice, Kinds, Statuses, Active
<1>5. status' \in [Tasks -> Statuses] /\ WaitsAreOpen'
  <2>1. status' = [status EXCEPT ![Observed.task] = Choice(Observed.kind)]
        /\ open' = open \ {Observed.task}
    BY DEF Act
  <2> QED BY <1>3, <1>4, <2>1 DEF IInv, TypeOK, WaitsAreOpen, Waits
<1>6. result' \in [Tasks -> BOOLEAN]
  BY DEF Act, IInv, TypeOK
<1>7. sup' = [pc |-> "acted", length |-> sup.length, index |-> sup.index]
  BY <1>1 DEF Act
<1>8. sup' \in [pc : {"scanning", "acting", "acted"},
                length : 1 .. Len(events), index : 1 .. Len(events) + 1]
  BY <1>1, <1>7
<1>9. UNCHANGED <<work, process, events, ctl, cursor, looked>>
  BY DEF Act
<1>10. TypeOK'
  BY <1>5, <1>6, <1>8, <1>9 DEF IInv, TypeOK
<1>11. HistoryOK' /\ NoneUnseen'
  BY <1>9 DEF Act, IInv, HistoryOK, NoneUnseen
<1>12. ScanIsSeen' /\ ActsOnOpen'
  BY <1>1, <1>7, <1>9 DEF IInv, ScanIsSeen, ActsOnOpen
<1> QED BY <1>5, <1>10, <1>11, <1>12 DEF IInv

LEMMA SaveCursorStep == ASSUME IInv, SaveCursor PROVE IInv'
<1>1. /\ sup = [pc |-> "acted", length |-> sup.length, index |-> sup.index]
      /\ sup.length \in 1 .. Len(events)
      /\ sup.index \in 1 .. Len(events) + 1
      /\ Len(events) \in Nat
      /\ sup.index <= sup.length /\ sup.index <= looked
      /\ looked \in Nat
  BY SupFields DEF IInv, SaveCursor, ScanIsSeen, HistoryOK
<1>2. sup' = [pc |-> "scanning", length |-> sup.length, index |-> sup.index + 1]
  BY <1>1 DEF SaveCursor
<1>3. sup.index + 1 \in 1 .. Len(events) + 1 /\ sup.index \in 0 .. Len(events)
  BY <1>1
<1>4. sup' \in [pc : {"scanning", "acting", "acted"},
                length : 1 .. Len(events), index : 1 .. Len(events) + 1]
  BY <1>1, <1>2, <1>3
<1>5. /\ UNCHANGED <<tasks, events, ctl, open>> /\ UNCHANGED looked
      /\ cursor' = sup.index
  BY DEF SaveCursor, history
<1>6. NoneUnseen' /\ ScanIsSeen' /\ ActsOnOpen'
  BY <1>1, <1>2, <1>5 DEF NoneUnseen, ScanIsSeen, ActsOnOpen
<1> QED BY <1>1, <1>3, <1>4, <1>5, <1>6, SupervisorStep

LEMMA SleepStep == ASSUME IInv, Sleep PROVE IInv'
<1>1. /\ sup.length \in 1 .. Len(events)
      /\ sup.index \in 1 .. Len(events) + 1
      /\ Len(events) \in Nat
      /\ sup.index > sup.length /\ sup.index <= looked + 1
      /\ looked \in Nat
  BY SupFields DEF IInv, Sleep, Scanned, ScanIsSeen, HistoryOK
<1>2. /\ UNCHANGED <<tasks, events, ctl, open>> /\ UNCHANGED looked
      /\ cursor' = sup.length /\ sup' = [pc |-> "idle"]
  BY DEF Sleep, history, Sleeping
<1>3. cursor' \in 0 .. Len(events) /\ looked' \in Nat
  BY <1>1, <1>2
<1>4. sup' \in [pc : {"idle", "dead"}]
  BY <1>2
<1>5. NoneUnseen' /\ ScanIsSeen' /\ ActsOnOpen'
  BY <1>1, <1>2 DEF NoneUnseen, ScanIsSeen, ActsOnOpen
<1> QED BY <1>2, <1>3, <1>4, <1>5, SupervisorStep

\* The supervisor stops, ends or is killed, and its cursor stays.
LEMMA EndsStep == ASSUME IInv, Die \/ Return \/ KillSupervisor PROVE IInv'
<1>1. /\ UNCHANGED <<tasks, events, ctl, open>>
      /\ UNCHANGED cursor /\ UNCHANGED looked
      /\ sup' \in [pc : {"idle", "dead"}]
  BY DEF Die, Return, KillSupervisor, history, Sleeping
<1>2. cursor' \in 0 .. Len(events) /\ looked' \in Nat /\ NoneUnseen'
  BY <1>1 DEF IInv, TypeOK, HistoryOK, NoneUnseen
<1>3. ScanIsSeen' /\ ActsOnOpen'
  BY <1>1 DEF ScanIsSeen, ActsOnOpen
<1> QED BY <1>1, <1>2, <1>3, SupervisorStep

LEMMA NextInv == ASSUME IInv, [Next]_vars PROVE IInv'
<1>1. CASE Controls
  BY <1>1, TasksStep
<1>2. CASE Supervises
  BY <1>2, ReadStep, LookAtStep, ActStep, EndsStep, SaveCursorStep, SleepStep
  DEF Supervises
<1>3. CASE Return
  BY <1>3, EndsStep
<1>4. CASE Kill
  BY <1>4, TasksStep, EndsStep DEF Kill
<1>5. CASE \E t \in Tasks : WorkerEnds(t) \/ Retry(t)
  BY <1>5, TasksStep
<1>6. CASE UNCHANGED vars
  BY <1>6, SupervisorStep
  DEF vars, tasks, history, IInv, TypeOK, HistoryOK, NoneUnseen, ScanIsSeen,
      ActsOnOpen, Observed
<1> QED BY <1>1, <1>2, <1>3, <1>4, <1>5, <1>6 DEF Next

LEMMA Invariance == Spec => []IInv
<1>1. Init => IInv
  BY InitInv
<1>2. IInv /\ [Next]_vars => IInv'
  BY NextInv
<1> QED BY <1>1, <1>2, PTL DEF Spec

\* The files and both processes' memories hold what the code puts there.
THEOREM TypeCorrect == Spec => []TypeOK
<1>1. IInv => TypeOK
  BY DEF IInv
<1> QED BY <1>1, Invariance, PTL

\* state.json never points past a decision_required event that cmd_hermes_supervisor
\* has not read, whatever is killed and whenever.
THEOREM Unseen == Spec => []NoneUnseen
<1>1. IInv => NoneUnseen
  BY DEF IInv
<1> QED BY <1>1, Invariance, PTL

\* A repeated or an old event does not make cmd_hermes_supervisor act on a wait
\* that it has ended already.
THEOREM Once == Spec => AnsweredOnce
<1>1. IInv /\ [Next]_vars
      => [sup.pc = "acting" /\ sup'.pc = "acted" => Observed.task \in open]_vars
  BY DEF IInv, ActsOnOpen
<1> QED BY <1>1, Invariance, PTL DEF Spec, AnsweredOnce
===============================================================================
