--------------------------- MODULE TaskStoreProofs ---------------------------
(***************************************************************************)
(* Proofs about TaskStore, for any number of processes, killed or not, and *)
(* any tasks, statuses and bounds: the types, what a save may change, and  *)
(* where the events explain the file.                                      *)
(***************************************************************************)
EXTENDS TaskStore, TLAPS, WellFoundedInduction

-----------------------------------------------------------------------------
(***************************************************************************)
(* Types                                                                   *)
(***************************************************************************)
LEMMA NothingIsLocal == Nothing \in Local
  <1>1. (CHOOSE t \in Tasks : TRUE) \in Tasks
    BY ConstantsAssumption
  <1>2. [t \in Tasks |-> Absent] \in File
    BY DEF File
  <1> QED
    BY <1>1, <1>2, ConstantsAssumption DEF Nothing, Local

\* A step that gives one writer a new state in Local keeps the type of all.
LEMMA BecomeType ==
  ASSUME writer \in [Writers -> Local],
         NEW w \in Writers, NEW local \in Local, Become(w, local)
  PROVE  writer' \in [Writers -> Local]
  BY DEF Become

\* A step that gives one writer copies and notes what they miss.
LEMMA BehindType ==
  ASSUME behind \in [Writers -> SUBSET Tasks],
         NEW w \in Writers, NEW missed \in SUBSET Tasks, Behind(w, missed)
  PROVE  behind' \in [Writers -> SUBSET Tasks]
  BY DEF Behind

LEMMA TypeInit == Init => TypeOK
  BY NothingIsLocal DEF Init, TypeOK, File

LEMMA TypeStep == TypeOK /\ [Next]_vars => TypeOK'
  <1> SUFFICES ASSUME TypeOK, [Next]_vars
               PROVE  TypeOK'
    OBVIOUS
  <1> USE NothingIsLocal DEF history
  <1>1. ASSUME NEW w \in Writers, NEW t \in Tasks, Hold(w, t)
        PROVE  TypeOK'
    <2>1. [Nothing EXCEPT !.pc = "holding", !.task = t, !.old = tasks[t]] \in Local
      BY <1>1 DEF TypeOK, File, Local
    <2> QED
      BY <1>1, <2>1, BecomeType DEF Hold, TypeOK
  <1>2. ASSUME NEW w \in Writers, NEW t \in Tasks, EnsureTask(w, t)
        PROVE  TypeOK'
    <2>1. [Nothing EXCEPT !.pc = "loaded", !.task = t, !.load = tasks] \in Local
      BY <1>2 DEF TypeOK, Local
    <2> QED
      BY <1>2, <2>1, BecomeType DEF EnsureTask, TypeOK
  <1>3. ASSUME NEW w \in Writers, NEW status \in Statuses, Transition(w, status)
        PROVE  TypeOK'
    <2>1. [writer[w] EXCEPT !.pc = "loaded", !.new = status, !.load = tasks]
            \in Local
      BY <1>3 DEF TypeOK, Local
    <2> QED
      BY <1>3, <2>1, BecomeType, BehindType DEF Transition, TypeOK
  <1>4. ASSUME NEW w \in Writers, Release(w)
        PROVE  TypeOK'
    BY <1>4, BecomeType, BehindType DEF Release, TypeOK
  <1>5. ASSUME NEW w \in Writers, SaveTasks(w)
        PROVE  TypeOK'
    <2>1. [writer[w] EXCEPT !.pc = "saved", !.load = Nothing.load] \in Local
      BY <1>5 DEF TypeOK, Local
    <2>2. tasks' \in File
      BY <1>5 DEF SaveTasks, TypeOK, Local, File
    <2>3. behind' \in [Writers -> SUBSET Tasks] /\ raced' \subseteq Tasks
      BY <1>5 DEF SaveTasks, Overtake, TypeOK
    <2> QED
      BY <1>5, <2>1, <2>2, <2>3, BecomeType DEF SaveTasks, TypeOK
  <1>6. ASSUME NEW w \in Writers, AppendEvent(w)
        PROVE  TypeOK'
    <2>1. [Nothing EXCEPT !.pc = "holding", !.task = writer[w].task,
                          !.old = writer[w].new] \in Local
      BY <1>6 DEF TypeOK, Local
    <2>2. [task |-> writer[w].task, old |-> writer[w].old, new |-> writer[w].new]
            \in Event
      BY <1>6 DEF TypeOK, Local, Event
    <2> QED
      BY <1>6, <2>1, <2>2, BecomeType DEF AppendEvent, TypeOK
  <1>7. ASSUME NEW w \in Writers, Crash(w)
        PROVE  TypeOK'
    <2>1. writer[w].task \in Tasks
      BY <1>7 DEF TypeOK, Local
    <2>2. unlogged' \subseteq Tasks
      BY <1>7, <2>1 DEF Crash, TypeOK
    <2> QED
      BY <1>7, <2>2, BecomeType, BehindType DEF Crash, TypeOK
  <1>8. CASE UNCHANGED vars
    BY <1>8 DEF vars, TypeOK
  <1> QED
    BY <1>1, <1>2, <1>3, <1>4, <1>5, <1>6, <1>7, <1>8 DEF Next

\* tasks.json, the events and every writer's memory keep their type, for any
\* number of writers and whether or not they are killed.
THEOREM TypeCorrect == Spec => []TypeOK
  BY TypeInit, TypeStep, PTL DEF Spec

-----------------------------------------------------------------------------
(***************************************************************************)
(* What a process holds in memory is what the file says, but for the       *)
(* records it is behind on.                                                *)
(***************************************************************************)
Fresh(w) ==
  LET m == writer[w] IN
  /\ m.pc = "holding" /\ m.task \notin behind[w] => m.old = tasks[m.task]
  /\ m.pc = "loaded" =>
       /\ \A t \in Tasks \ behind[w] : m.load[t] = tasks[t]
       /\ m.task \notin behind[w] => m.old = tasks[m.task]
       /\ m.old \in Terminal => m.new = m.old
  /\ m.pc = "saved" /\ m.task \notin behind[w] => m.new = tasks[m.task]

MemoryIsFresh == \A w \in Writers : Fresh(w)

LEMMA FreshInit == Init => MemoryIsFresh
  <1> SUFFICES ASSUME Init, NEW w \in Writers
               PROVE  Fresh(w)
    BY DEF MemoryIsFresh
  <1>1. writer[w].pc = "idle"
    BY DEF Init, Nothing
  <1> QED
    BY <1>1 DEF Fresh

\* What another process does: its save overwrites only what the process is
\* behind on from then on, and nothing else it does concerns the file.
LEMMA OthersStep ==
  ASSUME TypeOK, NEW v \in Writers, Fresh(v), NEW w \in Writers, w # v,
         \/ \E t \in Tasks : Hold(w, t) \/ EnsureTask(w, t)
         \/ \E status \in Statuses : Transition(w, status)
         \/ Release(w) \/ SaveTasks(w) \/ AppendEvent(w) \/ Crash(w)
  PROVE  Fresh(v)'
  <1>1. writer'[v] = writer[v] /\ writer[v] \in Local
    BY DEF Hold, EnsureTask, Transition, Release, SaveTasks, AppendEvent, Crash,
       Become, TypeOK
  <1>2. CASE SaveTasks(w)
    <2>1. CASE writer[v].pc = "idle"
      BY <1>1, <2>1 DEF Fresh
    <2>2. CASE writer[v].pc # "idle"
      <3>1. behind'[v] = behind[v] \cup {t \in Tasks : tasks'[t] # tasks[t]}
        BY <1>2, <2>2 DEF SaveTasks, Overtake, At
      <3>2. \A t \in Tasks \ behind'[v] : t \notin behind[v] /\ tasks'[t] = tasks[t]
        BY <3>1
      <3>3. writer[v].task \in Tasks
        BY <1>1 DEF Local
      <3> QED
        BY <1>1, <3>2, <3>3 DEF Fresh
    <2> QED
      BY <2>1, <2>2
  <1>3. CASE ~SaveTasks(w)
    <2>1. tasks' = tasks /\ behind'[v] = behind[v]
      BY <1>3 DEF Hold, EnsureTask, Transition, Release, AppendEvent, Crash,
         Behind, history, TypeOK
    <2> QED
      BY <1>1, <2>1 DEF Fresh
  <1> QED
    BY <1>2, <1>3

LEMMA FreshStep ==
  ASSUME TypeOK, MemoryIsFresh, [Next]_vars
  PROVE  MemoryIsFresh'
  <1> SUFFICES ASSUME NEW v \in Writers
               PROVE  Fresh(v)'
    BY DEF MemoryIsFresh
  <1>0. /\ Fresh(v)
        /\ writer \in [Writers -> Local]
        /\ writer[v] \in Local
        /\ tasks \in File
        /\ behind \in [Writers -> SUBSET Tasks]
    BY DEF MemoryIsFresh, TypeOK
  <1>1. ASSUME NEW t \in Tasks, Hold(v, t)
        PROVE  Fresh(v)'
    <2>1. writer'[v] = [Nothing EXCEPT !.pc = "holding", !.task = t, !.old = tasks[t]]
      BY <1>0, <1>1 DEF Hold, Become
    <2>2. /\ writer'[v].pc = "holding" /\ writer'[v].task = t
          /\ writer'[v].old = tasks[t]
      BY <2>1 DEF Nothing
    <2> QED
      BY <1>1, <2>2 DEF Hold, Fresh
  <1>2. ASSUME NEW t \in Tasks, EnsureTask(v, t)
        PROVE  Fresh(v)'
    <2>1. writer'[v] = [Nothing EXCEPT !.pc = "loaded", !.task = t, !.load = tasks]
      BY <1>0, <1>2 DEF EnsureTask, Become
    <2>2. /\ writer'[v].pc = "loaded" /\ writer'[v].task = t
          /\ writer'[v].old = Absent /\ writer'[v].new = Planned
          /\ writer'[v].load = tasks
      BY <2>1, <1>0, ConstantsAssumption DEF Nothing, EnsureTask, At, Local
    <2> QED
      BY <1>2, <2>2, ConstantsAssumption DEF EnsureTask, history, Fresh
  <1>3. ASSUME NEW status \in Statuses, Transition(v, status)
        PROVE  Fresh(v)'
    <2>1. writer'[v] = [writer[v] EXCEPT !.pc = "loaded", !.new = status,
                                         !.load = tasks]
      BY <1>0, <1>3 DEF Transition, Become
    <2>2. /\ writer'[v].pc = "loaded" /\ writer'[v].task = writer[v].task
          /\ writer'[v].old = writer[v].old /\ writer'[v].new = status
          /\ writer'[v].load = tasks
      BY <1>0, <2>1 DEF Local
    <2>3. /\ writer[v].task \notin behind[v] => writer[v].old = tasks[writer[v].task]
          /\ writer[v].task \in Tasks
          /\ behind'[v] = behind[v] \cap {writer[v].task}
      BY <1>0, <1>3 DEF Transition, Behind, At, Fresh, Local
    <2>4. writer[v].old \in Terminal => status = writer[v].old
      BY <1>3 DEF Transition
    <2> QED
      BY <1>3, <2>2, <2>3, <2>4 DEF Transition, Fresh
  <1>4. ASSUME Release(v) \/ Crash(v)
        PROVE  Fresh(v)'
    <2>1. writer'[v].pc = "idle"
      BY <1>0, <1>4 DEF Release, Crash, Become, Nothing
    <2> QED
      BY <2>1 DEF Fresh
  <1>5. ASSUME SaveTasks(v)
        PROVE  Fresh(v)'
    <2>1. writer'[v] = [writer[v] EXCEPT !.pc = "saved", !.load = Nothing.load]
      BY <1>0, <1>5 DEF SaveTasks, Become
    <2>2. /\ writer'[v].pc = "saved" /\ writer'[v].task = writer[v].task
          /\ writer'[v].new = writer[v].new
      BY <1>0, <2>1 DEF Local
    <2>3. writer[v].task \in Tasks /\ writer[v].load \in File
      BY <1>0 DEF Local
    <2>4. tasks'[writer[v].task] = writer[v].new
      BY <1>5, <2>3 DEF SaveTasks, File
    <2> QED
      BY <2>2, <2>4 DEF Fresh
  <1>6. ASSUME AppendEvent(v)
        PROVE  Fresh(v)'
    <2>1. writer'[v] = [Nothing EXCEPT !.pc = "holding", !.task = writer[v].task,
                                       !.old = writer[v].new]
      BY <1>0, <1>6 DEF AppendEvent, Become
    <2>2. /\ writer'[v].pc = "holding" /\ writer'[v].task = writer[v].task
          /\ writer'[v].old = writer[v].new
      BY <2>1 DEF Nothing
    <2>3. /\ writer[v].task \notin behind[v] => writer[v].new = tasks[writer[v].task]
          /\ tasks' = tasks /\ behind' = behind
      BY <1>0, <1>6 DEF AppendEvent, At, Fresh, history
    <2> QED
      BY <2>2, <2>3 DEF Fresh
  <1>7. CASE UNCHANGED vars
    BY <1>0, <1>7 DEF vars, history, Fresh
  <1>8. CASE Next
    <2>1. PICK w \in Writers :
            \/ \E t \in Tasks : Hold(w, t) \/ EnsureTask(w, t)
            \/ \E status \in Statuses : Transition(w, status)
            \/ Release(w)
            \/ SaveTasks(w)
            \/ AppendEvent(w)
            \/ Crash(w)
      BY <1>8 DEF Next
    <2>2. CASE w = v
      BY <1>1, <1>2, <1>3, <1>4, <1>5, <1>6, <2>1, <2>2
    <2>3. CASE w # v
      BY <1>0, <2>1, <2>3, OthersStep
    <2> QED
      BY <2>2, <2>3
  <1> QED
    BY <1>7, <1>8

LEMMA FreshInvariance == Spec => []MemoryIsFresh
  BY FreshInit, FreshStep, TypeCorrect, PTL DEF Spec

-----------------------------------------------------------------------------
(***************************************************************************)
(* What a save changes.                                                    *)
(***************************************************************************)
\* Only SaveTasks takes a process from "loaded" to "saved".
LEMMA OnlySaves ==
  ASSUME TypeOK, [Next]_vars, NEW w \in Writers, At(w, "loaded"), At(w, "saved")'
  PROVE  SaveTasks(w)
  <1>0. writer \in [Writers -> Local] /\ writer'[w] # writer[w]
    BY DEF TypeOK, At
  <1>1. PICK v \in Writers :
          \/ \E t \in Tasks : Hold(v, t) \/ EnsureTask(v, t)
          \/ \E status \in Statuses : Transition(v, status)
          \/ Release(v) \/ SaveTasks(v) \/ AppendEvent(v) \/ Crash(v)
    BY <1>0 DEF Next, vars
  <1>2. v = w
    BY <1>0, <1>1 DEF Hold, EnsureTask, Transition, Release, SaveTasks,
       AppendEvent, Crash, Become
  <1>3. ~Crash(w)
    BY <1>0 DEF Crash, Become, Nothing, At
  <1> QED
    BY <1>1, <1>2, <1>3 DEF At, Hold, EnsureTask, Transition, Release, AppendEvent

LEMMA SaveKeepsFresh ==
  ASSUME TypeOK, MemoryIsFresh, NEW w \in Writers, SaveTasks(w),
         NEW t \in Tasks \ behind[w], tasks'[t] # tasks[t]
  PROVE  t = writer[w].task /\ tasks[t] = writer[w].old /\ tasks[t] \notin Terminal
  <1>1. writer[w].load \in File /\ writer[w].load[t] = tasks[t]
    BY DEF SaveTasks, At, MemoryIsFresh, Fresh, TypeOK, Local
  <1>2. tasks' = [writer[w].load EXCEPT ![writer[w].task] = writer[w].new]
    BY DEF SaveTasks
  <1>3. t = writer[w].task
    BY <1>1, <1>2 DEF File
  <1>4. tasks'[t] = writer[w].new
    BY <1>1, <1>2, <1>3 DEF File
  <1>5. /\ tasks[t] = writer[w].old
        /\ writer[w].old \in Terminal => writer[w].new = writer[w].old
    BY <1>3 DEF SaveTasks, At, MemoryIsFresh, Fresh
  <1> QED
    BY <1>3, <1>4, <1>5

\* tasks.json is replaced without a lock by any number of processes
\* (upsert_task), and yet only one that another has overtaken takes back a
\* transition or moves a task out of merged or rejected.
THEOREM FreshKept == Spec => FreshRecordsKept
  <1>1. TypeOK /\ MemoryIsFresh /\ [Next]_vars =>
          [\A w \in Writers : At(w, "loaded") /\ At(w, "saved")' =>
             \A t \in Tasks \ behind[w] : tasks'[t] # tasks[t] =>
               /\ t = writer[w].task
               /\ tasks[t] = writer[w].old
               /\ tasks[t] \notin Terminal]_vars
    BY OnlySaves, SaveKeepsFresh
  <1> QED
    BY <1>1, FreshInvariance, TypeCorrect, PTL DEF Spec, FreshRecordsKept

-----------------------------------------------------------------------------
(***************************************************************************)
(* Where the events explain the file.                                      *)
(***************************************************************************)
\* A set of positions has a last one: n - i is least among its elements.
LEMMA LastOf ==
  ASSUME NEW n \in Nat, NEW S \in SUBSET (1 .. n), S # {}
  PROVE  Last(S) \in S /\ \A j \in S : j <= Last(S)
  <1> DEFINE T == {k \in Nat : k < n /\ n - k \in S}
  <1>1. T \subseteq Nat
    OBVIOUS
  <1>2. T # {}
    <2>1. PICK i \in S : TRUE
      OBVIOUS
    <2>2. i \in 1 .. n /\ n - i \in T
      BY <2>1
    <2> QED
      BY <2>2
  <1>3. PICK x \in T : \A y \in T : ~(<<y, x>> \in OpToRel(<, Nat))
    <2> HIDE DEF T
    <2> QED
      BY <1>1, <1>2, NatLessThanWellFounded, WFMin
  <1>4. \A y \in T : ~(y < x)
    BY <1>1, <1>3 DEF OpToRel
  <1>5. n - x \in S /\ \A j \in S : j <= n - x
    <2>1. ASSUME NEW j \in S
          PROVE  j <= n - x
      <3>1. j \in 1 .. n /\ n - j \in T
        OBVIOUS
      <3>2. ~(n - j < x)
        BY <1>4, <3>1
      <3>3. x \in Nat /\ j \in Nat
        BY <1>1, <3>1
      <3> QED
        BY <3>2, <3>3
    <2> QED
      BY <1>3, <2>1
  <1>6. \E i \in S : \A j \in S : j <= i
    BY <1>5
  <1> QED
    BY <1>6 DEF Last

\* Rows and StatusAfter in the log that a step leaves.
RowsIn(log, t) == {i \in DOMAIN log : log[i].task = t}

StatusIn(log, rows) == IF rows = {} THEN Absent ELSE log[Last(rows)].new

ChainIn(log, t) ==
  \A i \in RowsIn(log, t) :
    log[i].old = StatusIn(log, {j \in RowsIn(log, t) : j < i})

\* What the rows so far say does not change when a row is added.
LEMMA RowsKept ==
  ASSUME TypeOK, NEW e \in Event, events' = Append(events, e),
         NEW S \in SUBSET DOMAIN events
  PROVE  StatusIn(events', S) = StatusIn(events, S)
  <1>1. CASE S = {}
    BY <1>1 DEF StatusIn
  <1>2. CASE S # {}
    <2>1. Len(events) \in Nat /\ DOMAIN events = 1 .. Len(events)
      BY DEF TypeOK
    <2>2. Last(S) \in DOMAIN events
      BY <1>2, <2>1, LastOf
    <2>3. events'[Last(S)] = events[Last(S)]
      BY <2>2 DEF TypeOK
    <2> QED
      BY <1>2, <2>3 DEF StatusIn
  <1> QED
    BY <1>1, <1>2

\* A transition that is saved and not yet logged.
Saved(w, t) == At(w, "saved") /\ writer[w].task = t

Explained(t) ==
  /\ \A w, v \in Writers : Saved(w, t) /\ Saved(v, t) => w = v
  /\ (\A w \in Writers : ~Saved(w, t)) => tasks[t] = StatusIn(events, RowsIn(events, t))
  /\ \A w \in Writers : Saved(w, t) =>
       /\ writer[w].old = StatusIn(events, RowsIn(events, t))
       /\ writer[w].new = tasks[t]
  /\ ChainIn(events, t)

EventsExplain == \A t \in Tasks \ (unlogged \cup raced) : Explained(t)

LEMMA ExplainedInit == Init => EventsExplain
  <1> SUFFICES ASSUME Init, NEW t \in Tasks
               PROVE  Explained(t)
    BY DEF EventsExplain
  <1>1. \A w \in Writers : ~Saved(w, t)
    BY DEF Init, Saved, At, Nothing
  <1>2. RowsIn(events, t) = {}
    BY DEF Init, RowsIn
  <1> QED
    BY <1>1, <1>2 DEF Init, Explained, ChainIn, StatusIn

\* A step that leaves a task's saved transitions as they are.
LEMMA QuietStep ==
  ASSUME NEW t \in Tasks, Explained(t), UNCHANGED events, tasks'[t] = tasks[t],
         \A w \in Writers : /\ Saved(w, t)' <=> Saved(w, t)
                            /\ Saved(w, t) => /\ writer'[w].old = writer[w].old
                                              /\ writer'[w].new = writer[w].new
  PROVE  Explained(t)'
  BY DEF Explained

\* The row of a writer's transition goes behind the rows of its task.
LEMMA AppendExplains ==
  ASSUME TypeOK, EventsExplain,
         NEW w \in Writers, AppendEvent(w), NEW t \in Tasks \ (unlogged \cup raced)'
  PROVE  Explained(t)'
  <1> DEFINE e == [task |-> writer[w].task, old |-> writer[w].old, new |-> writer[w].new]
             n == Len(events)
             rows == RowsIn(events, t)
             newRows == RowsIn(events', t)
  <1>1. events' = Append(events, e) /\ At(w, "saved")
        /\ UNCHANGED <<tasks, history>> /\ Explained(t)
    BY DEF AppendEvent, history, EventsExplain
  <1>2. e \in Event /\ e.task = writer[w].task /\ e.old = writer[w].old
        /\ e.new = writer[w].new
    BY DEF TypeOK, Local, Event
  <1>3. /\ ~Saved(w, t)'
        /\ \A v \in Writers : v # w => writer'[v] = writer[v]
        /\ Saved(w, t) <=> e.task = t
    <2>1. writer'[w].pc = "holding" /\ \A v \in Writers : v # w => writer'[v] = writer[v]
      BY DEF AppendEvent, Become, TypeOK, Nothing
    <2> QED
      BY <1>1, <1>2, <2>1 DEF Saved, At
  <1> HIDE DEF e
  <1>4. /\ n \in Nat /\ DOMAIN events = 1 .. n /\ DOMAIN events' = 1 .. (n + 1)
        /\ events'[n + 1] = e
        /\ \A i \in 1 .. n : events'[i] = events[i]
    BY <1>1, <1>2 DEF TypeOK
  <1> HIDE DEF n
  <1>5. rows \subseteq 1 .. n /\ \A i \in 1 .. n : i \in rows <=> events[i].task = t
    BY <1>4 DEF RowsIn
  <1>6. \A S \in SUBSET (1 .. n) : StatusIn(events', S) = StatusIn(events, S)
    BY <1>1, <1>2, <1>4, RowsKept
  <1>7. /\ \A v \in Writers : Saved(v, t) /\ Saved(w, t) => v = w
        /\ (\A v \in Writers : ~Saved(v, t)) => tasks[t] = StatusIn(events, rows)
        /\ \A v \in Writers : Saved(v, t) => /\ writer[v].old = StatusIn(events, rows)
                                             /\ writer[v].new = tasks[t]
        /\ \A i \in rows : events[i].old = StatusIn(events, {j \in rows : j < i})
    BY <1>1 DEF Explained, ChainIn
  <1>9. \A i \in rows : events'[i].old = StatusIn(events', {j \in rows : j < i})
    <2>1. \A i \in rows : {j \in rows : j < i} \in SUBSET (1 .. n)
      BY <1>5
    <2> QED
      BY <1>4, <1>5, <1>6, <1>7, <2>1
  <1>10. CASE e.task # t
    <2>1. newRows = rows
      BY <1>4, <1>5, <1>10 DEF RowsIn
    <2>2. StatusIn(events', rows) = StatusIn(events, rows)
      BY <1>5, <1>6
    <2>3. ChainIn(events', t)
      BY <1>9, <2>1 DEF ChainIn
    <2>4. \A v \in Writers : /\ Saved(v, t)' <=> Saved(v, t)
                             /\ Saved(v, t) => writer'[v] = writer[v]
      <3> SUFFICES ASSUME NEW v \in Writers
                   PROVE  /\ Saved(v, t)' <=> Saved(v, t)
                          /\ Saved(v, t) => writer'[v] = writer[v]
        OBVIOUS
      <3>1. CASE v = w
        BY <1>3, <1>10, <3>1 DEF Saved, At
      <3>2. CASE v # w
        <4>1. writer'[v] = writer[v]
          BY <1>3, <3>2
        <4> QED
          BY <4>1 DEF Saved, At
      <3> QED
        BY <3>1, <3>2
    <2>5. \A v, u \in Writers : Saved(v, t) /\ Saved(u, t) => v = u
      BY <1>1 DEF Explained
    <2> HIDE DEF rows, newRows
    <2> QED
      BY <1>1, <1>7, <2>1, <2>2, <2>3, <2>4, <2>5 DEF Explained, newRows
  <1>11. CASE e.task = t
    <2>1. newRows = rows \cup {n + 1}
      BY <1>4, <1>5, <1>11 DEF RowsIn
    <2> HIDE DEF rows, newRows
    <2>0. \A i \in rows : i \in Nat /\ i <= n
      BY <1>4, <1>5
    <2>2. Last(rows \cup {n + 1}) = n + 1
      <3>1. rows \cup {n + 1} \in SUBSET (1 .. (n + 1)) /\ n + 1 \in Nat
        BY <1>4, <1>5
      <3>2. /\ Last(rows \cup {n + 1}) \in rows \cup {n + 1}
            /\ n + 1 <= Last(rows \cup {n + 1})
        BY <3>1, LastOf
      <3> QED
        BY <1>4, <2>0, <3>2
    <2>3. StatusIn(events', rows \cup {n + 1}) = e.new
      BY <1>4, <2>2 DEF StatusIn
    <2>4. tasks[t] = e.new
      BY <1>2, <1>3, <1>7, <1>11
    <2>5. {j \in rows \cup {n + 1} : j < n + 1} = rows
      BY <1>4, <2>0
    <2>6. events'[n + 1].old = StatusIn(events', rows)
      BY <1>2, <1>3, <1>4, <1>5, <1>6, <1>7, <1>11
    <2>7. ASSUME NEW i \in rows
          PROVE  {j \in rows \cup {n + 1} : j < i} = {j \in rows : j < i}
      BY <1>4, <2>0
    <2>8. \A i \in newRows : events'[i].old = StatusIn(events', {j \in newRows : j < i})
      BY <1>9, <2>1, <2>5, <2>6, <2>7
    <2>9. ASSUME NEW v \in Writers
          PROVE  ~Saved(v, t)'
      <3>1. CASE v = w
        BY <1>3, <3>1 DEF Saved, At
      <3>2. CASE v # w
        <4>1. writer'[v] = writer[v]
          BY <1>3, <3>2
        <4>2. ~Saved(v, t)
          BY <1>3, <1>7, <1>11, <3>2
        <4> QED
          BY <4>1, <4>2 DEF Saved, At
      <3> QED
        BY <3>1, <3>2
    <2>10. tasks'[t] = StatusIn(events', newRows)
      BY <1>1, <2>1, <2>3, <2>4
    <2> QED
      BY <2>8, <2>9, <2>10 DEF Explained, ChainIn, newRows
  <1> QED
    BY <1>10, <1>11

LEMMA ExplainedStep ==
  ASSUME TypeOK, MemoryIsFresh, EventsExplain, [Next]_vars
  PROVE  EventsExplain'
  <1> SUFFICES ASSUME NEW t \in Tasks \ (unlogged \cup raced)'
               PROVE  Explained(t)'
    BY DEF EventsExplain
  <1>0. writer \in [Writers -> Local]
    BY DEF TypeOK
  <1>1. ASSUME NEW w \in Writers, UNCHANGED <<tasks, events>>,
               t \notin unlogged \cup raced,
               ~Saved(w, t), ~At(w, "saved")',
               \A v \in Writers : v # w => writer'[v] = writer[v]
        PROVE  Explained(t)'
    <2>1. \A v \in Writers : /\ Saved(v, t)' <=> Saved(v, t)
                             /\ Saved(v, t) => writer'[v] = writer[v]
      BY <1>1 DEF Saved, At
    <2> QED
      BY <1>1, <2>1, QuietStep DEF EventsExplain
  <1>2. ASSUME NEW w \in Writers, NEW u \in Tasks, Hold(w, u) \/ EnsureTask(w, u)
        PROVE  Explained(t)'
    <2>1. ~Saved(w, t) /\ ~At(w, "saved")'
      BY <1>0, <1>2 DEF Hold, EnsureTask, At, Saved, Become, Nothing
    <2> QED
      BY <1>0, <1>1, <1>2, <2>1 DEF Hold, EnsureTask, Become, history
  <1>3. ASSUME NEW w \in Writers, NEW status \in Statuses, Transition(w, status)
        PROVE  Explained(t)'
    <2>1. ~Saved(w, t) /\ ~At(w, "saved")'
      BY <1>0, <1>3 DEF Transition, At, Saved, Become, Local
    <2> QED
      BY <1>0, <1>1, <1>3, <2>1 DEF Transition, Become
  <1>4. ASSUME NEW w \in Writers, Release(w)
        PROVE  Explained(t)'
    <2>1. ~Saved(w, t) /\ ~At(w, "saved")'
      BY <1>0, <1>4 DEF Release, At, Saved, Become, Nothing
    <2> QED
      BY <1>0, <1>1, <1>4, <2>1 DEF Release, Become
  <1>5. ASSUME NEW w \in Writers, SaveTasks(w)
        PROVE  Explained(t)'
    <2>1. /\ t \notin unlogged \cup raced \cup behind[w]
          /\ ~Saved(w, t)
          /\ writer[w].task = t => \A v \in Writers : ~Saved(v, t)
      BY <1>5 DEF SaveTasks, Overtake, Saved, At
    <2>2. Explained(t) /\ Fresh(w) /\ writer[w] \in Local /\ events' = events
      BY <1>0, <1>5, <2>1 DEF EventsExplain, MemoryIsFresh, SaveTasks
    <2>3. /\ writer'[w].task = writer[w].task /\ writer'[w].old = writer[w].old
          /\ writer'[w].new = writer[w].new /\ writer'[w].pc = "saved"
          /\ \A v \in Writers : v # w => writer'[v] = writer[v]
      BY <1>0, <1>5, <2>2 DEF SaveTasks, Become, Local
    <2>4. CASE writer[w].task # t
      <3>1. tasks'[t] = tasks[t]
        BY <1>5, <2>1, <2>4, SaveKeepsFresh
      <3>2. \A v \in Writers : /\ Saved(v, t)' <=> Saved(v, t)
                               /\ Saved(v, t) => writer'[v] = writer[v]
        BY <2>3, <2>4 DEF Saved, At
      <3> QED
        BY <2>2, <3>1, <3>2, QuietStep
    <2>5. CASE writer[w].task = t
      <3>1. \A v \in Writers : Saved(v, t)' <=> v = w
        BY <2>1, <2>3, <2>5 DEF Saved, At
      <3>2. writer[w].old = StatusIn(events, RowsIn(events, t))
        BY <1>5, <2>1, <2>2, <2>5 DEF Explained, Fresh, SaveTasks, At
      <3>3. tasks'[t] = writer[w].new
        BY <1>5, <2>2, <2>5 DEF SaveTasks, Local, File
      <3>4. ChainIn(events, t)
        BY <2>2 DEF Explained
      <3> QED
        BY <2>2, <2>3, <3>1, <3>2, <3>3, <3>4 DEF Explained
    <2> QED
      BY <2>4, <2>5
  <1>6. ASSUME NEW w \in Writers, Crash(w)
        PROVE  Explained(t)'
    <2>1. t \notin unlogged \cup raced /\ ~Saved(w, t) /\ ~At(w, "saved")'
      BY <1>0, <1>6 DEF Crash, Saved, At, Become, Nothing
    <2> QED
      BY <1>0, <1>1, <1>6, <2>1 DEF Crash, Become
  <1>7. CASE UNCHANGED vars
    BY <1>7 DEF vars, history, EventsExplain, Explained, Saved, At
  <1> QED
    BY <1>2, <1>3, <1>4, <1>5, <1>6, <1>7, AppendExplains DEF Next

\* However many processes write, the events explain tasks.json: a task has the
\* status of its last event (append_event follows save_tasks), and each event
\* goes on from the one before it, but for a task whose writer was killed
\* between the two, and one that a process saved from an overtaken copy or
\* past another's pending event.
THEOREM EventsExplainTheFile == Spec => []EventsExplainTasks
  <1>1. TypeOK /\ MemoryIsFresh /\ EventsExplain /\ [Next]_vars => EventsExplain'
    BY ExplainedStep
  <1>2. EventsExplain => EventsExplainTasks
    BY DEF EventsExplain, Explained, EventsExplainTasks, Owed, Saved, ChainIn,
       RowsIn, StatusIn, Rows, StatusAfter
  <1> QED
    BY <1>1, <1>2, ExplainedInit, FreshInvariance, TypeCorrect, PTL DEF Spec
=============================================================================
