--------------------------- MODULE ControllerProofs ---------------------------
(***************************************************************************)
(* What the controller's tick keeps to for any packages, dependencies and  *)
(* concurrency, whatever workers do between two of its steps.              *)
(***************************************************************************)
EXTENDS Controller, TLAPS, FiniteSetTheorems

(***************************************************************************)
(* The inductive invariant of the tick.                                    *)
(***************************************************************************)
Finite ==
  /\ \A p \in Packages : IsFiniteSet(branch[p])
  /\ IsFiniteSet(integration)

\* The launch in hand holds a slot; the task is counted in Occupied from its
\* first save on and gives the slot up with the last one.
Launching(p) == InHand("launch", p) /\ ctl.step # "start"
Occupied == InStatus({"assigned", "running"})
OccupiedByOthers == {p \in Occupied : ~Launching(p)}

SlotsCover ==
  /\ Cardinality(Occupied) <= Concurrency
  /\ ctl.phase = "launch" => Cardinality(OccupiedByOthers) + ctl.slots <= Concurrency
  /\ ctl.phase = "launch" /\ ctl.step # "start" => ctl.slots > 0

WellFormed == \A p \in Packages : result[p].status # "unreadable"

\* The user gives no commands.
Unattended == "operator" \notin Faults

ByCommand == {"rejected", "merge_approved", "integration_ready"}

Started(p) ==
  \/ record[p] # 0
  \/ task[p].status = "review_passed"
  \/ Launching(p)
  \/ InHand("reconcile", p) /\ ctl.step # "start"

NothingRaises ==
  /\ \A p \in Packages : /\ task[p].status \notin ByCommand
                         /\ Started(p) => branch[p] # NoBranch
  /\ \A p \in DOMAIN ctl.seen :
       /\ ctl.seen[p].status \notin ByCommand
       /\ ctl.phase = "hydrate" => ctl.seen[p].status # "merged"
  /\ RootCommit \in integration

\* Neither a kill nor an unreadable result, which ends the process as well.
Uninterrupted == Faults \cap {"unreadable", "crash"} = {}

Undecided == InStatus({"decision_required"})

DecidedInTick ==
  /\ ctl.phase \notin {"reconcile", "decide"} => Undecided = {}
  /\ ctl.phase = "decide" => Undecided \subseteq DOMAIN ctl.seen

IInv ==
  /\ TypeOK
  /\ Finite
  /\ SlotsCover
  /\ "unreadable" \notin Faults => WellFormed
  /\ Unattended => NothingRaises
  /\ Uninterrupted => DecidedInTick

-----------------------------------------------------------------------------
(***************************************************************************)
(* Sets, records and commits                                               *)
(***************************************************************************)
LEMMA PackagesFinite ==
  ASSUME NEW S, NEW T \in SUBSET Packages, S \subseteq T
  PROVE  /\ IsFiniteSet(S) /\ IsFiniteSet(T)
         /\ Cardinality(S) \in Nat /\ Cardinality(T) \in Nat
         /\ Cardinality(S) <= Cardinality(T)
<1>1. IsFiniteSet(Packages)
  BY ConstantsAssumption
<1>2. IsFiniteSet(T)
  BY <1>1, FS_Subset
<1>3. IsFiniteSet(S) /\ Cardinality(S) <= Cardinality(T)
  BY <1>2, FS_Subset
<1> QED BY <1>2, <1>3, FS_CardinalityType

\* One package is in hand at most.
LEMMA OneInHand ==
  ASSUME NEW p \in Packages, NEW q \in Packages, NEW phase, NEW other,
         InHand(phase, p), InHand(other, q)
  PROVE  p = q /\ phase = other
<1>1. p \in Nat /\ q \in Nat
  BY ConstantsAssumption
<1>2. p <= q /\ q <= p
  BY DEF InHand
<1>3. phase = other
  BY DEF InHand
<1> QED BY <1>1, <1>2, <1>3

\* A record with another status.
LEMMA WithStatus ==
  ASSUME NEW r \in Task, NEW status \in TASK_STATES
  PROVE  /\ [r EXCEPT !.status = status] \in Task
         /\ [r EXCEPT !.status = status].status = status
         /\ [r EXCEPT !.status = status].commit = r.commit
         /\ [r EXCEPT !.status = status].handoff = r.handoff
BY DEF Task

LEMMA SaveType ==
  ASSUME TypeOK, NEW p \in Packages, NEW rec \in Task, Save(p, rec)
  PROVE  /\ task' \in [Packages -> Task]
         /\ task'[p] = rec
         /\ \A q \in Packages : q # p => task'[q] = task[q]
BY DEF TypeOK, Save

\* What a worker or a checkpoint adds to its branch.
LEMMA AddsCommit ==
  ASSUME TypeOK, Finite, NEW p \in Packages, NEW owned \in BOOLEAN,
         branch' = [branch EXCEPT ![p] = @ \cup
            {[author |-> p, n |-> Cardinality(Own(p, @)) + 1, owned |-> owned]}]
  PROVE  /\ branch' \in [Packages -> SUBSET Commit]
         /\ \A q \in Packages : IsFiniteSet(branch'[q]) /\ branch[q] \subseteq branch'[q]
<1> DEFINE c == [author |-> p, n |-> Cardinality(Own(p, branch[p])) + 1, owned |-> owned]
<1>1. IsFiniteSet(Own(p, branch[p]))
  <2>1. IsFiniteSet(branch[p])
    BY DEF Finite
  <2>2. Own(p, branch[p]) \subseteq branch[p]
    BY DEF Own
  <2> QED BY <2>1, <2>2, FS_Subset
<1>2. Cardinality(Own(p, branch[p])) \in Nat
  BY <1>1, FS_CardinalityType
<1>3. c \in Commit
  BY <1>2 DEF Commit
<1>4. branch' = [branch EXCEPT ![p] = branch[p] \cup {c}]
  BY DEF TypeOK
<1>5. IsFiniteSet(branch[p] \cup {c})
  BY FS_AddElement DEF Finite
<1> HIDE DEF c
<1>6. branch' \in [Packages -> SUBSET Commit]
  BY <1>3, <1>4 DEF TypeOK
<1>7. ASSUME NEW q \in Packages
      PROVE  IsFiniteSet(branch'[q]) /\ branch[q] \subseteq branch'[q]
  <2>1. CASE q = p
    BY <2>1, <1>4, <1>5 DEF TypeOK
  <2>2. CASE q # p
    BY <2>2, <1>4 DEF TypeOK, Finite
  <2> QED BY <2>1, <2>2
<1> QED BY <1>6, <1>7

\* What steps on a worktree may do: branches keep what they have.
Grows ==
  /\ branch' \in [Packages -> SUBSET Commit]
  /\ \A q \in Packages : IsFiniteSet(branch'[q]) /\ branch[q] \subseteq branch'[q]
  /\ dirty' \in [Packages -> SUBSET {"owned", "stray"}]

LEMMA CheckpointGrows ==
  ASSUME TypeOK, Finite, NEW p \in Packages, Checkpoint(p)
  PROVE  Grows
<1>1. CASE "owned" \in dirty[p]
  <2>1. dirty' \in [Packages -> SUBSET {"owned", "stray"}]
    BY <1>1 DEF Checkpoint, TypeOK
  <2>2. /\ branch' \in [Packages -> SUBSET Commit]
        /\ \A q \in Packages : IsFiniteSet(branch'[q]) /\ branch[q] \subseteq branch'[q]
    BY <1>1, AddsCommit, TRUE \in BOOLEAN DEF Checkpoint
  <2> QED BY <2>1, <2>2 DEF Grows
<1>2. CASE "owned" \notin dirty[p]
  BY <1>2 DEF Checkpoint, TypeOK, Finite, Grows
<1> QED BY <1>1, <1>2

LEMMA StaysGrows ==
  ASSUME TypeOK, Finite, UNCHANGED <<branch, dirty>>
  PROVE  Grows
BY DEF TypeOK, Finite, Grows

-----------------------------------------------------------------------------
(***************************************************************************)
(* The controller's local state                                            *)
(***************************************************************************)
LEMMA CopiesType ==
  ASSUME TypeOK, NEW S \in SUBSET Packages
  PROVE  /\ DOMAIN Copies(S) = S
         /\ \A p \in S : Copies(S)[p] = task[p] /\ task[p] \in Task
         /\ Copies(S) \in [S -> Task]
BY DEF TypeOK, Copies

LEMMA DropType ==
  ASSUME TypeOK, NEW p
  PROVE  /\ DOMAIN Drop(p) = DOMAIN ctl.seen \ {p}
         /\ \A q \in DOMAIN Drop(p) : Drop(p)[q] = ctl.seen[q] /\ ctl.seen[q] \in Task
         /\ Drop(p) \in [DOMAIN ctl.seen \ {p} -> Task]
         /\ DOMAIN ctl.seen \ {p} \subseteq Packages
BY DEF TypeOK, Local, Drop

LEMMA CtlParts ==
  ASSUME TypeOK
  PROVE  /\ ctl = [phase |-> ctl.phase, step |-> ctl.step, seen |-> ctl.seen,
                   landed |-> ctl.landed, report |-> ctl.report,
                   head |-> ctl.head, slots |-> ctl.slots]
         /\ ctl.phase \in Phases /\ ctl.step \in Steps
         /\ DOMAIN ctl.seen \subseteq Packages
         /\ ctl.seen \in [DOMAIN ctl.seen -> Task]
         /\ ctl.landed \in SUBSET Packages
         /\ ctl.report \in Report \cup {NoReport}
         /\ ctl.head \in SUBSET Commit
         /\ ctl.slots \in Nat
BY DEF TypeOK, Local

LEMMA StoppedLocal ==
  ASSUME NEW phase \in Phases
  PROVE  /\ Local([Idle EXCEPT !.phase = phase])
         /\ [Idle EXCEPT !.phase = phase].phase = phase
         /\ [Idle EXCEPT !.phase = phase].step = "start"
         /\ DOMAIN [Idle EXCEPT !.phase = phase].seen = {}
<1>1. <<>> \in [{} -> Task] /\ DOMAIN <<>> = {}
  OBVIOUS
<1>2. NoBranch \in SUBSET Commit /\ "start" \in Steps
  BY DEF NoBranch, Steps
<1>4. ASSUME NEW c, c = [Idle EXCEPT !.phase = phase]
      PROVE  /\ Local(c)
             /\ c.phase = phase /\ c.step = "start" /\ c.seen = <<>>
  <2>1. c.phase = phase /\ c.step = "start" /\ c.seen = <<>>
    BY <1>4 DEF Idle
  <2>2. c \in [phase : Phases, step : Steps, seen : {c.seen},
               landed : SUBSET Packages, report : Report \cup {NoReport},
               head : SUBSET Commit, slots : Nat]
    BY <1>2, <1>4 DEF Idle
  <2> QED BY <1>1, <2>1, <2>2 DEF Local
<1> QED BY <1>1, <1>4

LEMMA IdleAgain == [Idle EXCEPT !.phase = "idle"] = Idle
<1>1. \A seen : [[phase |-> "idle", step |-> "start", seen |-> seen, landed |-> {},
                  report |-> NoReport, head |-> NoBranch, slots |-> 0]
                   EXCEPT !.phase = "idle"]
                = [phase |-> "idle", step |-> "start", seen |-> seen, landed |-> {},
                   report |-> NoReport, head |-> NoBranch, slots |-> 0]
  OBVIOUS
<1> QED BY <1>1 DEF Idle

\* Entering a phase, over the tasks in S.
LEMMA EnterLocal ==
  ASSUME TypeOK, NEW S \in SUBSET Packages, NEW phase \in Phases,
         NEW landed \in SUBSET Packages, NEW head \in SUBSET Commit, NEW slots \in Nat
  PROVE  Local([phase |-> phase, step |-> "start", seen |-> Copies(S),
                landed |-> landed, report |-> NoReport, head |-> head,
                slots |-> slots])
BY CopiesType DEF Local, Steps

\* Done(p), and the end of a launch.
LEMMA DropLocal ==
  ASSUME TypeOK, NEW p, NEW report \in Report \cup {NoReport}, NEW slots \in Nat
  PROVE  Local([phase |-> ctl.phase, step |-> "start", seen |-> Drop(p),
                landed |-> ctl.landed, report |-> report, head |-> ctl.head,
                slots |-> slots])
BY DropType, CtlParts DEF Local, Steps

LEMMA DoneCtl ==
  ASSUME TypeOK, NEW p, Done(p)
  PROVE  /\ Local(ctl')
         /\ ctl'.phase = ctl.phase
         /\ ctl'.step = "start"
         /\ DOMAIN ctl'.seen = DOMAIN ctl.seen \ {p}
         /\ \A q \in DOMAIN ctl'.seen : ctl'.seen[q] = ctl.seen[q]
         /\ ctl'.landed = ctl.landed
         /\ ctl'.slots = ctl.slots
<1>1. ctl' = [phase |-> ctl.phase, step |-> "start", seen |-> Drop(p),
              landed |-> ctl.landed, report |-> NoReport, head |-> ctl.head,
              slots |-> ctl.slots]
  BY CtlParts DEF Done
<1>2. Local(ctl')
  BY <1>1, DropLocal, CtlParts
<1>3. ctl'.seen = Drop(p)
  BY <1>1
<1> QED BY <1>1, <1>2, <1>3, DropType

\* A package stays in hand, at another step and with another record.
Keeps(p, rec, step, report) ==
  ctl' = [ctl EXCEPT !.step = step, !.report = report, !.seen[p] = rec]

LEMMA HoldCtl ==
  ASSUME TypeOK, NEW p \in DOMAIN ctl.seen, NEW rec \in Task, NEW step \in Steps,
         NEW report \in Report \cup {NoReport},
         Keeps(p, rec, step, report)
  PROVE  /\ Local(ctl')
         /\ ctl'.phase = ctl.phase
         /\ ctl'.step = step
         /\ ctl'.report = report
         /\ ctl'.landed = ctl.landed
         /\ ctl'.slots = ctl.slots
         /\ DOMAIN ctl'.seen = DOMAIN ctl.seen
         /\ ctl'.seen[p] = rec
         /\ \A q \in DOMAIN ctl.seen : q # p => ctl'.seen[q] = ctl.seen[q]
<1> USE DEF Keeps
<1> DEFINE updated == [ctl.seen EXCEPT ![p] = rec]
<1>1. ctl' = [phase |-> ctl.phase, step |-> step, seen |-> updated,
              landed |-> ctl.landed, report |-> report, head |-> ctl.head,
              slots |-> ctl.slots]
  BY CtlParts
<1>2. updated \in [DOMAIN ctl.seen -> Task]
  BY CtlParts
<1>3. /\ DOMAIN updated = DOMAIN ctl.seen
      /\ updated[p] = rec
      /\ \A q \in DOMAIN ctl.seen : q # p => updated[q] = ctl.seen[q]
  BY CtlParts
<1> HIDE DEF updated
<1>4. Local(ctl')
  <2>1. ctl' \in [phase : Phases, step : Steps, seen : {ctl'.seen},
                  landed : SUBSET Packages, report : Report \cup {NoReport},
                  head : SUBSET Commit, slots : Nat]
    BY <1>1, CtlParts
  <2>2. ctl'.seen = updated
    BY CtlParts DEF updated
  <2>3. updated \in [DOMAIN updated -> Task] /\ DOMAIN updated \subseteq Packages
    BY <1>2, <1>3, CtlParts
  <2>4. ctl'.seen \in [DOMAIN ctl'.seen -> Task] /\ DOMAIN ctl'.seen \subseteq Packages
    BY <2>2, <2>3
  <2> QED BY <2>1, <2>4 DEF Local
<1> QED BY <1>1, <1>3, <1>4, CtlParts

LEMMA StepCtl ==
  ASSUME TypeOK, NEW step \in Steps, ctl' = [ctl EXCEPT !.step = step]
  PROVE  /\ Local(ctl')
         /\ ctl'.phase = ctl.phase
         /\ ctl'.step = step
         /\ ctl'.seen = ctl.seen
         /\ ctl'.landed = ctl.landed
         /\ ctl'.report = ctl.report
         /\ ctl'.slots = ctl.slots
<1>1. ctl' = [phase |-> ctl.phase, step |-> step, seen |-> ctl.seen,
              landed |-> ctl.landed, report |-> ctl.report, head |-> ctl.head,
              slots |-> ctl.slots]
  BY CtlParts
<1> QED BY <1>1, CtlParts DEF Local

-----------------------------------------------------------------------------
(***************************************************************************)
(* The kinds of steps                                                      *)
(***************************************************************************)
\* Fewer tasks are assigned or running, or as many.
LEMMA FewerOccupied ==
  ASSUME IInv, Occupied' \subseteq Occupied, ctl'.phase = "launch" => ctl' = ctl
  PROVE  SlotsCover'
<1>1. Occupied \subseteq Packages
  BY DEF Occupied, InStatus
<1>2. Cardinality(Occupied') <= Cardinality(Occupied)
      /\ Cardinality(Occupied') \in Nat /\ Cardinality(Occupied) \in Nat
  BY <1>1, PackagesFinite
<1>3. Cardinality(Occupied) <= Concurrency /\ Concurrency \in Nat
  BY ConstantsAssumption DEF IInv, SlotsCover
<1>4. Cardinality(Occupied') <= Concurrency
  BY <1>2, <1>3
<1>5. ASSUME ctl'.phase = "launch"
      PROVE  /\ Cardinality(OccupiedByOthers') + ctl'.slots <= Concurrency
             /\ ctl'.step # "start" => ctl'.slots > 0
  <2>1. ctl' = ctl
    BY <1>5
  <2>2. OccupiedByOthers' \subseteq OccupiedByOthers
    BY <2>1 DEF OccupiedByOthers, Launching, InHand
  <2>3. OccupiedByOthers \subseteq Packages
    BY <1>1 DEF OccupiedByOthers
  <2>4. /\ Cardinality(OccupiedByOthers') <= Cardinality(OccupiedByOthers)
        /\ Cardinality(OccupiedByOthers') \in Nat /\ Cardinality(OccupiedByOthers) \in Nat
    BY <2>2, <2>3, PackagesFinite
  <2>5. ctl.slots \in Nat
    BY CtlParts DEF IInv
  <2>6. Cardinality(OccupiedByOthers) + ctl.slots <= Concurrency
    BY <1>5, <2>1 DEF IInv, SlotsCover
  <2>7. Cardinality(OccupiedByOthers') + ctl.slots <= Concurrency
    BY <2>4, <2>5, <2>6, <1>3
  <2> QED BY <1>5, <2>1, <2>7 DEF IInv, SlotsCover
<1> QED BY <1>4, <1>5 DEF SlotsCover

\* The package in hand gets its last status of this phase, which holds no slot.
LEMMA FinishSlots ==
  ASSUME IInv, NEW p \in Packages, InHand(ctl.phase, p), NEW rec \in Task,
         Save(p, rec), Done(p), rec.status \notin {"assigned", "running"}
  PROVE  SlotsCover'
<1> USE DEF IInv
<1>1. Occupied' \subseteq Occupied /\ p \notin Occupied'
  BY SaveType DEF Occupied, InStatus
<1>2. CASE ctl.phase # "launch"
  <2>1. ctl'.phase # "launch"
    BY <1>2, DoneCtl
  <2> QED BY <1>1, <2>1, FewerOccupied
<1>3. CASE ctl.phase = "launch"
  <2>1. Occupied' \subseteq OccupiedByOthers
    <3> SUFFICES ASSUME NEW q \in Occupied' PROVE ~Launching(q)
      BY <1>1 DEF OccupiedByOthers
    <3>1. q \in Packages /\ q # p
      BY <1>1 DEF Occupied, InStatus
    <3> QED BY <3>1, OneInHand DEF Launching
  <2>2. OccupiedByOthers' = Occupied'
    BY DoneCtl DEF OccupiedByOthers, Launching
  <2>3. OccupiedByOthers \subseteq Packages
    BY DEF OccupiedByOthers, Occupied, InStatus
  <2>4. /\ Cardinality(Occupied') <= Cardinality(OccupiedByOthers)
        /\ Cardinality(Occupied') \in Nat /\ Cardinality(OccupiedByOthers) \in Nat
    BY <2>1, <2>3, PackagesFinite
  <2>5. ctl.slots \in Nat /\ ctl'.slots = ctl.slots /\ ctl'.step = "start"
    BY CtlParts, DoneCtl
  <2>6. Cardinality(OccupiedByOthers) + ctl.slots <= Concurrency /\ Concurrency \in Nat
    BY <1>3, ConstantsAssumption DEF SlotsCover
  <2> QED BY <2>2, <2>4, <2>5, <2>6 DEF SlotsCover
<1> QED BY <1>2, <1>3

LEMMA FinishStep ==
  ASSUME IInv, NEW p \in Packages, InHand(ctl.phase, p), NEW rec \in Task,
         Save(p, rec), Done(p), Grows,
         rec.status \notin {"assigned", "running"} \cup ByCommand,
         rec.status = "review_passed" => ctl.phase = "reconcile" /\ ctl.step # "start",
         rec.status = "decision_required" => ctl.phase = "reconcile",
         UNCHANGED <<workers, record, result, integration, crashes, commands>>
  PROVE  IInv'
<1> USE DEF IInv
<1>1. TypeOK'
  BY SaveType, DoneCtl DEF TypeOK, Grows
<1>2. Finite'
  BY DEF Finite, Grows
<1>3. SlotsCover'
  BY FinishSlots
<1>4. ASSUME Unattended PROVE NothingRaises'
  <2>1. NothingRaises
    BY <1>4
  <2>2. \A q \in Packages : task'[q].status \notin ByCommand
    BY <2>1, SaveType DEF NothingRaises
  <2>3. ASSUME NEW q \in Packages, Started(q)' PROVE branch'[q] # NoBranch
    <3>1. Started(q)
      <4>1. CASE q = p
        BY <2>3, <4>1, SaveType, DoneCtl DEF Started, Launching
      <4>2. CASE q # p
        BY <2>3, <4>2, SaveType, DoneCtl DEF Started, Launching
      <4> QED BY <4>1, <4>2
    <3>2. branch[q] # NoBranch
      BY <3>1, <2>1 DEF NothingRaises
    <3> QED BY <3>2 DEF Grows, NoBranch
  <2>4. \A q \in DOMAIN ctl'.seen :
          /\ ctl'.seen[q].status \notin ByCommand
          /\ ctl'.phase = "hydrate" => ctl'.seen[q].status # "merged"
    BY <2>1, DoneCtl DEF NothingRaises
  <2>5. RootCommit \in integration'
    BY <2>1, DoneCtl DEF NothingRaises
  <2> QED BY <2>2, <2>3, <2>4, <2>5 DEF NothingRaises
<1>5. ASSUME Uninterrupted PROVE DecidedInTick'
  <2>1. ctl.phase # "reconcile" => Undecided' \subseteq Undecided \ {p}
    BY SaveType DEF Undecided, InStatus
  <2>2. DOMAIN ctl'.seen = DOMAIN ctl.seen \ {p} /\ ctl'.phase = ctl.phase
    BY DoneCtl
  <2> QED BY <1>5, <2>1, <2>2 DEF DecidedInTick
<1> QED BY <1>1, <1>2, <1>3, <1>4, <1>5 DEF WellFormed

\* The package in hand is saved and stays in hand.
LEMMA HoldStep ==
  ASSUME IInv, NEW p \in Packages, InHand(ctl.phase, p), NEW rec \in Task,
         ctl.phase \in {"reconcile", "integrate"},
         NEW step \in Steps, NEW report \in Report \cup {NoReport},
         Save(p, rec),
         Keeps(p, rec, step, report),
         rec.status \in {"validating", "reviewing", "integrating"},
         ctl.phase = "reconcile" => record[p] # 0 \/ ctl.step # "start",
         UNCHANGED <<workers, record, result, git, crashes, commands>>
  PROVE  IInv'
<1> USE DEF IInv, git
<1>1. p \in DOMAIN ctl.seen
  BY DEF InHand
<1>0. /\ Local(ctl')
      /\ ctl'.phase = ctl.phase
      /\ DOMAIN ctl'.seen = DOMAIN ctl.seen
      /\ ctl'.seen[p] = rec
      /\ \A q \in DOMAIN ctl.seen : q # p => ctl'.seen[q] = ctl.seen[q]
  BY <1>1, HoldCtl
<1>2. TypeOK'
  BY <1>0, SaveType DEF TypeOK
<1>3. Finite'
  BY DEF Finite
<1>4. SlotsCover'
  <2>1. Occupied' \subseteq Occupied
    BY SaveType DEF Occupied, InStatus
  <2>2. ctl'.phase # "launch"
    BY <1>0
  <2> QED BY <2>1, <2>2, FewerOccupied
<1>5. ASSUME Unattended PROVE NothingRaises'
  <2>1. NothingRaises
    BY <1>5
  <2>2. \A q \in Packages : task'[q].status \notin ByCommand
    BY <2>1, SaveType DEF NothingRaises, ByCommand
  <2>3. ASSUME NEW q \in Packages, Started(q)' PROVE branch'[q] # NoBranch
    <3>1. Started(q)
      <4>1. InHand("reconcile", q)' => q = p
        <5>1. ASSUME InHand("reconcile", q)' PROVE InHand(ctl.phase, q)
          BY <1>0, <5>1 DEF InHand
        <5> QED BY <5>1, OneInHand
      <4>2. ctl'.phase = ctl.phase
        BY <1>0
      <4>3. CASE q = p
        BY <2>3, <4>2, <4>3, SaveType DEF Started, Launching, InHand
      <4>4. CASE q # p
        BY <2>3, <4>1, <4>2, <4>4, SaveType DEF Started, Launching, InHand
      <4> QED BY <4>3, <4>4
    <3> QED BY <3>1, <2>1 DEF NothingRaises
  <2>4. \A q \in DOMAIN ctl'.seen :
          /\ ctl'.seen[q].status \notin ByCommand
          /\ ctl'.phase = "hydrate" => ctl'.seen[q].status # "merged"
    <3> SUFFICES ASSUME NEW q \in DOMAIN ctl'.seen
                 PROVE  ctl'.seen[q].status \notin ByCommand /\ ctl'.phase # "hydrate"
      OBVIOUS
    <3>1. ctl'.phase # "hydrate" /\ q \in DOMAIN ctl.seen
      BY <1>0
    <3>2. CASE q = p
      BY <1>0, <3>1, <3>2 DEF ByCommand
    <3>3. CASE q # p
      BY <1>0, <2>1, <3>1, <3>3 DEF NothingRaises
    <3> QED BY <3>1, <3>2, <3>3
  <2>5. RootCommit \in integration'
    BY <1>0, <2>1 DEF NothingRaises
  <2> QED BY <2>2, <2>3, <2>4, <2>5 DEF NothingRaises
<1>6. ASSUME Uninterrupted PROVE DecidedInTick'
  <2>1. Undecided' \subseteq Undecided
    BY SaveType DEF Undecided, InStatus
  <2>2. ctl'.phase = ctl.phase
    BY <1>0
  <2> QED BY <1>6, <2>1, <2>2 DEF DecidedInTick
<1> QED BY <1>2, <1>3, <1>4, <1>5, <1>6 DEF WellFormed

\* The package in hand gets one step further, without a save.
LEMMA MoveStep ==
  ASSUME IInv, NEW p \in Packages, InHand(ctl.phase, p), ctl.step # "start",
         NEW step \in Steps \ {"start"}, ctl' = [ctl EXCEPT !.step = step],
         workers' \in [Packages -> Seq(Stage)],
         record' \in [Packages -> Nat],
         \A q \in Packages : record'[q] # 0 => record[q] # 0 \/ Launching(q),
         integration' \in SUBSET Commit, IsFiniteSet(integration'),
         integration \subseteq integration',
         UNCHANGED <<task, result, branch, dirty, crashes, commands>>
  PROVE  IInv'
<1> USE DEF IInv
<1>1. /\ Local(ctl')
      /\ ctl'.phase = ctl.phase /\ ctl'.step = step
      /\ ctl'.seen = ctl.seen /\ ctl'.slots = ctl.slots
  BY StepCtl
<1>2. TypeOK' /\ Finite'
  BY <1>1 DEF TypeOK, Finite
<1>3. \A q \in Packages : Launching(q)' <=> Launching(q)
  BY <1>1 DEF Launching, InHand
<1>4. SlotsCover'
  <2>1. Occupied' = Occupied
    BY DEF Occupied, InStatus
  <2>2. OccupiedByOthers' = OccupiedByOthers
    <3>1. Occupied \subseteq Packages
      BY DEF Occupied, InStatus
    <3> QED BY <2>1, <1>3, <3>1 DEF OccupiedByOthers
  <2> QED BY <2>1, <2>2, <1>1 DEF SlotsCover
<1>5. ASSUME Unattended PROVE NothingRaises'
  <2>1. NothingRaises
    BY <1>5
  <2>2. \A q \in Packages : Started(q)' => Started(q)
    BY <1>1, <1>3 DEF Started, InHand
  <2>3. \A q \in Packages : /\ task'[q].status \notin ByCommand
                            /\ Started(q)' => branch'[q] # NoBranch
    BY <2>1, <2>2 DEF NothingRaises
  <2>4. RootCommit \in integration'
    BY <1>1, <2>1 DEF NothingRaises
  <2> QED BY <1>1, <2>1, <2>3, <2>4 DEF NothingRaises
<1>6. ASSUME Uninterrupted PROVE DecidedInTick'
  BY <1>1, <1>6 DEF DecidedInTick, Undecided, InStatus
<1> QED BY <1>2, <1>4, <1>5, <1>6 DEF WellFormed

\* The next phase begins, over the tasks in S.
LEMMA EnterStep ==
  ASSUME IInv, NEW S \in SUBSET Packages, NEW phase \in Phases \ {"idle", "dead"},
         NEW landed \in SUBSET Packages, NEW head \in SUBSET Commit, NEW slots \in Nat,
         ctl' = [phase |-> phase, step |-> "start", seen |-> Copies(S),
                 landed |-> landed, report |-> NoReport, head |-> head,
                 slots |-> slots],
         phase = "hydrate" => \A p \in S : task[p].status # "merged",
         phase = "launch" => Cardinality(Occupied) + slots <= Concurrency,
         \/ phase = "reconcile"
         \/ phase = "decide" /\ Undecided \subseteq S
         \/ Uninterrupted => Undecided = {},
         UNCHANGED <<task, workers, record, result, git, crashes, commands>>
  PROVE  IInv'
<1> USE DEF IInv, git
<1>1. /\ Local(ctl')
      /\ ctl'.phase = phase /\ ctl'.step = "start" /\ ctl'.slots = slots
      /\ ctl'.seen = Copies(S)
  BY EnterLocal
<1>2. DOMAIN ctl'.seen = S /\ \A p \in S : ctl'.seen[p] = task[p]
  BY <1>1, CopiesType
<1>3. TypeOK' /\ Finite'
  BY <1>1 DEF TypeOK, Finite
<1>4. SlotsCover'
  <2>1. Occupied' = Occupied /\ Occupied \subseteq Packages
    BY DEF Occupied, InStatus
  <2>2. OccupiedByOthers' = Occupied
    BY <1>1, <2>1 DEF OccupiedByOthers, Launching
  <2> QED BY <1>1, <2>1, <2>2 DEF SlotsCover
<1>5. ASSUME Unattended PROVE NothingRaises'
  <2>1. NothingRaises
    BY <1>5
  <2>2. \A q \in Packages : Started(q)' => Started(q)
    BY <1>1 DEF Started, Launching
  <2>3. \A q \in Packages : /\ task'[q].status \notin ByCommand
                            /\ Started(q)' => branch'[q] # NoBranch
    BY <2>1, <2>2 DEF NothingRaises
  <2>4. RootCommit \in integration'
    BY <1>1, <2>1 DEF NothingRaises
  <2>5. \A p \in S : /\ ctl'.seen[p].status \notin ByCommand
                     /\ ctl'.phase = "hydrate" => ctl'.seen[p].status # "merged"
    BY <1>1, <1>2, <2>1 DEF NothingRaises
  <2> QED BY <1>2, <2>3, <2>4, <2>5 DEF NothingRaises
<1>6. ASSUME Uninterrupted PROVE DecidedInTick'
  <2>1. Undecided' = Undecided
    BY DEF Undecided, InStatus
  <2> QED BY <1>1, <1>2, <1>6, <2>1 DEF DecidedInTick
<1> QED BY <1>3, <1>4, <1>5, <1>6 DEF WellFormed

\* The tick ends, the process dies, or it is started again.
LEMMA StopStep ==
  ASSUME IInv, NEW phase \in {"idle", "dead"}, ctl' = [Idle EXCEPT !.phase = phase],
         Uninterrupted => Undecided = {},
         UNCHANGED <<task, workers, record, result, git, commands>>,
         crashes' \in Nat
  PROVE  IInv'
<1> USE DEF IInv, git
<1>1. phase \in Phases
  BY DEF Phases
<1>2. /\ Local(ctl')
      /\ ctl'.phase = phase /\ ctl'.step = "start" /\ DOMAIN ctl'.seen = {}
  BY <1>1, StoppedLocal
<1>3. TypeOK' /\ Finite'
  BY <1>2 DEF TypeOK, Finite
<1>4. SlotsCover'
  BY <1>2, FewerOccupied DEF Occupied, InStatus
<1>5. ASSUME Unattended PROVE NothingRaises'
  <2>1. NothingRaises
    BY <1>5
  <2>2. \A q \in Packages : Started(q)' => Started(q)
    BY <1>2 DEF Started, Launching
  <2>3. \A q \in Packages : /\ task'[q].status \notin ByCommand
                            /\ Started(q)' => branch'[q] # NoBranch
    BY <2>1, <2>2 DEF NothingRaises
  <2>4. RootCommit \in integration'
    BY <1>2, <1>5, <2>1 DEF NothingRaises
  <2> QED BY <1>2, <2>3, <2>4 DEF NothingRaises
<1>6. ASSUME Uninterrupted PROVE DecidedInTick'
  BY <1>2, <1>6 DEF DecidedInTick, Undecided, InStatus
<1> QED BY <1>3, <1>4, <1>5, <1>6 DEF WellFormed

\* A running task is passed over.
LEMMA PassStep ==
  ASSUME IInv, NEW p \in Packages, InHand(ctl.phase, p), ctl.phase = "reconcile",
         Done(p),
         UNCHANGED <<task, workers, record, result, git, crashes, commands>>
  PROVE  IInv'
<1> USE DEF IInv, git
<1>1. TypeOK' /\ Finite'
  BY DoneCtl DEF TypeOK, Finite
<1>2. SlotsCover'
  BY DoneCtl, FewerOccupied DEF Occupied, InStatus
<1>3. ASSUME Unattended PROVE NothingRaises'
  <2>1. NothingRaises
    BY <1>3
  <2>2. \A q \in Packages : Started(q)' => Started(q)
    BY DoneCtl DEF Started, Launching
  <2>3. \A q \in Packages : /\ task'[q].status \notin ByCommand
                            /\ Started(q)' => branch'[q] # NoBranch
    BY <2>1, <2>2 DEF NothingRaises
  <2>4. RootCommit \in integration'
    BY <2>1, DoneCtl DEF NothingRaises
  <2>5. \A q \in DOMAIN ctl'.seen :
          /\ ctl'.seen[q].status \notin ByCommand
          /\ ctl'.phase = "hydrate" => ctl'.seen[q].status # "merged"
    BY <2>1, DoneCtl DEF NothingRaises
  <2> QED BY <2>3, <2>4, <2>5 DEF NothingRaises
<1>4. ASSUME Uninterrupted PROVE DecidedInTick'
  BY DoneCtl, <1>4 DEF DecidedInTick
<1> QED BY <1>1, <1>2, <1>3, <1>4 DEF WellFormed

\* A worker changes its worktree, its result or its own state.
LEMMA AgentStep ==
  ASSUME IInv, Grows,
         workers' \in [Packages -> Seq(Stage)],
         result' \in [Packages -> Report \cup {NoReport}],
         "unreadable" \notin Faults
           => \A p \in Packages : result'[p].status # "unreadable" \/ result'[p] = result[p],
         UNCHANGED <<task, record, integration, ctl, crashes, commands>>
  PROVE  IInv'
<1> USE DEF IInv
<1>1. TypeOK' /\ Finite'
  BY DEF TypeOK, Finite, Grows
<1>2. SlotsCover'
  BY FewerOccupied DEF Occupied, InStatus
<1>3. ASSUME Unattended PROVE NothingRaises'
  <2>1. NothingRaises
    BY <1>3
  <2>2. \A q \in Packages : Started(q)' => Started(q)
    BY DEF Started, Launching, InHand
  <2>3. \A q \in Packages : /\ task'[q].status \notin ByCommand
    BY <1>3, <2>1 DEF NothingRaises
  <2>4. \A q \in Packages : Started(q)' => branch'[q] # NoBranch
    BY <2>1, <2>2 DEF NothingRaises, Grows, NoBranch
  <2> QED BY <2>1, <2>3, <2>4 DEF NothingRaises
<1>4. ASSUME Uninterrupted PROVE DecidedInTick'
  BY <1>4 DEF DecidedInTick, Undecided, InStatus
<1> QED BY <1>1, <1>2, <1>3, <1>4 DEF WellFormed

\* A user's command writes tasks.json.
LEMMA UserStep ==
  ASSUME IInv, "operator" \in Faults, task' \in [Packages -> Task],
         \A p \in Packages :
           task'[p].status \in {"assigned", "running", "decision_required"}
             => task'[p].status = task[p].status,
         commands' \in Nat,
         UNCHANGED <<workers, record, result, git, ctl, crashes>>
  PROVE  IInv'
<1> USE DEF IInv, git
<1>1. TypeOK' /\ Finite'
  BY DEF TypeOK, Finite
<1>2. SlotsCover'
  <2>1. Occupied' \subseteq Occupied
    BY DEF Occupied, InStatus
  <2> QED BY <2>1, FewerOccupied
<1>3. ~Unattended
  BY DEF Unattended
<1>4. ASSUME Uninterrupted PROVE DecidedInTick'
  <2>1. Undecided' \subseteq Undecided
    BY DEF Undecided, InStatus
  <2> QED BY <1>4, <2>1 DEF DecidedInTick
<1> QED BY <1>1, <1>2, <1>3, <1>4 DEF WellFormed

-----------------------------------------------------------------------------
(***************************************************************************)
(* The actions                                                             *)
(***************************************************************************)
LEMMA Statuses ==
  {"planned", "ready", "assigned", "running", "handoff_needed", "decision_required",
   "validating", "reviewing", "review_passed", "merge_ready", "integrating",
   "merged", "rejected", "blocked", "failed", "merge_approved"} \subseteq TASK_STATES
BY DEF TASK_STATES

LEMMA SeenTask ==
  ASSUME TypeOK, NEW phase, NEW p, InHand(phase, p), NEW status \in TASK_STATES
  PROVE  /\ phase = ctl.phase /\ p \in DOMAIN ctl.seen
         /\ ctl.seen[p] \in Task
         /\ [ctl.seen[p] EXCEPT !.status = status] \in Task
         /\ [ctl.seen[p] EXCEPT !.status = status].status = status
<1>1. phase = ctl.phase /\ p \in DOMAIN ctl.seen
  BY DEF InHand
<1>2. ctl.seen[p] \in Task
  BY <1>1, CtlParts
<1> QED BY <1>1, <1>2, WithStatus

LEMMA FinishStatus ==
  ASSUME IInv, NEW p \in Packages, NEW phase, InHand(phase, p),
         NEW status \in {"ready", "handoff_needed", "decision_required", "blocked",
                         "failed", "merge_ready", "review_passed", "merged"},
         SaveStatus(p, status), Done(p), Grows,
         status = "review_passed" => phase = "reconcile" /\ ctl.step # "start",
         status = "decision_required" => phase = "reconcile",
         UNCHANGED <<workers, record, result, integration, crashes, commands>>
  PROVE  IInv'
<1>1. TypeOK
  BY DEF IInv
<1>2. status \in TASK_STATES
  BY Statuses
<1> DEFINE rec == [ctl.seen[p] EXCEPT !.status = status]
<1>3. phase = ctl.phase /\ rec \in Task /\ rec.status = status
  BY <1>1, <1>2, SeenTask
<1>4. Save(p, rec)
  BY DEF SaveStatus
<1>5. status \notin {"assigned", "running"} \cup ByCommand
  BY DEF ByCommand
<1> HIDE DEF rec
<1> QED BY <1>3, <1>4, <1>5, FinishStep

LEMMA HandoffOrBlockStep ==
  ASSUME IInv, NEW p \in Packages, NEW phase, InHand(phase, p), HandoffOrBlock(p),
         UNCHANGED <<workers, record, result, crashes, commands>>
  PROVE  IInv'
<1>1. Grows
  BY CheckpointGrows DEF IInv, HandoffOrBlock
<1>2. CASE SaveStatus(p, "handoff_needed")
  BY <1>1, <1>2, FinishStatus DEF HandoffOrBlock
<1>3. CASE SaveStatus(p, "blocked")
  BY <1>1, <1>3, FinishStatus DEF HandoffOrBlock
<1> QED BY <1>2, <1>3 DEF HandoffOrBlock

LEMMA HydrateSteps ==
  ASSUME IInv, NEW p \in Packages, Hydrate(p) \/ HydrateRaises(p)
  PROVE  IInv'
<1>1. CASE Hydrate(p)
  <2>1. Grows
    BY <1>1, StaysGrows DEF IInv, Hydrate, git
  <2>2. CASE p \in ctl.landed
    BY <1>1, <2>1, <2>2, FinishStatus DEF Hydrate, git
  <2>3. CASE p \notin ctl.landed
    BY <1>1, <2>1, <2>3, FinishStatus DEF Hydrate, git
  <2> QED BY <2>2, <2>3
<1>2. CASE HydrateRaises(p)
  <2>1. p \in DOMAIN ctl.seen /\ ctl.phase = "hydrate"
    BY <1>2 DEF HydrateRaises, InHand
  <2>3. Uninterrupted => Undecided = {}
    BY <2>1 DEF IInv, DecidedInTick
  <2>4. crashes' \in Nat
    BY <1>2 DEF HydrateRaises, IInv, TypeOK
  <2> QED BY <1>2, <2>3, <2>4, StopStep DEF HydrateRaises, Die
<1> QED BY <1>1, <1>2

LEMMA MissingRecordStep ==
  ASSUME IInv, NEW p \in Packages, MissingRecord(p)
  PROVE  IInv'
<1>1. Grows
  BY StaysGrows DEF IInv, MissingRecord, git
<1> QED BY <1>1, FinishStatus DEF MissingRecord, At, git

LEMMA UnreadableResultStep ==
  ASSUME IInv, NEW p \in Packages, UnreadableResult(p)
  PROVE  IInv'
<1>1. "unreadable" \in Faults
  BY DEF UnreadableResult, IInv, WellFormed
<1>2. ~Uninterrupted
  BY <1>1 DEF Uninterrupted
<1>3. crashes' \in Nat
  BY DEF UnreadableResult, IInv, TypeOK
<1> QED BY <1>2, <1>3, StopStep DEF UnreadableResult, Die

LEMMA TakeResultStep ==
  ASSUME IInv, NEW p \in Packages, TakeResult(p)
  PROVE  IInv'
<1> DEFINE rec == [ctl.seen[p] EXCEPT !.status = "validating"]
<1>1. TypeOK
  BY DEF IInv
<1>2. ctl.phase = "reconcile" /\ p \in DOMAIN ctl.seen /\ InHand(ctl.phase, p)
  BY DEF TakeResult, At, InHand
<1>3. rec \in Task /\ rec.status = "validating"
  BY <1>1, <1>2, SeenTask, Statuses
<1>4. result[p] \in Report \cup {NoReport} /\ "validating" \in Steps
  BY <1>1 DEF TypeOK, Steps
<1>5. Keeps(p, rec, "validating", result[p])
  BY DEF TakeResult, Keeps
<1>6. Save(p, rec) /\ record[p] # 0
  BY DEF TakeResult, SaveStatus
<1>7. UNCHANGED <<workers, record, result, git, crashes, commands>>
  BY DEF TakeResult
<1> HIDE DEF rec
<1> QED BY <1>2, <1>3, <1>4, <1>5, <1>6, <1>7, HoldStep

LEMMA WorkerGaveUpStep ==
  ASSUME IInv, NEW p \in Packages, WorkerGaveUp(p)
  PROVE  IInv'
<1>1. Grows
  BY StaysGrows DEF IInv, WorkerGaveUp, git
<1> QED BY <1>1, FinishStatus DEF WorkerGaveUp, At, git

LEMMA ValidatedStep ==
  ASSUME IInv, NEW p \in Packages, Validated(p)
  PROVE  IInv'
<1> DEFINE rec == [ctl.seen[p] EXCEPT !.status = "reviewing", !.commit = branch[p]]
<1>1. TypeOK
  BY DEF IInv
<1>2. ctl.phase = "reconcile" /\ p \in DOMAIN ctl.seen /\ InHand(ctl.phase, p)
  BY DEF Validated, At, InHand
<1>3. rec \in Task /\ rec.status = "reviewing"
  <2>1. ctl.seen[p] \in Task /\ branch[p] \in SUBSET Commit /\ "reviewing" \in TASK_STATES
    BY <1>1, <1>2, CtlParts, Statuses DEF TypeOK
  <2> QED BY <2>1 DEF Task
<1>4. ctl.report \in Report \cup {NoReport} /\ "reviewing" \in Steps
  BY <1>1, CtlParts DEF Steps
<1>5. ctl' = [ctl EXCEPT !.step = "reviewing", !.seen[p] = rec]
  BY DEF Validated
<1>6. Save(p, rec) /\ ctl.step = "validating"
  BY DEF Validated, At
<1>7. UNCHANGED <<workers, record, result, git, crashes, commands>>
  BY DEF Validated
<1> HIDE DEF rec
<1>8. Keeps(p, rec, "reviewing", ctl.report)
  BY <1>1, <1>5, CtlParts DEF Keeps
<1> QED BY <1>2, <1>3, <1>4, <1>6, <1>7, <1>8, HoldStep

LEMMA ReviewPassedStep ==
  ASSUME IInv, NEW p \in Packages, ReviewPassed(p)
  PROVE  IInv'
<1>1. Grows
  BY StaysGrows DEF IInv, ReviewPassed, git
<1>2. CASE p \in Approval
  BY <1>1, <1>2, FinishStatus DEF ReviewPassed, At, git
<1>3. CASE p \notin Approval
  BY <1>1, <1>3, FinishStatus DEF ReviewPassed, At, git
<1> QED BY <1>2, <1>3

LEMMA GateFailedSteps ==
  ASSUME IInv, NEW p \in Packages, ValidationFailed(p) \/ ReviewFailed(p)
  PROVE  IInv'
BY HandoffOrBlockStep DEF ValidationFailed, ReviewFailed, At

LEMMA WorkerLostStep ==
  ASSUME IInv, NEW p \in Packages, WorkerLost(p)
  PROVE  IInv'
<1>1. Grows /\ TypeOK
  BY StaysGrows DEF IInv, WorkerLost, git
<1>2. ctl.phase = "reconcile" /\ p \in DOMAIN ctl.seen /\ InHand(ctl.phase, p)
  BY DEF WorkerLost, At, InHand
<1>3. PICK handoff \in BOOLEAN :
        Save(p, [ctl.seen[p] EXCEPT !.status = "decision_required", !.handoff = handoff])
  BY DEF WorkerLost
<1> DEFINE rec == [ctl.seen[p] EXCEPT !.status = "decision_required", !.handoff = handoff]
<1>4. rec \in Task /\ rec.status = "decision_required"
  <2>1. ctl.seen[p] \in Task /\ "decision_required" \in TASK_STATES
    BY <1>1, <1>2, CtlParts, Statuses
  <2> QED BY <2>1 DEF Task
<1>5. Save(p, rec) /\ Done(p) /\ UNCHANGED <<workers, record, result, git, crashes, commands>>
  BY <1>3 DEF WorkerLost
<1>6. rec.status \notin {"assigned", "running"} \cup ByCommand
  BY <1>4 DEF ByCommand
<1> HIDE DEF rec
<1> QED BY <1>1, <1>2, <1>4, <1>5, <1>6, FinishStep DEF git

LEMMA ReconcileSteps ==
  ASSUME IInv, NEW p \in Packages, Reconcile(p)
  PROVE  IInv'
<1>1. CASE StillRunning(p)
  <2>1. ctl.phase = "reconcile" /\ InHand(ctl.phase, p)
    BY <1>1 DEF StillRunning, At, InHand
  <2> QED BY <1>1, <2>1, PassStep DEF StillRunning
<1> QED BY <1>1, MissingRecordStep, UnreadableResultStep, TakeResultStep,
           WorkerGaveUpStep, ValidatedStep, ReviewPassedStep, GateFailedSteps,
           WorkerLostStep DEF Reconcile

LEMMA DecideSteps ==
  ASSUME IInv, NEW p \in Packages, Decide(p)
  PROVE  IInv'
<1>1. CASE HandOver(p)
  BY <1>1, HandoffOrBlockStep DEF HandOver
<1>2. CASE AskUser(p)
  <2>1. Grows
    BY <1>2, StaysGrows DEF IInv, AskUser, git
  <2> QED BY <1>2, <2>1, FinishStatus DEF AskUser, git
<1> QED BY <1>1, <1>2 DEF Decide

\* The merge commit of integrate_one.
LEMMA IntegratedType ==
  ASSUME TypeOK, Finite, NEW p \in Packages
  PROVE  /\ integration \cup branch[p] \cup {MergeCommit} \in SUBSET Commit
         /\ IsFiniteSet(integration \cup branch[p] \cup {MergeCommit})
         /\ MergeCommit \in Commit /\ MergeCommit.author = 0
<1>1. IsFiniteSet(Own(0, integration))
  <2>1. Own(0, integration) \subseteq integration
    BY DEF Own
  <2> QED BY <2>1, FS_Subset DEF Finite
<1>2. Cardinality(Own(0, integration)) \in Nat
  BY <1>1, FS_CardinalityType
<1>3. MergeCommit \in Commit /\ MergeCommit.author = 0
  BY <1>2 DEF MergeCommit, Commit
<1>4. IsFiniteSet(integration \cup branch[p])
  BY FS_Union DEF Finite
<1>5. IsFiniteSet(integration \cup branch[p] \cup {MergeCommit})
  BY <1>4, FS_AddElement
<1> QED BY <1>3, <1>5 DEF TypeOK

LEMMA IntegrateOneSteps ==
  ASSUME IInv, NEW p \in Packages, IntegrateOne(p)
  PROVE  IInv'
<1>1. TypeOK /\ Finite
  BY DEF IInv
<1>2. CASE BeginIntegration(p)
  <2> DEFINE rec == [ctl.seen[p] EXCEPT !.status = "integrating"]
  <2>1. ctl.phase = "integrate" /\ p \in DOMAIN ctl.seen /\ InHand(ctl.phase, p)
    BY <1>2 DEF BeginIntegration, At, InHand
  <2>2. rec \in Task /\ rec.status = "integrating"
    BY <1>1, <2>1, SeenTask, Statuses
  <2>3. ctl.report \in Report \cup {NoReport} /\ "integrating" \in Steps
    BY <1>1, CtlParts DEF Steps
  <2>4. ctl' = [ctl EXCEPT !.step = "integrating", !.seen[p] = rec]
    BY <1>2 DEF BeginIntegration
  <2>5. Save(p, rec) /\ UNCHANGED <<workers, record, result, git, crashes, commands>>
    BY <1>2 DEF BeginIntegration, SaveStatus
  <2> HIDE DEF rec
  <2>6. Keeps(p, rec, "integrating", ctl.report)
    BY <1>1, <2>4, CtlParts DEF Keeps
  <2> QED BY <2>1, <2>2, <2>3, <2>5, <2>6, HoldStep
<1>3. CASE Integrate(p)
  <2>1. InHand(ctl.phase, p) /\ ctl.step # "start" /\ "merged" \in Steps \ {"start"}
    BY <1>3 DEF Integrate, At, InHand, Steps
  <2>2. workers' \in [Packages -> Seq(Stage)] /\ record' \in [Packages -> Nat]
    BY <1>1, <1>3 DEF Integrate, TypeOK
  <2>3. integration' \in SUBSET Commit /\ IsFiniteSet(integration')
        /\ integration \subseteq integration'
    BY <1>1, <1>3, IntegratedType DEF Integrate
  <2> QED BY <1>3, <2>1, <2>2, <2>3, MoveStep DEF Integrate
<1>4. CASE IntegrateRaises(p)
  <2>1. InHand(ctl.phase, p) /\ ctl.step # "start" /\ "refused" \in Steps \ {"start"}
    BY <1>4 DEF IntegrateRaises, At, InHand, Steps
  <2>2. workers' \in [Packages -> Seq(Stage)] /\ record' \in [Packages -> Nat]
        /\ integration' \in SUBSET Commit /\ IsFiniteSet(integration')
    BY <1>1, <1>4 DEF IntegrateRaises, TypeOK, Finite, git
  <2> QED BY <1>4, <2>1, <2>2, MoveStep DEF IntegrateRaises, git
<1>5. CASE RecordIntegration(p)
  <2>1. Grows
    BY <1>1, <1>5, StaysGrows DEF RecordIntegration, git
  <2>2. CASE ctl.step = "merged"
    BY <1>5, <2>1, <2>2, FinishStatus DEF RecordIntegration, At, git
  <2>3. CASE ctl.step # "merged"
    BY <1>5, <2>1, <2>3, FinishStatus DEF RecordIntegration, At, git
  <2> QED BY <2>2, <2>3
<1> QED BY <1>2, <1>3, <1>4, <1>5 DEF IntegrateOne

\* The slots that are free when the launches begin.
LEMMA FreeSlotsCover ==
  ASSUME IInv
  PROVE  FreeSlots \in Nat /\ Cardinality(Occupied) + FreeSlots <= Concurrency
<1> DEFINE active == InStatus(ACTIVE_STATES)
<1>1. Occupied \subseteq active /\ active \subseteq Packages
  BY DEF Occupied, InStatus, ACTIVE_STATES
<1>2. /\ Cardinality(Occupied) \in Nat /\ Cardinality(active) \in Nat
      /\ Cardinality(Occupied) <= Cardinality(active)
  BY <1>1, PackagesFinite
<1>3. Cardinality(Occupied) <= Concurrency /\ Concurrency \in Nat
  BY ConstantsAssumption DEF IInv, SlotsCover
<1>4. FreeSlots = IF Cardinality(active) < Concurrency
                    THEN Concurrency - Cardinality(active) ELSE 0
  BY DEF FreeSlots
<1> HIDE DEF active
<1> QED BY <1>2, <1>3, <1>4

LEMMA PhaseSteps ==
  ASSUME IInv,
         StartTick \/ EndHydrate \/ EndReconcile \/ EndDecide \/ EndIntegrate \/ EndTick
  PROVE  IInv'
<1>1. TypeOK /\ NoBranch \in SUBSET Commit /\ {} \in SUBSET Packages /\ 0 \in Nat
  BY DEF IInv, NoBranch
<1>2. Uninterrupted /\ ctl.phase \notin {"reconcile", "decide"} => Undecided = {}
  BY DEF IInv, DecidedInTick
<1>3. CASE StartTick
  <2> DEFINE open == {p \in Packages :
                        /\ task[p].status \notin ACTIVE_STATES \cup TERMINAL_STATES
                        /\ RepairRequired(p) \/ Merged(p) \/ ExecutionReady(p)}
             landed == {p \in open : Merged(p)}
  <2>1. open \in SUBSET Packages /\ landed \in SUBSET Packages
    OBVIOUS
  <2>2. \A p \in open : task[p].status # "merged"
    BY DEF TERMINAL_STATES
  <2>3. ctl' = [phase |-> "hydrate", step |-> "start", seen |-> Copies(open),
                landed |-> landed, report |-> NoReport, head |-> NoBranch, slots |-> 0]
    BY <1>3 DEF StartTick, Idle
  <2>4. ctl.phase = "idle" /\ UNCHANGED <<task, workers, record, result, git, crashes, commands>>
    BY <1>3 DEF StartTick
  <2>5. "hydrate" \in Phases \ {"idle", "dead"}
    BY DEF Phases
  <2> HIDE DEF open, landed
  <2> QED BY <1>1, <1>2, <2>1, <2>2, <2>3, <2>4, <2>5, EnterStep
<1>4. CASE EndHydrate
  <2>1. ctl' = [phase |-> "reconcile", step |-> "start",
                seen |-> Copies(InStatus(ACTIVE_STATES)), landed |-> {},
                report |-> NoReport, head |-> NoBranch, slots |-> 0]
    BY <1>4 DEF EndHydrate, Enter, Idle
  <2>2. InStatus(ACTIVE_STATES) \in SUBSET Packages /\ "reconcile" \in Phases \ {"idle", "dead"}
    BY DEF InStatus, Phases
  <2> QED BY <1>1, <1>4, <2>1, <2>2, EnterStep DEF EndHydrate
<1>5. CASE EndReconcile
  <2>1. ctl' = [phase |-> "decide", step |-> "start",
                seen |-> Copies(Undecided), landed |-> {},
                report |-> NoReport, head |-> NoBranch, slots |-> 0]
    BY <1>5 DEF EndReconcile, Enter, Idle, Undecided
  <2>2. Undecided \in SUBSET Packages /\ "decide" \in Phases \ {"idle", "dead"}
    BY DEF Undecided, InStatus, Phases
  <2> QED BY <1>1, <1>5, <2>1, <2>2, EnterStep DEF EndReconcile
<1>6. CASE EndDecide
  <2> DEFINE candidates == InStatus(IntegrationStates)
             first == {p \in candidates : \A q \in candidates : p <= q}
             head == UNION {branch[p] : p \in first}
  <2>1. first \in SUBSET Packages /\ head \in SUBSET Commit
    BY <1>1 DEF InStatus, TypeOK
  <2>2. Uninterrupted => Undecided = {}
    BY <1>6 DEF EndDecide, IInv, DecidedInTick
  <2>3. UNCHANGED <<task, workers, record, result, git, crashes, commands>> /\ crashes \in Nat
    BY <1>1, <1>6 DEF EndDecide, TypeOK
  <2>4. CASE \E p \in candidates : branch[p] = NoBranch
    <3>1. ctl' = [Idle EXCEPT !.phase = "dead"]
      BY <1>6, <2>4 DEF EndDecide, Die
    <3> QED BY <2>2, <2>3, <3>1, StopStep
  <2>5. CASE ~\E p \in candidates : branch[p] = NoBranch
    <3>1. ctl' = [Idle EXCEPT !.phase = "integrate", !.seen = Copies(first), !.head = head]
      BY <1>6, <2>5 DEF EndDecide
    <3>2. ctl' = [phase |-> "integrate", step |-> "start", seen |-> Copies(first),
                  landed |-> {}, report |-> NoReport, head |-> head, slots |-> 0]
      BY <3>1 DEF Idle
    <3>3. "integrate" \in Phases \ {"idle", "dead"}
      BY DEF Phases
    <3> HIDE DEF first, head
    <3> QED BY <1>1, <2>1, <2>2, <2>3, <3>2, <3>3, EnterStep
  <2> QED BY <2>4, <2>5
<1>7. CASE EndIntegrate
  <2> DEFINE launchable == {p \in InStatus(LaunchStates) : Len(workers[p]) < MaxSpawns}
  <2>1. launchable \in SUBSET Packages /\ "launch" \in Phases \ {"idle", "dead"}
    BY DEF InStatus, Phases
  <2>2. ctl' = [phase |-> "launch", step |-> "start", seen |-> Copies(launchable),
                landed |-> {}, report |-> NoReport, head |-> NoBranch, slots |-> FreeSlots]
    BY <1>7 DEF EndIntegrate, Idle
  <2>3. ctl.phase = "integrate" /\ UNCHANGED <<task, workers, record, result, git, crashes, commands>>
    BY <1>7 DEF EndIntegrate
  <2> HIDE DEF launchable
  <2> QED BY <1>1, <1>2, <2>1, <2>2, <2>3, FreeSlotsCover, EnterStep
<1>8. CASE EndTick
  <2>1. ctl' = [Idle EXCEPT !.phase = "idle"]
    BY <1>8, IdleAgain DEF EndTick
  <2>2. crashes' \in Nat /\ ctl.phase = "launch"
        /\ UNCHANGED <<task, workers, record, result, git, commands>>
    BY <1>1, <1>8 DEF EndTick, TypeOK
  <2> QED BY <1>2, <2>1, <2>2, StopStep
<1> QED BY <1>3, <1>4, <1>5, <1>6, <1>7, <1>8

\* The launch of a task takes one of the slots.
LEMMA AssignStep ==
  ASSUME IInv, NEW p \in Packages, Assign(p)
  PROVE  IInv'
<1> DEFINE rec == [ctl.seen[p] EXCEPT !.status = "assigned"]
<1>1. TypeOK /\ Finite
  BY DEF IInv
<1>2. ctl.phase = "launch" /\ ctl.step = "start" /\ ctl.slots > 0
      /\ p \in DOMAIN ctl.seen /\ InHand("launch", p)
  BY DEF Assign, ToLaunch, At, InHand
<1>3. rec \in Task /\ rec.status = "assigned"
  BY <1>1, <1>2, SeenTask, Statuses
<1>4. ctl.report \in Report \cup {NoReport} /\ "assigned" \in Steps
  BY <1>1, CtlParts DEF Steps
<1>5. Keeps(p, rec, "assigned", ctl.report)
  BY <1>1, CtlParts DEF Assign, Keeps
<1>6. Save(p, rec)
  BY DEF Assign, SaveStatus
<1>7. /\ branch' = [branch EXCEPT ![p] = IF branch[p] = NoBranch THEN integration ELSE branch[p]]
      /\ UNCHANGED <<workers, record, result, dirty, integration, crashes, commands>>
  BY <1>1 DEF Assign, TypeOK
<1> HIDE DEF rec
<1>8. /\ Local(ctl')
      /\ ctl'.phase = ctl.phase
      /\ ctl'.step = "assigned"
      /\ ctl'.report = ctl.report
      /\ ctl'.landed = ctl.landed
      /\ ctl'.slots = ctl.slots
      /\ DOMAIN ctl'.seen = DOMAIN ctl.seen
      /\ ctl'.seen[p] = rec
      /\ \A q \in DOMAIN ctl.seen : q # p => ctl'.seen[q] = ctl.seen[q]
  BY <1>1, <1>2, <1>3, <1>4, <1>5, HoldCtl
<1>9. /\ task' \in [Packages -> Task] /\ task'[p] = rec
      /\ \A q \in Packages : q # p => task'[q] = task[q]
  BY <1>1, <1>3, <1>6, SaveType
<1>10. /\ branch' \in [Packages -> SUBSET Commit]
       /\ \A q \in Packages : IsFiniteSet(branch'[q]) /\ branch[q] \subseteq branch'[q]
  BY <1>1, <1>7 DEF TypeOK, Finite, NoBranch
<1>11. TypeOK' /\ Finite'
  BY <1>1, <1>7, <1>8, <1>9, <1>10 DEF TypeOK, Finite
<1>12. \A q \in Packages : Launching(q)' <=> q = p
  <2>1. \A q \in Packages : Launching(q)' <=> InHand("launch", q)
    BY <1>2, <1>8 DEF Launching, InHand
  <2> QED BY <1>2, <2>1, OneInHand
<1>13. SlotsCover'
  <2>1. Occupied \subseteq Packages /\ Occupied' \subseteq Packages
        /\ Occupied' \ {p} \subseteq Occupied
    BY <1>9 DEF Occupied, InStatus
  <2>2. OccupiedByOthers = Occupied
    BY <1>2 DEF OccupiedByOthers, Launching
  <2>3. OccupiedByOthers' \subseteq Occupied
    BY <1>12, <2>1 DEF OccupiedByOthers
  <2>4. /\ Cardinality(OccupiedByOthers') <= Cardinality(Occupied)
        /\ Cardinality(OccupiedByOthers') \in Nat /\ Cardinality(Occupied) \in Nat
        /\ IsFiniteSet(Occupied)
    BY <2>1, <2>3, PackagesFinite
  <2>5. /\ Cardinality(Occupied \cup {p}) <= Cardinality(Occupied) + 1
        /\ Cardinality(Occupied \cup {p}) \in Nat
    <3>1. Occupied \cup {p} \in SUBSET Packages
      BY <2>1
    <3> QED BY <2>4, <3>1, FS_AddElement, PackagesFinite
  <2>6. /\ Cardinality(Occupied') <= Cardinality(Occupied \cup {p})
        /\ Cardinality(Occupied') \in Nat
    BY <2>1, PackagesFinite
  <2>7. Cardinality(Occupied) + ctl.slots <= Concurrency
    BY <1>2, <2>2 DEF IInv, SlotsCover
  <2>8. ctl.slots \in Nat /\ Concurrency \in Nat
    BY <1>1, CtlParts, ConstantsAssumption
  <2> QED BY <1>2, <1>8, <2>4, <2>5, <2>6, <2>7, <2>8 DEF SlotsCover
<1>14. ASSUME Unattended PROVE NothingRaises'
  <2>1. NothingRaises
    BY <1>14 DEF IInv
  <2>2. \A q \in Packages : task'[q].status \notin ByCommand
    BY <1>3, <1>9, <2>1 DEF NothingRaises, ByCommand
  <2>3. ASSUME NEW q \in Packages, Started(q)' PROVE branch'[q] # NoBranch
    <3>1. CASE q = p
      BY <1>1, <1>7, <2>1, <3>1 DEF NothingRaises, NoBranch, TypeOK
    <3>2. CASE q # p
      <4>1. Started(q)
        BY <1>2, <1>7, <1>8, <1>9, <1>12, <2>3, <3>2 DEF Started, InHand
      <4> QED BY <4>1, <2>1, <1>10 DEF NothingRaises, NoBranch
    <3> QED BY <3>1, <3>2
  <2>4. \A q \in DOMAIN ctl'.seen :
          /\ ctl'.seen[q].status \notin ByCommand
          /\ ctl'.phase = "hydrate" => ctl'.seen[q].status # "merged"
    BY <1>3, <1>8, <2>1 DEF NothingRaises, ByCommand
  <2>5. RootCommit \in integration'
    BY <1>7, <1>8, <2>1 DEF NothingRaises
  <2> QED BY <2>2, <2>3, <2>4, <2>5 DEF NothingRaises
<1>15. ASSUME Uninterrupted PROVE DecidedInTick'
  <2>1. Undecided' \subseteq Undecided
    BY <1>3, <1>9 DEF Undecided, InStatus
  <2> QED BY <1>2, <1>8, <1>15, <2>1 DEF IInv, DecidedInTick
<1> QED BY <1>7, <1>11, <1>13, <1>14, <1>15 DEF IInv, WellFormed

\* The last save of a launch gives the slot up.
LEMMA LaunchedStep ==
  ASSUME IInv, NEW p \in Packages, Launched(p)
  PROVE  IInv'
<1> DEFINE rec == [ctl.seen[p] EXCEPT !.status = "running"]
<1>1. TypeOK /\ Finite
  BY DEF IInv
<1>2. ctl.phase = "launch" /\ ctl.step = "recorded" /\ p \in DOMAIN ctl.seen
      /\ InHand("launch", p) /\ Launching(p) /\ ctl.slots > 0 /\ ctl.slots \in Nat
  BY <1>1, CtlParts DEF Launched, At, InHand, Launching, IInv, SlotsCover
<1>3. rec \in Task /\ rec.status = "running"
  BY <1>1, <1>2, SeenTask, Statuses
<1>4. Save(p, rec) /\ UNCHANGED <<workers, record, result, git, crashes, commands>>
  BY DEF Launched, SaveStatus
<1> HIDE DEF rec
<1>5. /\ task' \in [Packages -> Task] /\ task'[p] = rec
      /\ \A q \in Packages : q # p => task'[q] = task[q]
  BY <1>1, <1>3, <1>4, SaveType
<1>6. ctl' = [phase |-> ctl.phase, step |-> "start", seen |-> Drop(p),
              landed |-> ctl.landed, report |-> ctl.report, head |-> ctl.head,
              slots |-> ctl.slots - 1]
  <2>1. ctl' = [ctl EXCEPT !.step = "start", !.seen = Drop(p), !.slots = ctl.slots - 1]
    BY DEF Launched
  <2>2. ASSUME NEW slots, ctl' = [ctl EXCEPT !.step = "start", !.seen = Drop(p), !.slots = slots]
        PROVE  ctl' = [phase |-> ctl.phase, step |-> "start", seen |-> Drop(p),
                       landed |-> ctl.landed, report |-> ctl.report, head |-> ctl.head,
                       slots |-> slots]
    BY <1>1, <2>2, CtlParts
  <2> QED BY <2>1, <2>2
<1>7. /\ Local(ctl')
      /\ ctl'.phase = "launch" /\ ctl'.step = "start" /\ ctl'.slots = ctl.slots - 1
      /\ ctl'.seen = Drop(p)
  <2>1. ctl.slots - 1 \in Nat /\ ctl.report \in Report \cup {NoReport}
    BY <1>1, <1>2, CtlParts
  <2>2. Local(ctl')
    BY <1>1, <1>6, <2>1, DropLocal
  <2> QED BY <1>2, <1>6, <2>2
<1>8. \A q \in DOMAIN ctl'.seen : q \in DOMAIN ctl.seen /\ ctl'.seen[q] = ctl.seen[q]
  <2>1. /\ DOMAIN Drop(p) = DOMAIN ctl.seen \ {p}
        /\ \A q \in DOMAIN Drop(p) : Drop(p)[q] = ctl.seen[q]
    BY <1>1, DropType
  <2>2. ctl'.seen = Drop(p)
    BY <1>7
  <2> QED BY <2>1, <2>2
<1>9. TypeOK' /\ Finite'
  BY <1>1, <1>4, <1>5, <1>7 DEF TypeOK, Finite, git
<1>10. SlotsCover'
  <2>1. Occupied \subseteq Packages /\ Occupied' \subseteq Packages
        /\ Occupied' \ {p} \subseteq Occupied
    BY <1>5 DEF Occupied, InStatus
  <2>2. OccupiedByOthers \subseteq Packages
    BY <2>1 DEF OccupiedByOthers
  <2>3. Occupied' \subseteq OccupiedByOthers \cup {p}
    <3> SUFFICES ASSUME NEW q \in Occupied', q # p PROVE q \in OccupiedByOthers
      OBVIOUS
    <3>1. q \in Occupied /\ q \in Packages
      BY <2>1
    <3>2. ~Launching(q)
      BY <1>2, <3>1, OneInHand DEF Launching
    <3> QED BY <3>1, <3>2 DEF OccupiedByOthers
  <2>4. OccupiedByOthers' = Occupied'
    BY <1>7, <2>1 DEF OccupiedByOthers, Launching
  <2>5. /\ Cardinality(OccupiedByOthers) \in Nat
        /\ Cardinality(OccupiedByOthers \cup {p}) \in Nat
        /\ Cardinality(OccupiedByOthers \cup {p}) <= Cardinality(OccupiedByOthers) + 1
    <3>1. OccupiedByOthers \cup {p} \in SUBSET Packages /\ IsFiniteSet(OccupiedByOthers)
      BY <2>2, PackagesFinite
    <3> QED BY <2>2, <3>1, FS_AddElement, PackagesFinite
  <2>6. /\ Cardinality(Occupied') <= Cardinality(OccupiedByOthers \cup {p})
        /\ Cardinality(Occupied') \in Nat
    <3>1. OccupiedByOthers \cup {p} \in SUBSET Packages
      BY <2>2
    <3> QED BY <2>3, <3>1, PackagesFinite
  <2>7. Cardinality(OccupiedByOthers) + ctl.slots <= Concurrency
    BY <1>2 DEF IInv, SlotsCover
  <2>8. Concurrency \in Nat
    BY ConstantsAssumption
  <2> QED BY <1>2, <1>7, <2>4, <2>5, <2>6, <2>7, <2>8 DEF SlotsCover
<1>11. ASSUME Unattended PROVE NothingRaises'
  <2>1. NothingRaises
    BY <1>11 DEF IInv
  <2>2. \A q \in Packages : task'[q].status \notin ByCommand
    BY <1>3, <1>5, <2>1 DEF NothingRaises, ByCommand
  <2>3. \A q \in Packages : Started(q)' => Started(q)
    BY <1>3, <1>4, <1>5, <1>7 DEF Started, Launching
  <2>4. \A q \in Packages : Started(q)' => branch'[q] # NoBranch
    BY <1>4, <2>1, <2>3 DEF NothingRaises, git
  <2>5. \A q \in DOMAIN ctl'.seen :
          /\ ctl'.seen[q].status \notin ByCommand
          /\ ctl'.phase = "hydrate" => ctl'.seen[q].status # "merged"
    BY <1>7, <1>8, <2>1 DEF NothingRaises
  <2>6. RootCommit \in integration'
    BY <1>4, <1>7, <2>1 DEF NothingRaises, git
  <2> QED BY <2>2, <2>4, <2>5, <2>6 DEF NothingRaises
<1>12. ASSUME Uninterrupted PROVE DecidedInTick'
  <2>1. Undecided' \subseteq Undecided
    BY <1>3, <1>5 DEF Undecided, InStatus
  <2> QED BY <1>2, <1>7, <1>12, <2>1 DEF IInv, DecidedInTick
<1> QED BY <1>4, <1>9, <1>10, <1>11, <1>12 DEF IInv, WellFormed

LEMMA LaunchSteps ==
  ASSUME IInv, NEW p \in Packages, Launch(p)
  PROVE  IInv'
<1>1. TypeOK /\ Finite
  BY DEF IInv
<1>2. CASE NoProvider(p) \/ RefuseDirty(p)
  <2>1. Grows
    BY <1>1, <1>2, StaysGrows DEF NoProvider, RefuseDirty, git
  <2> QED BY <1>2, <2>1, FinishStatus DEF NoProvider, RefuseDirty, ToLaunch, At, git
<1>3. CASE PauseForQuota(p)
  <2>1. Grows
    BY <1>1, <1>3, CheckpointGrows DEF PauseForQuota
  <2> QED BY <1>3, <2>1, FinishStatus DEF PauseForQuota, ToLaunch, At
<1>4. CASE Spawn(p)
  <2>1. InHand(ctl.phase, p) /\ ctl.step # "start" /\ "spawned" \in Steps \ {"start"}
    BY <1>4 DEF Spawn, At, InHand, Steps
  <2>2. workers' \in [Packages -> Seq(Stage)]
    <3>1. workers[p] \in Seq(Stage) /\ "working" \in Stage
      BY <1>1 DEF TypeOK, Stage
    <3>2. Append(workers[p], "working") \in Seq(Stage)
      BY <3>1
    <3> QED BY <1>1, <1>4, <3>2 DEF Spawn, TypeOK
  <2>3. record' \in [Packages -> Nat]
        /\ integration' \in SUBSET Commit /\ IsFiniteSet(integration')
    BY <1>1, <1>4 DEF Spawn, TypeOK, Finite, git
  <2> QED BY <1>4, <2>1, <2>2, <2>3, MoveStep DEF Spawn, git
<1>5. CASE RecordProcess(p)
  <2>1. InHand(ctl.phase, p) /\ Launching(p) /\ ctl.step # "start"
        /\ "recorded" \in Steps \ {"start"}
    BY <1>5 DEF RecordProcess, At, InHand, Launching, Steps
  <2>2. record' \in [Packages -> Nat]
    <3>1. Len(workers[p]) \in Nat
      BY <1>1 DEF TypeOK
    <3> QED BY <1>1, <1>5, <3>1 DEF RecordProcess, TypeOK
  <2>3. \A q \in Packages : record'[q] # 0 => record[q] # 0 \/ Launching(q)
    BY <1>1, <1>5, <2>1 DEF RecordProcess, TypeOK
  <2>4. workers' \in [Packages -> Seq(Stage)]
        /\ integration' \in SUBSET Commit /\ IsFiniteSet(integration')
    BY <1>1, <1>5 DEF RecordProcess, TypeOK, Finite, git
  <2> QED BY <1>5, <2>1, <2>2, <2>3, <2>4, MoveStep DEF RecordProcess, git
<1> QED BY <1>2, <1>3, <1>4, <1>5, AssignStep, LaunchedStep DEF Launch

LEMMA WorkerSteps ==
  ASSUME IInv, NEW p \in Packages, NEW i \in DOMAIN workers[p], WorkerStep(p, i)
  PROVE  IInv'
<1>1. TypeOK /\ Finite
  BY DEF IInv
<1>2. workers[p] \in Seq(Stage) /\ \A stage \in Stage : [workers[p] EXCEPT ![i] = stage] \in Seq(Stage)
  BY <1>1 DEF TypeOK
<1>3. CASE WorkerEdits(p, i)
  <2>1. Grows
    <3>1. PICK kind \in {"owned", "stray"} : dirty' = [dirty EXCEPT ![p] = @ \cup {kind}]
      BY <1>3 DEF WorkerEdits
    <3> QED BY <1>1, <1>3, <3>1 DEF WorkerEdits, Grows, TypeOK, Finite
  <2> QED BY <1>1, <1>3, <2>1, AgentStep DEF WorkerEdits, TypeOK
<1>4. CASE WorkerCommits(p, i)
  <2>1. PICK owned \in BOOLEAN :
          branch' = [branch EXCEPT ![p] = @ \cup
            {[author |-> p, n |-> Cardinality(Own(p, branch[p])) + 1, owned |-> owned]}]
    BY <1>4 DEF WorkerCommits
  <2>2. branch' = [branch EXCEPT ![p] = @ \cup
            {[author |-> p, n |-> Cardinality(Own(p, @)) + 1, owned |-> owned]}]
    BY <1>1, <2>1 DEF TypeOK
  <2>3. Grows
    BY <1>1, <1>4, <2>2, AddsCommit DEF WorkerCommits, Grows, TypeOK
  <2> QED BY <1>1, <1>4, <2>3, AgentStep DEF WorkerCommits, TypeOK
<1>5. CASE WorkerReports(p, i)
  <2>1. Grows
    BY <1>1, <1>5, StaysGrows DEF WorkerReports, git
  <2>2. workers' \in [Packages -> Seq(Stage)]
    BY <1>1, <1>2, <1>5 DEF WorkerReports, TypeOK, Stage
  <2>3. PICK status \in ReportStatuses(p), head \in ReportHeads(p) :
          result' = [result EXCEPT ![p] = [status |-> status, head |-> head]]
    BY <1>5 DEF WorkerReports
  <2>6. head \in SUBSET Commit
    <3>1. RootCommit \in Commit
      BY DEF RootCommit, Commit
    <3>2. branch[p] \subseteq Commit /\ NoBranch \subseteq Commit /\ {RootCommit} \subseteq Commit
      BY <1>1, <3>1 DEF TypeOK, NoBranch
    <3> QED BY <3>2 DEF ReportHeads
  <2>4. [status |-> status, head |-> head] \in Report
        /\ ("unreadable" \notin Faults => status # "unreadable")
    BY <2>6 DEF ReportStatuses, Report
  <2>5. result' \in [Packages -> Report \cup {NoReport}]
        /\ ("unreadable" \notin Faults
              => \A q \in Packages : result'[q].status # "unreadable" \/ result'[q] = result[q])
    BY <1>1, <2>3, <2>4 DEF TypeOK
  <2> QED BY <1>5, <2>1, <2>2, <2>5, AgentStep DEF WorkerReports, git
<1>6. CASE WorkerExits(p, i)
  <2>1. Grows
    BY <1>1, <1>6, StaysGrows DEF WorkerExits, git
  <2>2. workers' \in [Packages -> Seq(Stage)]
    BY <1>1, <1>2, <1>6 DEF WorkerExits, TypeOK, Stage
  <2> QED BY <1>1, <1>6, <2>1, <2>2, AgentStep DEF WorkerExits, TypeOK, git
<1> QED BY <1>3, <1>4, <1>5, <1>6 DEF WorkerStep

LEMMA UserSteps ==
  ASSUME IInv, AbortGoal \/ \E p \in Packages, status \in UserCommands : Command(p, status)
  PROVE  IInv'
<1>1. TypeOK
  BY DEF IInv
<1>2. commands' \in Nat
  BY <1>1 DEF AbortGoal, Command, TypeOK
<1>3. ASSUME NEW p \in Packages, NEW status \in UserCommands, Command(p, status)
      PROVE  IInv'
  <2>1. status \in TASK_STATES \ {"assigned", "running", "decision_required"}
    BY Statuses DEF UserCommands
  <2>2. task' = [task EXCEPT ![p] = [task[p] EXCEPT !.status = status]]
    BY <1>1, <1>3 DEF Command, TypeOK
  <2>3. [task[p] EXCEPT !.status = status] \in Task
        /\ [task[p] EXCEPT !.status = status].status = status
    BY <1>1, <2>1, WithStatus DEF TypeOK
  <2>4. /\ task' \in [Packages -> Task]
        /\ \A q \in Packages :
             task'[q].status \in {"assigned", "running", "decision_required"}
               => task'[q].status = task[q].status
    BY <1>1, <2>1, <2>2, <2>3 DEF TypeOK
  <2> QED BY <1>2, <1>3, <2>4, UserStep DEF Command
<1>4. CASE AbortGoal
  <2>1. \A p \in Packages : task[p] \in Task /\ [task[p] EXCEPT !.status = "blocked"] \in Task
                            /\ [task[p] EXCEPT !.status = "blocked"].status = "blocked"
    BY <1>1, Statuses, WithStatus DEF TypeOK
  <2>2. /\ task' \in [Packages -> Task]
        /\ \A p \in Packages :
             task'[p].status \in {"assigned", "running", "decision_required"}
               => task'[p].status = task[p].status
    BY <1>4, <2>1 DEF AbortGoal
  <2> QED BY <1>2, <1>4, <2>2, UserStep DEF AbortGoal
<1> QED BY <1>3, <1>4

LEMMA ProcessSteps ==
  ASSUME IInv, Crash \/ Restart
  PROVE  IInv'
<1>1. ctl' = [Idle EXCEPT !.phase = "idle"]
  BY IdleAgain DEF Crash, Restart
<1>2. Uninterrupted => Undecided = {}
  BY DEF Crash, Restart, IInv, DecidedInTick, Uninterrupted
<1>3. crashes' \in Nat /\ UNCHANGED <<task, workers, record, result, git, commands>>
  BY DEF Crash, Restart, IInv, TypeOK
<1> QED BY <1>1, <1>2, <1>3, StopStep

LEMMA InitInv == Init => IInv
<1> SUFFICES ASSUME Init PROVE IInv
  OBVIOUS
<1> USE DEF Init
<1>1. Local(ctl) /\ ctl.phase = "idle" /\ ctl.step = "start" /\ DOMAIN ctl.seen = {}
  BY IdleAgain, StoppedLocal DEF Phases
<1>2. RootCommit \in Commit
  BY DEF RootCommit, Commit
<1>3. TypeOK
  <2>1. /\ task \in [Packages -> Task]
        /\ result \in [Packages -> Report \cup {NoReport}]
        /\ branch \in [Packages -> SUBSET Commit]
        /\ dirty \in [Packages -> SUBSET {"owned", "stray"}]
    BY Statuses DEF Task, NoBranch
  <2>2. workers \in [Packages -> Seq(Stage)] /\ record \in [Packages -> Nat]
    OBVIOUS
  <2> QED BY <1>1, <1>2, <2>1, <2>2 DEF TypeOK
<1>4. Finite
  BY FS_EmptySet, FS_Singleton DEF Finite, NoBranch
<1>5. SlotsCover
  <2>1. Occupied = {}
    BY DEF Occupied, InStatus
  <2>2. Cardinality(Occupied) = 0
    BY <2>1, FS_EmptySet
  <2> QED BY <1>1, <2>2, ConstantsAssumption DEF SlotsCover
<1>6. WellFormed
  BY DEF WellFormed, NoReport
<1>7. NothingRaises
  BY <1>1 DEF NothingRaises, Started, Launching, ByCommand
<1>8. DecidedInTick
  BY DEF DecidedInTick, Undecided, InStatus
<1> QED BY <1>3, <1>4, <1>5, <1>6, <1>7, <1>8 DEF IInv

LEMMA NextInv == IInv /\ [Next]_vars => IInv'
<1> SUFFICES ASSUME IInv, [Next]_vars PROVE IInv'
  OBVIOUS
<1>1. CASE Tick
  <2>1. ASSUME NEW p \in Packages,
               Hydrate(p) \/ HydrateRaises(p) \/ Reconcile(p) \/ Decide(p)
                 \/ IntegrateOne(p) \/ Launch(p)
        PROVE  IInv'
    BY <2>1, HydrateSteps, ReconcileSteps, DecideSteps, IntegrateOneSteps, LaunchSteps
  <2> QED BY <1>1, <2>1, PhaseSteps DEF Tick
<1>2. CASE \E p \in Packages : \E i \in DOMAIN workers[p] : WorkerStep(p, i)
  BY <1>2, WorkerSteps
<1>3. CASE AbortGoal \/ \E p \in Packages, status \in UserCommands : Command(p, status)
  BY <1>3, UserSteps
<1>4. CASE Crash \/ Restart
  BY <1>4, ProcessSteps
<1>5. CASE UNCHANGED vars
  BY <1>5 DEF vars, git, IInv, TypeOK, Finite, SlotsCover, Occupied, OccupiedByOthers,
              Launching, InHand, InStatus, WellFormed, NothingRaises, Started,
              DecidedInTick, Undecided
<1> QED BY <1>1, <1>2, <1>3, <1>4, <1>5 DEF Next

LEMMA Invariance == Spec => []IInv
BY InitInv, NextInv, PTL DEF Spec

(***************************************************************************)
(* The theorems                                                            *)
(***************************************************************************)
\* The tasks, the workers' files, the branches and the controller's local
\* state keep their type, whatever goes wrong.
THEOREM TypeCorrect == Spec => []TypeOK
<1>1. IInv => TypeOK
  BY DEF IInv
<1> QED BY <1>1, Invariance, PTL

\* The tasks assigned and running never outnumber workers.concurrency: the
\* controller counts its slots once a tick and is right, whatever fails, is
\* killed or is commanded between two of its steps.
THEOREM SlotsSuffice == Spec => []WithinConcurrency
<1>1. IInv => WithinConcurrency
  BY DEF IInv, SlotsCover, Occupied, WithinConcurrency
<1> QED BY <1>1, Invariance, PTL

\* Which steps end the controller: none but the reading of a result, as long as
\* the user gives no commands.
LEMMA EndsReading ==
  ASSUME IInv, "operator" \notin Faults, Next, ctl'.phase = "dead", ctl.phase # "dead"
  PROVE  \E p \in Packages : /\ At("reconcile", "start", p)
                             /\ result[p].status = "unreadable"
<1>1. TypeOK /\ NothingRaises
  BY DEF IInv, Unattended
<1>2. ASSUME NEW p \in Packages, HydrateRaises(p) PROVE FALSE
  BY <1>1, <1>2 DEF HydrateRaises, InHand, NothingRaises, TERMINAL_TASK_STATES, ByCommand
<1>3. CASE EndDecide
  <2>1. CASE \E p \in InStatus(IntegrationStates) : branch[p] = NoBranch
    <3>1. PICK p \in Packages : task[p].status \in IntegrationStates /\ branch[p] = NoBranch
      BY <2>1 DEF InStatus
    <3> QED BY <1>1, <3>1 DEF NothingRaises, Started, IntegrationStates, ByCommand
  <2>2. CASE ~\E p \in InStatus(IntegrationStates) : branch[p] = NoBranch
    <3>1. \A seen, head : [Idle EXCEPT !.phase = "integrate", !.seen = seen,
                                       !.head = head].phase = "integrate"
      BY DEF Idle
    <3> QED BY <1>3, <2>2, <3>1 DEF EndDecide
  <2> QED BY <2>1, <2>2
<1>4. ASSUME NEW p \in Packages, Done(p) PROVE FALSE
  BY <1>1, <1>4, DoneCtl
<1>5. ctl'.phase # ctl.phase
  OBVIOUS
<1>6. ASSUME NEW p \in Packages, Hydrate(p) \/ Decide(p) PROVE FALSE
  BY <1>4, <1>6 DEF Hydrate, Decide, HandOver, AskUser, HandoffOrBlock
<1>7. ASSUME NEW p \in Packages, Reconcile(p)
      PROVE  At("reconcile", "start", p) /\ result[p].status = "unreadable"
  <2>1. CASE TakeResult(p) \/ Validated(p)
    BY <1>1, <1>5, <2>1, CtlParts DEF TakeResult, Validated
  <2>2. CASE UnreadableResult(p)
    BY <2>2 DEF UnreadableResult
  <2>3. CASE MissingRecord(p) \/ WorkerGaveUp(p) \/ ReviewPassed(p) \/ StillRunning(p)
             \/ WorkerLost(p)
    BY <1>4, <2>3 DEF MissingRecord, WorkerGaveUp, ReviewPassed, StillRunning, WorkerLost
  <2>4. CASE ValidationFailed(p) \/ ReviewFailed(p)
    BY <1>4, <2>4 DEF ValidationFailed, ReviewFailed, HandoffOrBlock
  <2> QED BY <1>7, <2>1, <2>2, <2>3, <2>4 DEF Reconcile
<1>8. ASSUME NEW p \in Packages, IntegrateOne(p) PROVE FALSE
  <2>1. CASE RecordIntegration(p)
    BY <1>4, <2>1 DEF RecordIntegration
  <2>2. CASE BeginIntegration(p) \/ Integrate(p) \/ IntegrateRaises(p)
    BY <1>1, <1>5, <2>2, CtlParts DEF BeginIntegration, Integrate, IntegrateRaises
  <2> QED BY <1>8, <2>1, <2>2 DEF IntegrateOne
<1>9. ASSUME NEW p \in Packages, Launch(p) PROVE FALSE
  <2>1. CASE NoProvider(p) \/ PauseForQuota(p) \/ RefuseDirty(p)
    BY <1>4, <2>1 DEF NoProvider, PauseForQuota, RefuseDirty
  <2>2. CASE Assign(p) \/ Spawn(p) \/ RecordProcess(p) \/ Launched(p)
    BY <1>1, <1>5, <2>2, CtlParts DEF Assign, Spawn, RecordProcess, Launched
  <2> QED BY <1>9, <2>1, <2>2 DEF Launch
<1>10. ~(EndHydrate \/ EndReconcile \/ StartTick \/ EndIntegrate \/ EndTick \/ Crash \/ Restart)
  <2>1. EndHydrate => ctl'.phase = "reconcile"
    BY DEF EndHydrate, Enter, Idle
  <2>2. EndReconcile => ctl'.phase = "decide"
    BY DEF EndReconcile, Enter, Idle
  <2>3. StartTick => ctl'.phase = "hydrate"
    BY DEF StartTick, Idle
  <2>4. EndIntegrate => ctl'.phase = "launch"
    BY DEF EndIntegrate, Idle
  <2>5. EndTick \/ Crash \/ Restart => ctl'.phase = "idle"
    BY DEF EndTick, Crash, Restart, Idle
  <2> QED BY <2>1, <2>2, <2>3, <2>4, <2>5
<1>11. ~AbortGoal /\ ~\E p \in Packages, status \in UserCommands : Command(p, status)
  BY <1>5 DEF AbortGoal, Command
<1>12. ~\E p \in Packages : \E i \in DOMAIN workers[p] : WorkerStep(p, i)
  BY <1>5 DEF WorkerStep, WorkerEdits, WorkerCommits, WorkerReports, WorkerExits
<1> QED BY <1>2, <1>3, <1>6, <1>7, <1>8, <1>9, <1>10, <1>11, <1>12 DEF Next, Tick

\* Without commands of the user the controller ends, but for a kill, only where
\* it meets a result that it cannot read: for any plan and every other fault.
THEOREM EndsOnResultsOnly ==
  ASSUME "operator" \notin Faults
  PROVE  Spec => DiesOfResultsOnly
<1> DEFINE A == ctl'.phase = "dead" /\ ctl.phase # "dead"
                  => \E p \in Packages : /\ At("reconcile", "start", p)
                                         /\ result[p].status = "unreadable"
<1>1. IInv /\ [Next]_vars => [A]_vars
  BY EndsReading
<1> QED BY <1>1, Invariance, PTL DEF Spec, DiesOfResultsOnly

\* Unless the controller is killed or ended by an unreadable result, each
\* recorded failure is decided in its own tick: hydration finds none.
THEOREM FailuresAreDecided ==
  ASSUME Faults \cap {"unreadable", "crash"} = {}
  PROVE  Spec => Decided
<1> DEFINE A == \A p \in Packages :
                  task[p].status = "decision_required" /\ task'[p].status # "decision_required"
                  => ctl.phase # "hydrate"
<1>1. IInv /\ [Next]_vars => [A]_vars
  BY DEF IInv, DecidedInTick, Undecided, InStatus, Uninterrupted
<1> QED BY <1>1, Invariance, PTL DEF Spec, Decided

-----------------------------------------------------------------------------
(***************************************************************************)
(* Workers that may die, give up or leave their commit unnamed, without a  *)
(* provider, a handoff, quota or a merge for some: but none that fails a   *)
(* gate, works on beside its report or leaves changes uncommitted, and no  *)
(* kill of the controller or command.  The inductive invariant relates     *)
(* each worker to its task's status, and each branch to the commit the     *)
(* record names.                                                           *)
(***************************************************************************)
Undisturbed ==
  Faults \subseteq {"dies", "gives_up", "unnamed", "unreadable", "no_provider",
                    "contract", "quota", "conflict"}

\* p is in hand and its phase has not handled it to the end.
Stepping(p) == InHand(ctl.phase, p) /\ ctl.step # "start"

StatusInHand(p) ==
  /\ task[p].status = "validating" <=> Stepping(p) /\ ctl.step = "validating"
  /\ task[p].status = "reviewing" <=> Stepping(p) /\ ctl.step = "reviewing"
  /\ task[p].status = "integrating" <=> Stepping(p) /\ ctl.phase = "integrate"
  /\ task[p].status = "assigned" <=> Stepping(p) /\ ctl.phase = "launch"

\* Nothing is left of an attempt: the worktree is free for the next one.
Over(p) == result[p] = NoReport /\ \A i \in DOMAIN workers[p] : workers[p][i] = "gone"

AtWork(p) == \E i \in DOMAIN workers[p] : workers[p][i] = "working"

AttemptOK(p) ==
  /\ \A i \in DOMAIN workers[p] : workers[p][i] = "gone" \/ i = Len(workers[p])
  /\ record[p] = Len(workers[p]) \/ (Stepping(p) /\ ctl.step = "spawned")
  /\ AtWork(p) => result[p] = NoReport /\ task[p].status \in {"assigned", "running"}
  /\ \/ task[p].status \in LaunchStates \cup {"planned", "decision_required"}
     \/ Stepping(p) /\ ctl.step = "assigned"
     => Over(p)
  /\ \/ task[p].status = "running"
     \/ Stepping(p) /\ ctl.step \in {"spawned", "recorded"}
     => workers[p] # <<>>

CommitsOK(p) ==
  /\ dirty[p] = {}
  /\ \A q \in Packages \ {p} : Own(q, branch[p]) \subseteq integration
  /\ Own(p, integration) \subseteq branch[p]
  /\ Own(p, integration) \subseteq task[p].commit
  /\ \A c \in Own(p, branch[p]) : c.owned /\ c.n <= Cardinality(Own(p, branch[p]))
  /\ Own(p, branch[p]) # {} =>
       \E c \in Own(p, branch[p]) : c.n = Cardinality(Own(p, branch[p]))
  /\ task[p].status \in {"reviewing", "review_passed", "merge_ready", "integrating"}
       => task[p].commit = branch[p]

ResultOK(p) ==
  /\ result[p].status = "completed" /\ task[p].status \in {"assigned", "running", "validating"}
       => result[p].head \in {branch[p], NoBranch} /\ Own(p, branch[p]) # {}
  /\ Stepping(p) /\ ctl.step = "validating" => ctl.report = result[p]

PackageOK(p) == StatusInHand(p) /\ AttemptOK(p) /\ CommitsOK(p) /\ ResultOK(p)

\* The copies of the records are as in tasks.json.
CopyOK(p) ==
  /\ ctl.seen[p] = task[p]
  /\ ctl.phase = "hydrate" =>
       /\ task[p].status \notin ACTIVE_STATES
       /\ p \notin ctl.landed => task[p].status \in {"planned", "decision_required"}
  /\ ctl.phase = "reconcile" => task[p].status \in {"running", "validating", "reviewing"}
  /\ ctl.phase = "decide" => task[p].status = "decision_required"
  /\ ctl.phase = "integrate" => task[p].status \in {"review_passed", "integrating"}
  /\ ctl.phase = "launch" => task[p].status \in LaunchStates \cup {"assigned"}

StepsOK ==
  /\ ctl.step \in {"validating", "reviewing"} => ctl.phase = "reconcile"
  /\ ctl.step \in {"integrating", "merged", "refused"} => ctl.phase = "integrate"
  /\ ctl.step \in {"assigned", "spawned", "recorded"} => ctl.phase = "launch"

JInv ==
  /\ \A p \in Packages : PackageOK(p)
  /\ \A p \in DOMAIN ctl.seen : CopyOK(p)
  /\ StepsOK

LEMMA UndisturbedFaults ==
  ASSUME Undisturbed
  PROVE  /\ Unattended
         /\ \A fault \in {"fails", "empty", "other", "partial", "strays", "overstays",
                          "crash", "operator"} : fault \notin Faults
BY DEF Undisturbed, Unattended

\* A package that a step leaves alone.
LEMMA SamePackage ==
  ASSUME NEW q \in Packages, PackageOK(q),
         task'[q] = task[q], workers'[q] = workers[q], record'[q] = record[q],
         result'[q] = result[q], branch'[q] = branch[q], dirty'[q] = dirty[q],
         Own(q, integration') = Own(q, integration), integration \subseteq integration',
         ctl' = ctl \/ (~Stepping(q) /\ ~Stepping(q)')
  PROVE  PackageOK(q)'
<1>1. StatusInHand(q)'
  BY DEF PackageOK, StatusInHand, Stepping, InHand
<1>2. AttemptOK(q)'
  BY DEF PackageOK, AttemptOK, Stepping, InHand, AtWork, Over
<1>3. CommitsOK(q)'
  BY DEF PackageOK, CommitsOK
<1>4. ResultOK(q)'
  BY DEF PackageOK, ResultOK, Stepping, InHand
<1> QED BY <1>1, <1>2, <1>3, <1>4 DEF PackageOK

\* Only the package in hand is stepping.
LEMMA OneStepping ==
  ASSUME NEW p \in Packages, NEW q \in Packages, InHand(ctl.phase, p), q # p
  PROVE  ~Stepping(q)
BY OneInHand DEF Stepping

\* The package in hand leaves the phase.
LEMMA LeavePackage ==
  ASSUME IInv, JInv, NEW p \in Packages, InHand(ctl.phase, p),
         ctl'.phase = ctl.phase, ctl'.step = "start", ctl'.landed = ctl.landed,
         DOMAIN ctl'.seen = DOMAIN ctl.seen \ {p},
         \A q \in DOMAIN ctl'.seen : ctl'.seen[q] = ctl.seen[q],
         \A q \in Packages : q # p => task'[q] = task[q],
         UNCHANGED <<workers, record, result, git>>,
         PackageOK(p)'
  PROVE  JInv'
<1> USE DEF git
<1>1. \A q \in Packages : ~Stepping(q)'
  BY DEF Stepping
<1>2. ASSUME NEW q \in Packages, q # p PROVE PackageOK(q)'
  BY <1>1, <1>2, OneStepping, SamePackage DEF JInv
<1>3. ASSUME NEW q \in DOMAIN ctl'.seen PROVE CopyOK(q)'
  <2>1. q \in DOMAIN ctl.seen /\ q # p /\ CopyOK(q) /\ q \in Packages
    BY CtlParts DEF JInv, IInv
  <2> QED BY <2>1 DEF CopyOK
<1>4. StepsOK'
  BY DEF StepsOK
<1> QED BY <1>2, <1>3, <1>4 DEF JInv

LEMMA FinishPackage ==
  ASSUME IInv, JInv, NEW p \in Packages, InHand(ctl.phase, p), ctl.step # "spawned",
         NEW rec \in Task, Save(p, rec), Done(p),
         UNCHANGED <<workers, record, result, git>>,
         rec.commit = task[p].commit,
         rec.status \in {"ready", "handoff_needed", "decision_required", "blocked",
                         "failed", "merge_ready", "review_passed", "merged"},
         ~AtWork(p),
         rec.status \in {"ready", "handoff_needed", "decision_required"} => Over(p),
         rec.status \in {"merge_ready", "review_passed"} => task[p].commit = branch[p]
  PROVE  JInv'
<1>1. TypeOK
  BY DEF IInv
<1>2. task'[p] = rec /\ \A q \in Packages : q # p => task'[q] = task[q]
  BY <1>1, SaveType
<1>3. /\ ctl'.phase = ctl.phase /\ ctl'.step = "start" /\ ctl'.landed = ctl.landed
      /\ DOMAIN ctl'.seen = DOMAIN ctl.seen \ {p}
      /\ \A q \in DOMAIN ctl'.seen : ctl'.seen[q] = ctl.seen[q]
  BY <1>1, DoneCtl
<1>4. \A q \in Packages : ~Stepping(q)'
  BY <1>3 DEF Stepping
<1>5. PackageOK(p)'
  <2>1. PackageOK(p)
    BY DEF JInv
  <2>2. StatusInHand(p)'
    BY <1>2, <1>4 DEF StatusInHand
  <2>3. AttemptOK(p)'
    BY <1>2, <1>4, <2>1 DEF PackageOK, AttemptOK, AtWork, Over, LaunchStates
  <2>4. CommitsOK(p)'
    BY <1>2, <2>1 DEF PackageOK, CommitsOK, git
  <2>5. ResultOK(p)'
    BY <1>2, <1>4 DEF ResultOK
  <2> QED BY <2>2, <2>3, <2>4, <2>5 DEF PackageOK
<1> QED BY <1>2, <1>3, <1>5, LeavePackage

\* The same for a save of the copy with another status.
LEMMA FinishCopy ==
  ASSUME IInv, JInv, NEW p \in Packages, NEW phase, InHand(phase, p),
         ctl.step # "spawned",
         NEW status \in {"ready", "handoff_needed", "decision_required", "blocked",
                         "failed", "merge_ready", "review_passed", "merged"},
         SaveStatus(p, status), Done(p),
         UNCHANGED <<workers, record, result, git>>,
         ~AtWork(p),
         status \in {"ready", "handoff_needed", "decision_required"} => Over(p),
         status \in {"merge_ready", "review_passed"} => task[p].commit = branch[p]
  PROVE  JInv'
<1> DEFINE rec == [ctl.seen[p] EXCEPT !.status = status]
<1>1. status \in TASK_STATES
  BY Statuses
<1>2. phase = ctl.phase /\ p \in DOMAIN ctl.seen /\ ctl.seen[p] \in Task
  BY <1>1, SeenTask DEF IInv
<1>3. rec \in Task /\ rec.status = status /\ rec.commit = ctl.seen[p].commit
  BY <1>1, <1>2, WithStatus
<1>4. ctl.seen[p] = task[p]
  BY <1>2 DEF JInv, CopyOK
<1>5. Save(p, rec)
  BY DEF SaveStatus
<1> HIDE DEF rec
<1> QED BY <1>2, <1>3, <1>4, <1>5, FinishPackage

\* The package in hand is saved, or its worker or record changed, and it stays
\* in hand.
LEMMA KeepPackage ==
  ASSUME IInv, IInv', JInv, NEW p \in Packages, InHand(ctl.phase, p),
         ctl'.phase = ctl.phase, ctl'.landed = ctl.landed,
         DOMAIN ctl'.seen = DOMAIN ctl.seen,
         \A q \in Packages \ {p} :
           /\ task'[q] = task[q] /\ workers'[q] = workers[q] /\ record'[q] = record[q]
           /\ result'[q] = result[q] /\ branch'[q] = branch[q] /\ dirty'[q] = dirty[q]
           /\ Own(q, integration') = Own(q, integration)
           /\ q \in DOMAIN ctl.seen => ctl'.seen[q] = ctl.seen[q],
         integration \subseteq integration',
         PackageOK(p)', CopyOK(p)', StepsOK'
  PROVE  JInv'
<1>1. InHand(ctl.phase, p)'
  BY DEF InHand
<1>2. ASSUME NEW q \in Packages, q # p PROVE PackageOK(q)'
  <2>1. ~Stepping(q) /\ PackageOK(q)
    BY <1>2, OneStepping DEF JInv
  <2>2. ~Stepping(q)'
    <3> SUFFICES ASSUME Stepping(q)' PROVE FALSE
      OBVIOUS
    <3>1. p \in DOMAIN ctl.seen /\ q \in DOMAIN ctl.seen
      BY <1>1 DEF Stepping, InHand
    <3>2. p <= q /\ q <= p /\ p \in Nat /\ q \in Nat
      BY <1>1, <3>1, ConstantsAssumption DEF Stepping, InHand
    <3> QED BY <1>2, <3>2
  <2> QED BY <1>2, <2>1, <2>2, SamePackage
<1>3. ASSUME NEW q \in DOMAIN ctl'.seen, q # p PROVE CopyOK(q)'
  <2>1. CopyOK(q) /\ q \in Packages
    BY <1>3, CtlParts DEF JInv, IInv
  <2> QED BY <1>3, <2>1 DEF CopyOK
<1> QED BY <1>2, <1>3 DEF JInv

\* A phase begins or ends with no package in hand.
LEMMA PhasePackages ==
  ASSUME IInv, JInv, DOMAIN ctl.seen = {} \/ ctl.step = "start",
         ctl'.step = "start",
         UNCHANGED <<task, workers, record, result, git>>,
         \A p \in DOMAIN ctl'.seen : CopyOK(p)'
  PROVE  JInv'
<1>1. \A q \in Packages : ~Stepping(q) /\ ~Stepping(q)'
  BY DEF Stepping, InHand
<1>2. \A q \in Packages : PackageOK(q)'
  BY <1>1, SamePackage DEF JInv, git
<1> QED BY <1>2 DEF JInv, StepsOK

-----------------------------------------------------------------------------
LEMMA HydratePackage ==
  ASSUME Undisturbed, IInv, JInv, NEW p \in Packages, Hydrate(p) \/ HydrateRaises(p)
  PROVE  JInv'
<1>1. p \in DOMAIN ctl.seen /\ ctl.phase = "hydrate" /\ PackageOK(p) /\ CopyOK(p) /\ StepsOK
  BY DEF Hydrate, HydrateRaises, InHand, JInv
<1>2. CASE Hydrate(p)
  <2>1. ctl.step # "spawned"
    BY <1>1 DEF StepsOK
  <2>2. ~AtWork(p)
    BY <1>1 DEF PackageOK, AttemptOK, CopyOK, ACTIVE_STATES
  <2>3. CASE p \in ctl.landed
    BY <1>2, <2>1, <2>2, <2>3, FinishCopy DEF Hydrate
  <2>4. CASE p \notin ctl.landed
    <3>1. Over(p)
      BY <1>1, <2>4 DEF PackageOK, AttemptOK, CopyOK
    <3> QED BY <1>2, <2>1, <2>2, <2>4, <3>1, FinishCopy DEF Hydrate
  <2> QED BY <2>3, <2>4
<1>3. CASE HydrateRaises(p)
  BY <1>1, <1>3, UndisturbedFaults
     DEF HydrateRaises, IInv, NothingRaises, TERMINAL_TASK_STATES, ByCommand
<1> QED BY <1>2, <1>3

\* A task whose reconciliation begins runs, on the worker its record names.
LEMMA Running ==
  ASSUME IInv, JInv, NEW p \in Packages, At("reconcile", "start", p)
  PROVE  /\ ctl.phase = "reconcile" /\ InHand(ctl.phase, p) /\ p \in DOMAIN ctl.seen
         /\ PackageOK(p) /\ ~Stepping(p)
         /\ ctl.seen[p] = task[p] /\ task[p].status = "running"
         /\ workers[p] \in Seq(Stage)
         /\ record[p] = Len(workers[p]) /\ record[p] # 0
         /\ record[p] \in DOMAIN workers[p]
<1>1. ctl.phase = "reconcile" /\ InHand(ctl.phase, p) /\ p \in DOMAIN ctl.seen
  BY DEF At, InHand
<1>2. PackageOK(p) /\ CopyOK(p) /\ ~Stepping(p)
  BY <1>1 DEF JInv, At, Stepping
<1>3. task[p].status = "running" /\ ctl.seen[p] = task[p]
  BY <1>1, <1>2 DEF PackageOK, StatusInHand, CopyOK
<1>4. workers[p] \in Seq(Stage)
  BY DEF IInv, TypeOK
<1>5. record[p] = Len(workers[p]) /\ workers[p] # <<>>
  BY <1>2, <1>3 DEF PackageOK, AttemptOK
<1> QED BY <1>1, <1>2, <1>3, <1>4, <1>5

LEMMA TakeResultPackage ==
  ASSUME IInv, IInv', JInv, NEW p \in Packages, TakeResult(p)
  PROVE  JInv'
<1> DEFINE rec == [ctl.seen[p] EXCEPT !.status = "validating"]
<1>1. TypeOK
  BY DEF IInv
<1>2. /\ ctl.phase = "reconcile" /\ InHand(ctl.phase, p) /\ p \in DOMAIN ctl.seen
      /\ PackageOK(p) /\ ~Stepping(p)
      /\ ctl.seen[p] = task[p] /\ task[p].status = "running"
      /\ record[p] = Len(workers[p])
  BY Running DEF TakeResult
<1>3. rec \in Task /\ rec.status = "validating" /\ rec.commit = task[p].commit
  BY <1>1, <1>2, Statuses, WithStatus DEF TypeOK
<1>4. Save(p, rec) /\ Keeps(p, rec, "validating", result[p])
      /\ UNCHANGED <<workers, record, result, git>>
      /\ result[p].status \in {"completed", "blocked", "failed"}
  BY DEF TakeResult, SaveStatus, Keeps
<1>5. "validating" \in Steps /\ result[p] \in Report \cup {NoReport}
  BY <1>1 DEF Steps, TypeOK
<1> HIDE DEF rec
<1>6. task'[p] = rec /\ \A q \in Packages : q # p => task'[q] = task[q]
  BY <1>1, <1>3, <1>4, SaveType
<1>7. /\ ctl'.phase = ctl.phase /\ ctl'.step = "validating" /\ ctl'.report = result[p]
      /\ ctl'.landed = ctl.landed
      /\ DOMAIN ctl'.seen = DOMAIN ctl.seen /\ ctl'.seen[p] = rec
      /\ \A q \in DOMAIN ctl.seen : q # p => ctl'.seen[q] = ctl.seen[q]
  BY <1>1, <1>2, <1>3, <1>4, <1>5, HoldCtl
<1>8. Stepping(p)'
  BY <1>2, <1>7 DEF Stepping, InHand
<1>9. PackageOK(p)'
  <2>1. StatusInHand(p)'
    BY <1>2, <1>3, <1>6, <1>7, <1>8 DEF StatusInHand
  <2>2. AttemptOK(p)'
    BY <1>2, <1>3, <1>4, <1>6, <1>7 DEF PackageOK, AttemptOK, AtWork, LaunchStates, NoReport
  <2>3. CommitsOK(p)'
    BY <1>2, <1>3, <1>4, <1>6 DEF PackageOK, CommitsOK, git
  <2>4. ResultOK(p)'
    BY <1>2, <1>4, <1>7 DEF PackageOK, ResultOK, git
  <2> QED BY <2>1, <2>2, <2>3, <2>4 DEF PackageOK
<1>10. CopyOK(p)' /\ StepsOK'
  BY <1>2, <1>3, <1>6, <1>7 DEF CopyOK, StepsOK
<1>11. \A q \in Packages \ {p} :
           /\ task'[q] = task[q] /\ workers'[q] = workers[q] /\ record'[q] = record[q]
           /\ result'[q] = result[q] /\ branch'[q] = branch[q] /\ dirty'[q] = dirty[q]
           /\ Own(q, integration') = Own(q, integration)
           /\ q \in DOMAIN ctl.seen => ctl'.seen[q] = ctl.seen[q]
  BY <1>4, <1>6, <1>7 DEF git
<1>12. integration \subseteq integration'
  BY <1>4 DEF git
<1> QED BY <1>2, <1>7, <1>9, <1>10, <1>11, <1>12, KeepPackage

LEMMA ValidatedPackage ==
  ASSUME IInv, IInv', JInv, NEW p \in Packages, Validated(p)
  PROVE  JInv'
<1> DEFINE rec == [ctl.seen[p] EXCEPT !.status = "reviewing", !.commit = branch[p]]
<1>1. TypeOK
  BY DEF IInv
<1>2. /\ ctl.phase = "reconcile" /\ InHand(ctl.phase, p) /\ p \in DOMAIN ctl.seen
      /\ ctl.step = "validating" /\ Stepping(p) /\ PackageOK(p) /\ ctl.seen[p] = task[p]
  BY DEF Validated, At, InHand, Stepping, JInv, CopyOK
<1>3. task[p].status = "validating"
  BY <1>2 DEF PackageOK, StatusInHand
<1>4. rec \in Task /\ rec.status = "reviewing" /\ rec.commit = branch[p]
  <2>1. ctl.seen[p] \in Task /\ branch[p] \in SUBSET Commit /\ "reviewing" \in TASK_STATES
    BY <1>1, <1>2, CtlParts, Statuses DEF TypeOK
  <2> QED BY <2>1 DEF Task
<1>5. Save(p, rec) /\ UNCHANGED <<workers, record, result, git>>
  BY DEF Validated
<1>6. Keeps(p, rec, "reviewing", ctl.report)
  BY <1>1, CtlParts DEF Validated, Keeps
<1>7. "reviewing" \in Steps /\ ctl.report \in Report \cup {NoReport}
  BY <1>1, CtlParts DEF Steps
<1> HIDE DEF rec
<1>8. task'[p] = rec /\ \A q \in Packages : q # p => task'[q] = task[q]
  BY <1>1, <1>4, <1>5, SaveType
<1>9. /\ ctl'.phase = ctl.phase /\ ctl'.step = "reviewing" /\ ctl'.landed = ctl.landed
      /\ DOMAIN ctl'.seen = DOMAIN ctl.seen /\ ctl'.seen[p] = rec
      /\ \A q \in DOMAIN ctl.seen : q # p => ctl'.seen[q] = ctl.seen[q]
  BY <1>1, <1>2, <1>4, <1>6, <1>7, HoldCtl
<1>10. Stepping(p)'
  BY <1>2, <1>9 DEF Stepping, InHand
<1>11. PackageOK(p)'
  <2>1. StatusInHand(p)'
    BY <1>2, <1>4, <1>8, <1>9, <1>10 DEF StatusInHand
  <2>2. AttemptOK(p)'
    BY <1>2, <1>3, <1>4, <1>5, <1>8, <1>9 DEF PackageOK, AttemptOK, AtWork, LaunchStates
  <2>3. CommitsOK(p)'
    BY <1>2, <1>4, <1>5, <1>8 DEF PackageOK, CommitsOK, git
  <2>4. ResultOK(p)'
    BY <1>4, <1>8, <1>9 DEF ResultOK
  <2> QED BY <2>1, <2>2, <2>3, <2>4 DEF PackageOK
<1>12. CopyOK(p)' /\ StepsOK'
  BY <1>2, <1>4, <1>8, <1>9 DEF CopyOK, StepsOK
<1>13. \A q \in Packages \ {p} :
           /\ task'[q] = task[q] /\ workers'[q] = workers[q] /\ record'[q] = record[q]
           /\ result'[q] = result[q] /\ branch'[q] = branch[q] /\ dirty'[q] = dirty[q]
           /\ Own(q, integration') = Own(q, integration)
           /\ q \in DOMAIN ctl.seen => ctl'.seen[q] = ctl.seen[q]
  BY <1>5, <1>8, <1>9 DEF git
<1>14. integration \subseteq integration'
  BY <1>5 DEF git
<1> QED BY <1>2, <1>9, <1>11, <1>12, <1>13, <1>14, KeepPackage

\* A reported completion passes the gates.
LEMMA PassesGates ==
  ASSUME Undisturbed, IInv, JInv, NEW p \in Packages, At("reconcile", "validating", p),
         ctl.report.status = "completed"
  PROVE  Credible(p, ctl.report)
<1>1. PackageOK(p) /\ InHand(ctl.phase, p) /\ Stepping(p) /\ ctl.step = "validating"
  BY DEF JInv, At, InHand, Stepping
<1>2. task[p].status = "validating" /\ ctl.report = result[p]
  BY <1>1 DEF PackageOK, StatusInHand, ResultOK
<1>3. ctl.report.head \in {branch[p], NoBranch} /\ Own(p, branch[p]) # {}
  BY <1>1, <1>2 DEF PackageOK, ResultOK
<1>4. CommitsOK(p)
  BY <1>1 DEF PackageOK
<1>5. PICK c \in Own(p, branch[p]) : c.n = Cardinality(Own(p, branch[p]))
  BY <1>3, <1>4 DEF CommitsOK
<1>6. c.owned /\ \A d \in Own(p, branch[p]) : d.n <= c.n
  BY <1>4, <1>5 DEF CommitsOK
<1>7. HeadInOwnedPaths(p)
  BY <1>3, <1>6 DEF HeadInOwnedPaths
<1> QED BY <1>3, <1>4, <1>7 DEF Credible, CommitsOK

LEMMA LostPackage ==
  ASSUME IInv, JInv, NEW p \in Packages, WorkerLost(p)
  PROVE  JInv'
<1>1. /\ ctl.phase = "reconcile" /\ InHand(ctl.phase, p) /\ p \in DOMAIN ctl.seen
      /\ PackageOK(p) /\ ctl.seen[p] = task[p]
      /\ workers[p] \in Seq(Stage) /\ record[p] = Len(workers[p])
      /\ record[p] # 0 /\ record[p] \in DOMAIN workers[p]
  BY Running DEF WorkerLost
<1>2. workers[p][record[p]] = "gone"
  BY <1>1 DEF WorkerLost, ProcessAlive, Alive, Stage
<1>3. Over(p) /\ ~AtWork(p)
  BY <1>1, <1>2 DEF WorkerLost, PackageOK, AttemptOK, Over, AtWork
<1>4. PICK handoff \in BOOLEAN :
        Save(p, [ctl.seen[p] EXCEPT !.status = "decision_required", !.handoff = handoff])
  BY DEF WorkerLost
<1> DEFINE rec == [ctl.seen[p] EXCEPT !.status = "decision_required", !.handoff = handoff]
<1>5. rec \in Task /\ rec.status = "decision_required" /\ rec.commit = task[p].commit
  <2>1. ctl.seen[p] \in Task /\ "decision_required" \in TASK_STATES
    BY <1>1, Statuses DEF IInv, TypeOK
  <2> QED BY <1>1, <2>1 DEF Task
<1>6. ctl.step # "spawned" /\ Done(p) /\ UNCHANGED <<workers, record, result, git>>
  BY DEF WorkerLost, At
<1>7. Save(p, rec)
  BY <1>4
<1> HIDE DEF rec
<1> QED BY <1>1, <1>3, <1>5, <1>6, <1>7, FinishPackage

LEMMA ReconcilePackage ==
  ASSUME Undisturbed, IInv, IInv', JInv, NEW p \in Packages, Reconcile(p)
  PROVE  JInv'
<1>1. ctl.step # "spawned" /\ InHand("reconcile", p) /\ InHand(ctl.phase, p)
      /\ p \in DOMAIN ctl.seen /\ PackageOK(p) /\ CopyOK(p)
  <2>1. At("reconcile", "start", p) \/ At("reconcile", "validating", p)
          \/ At("reconcile", "reviewing", p)
    BY DEF Reconcile, MissingRecord, UnreadableResult, TakeResult, WorkerGaveUp, Validated,
           ValidationFailed, ReviewPassed, ReviewFailed, StillRunning, WorkerLost
  <2> QED BY <2>1 DEF At, InHand, JInv
<1>2. CASE MissingRecord(p)
  BY <1>2, Running DEF MissingRecord
<1>3. CASE UnreadableResult(p)
  <2>1. ctl' = [Idle EXCEPT !.phase = "dead"] /\ "dead" \in Phases
    BY <1>3 DEF UnreadableResult, Die, Phases
  <2>2. ctl'.step = "start" /\ DOMAIN ctl'.seen = {} /\ ctl.step = "start"
    BY <1>3, <2>1, StoppedLocal DEF UnreadableResult, At
  <2> QED BY <1>3, <2>2, PhasePackages DEF UnreadableResult
<1>4. CASE WorkerGaveUp(p)
  <2>1. task[p].status = "validating"
    BY <1>1, <1>4 DEF WorkerGaveUp, At, PackageOK, StatusInHand, Stepping
  <2>2. ~AtWork(p)
    BY <1>1, <2>1 DEF PackageOK, AttemptOK
  <2> QED BY <1>1, <1>4, <2>2, FinishCopy DEF WorkerGaveUp
<1>5. CASE ValidationFailed(p)
  BY <1>5, PassesGates, UndisturbedFaults DEF ValidationFailed
<1>6. CASE ReviewPassed(p)
  <2>1. task[p].status = "reviewing"
    BY <1>1, <1>6 DEF ReviewPassed, At, PackageOK, StatusInHand, Stepping
  <2>2. ~AtWork(p) /\ task[p].commit = branch[p]
    BY <1>1, <2>1 DEF PackageOK, AttemptOK, CommitsOK
  <2>3. CASE p \in Approval
    BY <1>1, <1>6, <2>2, <2>3, FinishCopy DEF ReviewPassed
  <2>4. CASE p \notin Approval
    BY <1>1, <1>6, <2>2, <2>4, FinishCopy DEF ReviewPassed
  <2> QED BY <2>3, <2>4
<1>7. CASE ReviewFailed(p)
  BY <1>7, UndisturbedFaults DEF ReviewFailed
<1>8. CASE StillRunning(p)
  <2>1. /\ ctl'.phase = ctl.phase /\ ctl'.step = "start" /\ ctl'.landed = ctl.landed
        /\ DOMAIN ctl'.seen = DOMAIN ctl.seen \ {p}
        /\ \A q \in DOMAIN ctl'.seen : ctl'.seen[q] = ctl.seen[q]
    BY <1>8, DoneCtl DEF StillRunning, IInv
  <2>2. \A q \in DOMAIN ctl'.seen : CopyOK(q)'
    BY <1>8, <2>1 DEF StillRunning, JInv, CopyOK
  <2> QED BY <1>8, <2>1, <2>2, PhasePackages DEF StillRunning, At
<1> QED BY <1>2, <1>3, <1>4, <1>5, <1>6, <1>7, <1>8, TakeResultPackage, ValidatedPackage,
           LostPackage DEF Reconcile

LEMMA DecidePackage ==
  ASSUME IInv, JInv, NEW p \in Packages, Decide(p)
  PROVE  JInv'
<1>1. ctl.phase = "decide" /\ InHand("decide", p) /\ p \in DOMAIN ctl.seen
      /\ PackageOK(p) /\ CopyOK(p) /\ StepsOK
  BY DEF Decide, HandOver, AskUser, InHand, JInv
<1>2. ctl.step # "spawned"
  BY <1>1 DEF StepsOK
<1>3. task[p].status = "decision_required"
  BY <1>1 DEF CopyOK
<1>4. Over(p) /\ ~AtWork(p) /\ dirty[p] = {}
  BY <1>1, <1>3 DEF PackageOK, AttemptOK, CommitsOK
<1>5. CASE HandOver(p)
  <2>1. UNCHANGED <<workers, record, result, git>> /\ Done(p)
    BY <1>4, <1>5 DEF HandOver, HandoffOrBlock, Checkpoint, git
  <2>2. CASE SaveStatus(p, "handoff_needed")
    BY <1>1, <1>2, <1>4, <2>1, <2>2, FinishCopy
  <2>3. CASE SaveStatus(p, "blocked")
    BY <1>1, <1>2, <1>4, <2>1, <2>3, FinishCopy
  <2> QED BY <1>5, <2>2, <2>3 DEF HandOver, HandoffOrBlock
<1>6. CASE AskUser(p)
  BY <1>1, <1>2, <1>4, <1>6, FinishCopy DEF AskUser
<1> QED BY <1>5, <1>6 DEF Decide


LEMMA BeginPackage ==
  ASSUME IInv, IInv', JInv, NEW p \in Packages, BeginIntegration(p)
  PROVE  JInv'
<1> DEFINE rec == [ctl.seen[p] EXCEPT !.status = "integrating"]
<1>1. TypeOK
  BY DEF IInv
<1>2. /\ ctl.phase = "integrate" /\ InHand(ctl.phase, p) /\ p \in DOMAIN ctl.seen
      /\ ctl.step = "start" /\ ~Stepping(p) /\ PackageOK(p) /\ CopyOK(p)
      /\ ctl.seen[p] = task[p]
  BY DEF BeginIntegration, At, InHand, Stepping, JInv, CopyOK
<1>3. task[p].status = "review_passed" /\ task[p].commit = branch[p] /\ ~AtWork(p)
  BY <1>2 DEF PackageOK, StatusInHand, CommitsOK, AttemptOK, CopyOK
<1>4. rec \in Task /\ rec.status = "integrating" /\ rec.commit = task[p].commit
  BY <1>1, <1>2, Statuses, WithStatus DEF TypeOK
<1>5. Save(p, rec) /\ UNCHANGED <<workers, record, result, git>>
  BY DEF BeginIntegration, SaveStatus
<1>6. ctl' = [ctl EXCEPT !.step = "integrating", !.seen[p] = rec]
  BY DEF BeginIntegration
<1>7. "integrating" \in Steps /\ ctl.report \in Report \cup {NoReport}
  BY <1>1, CtlParts DEF Steps
<1> HIDE DEF rec
<1>8. Keeps(p, rec, "integrating", ctl.report)
  BY <1>1, <1>6, CtlParts DEF Keeps
<1>9. task'[p] = rec /\ \A q \in Packages : q # p => task'[q] = task[q]
  BY <1>1, <1>4, <1>5, SaveType
<1>10. /\ ctl'.phase = ctl.phase /\ ctl'.step = "integrating" /\ ctl'.landed = ctl.landed
       /\ DOMAIN ctl'.seen = DOMAIN ctl.seen /\ ctl'.seen[p] = rec
       /\ \A q \in DOMAIN ctl.seen : q # p => ctl'.seen[q] = ctl.seen[q]
  BY <1>1, <1>2, <1>4, <1>7, <1>8, HoldCtl
<1>11. Stepping(p)'
  BY <1>2, <1>10 DEF Stepping, InHand
<1>12. PackageOK(p)'
  <2>1. StatusInHand(p)'
    BY <1>2, <1>4, <1>9, <1>10, <1>11 DEF StatusInHand
  <2>2. AttemptOK(p)'
    BY <1>2, <1>3, <1>4, <1>5, <1>9, <1>10 DEF PackageOK, AttemptOK, AtWork, LaunchStates
  <2>3. CommitsOK(p)'
    BY <1>2, <1>3, <1>4, <1>5, <1>9 DEF PackageOK, CommitsOK, git
  <2>4. ResultOK(p)'
    BY <1>4, <1>9, <1>10 DEF ResultOK
  <2> QED BY <2>1, <2>2, <2>3, <2>4 DEF PackageOK
<1>13. CopyOK(p)' /\ StepsOK'
  BY <1>2, <1>4, <1>9, <1>10 DEF CopyOK, StepsOK
<1>14. \A q \in Packages \ {p} :
           /\ task'[q] = task[q] /\ workers'[q] = workers[q] /\ record'[q] = record[q]
           /\ result'[q] = result[q] /\ branch'[q] = branch[q] /\ dirty'[q] = dirty[q]
           /\ Own(q, integration') = Own(q, integration)
           /\ q \in DOMAIN ctl.seen => ctl'.seen[q] = ctl.seen[q]
  BY <1>5, <1>9, <1>10 DEF git
<1>15. integration \subseteq integration'
  BY <1>5 DEF git
<1> QED BY <1>2, <1>10, <1>12, <1>13, <1>14, <1>15, KeepPackage

\* A package in hand whose tasks.json record and copy stay as they are: a
\* merge, and the steps of launch_task before its last save.
LEMMA MovePackage ==
  ASSUME IInv, IInv', JInv, NEW p \in Packages, InHand(ctl.phase, p),
         NEW step \in Steps, ctl' = [ctl EXCEPT !.step = step],
         task' = task,
         \A q \in Packages \ {p} :
           /\ workers'[q] = workers[q] /\ record'[q] = record[q]
           /\ Own(q, integration') = Own(q, integration),
         UNCHANGED <<result, branch, dirty>>, integration \subseteq integration',
         PackageOK(p)', StepsOK'
  PROVE  JInv'
<1>1. /\ ctl'.phase = ctl.phase /\ ctl'.seen = ctl.seen /\ ctl'.landed = ctl.landed
  BY StepCtl DEF IInv
<1>2. CopyOK(p)'
  <2>1. CopyOK(p)
    BY DEF JInv, InHand
  <2> QED BY <1>1, <2>1 DEF CopyOK
<1> QED BY <1>1, <1>2, KeepPackage

LEMMA IntegratePackage ==
  ASSUME IInv, IInv', JInv, NEW p \in Packages, Integrate(p) \/ IntegrateRaises(p)
  PROVE  JInv'
<1>1. TypeOK /\ Finite
  BY DEF IInv
<1>2. /\ ctl.phase = "integrate" /\ InHand(ctl.phase, p) /\ Stepping(p) /\ PackageOK(p)
      /\ ctl.step = "integrating"
  BY DEF Integrate, IntegrateRaises, At, InHand, Stepping, JInv
<1>3. task[p].status = "integrating" /\ task[p].commit = branch[p]
  BY <1>2 DEF PackageOK, StatusInHand, CommitsOK
<1>4. PICK step \in {"merged", "refused"} : ctl' = [ctl EXCEPT !.step = step]
  BY DEF Integrate, IntegrateRaises
<1>5. step \in Steps /\ StepsOK' /\ ctl'.phase = ctl.phase /\ ctl'.step = step
      /\ ctl'.seen = ctl.seen
  <2>1. step \in Steps
    BY DEF Steps
  <2>2. ctl'.phase = ctl.phase /\ ctl'.step = step /\ ctl'.seen = ctl.seen
    BY <1>1, <1>4, <2>1, StepCtl
  <2> QED BY <1>2, <2>1, <2>2 DEF StepsOK
<1>6. UNCHANGED <<task, workers, record, result, branch, dirty>>
  BY DEF Integrate, IntegrateRaises, git
<1>7. p # 0
  BY ConstantsAssumption
<1>8. /\ integration \subseteq integration'
      /\ Own(p, integration') \subseteq branch[p]
      /\ \A q \in Packages \ {p} : Own(q, integration') = Own(q, integration)
  <2>1. CommitsOK(p)
    BY <1>2 DEF PackageOK
  <2>2. CASE integration' = integration
    BY <2>1, <2>2 DEF CommitsOK
  <2>3. CASE integration' = integration \cup branch[p] \cup {MergeCommit}
    <3>1. MergeCommit.author = 0 /\ \A q \in Packages : q # 0
      BY <1>1, IntegratedType, ConstantsAssumption
    <3>2. ASSUME NEW q \in Packages \ {p} PROVE Own(q, integration') = Own(q, integration)
      <4>1. Own(q, branch[p]) \subseteq Own(q, integration)
        BY <2>1 DEF CommitsOK, Own
      <4> QED BY <2>3, <3>1, <4>1 DEF Own
    <3>3. Own(p, integration') \subseteq branch[p]
      BY <2>1, <2>3, <3>1 DEF CommitsOK, Own
    <3> QED BY <2>3, <3>2, <3>3
  <2> QED BY <2>2, <2>3 DEF Integrate, IntegrateRaises, git
<1>9. Stepping(p)'
  BY <1>2, <1>4, <1>5 DEF Stepping, InHand
<1>10. PackageOK(p)'
  <2>1. StatusInHand(p)'
    BY <1>2, <1>3, <1>4, <1>5, <1>6, <1>9 DEF StatusInHand
  <2>2. AttemptOK(p)'
    BY <1>2, <1>3, <1>4, <1>5, <1>6, <1>9 DEF PackageOK, AttemptOK, AtWork, LaunchStates
  <2>3. CommitsOK(p)'
    BY <1>2, <1>3, <1>6, <1>8 DEF PackageOK, CommitsOK
  <2>4. ResultOK(p)'
    BY <1>3, <1>4, <1>5, <1>6 DEF ResultOK
  <2> QED BY <2>1, <2>2, <2>3, <2>4 DEF PackageOK
<1> QED BY <1>2, <1>4, <1>5, <1>6, <1>8, <1>10, MovePackage

LEMMA IntegrateOnePackage ==
  ASSUME Undisturbed, IInv, IInv', JInv, NEW p \in Packages, IntegrateOne(p)
  PROVE  JInv'
<1>1. CASE RecordIntegration(p)
  <2>1. /\ InHand("integrate", p) /\ Stepping(p) /\ PackageOK(p) /\ ctl.phase = "integrate"
        /\ ctl.step \in {"merged", "refused"}
    BY <1>1 DEF RecordIntegration, At, InHand, Stepping, JInv
  <2>2. ~AtWork(p)
    BY <2>1 DEF PackageOK, StatusInHand, AttemptOK
  <2>3. CASE ctl.step = "merged"
    BY <1>1, <2>1, <2>2, <2>3, FinishCopy DEF RecordIntegration
  <2>4. CASE ctl.step # "merged"
    BY <1>1, <2>1, <2>2, <2>4, FinishCopy DEF RecordIntegration
  <2> QED BY <2>3, <2>4
<1> QED BY <1>1, BeginPackage, IntegratePackage DEF IntegrateOne


LEMMA AssignPackage ==
  ASSUME IInv, IInv', JInv, NEW p \in Packages, Assign(p)
  PROVE  JInv'
<1> DEFINE rec == [ctl.seen[p] EXCEPT !.status = "assigned"]
<1>1. TypeOK
  BY DEF IInv
<1>2. /\ ctl.phase = "launch" /\ InHand(ctl.phase, p) /\ p \in DOMAIN ctl.seen
      /\ ctl.step = "start" /\ ~Stepping(p) /\ PackageOK(p) /\ CopyOK(p)
      /\ ctl.seen[p] = task[p]
  BY DEF Assign, ToLaunch, At, InHand, Stepping, JInv, CopyOK
<1>3. Over(p) /\ ~AtWork(p) /\ record[p] = Len(workers[p])
  <2>1. task[p].status \in LaunchStates
    BY <1>2 DEF PackageOK, StatusInHand, CopyOK
  <2> QED BY <1>2, <2>1 DEF PackageOK, AttemptOK, Over, AtWork
<1>4. rec \in Task /\ rec.status = "assigned" /\ rec.commit = task[p].commit
  BY <1>1, <1>2, Statuses, WithStatus DEF TypeOK
<1>5. /\ Save(p, rec) /\ UNCHANGED <<workers, record, result, dirty, integration>>
      /\ branch' = [branch EXCEPT ![p] = IF branch[p] = NoBranch THEN integration ELSE branch[p]]
  BY <1>1 DEF Assign, SaveStatus, TypeOK
<1>6. ctl' = [ctl EXCEPT !.step = "assigned", !.seen[p] = rec]
  BY DEF Assign
<1>7. "assigned" \in Steps /\ ctl.report \in Report \cup {NoReport}
  BY <1>1, CtlParts DEF Steps
<1> HIDE DEF rec
<1>8. Keeps(p, rec, "assigned", ctl.report)
  BY <1>1, <1>6, CtlParts DEF Keeps
<1>9. task'[p] = rec /\ \A q \in Packages : q # p => task'[q] = task[q]
  BY <1>1, <1>4, <1>5, SaveType
<1>10. /\ ctl'.phase = ctl.phase /\ ctl'.step = "assigned" /\ ctl'.landed = ctl.landed
       /\ DOMAIN ctl'.seen = DOMAIN ctl.seen /\ ctl'.seen[p] = rec
       /\ \A q \in DOMAIN ctl.seen : q # p => ctl'.seen[q] = ctl.seen[q]
  BY <1>1, <1>2, <1>4, <1>7, <1>8, HoldCtl
<1>11. Stepping(p)'
  BY <1>2, <1>10 DEF Stepping, InHand
<1>12. PackageOK(p)'
  <2>1. StatusInHand(p)'
    BY <1>2, <1>4, <1>9, <1>10, <1>11 DEF StatusInHand
  <2>2. AttemptOK(p)'
    <3>1. Over(p)' /\ ~AtWork(p)'
      BY <1>3, <1>5 DEF Over, AtWork
    <3> QED BY <1>2, <1>3, <1>4, <1>5, <1>9, <1>10, <3>1 DEF PackageOK, AttemptOK
  <2>3. CommitsOK(p)'
    <3>1. CommitsOK(p)
      BY <1>2 DEF PackageOK
    <3>2. CASE branch[p] # NoBranch
      <4>1. branch'[p] = branch[p]
        BY <1>1, <1>5, <3>2 DEF TypeOK
      <4> QED BY <1>4, <1>5, <1>9, <3>1, <4>1 DEF CommitsOK
    <3>3. CASE branch[p] = NoBranch
      <4>1. branch'[p] = integration
        BY <1>1, <1>5, <3>3 DEF TypeOK
      <4>2. Own(p, integration) = {}
        BY <3>1, <3>3 DEF CommitsOK, NoBranch
      <4>3. \A q \in Packages : Own(q, integration) \subseteq integration
        BY DEF Own
      <4> QED BY <1>4, <1>5, <1>9, <3>1, <4>1, <4>2, <4>3 DEF CommitsOK
    <3> QED BY <3>2, <3>3
  <2>4. ResultOK(p)'
    BY <1>3, <1>5, <1>10 DEF ResultOK, Over, NoReport
  <2> QED BY <2>1, <2>2, <2>3, <2>4 DEF PackageOK
<1>13. CopyOK(p)' /\ StepsOK'
  BY <1>2, <1>4, <1>9, <1>10 DEF CopyOK, StepsOK
<1>14. \A q \in Packages \ {p} :
           /\ task'[q] = task[q] /\ workers'[q] = workers[q] /\ record'[q] = record[q]
           /\ result'[q] = result[q] /\ branch'[q] = branch[q] /\ dirty'[q] = dirty[q]
           /\ Own(q, integration') = Own(q, integration)
           /\ q \in DOMAIN ctl.seen => ctl'.seen[q] = ctl.seen[q]
  BY <1>1, <1>5, <1>9, <1>10 DEF TypeOK
<1>15. integration \subseteq integration'
  BY <1>5
<1> QED BY <1>2, <1>10, <1>12, <1>13, <1>14, <1>15, KeepPackage

\* A launch in hand: its task is assigned, and nothing runs before the spawn.
LEMMA LaunchInHand ==
  ASSUME IInv, JInv, NEW p \in Packages, NEW step \in {"assigned", "spawned", "recorded"},
         At("launch", step, p)
  PROVE  /\ ctl.phase = "launch" /\ InHand(ctl.phase, p) /\ p \in DOMAIN ctl.seen
         /\ ctl.step = step /\ Stepping(p) /\ PackageOK(p)
         /\ ctl.seen[p] = task[p] /\ task[p].status = "assigned"
         /\ workers[p] \in Seq(Stage)
<1>1. ctl.phase = "launch" /\ InHand(ctl.phase, p) /\ p \in DOMAIN ctl.seen /\ ctl.step = step
  BY DEF At, InHand
<1>2. Stepping(p) /\ PackageOK(p) /\ CopyOK(p)
  BY <1>1 DEF Stepping, JInv
<1>3. workers[p] \in Seq(Stage)
  BY DEF IInv, TypeOK
<1> QED BY <1>1, <1>2, <1>3 DEF PackageOK, StatusInHand, CopyOK

LEMMA SpawnPackage ==
  ASSUME IInv, IInv', JInv, NEW p \in Packages, Spawn(p) \/ RecordProcess(p)
  PROVE  JInv'
<1>1. TypeOK
  BY DEF IInv
<1>2. PICK step \in {"assigned", "spawned"} :
        /\ At("launch", step, p)
        /\ step = "assigned" => Spawn(p)
        /\ step = "spawned" => RecordProcess(p)
  <2>1. CASE Spawn(p)
    BY <2>1 DEF Spawn
  <2>2. CASE RecordProcess(p)
    BY <2>2 DEF RecordProcess
  <2> QED BY <2>1, <2>2
<1> DEFINE next == IF step = "assigned" THEN "spawned" ELSE "recorded"
<1>3. /\ ctl.phase = "launch" /\ InHand(ctl.phase, p) /\ ctl.step = step
      /\ Stepping(p) /\ PackageOK(p) /\ task[p].status = "assigned"
      /\ workers[p] \in Seq(Stage)
  BY <1>2, LaunchInHand
<1>4. next \in Steps /\ ctl' = [ctl EXCEPT !.step = next]
  BY <1>2 DEF Spawn, RecordProcess, Steps
<1>5. task' = task /\ UNCHANGED <<result, git>>
  BY DEF Spawn, RecordProcess
<1>6. ctl'.phase = ctl.phase /\ ctl'.step = next /\ ctl'.seen = ctl.seen
  BY <1>1, <1>4, StepCtl
<1>7. CASE step = "assigned"
  <2>1. Spawn(p) /\ Over(p)
    BY <1>2, <1>3, <1>7 DEF PackageOK, AttemptOK
  <2>2. workers'[p] = Append(workers[p], "working") /\ record' = record
        /\ \A q \in Packages \ {p} : workers'[q] = workers[q]
    BY <1>1, <2>1 DEF Spawn, TypeOK
  <2>3. /\ workers'[p] # <<>>
        /\ \A i \in DOMAIN workers'[p] : workers'[p][i] = "gone" \/ i = Len(workers'[p])
    <3>1. /\ Len(workers'[p]) = Len(workers[p]) + 1
          /\ DOMAIN workers'[p] = 1 .. (Len(workers[p]) + 1)
          /\ \A i \in 1 .. Len(workers[p]) : workers'[p][i] = workers[p][i]
      BY <1>3, <2>2
    <3>2. \A i \in 1 .. Len(workers[p]) : workers[p][i] = "gone"
      BY <1>3, <2>1 DEF Over
    <3>3. Len(workers[p]) \in Nat
      BY <1>3
    <3> QED BY <3>1, <3>2, <3>3
  <2>4. Stepping(p)'
    BY <1>3, <1>6, <1>7 DEF Stepping, InHand
  <2>5. PackageOK(p)'
    <3>1. StatusInHand(p)'
      BY <1>3, <1>5, <1>6, <1>7, <2>4 DEF StatusInHand
    <3>2. AttemptOK(p)'
      BY <1>3, <1>5, <1>6, <1>7, <2>1, <2>3, <2>4 DEF AttemptOK, Over, LaunchStates
    <3>3. CommitsOK(p)'
      BY <1>3, <1>5 DEF PackageOK, CommitsOK, git
    <3>4. ResultOK(p)'
      BY <1>5, <1>6, <1>7, <2>1 DEF ResultOK, Over, NoReport
    <3> QED BY <3>1, <3>2, <3>3, <3>4 DEF PackageOK
  <2>6. StepsOK'
    BY <1>3, <1>6, <1>7 DEF StepsOK
  <2> QED BY <1>3, <1>4, <1>5, <2>2, <2>5, <2>6, MovePackage DEF git
<1>8. CASE step = "spawned"
  <2>1. RecordProcess(p)
    BY <1>2, <1>8
  <2>2. record'[p] = Len(workers[p]) /\ workers' = workers
        /\ \A q \in Packages \ {p} : record'[q] = record[q]
    BY <1>1, <2>1 DEF RecordProcess, TypeOK
  <2>3. workers[p] # <<>>
    BY <1>3, <1>8 DEF PackageOK, AttemptOK
  <2>4. Stepping(p)'
    BY <1>3, <1>6, <1>8 DEF Stepping, InHand
  <2>5. PackageOK(p)'
    <3>1. StatusInHand(p)'
      BY <1>3, <1>5, <1>6, <1>8, <2>4 DEF StatusInHand
    <3>2. AttemptOK(p)'
      BY <1>3, <1>5, <1>6, <1>8, <2>2, <2>3, <2>4 DEF PackageOK, AttemptOK, AtWork, LaunchStates
    <3>3. CommitsOK(p)'
      BY <1>3, <1>5 DEF PackageOK, CommitsOK, git
    <3>4. ResultOK(p)'
      BY <1>3, <1>5, <1>6, <1>8 DEF PackageOK, ResultOK, git
    <3> QED BY <3>1, <3>2, <3>3, <3>4 DEF PackageOK
  <2>6. StepsOK'
    BY <1>3, <1>6, <1>8 DEF StepsOK
  <2> QED BY <1>3, <1>4, <1>5, <2>2, <2>5, <2>6, MovePackage DEF git
<1> QED BY <1>7, <1>8

LEMMA LaunchedPackage ==
  ASSUME IInv, JInv, NEW p \in Packages, Launched(p)
  PROVE  JInv'
<1> DEFINE rec == [ctl.seen[p] EXCEPT !.status = "running"]
<1>1. TypeOK
  BY DEF IInv
<1>2. /\ ctl.phase = "launch" /\ InHand(ctl.phase, p) /\ p \in DOMAIN ctl.seen
      /\ ctl.step = "recorded" /\ Stepping(p) /\ PackageOK(p)
      /\ ctl.seen[p] = task[p] /\ task[p].status = "assigned"
  BY LaunchInHand DEF Launched
<1>3. rec \in Task /\ rec.status = "running" /\ rec.commit = task[p].commit
  BY <1>1, <1>2, Statuses, WithStatus DEF TypeOK
<1>4. Save(p, rec) /\ UNCHANGED <<workers, record, result, git>>
  BY DEF Launched, SaveStatus
<1> HIDE DEF rec
<1>5. task'[p] = rec /\ \A q \in Packages : q # p => task'[q] = task[q]
  BY <1>1, <1>3, <1>4, SaveType
<1>6. ctl'.phase = ctl.phase /\ ctl'.step = "start" /\ ctl'.landed = ctl.landed
      /\ ctl'.seen = Drop(p)
  <2>1. ctl' = [ctl EXCEPT !.step = "start", !.seen = Drop(p), !.slots = ctl.slots - 1]
    BY DEF Launched
  <2>2. ASSUME NEW slots, ctl' = [ctl EXCEPT !.step = "start", !.seen = Drop(p), !.slots = slots]
        PROVE  ctl'.phase = ctl.phase /\ ctl'.step = "start" /\ ctl'.landed = ctl.landed
               /\ ctl'.seen = Drop(p)
    BY <1>1, <2>2, CtlParts
  <2> QED BY <2>1, <2>2
<1>7. /\ DOMAIN ctl'.seen = DOMAIN ctl.seen \ {p}
      /\ \A q \in DOMAIN ctl'.seen : ctl'.seen[q] = ctl.seen[q]
  <2>1. /\ DOMAIN Drop(p) = DOMAIN ctl.seen \ {p}
        /\ \A q \in DOMAIN Drop(p) : Drop(p)[q] = ctl.seen[q]
    BY <1>1, DropType
  <2> QED BY <1>6, <2>1
<1>8. PackageOK(p)'
  <2>1. ~Stepping(p)'
    BY <1>6 DEF Stepping
  <2>2. StatusInHand(p)'
    BY <1>3, <1>5, <2>1 DEF StatusInHand
  <2>3. AttemptOK(p)'
    BY <1>2, <1>3, <1>4, <1>5, <2>1 DEF PackageOK, AttemptOK, AtWork, LaunchStates
  <2>4. CommitsOK(p)'
    BY <1>2, <1>3, <1>4, <1>5 DEF PackageOK, CommitsOK, git
  <2>5. ResultOK(p)'
    BY <1>2, <1>3, <1>4, <1>5, <2>1 DEF PackageOK, ResultOK, git
  <2> QED BY <2>2, <2>3, <2>4, <2>5 DEF PackageOK
<1> QED BY <1>2, <1>4, <1>5, <1>6, <1>7, <1>8, LeavePackage

LEMMA LaunchPackage ==
  ASSUME IInv, IInv', JInv, NEW p \in Packages, Launch(p)
  PROVE  JInv'
<1>1. CASE NoProvider(p) \/ PauseForQuota(p) \/ RefuseDirty(p)
  <2>1. /\ InHand("launch", p) /\ ctl.step = "start" /\ ctl.phase = "launch"
        /\ PackageOK(p) /\ CopyOK(p) /\ ~Stepping(p)
    BY <1>1 DEF NoProvider, PauseForQuota, RefuseDirty, ToLaunch, At, InHand, JInv, Stepping
  <2>2. task[p].status \in LaunchStates
    BY <2>1 DEF PackageOK, StatusInHand, CopyOK
  <2>3. Over(p) /\ ~AtWork(p) /\ dirty[p] = {}
    BY <2>1, <2>2 DEF PackageOK, AttemptOK, CommitsOK, Over, AtWork
  <2>4. UNCHANGED <<workers, record, result, git>> /\ Done(p)
    BY <1>1, <2>3 DEF NoProvider, PauseForQuota, RefuseDirty, Checkpoint, git
  <2>5. CASE SaveStatus(p, "blocked")
    BY <2>1, <2>3, <2>4, <2>5, FinishCopy
  <2>6. CASE SaveStatus(p, "handoff_needed")
    BY <2>1, <2>3, <2>4, <2>6, FinishCopy
  <2> QED BY <1>1, <2>5, <2>6 DEF NoProvider, PauseForQuota, RefuseDirty
<1> QED BY <1>1, AssignPackage, SpawnPackage, LaunchedPackage DEF Launch


LEMMA PhasePackageSteps ==
  ASSUME Undisturbed, IInv, IInv', JInv,
         StartTick \/ EndHydrate \/ EndReconcile \/ EndDecide \/ EndIntegrate \/ EndTick
  PROVE  JInv'
<1>1. TypeOK /\ NothingRaises
  BY UndisturbedFaults DEF IInv
<1>2. UNCHANGED <<task, workers, record, result, git>>
  BY DEF StartTick, EndHydrate, EndReconcile, EndDecide, EndIntegrate, EndTick
<1>3. \A p \in Packages : /\ task[p].status \in TASK_STATES \ ByCommand
                          /\ PackageOK(p)
  BY <1>1 DEF TypeOK, Task, NothingRaises, JInv
\* A phase that begins with the copies of the tasks in S.
<1>4. ASSUME NEW S \in SUBSET Packages, NEW phase, NEW landed,
             DOMAIN ctl.seen = {} \/ ctl.step = "start",
             ctl'.phase = phase, ctl'.step = "start", ctl'.seen = Copies(S),
             ctl'.landed = landed,
             \A p \in S :
               /\ phase = "hydrate" =>
                    /\ task[p].status \notin ACTIVE_STATES
                    /\ p \notin landed => task[p].status \in {"planned", "decision_required"}
               /\ phase = "reconcile" => task[p].status \in {"running", "validating", "reviewing"}
               /\ phase = "decide" => task[p].status = "decision_required"
               /\ phase = "integrate" => task[p].status \in {"review_passed", "integrating"}
               /\ phase = "launch" => task[p].status \in LaunchStates \cup {"assigned"}
      PROVE  JInv'
  <2>1. \A p \in DOMAIN ctl'.seen : p \in S /\ ctl'.seen[p] = task[p]
    <3>1. DOMAIN Copies(S) = S /\ \A p \in S : Copies(S)[p] = task[p]
      BY <1>1, CopiesType
    <3> QED BY <1>4, <3>1
  <2>2. \A p \in DOMAIN ctl'.seen : CopyOK(p)'
    BY <1>2, <1>4, <2>1 DEF CopyOK
  <2> QED BY <1>2, <1>4, <2>2, PhasePackages
<1>5. CASE StartTick
  <2> DEFINE open == {p \in Packages :
                        /\ task[p].status \notin ACTIVE_STATES \cup TERMINAL_STATES
                        /\ RepairRequired(p) \/ Merged(p) \/ ExecutionReady(p)}
             landed == {p \in open : Merged(p)}
  <2>1. ctl.step = "start"
    BY <1>1, <1>5, CtlParts DEF StartTick, JInv, StepsOK, Steps
  <2>2. ctl' = [phase |-> "hydrate", step |-> "start", seen |-> Copies(open),
                landed |-> landed, report |-> NoReport, head |-> NoBranch, slots |-> 0]
    BY <1>5 DEF StartTick, Idle
  <2>3. ASSUME NEW p \in open
        PROVE  /\ task[p].status \notin ACTIVE_STATES
               /\ p \notin landed => task[p].status \in {"planned", "decision_required"}
    <3>1. ~RepairRequired(p)
      BY <1>3 DEF PackageOK, CommitsOK, RepairRequired
    <3>2. p \notin landed => task[p].status \notin ACTIVE_TASK_STATES
      BY <3>1 DEF ExecutionReady
    <3> QED BY <1>3, <3>2 DEF TASK_STATES, ByCommand, ACTIVE_STATES, TERMINAL_STATES,
                              ACTIVE_TASK_STATES
  <2>4. open \in SUBSET Packages
    OBVIOUS
  <2> HIDE DEF open, landed
  <2> QED BY <1>4, <2>1, <2>2, <2>3, <2>4
<1>6. CASE EndHydrate
  <2>1. ctl' = [phase |-> "reconcile", step |-> "start",
                seen |-> Copies(InStatus(ACTIVE_STATES)), landed |-> {},
                report |-> NoReport, head |-> NoBranch, slots |-> 0]
    BY <1>6 DEF EndHydrate, Enter, Idle
  <2>2. InStatus(ACTIVE_STATES) \in SUBSET Packages /\ DOMAIN ctl.seen = {}
    BY <1>6 DEF EndHydrate, InStatus
  <2>3. \A p \in Packages : ~Stepping(p)
    BY <2>2 DEF Stepping, InHand
  <2>4. \A p \in InStatus(ACTIVE_STATES) :
          task[p].status \in {"running", "validating", "reviewing"}
    BY <1>3, <2>3 DEF InStatus, ACTIVE_STATES, PackageOK, StatusInHand
  <2> QED BY <1>4, <2>1, <2>2, <2>4
<1>7. CASE EndReconcile
  <2>1. ctl' = [phase |-> "decide", step |-> "start",
                seen |-> Copies(InStatus({"decision_required"})), landed |-> {},
                report |-> NoReport, head |-> NoBranch, slots |-> 0]
    BY <1>7 DEF EndReconcile, Enter, Idle
  <2>2. /\ InStatus({"decision_required"}) \in SUBSET Packages /\ DOMAIN ctl.seen = {}
        /\ \A p \in InStatus({"decision_required"}) : task[p].status = "decision_required"
    BY <1>7 DEF EndReconcile, InStatus
  <2> QED BY <1>4, <2>1, <2>2
<1>8. CASE EndDecide
  <2> DEFINE candidates == InStatus(IntegrationStates)
             first == {p \in candidates : \A q \in candidates : p <= q}
             head == UNION {branch[p] : p \in first}
  <2>1. first \in SUBSET Packages /\ DOMAIN ctl.seen = {}
        /\ \A p \in first : task[p].status = "review_passed"
    BY <1>3, <1>8 DEF EndDecide, InStatus, IntegrationStates, ByCommand
  <2>2. \A p \in candidates : branch[p] # NoBranch
    <3>1. \A p \in candidates : task[p].status = "review_passed" /\ p \in Packages
      BY <1>3 DEF InStatus, IntegrationStates, ByCommand
    <3> QED BY <1>1, <3>1 DEF NothingRaises, Started
  <2>3. ctl' = [Idle EXCEPT !.phase = "integrate", !.seen = Copies(first), !.head = head]
    BY <1>8, <2>2 DEF EndDecide
  <2>4. ctl' = [phase |-> "integrate", step |-> "start", seen |-> Copies(first),
                landed |-> {}, report |-> NoReport, head |-> head, slots |-> 0]
    BY <2>3 DEF Idle
  <2> HIDE DEF first, head
  <2> QED BY <1>4, <2>1, <2>4
<1>9. CASE EndIntegrate
  <2> DEFINE launchable == {p \in InStatus(LaunchStates) : Len(workers[p]) < MaxSpawns}
  <2>1. launchable \in SUBSET Packages /\ DOMAIN ctl.seen = {}
        /\ \A p \in launchable : task[p].status \in LaunchStates
    BY <1>9 DEF EndIntegrate, InStatus
  <2>2. ctl' = [phase |-> "launch", step |-> "start", seen |-> Copies(launchable),
                landed |-> {}, report |-> NoReport, head |-> NoBranch, slots |-> FreeSlots]
    BY <1>9 DEF EndIntegrate, Idle
  <2> HIDE DEF launchable
  <2> QED BY <1>4, <2>1, <2>2
<1>10. CASE EndTick
  <2>1. ctl.step = "start" /\ ctl' = [Idle EXCEPT !.phase = "idle"]
    BY <1>10, IdleAgain DEF EndTick
  <2>2. ctl'.step = "start" /\ DOMAIN ctl'.seen = {}
    BY <2>1, StoppedLocal DEF Phases
  <2> QED BY <1>2, <2>1, <2>2, PhasePackages
<1> QED BY <1>5, <1>6, <1>7, <1>8, <1>9, <1>10

\* A worker's step concerns its own package, and no record of it.
LEMMA AgentPackage ==
  ASSUME JInv, NEW p \in Packages,
         UNCHANGED <<task, record, integration, ctl>>,
         \A q \in Packages \ {p} :
           /\ workers'[q] = workers[q] /\ result'[q] = result[q]
           /\ branch'[q] = branch[q] /\ dirty'[q] = dirty[q],
         PackageOK(p)'
  PROVE  JInv'
<1>1. \A q \in Packages : PackageOK(q)'
  BY SamePackage DEF JInv
<1>2. \A q \in DOMAIN ctl'.seen : CopyOK(q)'
  BY DEF JInv, CopyOK
<1> QED BY <1>1, <1>2 DEF JInv, StepsOK

LEMMA CommitPackage ==
  ASSUME Undisturbed, IInv, JInv, NEW p \in Packages, NEW i \in DOMAIN workers[p],
         WorkerCommits(p, i)
  PROVE  JInv'
<1> DEFINE own == Own(p, branch[p])
           c == [author |-> p, n |-> Cardinality(own) + 1, owned |-> TRUE]
<1>1. TypeOK /\ Finite
  BY DEF IInv
<1>2. workers[p][i] = "working" /\ PackageOK(p)
  BY UndisturbedFaults DEF WorkerCommits, JInv
<1>3. branch' = [branch EXCEPT ![p] = branch[p] \cup {c}]
      /\ dirty' = [dirty EXCEPT ![p] = {}]
      /\ UNCHANGED <<task, workers, record, result, integration, ctl>>
  BY <1>1, UndisturbedFaults DEF WorkerCommits, TypeOK
<1>4. IsFiniteSet(own) /\ Cardinality(own) \in Nat
  <2>1. IsFiniteSet(branch[p]) /\ own \subseteq branch[p]
    BY <1>1 DEF Finite, Own
  <2> QED BY <2>1, FS_Subset, FS_CardinalityType
<1>5. CommitsOK(p)
  BY <1>2 DEF PackageOK
<1>6. \A d \in own : d.owned /\ d.n <= Cardinality(own) /\ d.n \in Nat
  BY <1>1, <1>5 DEF CommitsOK, TypeOK, Own, Commit
<1>7. c \notin own /\ c.n = Cardinality(own) + 1 /\ c.owned /\ c.author = p
  BY <1>4, <1>6
<1>8. result[p] = NoReport /\ task[p].status \in {"assigned", "running"}
  BY <1>2 DEF PackageOK, AttemptOK, AtWork
<1>9. Cardinality(own \cup {c}) = Cardinality(own) + 1
  BY <1>4, <1>7, FS_AddElement
<1> HIDE DEF c
<1>10. branch'[p] = branch[p] \cup {c} /\ dirty'[p] = {}
  BY <1>1, <1>3 DEF TypeOK
<1>11. Own(p, branch'[p]) = own \cup {c}
  BY <1>7, <1>10 DEF Own
<1>12. \A q \in Packages \ {p} : Own(q, branch'[p]) = Own(q, branch[p])
  BY <1>7, <1>10 DEF Own
<1> HIDE DEF own
<1>13. CommitsOK(p)'
  <2>1. \A d \in Own(p, branch'[p]) : d.owned /\ d.n <= Cardinality(Own(p, branch'[p]))
    BY <1>4, <1>6, <1>7, <1>9, <1>11
  <2>2. \E d \in Own(p, branch'[p]) : d.n = Cardinality(Own(p, branch'[p]))
    BY <1>7, <1>9, <1>11
  <2> QED BY <1>3, <1>5, <1>8, <1>10, <1>12, <2>1, <2>2 DEF CommitsOK
<1>14. PackageOK(p)'
  <2>1. StatusInHand(p)'
    BY <1>2, <1>3 DEF PackageOK, StatusInHand, Stepping, InHand
  <2>2. AttemptOK(p)'
    BY <1>2, <1>3 DEF PackageOK, AttemptOK, Stepping, InHand, AtWork, Over
  <2>3. ResultOK(p)'
    BY <1>2, <1>3, <1>8 DEF PackageOK, ResultOK, Stepping, InHand, NoReport
  <2> QED BY <1>13, <2>1, <2>2, <2>3 DEF PackageOK
<1>15. \A q \in Packages \ {p} : branch'[q] = branch[q] /\ dirty'[q] = dirty[q]
  BY <1>1, <1>3 DEF TypeOK
<1> QED BY <1>3, <1>14, <1>15, AgentPackage

\* A worker reports or exits: the last one, whose attempt is not over.
LEMMA StagePackage ==
  ASSUME Undisturbed, IInv, JInv, NEW p \in Packages, NEW i \in DOMAIN workers[p],
         WorkerReports(p, i) \/ WorkerExits(p, i)
  PROVE  JInv'
<1>1. TypeOK
  BY DEF IInv
<1>2. PackageOK(p) /\ workers[p][i] \in {"working", "reported"} /\ workers[p] \in Seq(Stage)
  BY <1>1 DEF WorkerReports, WorkerExits, JInv, TypeOK
<1>3. PICK stage \in {"reported", "gone"} :
        workers' = [workers EXCEPT ![p] = [workers[p] EXCEPT ![i] = stage]]
  BY <1>1 DEF WorkerReports, WorkerExits, TypeOK
<1>4. UNCHANGED <<task, record, git, ctl>>
  BY DEF WorkerReports, WorkerExits
<1>5. /\ DOMAIN workers'[p] = DOMAIN workers[p] /\ Len(workers'[p]) = Len(workers[p])
      /\ workers'[p][i] = stage
      /\ \A j \in DOMAIN workers[p] : j # i => workers'[p][j] = workers[p][j]
      /\ \A q \in Packages \ {p} : workers'[q] = workers[q]
  BY <1>1, <1>2, <1>3 DEF TypeOK
<1>6. /\ i = Len(workers[p])
      /\ \A j \in DOMAIN workers[p] : j # i => workers[p][j] = "gone"
      /\ ~Over(p)
      /\ workers[p] # <<>> /\ workers'[p] # <<>>
  <2>1. i = Len(workers[p]) /\ \A j \in DOMAIN workers[p] : j # i => workers[p][j] = "gone"
    BY <1>2 DEF PackageOK, AttemptOK
  <2>2. workers[p] # <<>> /\ workers'[p] # <<>>
    BY <1>5
  <2> QED BY <1>2, <2>1, <2>2 DEF Over
<1>7. ~AtWork(p)'
  BY <1>3, <1>5, <1>6 DEF AtWork
<1>8. /\ result'[p] = result[p] \/ AtWork(p)
      /\ result'[p].status = "completed" /\ result'[p] # result[p]
           => result'[p].head \in {branch[p], NoBranch} /\ Own(p, branch[p]) # {}
      /\ \A q \in Packages \ {p} : result'[q] = result[q]
  <2>1. CASE WorkerReports(p, i)
    <3>1. PICK status \in ReportStatuses(p), head \in ReportHeads(p) :
            result' = [result EXCEPT ![p] = [status |-> status, head |-> head]]
      BY <2>1 DEF WorkerReports
    <3>4. head \in {branch[p], NoBranch}
      BY UndisturbedFaults DEF ReportHeads
    <3>2. AtWork(p) /\ (status = "completed" => Own(p, branch[p]) # {})
      BY <2>1, UndisturbedFaults DEF WorkerReports, AtWork, ReportStatuses
    <3>3. result'[p].status = status /\ result'[p].head = head
          /\ \A q \in Packages \ {p} : result'[q] = result[q]
      BY <1>1, <3>1 DEF TypeOK
    <3> QED BY <3>2, <3>3, <3>4
  <2>2. CASE WorkerExits(p, i)
    BY <2>2 DEF WorkerExits
  <2> QED BY <2>1, <2>2
<1>9. AtWork(p) => task[p].status \in {"assigned", "running"}
  BY <1>2 DEF PackageOK, AttemptOK
<1>10. PackageOK(p)'
  <2>1. StatusInHand(p)'
    BY <1>2, <1>4 DEF PackageOK, StatusInHand, Stepping, InHand
  <2>2. AttemptOK(p)'
    BY <1>2, <1>4, <1>5, <1>6, <1>7 DEF PackageOK, AttemptOK, Stepping, InHand
  <2>3. CommitsOK(p)'
    BY <1>2, <1>4 DEF PackageOK, CommitsOK, git
  <2>4. ResultOK(p)'
    <3>1. Stepping(p)' <=> Stepping(p)
      BY <1>4 DEF Stepping, InHand
    <3>2. Stepping(p) /\ ctl.step = "validating" => task[p].status = "validating"
      BY <1>2 DEF PackageOK, StatusInHand
    <3> QED BY <1>2, <1>4, <1>8, <1>9, <3>1, <3>2 DEF PackageOK, ResultOK, git
  <2> QED BY <2>1, <2>2, <2>3, <2>4 DEF PackageOK
<1> QED BY <1>4, <1>5, <1>8, <1>10, AgentPackage DEF git


LEMMA NextPackages == Undisturbed /\ IInv /\ IInv' /\ JInv /\ [Next]_vars => JInv'
<1> SUFFICES ASSUME Undisturbed, IInv, IInv', JInv, [Next]_vars PROVE JInv'
  OBVIOUS
<1>1. CASE Tick
  <2>1. ASSUME NEW p \in Packages,
               Hydrate(p) \/ HydrateRaises(p) \/ Reconcile(p) \/ Decide(p)
                 \/ IntegrateOne(p) \/ Launch(p)
        PROVE  JInv'
    BY <2>1, HydratePackage, ReconcilePackage, DecidePackage, IntegrateOnePackage,
       LaunchPackage
  <2> QED BY <1>1, <2>1, PhasePackageSteps DEF Tick
<1>2. ASSUME NEW p \in Packages, NEW i \in DOMAIN workers[p], WorkerStep(p, i)
      PROVE  JInv'
  <2>1. ~WorkerEdits(p, i)
    BY UndisturbedFaults DEF WorkerEdits
  <2> QED BY <1>2, <2>1, CommitPackage, StagePackage DEF WorkerStep
<1>3. CASE AbortGoal \/ \E p \in Packages, status \in UserCommands : Command(p, status)
  BY <1>3, UndisturbedFaults DEF AbortGoal, Command
<1>4. CASE Crash \/ Restart
  <2>1. ctl' = [Idle EXCEPT !.phase = "idle"] /\ "idle" \in Phases
    BY <1>4, IdleAgain DEF Crash, Restart, Phases
  <2>2. ctl'.step = "start" /\ DOMAIN ctl'.seen = {}
    BY <2>1, StoppedLocal
  <2>3. ctl.phase = "dead" /\ UNCHANGED <<task, workers, record, result, git>>
    BY <1>4, UndisturbedFaults DEF Crash, Restart
  <2>4. ctl.step = "start"
    BY <2>3 DEF JInv, StepsOK, IInv, TypeOK, Local, Steps
  <2> QED BY <2>2, <2>3, <2>4, PhasePackages
<1>5. CASE UNCHANGED vars
  <2>1. \A p \in Packages : PackageOK(p)'
    BY <1>5, SamePackage DEF JInv, vars, git
  <2>2. \A p \in DOMAIN ctl'.seen : CopyOK(p)'
    BY <1>5 DEF JInv, CopyOK, vars
  <2> QED BY <1>5, <2>1, <2>2 DEF JInv, StepsOK, vars
<1> QED BY <1>1, <1>2, <1>3, <1>4, <1>5 DEF Next

LEMMA InitPackages == Init => JInv
<1> SUFFICES ASSUME Init PROVE JInv
  OBVIOUS
<1>1. ctl.phase = "idle" /\ ctl.step = "start" /\ DOMAIN ctl.seen = {}
  BY IdleAgain, StoppedLocal DEF Init, Phases
<1>2. ASSUME NEW p \in Packages PROVE PackageOK(p)
  <2>1. /\ task[p].status = "planned" /\ workers[p] = <<>> /\ record[p] = 0
        /\ result[p] = NoReport /\ branch[p] = {} /\ dirty[p] = {}
        /\ ~Stepping(p)
    BY <1>1 DEF Init, NoBranch, Stepping
  <2>2. Own(p, integration) = {} /\ \A q : Own(q, branch[p]) = {}
    BY <2>1, ConstantsAssumption DEF Init, Own, RootCommit
  <2>3. StatusInHand(p) /\ AttemptOK(p)
    <3>1. Len(workers[p]) = 0 /\ DOMAIN workers[p] = {}
      BY <2>1
    <3> QED BY <2>1, <3>1 DEF StatusInHand, AttemptOK, AtWork, Over
  <2>4. CommitsOK(p)
    BY <2>1, <2>2 DEF CommitsOK
  <2>5. ResultOK(p)
    BY <2>1 DEF ResultOK, NoReport
  <2> QED BY <2>3, <2>4, <2>5 DEF PackageOK
<1> QED BY <1>1, <1>2 DEF JInv, StepsOK

LEMMA PackagesInvariance ==
  ASSUME Undisturbed
  PROVE  Spec => [](IInv /\ JInv)
<1>1. Init => JInv
  BY InitPackages
<1>2. IInv /\ IInv' /\ JInv /\ [Next]_vars => JInv'
  BY NextPackages
<1> QED BY <1>1, <1>2, Invariance, PTL DEF Spec

LEMMA OneAtWork ==
  ASSUME IInv, JInv
  PROVE  OneWorkerPerWorktree
<1> SUFFICES ASSUME NEW p \in Packages
             PROVE  Cardinality({i \in DOMAIN workers[p] : Alive(p, i)}) <= 1
  BY DEF OneWorkerPerWorktree
<1> DEFINE alive == {i \in DOMAIN workers[p] : Alive(p, i)}
<1>1. alive \subseteq {Len(workers[p])}
  BY DEF JInv, PackageOK, AttemptOK, Alive
<1>2. IsFiniteSet({Len(workers[p])}) /\ Cardinality({Len(workers[p])}) = 1
  BY FS_Singleton
<1>3. Cardinality(alive) <= Cardinality({Len(workers[p])})
  BY <1>1, <1>2, FS_Subset
<1> QED BY <1>2, <1>3

\* Each agent at work has an assigned or running task to itself.
LEMMA AgentsOccupy ==
  ASSUME IInv, JInv
  PROVE  AgentsWithinConcurrency
<1> DEFINE agents == {w \in Packages \X (1 .. MaxSpawns) :
                        /\ w[2] \in DOMAIN workers[w[1]]
                        /\ workers[w[1]][w[2]] = "working"}
           package == [w \in agents |-> w[1]]
<1>1. ASSUME NEW w \in agents
      PROVE  /\ w[1] \in Occupied /\ w[2] = Len(workers[w[1]])
             /\ w = <<w[1], w[2]>>
  <2>1. w[1] \in Packages /\ w[2] \in DOMAIN workers[w[1]]
        /\ workers[w[1]][w[2]] = "working" /\ w = <<w[1], w[2]>>
    OBVIOUS
  <2>2. AttemptOK(w[1]) /\ AtWork(w[1])
    BY <2>1 DEF JInv, PackageOK, AtWork
  <2> QED BY <2>1, <2>2 DEF AttemptOK, Occupied, InStatus
<1> HIDE DEF agents
<1>2. package \in Injection(agents, Occupied)
  <2>1. package \in [agents -> Occupied]
    BY <1>1
  <2>2. \A v \in agents, w \in agents : package[v] = package[w] => v = w
    BY <1>1
  <2> QED BY <2>1, <2>2 DEF Injection, IsInjective
<1>3. Occupied \in SUBSET Packages
  BY DEF Occupied, InStatus
<1>4. IsFiniteSet(Occupied) /\ Cardinality(Occupied) \in Nat
  BY <1>3, PackagesFinite
<1> HIDE DEF package
<1>5. Cardinality(agents) <= Cardinality(Occupied) /\ IsFiniteSet(agents)
  BY <1>2, <1>4, FS_Injection
<1>6. Cardinality(agents) \in Nat /\ Concurrency \in Nat
      /\ Cardinality(Occupied) <= Concurrency
  BY <1>5, FS_CardinalityType, ConstantsAssumption DEF IInv, SlotsCover
<1>7. Cardinality(agents) <= Concurrency
  BY <1>4, <1>5, <1>6
<1> QED BY <1>7 DEF AgentsWithinConcurrency, agents

\* Where no worker outlives its report and nothing kills the controller, an
\* agent works only for a task that holds a slot, and alone in its worktree.
THEOREM WorkersKeepToSlots ==
  ASSUME Undisturbed
  PROVE  Spec => []WorkersBounded
<1>1. IInv /\ JInv => WorkersBounded
  BY OneAtWork, AgentsOccupy DEF WorkersBounded
<1> QED BY <1>1, PackagesInvariance, PTL

-----------------------------------------------------------------------------
(***************************************************************************)
(* Every fault, kills and commands included: the commits that records and  *)
(* the copies of them name stay on their branches, and what makes a record *)
(* "merged", at hydration or after a merge, has its commit integrated.     *)
(***************************************************************************)
\* The commit of the copy in hand is to be, or has just been, integrated.
Settled(p) ==
  \/ ctl.phase = "hydrate" /\ p \in ctl.landed
  \/ At("integrate", "merged", p)

LInv ==
  /\ \A p \in Packages :
       /\ task[p].commit \subseteq branch[p]
       /\ task[p].status = "merged" => task[p].commit \subseteq integration
  /\ \A p \in DOMAIN ctl.seen :
       /\ ctl.seen[p].commit \subseteq branch[p]
       /\ Settled(p) => ctl.seen[p].commit \subseteq integration

\* What every step keeps: branches grow, and records it writes are in order.
LEMMA CommitsStay ==
  ASSUME LInv,
         \A q \in Packages : branch[q] \subseteq branch'[q],
         integration \subseteq integration',
         DOMAIN ctl'.seen \subseteq Packages,
         \A q \in Packages :
           \/ task'[q] = task[q]
           \/ /\ task'[q].commit \subseteq branch'[q]
              /\ task'[q].status = "merged" => task'[q].commit \subseteq integration',
         \A q \in DOMAIN ctl'.seen :
           \/ /\ q \in DOMAIN ctl.seen /\ ctl'.seen[q] = ctl.seen[q]
              /\ Settled(q)' => Settled(q)
           \/ /\ ctl'.seen[q].commit \subseteq branch'[q]
              /\ Settled(q)' => ctl'.seen[q].commit \subseteq integration'
  PROVE  LInv'
<1>1. ASSUME NEW q \in Packages
      PROVE  /\ task'[q].commit \subseteq branch'[q]
             /\ task'[q].status = "merged" => task'[q].commit \subseteq integration'
  BY DEF LInv
<1>2. ASSUME NEW q \in DOMAIN ctl'.seen
      PROVE  /\ ctl'.seen[q].commit \subseteq branch'[q]
             /\ Settled(q)' => ctl'.seen[q].commit \subseteq integration'
  BY DEF LInv
<1> QED BY <1>1, <1>2 DEF LInv

\* The package in hand is saved and handled.
LEMMA CommitsFinish ==
  ASSUME TypeOK, LInv, NEW p \in Packages, InHand(ctl.phase, p),
         NEW rec \in Task, Save(p, rec), Done(p), rec.commit = ctl.seen[p].commit,
         rec.status = "merged" => Settled(p),
         \A q \in Packages : branch[q] \subseteq branch'[q],
         integration' = integration
  PROVE  LInv'
<1>1. task'[p] = rec /\ \A q \in Packages : q # p => task'[q] = task[q]
  BY SaveType
<1>2. /\ ctl'.phase = ctl.phase /\ ctl'.step = "start" /\ ctl'.landed = ctl.landed
      /\ DOMAIN ctl'.seen = DOMAIN ctl.seen \ {p}
      /\ \A q \in DOMAIN ctl'.seen : ctl'.seen[q] = ctl.seen[q]
  BY DoneCtl
<1>3. \A q : Settled(q)' => Settled(q)
  BY <1>2 DEF Settled, At
<1>4. p \in DOMAIN ctl.seen
  BY DEF InHand
<1>5. /\ task'[p].commit \subseteq branch'[p]
      /\ task'[p].status = "merged" => task'[p].commit \subseteq integration'
  BY <1>1, <1>4 DEF LInv
<1>6. DOMAIN ctl'.seen \subseteq Packages
  BY <1>2, CtlParts
<1> QED BY <1>1, <1>2, <1>3, <1>5, <1>6, CommitsStay

LEMMA CommitsStatus ==
  ASSUME TypeOK, LInv, NEW p \in Packages, NEW phase, InHand(phase, p),
         NEW status \in TASK_STATES, SaveStatus(p, status), Done(p),
         status = "merged" => Settled(p),
         \A q \in Packages : branch[q] \subseteq branch'[q],
         integration' = integration
  PROVE  LInv'
<1> DEFINE rec == [ctl.seen[p] EXCEPT !.status = status]
<1>1. InHand(ctl.phase, p) /\ ctl.seen[p] \in Task
  BY SeenTask DEF InHand
<1>2. rec \in Task /\ rec.status = status /\ rec.commit = ctl.seen[p].commit
  BY <1>1, WithStatus
<1>3. Save(p, rec)
  BY DEF SaveStatus
<1> HIDE DEF rec
<1> QED BY <1>1, <1>2, <1>3, CommitsFinish

\* The package in hand is saved and stays in hand.
LEMMA CommitsHold ==
  ASSUME TypeOK, LInv, NEW p \in Packages, InHand(ctl.phase, p),
         ctl.phase \in {"reconcile", "integrate", "launch"},
         NEW rec \in Task, Save(p, rec), NEW step \in Steps \ {"merged"},
         NEW report \in Report \cup {NoReport}, Keeps(p, rec, step, report),
         rec.commit \subseteq branch'[p], rec.status # "merged",
         \A q \in Packages : branch[q] \subseteq branch'[q],
         integration' = integration
  PROVE  LInv'
<1>1. task'[p] = rec /\ \A q \in Packages : q # p => task'[q] = task[q]
  BY SaveType
<1>2. p \in DOMAIN ctl.seen
  BY DEF InHand
<1>3. /\ ctl'.phase = ctl.phase /\ ctl'.step = step
      /\ DOMAIN ctl'.seen = DOMAIN ctl.seen /\ ctl'.seen[p] = rec
      /\ \A q \in DOMAIN ctl.seen : q # p => ctl'.seen[q] = ctl.seen[q]
  BY <1>2, HoldCtl
<1>4. \A q : ~Settled(q)'
  BY <1>3 DEF Settled, At
<1>5. DOMAIN ctl'.seen \subseteq Packages
  BY <1>3, CtlParts
<1> QED BY <1>1, <1>3, <1>4, <1>5, CommitsStay

\* A phase is entered with copies of the tasks in S, or the controller stops.
LEMMA CommitsEnter ==
  ASSUME TypeOK, LInv, NEW S \in SUBSET Packages,
         ctl'.seen = Copies(S) \/ DOMAIN ctl'.seen = {}, ctl'.step = "start",
         ctl'.phase = "hydrate" => \A p \in ctl'.landed : branch[p] \subseteq integration,
         UNCHANGED <<task, git>>
  PROVE  LInv'
<1>1. DOMAIN Copies(S) = S /\ \A q \in S : Copies(S)[q] = task[q]
  BY CopiesType
<1>2. ASSUME NEW q \in DOMAIN ctl'.seen
      PROVE  q \in Packages /\ ctl'.seen[q].commit \subseteq branch[q]
  BY <1>1 DEF LInv
<1>3. \A q : Settled(q)' => branch[q] \subseteq integration
  BY DEF Settled, At
<1>4. UNCHANGED <<branch, integration, task>>
  BY DEF git
<1> QED BY <1>2, <1>3, <1>4, CommitsStay

LEMMA CommitsHandoff ==
  ASSUME IInv, LInv, NEW p \in Packages, NEW phase, InHand(phase, p), HandoffOrBlock(p)
  PROVE  LInv'
<1>1. TypeOK /\ integration' = integration /\ Done(p)
      /\ \A q \in Packages : branch[q] \subseteq branch'[q]
  BY CheckpointGrows DEF IInv, HandoffOrBlock, Grows
<1>2. CASE SaveStatus(p, "handoff_needed")
  BY <1>1, <1>2, Statuses, CommitsStatus
<1>3. CASE SaveStatus(p, "blocked")
  BY <1>1, <1>3, Statuses, CommitsStatus
<1> QED BY <1>2, <1>3 DEF HandoffOrBlock

\* The process dies, or nothing but a package's turn passes.
LEMMA CommitsStop ==
  ASSUME TypeOK, LInv, NEW phase \in Phases, ctl' = [Idle EXCEPT !.phase = phase],
         phase # "hydrate", UNCHANGED <<task, git>>
  PROVE  LInv'
<1>1. ctl'.phase = phase /\ ctl'.step = "start" /\ DOMAIN ctl'.seen = {}
  BY StoppedLocal
<1> QED BY <1>1, CommitsEnter

LEMMA CommitsHydrate ==
  ASSUME IInv, LInv, NEW p \in Packages, Hydrate(p) \/ HydrateRaises(p)
  PROVE  LInv'
<1>1. TypeOK
  BY DEF IInv
<1>2. CASE Hydrate(p)
  <2>1. InHand("hydrate", p) /\ ctl.phase = "hydrate" /\ UNCHANGED <<branch, integration>>
    BY <1>2 DEF Hydrate, InHand, git
  <2>2. CASE p \in ctl.landed
    BY <1>1, <1>2, <2>1, <2>2, Statuses, CommitsStatus DEF Hydrate, Settled
  <2>3. CASE p \notin ctl.landed
    BY <1>1, <1>2, <2>1, <2>3, Statuses, CommitsStatus DEF Hydrate
  <2> QED BY <2>2, <2>3
<1>3. CASE HydrateRaises(p)
  BY <1>1, <1>3, CommitsStop DEF HydrateRaises, Die, Phases
<1> QED BY <1>2, <1>3

LEMMA CommitsReconcile ==
  ASSUME IInv, LInv, NEW p \in Packages, Reconcile(p)
  PROVE  LInv'
<1>1. ctl.phase = "reconcile" /\ InHand("reconcile", p) /\ InHand(ctl.phase, p)
  <2>1. \E step : At("reconcile", step, p)
    <3>1. At("reconcile", "start", p) \/ At("reconcile", "validating", p)
            \/ At("reconcile", "reviewing", p)
      BY DEF Reconcile, MissingRecord, UnreadableResult, TakeResult, WorkerGaveUp, Validated,
             ValidationFailed, ReviewPassed, ReviewFailed, StillRunning, WorkerLost
    <3> QED BY <3>1
  <2> QED BY <2>1 DEF At, InHand
<1>2. TypeOK /\ p \in DOMAIN ctl.seen /\ ctl.seen[p] \in Task
      /\ ctl.seen[p].commit \subseteq branch[p]
  BY <1>1, CtlParts DEF IInv, LInv, InHand
<1>3. CASE MissingRecord(p)
  BY <1>1, <1>2, <1>3, Statuses, CommitsStatus DEF MissingRecord, git
<1>4. CASE UnreadableResult(p)
  BY <1>2, <1>4, CommitsStop DEF UnreadableResult, Die, Phases
<1>5. CASE TakeResult(p)
  <2> DEFINE rec == [ctl.seen[p] EXCEPT !.status = "validating"]
  <2>1. rec \in Task /\ rec.status = "validating" /\ rec.commit = ctl.seen[p].commit
    BY <1>2, Statuses, WithStatus
  <2>2. Save(p, rec) /\ Keeps(p, rec, "validating", result[p]) /\ UNCHANGED <<branch, integration>>
    BY <1>5 DEF TakeResult, SaveStatus, Keeps, git
  <2>3. "validating" \in Steps \ {"merged"} /\ result[p] \in Report \cup {NoReport}
    BY <1>2 DEF Steps, TypeOK
  <2> HIDE DEF rec
  <2> QED BY <1>1, <1>2, <2>1, <2>2, <2>3, CommitsHold
<1>6. CASE WorkerGaveUp(p)
  <2>1. ctl.report.status \in TASK_STATES /\ ctl.report.status # "merged"
    BY <1>6, Statuses DEF WorkerGaveUp
  <2> QED BY <1>1, <1>2, <1>6, <2>1, CommitsStatus DEF WorkerGaveUp, git
<1>7. CASE Validated(p)
  <2> DEFINE rec == [ctl.seen[p] EXCEPT !.status = "reviewing", !.commit = branch[p]]
  <2>1. rec \in Task /\ rec.status = "reviewing" /\ rec.commit = branch[p]
    <3>1. branch[p] \in SUBSET Commit /\ "reviewing" \in TASK_STATES
      BY <1>2, Statuses DEF TypeOK
    <3> QED BY <1>2, <3>1 DEF Task
  <2>2. Save(p, rec) /\ UNCHANGED <<branch, integration>>
    BY <1>7 DEF Validated, git
  <2>3. Keeps(p, rec, "reviewing", ctl.report)
    BY <1>2, <1>7, CtlParts DEF Validated, Keeps
  <2>4. "reviewing" \in Steps \ {"merged"} /\ ctl.report \in Report \cup {NoReport}
    BY <1>2, CtlParts DEF Steps
  <2> HIDE DEF rec
  <2> QED BY <1>1, <1>2, <2>1, <2>2, <2>3, <2>4, CommitsHold
<1>8. CASE HandoffOrBlock(p)
  BY <1>1, <1>8, CommitsHandoff
<1>9. CASE ReviewPassed(p)
  <2>1. CASE p \in Approval
    BY <1>1, <1>2, <1>9, <2>1, Statuses, CommitsStatus DEF ReviewPassed, git
  <2>2. CASE p \notin Approval
    BY <1>1, <1>2, <1>9, <2>2, Statuses, CommitsStatus DEF ReviewPassed, git
  <2> QED BY <2>1, <2>2
<1>10. CASE StillRunning(p)
  <2>1. Save(p, task[p]) /\ UNCHANGED <<task, branch, integration>> /\ Done(p)
    BY <1>2, <1>10 DEF StillRunning, Save, TypeOK, git
  <2>2. /\ ctl'.phase = ctl.phase /\ ctl'.step = "start"
        /\ DOMAIN ctl'.seen = DOMAIN ctl.seen \ {p} /\ DOMAIN ctl'.seen \subseteq Packages
        /\ \A q \in DOMAIN ctl'.seen : ctl'.seen[q] = ctl.seen[q]
    BY <1>2, <2>1, DoneCtl, CtlParts
  <2>3. \A q : ~Settled(q)'
    BY <1>1, <2>2 DEF Settled, At
  <2> QED BY <2>1, <2>2, <2>3, CommitsStay
<1>11. CASE WorkerLost(p)
  <2>1. PICK handoff \in BOOLEAN :
          Save(p, [ctl.seen[p] EXCEPT !.status = "decision_required", !.handoff = handoff])
    BY <1>11 DEF WorkerLost
  <2> DEFINE rec == [ctl.seen[p] EXCEPT !.status = "decision_required", !.handoff = handoff]
  <2>2. rec \in Task /\ rec.status = "decision_required" /\ rec.commit = ctl.seen[p].commit
    <3>1. "decision_required" \in TASK_STATES
      BY Statuses
    <3> QED BY <1>2, <3>1 DEF Task
  <2>3. Save(p, rec) /\ Done(p) /\ UNCHANGED <<branch, integration>>
    BY <1>11, <2>1 DEF WorkerLost, git
  <2> HIDE DEF rec
  <2> QED BY <1>1, <1>2, <2>2, <2>3, CommitsFinish
<1> QED BY <1>3, <1>4, <1>5, <1>6, <1>7, <1>8, <1>9, <1>10, <1>11
       DEF Reconcile, ValidationFailed, ReviewFailed

LEMMA CommitsDecide ==
  ASSUME IInv, LInv, NEW p \in Packages, Decide(p)
  PROVE  LInv'
<1>1. CASE HandOver(p)
  BY <1>1, CommitsHandoff DEF HandOver
<1>2. CASE AskUser(p)
  BY <1>2, Statuses, CommitsStatus DEF AskUser, IInv, git
<1> QED BY <1>1, <1>2 DEF Decide

\* The branch that is merged contains the commit its record names.
LEMMA CommitsIntegrate ==
  ASSUME IInv, LInv, NEW p \in Packages, IntegrateOne(p)
  PROVE  LInv'
<1>1. TypeOK /\ ctl.phase = "integrate" /\ InHand("integrate", p) /\ InHand(ctl.phase, p)
  BY DEF IInv, IntegrateOne, BeginIntegration, Integrate, IntegrateRaises,
         RecordIntegration, At, InHand
<1>2. /\ p \in DOMAIN ctl.seen /\ DOMAIN ctl.seen \subseteq Packages /\ ctl.seen[p] \in Task
      /\ ctl.seen[p].commit \subseteq branch[p]
  BY <1>1, CtlParts DEF LInv, InHand
<1>3. CASE BeginIntegration(p)
  <2> DEFINE rec == [ctl.seen[p] EXCEPT !.status = "integrating"]
  <2>1. rec \in Task /\ rec.status = "integrating" /\ rec.commit = ctl.seen[p].commit
    BY <1>2, Statuses, WithStatus
  <2>2. ctl.report \in Report \cup {NoReport} /\ "integrating" \in Steps \ {"merged"}
    BY <1>1, CtlParts DEF Steps
  <2>3. ctl' = [ctl EXCEPT !.step = "integrating", !.seen[p] = rec]
    BY <1>3 DEF BeginIntegration
  <2>4. Save(p, rec) /\ UNCHANGED <<branch, integration>>
    BY <1>3 DEF BeginIntegration, SaveStatus, git
  <2> HIDE DEF rec
  <2>5. Keeps(p, rec, "integrating", ctl.report)
    BY <1>1, <2>3, CtlParts DEF Keeps
  <2> QED BY <1>1, <1>2, <2>1, <2>2, <2>4, <2>5, CommitsHold
<1>4. CASE Integrate(p) \/ IntegrateRaises(p)
  <2>1. PICK step \in Steps : ctl' = [ctl EXCEPT !.step = step]
                              /\ (step = "merged" => Integrate(p))
    BY <1>4 DEF Integrate, IntegrateRaises, Steps
  <2>2. ctl'.phase = "integrate" /\ ctl'.step = step /\ ctl'.seen = ctl.seen
    BY <1>1, <2>1, StepCtl
  <2>3. UNCHANGED <<task, branch>> /\ integration \subseteq integration'
    BY <1>4 DEF Integrate, IntegrateRaises, git
  <2>4. Integrate(p) => branch[p] \subseteq integration'
    BY DEF Integrate
  <2>5. ASSUME NEW q \in DOMAIN ctl'.seen, Settled(q)' PROVE q = p /\ Integrate(p)
    <3>1. q \in Packages
      BY <1>2, <2>2, <2>5
    <3>2. InHand("integrate", q) /\ step = "merged"
      BY <1>1, <2>2, <2>5 DEF Settled, At, InHand
    <3> QED BY <1>1, <2>1, <3>1, <3>2, OneInHand
  <2>6. ASSUME NEW q \in DOMAIN ctl'.seen
        PROVE  /\ ctl'.seen[q].commit \subseteq branch'[q]
               /\ Settled(q)' => ctl'.seen[q].commit \subseteq integration'
    BY <1>2, <2>2, <2>3, <2>4, <2>5 DEF LInv
  <2> QED BY <1>2, <2>2, <2>3, <2>6, CommitsStay
<1>5. CASE RecordIntegration(p)
  <2>1. UNCHANGED <<branch, integration>> /\ Done(p)
    BY <1>5 DEF RecordIntegration, git
  <2>2. CASE ctl.step = "merged"
    <3>1. Settled(p) /\ SaveStatus(p, "merged")
      BY <1>5, <2>2 DEF RecordIntegration, Settled
    <3> QED BY <1>1, <2>1, <3>1, Statuses, CommitsStatus
  <2>3. CASE ctl.step # "merged"
    BY <1>1, <1>5, <2>1, <2>3, Statuses, CommitsStatus DEF RecordIntegration
  <2> QED BY <2>2, <2>3
<1> QED BY <1>3, <1>4, <1>5 DEF IntegrateOne

LEMMA CommitsLaunch ==
  ASSUME IInv, LInv, NEW p \in Packages, Launch(p)
  PROVE  LInv'
<1>1. TypeOK /\ ctl.phase = "launch" /\ InHand("launch", p) /\ InHand(ctl.phase, p)
  BY DEF IInv, Launch, NoProvider, PauseForQuota, RefuseDirty, ToLaunch, Assign, Spawn,
         RecordProcess, Launched, At, InHand
<1>2. /\ p \in DOMAIN ctl.seen /\ DOMAIN ctl.seen \subseteq Packages /\ ctl.seen[p] \in Task
      /\ ctl.seen[p].commit \subseteq branch[p]
  BY <1>1, CtlParts DEF LInv, InHand
<1>3. CASE NoProvider(p) \/ RefuseDirty(p)
  BY <1>1, <1>3, Statuses, CommitsStatus DEF NoProvider, RefuseDirty, git
<1>4. CASE PauseForQuota(p)
  <2>1. \A q \in Packages : branch[q] \subseteq branch'[q]
    BY <1>4, CheckpointGrows DEF IInv, PauseForQuota, Grows
  <2> QED BY <1>1, <1>4, <2>1, Statuses, CommitsStatus DEF PauseForQuota
<1>5. CASE Assign(p)
  <2> DEFINE rec == [ctl.seen[p] EXCEPT !.status = "assigned"]
  <2>1. rec \in Task /\ rec.status = "assigned" /\ rec.commit = ctl.seen[p].commit
    BY <1>2, Statuses, WithStatus
  <2>2. ctl.report \in Report \cup {NoReport} /\ "assigned" \in Steps \ {"merged"}
    BY <1>1, CtlParts DEF Steps
  <2>3. Keeps(p, rec, "assigned", ctl.report)
    BY <1>1, <1>5, CtlParts DEF Assign, Keeps
  <2>4. Save(p, rec) /\ integration' = integration
    BY <1>5 DEF Assign, SaveStatus
  <2>5. \A q \in Packages : branch[q] \subseteq branch'[q]
    BY <1>1, <1>5 DEF Assign, TypeOK, NoBranch
  <2> HIDE DEF rec
  <2>6. rec.commit \subseteq branch'[p]
    BY <1>2, <2>1, <2>5
  <2> QED BY <1>1, <2>1, <2>2, <2>3, <2>4, <2>5, <2>6, CommitsHold
<1>6. CASE Spawn(p) \/ RecordProcess(p)
  <2>1. PICK step \in Steps : ctl' = [ctl EXCEPT !.step = step]
    BY <1>6 DEF Spawn, RecordProcess, Steps
  <2>2. ctl'.phase = "launch" /\ ctl'.seen = ctl.seen
    BY <1>1, <2>1, StepCtl
  <2>3. UNCHANGED <<task, branch, integration>>
    BY <1>6 DEF Spawn, RecordProcess, git
  <2>4. \A q : ~Settled(q)'
    BY <2>2 DEF Settled, At, InHand
  <2> QED BY <1>2, <2>2, <2>3, <2>4, CommitsStay
<1>7. CASE Launched(p)
  <2> DEFINE rec == [ctl.seen[p] EXCEPT !.status = "running"]
  <2>1. rec \in Task /\ rec.status = "running" /\ rec.commit = ctl.seen[p].commit
    BY <1>2, Statuses, WithStatus
  <2>2. Save(p, rec) /\ UNCHANGED <<branch, integration>>
    BY <1>7 DEF Launched, SaveStatus, git
  <2>3. ctl'.phase = "launch" /\ ctl'.seen = Drop(p)
    BY <1>1, <1>7, CtlParts DEF Launched
  <2> HIDE DEF rec
  <2>4. task'[p] = rec /\ \A q \in Packages : q # p => task'[q] = task[q]
    BY <1>1, <2>1, <2>2, SaveType
  <2>5. DOMAIN ctl'.seen = DOMAIN ctl.seen \ {p}
        /\ \A q \in DOMAIN ctl'.seen : ctl'.seen[q] = ctl.seen[q]
    BY <1>1, <2>3, DropType
  <2>6. \A q : ~Settled(q)'
    BY <2>3 DEF Settled, At, InHand
  <2> QED BY <1>2, <2>1, <2>2, <2>4, <2>5, <2>6, CommitsStay
<1> QED BY <1>3, <1>4, <1>5, <1>6, <1>7 DEF Launch

\* A package recorded as merged at hydration has its branch integrated.
LEMMA CommitsPhases ==
  ASSUME IInv, LInv,
         StartTick \/ EndHydrate \/ EndReconcile \/ EndDecide \/ EndIntegrate \/ EndTick
  PROVE  LInv'
<1>1. TypeOK
  BY DEF IInv
<1>2. CASE StartTick
  <2> DEFINE open == {p \in Packages :
                        /\ task[p].status \notin ACTIVE_STATES \cup TERMINAL_STATES
                        /\ RepairRequired(p) \/ Merged(p) \/ ExecutionReady(p)}
             landed == {p \in open : Merged(p)}
  <2>1. open \in SUBSET Packages /\ \A p \in landed : branch[p] \subseteq integration
    BY DEF Merged, MergedIds
  <2>2. ctl' = [phase |-> "hydrate", step |-> "start", seen |-> Copies(open),
                landed |-> landed, report |-> NoReport, head |-> NoBranch, slots |-> 0]
    BY <1>2 DEF StartTick, Idle
  <2> HIDE DEF open, landed
  <2>3. ctl'.seen = Copies(open) /\ ctl'.step = "start" /\ ctl'.landed = landed
    BY <2>2
  <2>4. UNCHANGED <<task, git>>
    BY <1>2 DEF StartTick
  <2> QED BY <1>1, <2>1, <2>3, <2>4, CommitsEnter
<1>3. CASE EndHydrate \/ EndReconcile \/ (EndDecide /\ ctl' # [Idle EXCEPT !.phase = "dead"])
             \/ EndIntegrate
  <2>1. PICK S \in SUBSET Packages :
          ctl'.seen = Copies(S) /\ ctl'.step = "start" /\ ctl'.phase # "hydrate"
    <3>1. CASE EndHydrate \/ EndReconcile
      <4>1. PICK phase \in {"reconcile", "decide"},
                 states \in {ACTIVE_STATES, {"decision_required"}} :
                   Enter(phase, InStatus(states))
        BY <3>1 DEF EndHydrate, EndReconcile
      <4> DEFINE S == InStatus(states)
      <4>2. S \in SUBSET Packages
        BY DEF InStatus
      <4>3. ctl' = [phase |-> phase, step |-> "start", seen |-> Copies(S), landed |-> {},
                    report |-> NoReport, head |-> NoBranch, slots |-> 0]
        BY <4>1 DEF Enter, Idle
      <4> HIDE DEF S
      <4> QED BY <4>1, <4>2, <4>3
    <3>2. CASE EndDecide /\ ctl' # [Idle EXCEPT !.phase = "dead"]
      <4> DEFINE candidates == InStatus(IntegrationStates)
                 first == {p \in candidates : \A q \in candidates : p <= q}
      <4>1. first \in SUBSET Packages
        BY DEF InStatus
      <4>2. ctl' = [phase |-> "integrate", step |-> "start", seen |-> Copies(first),
                    landed |-> {}, report |-> NoReport,
                    head |-> UNION {branch[p] : p \in first}, slots |-> 0]
        BY <3>2 DEF EndDecide, Die, Idle
      <4> HIDE DEF first
      <4> QED BY <4>1, <4>2
    <3>3. CASE EndIntegrate
      <4> DEFINE launchable == {p \in InStatus(LaunchStates) : Len(workers[p]) < MaxSpawns}
      <4>1. launchable \in SUBSET Packages
        BY DEF InStatus
      <4>2. ctl' = [phase |-> "launch", step |-> "start", seen |-> Copies(launchable),
                    landed |-> {}, report |-> NoReport, head |-> NoBranch,
                    slots |-> FreeSlots]
        BY <3>3 DEF EndIntegrate, Idle
      <4> HIDE DEF launchable
      <4> QED BY <4>1, <4>2
    <3> QED BY <1>3, <3>1, <3>2, <3>3
  <2>2. UNCHANGED <<task, git>>
    BY <1>3 DEF EndHydrate, EndReconcile, EndDecide, EndIntegrate
  <2> QED BY <1>1, <2>1, <2>2, CommitsEnter
<1>4. CASE EndTick \/ (EndDecide /\ ctl' = [Idle EXCEPT !.phase = "dead"])
  <2>1. PICK phase \in {"idle", "dead"} : ctl' = [Idle EXCEPT !.phase = phase]
    BY <1>4, IdleAgain DEF EndTick
  <2>2. UNCHANGED <<task, git>>
    BY <1>4 DEF EndTick, EndDecide
  <2>3. phase \in Phases /\ phase # "hydrate"
    BY DEF Phases
  <2> QED BY <1>1, <2>1, <2>2, <2>3, CommitsStop
<1> QED BY <1>2, <1>3, <1>4

\* Worker's commits only add to its branch.
LEMMA CommitsWorker ==
  ASSUME IInv, LInv, NEW p \in Packages, NEW i \in DOMAIN workers[p], WorkerStep(p, i)
  PROVE  LInv'
<1>1. UNCHANGED <<task, integration, ctl>>
  BY DEF WorkerStep, WorkerEdits, WorkerCommits, WorkerReports, WorkerExits, git
<1>2. \A q \in Packages : branch[q] \subseteq branch'[q]
  <2>1. CASE WorkerCommits(p, i)
    <3>1. PICK commit : branch' = [branch EXCEPT ![p] = @ \cup {commit}]
      BY <2>1 DEF WorkerCommits
    <3> QED BY <3>1 DEF IInv, TypeOK
  <2>2. CASE ~WorkerCommits(p, i)
    BY <2>2 DEF WorkerStep, WorkerEdits, WorkerReports, WorkerExits, git
  <2> QED BY <2>1, <2>2
<1>3. DOMAIN ctl.seen \subseteq Packages /\ \A q : Settled(q)' => Settled(q)
  BY <1>1, CtlParts DEF IInv, Settled, At, InHand
<1> QED BY <1>1, <1>2, <1>3, CommitsStay

\* A command keeps the record's commit and cannot make it "merged".
LEMMA CommitsUser ==
  ASSUME IInv, LInv,
         AbortGoal \/ \E p \in Packages, status \in UserCommands : Command(p, status)
  PROVE  LInv'
<1>1. UNCHANGED <<branch, integration, ctl>>
  BY DEF AbortGoal, Command, git
<1>2. \A q \in Packages :
        /\ task'[q].commit = task[q].commit
        /\ task'[q].status = "merged" => task[q].status = "merged"
  <2>1. task \in [Packages -> Task]
    BY DEF IInv, TypeOK
  <2>2. ASSUME NEW p \in Packages, NEW status \in TASK_STATES
        PROVE  [task[p] EXCEPT !.status = status].status = status
               /\ [task[p] EXCEPT !.status = status].commit = task[p].commit
    BY <2>1, WithStatus
  <2>3. CASE AbortGoal
    BY <2>1, <2>2, <2>3, Statuses DEF AbortGoal
  <2>4. ASSUME NEW p \in Packages, NEW status \in UserCommands, Command(p, status)
        PROVE  \A q \in Packages :
                 /\ task'[q].commit = task[q].commit
                 /\ task'[q].status = "merged" => task[q].status = "merged"
    <3>1. status \in TASK_STATES /\ status # "merged"
      BY Statuses DEF UserCommands
    <3>2. task' = [task EXCEPT ![p] = [task[p] EXCEPT !.status = status]]
      BY <2>1, <2>4 DEF Command
    <3> QED BY <2>1, <2>2, <3>1, <3>2
  <2> QED BY <2>3, <2>4
<1>3. DOMAIN ctl.seen \subseteq Packages /\ \A q : Settled(q)' => Settled(q)
  BY <1>1, CtlParts DEF IInv, Settled, At, InHand
<1>4. \A q \in Packages :
        /\ task'[q].commit \subseteq branch'[q]
        /\ task'[q].status = "merged" => task'[q].commit \subseteq integration'
  BY <1>1, <1>2 DEF LInv
<1> QED BY <1>1, <1>3, <1>4, CommitsStay

LEMMA CommitsInit == Init => LInv
<1> SUFFICES ASSUME Init PROVE LInv
  OBVIOUS
<1>1. DOMAIN ctl.seen = {}
  BY DEF Init, Idle
<1>2. \A p \in Packages : task[p].commit = {} /\ task[p].status = "planned"
  BY DEF Init, NoBranch
<1> QED BY <1>1, <1>2 DEF LInv

LEMMA CommitsNext == IInv /\ LInv /\ [Next]_vars => LInv'
<1> SUFFICES ASSUME IInv, LInv, [Next]_vars PROVE LInv'
  OBVIOUS
<1>1. CASE Tick
  <2>1. ASSUME NEW p \in Packages,
               Hydrate(p) \/ HydrateRaises(p) \/ Reconcile(p) \/ Decide(p)
                 \/ IntegrateOne(p) \/ Launch(p)
        PROVE  LInv'
    BY <2>1, CommitsHydrate, CommitsReconcile, CommitsDecide, CommitsIntegrate, CommitsLaunch
  <2> QED BY <1>1, <2>1, CommitsPhases DEF Tick
<1>2. CASE \E p \in Packages : \E i \in DOMAIN workers[p] : WorkerStep(p, i)
  BY <1>2, CommitsWorker
<1>3. CASE AbortGoal \/ \E p \in Packages, status \in UserCommands : Command(p, status)
  BY <1>3, CommitsUser
<1>4. CASE Crash \/ Restart
  <2>1. ctl' = [Idle EXCEPT !.phase = "idle"] /\ UNCHANGED <<task, git>>
    BY <1>4, IdleAgain DEF Crash, Restart
  <2> QED BY <2>1, CommitsStop DEF IInv, Phases
<1>5. CASE UNCHANGED vars
  BY <1>5 DEF vars, git, LInv, Settled, At, InHand
<1> QED BY <1>1, <1>2, <1>3, <1>4, <1>5 DEF Next

LEMMA CommitsInvariance == Spec => []LInv
BY CommitsInit, CommitsNext, Invariance, PTL DEF Spec

\* MergedIsIntegrated: whatever the plan and the faults, commands and kills in the
\* middle of a tick included, the commit that a merged task's record names is on
\* the integration branch (_hydrate_task_state, the merge in controller_tick).
THEOREM MergedIsInGit == Spec => []MergedIsIntegrated
<1>1. LInv => MergedIsIntegrated
  BY DEF LInv, MergedIsIntegrated
<1> QED BY <1>1, CommitsInvariance, PTL
-----------------------------------------------------------------------------
(***************************************************************************)
(* For any plan, packages side by side included: what the integration      *)
(* branch has of a package has come there by its merge.  Branches carry    *)
(* other packages' commits only from there, the copies of a phase are the  *)
(* records themselves, and a record that may be merged names a commit.     *)
(***************************************************************************)
\* The controller is not killed, and the user gives no commands.
LeftAlone == Faults \cap {"crash", "operator"} = {}

Merging(p) == At("integrate", "merged", p)

\* The commit of the package in hand is under review, or to be merged.
Accepted(p) ==
  \/ At("reconcile", "reviewing", p)
  \/ ctl.phase = "integrate" /\ p \in DOMAIN ctl.seen

Accounted(p) ==
  /\ \A q \in Packages \ {p} : Own(q, branch[p]) \subseteq integration
  /\ Own(p, integration) # {} =>
       /\ task[p].status = "merged" \/ Merging(p)
       /\ task[p].commit # NoBranch /\ task[p].commit \subseteq integration
  /\ task[p].status \in IntegrationStates \/ Accepted(p) => task[p].commit # NoBranch
  /\ InHand("integrate", p) /\ ctl.step # "start" => task[p].status = "integrating"

RInv ==
  /\ \A p \in Packages : Accounted(p)
  /\ \A p \in DOMAIN ctl.seen :
       ctl.seen[p] = task[p] /\ task[p].status # "merged"

\* Steps that bring no branch another package's work, but what is integrated.
OwnWorkOnly ==
  \A p \in Packages : \A q \in Packages \ {p} :
    Own(q, branch'[p]) \subseteq Own(q, branch[p]) \cup integration

LEMMA CheckpointIsOwn ==
  ASSUME TypeOK, NEW p \in Packages, Checkpoint(p)
  PROVE  OwnWorkOnly
<1>1. CASE "owned" \in dirty[p]
  <2> DEFINE c == [author |-> p, n |-> Cardinality(Own(p, branch[p])) + 1, owned |-> TRUE]
  <2>1. branch' = [branch EXCEPT ![p] = branch[p] \cup {c}]
    BY <1>1 DEF Checkpoint, TypeOK
  <2>2. c.author = p
    OBVIOUS
  <2> HIDE DEF c
  <2> QED BY <2>1, <2>2 DEF TypeOK, OwnWorkOnly, Own
<1>2. CASE "owned" \notin dirty[p]
  BY <1>2 DEF Checkpoint, OwnWorkOnly, Own
<1> QED BY <1>1, <1>2

LEMMA StaysOwn ==
  ASSUME branch' = branch
  PROVE  OwnWorkOnly
BY DEF OwnWorkOnly

\* A package keeps its record, and its place in the tick.
Rests(p) ==
  /\ task'[p] = task[p]
  /\ Merging(p) => Merging(p)'
  /\ Accepted(p)' => Accepted(p) \/ task[p].status \in IntegrationStates
  /\ InHand("integrate", p)' /\ ctl'.step # "start"
       => InHand("integrate", p) /\ ctl.step # "start"

\* A package of which nothing is integrated gets another record, or the one
\* whose merge is in hand is recorded as merged.
Moves(p) ==
  /\ \/ Own(p, integration) = {}
     \/ task'[p].status = "merged" /\ task'[p].commit = task[p].commit
  /\ task'[p].status \in IntegrationStates \/ Accepted(p)' => task'[p].commit # NoBranch
  /\ InHand("integrate", p)' /\ ctl'.step # "start" => task'[p].status = "integrating"

LEMMA RecordsStay ==
  ASSUME RInv, OwnWorkOnly, integration' = integration,
         \A q \in Packages : Rests(q) \/ Moves(q),
         \A q \in DOMAIN ctl'.seen :
           ctl'.seen[q] = task'[q] /\ task'[q].status # "merged"
  PROVE  RInv'
<1>1. ASSUME NEW p \in Packages PROVE Accounted(p)'
  <2>1. Accounted(p)
    BY DEF RInv
  <2>2. \A q \in Packages \ {p} : Own(q, branch'[p]) \subseteq integration'
    BY <2>1 DEF Accounted, OwnWorkOnly
  <2>3. Own(p, integration) # {} =>
          /\ task[p].status = "merged" \/ Merging(p)
          /\ task[p].commit # NoBranch /\ task[p].commit \subseteq integration
    BY <2>1 DEF Accounted
  <2>4. task[p].status \in IntegrationStates \/ Accepted(p) => task[p].commit # NoBranch
    BY <2>1 DEF Accounted
  <2>5. InHand("integrate", p) /\ ctl.step # "start" => task[p].status = "integrating"
    BY <2>1 DEF Accounted
  <2>6. Own(p, integration') = Own(p, integration)
    OBVIOUS
  <2>7. CASE Rests(p)
    <3>1. Own(p, integration') # {} =>
            /\ task'[p].status = "merged" \/ Merging(p)'
            /\ task'[p].commit # NoBranch /\ task'[p].commit \subseteq integration'
      BY <2>3, <2>6, <2>7 DEF Rests
    <3>2. task'[p].status \in IntegrationStates \/ Accepted(p)' => task'[p].commit # NoBranch
      BY <2>4, <2>7 DEF Rests
    <3>3. InHand("integrate", p)' /\ ctl'.step # "start" => task'[p].status = "integrating"
      BY <2>5, <2>7 DEF Rests
    <3> QED BY <2>2, <3>1, <3>2, <3>3 DEF Accounted
  <2>8. CASE Moves(p)
    <3>1. Own(p, integration') # {} =>
            /\ task'[p].status = "merged" \/ Merging(p)'
            /\ task'[p].commit # NoBranch /\ task'[p].commit \subseteq integration'
      BY <2>3, <2>6, <2>8 DEF Moves
    <3> QED BY <2>2, <2>8, <3>1 DEF Accounted, Moves
  <2> QED BY <2>7, <2>8
<1> QED BY <1>1 DEF RInv

\* Nothing of a package in hand is integrated, unless it has just been merged.
LEMMA NothingIntegrated ==
  ASSUME RInv, NEW p \in Packages, p \in DOMAIN ctl.seen, ~Merging(p)
  PROVE  Own(p, integration) = {}
BY DEF RInv, Accounted

\* One package is handled and saved; the others wait.
LEMMA OthersRest ==
  ASSUME TypeOK, RInv, NEW p \in Packages, InHand(ctl.phase, p),
         NEW q \in Packages, q # p, task'[q] = task[q], ctl'.phase = ctl.phase,
         \/ DOMAIN ctl'.seen = DOMAIN ctl.seen
         \/ ctl'.step = "start" /\ DOMAIN ctl'.seen \subseteq DOMAIN ctl.seen
  PROVE  Rests(q)
<1>1. \A phase : ~InHand(phase, q)
  BY OneInHand
<1>2. ~Merging(q)
  BY <1>1 DEF Merging, At
<1>3. ASSUME NEW phase, InHand(phase, q)' PROVE ctl'.step = "start"
  <2>1. CASE DOMAIN ctl'.seen = DOMAIN ctl.seen
    BY <1>1, <1>3, <2>1 DEF InHand
  <2> QED BY <2>1
<1>4. Accepted(q)' => Accepted(q)
  BY <1>3 DEF Accepted, At
<1> QED BY <1>2, <1>3, <1>4 DEF Rests

\* The package in hand is saved and handled.
LEMMA RecordsFinish ==
  ASSUME TypeOK, RInv, NEW p \in Packages, InHand(ctl.phase, p),
         NEW rec \in Task, Save(p, rec), Done(p),
         \/ ~Merging(p)
         \/ rec.status = "merged" /\ rec.commit = ctl.seen[p].commit,
         rec.status \in IntegrationStates => rec.commit # NoBranch,
         OwnWorkOnly, integration' = integration
  PROVE  RInv'
<1>1. task'[p] = rec /\ \A q \in Packages : q # p => task'[q] = task[q]
  BY SaveType
<1>2. /\ ctl'.phase = ctl.phase /\ ctl'.step = "start"
      /\ DOMAIN ctl'.seen = DOMAIN ctl.seen \ {p}
      /\ \A q \in DOMAIN ctl'.seen : ctl'.seen[q] = ctl.seen[q]
  BY DoneCtl
<1>3. p \in DOMAIN ctl.seen /\ DOMAIN ctl.seen \subseteq Packages
  BY CtlParts DEF InHand
<1>4. ASSUME NEW q \in Packages, q # p PROVE Rests(q)
  <2>1. task'[q] = task[q] /\ q # p
    BY <1>1, <1>4
  <2> QED BY <1>2, <2>1, OthersRest
<1>5. Moves(p)
  <2>1. \/ Own(p, integration) = {}
        \/ task'[p].status = "merged" /\ task'[p].commit = task[p].commit
    <3>1. CASE ~Merging(p)
      BY <1>3, <3>1, NothingIntegrated
    <3>2. CASE Merging(p)
      BY <1>1, <1>3, <3>2 DEF RInv
    <3> QED BY <3>1, <3>2
  <2>2. ~Accepted(p)'
    BY <1>2 DEF Accepted, At
  <2> QED BY <1>1, <1>2, <2>1, <2>2 DEF Moves
<1>6. ASSUME NEW q \in DOMAIN ctl'.seen
      PROVE  ctl'.seen[q] = task'[q] /\ task'[q].status # "merged"
  <2>1. q \in Packages /\ q # p /\ q \in DOMAIN ctl.seen
    BY <1>2, <1>3, <1>6
  <2> QED BY <1>1, <1>2, <1>6, <2>1 DEF RInv
<1>7. \A q \in Packages : Rests(q) \/ Moves(q)
  BY <1>4, <1>5
<1> QED BY <1>6, <1>7, RecordsStay

LEMMA RecordsStatus ==
  ASSUME TypeOK, RInv, NEW p \in Packages, NEW phase, InHand(phase, p),
         NEW status \in TASK_STATES, SaveStatus(p, status), Done(p),
         ~Merging(p) \/ status = "merged",
         status \in IntegrationStates => Accepted(p),
         OwnWorkOnly, integration' = integration
  PROVE  RInv'
<1> DEFINE rec == [ctl.seen[p] EXCEPT !.status = status]
<1>1. InHand(ctl.phase, p) /\ ctl.seen[p] \in Task /\ p \in DOMAIN ctl.seen
  BY SeenTask DEF InHand
<1>2. rec \in Task /\ rec.status = status /\ rec.commit = ctl.seen[p].commit
  BY <1>1, WithStatus
<1>3. Save(p, rec)
  BY DEF SaveStatus
<1>4. rec.status \in IntegrationStates => rec.commit # NoBranch
  BY <1>1, <1>2 DEF RInv, Accounted
<1> HIDE DEF rec
<1> QED BY <1>1, <1>2, <1>3, <1>4, RecordsFinish

\* The package in hand is saved and stays in hand.
LEMMA RecordsHold ==
  ASSUME TypeOK, RInv, NEW p \in Packages, InHand(ctl.phase, p), ~Merging(p),
         NEW rec \in Task, Save(p, rec), NEW step \in Steps,
         NEW report \in Report \cup {NoReport}, Keeps(p, rec, step, report),
         rec.status # "merged", rec.status \notin IntegrationStates,
         step = "reviewing" => rec.commit # NoBranch,
         ctl.phase = "integrate" => /\ rec.status = "integrating"
                                    /\ rec.commit # NoBranch,
         OwnWorkOnly, integration' = integration
  PROVE  RInv'
<1>1. task'[p] = rec /\ \A q \in Packages : q # p => task'[q] = task[q]
  BY SaveType
<1>2. p \in DOMAIN ctl.seen /\ DOMAIN ctl.seen \subseteq Packages
  BY CtlParts DEF InHand
<1>3. /\ ctl'.phase = ctl.phase /\ ctl'.step = step
      /\ DOMAIN ctl'.seen = DOMAIN ctl.seen /\ ctl'.seen[p] = rec
      /\ \A q \in DOMAIN ctl.seen : q # p => ctl'.seen[q] = ctl.seen[q]
  BY <1>2, HoldCtl
<1>4. ASSUME NEW q \in Packages, q # p PROVE Rests(q)
  <2>1. task'[q] = task[q] /\ q # p
    BY <1>1, <1>4
  <2> QED BY <1>3, <2>1, OthersRest
<1>5. Moves(p)
  <2>1. Own(p, integration) = {}
    BY <1>2, NothingIntegrated
  <2>2. Accepted(p)' => rec.commit # NoBranch
    BY <1>3 DEF Accepted, At
  <2>3. InHand("integrate", p)' => rec.status = "integrating"
    BY <1>3 DEF InHand
  <2> QED BY <1>1, <2>1, <2>2, <2>3 DEF Moves
<1>6. \A q \in DOMAIN ctl'.seen : ctl'.seen[q] = task'[q] /\ task'[q].status # "merged"
  BY <1>1, <1>2, <1>3 DEF RInv
<1>7. \A q \in Packages : Rests(q) \/ Moves(q)
  BY <1>4, <1>5
<1> QED BY <1>6, <1>7, RecordsStay

\* The package in hand stays there and no record is written.
LEMMA RecordsStep ==
  ASSUME TypeOK, RInv, NEW p \in Packages, InHand(ctl.phase, p), ~Merging(p),
         ctl.phase # "reconcile", NEW step \in Steps, ctl' = [ctl EXCEPT !.step = step],
         ctl.phase = "integrate" => ctl.step # "start",
         UNCHANGED <<task, branch, integration>>
  PROVE  RInv'
<1>1. ctl'.phase = ctl.phase /\ ctl'.step = step /\ ctl'.seen = ctl.seen
  BY StepCtl
<1>2. ASSUME NEW q \in Packages PROVE Rests(q)
  <2>1. CASE q # p
    BY <1>1, <2>1, OthersRest
  <2>2. CASE q = p
    BY <1>1, <2>2 DEF Rests, Accepted, At, InHand
  <2> QED BY <2>1, <2>2
<1>3. \A q \in DOMAIN ctl'.seen : ctl'.seen[q] = task'[q] /\ task'[q].status # "merged"
  BY <1>1 DEF RInv
<1> QED BY <1>2, <1>3, StaysOwn, RecordsStay

\* A phase is entered with copies of the tasks in S, or the controller stops;
\* no merge waits to be recorded.
LEMMA RecordsEnter ==
  ASSUME TypeOK, RInv, NEW S \in SUBSET Packages,
         ctl'.seen = Copies(S) \/ DOMAIN ctl'.seen = {}, ctl'.step = "start",
         \A q \in S : /\ task[q].status # "merged"
                      /\ ctl'.phase = "integrate" => task[q].status \in IntegrationStates,
         \A q \in Packages : ~Merging(q),
         UNCHANGED <<task, git>>
  PROVE  RInv'
<1>1. DOMAIN Copies(S) = S /\ \A q \in S : Copies(S)[q] = task[q]
  BY CopiesType
<1>2. UNCHANGED <<branch, integration, task>>
  BY DEF git
<1>3. ASSUME NEW q \in DOMAIN ctl'.seen
      PROVE  /\ q \in S
             /\ ctl'.seen[q] = task'[q] /\ task'[q].status # "merged"
  BY <1>1, <1>2
<1>4. ASSUME NEW q \in Packages PROVE Rests(q)
  BY <1>2, <1>3 DEF Rests, Accepted, At
<1> QED BY <1>2, <1>3, <1>4, StaysOwn, RecordsStay

LEMMA RecordsStop ==
  ASSUME TypeOK, RInv, NEW phase \in Phases, ctl' = [Idle EXCEPT !.phase = phase],
         \A q \in Packages : ~Merging(q), UNCHANGED <<task, git>>
  PROVE  RInv'
<1>1. ctl'.step = "start" /\ DOMAIN ctl'.seen = {}
  BY StoppedLocal
<1>2. \A q \in {} : /\ task[q].status # "merged"
                    /\ ctl'.phase = "integrate" => task[q].status \in IntegrationStates
  OBVIOUS
<1> QED BY <1>1, <1>2, RecordsEnter

\* Outside the integration phase, or between two packages, no merge waits.
LEMMA NoneMerging ==
  ASSUME ctl.phase # "integrate" \/ DOMAIN ctl.seen = {}
  PROVE  \A q \in Packages : ~Merging(q)
BY DEF Merging, At, InHand

LEMMA RecordsHandoff ==
  ASSUME IInv, RInv, NEW p \in Packages, NEW phase, InHand(phase, p), HandoffOrBlock(p),
         phase # "integrate"
  PROVE  RInv'
<1>1. TypeOK /\ integration' = integration /\ Done(p) /\ OwnWorkOnly /\ ~Merging(p)
  BY CheckpointIsOwn, NoneMerging DEF IInv, HandoffOrBlock, InHand
<1>2. CASE SaveStatus(p, "handoff_needed")
  BY <1>1, <1>2, Statuses, RecordsStatus DEF IntegrationStates
<1>3. CASE SaveStatus(p, "blocked")
  BY <1>1, <1>3, Statuses, RecordsStatus DEF IntegrationStates
<1> QED BY <1>2, <1>3 DEF HandoffOrBlock

LEMMA RecordsHydrate ==
  ASSUME IInv, RInv, NEW p \in Packages, Hydrate(p) \/ HydrateRaises(p)
  PROVE  RInv'
<1>1. TypeOK /\ InHand("hydrate", p) /\ \A q \in Packages : ~Merging(q)
  BY NoneMerging DEF IInv, Hydrate, HydrateRaises, InHand
<1>2. CASE Hydrate(p)
  <2>1. OwnWorkOnly /\ integration' = integration /\ Done(p)
    BY <1>2, StaysOwn DEF Hydrate, git
  <2>2. PICK status \in {"merged", "ready"} : SaveStatus(p, status)
    BY <1>2 DEF Hydrate
  <2>3. status \in TASK_STATES /\ status \notin IntegrationStates
    BY Statuses DEF IntegrationStates
  <2> QED BY <1>1, <2>1, <2>2, <2>3, RecordsStatus
<1>3. CASE HydrateRaises(p)
  BY <1>1, <1>3, RecordsStop DEF HydrateRaises, Die, Phases
<1> QED BY <1>2, <1>3

LEMMA RecordsReconcile ==
  ASSUME LeftAlone, IInv, RInv, NEW p \in Packages, Reconcile(p)
  PROVE  RInv'
<1>1. ctl.phase = "reconcile" /\ InHand("reconcile", p) /\ InHand(ctl.phase, p)
  <2>1. At("reconcile", "start", p) \/ At("reconcile", "validating", p)
          \/ At("reconcile", "reviewing", p)
    BY DEF Reconcile, MissingRecord, UnreadableResult, TakeResult, WorkerGaveUp, Validated,
           ValidationFailed, ReviewPassed, ReviewFailed, StillRunning, WorkerLost
  <2> QED BY <2>1 DEF At, InHand
<1>2. /\ TypeOK /\ p \in DOMAIN ctl.seen /\ ctl.seen[p] \in Task
      /\ ctl.seen[p] = task[p]
      /\ \A q \in Packages : ~Merging(q)
  BY <1>1, CtlParts, NoneMerging DEF IInv, RInv, InHand
<1>3. CASE MissingRecord(p)
  BY <1>1, <1>2, <1>3, Statuses, StaysOwn, RecordsStatus
     DEF MissingRecord, git, IntegrationStates
<1>4. CASE UnreadableResult(p)
  BY <1>2, <1>4, RecordsStop DEF UnreadableResult, Die, Phases
<1>5. CASE TakeResult(p)
  <2> DEFINE rec == [ctl.seen[p] EXCEPT !.status = "validating"]
  <2>1. rec \in Task /\ rec.status = "validating"
    BY <1>2, Statuses, WithStatus
  <2>2. /\ Save(p, rec) /\ Keeps(p, rec, "validating", result[p])
        /\ branch' = branch /\ integration' = integration
    BY <1>5 DEF TakeResult, SaveStatus, Keeps, git
  <2>3. "validating" \in Steps /\ result[p] \in Report \cup {NoReport}
    BY <1>2 DEF Steps, TypeOK
  <2> HIDE DEF rec
  <2> QED BY <1>1, <1>2, <2>1, <2>2, <2>3, StaysOwn, RecordsHold DEF IntegrationStates
<1>6. CASE WorkerGaveUp(p)
  <2>1. ctl.report.status \in TASK_STATES /\ ctl.report.status \notin IntegrationStates
    BY <1>6, Statuses DEF WorkerGaveUp, IntegrationStates
  <2> QED BY <1>1, <1>2, <1>6, <2>1, StaysOwn, RecordsStatus DEF WorkerGaveUp, git
<1>7. CASE Validated(p)
  <2> DEFINE rec == [ctl.seen[p] EXCEPT !.status = "reviewing", !.commit = branch[p]]
  <2>1. rec \in Task /\ rec.status = "reviewing" /\ rec.commit = branch[p]
    <3>1. branch[p] \in SUBSET Commit /\ "reviewing" \in TASK_STATES
      BY <1>2, Statuses DEF TypeOK
    <3> QED BY <1>2, <3>1 DEF Task
  <2>2. Save(p, rec) /\ branch' = branch /\ integration' = integration
    BY <1>7 DEF Validated, git
  <2>3. Keeps(p, rec, "reviewing", ctl.report)
    BY <1>2, <1>7, CtlParts DEF Validated, Keeps
  <2>4. "reviewing" \in Steps /\ ctl.report \in Report \cup {NoReport}
    BY <1>2, CtlParts DEF Steps
  <2>5. branch[p] # NoBranch
    BY <1>1, <1>7 DEF LeftAlone, IInv, Unattended, NothingRaises, Started, Validated, At
  <2> HIDE DEF rec
  <2> QED BY <1>1, <1>2, <2>1, <2>2, <2>3, <2>4, <2>5, StaysOwn, RecordsHold
          DEF IntegrationStates
<1>8. CASE HandoffOrBlock(p)
  BY <1>1, <1>8, RecordsHandoff
<1>9. CASE ReviewPassed(p)
  <2>1. Accepted(p) /\ OwnWorkOnly /\ integration' = integration /\ Done(p)
    BY <1>9, StaysOwn DEF ReviewPassed, Accepted, git
  <2>2. PICK status \in {"merge_ready", "review_passed"} : SaveStatus(p, status)
    BY <1>9 DEF ReviewPassed
  <2>3. status \in TASK_STATES
    BY Statuses
  <2> QED BY <1>1, <1>2, <2>1, <2>2, <2>3, RecordsStatus
<1>10. CASE StillRunning(p)
  <2>1. Save(p, task[p]) /\ Done(p) /\ branch' = branch /\ integration' = integration
    BY <1>2, <1>10 DEF StillRunning, Save, TypeOK, git
  <2>2. task[p].status \in IntegrationStates => task[p].commit # NoBranch
    BY DEF RInv, Accounted
  <2>3. task[p] \in Task
    BY <1>2 DEF TypeOK
  <2> QED BY <1>1, <1>2, <2>1, <2>2, <2>3, StaysOwn, RecordsFinish
<1>11. CASE WorkerLost(p)
  <2>1. PICK handoff \in BOOLEAN :
          Save(p, [ctl.seen[p] EXCEPT !.status = "decision_required", !.handoff = handoff])
    BY <1>11 DEF WorkerLost
  <2> DEFINE rec == [ctl.seen[p] EXCEPT !.status = "decision_required", !.handoff = handoff]
  <2>2. rec \in Task /\ rec.status = "decision_required"
    <3>1. "decision_required" \in TASK_STATES
      BY Statuses
    <3> QED BY <1>2, <3>1 DEF Task
  <2>3. Save(p, rec) /\ Done(p) /\ branch' = branch /\ integration' = integration
    BY <1>11, <2>1 DEF WorkerLost, git
  <2> HIDE DEF rec
  <2> QED BY <1>1, <1>2, <2>2, <2>3, StaysOwn, RecordsFinish DEF IntegrationStates
<1> QED BY <1>3, <1>4, <1>5, <1>6, <1>7, <1>8, <1>9, <1>10, <1>11
       DEF Reconcile, ValidationFailed, ReviewFailed

LEMMA RecordsDecide ==
  ASSUME IInv, RInv, NEW p \in Packages, Decide(p)
  PROVE  RInv'
<1>1. CASE HandOver(p)
  BY <1>1, RecordsHandoff DEF HandOver
<1>2. CASE AskUser(p)
  <2>1. /\ TypeOK /\ InHand("decide", p) /\ ~Merging(p) /\ SaveStatus(p, "blocked") /\ Done(p)
        /\ branch' = branch /\ integration' = integration
    BY <1>2, NoneMerging DEF AskUser, InHand, IInv, git
  <2> QED BY <2>1, Statuses, StaysOwn, RecordsStatus DEF IntegrationStates
<1> QED BY <1>1, <1>2 DEF Decide

\* The merge brings in work of one package, whose record names a commit of it.
LEMMA RecordsMerge ==
  ASSUME TypeOK, LInv, RInv, NEW p \in Packages, Integrate(p)
  PROVE  RInv'
<1>1. /\ InHand("integrate", p) /\ ctl.phase = "integrate" /\ ctl.step = "integrating"
      /\ p \in DOMAIN ctl.seen /\ UNCHANGED <<task, branch>>
      /\ integration' = integration \cup branch[p] \cup {MergeCommit}
  BY DEF Integrate, At, InHand
<1>2. ctl'.phase = "integrate" /\ ctl'.step = "merged" /\ ctl'.seen = ctl.seen
  BY <1>1, StepCtl DEF Integrate, Steps
<1>3. 0 \notin Packages /\ MergeCommit.author = 0
  BY ConstantsAssumption DEF MergeCommit
<1>4. \A q \in Packages : q # p => Own(q, integration') \subseteq integration
  <2>1. \A q \in Packages \ {p} : Own(q, branch[p]) \subseteq integration
    BY DEF RInv, Accounted
  <2> QED BY <1>1, <1>3, <2>1 DEF Own
<1>5. \A q \in Packages : ~Merging(q)
  BY <1>1 DEF Merging, At
<1>6. ASSUME NEW q \in Packages PROVE Accounted(q)'
  <2>1. Accounted(q) /\ integration \subseteq integration'
    BY <1>1 DEF RInv
  <2>2. \A r \in Packages \ {q} : Own(r, branch'[q]) \subseteq integration'
    BY <1>1, <2>1 DEF Accounted
  <2>3. InHand("integrate", q)' => q = p
    <3>1. InHand("integrate", q)' => InHand("integrate", q)
      BY <1>1, <1>2 DEF InHand
    <3> QED BY <1>1, <3>1, OneInHand
  <2>4. task'[q].status \in IntegrationStates \/ Accepted(q)' => task'[q].commit # NoBranch
    <3>1. Accepted(q)' => Accepted(q)
      BY <1>1, <1>2 DEF Accepted, At
    <3> QED BY <1>1, <2>1, <3>1 DEF Accounted
  <2>5. CASE q = p
    <3>1. InHand("integrate", p) /\ ctl.step # "start" /\ Accepted(p)
      BY <1>1 DEF Accepted
    <3>2. task[p].status = "integrating" /\ task[p].commit # NoBranch
      BY <2>1, <2>5, <3>1 DEF Accounted
    <3>3. task[p].commit \subseteq integration'
      BY <1>1 DEF LInv
    <3>4. Merging(p)'
      BY <1>1, <1>2 DEF Merging, At, InHand
    <3> QED BY <1>1, <2>2, <2>4, <2>5, <3>2, <3>3, <3>4 DEF Accounted
  <2>6. CASE q # p
    <3>1. Own(q, integration') # {} => Own(q, integration) # {}
      BY <1>4, <2>6 DEF Own
    <3>2. Own(q, integration) # {} => /\ task[q].status = "merged"
                                      /\ task[q].commit # NoBranch
                                      /\ task[q].commit \subseteq integration
      BY <1>5, <2>1 DEF Accounted
    <3>3. Own(q, integration') # {} => /\ task'[q].status = "merged"
                                       /\ task'[q].commit # NoBranch
                                       /\ task'[q].commit \subseteq integration'
      BY <1>1, <2>1, <3>1, <3>2
    <3> QED BY <2>2, <2>3, <2>4, <2>6, <3>3 DEF Accounted
  <2> QED BY <2>5, <2>6
<1>7. \A q \in DOMAIN ctl'.seen : ctl'.seen[q] = task'[q] /\ task'[q].status # "merged"
  BY <1>1, <1>2 DEF RInv
<1> QED BY <1>6, <1>7 DEF RInv

LEMMA RecordsIntegrate ==
  ASSUME IInv, LInv, RInv, NEW p \in Packages, IntegrateOne(p)
  PROVE  RInv'
<1>1. TypeOK /\ ctl.phase = "integrate" /\ InHand("integrate", p) /\ InHand(ctl.phase, p)
  BY DEF IInv, IntegrateOne, BeginIntegration, Integrate, IntegrateRaises,
         RecordIntegration, At, InHand
<1>2. /\ p \in DOMAIN ctl.seen /\ ctl.seen[p] \in Task /\ Accepted(p)
      /\ ctl.seen[p] = task[p] /\ task[p].commit # NoBranch
  BY <1>1, CtlParts DEF RInv, Accounted, Accepted, InHand
<1>3. CASE BeginIntegration(p)
  <2> DEFINE rec == [ctl.seen[p] EXCEPT !.status = "integrating"]
  <2>1. rec \in Task /\ rec.status = "integrating" /\ rec.commit = ctl.seen[p].commit
    BY <1>2, Statuses, WithStatus
  <2>2. ctl.report \in Report \cup {NoReport} /\ "integrating" \in Steps
    BY <1>1, CtlParts DEF Steps
  <2>3. ctl' = [ctl EXCEPT !.step = "integrating", !.seen[p] = rec]
    BY <1>3 DEF BeginIntegration
  <2>4. Save(p, rec) /\ branch' = branch /\ integration' = integration /\ ~Merging(p)
    BY <1>3 DEF BeginIntegration, SaveStatus, git, Merging, At
  <2> HIDE DEF rec
  <2>5. Keeps(p, rec, "integrating", ctl.report)
    BY <1>1, <2>3, CtlParts DEF Keeps
  <2> QED BY <1>1, <1>2, <2>1, <2>2, <2>4, <2>5, StaysOwn, RecordsHold
          DEF IntegrationStates
<1>4. CASE Integrate(p)
  BY <1>1, <1>4, RecordsMerge
<1>5. CASE IntegrateRaises(p)
  <2>1. ctl' = [ctl EXCEPT !.step = "refused"] /\ "refused" \in Steps
        /\ ctl.step = "integrating" /\ ~Merging(p) /\ UNCHANGED <<task, branch, integration>>
    BY <1>5 DEF IntegrateRaises, Steps, Merging, At, git
  <2> QED BY <1>1, <2>1, RecordsStep
<1>6. CASE RecordIntegration(p)
  <2>1. branch' = branch /\ integration' = integration /\ Done(p)
    BY <1>6 DEF RecordIntegration, git
  <2>2. CASE ctl.step = "merged"
    <3>1. SaveStatus(p, "merged")
      BY <1>6, <2>2 DEF RecordIntegration
    <3> QED BY <1>1, <2>1, <3>1, Statuses, StaysOwn, RecordsStatus DEF IntegrationStates
  <2>3. CASE ctl.step # "merged"
    <3>1. SaveStatus(p, "failed") /\ ~Merging(p)
      BY <1>6, <2>3 DEF RecordIntegration, Merging, At
    <3> QED BY <1>1, <2>1, <3>1, Statuses, StaysOwn, RecordsStatus DEF IntegrationStates
  <2> QED BY <2>2, <2>3
<1> QED BY <1>3, <1>4, <1>5, <1>6 DEF IntegrateOne

\* A branch that is created is the integration branch.
LEMMA RecordsLaunch ==
  ASSUME IInv, RInv, NEW p \in Packages, Launch(p)
  PROVE  RInv'
<1>1. TypeOK /\ ctl.phase = "launch" /\ InHand("launch", p) /\ InHand(ctl.phase, p)
      /\ \A q \in Packages : ~Merging(q)
  BY NoneMerging DEF IInv, Launch, NoProvider, PauseForQuota, RefuseDirty, ToLaunch, Assign,
         Spawn, RecordProcess, Launched, At, InHand
<1>2. /\ p \in DOMAIN ctl.seen /\ DOMAIN ctl.seen \subseteq Packages /\ ctl.seen[p] \in Task
  BY <1>1, CtlParts DEF InHand
<1>3. CASE NoProvider(p) \/ RefuseDirty(p)
  <2>1. SaveStatus(p, "blocked") /\ Done(p) /\ branch' = branch /\ integration' = integration
    BY <1>3 DEF NoProvider, RefuseDirty, git
  <2> QED BY <1>1, <2>1, Statuses, StaysOwn, RecordsStatus DEF IntegrationStates
<1>4. CASE PauseForQuota(p)
  <2>1. /\ SaveStatus(p, "handoff_needed") /\ Done(p) /\ OwnWorkOnly
        /\ integration' = integration
    BY <1>1, <1>4, CheckpointIsOwn DEF PauseForQuota
  <2> QED BY <1>1, <2>1, Statuses, RecordsStatus DEF IntegrationStates
<1>5. CASE Assign(p)
  <2> DEFINE rec == [ctl.seen[p] EXCEPT !.status = "assigned"]
  <2>1. rec \in Task /\ rec.status = "assigned" /\ rec.commit = ctl.seen[p].commit
    BY <1>2, Statuses, WithStatus
  <2>2. ctl.report \in Report \cup {NoReport} /\ "assigned" \in Steps
    BY <1>1, CtlParts DEF Steps
  <2>3. Keeps(p, rec, "assigned", ctl.report)
    BY <1>1, <1>5, CtlParts DEF Assign, Keeps
  <2>4. Save(p, rec) /\ integration' = integration
    BY <1>5 DEF Assign, SaveStatus
  <2>5. OwnWorkOnly
    BY <1>1, <1>5 DEF Assign, TypeOK, OwnWorkOnly, Own
  <2> HIDE DEF rec
  <2> QED BY <1>1, <2>1, <2>2, <2>3, <2>4, <2>5, RecordsHold DEF IntegrationStates
<1>6. CASE Spawn(p) \/ RecordProcess(p)
  <2>1. PICK step \in Steps : ctl' = [ctl EXCEPT !.step = step]
    BY <1>6 DEF Spawn, RecordProcess, Steps
  <2>2. UNCHANGED <<task, branch, integration>>
    BY <1>6 DEF Spawn, RecordProcess, git
  <2> QED BY <1>1, <2>1, <2>2, RecordsStep
<1>7. CASE Launched(p)
  <2> DEFINE rec == [ctl.seen[p] EXCEPT !.status = "running"]
  <2>1. rec \in Task /\ rec.status = "running"
    BY <1>2, Statuses, WithStatus
  <2>2. Save(p, rec) /\ branch' = branch /\ integration' = integration
    BY <1>7 DEF Launched, SaveStatus, git
  <2>3. ctl'.phase = "launch" /\ ctl'.step = "start" /\ ctl'.seen = Drop(p)
    BY <1>1, <1>7, CtlParts DEF Launched
  <2> HIDE DEF rec
  <2>4. task'[p] = rec /\ \A q \in Packages : q # p => task'[q] = task[q]
    BY <1>1, <2>1, <2>2, SaveType
  <2>5. DOMAIN ctl'.seen = DOMAIN ctl.seen \ {p}
        /\ \A q \in DOMAIN ctl'.seen : ctl'.seen[q] = ctl.seen[q]
    BY <1>1, <2>3, DropType
  <2>6. ASSUME NEW q \in Packages PROVE Rests(q) \/ Moves(q)
    <3>1. CASE q # p
      BY <1>1, <2>3, <2>4, <2>5, <3>1, OthersRest
    <3>2. CASE q = p
      <4>1. Own(p, integration) = {}
        BY <1>1, <1>2, NothingIntegrated
      <4>2. ~Accepted(p)' /\ task'[p].status \notin IntegrationStates
        BY <2>1, <2>3, <2>4 DEF Accepted, At, IntegrationStates
      <4> QED BY <2>3, <3>2, <4>1, <4>2 DEF Moves
    <3> QED BY <3>1, <3>2
  <2>7. ASSUME NEW q \in DOMAIN ctl'.seen
        PROVE  ctl'.seen[q] = task'[q] /\ task'[q].status # "merged"
    <3>1. q \in DOMAIN ctl.seen /\ q # p /\ q \in Packages
      BY <1>2, <2>5, <2>7
    <3> QED BY <2>4, <2>5, <2>7, <3>1 DEF RInv
  <2> QED BY <2>2, <2>6, <2>7, StaysOwn, RecordsStay
<1> QED BY <1>3, <1>4, <1>5, <1>6, <1>7 DEF Launch

\* No phase takes up a merged task.
LEMMA RecordsPhases ==
  ASSUME IInv, RInv,
         StartTick \/ EndHydrate \/ EndReconcile \/ EndDecide \/ EndIntegrate \/ EndTick
  PROVE  RInv'
<1>1. TypeOK
  BY DEF IInv
<1>2. UNCHANGED <<task, git>> /\ \A q \in Packages : ~Merging(q)
  BY NoneMerging DEF StartTick, EndHydrate, EndReconcile, EndDecide, EndIntegrate, EndTick
<1>3. CASE StartTick
  <2> DEFINE open == {p \in Packages :
                        /\ task[p].status \notin ACTIVE_STATES \cup TERMINAL_STATES
                        /\ RepairRequired(p) \/ Merged(p) \/ ExecutionReady(p)}
             landed == {p \in open : Merged(p)}
  <2>1. open \in SUBSET Packages /\ \A p \in open : task[p].status # "merged"
    BY DEF TERMINAL_STATES
  <2>2. ctl' = [phase |-> "hydrate", step |-> "start", seen |-> Copies(open),
                landed |-> landed, report |-> NoReport, head |-> NoBranch, slots |-> 0]
    BY <1>3 DEF StartTick, Idle
  <2> HIDE DEF open, landed
  <2>3. ctl'.seen = Copies(open) /\ ctl'.step = "start" /\ ctl'.phase = "hydrate"
    BY <2>2
  <2> QED BY <1>1, <1>2, <2>1, <2>3, RecordsEnter
<1>4. CASE EndHydrate \/ EndReconcile
  <2>1. PICK phase \in {"reconcile", "decide"},
             states \in {ACTIVE_STATES, {"decision_required"}} :
               Enter(phase, InStatus(states))
    BY <1>4 DEF EndHydrate, EndReconcile
  <2> DEFINE S == InStatus(states)
  <2>2. S \in SUBSET Packages /\ \A p \in S : task[p].status # "merged"
    BY DEF InStatus, ACTIVE_STATES
  <2>3. ctl' = [phase |-> phase, step |-> "start", seen |-> Copies(S), landed |-> {},
                report |-> NoReport, head |-> NoBranch, slots |-> 0]
    BY <2>1 DEF Enter, Idle
  <2> HIDE DEF S
  <2>4. ctl'.seen = Copies(S) /\ ctl'.step = "start" /\ ctl'.phase # "integrate"
    BY <2>3
  <2> QED BY <1>1, <1>2, <2>2, <2>4, RecordsEnter
<1>5. CASE EndDecide /\ ctl' # [Idle EXCEPT !.phase = "dead"]
  <2> DEFINE candidates == InStatus(IntegrationStates)
             first == {p \in candidates : \A q \in candidates : p <= q}
  <2>1. first \in SUBSET Packages
        /\ \A p \in first : task[p].status \in IntegrationStates /\ task[p].status # "merged"
    BY DEF InStatus, IntegrationStates
  <2>2. ctl' = [phase |-> "integrate", step |-> "start", seen |-> Copies(first),
                landed |-> {}, report |-> NoReport,
                head |-> UNION {branch[p] : p \in first}, slots |-> 0]
    BY <1>5 DEF EndDecide, Die, Idle
  <2> HIDE DEF first
  <2>3. ctl'.seen = Copies(first) /\ ctl'.step = "start"
    BY <2>2
  <2> QED BY <1>1, <1>2, <2>1, <2>3, RecordsEnter
<1>6. CASE EndIntegrate
  <2> DEFINE launchable == {p \in InStatus(LaunchStates) : Len(workers[p]) < MaxSpawns}
  <2>1. launchable \in SUBSET Packages /\ \A p \in launchable : task[p].status # "merged"
    BY DEF InStatus, LaunchStates
  <2>2. ctl' = [phase |-> "launch", step |-> "start", seen |-> Copies(launchable),
                landed |-> {}, report |-> NoReport, head |-> NoBranch,
                slots |-> FreeSlots]
    BY <1>6 DEF EndIntegrate, Idle
  <2> HIDE DEF launchable
  <2>3. ctl'.seen = Copies(launchable) /\ ctl'.step = "start" /\ ctl'.phase = "launch"
    BY <2>2
  <2> QED BY <1>1, <1>2, <2>1, <2>3, RecordsEnter
<1>7. CASE EndTick \/ (EndDecide /\ ctl' = [Idle EXCEPT !.phase = "dead"])
  <2>1. PICK phase \in {"idle", "dead"} : ctl' = [Idle EXCEPT !.phase = phase]
    BY <1>7, IdleAgain DEF EndTick
  <2>2. phase \in Phases
    BY DEF Phases
  <2> QED BY <1>1, <1>2, <2>1, <2>2, RecordsStop
<1> QED BY <1>3, <1>4, <1>5, <1>6, <1>7

LEMMA RecordsWorker ==
  ASSUME IInv, RInv, NEW p \in Packages, NEW i \in DOMAIN workers[p], WorkerStep(p, i)
  PROVE  RInv'
<1>1. UNCHANGED <<task, integration, ctl>>
  BY DEF WorkerStep, WorkerEdits, WorkerCommits, WorkerReports, WorkerExits, git
<1>2. OwnWorkOnly
  <2>1. CASE WorkerCommits(p, i)
    <3>1. PICK owned \in BOOLEAN : branch' = [branch EXCEPT ![p] = @ \cup
            {[author |-> p, n |-> Cardinality(Own(p, branch[p])) + 1, owned |-> owned]}]
      BY <2>1 DEF WorkerCommits
    <3> DEFINE c == [author |-> p, n |-> Cardinality(Own(p, branch[p])) + 1, owned |-> owned]
    <3>2. branch' = [branch EXCEPT ![p] = branch[p] \cup {c}] /\ c.author = p
      BY <3>1 DEF IInv, TypeOK
    <3> HIDE DEF c
    <3> QED BY <3>2 DEF IInv, TypeOK, OwnWorkOnly, Own
  <2>2. CASE ~WorkerCommits(p, i)
    BY <2>2, StaysOwn DEF WorkerStep, WorkerEdits, WorkerReports, WorkerExits, git
  <2> QED BY <2>1, <2>2
<1>3. \A q \in Packages : Rests(q)
  BY <1>1 DEF Rests, Merging, Accepted, At, InHand
<1>4. \A q \in DOMAIN ctl'.seen : ctl'.seen[q] = task'[q] /\ task'[q].status # "merged"
  BY <1>1 DEF RInv
<1> QED BY <1>1, <1>2, <1>3, <1>4, RecordsStay

LEMMA RecordsInit == Init => RInv
<1> SUFFICES ASSUME Init PROVE RInv
  OBVIOUS
<1>1. DOMAIN ctl.seen = {} /\ ctl.phase = "idle"
  BY DEF Init, Idle
<1>2. \A p \in Packages : Own(p, integration) = {} /\ branch[p] = {}
  BY ConstantsAssumption DEF Init, Own, RootCommit, NoBranch
<1>3. \A p \in Packages : task[p].status \notin IntegrationStates
  BY DEF Init, IntegrationStates
<1> QED BY <1>1, <1>2, <1>3 DEF RInv, Accounted, Accepted, At, InHand, Own

LEMMA RecordsNext == LeftAlone /\ IInv /\ LInv /\ RInv /\ [Next]_vars => RInv'
<1> SUFFICES ASSUME LeftAlone, IInv, LInv, RInv, [Next]_vars PROVE RInv'
  OBVIOUS
<1>1. CASE Tick
  <2>1. ASSUME NEW p \in Packages,
               Hydrate(p) \/ HydrateRaises(p) \/ Reconcile(p) \/ Decide(p)
                 \/ IntegrateOne(p) \/ Launch(p)
        PROVE  RInv'
    BY <2>1, RecordsHydrate, RecordsReconcile, RecordsDecide, RecordsIntegrate, RecordsLaunch
  <2> QED BY <1>1, <2>1, RecordsPhases DEF Tick
<1>2. CASE \E p \in Packages : \E i \in DOMAIN workers[p] : WorkerStep(p, i)
  BY <1>2, RecordsWorker
<1>3. ~AbortGoal /\ ~Crash /\ ~\E p \in Packages, status \in UserCommands : Command(p, status)
  BY DEF LeftAlone, AbortGoal, Crash, Command
<1>4. CASE Restart
  <2>1. ctl' = [Idle EXCEPT !.phase = "idle"] /\ UNCHANGED <<task, git>>
        /\ \A q \in Packages : ~Merging(q)
    BY <1>4, IdleAgain, NoneMerging DEF Restart
  <2> QED BY <2>1, RecordsStop DEF IInv, Phases
<1>5. CASE UNCHANGED vars
  BY <1>5 DEF vars, git, RInv, Accounted, Accepted, Merging, At, InHand
<1> QED BY <1>1, <1>2, <1>3, <1>4, <1>5 DEF Next

\* RecordsMatchGit, for any plan, packages side by side and every fault of the
\* workers, the gates, the providers and the merge: as long as the controller is
\* not killed and the user gives no commands, a failed task has nothing on the
\* integration branch, and what is there was validated and reviewed.
THEOREM RecordsAreRight ==
  ASSUME Faults \cap {"crash", "operator"} = {}
  PROVE  Spec => []RecordsMatchGit
<1>1. LeftAlone
  BY DEF LeftAlone
<1>2. RInv => RecordsMatchGit
  <2> SUFFICES ASSUME RInv PROVE RecordsMatchGit
    OBVIOUS
  <2>1. ASSUME NEW p \in Packages, Own(p, integration) # {}
        PROVE  /\ task[p].status # "failed"
               /\ task[p].commit # NoBranch /\ task[p].commit \subseteq integration
    <3>1. Merging(p) => task[p].status = "integrating"
      BY DEF RInv, Accounted, Merging, At
    <3> QED BY <2>1, <3>1 DEF RInv, Accounted
  <2> QED BY <2>1 DEF RecordsMatchGit, FailedIsNotIntegrated, IntegratedIsReviewed
<1> QED BY <1>1, <1>2, RecordsInit, RecordsNext, Invariance, CommitsInvariance, PTL DEF Spec
=============================================================================
