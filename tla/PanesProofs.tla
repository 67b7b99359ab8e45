---------------------------- MODULE PanesProofs ----------------------------
(***************************************************************************)
(* That a live worker is the last attempt of its task, and that the task   *)
(* is not asked about, handed over or launched anew while it lives: for    *)
(* any number of tasks, panes, launches and faults.                        *)
(***************************************************************************)
EXTENDS Panes, TLAPS, WellFoundedInduction

(***************************************************************************)
(* The inductive invariant                                                 *)
(***************************************************************************)
Status == Active \cup {"waiting", "decision_required", "blocked", "done"}
BusyAt == {"starting", "spawned", "opened", "running", "reopened"}
Contents == [at : {"idle", "dead", "gone"}] \cup [at : BusyAt, run : Run]
InPane(r) == \E p \in Panes : IsBusy(p) /\ pane[p].run = r

InFlight == ctl.pc \notin {"idle", "dead"}
Launching(t) == InFlight /\ ctl.run.task = t

\* A pane's record that says that there is a process, or will be.
Awaits(r) == r.mode = "tmux" /\ r.state \in {"launching", "running"}

\* What launch_task may write: launching, when the pane does the rest, or the
\* process that was started without one.
Bases(n) ==
  {Rec("launching", 0, "tmux"), Rec("running", n, "plain"), Rec("launching", n, "tmux")}

\* What is written for what was read: a pid is kept, and so is the mode.
Keeps(seen, merged) ==
  /\ seen.pid # 0 => merged.pid = seen.pid
  /\ Awaits(seen) => Awaits(merged)

Early == [pc : {"assigned", "stamped", "spawned"}, run : Run, pane : Panes \cup {NoPane}]
Later == [pc : {"launched"}, run : Run, base : Records]
Last == [pc : {"read"}, run : Run, seen : Records, merged : Records]

\* The launch under way is of a run that no pane has, until it is injected;
\* and none that is started without a pane ever is.
CtlOK ==
  /\ ctl \in {Idle, Dead} \cup Early \cup Later \cup Last
  /\ ctl.pc = "stamped" => ctl.pane # NoPane
  /\ ctl.pc \in {"assigned", "stamped", "spawned"} => ~InPane(ctl.run)
  /\ ctl.pc \in {"assigned", "stamped"} => ctl.run \notin workers
  /\ ctl.pc = "launched" =>
       ctl.base \in Bases(ctl.run.n) /\ (ctl.base.pid # 0 => ~InPane(ctl.run))
  /\ ctl.pc = "read" =>
       /\ Keeps(ctl.seen, ctl.merged)
       /\ ctl.seen = Torn /\ InPane(ctl.run) => Awaits(ctl.merged)

TypeInv ==
  /\ status \in [Tasks -> Status]
  /\ attempt \in [Tasks -> 0 .. MaxLaunches]
  /\ record \in [Tasks -> Records]
  /\ old \subseteq Tasks /\ result \subseteq Tasks /\ loose \subseteq Tasks
  /\ workers \subseteq Run
  /\ pane \in [Panes -> Contents]

\* A record that was written for a runner which has not written its own yet.
Fresh(t) == record[t] = Torn \/ (Awaits(record[t]) /\ t \notin old)

\* One that names the worker; or it was left empty by a launch cut short, and
\* nobody will come to fill it.
Known(r) == record[r.task].pid = r.n \/ (record[r.task] = Torn /\ ~Launching(r.task))

Attended(r) == r.n = attempt[r.task] /\ status[r.task] \in Active \cup {"done"}

LaunchOK ==
  InFlight =>
    /\ ctl.run.n = attempt[ctl.run.task]
    /\ status[ctl.run.task] \in Active \/ ctl.run.task \in loose
    /\ ctl.pc = "stamped" /\ ctl.run.task \notin loose => Fresh(ctl.run.task)

\* A runner that has yet to start its worker, or to record it, has a record
\* that is waited for; once it has, the record names the worker.
PaneOK(p) ==
  IsBusy(p) =>
    /\ pane[p].run.n <= attempt[pane[p].run.task]
    /\ pane[p].at = "reopened" => pane[p].run \notin workers
    /\ pane[p].run.task \notin loose =>
         /\ pane[p].at = "starting" => Attended(pane[p].run)
         /\ pane[p].run.n = attempt[pane[p].run.task] =>
              /\ pane[p].at \in {"starting", "spawned", "opened"} => Fresh(pane[p].run.task)
              /\ pane[p].at = "running" => Known(pane[p].run)

\* A worker without a pane is in the record, or is about to be.
WorkerOK(r) ==
  /\ r.n <= attempt[r.task]
  /\ r.task \notin loose =>
       /\ Attended(r)
       /\ ~InPane(r) => Known(r) \/ (ctl.pc = "spawned" /\ ctl.run.task = r.task)

Distinct ==
  \A p, q \in Panes : p # q /\ IsBusy(p) /\ IsBusy(q) => pane[p].run # pane[q].run

Watched == (\A p \in Panes : PaneOK(p)) /\ (\A r \in workers : WorkerOK(r))

IInv == TypeInv /\ CtlOK /\ Distinct /\ LaunchOK /\ Watched

-----------------------------------------------------------------------------
(***************************************************************************)
(* Records                                                                 *)
(***************************************************************************)
LEMMA RunType ==
  ASSUME NEW r \in Run
  PROVE  r.task \in Tasks /\ r.n \in Nat /\ r.n > 0 /\ r.n \in 1 .. MaxLaunches
BY PanesAssumption DEF Run

LEMMA SameRun ==
  ASSUME NEW r \in Run, NEW q \in Run, r.task = q.task, r.n = q.n
  PROVE  r = q
BY DEF Run

LEMMA RecordTypes ==
  /\ NoRecord \in Records /\ Torn \in Records /\ NoRecord # Torn
  /\ NoRecord.pid = 0 /\ Torn.pid = 0 /\ ~Awaits(NoRecord) /\ ~Awaits(Torn)
  /\ ~Readable(NoRecord) /\ ~Readable(Torn)
  /\ Rec("launching", 0, "tmux") \in Records
  /\ \A n \in 1 .. MaxLaunches :
       /\ Bases(n) \subseteq Records
       /\ \A mode \in {"plain", "tmux"} :
            Rec("running", n, mode) \in Records /\ Rec("exited", n, mode) \in Records
  /\ Awaits(Rec("launching", 0, "tmux"))
  /\ \A n : Awaits(Rec("running", n, "tmux")) /\ Awaits(Rec("launching", n, "tmux"))
BY PanesAssumption DEF Records, NoRecord, Torn, Rec, Readable, Awaits, Bases

LEMMA RecordForms ==
  ASSUME NEW r \in Records
  PROVE  /\ r.pid \in 0 .. MaxLaunches
         /\ \/ r = NoRecord \/ r = Torn
            \/ /\ r.state = "launching" /\ r.mode = "tmux"
               /\ r = Rec(r.state, r.pid, r.mode)
            \/ /\ r.state \in {"running", "exited"} /\ r.pid # 0 /\ r.pid \in 1 .. MaxLaunches
               /\ r.mode \in {"plain", "tmux"} /\ r = Rec(r.state, r.pid, r.mode)
         /\ Readable(r) <=> r # NoRecord /\ r # Torn
BY PanesAssumption DEF Records, NoRecord, Torn, Rec, Readable

\* _merge_process_launch_record loses no pid, and no mode.
LEMMA MergeKeeps ==
  ASSUME NEW n \in 1 .. MaxLaunches, NEW base \in Bases(n), NEW seen \in Records
  PROVE  /\ Merge(seen, base) \in Records
         /\ Keeps(seen, Merge(seen, base))
         /\ seen = Torn => Merge(seen, base) = base
<1>1. base \in Records
  BY RecordTypes
<1>2. CASE ~Readable(seen)
  BY <1>1, <1>2, RecordForms, RecordTypes DEF Merge, Keeps
<1>3. CASE Readable(seen)
  <2>1. seen # Torn /\ seen # NoRecord
    BY <1>3, RecordForms
  <2>2. CASE seen.state = "launching"
    <3>1. seen.mode = "tmux" /\ seen.pid \in 0 .. MaxLaunches
      BY <2>1, <2>2, RecordForms
    <3>2. Merge(seen, base).mode = "tmux"
          /\ Merge(seen, base).pid = IF seen.pid > 0 THEN seen.pid ELSE base.pid
      BY <1>3, <3>1 DEF Merge, Rec
    <3>3. Merge(seen, base) = Rec(base.state, Merge(seen, base).pid, "tmux")
          /\ base.state \in {"launching", "running"}
      BY <1>3, <2>2, <3>1 DEF Merge, Rec, Rank, Bases
    <3>4. base.pid \in 0 .. MaxLaunches /\ (base.state = "running" => base.pid \in 1 .. MaxLaunches)
      BY PanesAssumption DEF Bases, Rec
    <3>5. Merge(seen, base) \in Records
      BY <3>1, <3>2, <3>3, <3>4, PanesAssumption DEF Records, Rec
    <3> QED BY <2>1, <3>1, <3>2, <3>3, <3>5 DEF Keeps, Awaits, Rec
  <2>3. CASE seen.state \in {"running", "exited"}
    <3>1. seen.mode \in {"plain", "tmux"} /\ seen.pid \in 1 .. MaxLaunches
      BY <2>1, <2>3, RecordForms DEF Rec
    <3>2. base.mode \in {"plain", "tmux"} /\ base.state \in {"launching", "running"}
      BY DEF Bases, Rec
    <3>3. Merge(seen, base) = Rec(seen.state, seen.pid,
                                  IF seen.mode = "tmux" THEN "tmux" ELSE base.mode)
      BY <1>3, <2>3, <3>1, <3>2 DEF Merge, Rank
    <3>4. Merge(seen, base) \in Records
      BY <2>3, <3>1, <3>2, <3>3, RecordTypes
    <3> QED BY <2>1, <2>3, <3>1, <3>3, <3>4 DEF Keeps, Awaits, Rec
  <2> QED BY <2>1, <2>2, <2>3, RecordForms
<1> QED BY <1>2, <1>3

-----------------------------------------------------------------------------
(***************************************************************************)
(* Panes and the launch                                                    *)
(***************************************************************************)
LEMMA PaneType ==
  ASSUME TypeInv, NEW p \in Panes
  PROVE  /\ IsBusy(p) <=> pane[p].at \in BusyAt
         /\ IsBusy(p) => pane[p].run \in Run
         /\ pane[p] \in Contents
BY DEF TypeInv, Contents, BusyAt, IsBusy

LEMMA ContentsType ==
  /\ \A at \in {"idle", "dead", "gone"} :
       Empty(at) \in Contents /\ Empty(at).at = at /\ Empty(at).at \notin BusyAt
  /\ \A at \in BusyAt, r \in Run :
       /\ Busy(at, r) \in Contents /\ Busy(at, r).at = at /\ Busy(at, r).run = r
       /\ at \notin {"idle", "dead", "gone"}
BY DEF Empty, Busy, Contents, BusyAt

LEMMA CtlType ==
  ASSUME CtlOK
  PROVE  /\ InFlight <=> ctl.pc \in {"assigned", "stamped", "spawned", "launched", "read"}
         /\ InFlight => ctl.run \in Run
         /\ ctl.pc \in {"assigned", "stamped", "spawned"} => ctl \in Early
         /\ ctl.pc = "launched" => ctl \in Later
         /\ ctl.pc = "read" => ctl \in Last
         /\ ~InFlight => ctl = Idle \/ ctl = Dead
BY DEF CtlOK, InFlight, Idle, Dead, Early, Later, Last

LEMMA AtRest ==
  /\ Idle \in {Idle, Dead} /\ Idle.pc = "idle" /\ Dead.pc = "dead"
BY DEF Idle, Dead

\* The invariant says of the last attempts what the property does.
LEMMA Suffices == IInv => TypeOK /\ Tracked
<1> SUFFICES ASSUME IInv PROVE TypeOK /\ Tracked
  OBVIOUS
<1>1. TypeOK
  <2>1. \A p \in Panes : pane[p].at \in {"idle", "dead", "gone"} \/ pane[p].run \in Run
    BY PaneType DEF IInv, IsBusy
  <2> QED BY <2>1 DEF IInv, TypeInv, Distinct, TypeOK, Status
<1>2. Tracked
  BY DEF IInv, Watched, WorkerOK, Attended, Tracked
<1> QED BY <1>1, <1>2

-----------------------------------------------------------------------------
(***************************************************************************)
(* Kinds of steps                                                          *)
(***************************************************************************)
LEMMA BusyNext ==
  ASSUME pane' \in [Panes -> Contents], NEW p \in Panes
  PROVE  IsBusy(p)' <=> pane'[p].at \in BusyAt
BY DEF Contents, BusyAt, IsBusy

\* No worker of the task lives, and none is about to be started.
Unattended(t) ==
  /\ \A r \in workers : r.task # t
  /\ \A p \in Panes : pane[p].at = "starting" => pane[p].run.task # t

\* A step in which nothing starts: workers and panes may be lost, tasks given
\* to others whose worker is gone, and a launch cut short, which may leave the
\* record empty that it was writing.
LEMMA NothingStarts ==
  ASSUME IInv, UNCHANGED attempt, status' \in [Tasks -> Status],
         record' \in [Tasks -> Records], old' \subseteq Tasks, result' \subseteq Tasks,
         loose \subseteq loose', loose' \subseteq Tasks, workers' \subseteq workers,
         pane' \in [Panes -> Contents],
         \A p \in Panes : pane'[p] = pane[p] \/ pane'[p].at \notin BusyAt,
         \A r \in workers' : InPane(r) =>
           \E p \in Panes : pane'[p].at \in BusyAt /\ pane'[p].run = r,
         \A t \in Tasks : t \notin loose' =>
           \/ status[t] \in Active \cup {"done"} => status'[t] \in Active \cup {"done"}
           \/ Unattended(t),
         \A t \in Tasks : t \notin loose' =>
           \/ record'[t] = record[t] /\ (t \in old' => t \in old)
           \/ record'[t] = Torn /\ ctl' \in {Idle, Dead},
         \/ /\ ctl' = ctl
            /\ InFlight => status'[ctl.run.task] \in Active \/ ctl.run.task \in loose'
         \/ /\ ctl' \in {Idle, Dead}
            /\ ctl.pc = "spawned" => ctl.run.task \in loose'
  PROVE  IInv'
<1>1. TypeInv /\ CtlOK /\ Distinct /\ LaunchOK /\ Watched
  BY DEF IInv
<1>2. TypeInv'
  BY <1>1 DEF TypeInv
<1>3. \A p \in Panes : IsBusy(p)' => pane'[p] = pane[p] /\ IsBusy(p)
  BY BusyNext DEF IsBusy
<1>4. \A r : InPane(r)' => InPane(r)
  BY <1>3 DEF InPane
<1>5. \A r \in workers' : InPane(r) => InPane(r)'
  BY BusyNext DEF InPane
<1>6. Distinct'
  BY <1>1, <1>3 DEF Distinct
<1>7. ctl' \in {Idle, Dead} => ctl'.pc \in {"idle", "dead"}
  BY AtRest
<1>8. CtlOK'
  <2>1. CASE ctl' = ctl
    BY <1>1, <1>4, <2>1 DEF CtlOK
  <2>2. CASE ctl' \in {Idle, Dead}
    BY <1>7, <2>2 DEF CtlOK
  <2> QED BY <2>1, <2>2
<1>9. \A t \in Tasks : t \notin loose' /\ Fresh(t) => Fresh(t)'
  BY DEF Fresh
<1>10. \A r \in Run : r.task \notin loose' /\ Known(r) => Known(r)'
  BY <1>1, <1>7, RunType DEF Known, Launching, InFlight, TypeInv
<1>11. LaunchOK'
  <2>1. CASE ctl' = ctl /\ InFlight
    <3>1. ctl.run.task \in Tasks
      BY <1>1, <2>1, CtlType, RunType
    <3>2. ctl'.run.n = attempt'[ctl'.run.task]
          /\ (status'[ctl'.run.task] \in Active \/ ctl'.run.task \in loose')
      BY <1>1, <1>7, <2>1 DEF LaunchOK, InFlight
    <3>3. ctl.pc = "stamped" /\ ctl.run.task \notin loose' => Fresh(ctl.run.task)'
      BY <1>1, <1>9, <2>1, <3>1 DEF LaunchOK
    <3>4. ctl'.pc = "stamped" /\ ctl'.run.task \notin loose' => Fresh(ctl.run.task)'
      BY <2>1, <3>3
    <3> QED BY <2>1, <3>2, <3>4 DEF LaunchOK, Fresh
  <2>2. CASE ctl' = ctl /\ ~InFlight
    BY <2>2 DEF LaunchOK, InFlight
  <2>3. CASE ctl' \in {Idle, Dead}
    BY <1>7, <2>3 DEF LaunchOK, InFlight
  <2> QED BY <2>1, <2>2, <2>3
<1>12. ASSUME NEW r \in workers'
       PROVE  WorkerOK(r)'
  <2>1. r \in workers /\ r \in Run /\ r.task \in Tasks /\ WorkerOK(r)
    BY <1>1, RunType DEF TypeInv, Watched
  <2>2. r.task \notin loose' => Attended(r)'
    BY <2>1 DEF WorkerOK, Attended, Unattended
  <2>3. r.task \notin loose' /\ ~InPane(r)' =>
          Known(r)' \/ (ctl'.pc = "spawned" /\ ctl'.run.task = r.task)
    BY <1>5, <1>10, <2>1 DEF WorkerOK
  <2> QED BY <2>1, <2>2, <2>3 DEF WorkerOK
<1>13. ASSUME NEW p \in Panes
       PROVE  PaneOK(p)'
  <2>1. CASE ~IsBusy(p)'
    BY <2>1 DEF PaneOK
  <2>2. CASE IsBusy(p)'
    <3>1. /\ IsBusy(p) /\ pane'[p] = pane[p] /\ pane[p].run \in Run
          /\ pane[p].run.task \in Tasks /\ PaneOK(p)
      BY <1>1, <1>3, <2>2, PaneType, RunType DEF Watched
    <3>2. pane[p].run.task \notin loose' /\ pane[p].at = "starting" => Attended(pane[p].run)'
      BY <3>1 DEF PaneOK, Attended, Unattended
    <3> QED BY <1>9, <1>10, <3>1, <3>2 DEF PaneOK, Attended
  <2> QED BY <2>1, <2>2
<1> QED BY <1>2, <1>6, <1>8, <1>11, <1>12, <1>13 DEF IInv, Watched

\* A live worker's record is not missing, and does not look abandoned.
LEMMA Attendance ==
  ASSUME IInv, ~InFlight, NEW t \in Tasks, t \notin loose,
         \/ record[t] = NoRecord
         \/ Readable(record[t]) /\ ~Alive(t) /\ (Pending(t) => t \in old)
  PROVE  Unattended(t)
<1>1. TypeInv /\ CtlOK /\ Watched /\ record[t] \in Records
  BY DEF IInv, TypeInv
<1>2. ~Fresh(t)
  BY <1>1, RecordTypes DEF Fresh, Pending, Awaits
<1>3. record[t] # Torn
  BY RecordTypes
<1>4. ASSUME NEW r \in workers, r.task = t
      PROVE  FALSE
  <2>1. WorkerOK(r) /\ r \in Run /\ r.n > 0 /\ r.n \in Nat /\ r.n = attempt[t]
    BY <1>1, <1>4, RunType DEF Watched, TypeInv, WorkerOK, Attended
  <2>2. record[t].pid # r.n
    <3>1. r = [task |-> t, n |-> r.n]
      BY <1>4, <2>1 DEF Run
    <3> QED BY <1>4, <2>1, <3>1, RecordTypes DEF Alive
  <2>3. ~Known(r)
    BY <1>3, <1>4, <2>2 DEF Known
  <2>4. PICK p \in Panes : IsBusy(p) /\ pane[p].run = r
    BY <1>4, <2>1, <2>3 DEF WorkerOK, InPane, InFlight
  <2>5. PaneOK(p) /\ pane[p].at \in BusyAt
    BY <1>1, <2>4, PaneType DEF Watched
  <2> QED BY <1>2, <1>4, <2>1, <2>3, <2>4, <2>5 DEF PaneOK, BusyAt
<1>5. ASSUME NEW p \in Panes, pane[p].at = "starting", pane[p].run.task = t
      PROVE  FALSE
  <2>1. IsBusy(p) /\ PaneOK(p)
    BY <1>1, <1>5, PaneType DEF Watched, BusyAt
  <2> QED BY <1>2, <1>5, <2>1 DEF PaneOK, Attended
<1> QED BY <1>4, <1>5 DEF Unattended

\* A runner of the last attempt is the only one, and the only worker is its.
LEMMA OneRunner ==
  ASSUME IInv, NEW p \in Panes, IsBusy(p)
  PROVE  /\ \A q \in Panes : /\ q # p /\ IsBusy(q) /\ pane[q].run.task = pane[p].run.task
                             => pane[q].run.n # pane[p].run.n
         /\ \A r \in workers : /\ r.task = pane[p].run.task /\ r.n = pane[p].run.n
                               => r = pane[p].run
         /\ ctl.pc \in {"assigned", "stamped", "spawned"} /\ ctl.run.task = pane[p].run.task =>
              ctl.run.n # pane[p].run.n
<1>1. TypeInv /\ CtlOK /\ Distinct
  BY DEF IInv
<1>2. pane[p].run \in Run
  BY <1>1, PaneType
<1>3. \A q \in Panes : IsBusy(q) => pane[q].run \in Run
  BY <1>1, PaneType
<1>4. ctl.pc \in {"assigned", "stamped", "spawned"} => ctl.run \in Run /\ ctl.run # pane[p].run
  BY <1>1, CtlType DEF CtlOK, InPane
<1> QED BY <1>1, <1>2, <1>3, <1>4, SameRun DEF Distinct, TypeInv

\* A step of a runner that writes the record.
LEMMA RunnerWriteStep ==
  ASSUME IInv, NEW p \in Panes, IsBusy(p), NEW r \in Run, pane[p].run = r,
         NEW content \in Contents, pane' = [pane EXCEPT ![p] = content],
         content.at \in BusyAt => content.run = r,
         r \in workers => content.at \in BusyAt,
         NEW rec \in Records, record' = [record EXCEPT ![r.task] = rec],
         old' = old \ {r.task},
         loose' = IF r.n # attempt[r.task] THEN loose \cup {r.task} ELSE loose,
         UNCHANGED <<status, attempt, result, workers, ctl>>,
         PaneOK(p)'
  PROVE  IInv'
<1> DEFINE t == r.task
<1>1. TypeInv /\ CtlOK /\ Distinct /\ LaunchOK /\ Watched /\ t \in Tasks
  BY RunType DEF IInv
<1>2. TypeInv'
  BY <1>1 DEF TypeInv
<1>3. \A q \in Panes : IsBusy(q)' => IsBusy(q) /\ pane'[q].run = pane[q].run
                                     /\ (q # p => pane'[q] = pane[q])
  BY <1>1, <1>2, PaneType, BusyNext DEF TypeInv
<1>4. \A s : InPane(s)' => InPane(s)
  BY <1>3 DEF InPane
<1>5. \A s \in workers : InPane(s) => InPane(s)'
  <2>1. ASSUME NEW s \in workers, NEW q \in Panes, IsBusy(q), pane[q].run = s
        PROVE  IsBusy(q)' /\ pane'[q].run = s
    BY <1>1, <1>2, <2>1, PaneType, BusyNext DEF TypeInv
  <2> QED BY <2>1 DEF InPane
<1>6. Distinct'
  BY <1>1, <1>3 DEF Distinct
<1>7. CtlOK'
  BY <1>1, <1>4 DEF CtlOK
<1>8. \A u \in Tasks : u # t => record'[u] = record[u] /\ (u \in old' <=> u \in old)
                                /\ (u \in loose' <=> u \in loose)
  BY <1>1 DEF TypeInv
<1>9. t \notin loose' => r.n = attempt[t] /\ t \notin loose
  OBVIOUS
<1>10. LaunchOK'
  <2>1. CASE InFlight
    <3>1. ctl.run \in Run /\ ctl.run.task \in Tasks
      BY <1>1, <2>1, CtlType, RunType
    <3>2. ctl.pc = "stamped" /\ ctl.run.task = t => t \in loose'
      BY <1>1, <1>9, <2>1, OneRunner DEF LaunchOK
    <3>3. ctl.pc = "stamped" /\ ctl.run.task \notin loose' => Fresh(ctl.run.task)'
      BY <1>1, <1>8, <2>1, <3>1, <3>2 DEF LaunchOK, Fresh
    <3> QED BY <1>1, <2>1, <3>3 DEF LaunchOK, InFlight
  <2>2. CASE ~InFlight
    BY <2>2 DEF LaunchOK, InFlight
  <2> QED BY <2>1, <2>2
<1>11. ASSUME NEW s \in workers
       PROVE  WorkerOK(s)'
  <2>1. WorkerOK(s) /\ s \in Run /\ s.task \in Tasks
    BY <1>1, RunType DEF Watched, TypeInv
  <2>2. CASE s.task # t
    BY <1>5, <1>8, <2>1, <2>2 DEF WorkerOK, Attended, Known, Launching, InFlight
  <2>3. CASE s.task = t
    <3>1. t \notin loose' => s = r
      BY <1>9, <2>1, <2>3, OneRunner DEF WorkerOK, Attended
    <3>2. t \notin loose' => InPane(s)'
      BY <1>5, <3>1 DEF InPane
    <3> QED BY <1>9, <2>1, <2>3, <3>2 DEF WorkerOK, Attended
  <2> QED BY <2>2, <2>3
<1>12. ASSUME NEW q \in Panes, q # p, IsBusy(q)'
       PROVE  PaneOK(q)'
  <2>1. IsBusy(q) /\ pane'[q] = pane[q] /\ PaneOK(q) /\ pane[q].run \in Run
        /\ pane[q].run.task \in Tasks
    BY <1>1, <1>3, <1>12, PaneType, RunType DEF Watched
  <2>2. CASE pane[q].run.task # t
    BY <1>8, <2>1, <2>2 DEF PaneOK, Attended, Fresh, Known, Launching, InFlight
  <2>3. CASE pane[q].run.task = t
    <3>1. t \notin loose' => pane[q].run.n # attempt[t]
      BY <1>9, <1>12, <2>1, <2>3, OneRunner
    <3> QED BY <1>9, <2>1, <2>3, <3>1 DEF PaneOK, Attended
  <2> QED BY <2>2, <2>3
<1>13. \A q \in Panes : PaneOK(q)'
  BY <1>12 DEF PaneOK
<1> QED BY <1>2, <1>6, <1>7, <1>10, <1>11, <1>13 DEF IInv, Watched

-----------------------------------------------------------------------------
(***************************************************************************)
(* The steps in which nothing starts                                       *)
(***************************************************************************)
LEMMA StatusType ==
  ASSUME TypeInv, NEW t \in Tasks, NEW s \in Status, status' = [status EXCEPT ![t] = s]
  PROVE  status' \in [Tasks -> Status] /\ status'[t] = s
         /\ \A u \in Tasks : u # t => status'[u] = status[u]
BY DEF TypeInv

LEMMA StatusValues ==
  {"waiting", "decision_required", "blocked", "done", "assigned", "running"} \subseteq Status
BY DEF Status, Active

\* The status of a task whose worker is gone, or that is done, is changed.
LEMMA StatusStep ==
  ASSUME IInv, ~InFlight, NEW t \in Tasks, NEW s \in Status,
         status' \in {status, [status EXCEPT ![t] = s]},
         result' \subseteq Tasks,
         UNCHANGED <<attempt, record, old, workers, pane, ctl, loose>>,
         s = "done" \/ status[t] \notin Active \cup {"done"} \/ t \in loose \/ Unattended(t)
  PROVE  IInv'
<1>1. TypeInv /\ UNCHANGED attempt /\ UNCHANGED ctl
  BY DEF IInv
<1>2. /\ status' \in [Tasks -> Status] /\ record' \in [Tasks -> Records]
      /\ old' \subseteq Tasks /\ loose \subseteq loose' /\ loose' \subseteq Tasks
      /\ workers' \subseteq workers /\ pane' \in [Panes -> Contents]
  BY <1>1, StatusType DEF TypeInv
<1>3. \A p \in Panes : pane'[p] = pane[p] \/ pane'[p].at \notin BusyAt
  OBVIOUS
<1>4. \A r \in workers' : InPane(r) =>
        \E p \in Panes : pane'[p].at \in BusyAt /\ pane'[p].run = r
  BY <1>1, PaneType DEF InPane
<1>5. \A u \in Tasks : u \notin loose' =>
        \/ status[u] \in Active \cup {"done"} => status'[u] \in Active \cup {"done"}
        \/ Unattended(u)
  BY <1>1, StatusType
<1>6. \A u \in Tasks : u \notin loose' =>
        \/ record'[u] = record[u] /\ (u \in old' => u \in old)
        \/ record'[u] = Torn /\ ctl' \in {Idle, Dead}
  OBVIOUS
<1> QED BY <1>1, <1>2, <1>3, <1>4, <1>5, <1>6, NothingStarts

LEMMA DecideInv ==
  ASSUME IInv, NEW t \in Tasks, Decide(t)
  PROVE  IInv'
<1>1. ~InFlight /\ status[t] \notin Active \cup {"done"} /\ TypeInv
  BY DEF Decide, At, InFlight, Active, IInv
<1>2. PICK s \in Status : status' = [status EXCEPT ![t] = s]
  BY StatusValues DEF Decide
<1> QED BY <1>1, <1>2, StatusStep DEF Decide, files, TypeInv

LEMMA NoProcessRecordInv ==
  ASSUME IInv, NEW t \in Tasks, NoProcessRecord(t)
  PROVE  IInv'
<1>1. ~InFlight /\ TypeInv /\ "decision_required" \in Status
  BY StatusValues DEF NoProcessRecord, Looks, At, InFlight, IInv
<1>2. t \in loose \/ Unattended(t)
  BY <1>1, Attendance DEF NoProcessRecord
<1> QED BY <1>1, <1>2, StatusStep DEF NoProcessRecord, Looks, files, TypeInv

LEMMA ResultFoundInv ==
  ASSUME IInv, NEW t \in Tasks, ResultFound(t)
  PROVE  IInv'
<1>1. ~InFlight /\ TypeInv /\ "done" \in Status
  BY StatusValues DEF ResultFound, Looks, At, InFlight, IInv
<1> QED BY <1>1, StatusStep DEF ResultFound, Looks, files, TypeInv

LEMMA WorkerGoneInv ==
  ASSUME IInv, NEW t \in Tasks, WorkerGone(t)
  PROVE  IInv'
<1>1. ~InFlight /\ TypeInv /\ "decision_required" \in Status
  BY StatusValues DEF WorkerGone, Looks, At, InFlight, IInv
<1>2. t \in loose \/ Unattended(t)
  BY <1>1, Attendance DEF WorkerGone
<1>3. status' \in {status, [status EXCEPT ![t] = "decision_required"]} /\ result' \subseteq Tasks
  BY <1>1 DEF WorkerGone, TypeInv
<1> QED BY <1>1, <1>2, <1>3, StatusStep DEF WorkerGone, Looks, files

\* Workers and panes are lost, and the controller at most.
LEMMA LossStep ==
  ASSUME IInv, UNCHANGED <<status, attempt>>,
         record' \in [Tasks -> Records], old' \subseteq Tasks, result' \subseteq Tasks,
         loose \subseteq loose', loose' \subseteq Tasks, workers' \subseteq workers,
         pane' \in [Panes -> Contents],
         \A p \in Panes : pane'[p] = pane[p] \/ pane'[p].at \notin BusyAt,
         \A r \in workers', p \in Panes : IsBusy(p) /\ pane[p].run = r => pane'[p] = pane[p],
         \A t \in Tasks : t \notin loose' =>
           \/ record'[t] = record[t] /\ (t \in old' => t \in old)
           \/ record'[t] = Torn /\ ctl' \in {Idle, Dead},
         \/ ctl' = ctl
         \/ ctl' \in {Idle, Dead} /\ (ctl.pc = "spawned" => ctl.run.task \in loose')
  PROVE  IInv'
<1>1. TypeInv /\ LaunchOK /\ UNCHANGED status /\ UNCHANGED attempt
  BY DEF IInv
<1>2. status' \in [Tasks -> Status]
  BY <1>1 DEF TypeInv
<1>3. \A r \in workers' : InPane(r) =>
        \E p \in Panes : pane'[p].at \in BusyAt /\ pane'[p].run = r
  <2>1. ASSUME NEW r \in workers', NEW p \in Panes, IsBusy(p), pane[p].run = r
        PROVE  pane'[p].at \in BusyAt /\ pane'[p].run = r
    BY <1>1, <2>1, PaneType
  <2> QED BY <2>1 DEF InPane
<1>4. \A t \in Tasks : t \notin loose' =>
        \/ status[t] \in Active \cup {"done"} => status'[t] \in Active \cup {"done"}
        \/ Unattended(t)
  BY <1>1
<1>5. \/ /\ ctl' = ctl
         /\ InFlight => status'[ctl.run.task] \in Active \/ ctl.run.task \in loose'
      \/ /\ ctl' \in {Idle, Dead}
         /\ ctl.pc = "spawned" => ctl.run.task \in loose'
  BY <1>1 DEF LaunchOK
<1> QED BY <1>1, <1>2, <1>3, <1>4, <1>5, NothingStarts

\* Neither a file nor a pane is touched.
LEMMA CtlStep ==
  ASSUME IInv, UNCHANGED <<status, attempt, record, old, pane, loose>>,
         result' \subseteq Tasks, workers' \subseteq workers,
         ctl' = ctl \/ (ctl' \in {Idle, Dead} /\ ctl.pc # "spawned")
  PROVE  IInv'
<1>1. TypeInv
  BY DEF IInv
<1>2. /\ record' \in [Tasks -> Records] /\ old' \subseteq Tasks
      /\ loose \subseteq loose' /\ loose' \subseteq Tasks /\ pane' \in [Panes -> Contents]
  BY <1>1 DEF TypeInv
<1>3. UNCHANGED <<status, attempt>>
  OBVIOUS
<1>4. \A p \in Panes : pane'[p] = pane[p] \/ pane'[p].at \notin BusyAt
  OBVIOUS
<1>5. \A r \in workers', p \in Panes : IsBusy(p) /\ pane[p].run = r => pane'[p] = pane[p]
  OBVIOUS
<1>6. \A t \in Tasks : t \notin loose' =>
        \/ record'[t] = record[t] /\ (t \in old' => t \in old)
        \/ record'[t] = Torn /\ ctl' \in {Idle, Dead}
  OBVIOUS
<1>7. \/ ctl' = ctl
      \/ ctl' \in {Idle, Dead} /\ (ctl.pc = "spawned" => ctl.run.task \in loose')
  OBVIOUS
<1> QED BY <1>2, <1>3, <1>4, <1>5, <1>6, <1>7, LossStep

LEMMA SpawnFailsInv ==
  ASSUME IInv, SpawnFails
  PROVE  IInv'
<1>1. ctl.pc # "spawned" /\ ctl' = Dead /\ TypeInv
  BY DEF SpawnFails, At, IInv
<1> QED BY <1>1, CtlStep DEF SpawnFails, work, files, TypeInv

LEMMA ReadsTornInv ==
  ASSUME IInv, NEW t \in Tasks, ReadsTorn(t)
  PROVE  IInv'
<1>1. ctl.pc # "spawned" /\ ctl' = Dead /\ TypeInv
  BY DEF ReadsTorn, Looks, At, IInv
<1> QED BY <1>1, CtlStep DEF ReadsTorn, Looks, files, TypeInv

LEMMA RestartControllerInv ==
  ASSUME IInv, RestartController
  PROVE  IInv'
<1>1. ctl.pc # "spawned" /\ ctl' = Idle /\ TypeInv
  BY DEF RestartController, At, IInv
<1> QED BY <1>1, CtlStep DEF RestartController, work, files, TypeInv

LEMMA WorkerEndsInv ==
  ASSUME IInv, NEW r \in Run, WorkerEnds(r)
  PROVE  IInv'
<1>1. result' \subseteq Tasks
  BY RunType DEF WorkerEnds, IInv, TypeInv
<1> QED BY <1>1, CtlStep DEF WorkerEnds, files

LEMMA LosePaneInv ==
  ASSUME IInv, NEW p \in Panes, NEW how \in {"dead", "gone"}, LosePane(p, how)
  PROVE  IInv'
<1>1. TypeInv
  BY DEF IInv
<1>2. /\ UNCHANGED <<status, attempt>> /\ UNCHANGED <<record, old, result, ctl, loose>>
      /\ pane' = [pane EXCEPT ![p] = Empty(how)]
      /\ workers' = IF IsBusy(p) THEN workers \ {pane[p].run} ELSE workers
  BY DEF LosePane, work, files
<1>3. Empty(how) \in Contents /\ Empty(how).at \notin BusyAt
  BY ContentsType
<1>4. /\ record' \in [Tasks -> Records] /\ old' \subseteq Tasks /\ result' \subseteq Tasks
      /\ loose \subseteq loose' /\ loose' \subseteq Tasks
      /\ workers' \subseteq workers /\ pane' \in [Panes -> Contents]
  BY <1>1, <1>2, <1>3 DEF TypeInv
<1>5. \A q \in Panes : pane'[q] = pane[q] \/ pane'[q].at \notin BusyAt
  BY <1>1, <1>2, <1>3 DEF TypeInv
<1>6. \A r \in workers', q \in Panes : IsBusy(q) /\ pane[q].run = r => pane'[q] = pane[q]
  BY <1>1, <1>2 DEF TypeInv
<1> QED BY <1>2, <1>4, <1>5, <1>6, LossStep

\* What a launch that is cut short leaves.
LEMMA CutShortLeaves ==
  ASSUME TypeInv, CtlOK, CutShort
  PROVE  /\ record' \in [Tasks -> Records] /\ old' \subseteq Tasks
         /\ loose \subseteq loose' /\ loose' \subseteq Tasks
         /\ ctl' = Dead /\ (ctl.pc = "spawned" => ctl.run.task \in loose')
         /\ \A t \in Tasks :
              \/ record'[t] = record[t] /\ (t \in old' => t \in old)
              \/ record'[t] = Torn
<1>1. ctl.pc \in {"spawned", "read"} => ctl.run.task \in Tasks
  BY CtlType, RunType
<1>2. CASE At("read")
  <2>1. PICK r \in {record[ctl.run.task], Torn} : Write(ctl.run.task, r)
    BY <1>2 DEF CutShort
  <2>2. r \in Records
    BY <1>1, <1>2, <2>1, RecordTypes DEF TypeInv, At
  <2> QED BY <1>1, <1>2, <2>1, <2>2 DEF CutShort, Write, TypeInv, At
<1>3. CASE ~At("read")
  BY <1>1, <1>3 DEF CutShort, TypeInv, At, files
<1> QED BY <1>2, <1>3

LEMMA KillControllerInv ==
  ASSUME IInv, KillController
  PROVE  IInv'
<1>1. TypeInv /\ CtlOK /\ CutShort /\ UNCHANGED <<status, attempt>>
      /\ UNCHANGED <<result, workers, pane>>
  BY DEF IInv, KillController, work
<1>2. /\ result' \subseteq Tasks /\ workers' \subseteq workers /\ pane' \in [Panes -> Contents]
      /\ \A p \in Panes : pane'[p] = pane[p] \/ pane'[p].at \notin BusyAt
      /\ \A r \in workers', p \in Panes : IsBusy(p) /\ pane[p].run = r => pane'[p] = pane[p]
  BY <1>1 DEF TypeInv
<1> QED BY <1>1, <1>2, CutShortLeaves, LossStep

LEMMA StopProcessesInv ==
  ASSUME IInv, StopProcesses
  PROVE  IInv'
<1>1. TypeInv
  BY DEF IInv
<1> DEFINE killed == {r \in workers : record[r.task].pid = r.n}
<1>2. PICK gone : gone = killed
  OBVIOUS
<1>3. /\ UNCHANGED <<status, attempt>> /\ UNCHANGED <<record, old, result, ctl, loose>>
      /\ workers' = workers \ gone
      /\ pane' = [p \in Panes |-> IF IsBusy(p) /\ pane[p].run \in gone
                                    THEN Empty("idle") ELSE pane[p]]
  BY <1>2 DEF StopProcesses, work, files
<1>4. Empty("idle") \in Contents /\ Empty("idle").at \notin BusyAt
  BY ContentsType
<1>5. /\ record' \in [Tasks -> Records] /\ old' \subseteq Tasks /\ result' \subseteq Tasks
      /\ loose \subseteq loose' /\ loose' \subseteq Tasks
      /\ workers' \subseteq workers /\ pane' \in [Panes -> Contents]
  BY <1>1, <1>3, <1>4 DEF TypeInv
<1>6. \A q \in Panes : pane'[q] = pane[q] \/ pane'[q].at \notin BusyAt
  BY <1>3, <1>4
<1>7. \A r \in workers', q \in Panes : IsBusy(q) /\ pane[q].run = r => pane'[q] = pane[q]
  BY <1>3
<1>8. \A t \in Tasks : t \notin loose' =>
        \/ record'[t] = record[t] /\ (t \in old' => t \in old)
        \/ record'[t] = Torn /\ ctl' \in {Idle, Dead}
  BY <1>3
<1>9. ctl' = ctl
  BY <1>3
<1> QED BY <1>3, <1>5, <1>6, <1>7, <1>8, <1>9, LossStep

LEMMA StopSessionInv ==
  ASSUME IInv, StopSession
  PROVE  IInv'
<1>1. TypeInv /\ CtlOK /\ CutShort /\ UNCHANGED <<status, attempt>> /\ UNCHANGED result
  BY DEF IInv, StopSession, work
<1>2. PICK left : left = InPanes
  OBVIOUS
<1>3. workers' = workers \ left /\ pane' = [p \in Panes |-> Empty("idle")]
  BY <1>2 DEF StopSession
<1>4. Empty("idle") \in Contents /\ Empty("idle").at \notin BusyAt
  BY ContentsType
<1>5. \A q \in Panes : IsBusy(q) => pane[q].run \in left
  BY <1>2 DEF InPanes
<1>6. /\ result' \subseteq Tasks /\ workers' \subseteq workers /\ pane' \in [Panes -> Contents]
      /\ \A p \in Panes : pane'[p] = pane[p] \/ pane'[p].at \notin BusyAt
      /\ \A r \in workers', p \in Panes : IsBusy(p) /\ pane[p].run = r => pane'[p] = pane[p]
  BY <1>1, <1>3, <1>4, <1>5 DEF TypeInv
<1> QED BY <1>1, <1>6, CutShortLeaves, LossStep

LEMMA RetryInv ==
  ASSUME IInv, NEW t \in Tasks, Retry(t)
  PROVE  IInv'
<1>1. TypeInv /\ LaunchOK /\ CtlOK
  BY DEF IInv
<1>2. /\ UNCHANGED attempt /\ UNCHANGED <<record, old, result, workers, pane, ctl>>
      /\ status' = [status EXCEPT ![t] = "waiting"]
      /\ loose' = IF status[t] \in Active \cup {"done"} THEN loose \cup {t} ELSE loose
  BY DEF Retry, files
<1>3. /\ status' \in [Tasks -> Status]
      /\ \A u \in Tasks : u # t => status'[u] = status[u]
  BY <1>1, <1>2, StatusType, StatusValues
<1>4. /\ record' \in [Tasks -> Records] /\ old' \subseteq Tasks /\ result' \subseteq Tasks
      /\ loose \subseteq loose' /\ loose' \subseteq Tasks
      /\ workers' \subseteq workers /\ pane' \in [Panes -> Contents]
  BY <1>1, <1>2 DEF TypeInv
<1>5. \A p \in Panes : pane'[p] = pane[p] \/ pane'[p].at \notin BusyAt
  BY <1>2
<1>6. \A r \in workers' : InPane(r) =>
        \E p \in Panes : pane'[p].at \in BusyAt /\ pane'[p].run = r
  BY <1>1, <1>2, PaneType DEF InPane
<1>7. \A u \in Tasks : u \notin loose' =>
        \/ status[u] \in Active \cup {"done"} => status'[u] \in Active \cup {"done"}
        \/ Unattended(u)
  BY <1>2, <1>3
<1>8. \A u \in Tasks : u \notin loose' =>
        \/ record'[u] = record[u] /\ (u \in old' => u \in old)
        \/ record'[u] = Torn /\ ctl' \in {Idle, Dead}
  BY <1>2
<1>9. ctl' = ctl /\ (InFlight => status'[ctl.run.task] \in Active \/ ctl.run.task \in loose')
  <2>1. InFlight => ctl.run.task \in Tasks
    BY <1>1, CtlType, RunType
  <2> QED BY <1>1, <1>2, <1>3, <2>1 DEF LaunchOK
<1> QED BY <1>2, <1>3, <1>4, <1>5, <1>6, <1>7, <1>8, <1>9, NothingStarts

-----------------------------------------------------------------------------
(***************************************************************************)
(* The steps of a runner                                                   *)
(***************************************************************************)
LEMMA RunnerInv ==
  ASSUME IInv, NEW p \in Panes, IsBusy(p), NEW r \in Run, pane[p].run = r,
         NEW content \in Contents, NEW rec \in Records,
         UNCHANGED <<status, attempt, result>>, UNCHANGED <<workers, ctl>>,
         pane' = [pane EXCEPT ![p] = content],
         content.at \in BusyAt => content.run = r,
         RunnerWrites(p, rec),
         \/ content.at = "opened" /\ rec = Torn
         \/ content.at = "running" /\ rec.pid = r.n
         \/ content.at = "reopened" /\ r \notin workers
         \/ content.at = "idle" /\ r \notin workers
  PROVE  IInv'
<1>1. /\ record' = [record EXCEPT ![r.task] = rec] /\ old' = old \ {r.task}
      /\ loose' = IF r.n # attempt[r.task] THEN loose \cup {r.task} ELSE loose
  BY DEF RunnerWrites, Write
<1>2. r \in workers => content.at \in BusyAt
  BY DEF BusyAt
<1>3. TypeInv /\ PaneOK(p) /\ r.task \in Tasks
  BY RunType DEF IInv, Watched
<1>4. pane'[p] = content /\ record'[r.task] = rec /\ pane' \in [Panes -> Contents]
  BY <1>1, <1>3 DEF TypeInv
<1>5. r.n <= attempt[r.task]
  BY <1>3 DEF PaneOK
<1>6. PaneOK(p)'
  <2>1. CASE content.at = "idle"
    BY <1>4, <2>1, BusyNext DEF PaneOK, BusyAt
  <2>2. CASE content.at \in {"opened", "running", "reopened"}
    <3>1. pane'[p].run = r /\ pane'[p].at = content.at
      BY <1>4, <2>2 DEF BusyAt
    <3>2. content.at = "opened" => Fresh(r.task)'
      BY <1>4 DEF Fresh
    <3>3. content.at = "running" => Known(r)'
      BY <1>4 DEF Known
    <3>4. content.at = "reopened" => r \notin workers'
      OBVIOUS
    <3> QED BY <1>5, <2>2, <3>1, <3>2, <3>3, <3>4 DEF PaneOK
  <2> QED BY <2>1, <2>2
<1> QED BY <1>1, <1>2, <1>6, RunnerWriteStep

LEMMA RunnerOpensInv ==
  ASSUME IInv, NEW p \in Panes, RunnerOpens(p)
  PROVE  IInv'
<1>1. TypeInv /\ pane[p].at = "spawned"
  BY DEF IInv, RunnerOpens, Runner
<1>2. PICK r : r = pane[p].run
  OBVIOUS
<1>3. IsBusy(p) /\ r \in Run
  BY <1>1, <1>2, PaneType DEF BusyAt
<1>4. PICK content : content = Busy("opened", r)
  OBVIOUS
<1>5. content \in Contents /\ content.at = "opened" /\ content.run = r
  BY <1>3, <1>4, ContentsType DEF BusyAt
<1>6. PICK rec : rec = Torn
  OBVIOUS
<1>7. rec \in Records /\ rec = Torn
  BY <1>6, RecordTypes
<1>8. UNCHANGED <<status, attempt, result>> /\ UNCHANGED <<workers, ctl>>
  BY DEF RunnerOpens, work
<1>9. pane' = [pane EXCEPT ![p] = content]
  BY <1>2, <1>4 DEF RunnerOpens, Runner
<1>10. RunnerWrites(p, rec)
  BY <1>2, <1>6 DEF RunnerOpens
<1> QED BY <1>2, <1>3, <1>5, <1>7, <1>8, <1>9, <1>10, RunnerInv

LEMMA RunnerRecordsInv ==
  ASSUME IInv, NEW p \in Panes, RunnerRecords(p)
  PROVE  IInv'
<1>1. TypeInv /\ pane[p].at = "opened"
  BY DEF IInv, RunnerRecords, Runner
<1>2. PICK r : r = pane[p].run
  OBVIOUS
<1>3. IsBusy(p) /\ r \in Run
  BY <1>1, <1>2, PaneType DEF BusyAt
<1>4. PICK content : content = Busy("running", r)
  OBVIOUS
<1>5. content \in Contents /\ content.at = "running" /\ content.run = r
  BY <1>3, <1>4, ContentsType DEF BusyAt
<1>6. PICK rec : rec = Rec("running", r.n, "tmux")
  OBVIOUS
<1>7. rec \in Records /\ rec.pid = r.n
  BY <1>3, <1>6, RunType, RecordTypes DEF Rec
<1>8. UNCHANGED <<status, attempt, result>> /\ UNCHANGED <<workers, ctl>>
  BY DEF RunnerRecords, work
<1>9. pane' = [pane EXCEPT ![p] = content]
  BY <1>2, <1>4 DEF RunnerRecords, Runner
<1>10. RunnerWrites(p, rec)
  BY <1>2, <1>6 DEF RunnerRecords
<1> QED BY <1>2, <1>3, <1>5, <1>7, <1>8, <1>9, <1>10, RunnerInv

LEMMA RunnerReopensInv ==
  ASSUME IInv, NEW p \in Panes, RunnerReopens(p)
  PROVE  IInv'
<1>1. TypeInv /\ pane[p].at = "running"
  BY DEF IInv, RunnerReopens, Runner
<1>2. PICK r : r = pane[p].run
  OBVIOUS
<1>3. IsBusy(p) /\ r \in Run
  BY <1>1, <1>2, PaneType DEF BusyAt
<1>4. PICK content : content = Busy("reopened", r)
  OBVIOUS
<1>5. content \in Contents /\ content.at = "reopened" /\ content.run = r
  BY <1>3, <1>4, ContentsType DEF BusyAt
<1>6. PICK rec : rec = Torn
  OBVIOUS
<1>7. rec \in Records /\ rec = Torn
  BY <1>6, RecordTypes
<1>8. UNCHANGED <<status, attempt, result>> /\ UNCHANGED <<workers, ctl>>
  BY DEF RunnerReopens, work
<1>9. pane' = [pane EXCEPT ![p] = content]
  BY <1>2, <1>4 DEF RunnerReopens, Runner
<1>10. RunnerWrites(p, rec)
  BY <1>2, <1>6 DEF RunnerReopens
<1>11. r \notin workers
  BY <1>2 DEF RunnerReopens
<1> QED BY <1>2, <1>3, <1>5, <1>7, <1>8, <1>9, <1>10, <1>11, RunnerInv

LEMMA RunnerClosesInv ==
  ASSUME IInv, NEW p \in Panes, RunnerCloses(p)
  PROVE  IInv'
<1>1. TypeInv /\ pane[p].at = "reopened" /\ PaneOK(p)
  BY DEF IInv, RunnerCloses, Runner, Watched
<1>2. IsBusy(p) /\ pane[p].run \in Run /\ pane[p].run \notin workers
  BY <1>1, PaneType DEF BusyAt, PaneOK
<1>3. Rec("exited", pane[p].run.n, "tmux") \in Records
  BY <1>2, RunType, RecordTypes
<1> QED BY <1>2, <1>3, ContentsType, RunnerInv DEF RunnerCloses, Runner, work

\* What keeps a worker accounted for, and a runner.
LEMMA WorkerFrame ==
  ASSUME NEW r, WorkerOK(r), InPane(r) => InPane(r)',
         status'[r.task] = status[r.task], attempt'[r.task] = attempt[r.task],
         record'[r.task] = record[r.task], r.task \in loose => r.task \in loose',
         Launching(r.task)' => Launching(r.task),
         ctl.pc = "spawned" /\ ctl.run.task = r.task =>
           ctl'.pc = "spawned" /\ ctl'.run.task = r.task
  PROVE  WorkerOK(r)'
BY DEF WorkerOK, Attended, Known

LEMMA PaneFrame ==
  ASSUME NEW p \in Panes, PaneOK(p), pane'[p] = pane[p], NEW t, t = pane[p].run.task,
         status'[t] = status[t], attempt'[t] = attempt[t],
         record'[t] = record[t], t \in old' => t \in old, t \in loose => t \in loose',
         Launching(t)' => Launching(t),
         pane[p].at = "reopened" /\ pane[p].run \in workers' => pane[p].run \in workers
  PROVE  PaneOK(p)'
<1>1. IsBusy(p)' <=> IsBusy(p)
  BY DEF IsBusy
<1>2. Fresh(t) => Fresh(t)'
  BY DEF Fresh
<1>3. Attended(pane[p].run) => Attended(pane[p].run)'
  BY DEF Attended
<1>4. Known(pane[p].run) => Known(pane[p].run)'
  BY DEF Known
<1> QED BY <1>1, <1>2, <1>3, <1>4 DEF PaneOK

LEMMA RunnerSpawnsInv ==
  ASSUME IInv, NEW p \in Panes, RunnerSpawns(p)
  PROVE  IInv'
<1>1. TypeInv /\ CtlOK /\ Distinct /\ LaunchOK /\ Watched
  BY DEF IInv
<1>2. PICK r : r = pane[p].run
  OBVIOUS
<1>3. /\ pane[p].at = "starting" /\ pane' = [pane EXCEPT ![p] = Busy("spawned", r)]
      /\ workers' = workers \cup {r}
      /\ UNCHANGED <<status, attempt, result>> /\ UNCHANGED <<record, old, ctl, loose>>
  BY <1>2 DEF RunnerSpawns, Runner, work, files
<1>4. IsBusy(p) /\ r \in Run /\ PaneOK(p) /\ r.task \in Tasks
  BY <1>1, <1>2, <1>3, PaneType, RunType DEF BusyAt, Watched
<1>5. /\ Busy("spawned", r) \in Contents /\ Busy("spawned", r).at = "spawned"
      /\ Busy("spawned", r).run = r
  BY <1>4, ContentsType DEF BusyAt
<1>6. TypeInv'
  BY <1>1, <1>3, <1>4, <1>5 DEF TypeInv
<1>7. \A q \in Panes : /\ IsBusy(q)' <=> IsBusy(q)
                       /\ IsBusy(q) => pane'[q].run = pane[q].run
                       /\ q # p => pane'[q] = pane[q]
  BY <1>1, <1>2, <1>3, <1>4, <1>5, <1>6, PaneType, BusyNext DEF TypeInv, BusyAt
<1>8. \A s : InPane(s)' <=> InPane(s)
  BY <1>7 DEF InPane
<1>9. Distinct'
  BY <1>1, <1>7 DEF Distinct
<1>10. InPane(r)
  BY <1>2, <1>4 DEF InPane
<1>11. CtlOK'
  BY <1>1, <1>3, <1>8, <1>10 DEF CtlOK
<1>12. LaunchOK'
  BY <1>1, <1>3 DEF LaunchOK, InFlight, Fresh
<1>13. \A u : Launching(u)' <=> Launching(u)
  BY <1>3 DEF Launching, InFlight
<1>14. ASSUME NEW s \in workers'
       PROVE  WorkerOK(s)'
  <2>1. CASE s \in workers
    <3>1. WorkerOK(s)
      BY <1>1, <2>1 DEF Watched
    <3> QED BY <1>3, <1>8, <1>13, <3>1, WorkerFrame
  <2>2. CASE s = r
    <3>1. r.n <= attempt[r.task] /\ (r.task \notin loose => Attended(r))
      BY <1>2, <1>3, <1>4 DEF PaneOK
    <3>2. InPane(s)'
      BY <1>8, <1>10, <2>2
    <3> QED BY <1>3, <2>2, <3>1, <3>2 DEF WorkerOK, Attended
  <2> QED BY <1>3, <2>1, <2>2
<1>15. ASSUME NEW q \in Panes
       PROVE  PaneOK(q)'
  <2>1. CASE q = p
    <3>1. r.n <= attempt[r.task] /\ (r.task \notin loose /\ r.n = attempt[r.task] => Fresh(r.task))
      BY <1>2, <1>3, <1>4 DEF PaneOK
    <3>2. pane'[q].at = "spawned" /\ pane'[q].run = r
      BY <1>1, <1>3, <1>5, <2>1 DEF TypeInv
    <3> QED BY <1>3, <3>1, <3>2 DEF PaneOK, Fresh
  <2>2. CASE q # p
    <3>1. PaneOK(q) /\ pane'[q] = pane[q]
      BY <1>1, <1>7, <2>2 DEF Watched
    <3>2. pane[q].at = "reopened" => pane[q].run # r
      BY <1>1, <1>2, <1>4, <2>2, PaneType DEF Distinct, BusyAt
    <3> QED BY <1>3, <1>13, <3>1, <3>2, PaneFrame
  <2> QED BY <2>1, <2>2
<1> QED BY <1>6, <1>9, <1>11, <1>12, <1>14, <1>15 DEF IInv, Watched

LEMMA GrowsOldInv ==
  ASSUME IInv, NEW t \in Tasks, GrowsOld(t)
  PROVE  IInv'
<1>1. TypeInv /\ CtlOK /\ Distinct /\ LaunchOK /\ Watched
  BY DEF IInv
<1>2. /\ UNCHANGED <<status, attempt, result>> /\ UNCHANGED <<record, workers, pane, ctl, loose>>
      /\ old' = old \cup {t} /\ ~Launching(t)
      /\ \A p \in Panes : IsBusy(p) /\ pane[p].run.task = t => pane[p].at = "running"
  BY DEF GrowsOld, work, Launching, InFlight
<1>3. TypeInv'
  BY <1>1, <1>2 DEF TypeInv
<1>4. CtlOK'
  BY <1>1, <1>2 DEF CtlOK, InPane, IsBusy
<1>5. Distinct'
  BY <1>1, <1>2 DEF Distinct, IsBusy
<1>6. \A u : u # t /\ Fresh(u) => Fresh(u)'
  BY <1>2 DEF Fresh
<1>7. LaunchOK'
  BY <1>1, <1>2, <1>6 DEF LaunchOK, Launching, InFlight
<1>8. \A r \in workers' : WorkerOK(r)'
  BY <1>1, <1>2 DEF Watched, WorkerOK, Attended, Known, Launching, InFlight, InPane, IsBusy
<1>9. ASSUME NEW p \in Panes
      PROVE  PaneOK(p)'
  <2>1. PaneOK(p)
    BY <1>1 DEF Watched
  <2>2. CASE pane[p].run.task # t
    BY <1>2, <2>1, <2>2, PaneFrame DEF Launching, InFlight
  <2>3. CASE pane[p].run.task = t /\ IsBusy(p)
    <3>1. pane[p].at = "running"
      BY <1>2, <2>3
    <3> QED BY <1>2, <2>1, <3>1 DEF PaneOK, Known, Launching, InFlight, IsBusy
  <2>4. CASE ~IsBusy(p)
    BY <1>2, <2>4 DEF PaneOK, IsBusy
  <2> QED BY <2>2, <2>3, <2>4
<1> QED BY <1>3, <1>4, <1>5, <1>7, <1>8, <1>9 DEF IInv, Watched

-----------------------------------------------------------------------------
(***************************************************************************)
(* The steps of a launch                                                   *)
(***************************************************************************)
\* A new launch has a number above those of all.
LEMMA MaxOf ==
  ASSUME NEW n \in Nat, NEW S \in SUBSET (0 .. n), S # {}
  PROVE  Max(S) \in S /\ \A j \in S : j <= Max(S)
<1> DEFINE T == {k \in Nat : k <= n /\ n - k \in S}
<1>1. T \subseteq Nat
  OBVIOUS
<1>2. T # {}
  <2>1. PICK i \in S : TRUE
    OBVIOUS
  <2>2. i \in 0 .. n /\ n - i \in T
    BY <2>1
  <2> QED BY <2>2
<1>3. PICK x \in T : \A y \in T : ~(<<y, x>> \in OpToRel(<, Nat))
  <2> HIDE DEF T
  <2> QED BY <1>1, <1>2, NatLessThanWellFounded, WFMin
<1>4. \A y \in T : ~(y < x)
  BY <1>1, <1>3 DEF OpToRel
<1>5. n - x \in S /\ \A j \in S : n - x >= j
  <2>1. ASSUME NEW j \in S
        PROVE  n - x >= j
    <3>1. j \in 0 .. n /\ n - j \in T
      OBVIOUS
    <3>2. ~(n - j < x)
      BY <1>4, <3>1
    <3>3. x \in Nat /\ j \in Nat
      BY <1>1, <3>1
    <3> QED BY <3>2, <3>3
  <2> QED BY <1>3, <2>1
<1>6. \E i \in S : \A j \in S : i >= j
  BY <1>5
<1>7. Max(S) \in S /\ \A j \in S : Max(S) >= j
  BY <1>6 DEF Max
<1>8. S \subseteq Nat
  OBVIOUS
<1> QED BY <1>7, <1>8

LEMMA LaunchesBound ==
  ASSUME TypeInv, NEW t \in Tasks
  PROVE  Launches \in 0 .. MaxLaunches /\ \A u \in Tasks : attempt[u] <= Launches
<1> DEFINE S == {attempt[u] : u \in Tasks}
<1>1. MaxLaunches \in Nat /\ S \in SUBSET (0 .. MaxLaunches) /\ S # {}
  BY PanesAssumption DEF TypeInv
<1>2. \A u \in Tasks : attempt[u] \in S
  OBVIOUS
<1>3. Launches = Max(S)
  BY DEF Launches
<1> HIDE DEF S
<1>4. Max(S) \in S /\ \A j \in S : j <= Max(S)
  BY <1>1, MaxOf
<1> QED BY <1>1, <1>2, <1>3, <1>4

LEMMA AssignInv ==
  ASSUME IInv, NEW t \in Tasks, Assign(t)
  PROVE  IInv'
<1>1. TypeInv /\ CtlOK /\ Distinct /\ LaunchOK /\ Watched
  BY DEF IInv
<1>2. PICK n : n = Launches + 1
  OBVIOUS
<1>3. /\ ctl.pc = "idle" /\ status[t] = "waiting" /\ Launches < MaxLaunches
      /\ attempt' = [attempt EXCEPT ![t] = n] /\ status' = [status EXCEPT ![t] = "assigned"]
      /\ UNCHANGED <<record, old, result>> /\ UNCHANGED <<workers, pane, loose>>
  BY <1>2 DEF Assign, At, files
<1>4. n \in 1 .. MaxLaunches /\ n \in Nat /\ \A u \in Tasks : attempt[u] < n /\ attempt[u] \in Nat
  BY <1>1, <1>2, <1>3, LaunchesBound, PanesAssumption DEF TypeInv
<1>5. attempt'[t] = n /\ \A u \in Tasks : u # t => attempt'[u] = attempt[u]
  BY <1>1, <1>3 DEF TypeInv
<1>6. status'[t] = "assigned" /\ \A u \in Tasks : u # t => status'[u] = status[u]
  BY <1>1, <1>3 DEF TypeInv
<1>7. PICK p \in Panes \cup {NoPane} :
        ctl' = [pc |-> "assigned", run |-> [task |-> t, n |-> n], pane |-> p]
  BY <1>5 DEF Assign
<1>8. /\ ctl'.pc = "assigned" /\ ctl'.run = [task |-> t, n |-> n] /\ ctl' \in Early
      /\ ctl'.run \in Run /\ ctl'.run.task = t /\ ctl'.run.n = n
  BY <1>4, <1>7 DEF Early, Run
<1>9. TypeInv'
  <2>1. attempt' \in [Tasks -> 0 .. MaxLaunches]
    BY <1>1, <1>3, <1>4 DEF TypeInv
  <2>2. status' \in [Tasks -> Status]
    BY <1>1, <1>3, StatusType, StatusValues
  <2> QED BY <1>1, <1>3, <2>1, <2>2 DEF TypeInv
<1>10. \A q \in Panes : IsBusy(q) => pane[q].run \in Run /\ pane[q].run.task \in Tasks
                                     /\ pane[q].run.n <= attempt[pane[q].run.task]
  BY <1>1, PaneType, RunType DEF Watched, PaneOK
<1>11. \A r \in workers : r \in Run /\ r.task \in Tasks /\ r.n <= attempt[r.task]
  BY <1>1, RunType DEF TypeInv, Watched, WorkerOK
<1>12. \A u : Launching(u)' => u = t
  BY <1>8 DEF Launching
<1>13. CtlOK'
  <2>1. \A q \in Panes : IsBusy(q) => pane[q].run # ctl'.run
    BY <1>4, <1>8, <1>10, RunType
  <2>2. ctl'.run \notin workers
    BY <1>4, <1>8, <1>11, RunType
  <2> QED BY <1>3, <1>8, <2>1, <2>2 DEF CtlOK, InPane, IsBusy
<1>14. Distinct'
  BY <1>1, <1>3 DEF Distinct, IsBusy
<1>15. LaunchOK'
  BY <1>5, <1>6, <1>8 DEF LaunchOK, Active
<1>16. ASSUME NEW r \in workers'
       PROVE  WorkerOK(r)'
  <2>1. r \in workers /\ WorkerOK(r) /\ r \in Run /\ r.n \in Nat
    BY <1>1, <1>3, <1>11, RunType DEF Watched
  <2>2. CASE r.task = t
    <3>1. r.task \in loose
      BY <1>3, <2>1, <2>2 DEF WorkerOK, Attended, Active
    <3> QED BY <1>3, <1>4, <1>5, <2>1, <2>2, <3>1 DEF WorkerOK
  <2>3. CASE r.task # t
    BY <1>3, <1>5, <1>6, <1>11, <1>12, <2>1, <2>3
       DEF WorkerOK, Attended, Known, Launching, InFlight, InPane, IsBusy
  <2> QED BY <2>2, <2>3
<1>17. ASSUME NEW q \in Panes
       PROVE  PaneOK(q)'
  <2>1. PaneOK(q)
    BY <1>1 DEF Watched
  <2>2. CASE ~IsBusy(q)
    BY <1>3, <2>2 DEF PaneOK, IsBusy
  <2>3. CASE IsBusy(q) /\ pane[q].run.task = t
    <3>1. pane[q].run.n < n /\ pane[q].run.n \in Nat
      BY <1>4, <1>10, <2>3, RunType
    <3>2. pane[q].at = "starting" => t \in loose
      BY <1>3, <2>1, <2>3 DEF PaneOK, Attended, Active
    <3>3. pane'[q] = pane[q] /\ pane'[q].run.task = t /\ attempt'[pane'[q].run.task] = n
      BY <1>3, <1>5, <2>3
    <3>4. pane'[q].run.n <= n /\ pane'[q].run.n # n
      BY <1>4, <3>1, <3>3
    <3>5. pane[q].at = "reopened" => pane[q].run \notin workers
      BY <2>1, <2>3 DEF PaneOK
    <3> QED BY <1>3, <3>2, <3>3, <3>4, <3>5 DEF PaneOK
  <2>4. CASE IsBusy(q) /\ pane[q].run.task # t
    <3>1. PICK u : u = pane[q].run.task
      OBVIOUS
    <3>2. u \in Tasks /\ u # t
      BY <1>10, <2>4, <3>1
    <3> QED BY <1>3, <1>5, <1>6, <1>12, <2>1, <3>1, <3>2, PaneFrame
  <2> QED BY <2>2, <2>3, <2>4
<1> QED BY <1>9, <1>13, <1>14, <1>15, <1>16, <1>17 DEF IInv, Watched

\* The run of a launch that is not in a pane is not looked for in any other.
LEMMA NotInPane ==
  ASSUME IInv, InFlight, ~InPane(ctl.run)
  PROVE  \A p \in Panes : IsBusy(p) /\ pane[p].run.task = ctl.run.task =>
           pane[p].run.n # attempt[ctl.run.task]
<1>1. TypeInv /\ CtlOK /\ LaunchOK
  BY DEF IInv
<1>2. ctl.run \in Run /\ ctl.run.n = attempt[ctl.run.task]
  BY <1>1, CtlType DEF LaunchOK
<1> QED BY <1>1, <1>2, PaneType, SameRun DEF InPane

LEMMA StampInv ==
  ASSUME IInv, Stamp
  PROVE  IInv'
<1>1. TypeInv /\ CtlOK /\ Distinct /\ LaunchOK /\ Watched
  BY DEF IInv
<1>2. PICK t, rec : t = ctl.run.task /\ rec = Rec("launching", 0, "tmux")
  OBVIOUS
<1>3. /\ ctl.pc = "assigned" /\ ctl.pane # NoPane /\ ctl' = [ctl EXCEPT !.pc = "stamped"]
      /\ record' = [record EXCEPT ![t] = rec] /\ old' = old \ {t}
      /\ UNCHANGED <<status, attempt, result>> /\ UNCHANGED <<workers, pane, loose>>
  BY <1>2 DEF Stamp, At, Write, work
<1>4. InFlight /\ ctl \in Early /\ ctl.run \in Run /\ t \in Tasks /\ ~InPane(ctl.run)
      /\ ctl.run \notin workers
  BY <1>1, <1>2, <1>3, CtlType, RunType DEF CtlOK
<1>5. ctl' \in Early /\ ctl'.pc = "stamped" /\ ctl'.run = ctl.run /\ ctl'.pane = ctl.pane
  BY <1>3, <1>4 DEF Early
<1>6. rec \in Records /\ Awaits(rec)
  BY <1>2, RecordTypes
<1>7. TypeInv'
  BY <1>1, <1>3, <1>6 DEF TypeInv
<1>8. record'[t] = rec /\ \A u \in Tasks : u # t => record'[u] = record[u]
  BY <1>1, <1>3, <1>4 DEF TypeInv
<1>9. Fresh(t)'
  BY <1>3, <1>6, <1>8 DEF Fresh
<1>10. CtlOK'
  BY <1>3, <1>4, <1>5 DEF CtlOK, InPane, IsBusy
<1>11. Distinct'
  BY <1>1, <1>3 DEF Distinct, IsBusy
<1>12. LaunchOK'
  <2>1. ctl'.run.task = t
    BY <1>2, <1>5
  <2>2. Awaits(record'[ctl'.run.task]) /\ ctl'.run.task \notin old'
    BY <1>3, <1>6, <1>8, <2>1
  <2>3. attempt'[t] = ctl'.run.n /\ (status'[t] \in Active \/ t \in loose')
    BY <1>1, <1>2, <1>3, <1>4, <1>5 DEF LaunchOK
  <2> QED BY <2>1, <2>2, <2>3 DEF LaunchOK, Fresh
<1>13. \A u : Launching(u)' <=> Launching(u)
  BY <1>3, <1>5 DEF Launching, InFlight
<1>14. \A r \in workers : InPane(r) => InPane(r)'
  BY <1>3 DEF InPane, IsBusy
<1>15. ASSUME NEW r \in workers'
       PROVE  WorkerOK(r)'
  <2>1. r \in workers /\ WorkerOK(r) /\ r \in Run /\ r.task \in Tasks
    BY <1>1, <1>3, RunType DEF Watched, TypeInv
  <2>2. CASE r.task = t
    <3>1. t \notin loose => r.n = ctl.run.n
      BY <1>1, <1>2, <1>4, <2>1, <2>2 DEF WorkerOK, Attended, LaunchOK
    <3>2. t \in loose
      BY <1>2, <1>4, <2>1, <2>2, <3>1, SameRun
    <3> QED BY <1>3, <2>1, <2>2, <3>2 DEF WorkerOK
  <2>3. CASE r.task # t
    BY <1>2, <1>3, <1>8, <1>13, <1>14, <2>1, <2>3, WorkerFrame
  <2> QED BY <2>2, <2>3
<1>16. ASSUME NEW p \in Panes
       PROVE  PaneOK(p)'
  <2>1. PaneOK(p)
    BY <1>1 DEF Watched
  <2>2. CASE ~IsBusy(p)
    BY <1>3, <2>2 DEF PaneOK, IsBusy
  <2>3. CASE IsBusy(p) /\ pane[p].run.task = t
    <3>1. pane[p].run.n # attempt[t]
      BY <1>2, <1>4, <2>3, NotInPane
    <3> QED BY <1>3, <2>1, <2>3, <3>1 DEF PaneOK, IsBusy, Attended
  <2>4. CASE IsBusy(p) /\ pane[p].run.task # t
    <3>1. PICK u : u = pane[p].run.task
      OBVIOUS
    <3>2. u \in Tasks /\ u # t
      BY <1>1, <2>4, <3>1, PaneType, RunType
    <3> QED BY <1>3, <1>8, <1>13, <2>1, <3>1, <3>2, PaneFrame
  <2> QED BY <2>2, <2>3, <2>4
<1> QED BY <1>7, <1>10, <1>11, <1>12, <1>15, <1>16 DEF IInv, Watched

LEMMA InjectInv ==
  ASSUME IInv, Inject
  PROVE  IInv'
<1>1. TypeInv /\ CtlOK /\ Distinct /\ LaunchOK /\ Watched
  BY DEF IInv
<1>2. PICK r, p, base : r = ctl.run /\ p = ctl.pane /\ base = Rec("launching", 0, "tmux")
  OBVIOUS
<1>3. /\ ctl.pc = "stamped" /\ ctl' = [pc |-> "launched", run |-> r, base |-> base]
      /\ UNCHANGED <<status, attempt, result>> /\ UNCHANGED <<record, old, loose>>
      /\ pane' = IF pane[p].at = "dead" THEN pane ELSE [pane EXCEPT ![p] = Busy("starting", r)]
      /\ workers' = IF IsBusy(p) THEN workers \ {pane[p].run} ELSE workers
  BY <1>2 DEF Inject, At, Launched, work, files
<1>4. /\ InFlight /\ ctl \in Early /\ r \in Run /\ r.task \in Tasks /\ ~InPane(r)
      /\ r \notin workers /\ p \in Panes
  BY <1>1, <1>2, <1>3, CtlType, RunType DEF CtlOK, Early
<1>5. base \in Records /\ base \in Bases(r.n) /\ base.pid = 0
  BY <1>2, RecordTypes DEF Bases, Rec
<1>6. ctl' \in Later /\ ctl'.pc = "launched" /\ ctl'.run = r /\ ctl'.base = base
  BY <1>3, <1>4, <1>5 DEF Later
<1>7. /\ Busy("starting", r) \in Contents /\ Busy("starting", r).at = "starting"
      /\ Busy("starting", r).run = r
  BY <1>4, ContentsType DEF BusyAt
<1>8. TypeInv'
  BY <1>1, <1>3, <1>4, <1>7 DEF TypeInv
<1>9. \A q \in Panes : q # p => pane'[q] = pane[q]
  BY <1>1, <1>3 DEF TypeInv
<1>10. IsBusy(p)' => pane'[p].at = "starting" /\ pane'[p].run = r
  BY <1>1, <1>3, <1>4, <1>7 DEF IsBusy, TypeInv
<1>11. \A q \in Panes : q # p => (IsBusy(q)' <=> IsBusy(q))
  BY <1>9 DEF IsBusy
<1>12. CtlOK'
  BY <1>5, <1>6 DEF CtlOK
<1>13. Distinct'
  <2>1. \A q \in Panes : IsBusy(q) => pane[q].run # r
    BY <1>4 DEF InPane
  <2> QED BY <1>1, <1>9, <1>10, <1>11, <2>1 DEF Distinct
<1>14. LaunchOK'
  BY <1>1, <1>2, <1>3, <1>4, <1>6 DEF LaunchOK, InFlight
<1>15. \A u : Launching(u)' <=> Launching(u)
  BY <1>2, <1>3, <1>4, <1>6 DEF Launching, InFlight
<1>16. \A s \in workers' : s \in workers /\ (InPane(s) => InPane(s)')
  BY <1>3, <1>9, <1>11 DEF InPane
<1>17. ASSUME NEW s \in workers'
       PROVE  WorkerOK(s)'
  <2>1. WorkerOK(s)
    BY <1>1, <1>16 DEF Watched
  <2> QED BY <1>3, <1>15, <1>16, <2>1, WorkerFrame
<1>18. ASSUME NEW q \in Panes
       PROVE  PaneOK(q)'
  <2>1. CASE q # p
    <3>1. PaneOK(q) /\ workers' \subseteq workers
      BY <1>1, <1>3 DEF Watched
    <3> QED BY <1>3, <1>9, <1>15, <2>1, <3>1, PaneFrame
  <2>2. CASE q = p
    <3>1. r.n = attempt[r.task] /\ r.n \in Nat
          /\ (r.task \notin loose => Attended(r) /\ Fresh(r.task))
      BY <1>1, <1>2, <1>3, <1>4, RunType DEF LaunchOK, Attended
    <3>2. r.task \notin loose' => Attended(r)' /\ Fresh(r.task)'
      BY <1>3, <3>1 DEF Attended, Fresh
    <3>3. r.n <= attempt'[r.task]
      BY <1>3, <3>1
    <3> QED BY <1>10, <2>2, <3>2, <3>3 DEF PaneOK
  <2> QED BY <2>1, <2>2
<1> QED BY <1>8, <1>12, <1>13, <1>14, <1>17, <1>18 DEF IInv, Watched

LEMMA SpawnInv ==
  ASSUME IInv, Spawn
  PROVE  IInv'
<1>1. TypeInv /\ CtlOK /\ Distinct /\ LaunchOK /\ Watched
  BY DEF IInv
<1>2. PICK r : r = ctl.run
  OBVIOUS
<1>3. /\ ctl.pc \in {"assigned", "stamped"} /\ ctl' = [ctl EXCEPT !.pc = "spawned"]
      /\ workers' = workers \cup {r}
      /\ UNCHANGED <<status, attempt, result>> /\ UNCHANGED <<record, old, pane, loose>>
  BY <1>2 DEF Spawn, At, work, files
<1>4. InFlight /\ ctl \in Early /\ r \in Run /\ r.task \in Tasks /\ ~InPane(r)
  BY <1>1, <1>2, <1>3, CtlType, RunType DEF CtlOK
<1>5. ctl' \in Early /\ ctl'.pc = "spawned" /\ ctl'.run = r
  BY <1>2, <1>3, <1>4 DEF Early
<1>6. TypeInv'
  BY <1>1, <1>3, <1>4 DEF TypeInv
<1>7. CtlOK'
  BY <1>3, <1>4, <1>5 DEF CtlOK, InPane, IsBusy
<1>8. Distinct'
  BY <1>1, <1>3 DEF Distinct, IsBusy
<1>9. r.n = attempt[r.task] /\ (status[r.task] \in Active \/ r.task \in loose) /\ r.n \in Nat
  BY <1>1, <1>2, <1>4, RunType DEF LaunchOK
<1>10. LaunchOK'
  BY <1>3, <1>5, <1>9 DEF LaunchOK
<1>11. \A u : Launching(u)' <=> Launching(u)
  BY <1>2, <1>3, <1>5 DEF Launching, InFlight
<1>12. \A s : InPane(s)' <=> InPane(s)
  BY <1>3 DEF InPane, IsBusy
<1>13. ASSUME NEW s \in workers'
       PROVE  WorkerOK(s)'
  <2>1. CASE s \in workers
    <3>1. WorkerOK(s)
      BY <1>1, <2>1 DEF Watched
    <3> QED BY <1>3, <1>11, <1>12, <3>1, WorkerFrame
  <2>2. CASE s = r
    BY <1>3, <1>5, <1>9, <2>2 DEF WorkerOK, Attended
  <2> QED BY <1>3, <2>1, <2>2
<1>14. ASSUME NEW p \in Panes
       PROVE  PaneOK(p)'
  <2>1. PaneOK(p)
    BY <1>1 DEF Watched
  <2>2. CASE IsBusy(p)
    <3>1. pane[p].run # r
      BY <1>4, <2>2 DEF InPane
    <3> QED BY <1>3, <1>11, <2>1, <3>1, PaneFrame
  <2>3. CASE ~IsBusy(p)
    BY <1>3, <2>3 DEF PaneOK, IsBusy
  <2> QED BY <2>2, <2>3
<1> QED BY <1>6, <1>7, <1>8, <1>10, <1>13, <1>14 DEF IInv, Watched

LEMMA RecordSpawnedInv ==
  ASSUME IInv, RecordSpawned
  PROVE  IInv'
<1>1. TypeInv /\ CtlOK /\ Distinct /\ LaunchOK /\ Watched
  BY DEF IInv
<1>2. PICK r, t, rec, base :
        /\ r = ctl.run /\ t = ctl.run.task /\ rec = Rec("running", ctl.run.n, "plain")
        /\ base = IF ctl.pane = NoPane THEN Rec("running", ctl.run.n, "plain")
                                       ELSE Rec("launching", ctl.run.n, "tmux")
  OBVIOUS
<1>3. /\ ctl.pc = "spawned" /\ ctl' = [pc |-> "launched", run |-> r, base |-> base]
      /\ record' = [record EXCEPT ![t] = rec] /\ old' = old \ {t}
      /\ UNCHANGED <<status, attempt, result>> /\ UNCHANGED <<workers, pane, loose>>
  BY <1>2 DEF RecordSpawned, At, Launched, Write, work
<1>4. InFlight /\ r \in Run /\ t \in Tasks /\ t = r.task /\ ~InPane(r)
  BY <1>1, <1>2, <1>3, CtlType, RunType DEF CtlOK
<1>5. /\ r.n \in 1 .. MaxLaunches /\ rec \in Records /\ rec.pid = r.n
      /\ base \in Bases(r.n) /\ base \in Records
  <2>1. r.n \in 1 .. MaxLaunches
    BY <1>4, RunType
  <2>2. rec.pid = r.n /\ base \in Bases(r.n)
    BY <1>2 DEF Rec, Bases
  <2>3. rec \in Bases(r.n)
    BY <1>2 DEF Bases
  <2> QED BY <2>1, <2>2, <2>3, RecordTypes
<1>6. ctl' \in Later /\ ctl'.pc = "launched" /\ ctl'.run = r /\ ctl'.base = base
  BY <1>3, <1>4, <1>5 DEF Later
<1>7. TypeInv'
  BY <1>1, <1>3, <1>5 DEF TypeInv
<1>8. record'[t] = rec /\ \A u \in Tasks : u # t => record'[u] = record[u]
  BY <1>1, <1>3, <1>4 DEF TypeInv
<1>9. CtlOK'
  <2>1. ~InPane(r)'
    BY <1>3, <1>4 DEF InPane, IsBusy
  <2> QED BY <1>5, <1>6, <2>1 DEF CtlOK, InPane
<1>10. Distinct'
  BY <1>1, <1>3 DEF Distinct, IsBusy
<1>11. LaunchOK'
  BY <1>1, <1>2, <1>3, <1>4, <1>6 DEF LaunchOK, InFlight
<1>12. \A u : Launching(u)' <=> Launching(u)
  BY <1>2, <1>3, <1>6 DEF Launching, InFlight
<1>13. \A s : InPane(s) => InPane(s)'
  BY <1>3 DEF InPane, IsBusy
<1>14. ASSUME NEW s \in workers'
       PROVE  WorkerOK(s)'
  <2>1. s \in workers /\ WorkerOK(s) /\ s \in Run /\ s.task \in Tasks
    BY <1>1, <1>3, RunType DEF Watched, TypeInv
  <2>2. CASE s.task = t
    <3>1. t \notin loose => s.n = r.n
      BY <1>1, <1>2, <1>4, <2>1, <2>2 DEF WorkerOK, Attended, LaunchOK
    <3>2. t \notin loose => Known(s)'
      BY <1>5, <1>8, <2>2, <3>1 DEF Known
    <3> QED BY <1>3, <2>1, <2>2, <3>2 DEF WorkerOK, Attended
  <2>3. CASE s.task # t
    <3>1. record'[s.task] = record[s.task]
      BY <1>8, <2>1, <2>3
    <3> QED BY <1>2, <1>3, <1>12, <1>13, <2>1, <2>3, <3>1, WorkerFrame
  <2> QED BY <2>2, <2>3
<1>15. ASSUME NEW p \in Panes
       PROVE  PaneOK(p)'
  <2>1. PaneOK(p)
    BY <1>1 DEF Watched
  <2>2. CASE ~IsBusy(p)
    BY <1>3, <2>2 DEF PaneOK, IsBusy
  <2>3. CASE IsBusy(p) /\ pane[p].run.task = t
    <3>1. pane[p].run.n # attempt[t]
      BY <1>2, <1>4, <2>3, NotInPane
    <3> QED BY <1>3, <2>1, <2>3, <3>1 DEF PaneOK, IsBusy, Attended
  <2>4. CASE IsBusy(p) /\ pane[p].run.task # t
    <3>1. PICK u : u = pane[p].run.task
      OBVIOUS
    <3>2. u \in Tasks /\ u # t
      BY <1>1, <2>4, <3>1, PaneType, RunType
    <3> QED BY <1>3, <1>8, <1>12, <2>1, <3>1, <3>2, PaneFrame
  <2> QED BY <2>2, <2>3, <2>4
<1> QED BY <1>7, <1>9, <1>10, <1>11, <1>14, <1>15 DEF IInv, Watched

LEMMA ReadRecordInv ==
  ASSUME IInv, ReadRecord
  PROVE  IInv'
<1>1. TypeInv /\ CtlOK /\ Distinct /\ LaunchOK /\ Watched
  BY DEF IInv
<1>2. PICK r, base, seen, merged :
        /\ r = ctl.run /\ base = ctl.base /\ seen = record[ctl.run.task]
        /\ merged = Merge(seen, base)
  OBVIOUS
<1>3. /\ ctl.pc = "launched"
      /\ ctl' = [pc |-> "read", run |-> r, seen |-> seen, merged |-> merged]
      /\ UNCHANGED <<status, attempt, result>>
      /\ UNCHANGED <<record, old, workers, pane, loose>>
  BY <1>2 DEF ReadRecord, At, work, files
<1>4. /\ InFlight /\ r \in Run /\ r.n \in 1 .. MaxLaunches /\ seen \in Records
      /\ base \in Bases(r.n) /\ (base.pid # 0 => ~InPane(r))
  BY <1>1, <1>2, <1>3, CtlType, RunType DEF CtlOK, TypeInv
<1>5. merged \in Records /\ Keeps(seen, merged) /\ (seen = Torn => merged = base)
  BY <1>2, <1>4, MergeKeeps
<1>6. /\ ctl' \in Last /\ ctl'.pc = "read" /\ ctl'.run = r
      /\ ctl'.seen = seen /\ ctl'.merged = merged
  BY <1>3, <1>4, <1>5 DEF Last
<1>7. TypeInv'
  BY <1>1, <1>3 DEF TypeInv
<1>8. seen = Torn /\ InPane(r) => Awaits(merged)
  <2>1. base.pid = 0 => base = Rec("launching", 0, "tmux")
    BY <1>4 DEF Bases, Rec
  <2> QED BY <1>4, <1>5, <2>1, RecordTypes
<1>9. CtlOK'
  <2>1. InPane(r)' <=> InPane(r)
    BY <1>3 DEF InPane, IsBusy
  <2> QED BY <1>5, <1>6, <1>8, <2>1 DEF CtlOK, InPane
<1>10. Distinct'
  BY <1>1, <1>3 DEF Distinct, IsBusy
<1>11. LaunchOK'
  BY <1>1, <1>2, <1>3, <1>4, <1>6 DEF LaunchOK, InFlight
<1>12. \A u : Launching(u)' <=> Launching(u)
  BY <1>2, <1>3, <1>6 DEF Launching, InFlight
<1>13. \A s : InPane(s) => InPane(s)'
  BY <1>3 DEF InPane, IsBusy
<1>14. \A s \in workers' : WorkerOK(s)'
  BY <1>1, <1>3, <1>12, <1>13, WorkerFrame DEF Watched
<1>15. \A p \in Panes : PaneOK(p)'
  BY <1>1, <1>3, <1>12, PaneFrame DEF Watched
<1> QED BY <1>7, <1>9, <1>10, <1>11, <1>14, <1>15 DEF IInv, Watched

LEMMA WriteRecordInv ==
  ASSUME IInv, WriteRecord
  PROVE  IInv'
<1>1. TypeInv /\ CtlOK /\ Distinct /\ LaunchOK /\ Watched
  BY DEF IInv
<1>2. PICK r, t, seen, merged :
        r = ctl.run /\ t = ctl.run.task /\ seen = ctl.seen /\ merged = ctl.merged
  OBVIOUS
<1>3. /\ ctl.pc = "read" /\ ctl' = Idle
      /\ record' = [record EXCEPT ![t] = merged] /\ old' = old \ {t}
      /\ status' = [status EXCEPT ![t] = "running"]
      /\ loose' = IF record[t] # seen THEN loose \cup {t} ELSE loose
      /\ UNCHANGED <<attempt, result>> /\ UNCHANGED <<workers, pane>>
  BY <1>2 DEF WriteRecord, At, Write
<1>4. /\ InFlight /\ r \in Run /\ t \in Tasks /\ t = r.task /\ merged \in Records
      /\ Keeps(seen, merged) /\ (seen = Torn /\ InPane(r) => Awaits(merged)) /\ Launching(t)
  BY <1>1, <1>2, <1>3, CtlType, RunType DEF CtlOK, Last, Launching
<1>5. TypeInv'
  <2>1. status' \in [Tasks -> Status]
    BY <1>1, <1>3, <1>4, StatusType, StatusValues
  <2> QED BY <1>1, <1>3, <1>4, <2>1 DEF TypeInv
<1>6. record'[t] = merged /\ \A u \in Tasks : u # t => record'[u] = record[u]
  BY <1>1, <1>3, <1>4 DEF TypeInv
<1>7. status'[t] = "running" /\ \A u \in Tasks : u # t => status'[u] = status[u]
  BY <1>1, <1>3, <1>4 DEF TypeInv
<1>8. t \notin loose' => record[t] = seen /\ t \notin loose
  BY <1>3
<1>9. CtlOK' /\ LaunchOK' /\ \A u : ~Launching(u)'
  BY <1>3, AtRest DEF CtlOK, LaunchOK, Launching, InFlight
<1>10. Distinct'
  BY <1>1, <1>3 DEF Distinct, IsBusy
<1>11. \A s : InPane(s) => InPane(s)'
  BY <1>3 DEF InPane, IsBusy
<1>12. \A s \in Run : s.task = t /\ t \notin loose' /\ Known(s) => Known(s)'
  BY <1>4, <1>6, <1>8, RunType DEF Known, Keeps
<1>13. ASSUME NEW s \in workers'
       PROVE  WorkerOK(s)'
  <2>1. s \in workers /\ WorkerOK(s) /\ s \in Run /\ s.task \in Tasks
    BY <1>1, <1>3, RunType DEF Watched, TypeInv
  <2>2. CASE s.task = t
    <3>1. t \notin loose' => Attended(s)'
      BY <1>3, <1>7, <1>8, <2>1, <2>2 DEF WorkerOK, Attended, Active
    <3>2. t \notin loose' /\ ~InPane(s)' => Known(s)'
      BY <1>3, <1>8, <1>11, <1>12, <2>1, <2>2 DEF WorkerOK
    <3> QED BY <1>3, <2>1, <2>2, <3>1, <3>2 DEF WorkerOK
  <2>3. CASE s.task # t
    <3>1. /\ record'[s.task] = record[s.task] /\ status'[s.task] = status[s.task]
          /\ (s.task \in loose => s.task \in loose')
      BY <1>3, <1>6, <1>7, <2>1, <2>3
    <3> QED BY <1>2, <1>3, <1>9, <1>11, <2>1, <2>3, <3>1, WorkerFrame
  <2> QED BY <2>2, <2>3
<1>14. ASSUME NEW p \in Panes
       PROVE  PaneOK(p)'
  <2>1. PaneOK(p)
    BY <1>1 DEF Watched
  <2>2. CASE ~IsBusy(p)
    BY <1>3, <2>2 DEF PaneOK, IsBusy
  <2>3. CASE IsBusy(p) /\ pane[p].run.task = t
    <3>1. pane[p].run \in Run
      BY <1>1, <2>3, PaneType
    <3>2. pane[p].run.n = attempt[t] => pane[p].run = r
      BY <1>1, <1>2, <1>4, <2>3, <3>1, SameRun DEF LaunchOK
    <3>3. pane[p].run.n = attempt[t] => InPane(r)
      BY <2>3, <3>2 DEF InPane
    <3>4. t \notin loose' /\ pane[p].run.n = attempt[t] /\ Fresh(t) => Fresh(t)'
      BY <1>3, <1>4, <1>6, <1>8, <3>3 DEF Fresh, Keeps
    <3>5. t \notin loose' /\ Known(pane[p].run) => Known(pane[p].run)'
      BY <1>3, <1>12, <2>3, <3>1 DEF Known
    <3>6. t \notin loose' /\ pane[p].at = "starting" => Attended(pane[p].run)'
      BY <1>3, <1>7, <1>8, <2>1, <2>3 DEF PaneOK, Attended, Active
    <3> QED BY <1>3, <1>8, <2>1, <2>3, <3>4, <3>5, <3>6 DEF PaneOK
  <2>4. CASE IsBusy(p) /\ pane[p].run.task # t
    <3>1. PICK u : u = pane[p].run.task
      OBVIOUS
    <3>2. u \in Tasks /\ u # t /\ (u \in loose => u \in loose') /\ (u \in old' => u \in old)
      BY <1>1, <1>3, <2>4, <3>1, PaneType, RunType
    <3> QED BY <1>3, <1>6, <1>7, <1>9, <2>1, <3>1, <3>2, PaneFrame
  <2> QED BY <2>2, <2>3, <2>4
<1> QED BY <1>5, <1>9, <1>10, <1>13, <1>14 DEF IInv, Watched

-----------------------------------------------------------------------------
(***************************************************************************)
(* The theorems                                                            *)
(***************************************************************************)
LEMMA InitInv == Init => IInv
<1> SUFFICES ASSUME Init PROVE IInv
  OBVIOUS
<1>1. TypeInv
  BY PanesAssumption, RecordTypes, ContentsType, StatusValues DEF Init, TypeInv
<1>2. \A p \in Panes : ~IsBusy(p)
  BY DEF Init, IsBusy, Empty
<1>3. CtlOK /\ LaunchOK
  BY AtRest DEF Init, CtlOK, LaunchOK, InFlight
<1> QED BY <1>1, <1>2, <1>3 DEF IInv, Distinct, Watched, PaneOK, Init

LEMMA NextInv == IInv /\ [Next]_vars => IInv'
<1> SUFFICES ASSUME IInv, [Next]_vars PROVE IInv'
  OBVIOUS
<1>1. CASE Launch
  BY <1>1, StampInv, InjectInv, SpawnInv, RecordSpawnedInv, ReadRecordInv, WriteRecordInv
     DEF Launch
<1>2. CASE SpawnFails
  BY <1>2, SpawnFailsInv
<1>3. ASSUME NEW t \in Tasks, Assign(t) \/ Reconcile(t) \/ Decide(t) \/ GrowsOld(t) \/ Retry(t)
      PROVE  IInv'
  BY <1>3, AssignInv, NoProcessRecordInv, ReadsTornInv, ResultFoundInv, WorkerGoneInv,
     DecideInv, GrowsOldInv, RetryInv DEF Reconcile
<1>4. ASSUME NEW p \in Panes, Step(p) \/ LosePane(p, "dead") \/ LosePane(p, "gone")
      PROVE  IInv'
  BY <1>4, RunnerSpawnsInv, RunnerOpensInv, RunnerRecordsInv, RunnerReopensInv,
     RunnerClosesInv, LosePaneInv DEF Step
<1>5. ASSUME NEW r \in Run, WorkerEnds(r)
      PROVE  IInv'
  BY <1>5, WorkerEndsInv
<1>6. CASE KillController \/ RestartController \/ StopProcesses \/ StopSession
  BY <1>6, KillControllerInv, RestartControllerInv, StopProcessesInv, StopSessionInv
<1>7. CASE UNCHANGED vars
  BY <1>7, CtlStep DEF vars, work, files, IInv, TypeInv
<1> QED BY <1>1, <1>2, <1>3, <1>4, <1>5, <1>6, <1>7 DEF Next

LEMMA Invariance == Spec => []IInv
BY InitInv, NextInv, PTL DEF Spec

\* Every record is one that some writer makes, every worker and every busy
\* pane is of a numbered launch, and no launch runs in two panes: the types.
THEOREM TypeCorrect == Spec => []TypeOK
BY Invariance, Suffices, PTL

\* A live worker is the last attempt of its task, and the task is not asked
\* about, handed over or launched anew while it lives, whatever panes are lost,
\* launches fail and controllers are killed or stopped: reconcile_processes
\* and the writers of a process record keep sight of it.
THEOREM WorkersStayTracked == Spec => []Tracked
BY Invariance, Suffices, PTL
=============================================================================
