-------------------------- MODULE IntegrationProofs --------------------------
(***************************************************************************)
(* What holds of integrate_one for every set of managers and packages and  *)
(* whatever the environment does, and its refinement of MergeGate in an    *)
(* environment that only commits late.                                     *)
(***************************************************************************)
EXTENDS Integration, TLAPS

(***************************************************************************)
(* The inductive invariant: the lock, and what each program counter knows. *)
(***************************************************************************)
LockHeld == \A m \in Managers : mgr[m].pc \in Critical => lock = m

\* A call works on a package, whose branch only gains commits.
CandidateKnown ==
  \A m \in Managers : mgr[m].pc # "idle" =>
    /\ mgr[m].pkg \in Packages
    /\ mgr[m].head \subseteq branch[mgr[m].pkg]

OnIntegration ==
  \A m \in Managers :
    /\ mgr[m].pc \in {"entered", "verified", "merged", "validated"}
         => checkout = "integration"
    /\ mgr[m].pc = "verified" => mgr[m].before = integration

\* The rollback target contains every merge with evidence.
EvidencedBefore ==
  \A m \in Managers : InFlight(m) =>
    \A e \in evidence : e.after \subseteq mgr[m].before

\* What is being merged is not on the branch yet.
NewWork ==
  \A m \in Managers : mgr[m].pc = "verified" \/ InFlight(m) =>
    ~(mgr[m].head \subseteq mgr[m].before)

IInv == /\ TypeOK
        /\ LockHeld
        /\ CandidateKnown
        /\ OnIntegration
        /\ RollBackIsOwnMerge
        /\ EvidencedIsKept
        /\ EvidencedBefore
        /\ NewWork

USE ConstantsAssumption

-----------------------------------------------------------------------------
(***************************************************************************)
(* What the helpers of the actions do.                                     *)
(***************************************************************************)
LEMMA IdleIsCall == Idle \in Call
  BY DEF Idle, Call

LEMMA CommitsTyped ==
  /\ RootCommit \in Commit /\ UserCommit \in Commit
  /\ \A p \in Packages, n \in Nat : PackageCommit(p, n) \in Commit
  /\ merges \in Nat => MergeCommit \in Commit
  BY DEF RootCommit, UserCommit, PackageCommit, MergeCommit, Commit

LEMMA BecomeChanges ==
  ASSUME mgr \in [Managers -> Call], NEW m \in Managers,
         NEW call \in Call, Become(m, call)
  PROVE  /\ mgr' \in [Managers -> Call]
         /\ mgr'[m] = call
         /\ \A k \in Managers : k # m => mgr'[k] = mgr[k]
  BY DEF Become

LEMMA GotoChanges ==
  ASSUME mgr \in [Managers -> Call], NEW m \in Managers,
         NEW pc \in Critical, Goto(m, pc)
  PROVE  /\ mgr' \in [Managers -> Call]
         /\ mgr'[m] = [mgr[m] EXCEPT !.pc = pc]
         /\ \A k \in Managers : k # m => mgr'[k] = mgr[k]
  BY BecomeChanges DEF Goto, Call

LEMMA LeaveChanges ==
  ASSUME mgr \in [Managers -> Call], NEW m \in Managers, Leave(m)
  PROVE  /\ mgr' \in [Managers -> Call]
         /\ mgr'[m] = Idle
         /\ \A k \in Managers : k # m => mgr'[k] = mgr[k]
         /\ lock' = NoOne
  BY BecomeChanges, IdleIsCall DEF Leave

LEMMA RaiseChanges ==
  ASSUME TypeOK, NEW m \in Managers, Raise(m)
  PROVE  /\ Leave(m)
         /\ checkout' \in {"integration", "original", "detached"}
  BY DEF Raise, SwitchOutcomes, TypeOK

(***************************************************************************)
(* A manager that leaves takes nothing with it: every other manager is     *)
(* outside the critical section.                                           *)
(***************************************************************************)
LEMMA LeavePreserves ==
  ASSUME IInv, NEW m \in Managers, Leave(m),
         mgr[m].pc \in Critical,
         UNCHANGED branch,
         integration' \in SUBSET Commit,
         \A e \in evidence' : e.after \subseteq integration'
  PROVE  /\ mgr' \in [Managers -> Call] /\ lock' \in Managers \cup {NoOne}
         /\ LockHeld' /\ CandidateKnown' /\ OnIntegration'
         /\ RollBackIsOwnMerge' /\ EvidencedIsKept' /\ EvidencedBefore'
         /\ NewWork'
  <1>1. /\ mgr' \in [Managers -> Call]
        /\ mgr'[m] = Idle
        /\ \A k \in Managers : k # m => mgr'[k] = mgr[k]
        /\ lock' = NoOne
    BY LeaveChanges DEF IInv, TypeOK
  <1>2. \A k \in Managers : mgr'[k].pc \notin Critical
    BY <1>1 DEF IInv, LockHeld, Idle, Critical
  <1>3. CandidateKnown'
    BY <1>1 DEF IInv, CandidateKnown, Idle
  <1> QED
    BY <1>1, <1>2, <1>3
       DEF LockHeld, OnIntegration, RollBackIsOwnMerge, EvidencedIsKept,
           EvidencedBefore, NewWork, InFlight, Critical

(***************************************************************************)
(* A step of a call that stays inside: only its own record changes.        *)
(***************************************************************************)
LEMMA OutsideStep ==
  ASSUME IInv, NEW m \in Managers, mgr[m].pc \in Critical
  PROVE  /\ lock = m
         /\ \A k \in Managers : k # m => mgr[k].pc \notin Critical
  BY DEF IInv, LockHeld

LEMMA EnvironmentStep ==
  ASSUME IInv,
         \/ \E p \in Packages : EnsureWorktree(p) \/ WorkerCommit(p)
         \/ CleanByHand
         \/ UNCHANGED vars
  PROVE  IInv'
  <1>1. ASSUME NEW p \in Packages, EnsureWorktree(p) PROVE IInv'
    <2>1. CandidateKnown'
      BY <1>1 DEF EnsureWorktree, IInv, TypeOK, CandidateKnown, NoBranch
    <2> QED
      BY <1>1, <2>1 DEF EnsureWorktree, IInv, TypeOK, LockHeld, OnIntegration,
         RollBackIsOwnMerge, EvidencedIsKept, EvidencedBefore, NewWork, InFlight
  <1>2. ASSUME NEW p \in Packages, WorkerCommit(p) PROVE IInv'
    <2>1. PICK n \in 1 .. MaxCommits :
            branch' = [branch EXCEPT ![p] = @ \cup {PackageCommit(p, n)}]
      BY <1>2 DEF WorkerCommit
    <2>2. /\ branch' \in [Packages -> SUBSET Commit]
          /\ \A q \in Packages : branch[q] \subseteq branch'[q]
      BY <2>1, CommitsTyped DEF IInv, TypeOK
    <2>3. CandidateKnown'
      BY <1>2, <2>2 DEF WorkerCommit, IInv, CandidateKnown
    <2> QED
      BY <1>2, <2>2, <2>3 DEF WorkerCommit, IInv, TypeOK, LockHeld,
         OnIntegration, RollBackIsOwnMerge, EvidencedIsKept, EvidencedBefore,
         NewWork, InFlight
  <1>3. CASE CleanByHand
    BY <1>3 DEF CleanByHand, IInv, TypeOK, LockHeld, CandidateKnown,
       OnIntegration, RollBackIsOwnMerge, EvidencedIsKept, EvidencedBefore,
       NewWork, InFlight
  <1>4. CASE UNCHANGED vars
    BY <1>4 DEF vars, repoVars, IInv, TypeOK, LockHeld, CandidateKnown,
       OnIntegration, RollBackIsOwnMerge, EvidencedIsKept, EvidencedBefore,
       NewWork, InFlight
  <1> QED
    BY <1>1, <1>2, <1>3, <1>4

\* Before the lock: a candidate is chosen, and the lock is taken or refused.
LEMMA OutsideCriticalStep ==
  ASSUME IInv, NEW m \in Managers,
         (\E p \in Packages : Schedule(m, p)) \/ AcquireLock(m) \/ LockBusy(m)
  PROVE  IInv'
  <1> USE DEF IInv
  <1>1. ASSUME NEW p \in Packages, Schedule(m, p) PROVE IInv'
    <2> DEFINE call == [Idle EXCEPT !.pc = "scheduled", !.pkg = p,
                                    !.head = branch[p]]
    <2>1. call \in Call
      BY DEF Call, Idle, TypeOK
    <2>2. /\ mgr' \in [Managers -> Call] /\ mgr'[m] = call
          /\ \A k \in Managers : k # m => mgr'[k] = mgr[k]
      BY <1>1, <2>1, BecomeChanges DEF Schedule, TypeOK
    <2>3. mgr'[m].pc = "scheduled" /\ mgr'[m].pkg = p /\ mgr'[m].head = branch[p]
      BY <2>2 DEF Idle
    <2> HIDE DEF call
    <2>4. TypeOK' /\ LockHeld' /\ EvidencedIsKept'
      BY <1>1, <2>2, <2>3 DEF Schedule, repoVars, TypeOK, LockHeld,
         EvidencedIsKept, Critical
    <2>5. CandidateKnown'
      BY <1>1, <2>2, <2>3 DEF Schedule, repoVars, CandidateKnown
    <2>6. OnIntegration' /\ RollBackIsOwnMerge' /\ EvidencedBefore'
      BY <1>1, <2>2, <2>3 DEF Schedule, repoVars, OnIntegration,
         RollBackIsOwnMerge, EvidencedBefore, InFlight
    <2>7. NewWork'
      BY <1>1, <2>2, <2>3 DEF NewWork, InFlight
    <2> QED
      BY <2>4, <2>5, <2>6, <2>7
  <1>2. CASE AcquireLock(m)
    <2>1. /\ mgr' \in [Managers -> Call]
          /\ mgr'[m] = [mgr[m] EXCEPT !.pc = "locked"]
          /\ \A k \in Managers : k # m => mgr'[k] = mgr[k]
      BY <1>2, GotoChanges DEF AcquireLock, TypeOK, Critical
    <2>2. /\ mgr'[m].pc = "locked"
          /\ mgr'[m].pkg = mgr[m].pkg /\ mgr'[m].head = mgr[m].head
          /\ mgr[m].pc = "scheduled"
      BY <1>2, <2>1 DEF TypeOK, Call, AcquireLock, At
    <2>3. \A k \in Managers : mgr[k].pc \notin Critical
      BY <1>2 DEF AcquireLock, LockHeld
    <2>4. TypeOK' /\ LockHeld' /\ CandidateKnown' /\ EvidencedIsKept'
      BY <1>2, <2>1, <2>2, <2>3 DEF AcquireLock, repoVars, TypeOK, LockHeld,
         CandidateKnown, EvidencedIsKept, Critical
    <2>5. OnIntegration' /\ RollBackIsOwnMerge' /\ EvidencedBefore'
      BY <1>2, <2>1, <2>2, <2>3 DEF AcquireLock, repoVars, OnIntegration,
         RollBackIsOwnMerge, EvidencedBefore, InFlight, Critical
    <2>6. NewWork'
      BY <2>1, <2>2 DEF NewWork, InFlight
    <2> QED
      BY <2>4, <2>5, <2>6
  <1>3. CASE LockBusy(m)
    <2>1. /\ mgr' \in [Managers -> Call] /\ mgr'[m] = Idle
          /\ \A k \in Managers : k # m => mgr'[k] = mgr[k]
      BY <1>3, BecomeChanges, IdleIsCall DEF LockBusy, TypeOK
    <2> QED
      BY <1>3, <2>1 DEF LockBusy, repoVars, TypeOK, LockHeld, CandidateKnown,
         OnIntegration, RollBackIsOwnMerge, EvidencedIsKept, EvidencedBefore,
         NewWork, InFlight, Critical, Idle
  <1> QED
    BY <1>1, <1>2, <1>3

\* The steps that end a call: an error, a plan, a rollback, the evidence, or
\* a kill.
LEMMA LeavingStep ==
  ASSUME IInv, NEW m \in Managers,
         \/ RefuseDirty(m) \/ Unmergeable(m) \/ PlannedOrAborted(m)
         \/ RollBack(m) \/ SwitchBackFails(m) \/ RecordEvidence(m) \/ Crash(m)
  PROVE  IInv'
  <1>0. TypeOK /\ EvidencedIsKept /\ mgr[m] \in Call
    BY DEF IInv, TypeOK
  <1>1. CASE RefuseDirty(m)
    BY <1>0, <1>1, LeavePreserves
       DEF RefuseDirty, At, Critical, repoVars, IInv, TypeOK, EvidencedIsKept
  <1>2. CASE Unmergeable(m)
    BY <1>0, <1>2, LeavePreserves, RaiseChanges
       DEF Unmergeable, At, Critical, IInv, TypeOK, EvidencedIsKept
  <1>3. CASE PlannedOrAborted(m)
    BY <1>0, <1>3, LeavePreserves, RaiseChanges
       DEF PlannedOrAborted, At, Critical, IInv, TypeOK, EvidencedIsKept
  <1>4. CASE RollBack(m)
    <2>1. /\ integration' \in SUBSET Commit
          /\ \A e \in evidence' : e.after \subseteq integration'
      BY <1>0, <1>4
         DEF RollBack, At, Call, IInv, TypeOK, EvidencedBefore, EvidencedIsKept,
             InFlight
    <2> QED
      BY <1>0, <1>4, <2>1, LeavePreserves, RaiseChanges
         DEF RollBack, At, Critical, IInv, TypeOK
  <1>5. CASE SwitchBackFails(m)
    <2>1. Leave(m) /\ checkout' \in {"integration", "original", "detached"}
          /\ treeClean' \in BOOLEAN
      BY <1>0, <1>5, RaiseChanges DEF SwitchBackFails, TypeOK
    <2> QED
      BY <1>0, <1>5, <2>1, LeavePreserves
         DEF SwitchBackFails, At, Critical, IInv, TypeOK, EvidencedIsKept
  <1>6. CASE RecordEvidence(m)
    <2> DEFINE new == [pkg |-> mgr[m].pkg, head |-> mgr[m].head,
                       after |-> mgr[m].after]
    <2>1. new \in Evidence
      BY <1>0, <1>6 DEF RecordEvidence, At, Call, Evidence, IInv, CandidateKnown
    <2>2. new.after = integration
      BY <1>6 DEF RecordEvidence, At, IInv, RollBackIsOwnMerge, InFlight
    <2>3. \A e \in evidence' : e.after \subseteq integration'
      BY <1>0, <1>6, <2>2 DEF RecordEvidence, repoVars, EvidencedIsKept
    <2> QED
      BY <1>0, <1>6, <2>1, <2>3, LeavePreserves
         DEF RecordEvidence, At, Critical, repoVars, IInv, TypeOK
  <1>7. CASE Crash(m)
    <2>1. treeClean' \in BOOLEAN
      BY <1>0, <1>7 DEF Crash, TypeOK
    <2> QED
      BY <1>0, <1>7, <2>1, LeavePreserves
         DEF Crash, IInv, TypeOK, EvidencedIsKept
  <1> QED
    BY <1>1, <1>2, <1>3, <1>4, <1>5, <1>6, <1>7

\* The steps under the lock that go on.
LEMMA CriticalStep ==
  ASSUME IInv, NEW m \in Managers,
         \/ Enter(m) \/ Verify(m) \/ Merge(m) \/ ValidationPassed(m)
         \/ NoSwitchBack(m) \/ SwitchBack(m)
  PROVE  IInv'
  <1>0. TypeOK /\ mgr[m] \in Call
    BY DEF IInv, TypeOK
  <1>1. CASE Enter(m)
    <2>1. CASE Leave(m) /\ UNCHANGED checkout
      BY <1>0, <1>1, <2>1, LeavePreserves
         DEF Enter, At, Critical, IInv, TypeOK, EvidencedIsKept
    <2>2. CASE /\ checkout' = "integration" /\ UNCHANGED lock
               /\ Become(m, [mgr[m] EXCEPT !.pc = "entered", !.orig = checkout])
      <3> DEFINE call == [mgr[m] EXCEPT !.pc = "entered", !.orig = checkout]
      <3>1. call \in Call
        BY <1>0 DEF Call, Critical, TypeOK
      <3>2. /\ mgr' \in [Managers -> Call] /\ mgr'[m] = call
            /\ \A k \in Managers : k # m => mgr'[k] = mgr[k]
        BY <1>0, <2>2, <3>1, BecomeChanges DEF TypeOK
      <3>3. /\ mgr'[m].pc = "entered" /\ mgr'[m].pkg = mgr[m].pkg
            /\ mgr'[m].head = mgr[m].head
        BY <1>0, <3>2 DEF Call
      <3> HIDE DEF call
      <3>4. mgr[m].pc = "locked"
        BY <1>1 DEF Enter, At
      <3>5. lock = m /\ \A k \in Managers : k # m => mgr[k].pc \notin Critical
        BY <3>4, OutsideStep DEF Critical
      <3>6. TypeOK' /\ LockHeld' /\ EvidencedIsKept' /\ CandidateKnown'
        BY <1>1, <2>2, <3>2, <3>3, <3>4, <3>5 DEF Enter, IInv, TypeOK, LockHeld,
           EvidencedIsKept, CandidateKnown
      <3> QED
        BY <1>1, <2>2, <3>2, <3>3, <3>5, <3>6 DEF IInv, OnIntegration,
           RollBackIsOwnMerge, EvidencedBefore, NewWork, InFlight, Critical
    <2> QED
      BY <1>1, <2>1, <2>2 DEF Enter
  <1>2. CASE Verify(m)
    <2> DEFINE call == [mgr[m] EXCEPT !.pc = "verified", !.before = integration]
    <2>1. call \in Call
      BY <1>0 DEF Call, Critical, TypeOK
    <2>2. /\ mgr' \in [Managers -> Call] /\ mgr'[m] = call
          /\ \A k \in Managers : k # m => mgr'[k] = mgr[k]
      BY <1>0, <1>2, <2>1, BecomeChanges DEF Verify, TypeOK
    <2>3. /\ mgr'[m].pc = "verified" /\ mgr'[m].pkg = mgr[m].pkg
          /\ mgr'[m].head = mgr[m].head /\ mgr'[m].before = integration
      BY <1>0, <2>2 DEF Call
    <2> HIDE DEF call
    <2>4. mgr[m].pc = "entered"
      BY <1>2 DEF Verify, At
    <2>5. lock = m /\ \A k \in Managers : k # m => mgr[k].pc \notin Critical
      BY <2>4, OutsideStep DEF Critical
    <2>6. TypeOK' /\ LockHeld' /\ EvidencedIsKept' /\ CandidateKnown'
      BY <1>2, <2>2, <2>3, <2>4, <2>5 DEF Verify, repoVars, IInv, TypeOK,
         LockHeld, EvidencedIsKept, CandidateKnown
    <2>7. OnIntegration' /\ RollBackIsOwnMerge' /\ EvidencedBefore'
      BY <1>2, <2>2, <2>3, <2>4, <2>5 DEF Verify, repoVars, IInv,
         OnIntegration, RollBackIsOwnMerge, EvidencedBefore, InFlight, Critical
    <2>8. ~(mgr'[m].head \subseteq mgr'[m].before)
      BY <1>2, <2>3 DEF Verify, Mergeable
    <2>9. NewWork'
      BY <2>2, <2>8 DEF IInv, NewWork, InFlight
    <2> QED
      BY <2>6, <2>7, <2>9 DEF IInv
  <1>3. CASE Merge(m)
    <2> DEFINE merged == integration \cup branch[mgr[m].pkg] \cup {MergeCommit}
               call == [mgr[m] EXCEPT !.pc = "merged", !.after = merged]
    <2>1. merged \in SUBSET Commit
      <3>1. branch[mgr[m].pkg] \in SUBSET Commit
        BY <1>0, <1>3 DEF Merge, At, IInv, CandidateKnown, TypeOK
      <3> QED
        BY <1>0, <3>1, CommitsTyped DEF TypeOK
    <2>2. mgr[m].pc = "verified" /\ mgr[m].before = integration
          /\ mgr[m].head \subseteq branch[mgr[m].pkg]
      BY <1>3 DEF Merge, At, IInv, OnIntegration, CandidateKnown
    <2>3. /\ integration' = merged /\ Become(m, call)
          /\ UNCHANGED <<lock, checkout, treeClean, original, branch, evidence,
                         crashes>>
          /\ merges' = merges + 1
      BY <1>3 DEF Merge
    <2>4. mgr[m].before \cup mgr[m].head \subseteq merged
          /\ integration \subseteq merged
      BY <2>2
    <2> HIDE DEF merged
    <2>5. call \in Call
      BY <1>0, <2>1 DEF Call, Critical
    <2>6. /\ mgr' \in [Managers -> Call] /\ mgr'[m] = call
          /\ \A k \in Managers : k # m => mgr'[k] = mgr[k]
      BY <1>0, <2>3, <2>5, BecomeChanges DEF TypeOK
    <2>7. /\ mgr'[m].pc = "merged" /\ mgr'[m].pkg = mgr[m].pkg
          /\ mgr'[m].head = mgr[m].head /\ mgr'[m].before = mgr[m].before
          /\ mgr'[m].after = merged
      BY <1>0, <2>6 DEF Call
    <2> HIDE DEF call
    <2>8. lock = m /\ \A k \in Managers : k # m => mgr[k].pc \notin Critical
      BY <2>2, OutsideStep DEF Critical
    <2>9. TypeOK' /\ LockHeld' /\ CandidateKnown'
      BY <1>0, <2>1, <2>2, <2>3, <2>6, <2>7, <2>8
         DEF IInv, TypeOK, LockHeld, CandidateKnown
    <2>10. EvidencedIsKept' /\ EvidencedBefore' /\ OnIntegration' /\ NewWork'
      BY <2>2, <2>3, <2>4, <2>6, <2>7, <2>8 DEF IInv, EvidencedIsKept,
         EvidencedBefore, OnIntegration, NewWork, InFlight, Critical
    <2>11. RollBackIsOwnMerge'
      BY <2>2, <2>3, <2>4, <2>6, <2>7, <2>8 DEF IInv, OnIntegration,
         RollBackIsOwnMerge, InFlight, Critical
    <2> QED
      BY <2>9, <2>10, <2>11 DEF IInv
  <1>4. CASE ValidationPassed(m) \/ NoSwitchBack(m)
    <2>1. PICK pc \in {"validated", "returned"} :
            /\ Goto(m, pc)
            /\ mgr[m].pc \in {"merged", "validated"}
            /\ mgr[m].pc = "merged" => pc = "validated"
      BY <1>4 DEF ValidationPassed, NoSwitchBack, At
    <2>2. UNCHANGED <<lock, repoVars, evidence, merges, crashes>>
      BY <1>4 DEF ValidationPassed, NoSwitchBack
    <2>3. /\ mgr' \in [Managers -> Call]
          /\ mgr'[m] = [mgr[m] EXCEPT !.pc = pc]
          /\ \A k \in Managers : k # m => mgr'[k] = mgr[k]
      BY <1>0, <2>1, GotoChanges DEF TypeOK, Critical
    <2>4. /\ mgr'[m].pc = pc /\ mgr'[m].pkg = mgr[m].pkg
          /\ mgr'[m].head = mgr[m].head /\ mgr'[m].before = mgr[m].before
          /\ mgr'[m].after = mgr[m].after /\ mgr'[m].orig = mgr[m].orig
      BY <1>0, <2>3 DEF Call
    <2>5. lock = m /\ \A k \in Managers : k # m => mgr[k].pc \notin Critical
      BY <2>1, OutsideStep DEF Critical
    <2>6. TypeOK' /\ LockHeld' /\ CandidateKnown' /\ EvidencedIsKept'
      BY <1>0, <2>1, <2>2, <2>3, <2>4, <2>5 DEF repoVars, IInv, TypeOK,
         LockHeld, CandidateKnown, EvidencedIsKept
    <2>7. OnIntegration' /\ RollBackIsOwnMerge' /\ EvidencedBefore'
      BY <2>1, <2>2, <2>3, <2>4, <2>5 DEF repoVars, IInv, OnIntegration,
         RollBackIsOwnMerge, EvidencedBefore, InFlight, Critical
    <2>8. NewWork'
      BY <2>1, <2>3, <2>4 DEF IInv, NewWork, InFlight
    <2> QED
      BY <2>6, <2>7, <2>8 DEF IInv
  <1>5. CASE SwitchBack(m)
    <2>1. /\ mgr[m].pc = "validated" /\ mgr[m].orig = "original"
          /\ Goto(m, "returned")
          /\ checkout' = "original"
          /\ UNCHANGED <<lock, treeClean, integration, branch, evidence, crashes>>
      BY <1>5 DEF SwitchBack, At
    <2>2. original' \in SUBSET Commit /\ merges' \in Nat
      BY <1>0, <1>5, CommitsTyped DEF SwitchBack, TypeOK
    <2>3. /\ mgr' \in [Managers -> Call]
          /\ mgr'[m] = [mgr[m] EXCEPT !.pc = "returned"]
          /\ \A k \in Managers : k # m => mgr'[k] = mgr[k]
      BY <1>0, <2>1, GotoChanges DEF TypeOK, Critical
    <2>4. /\ mgr'[m].pc = "returned" /\ mgr'[m].pkg = mgr[m].pkg
          /\ mgr'[m].head = mgr[m].head /\ mgr'[m].before = mgr[m].before
          /\ mgr'[m].after = mgr[m].after /\ mgr'[m].orig = mgr[m].orig
      BY <1>0, <2>3 DEF Call
    <2>5. lock = m /\ \A k \in Managers : k # m => mgr[k].pc \notin Critical
      BY <2>1, OutsideStep DEF Critical
    <2>6. TypeOK' /\ LockHeld' /\ CandidateKnown' /\ EvidencedIsKept'
      BY <1>0, <2>1, <2>2, <2>3, <2>4, <2>5 DEF IInv, TypeOK, LockHeld,
         CandidateKnown, EvidencedIsKept
    <2>7. OnIntegration' /\ RollBackIsOwnMerge' /\ EvidencedBefore'
      BY <2>1, <2>3, <2>4, <2>5 DEF IInv, OnIntegration,
         RollBackIsOwnMerge, EvidencedBefore, InFlight, Critical
    <2>8. NewWork'
      BY <2>1, <2>3, <2>4 DEF IInv, NewWork, InFlight
    <2> QED
      BY <2>6, <2>7, <2>8 DEF IInv
  <1> QED
    BY <1>1, <1>2, <1>3, <1>4, <1>5

-----------------------------------------------------------------------------
(***************************************************************************)
(* The theorems.                                                           *)
(***************************************************************************)
LEMMA InitIInv == Init => IInv
  BY CommitsTyped, IdleIsCall
     DEF Init, IInv, TypeOK, LockHeld, CandidateKnown, OnIntegration,
         RollBackIsOwnMerge, EvidencedIsKept, EvidencedBefore, NewWork,
       InFlight,
         Critical, Idle, NoBranch

LEMMA StepIInv == IInv /\ [Next]_vars => IInv'
  BY EnvironmentStep, OutsideCriticalStep, LeavingStep, CriticalStep
     DEF Next, IntegrateStep

LEMMA Invariance == Spec => []IInv
  BY InitIInv, StepIInv, PTL DEF Spec

\* Every reachable state is well typed.
THEOREM TypeCorrect == Spec => []TypeOK
  BY Invariance, PTL DEF IInv

\* A rollback resets the integration branch to what it was before the
\* manager's own merge, whatever other managers, workers and kills did.
THEOREM RollBackOwn == Spec => []RollBackIsOwnMerge
  BY Invariance, PTL DEF IInv

\* A merge whose evidence is on disk stays on the integration branch.
THEOREM EvidenceKept == Spec => []EvidencedIsKept
  BY Invariance, PTL DEF IInv

-----------------------------------------------------------------------------
(***************************************************************************)
(* The way back: past the head of the lock the tree is clean, so whoever   *)
(* leaves can switch, and who returns has switched.                        *)
(***************************************************************************)
CleanInside ==
  \A m \in Managers : mgr[m].pc \in Critical \ {"locked"} => treeClean

ReturnedIsBack ==
  \A m \in Managers :
    mgr[m].pc = "returned" /\ mgr[m].orig = "original" => checkout = "original"

WayBack == CleanInside /\ ReturnedIsBack

\* The steps that end a call leave nobody inside.
LEMMA LeavingIsBack ==
  ASSUME IInv, NEW m \in Managers, Leave(m), mgr[m].pc \in Critical
  PROVE  /\ WayBack'
         /\ \A k \in Managers : k # m => mgr'[k] = mgr[k]
  <1>1. /\ mgr'[m] = Idle
        /\ \A k \in Managers : k # m => mgr'[k] = mgr[k]
    BY LeaveChanges DEF IInv, TypeOK
  <1>2. \A k \in Managers : mgr'[k].pc \notin Critical
    BY <1>1, OutsideStep DEF Idle, Critical
  <1> QED
    BY <1>1, <1>2 DEF WayBack, CleanInside, ReturnedIsBack, Critical

\* A step of one call inside, the tree being clean, concerns that call only.
LEMMA InsideIsBack ==
  ASSUME IInv, NEW m \in Managers, NEW call \in Call, Become(m, call),
         mgr[m].pc \in Critical, treeClean',
         call.pc = "returned" /\ call.orig = "original" => checkout' = "original"
  PROVE  WayBack'
  <1>1. /\ mgr'[m] = call
        /\ \A k \in Managers : k # m => mgr'[k] = mgr[k]
    BY BecomeChanges DEF IInv, TypeOK
  <1>2. \A k \in Managers : k # m => mgr'[k].pc \notin Critical
    BY <1>1, OutsideStep
  <1> QED
    BY <1>1, <1>2 DEF WayBack, CleanInside, ReturnedIsBack, Critical

LEMMA WayBackKept ==
  ASSUME IInv, WayBack, [Next]_vars
  PROVE  WayBack'
  <1>0. TypeOK
    BY DEF IInv
  <1>1. CASE \/ \E p \in Packages : EnsureWorktree(p) \/ WorkerCommit(p)
             \/ CleanByHand \/ UNCHANGED vars
    <2>1. mgr' = mgr /\ checkout' = checkout /\ (treeClean' = treeClean \/ treeClean')
      BY <1>1 DEF EnsureWorktree, WorkerCommit, CleanByHand, vars, repoVars
    <2> QED
      BY <2>1 DEF WayBack, CleanInside, ReturnedIsBack
  <1>2. ASSUME NEW m \in Managers,
               \/ \E p \in Packages : Schedule(m, p)
               \/ AcquireLock(m) \/ LockBusy(m)
        PROVE  WayBack'
    <2>1. checkout' = checkout /\ treeClean' = treeClean
      BY <1>2 DEF Schedule, AcquireLock, LockBusy, repoVars
    <2>2. mgr[m] \in Call
      BY <1>0 DEF TypeOK
    <2>3. /\ mgr'[m].pc \in {"idle", "scheduled", "locked"}
          /\ \A k \in Managers : k # m => mgr'[k] = mgr[k]
      <3>1. CASE \E p \in Packages : Schedule(m, p)
        BY <1>0, <3>1 DEF Schedule, Become, Idle, TypeOK
      <3>2. CASE AcquireLock(m)
        BY <1>0, <2>2, <3>2 DEF AcquireLock, Goto, Become, TypeOK, Call
      <3>3. CASE LockBusy(m)
        BY <1>0, <3>3 DEF LockBusy, Become, Idle, TypeOK
      <3> QED
        BY <1>2, <3>1, <3>2, <3>3
    <2> QED
      BY <2>1, <2>3 DEF WayBack, CleanInside, ReturnedIsBack, Critical
  <1>3. ASSUME NEW m \in Managers,
               \/ RefuseDirty(m) \/ Unmergeable(m) \/ PlannedOrAborted(m)
               \/ RollBack(m) \/ SwitchBackFails(m) \/ RecordEvidence(m)
               \/ Crash(m)
        PROVE  WayBack'
    <2>1. mgr[m].pc \in Critical /\ Leave(m)
      BY <1>3 DEF RefuseDirty, Unmergeable, PlannedOrAborted, RollBack,
         SwitchBackFails, RecordEvidence, Crash, Raise, At, Critical
    <2> QED
      BY <2>1, LeavingIsBack
  <1>4. ASSUME NEW m \in Managers,
               \/ Enter(m) \/ Verify(m) \/ Merge(m) \/ ValidationPassed(m)
               \/ NoSwitchBack(m) \/ SwitchBack(m)
        PROVE  WayBack'
    <2>1. mgr[m].pc \in Critical /\ mgr[m] \in Call
      BY <1>0, <1>4 DEF Enter, Verify, Merge, ValidationPassed, NoSwitchBack,
         SwitchBack, At, Critical, TypeOK
    <2>2. treeClean'
      BY <1>4 DEF Enter, Verify, Merge, ValidationPassed, NoSwitchBack,
         SwitchBack, At, Critical, repoVars, WayBack, CleanInside
    <2>3. CASE Leave(m)
      BY <2>1, <2>3, LeavingIsBack
    <2>4. ASSUME NEW call, Become(m, call), call.pc # "returned", call.pc \in Critical
          PROVE  WayBack'
      <3>1. /\ mgr'[m] = call
            /\ \A k \in Managers : k # m => mgr'[k] = mgr[k]
        BY <1>0, <2>4 DEF Become, TypeOK
      <3>2. \A k \in Managers : k # m => mgr'[k].pc \notin Critical
        BY <2>1, <3>1, OutsideStep
      <3> QED
        BY <2>2, <2>4, <3>1, <3>2 DEF WayBack, CleanInside, ReturnedIsBack, Critical
    <2>5. CASE Enter(m)
      BY <1>0, <2>1, <2>3, <2>4, <2>5 DEF Enter, Critical, Call
    <2>6. CASE Verify(m)
      BY <2>1, <2>4, <2>6 DEF Verify, Critical, Call
    <2>7. CASE Merge(m)
      BY <2>1, <2>4, <2>7 DEF Merge, Critical, Call
    <2>8. CASE ValidationPassed(m)
      BY <2>1, <2>4, <2>8 DEF ValidationPassed, Goto, Critical, Call
    <2>9. CASE NoSwitchBack(m) \/ SwitchBack(m)
      <3> DEFINE call == [mgr[m] EXCEPT !.pc = "returned"]
      <3>1. Become(m, call) /\ call \in Call /\ call.orig = mgr[m].orig
        BY <2>1, <2>9 DEF NoSwitchBack, SwitchBack, Goto, Call, Critical
      <3>2. call.orig = "original" => checkout' = "original"
        BY <2>9, <3>1 DEF NoSwitchBack, SwitchBack
      <3> QED
        BY <2>1, <2>2, <3>1, <3>2, InsideIsBack
    <2> QED
      BY <1>4, <2>5, <2>6, <2>7, <2>8, <2>9
  <1> QED
    BY <1>1, <1>2, <1>3, <1>4 DEF Next, IntegrateStep

LEMMA WayBackInvariance == Spec => []WayBack
  <1>1. Init => WayBack
    BY DEF Init, WayBack, CleanInside, ReturnedIsBack, Idle, Critical
  <1> QED
    BY <1>1, WayBackKept, Invariance, PTL DEF Spec

\* A call that ends after it has moved the checkout.
EndsInside(m) ==
  /\ mgr[m].pc \in Critical \ {"locked"}
  /\ mgr[m].orig = "original"
  /\ mgr'[m].pc = "idle"
  /\ crashes' = crashes

LEMMA EndsOnOriginal ==
  ASSUME IInv, WayBack, "collision" \notin Faults, [Next]_vars,
         NEW m \in Managers, EndsInside(m)
  PROVE  checkout' = "original" \/ ~treeClean'
  <1>0. TypeOK /\ mgr[m] \in Call /\ treeClean /\ mgr'[m] # mgr[m]
    BY DEF IInv, TypeOK, WayBack, CleanInside, EndsInside, Critical
  <1>1. ASSUME NEW k \in Managers, k # m, mgr' = [mgr EXCEPT ![k] = mgr'[k]]
        PROVE  FALSE
    BY <1>0, <1>1 DEF TypeOK
  <1>2. CASE \/ \E p \in Packages : EnsureWorktree(p) \/ WorkerCommit(p)
             \/ CleanByHand \/ UNCHANGED vars
    BY <1>0, <1>2 DEF EnsureWorktree, WorkerCommit, CleanByHand, vars
  <1>3. ASSUME NEW k \in Managers,
               \/ \E p \in Packages : Schedule(k, p)
               \/ IntegrateStep(k) \/ Crash(k)
        PROVE  checkout' = "original" \/ ~treeClean'
    <2>1. \E call : mgr' = [mgr EXCEPT ![k] = call]
      BY <1>3 DEF Schedule, IntegrateStep, AcquireLock, LockBusy, RefuseDirty,
         Enter, Verify, Unmergeable, PlannedOrAborted, Merge, ValidationPassed,
         RollBack, NoSwitchBack, SwitchBack, SwitchBackFails, RecordEvidence,
         Crash, Raise, Leave, Goto, Become
    <2>2. k = m
      BY <1>0, <1>1, <2>1 DEF TypeOK
    <2>3. CASE \/ \E p \in Packages : Schedule(m, p)
               \/ AcquireLock(m) \/ LockBusy(m) \/ RefuseDirty(m) \/ Enter(m)
      BY <2>3 DEF EndsInside, Schedule, AcquireLock, LockBusy, RefuseDirty,
         Enter, At, Critical
    <2>4. CASE Crash(m)
      BY <1>0, <2>4 DEF EndsInside, Crash, TypeOK
    <2>5. CASE \/ Verify(m) \/ Merge(m) \/ ValidationPassed(m)
               \/ NoSwitchBack(m) \/ SwitchBack(m)
      <3>1. mgr'[m].pc \in Critical
        <4>1. CASE Verify(m)
          BY <1>0, <4>1 DEF Verify, Become, TypeOK, Call, Critical
        <4>2. CASE Merge(m)
          BY <1>0, <4>2 DEF Merge, Become, TypeOK, Call, Critical
        <4>3. CASE ValidationPassed(m)
          BY <1>0, <4>3 DEF ValidationPassed, Goto, Become, TypeOK, Call, Critical
        <4>4. CASE NoSwitchBack(m) \/ SwitchBack(m)
          <5>1. Goto(m, "returned")
            BY <4>4 DEF NoSwitchBack, SwitchBack
          <5> QED
            BY <1>0, <5>1 DEF Goto, Become, TypeOK, Call, Critical
        <4> QED
          BY <2>5, <4>1, <4>2, <4>3, <4>4
      <3> QED
        BY <3>1 DEF EndsInside, Critical
    <2>6. CASE Raise(m)
      BY <2>6 DEF EndsInside, Raise, SwitchOutcomes
    <2>7. CASE \/ Unmergeable(m) \/ PlannedOrAborted(m) \/ RollBack(m)
      BY <2>6, <2>7 DEF Unmergeable, PlannedOrAborted, RollBack
    <2>8. CASE SwitchBackFails(m)
      BY <2>8 DEF SwitchBackFails
    <2>9. CASE RecordEvidence(m)
      BY <2>9 DEF EndsInside, RecordEvidence, At, repoVars, WayBack,
         ReturnedIsBack
    <2> QED
      BY <1>3, <2>2, <2>3, <2>4, <2>5, <2>7, <2>8, <2>9 DEF IntegrateStep
  <1> QED
    BY <1>2, <1>3 DEF Next

\* Where no untracked file makes `git switch` fail, a call that took the main
\* checkout away from the user's branch gives it back, however it ends short
\* of being killed: with evidence, a plan, an error, a rollback that fails, or
\* a conflict with the user's commits.  The only other way out leaves tracked
\* changes behind, which no reset or abort has removed.
THEOREM HeadComesBack ==
  ASSUME "collision" \notin Faults
  PROVE  Spec => HeadRestored
  <1>1. IInv /\ WayBack /\ [Next]_vars
          => [\A m \in Managers :
                EndsInside(m) => checkout' = "original" \/ ~treeClean']_vars
    BY EndsOnOriginal
  <1>2. (\A m \in Managers :
           EndsInside(m) => checkout' = "original" \/ ~treeClean')
          => \A m \in Managers :
               /\ mgr[m].pc \in Critical \ {"locked"}
               /\ mgr[m].orig = "original"
               /\ mgr'[m].pc = "idle"
               /\ crashes' = crashes
               => checkout' = "original" \/ ~treeClean'
    BY DEF EndsInside
  <1> QED
    BY <1>1, <1>2, Invariance, WayBackInvariance, PTL DEF Spec, HeadRestored

-----------------------------------------------------------------------------
(***************************************************************************)
(* Refinement of MergeGate: with nobody killed and the way back to the     *)
(* user's branch open, the visible branch moves only with evidence.        *)
(***************************************************************************)
LEMMA VisibleInFlight ==
  ASSUME IInv, NEW m \in Managers, InFlight(m)
  PROVE  visible = mgr[m].before
  <1>1. \A k \in Managers : InFlight(k) => k = m
    BY DEF IInv, RollBackIsOwnMerge
  <1>2. (CHOOSE k \in Managers : InFlight(k)) = m
    BY <1>1
  <1> QED
    BY <1>2 DEF visible

LEMMA VisibleOtherwise ==
  ASSUME \A m \in Managers : ~InFlight(m)
  PROVE  visible = integration
  BY DEF visible

\* A manager under the lock and not in flight: nobody is.
LEMMA NobodyInFlight ==
  ASSUME IInv, NEW m \in Managers, mgr[m].pc \in Critical, ~InFlight(m)
  PROVE  \A k \in Managers : ~InFlight(k)
  BY OutsideStep DEF InFlight, Critical

LEMMA VisibleInFlightNext ==
  ASSUME IInv', NEW m \in Managers, InFlight(m)'
  PROVE  visible' = mgr'[m].before
  <1>1. \A k \in Managers : InFlight(k)' => k = m
    BY DEF IInv, RollBackIsOwnMerge
  <1>2. (CHOOSE k \in Managers : InFlight(k)') = m
    BY <1>1
  <1> QED
    BY <1>2 DEF visible

\* A step that changes neither the branch nor what any call in flight saved
\* leaves the visible branch alone.
LEMMA VisibleStutters ==
  ASSUME IInv, IInv', integration' = integration,
         \A k \in Managers : /\ InFlight(k)' <=> InFlight(k)
                             /\ InFlight(k) => mgr'[k].before = mgr[k].before
  PROVE  visible' = visible
  <1>1. CASE \E m \in Managers : InFlight(m)
    <2>1. PICK m \in Managers : InFlight(m)
      BY <1>1
    <2>2. visible = mgr[m].before
      BY <2>1, VisibleInFlight
    <2>3. InFlight(m)'
      BY <2>1
    <2>4. visible' = mgr'[m].before
      BY <2>3, VisibleInFlightNext
    <2> QED
      BY <2>1, <2>2, <2>4
  <1>2. CASE \A m \in Managers : ~InFlight(m)
    BY <1>2 DEF visible
  <1> QED
    BY <1>1, <1>2

LEMMA WayBackOpen ==
  ASSUME Faults \subseteq {"late_commit", "abort"}, NEW m \in Managers
  PROVE  ~SwitchBackFails(m) /\ ~Crash(m)
  BY DEF SwitchBackFails, Crash

\* Every step of the detailed system is one Accept or leaves the gate alone.
LEMMA GateStep ==
  ASSUME Faults \subseteq {"late_commit", "abort"}, IInv, IInv', [Next]_vars
  PROVE  [Gate!Accept]_(Gate!gateVars)
  <1> USE DEF Gate!gateVars
  <1>1. ASSUME NEW m \in Managers, RecordEvidence(m) PROVE Gate!Accept
    <2> DEFINE new == [pkg |-> mgr[m].pkg, head |-> mgr[m].head,
                       after |-> mgr[m].after]
    <2>1. InFlight(m) /\ mgr[m].pc \in Critical
      BY <1>1 DEF RecordEvidence, At, InFlight, Critical
    <2>2. visible = mgr[m].before
      BY <2>1, VisibleInFlight
    <2>3. \A k \in Managers : mgr'[k].pc \notin Critical
      <3>1. /\ mgr'[m] = Idle
            /\ \A k \in Managers : k # m => mgr'[k] = mgr[k]
        BY <1>1, LeaveChanges DEF RecordEvidence, IInv, TypeOK
      <3> QED
        BY <2>1, <3>1, OutsideStep DEF Idle, Critical
    <2>4. visible' = integration' /\ integration' = integration
      BY <1>1, <2>3 DEF visible, InFlight, Critical, RecordEvidence, repoVars
    <2>5. new.after = integration /\ ~(new.head \subseteq mgr[m].before)
          /\ mgr[m].before \cup new.head \subseteq new.after
      BY <2>1 DEF IInv, RollBackIsOwnMerge, NewWork
    <2>6. evidence' = evidence \cup {new}
      BY <1>1 DEF RecordEvidence
    <2> QED
      BY <2>2, <2>4, <2>5, <2>6 DEF Gate!Accept
  <1>2. ASSUME NEW m \in Managers, Merge(m) PROVE UNCHANGED Gate!gateVars
    <2>1. mgr[m].pc = "verified" /\ mgr[m].before = integration
      BY <1>2 DEF Merge, At, IInv, OnIntegration
    <2>2. \A k \in Managers : ~InFlight(k)
      BY <2>1, NobodyInFlight DEF InFlight, Critical
    <2>3. mgr'[m].pc = "merged" /\ mgr'[m].before = mgr[m].before
      BY <1>2 DEF Merge, Become, IInv, TypeOK, Call
    <2>4. visible' = mgr[m].before
      BY <2>3, VisibleInFlightNext DEF InFlight
    <2> QED
      BY <1>2, <2>1, <2>2, <2>4, VisibleOtherwise DEF Merge
  <1>3. ASSUME NEW m \in Managers, RollBack(m) PROVE UNCHANGED Gate!gateVars
    <2>1. InFlight(m) /\ mgr[m].pc \in Critical
      BY <1>3 DEF RollBack, At, InFlight, Critical
    <2>2. visible = mgr[m].before
      BY <2>1, VisibleInFlight
    <2>3. /\ mgr'[m] = Idle
          /\ \A k \in Managers : k # m => mgr'[k] = mgr[k]
      BY <1>3, LeaveChanges, RaiseChanges DEF RollBack, IInv, TypeOK
    <2>4. \A k \in Managers : ~InFlight(k)'
      BY <2>1, <2>3, OutsideStep DEF InFlight, Idle, Critical
    <2>5. visible' = integration'
      BY <2>4 DEF visible
    <2> QED
      BY <1>3, <2>2, <2>5 DEF RollBack
  <1>4. ASSUME NEW m \in Managers,
               \/ AcquireLock(m) \/ LockBusy(m) \/ RefuseDirty(m) \/ Enter(m)
               \/ Verify(m) \/ Unmergeable(m) \/ PlannedOrAborted(m)
               \/ ValidationPassed(m) \/ NoSwitchBack(m) \/ SwitchBack(m)
               \/ \E p \in Packages : Schedule(m, p)
        PROVE  UNCHANGED Gate!gateVars
    <2>1. integration' = integration /\ evidence' = evidence
      BY <1>4 DEF AcquireLock, LockBusy, RefuseDirty, Enter, Verify,
         Unmergeable, PlannedOrAborted, ValidationPassed, NoSwitchBack,
         SwitchBack, Schedule, repoVars
    <2>2. PICK call :
            /\ Become(m, call)
            /\ call.pc \in {"merged", "validated", "returned"} <=> InFlight(m)
            /\ InFlight(m) => call.before = mgr[m].before
      <3> DEFINE Kept(call) ==
            /\ Become(m, call)
            /\ call.pc \in {"merged", "validated", "returned"} <=> InFlight(m)
            /\ InFlight(m) => call.before = mgr[m].before
      <3>0. mgr[m] \in Call
        BY DEF IInv, TypeOK
      <3>1. ASSUME Leave(m) \/ Become(m, Idle), ~InFlight(m)
            PROVE  Kept(Idle)
        BY <3>1 DEF Leave, Idle
      <3>2. ASSUME NEW pc, Goto(m, pc),
                   pc \in {"merged", "validated", "returned"} <=> InFlight(m)
            PROVE  Kept([mgr[m] EXCEPT !.pc = pc])
        BY <3>0, <3>2 DEF Goto, Call
      <3>3. ASSUME Enter(m) PROVE \E call : Kept(call)
        <4>1. CASE Leave(m)
          BY <3>1, <3>3, <4>1 DEF Enter, At, InFlight
        <4>2. CASE Become(m, [mgr[m] EXCEPT !.pc = "entered", !.orig = checkout])
          <5>1. Kept([mgr[m] EXCEPT !.pc = "entered", !.orig = checkout])
            BY <3>0, <3>3, <4>2 DEF Enter, At, InFlight, Call
          <5> QED
            BY <5>1
        <4> QED
          BY <3>3, <4>1, <4>2 DEF Enter
      <3>4. ASSUME Verify(m)
            PROVE  Kept([mgr[m] EXCEPT !.pc = "verified", !.before = integration])
        BY <3>0, <3>4 DEF Verify, At, InFlight, Call
      <3>5. ASSUME NEW p \in Packages, Schedule(m, p)
            PROVE  Kept([Idle EXCEPT !.pc = "scheduled", !.pkg = p,
                                     !.head = branch[p]])
        BY <3>5 DEF Schedule, At, InFlight, Idle
      <3>6. ASSUME LockBusy(m) \/ RefuseDirty(m) \/ Unmergeable(m)
                   \/ PlannedOrAborted(m)
            PROVE  Kept(Idle)
        <4>1. Leave(m) \/ Become(m, Idle)
          BY <3>6, RaiseChanges DEF IInv, LockBusy, RefuseDirty, Unmergeable,
             PlannedOrAborted
        <4>2. ~InFlight(m)
          BY <3>6 DEF LockBusy, RefuseDirty, Unmergeable, PlannedOrAborted, At,
             InFlight
        <4> QED
          BY <3>1, <4>1, <4>2
      <3>7. ASSUME AcquireLock(m) \/ ValidationPassed(m) \/ NoSwitchBack(m)
                   \/ SwitchBack(m)
            PROVE  \E call : Kept(call)
        <4>1. PICK pc : /\ Goto(m, pc)
                        /\ pc \in {"merged", "validated", "returned"}
                             <=> InFlight(m)
          BY <3>7 DEF AcquireLock, ValidationPassed, NoSwitchBack, SwitchBack,
             At, InFlight
        <4> QED
          BY <3>2, <4>1
      <3> HIDE DEF Kept
      <3>8. \E call : Kept(call)
        BY <1>4, <3>3, <3>4, <3>5, <3>6, <3>7
      <3> QED
        BY <3>8 DEF Kept
    <2>3. /\ mgr'[m] = call
          /\ \A k \in Managers : k # m => mgr'[k] = mgr[k]
      <3>1. mgr \in [Managers -> Call] /\ mgr' = [mgr EXCEPT ![m] = call]
        BY <2>2 DEF Become, IInv, TypeOK
      <3> QED
        BY <3>1
    <2>4. /\ InFlight(m)' <=> InFlight(m)
          /\ InFlight(m) => mgr'[m].before = mgr[m].before
      BY <2>2, <2>3 DEF InFlight
    <2>5. \A k \in Managers : /\ InFlight(k)' <=> InFlight(k)
                              /\ InFlight(k) => mgr'[k].before = mgr[k].before
      BY <2>3, <2>4 DEF InFlight
    <2> QED
      BY <2>1, <2>5, VisibleStutters
  <1>5. ASSUME \/ \E p \in Packages : EnsureWorktree(p) \/ WorkerCommit(p)
               \/ CleanByHand
               \/ UNCHANGED vars
        PROVE  UNCHANGED Gate!gateVars
    <2>1. UNCHANGED <<mgr, integration, evidence>>
      BY <1>5 DEF EnsureWorktree, WorkerCommit, CleanByHand, vars, repoVars
    <2> QED
      BY <2>1 DEF visible, InFlight
  <1> QED
    BY <1>1, <1>2, <1>3, <1>4, <1>5, WayBackOpen DEF Next, IntegrateStep

\* integrate_one implements the gate for any number of managers: readers of
\* the integration branch see it move only by validated, evidenced merges.
THEOREM GateImplemented ==
  ASSUME Faults \subseteq {"late_commit", "abort"}
  PROVE  Spec => GateSpec
  <1>1. Init => Gate!Init
    <2>1. Init => \A m \in Managers : mgr[m] = Idle
      BY DEF Init
    <2>2. Idle.pc = "idle"
      BY DEF Idle
    <2>3. Init => \A m \in Managers : ~InFlight(m)
      BY <2>1, <2>2 DEF InFlight
    <2> QED
      BY <2>3, VisibleOtherwise DEF Init, Gate!Init
  <1>2. IInv /\ IInv' /\ [Next]_vars => [Gate!Accept]_(Gate!gateVars)
    BY GateStep
  <1> QED
    BY <1>1, <1>2, Invariance, PTL DEF Spec, GateSpec, Gate!Spec
=============================================================================
