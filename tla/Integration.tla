----------------------------- MODULE Integration -----------------------------
(***************************************************************************)
(* integrate_one of src/railwarden/integration/manager.py: the processes   *)
(* that merge reviewed package branches into the integration branch, run   *)
(* the validation suite on the merge, and keep it or roll it back.  The    *)
(* controller's tick, `warden integrate --execute` and the MCP tool        *)
(* integration_reconcile all call it, each in a process of its own, on one *)
(* git repository.                                                         *)
(*                                                                         *)
(* A branch is the set of commits reachable from its head, so equal heads  *)
(* are equal sets and `git merge-base --is-ancestor` is inclusion.         *)
(***************************************************************************)
EXTENDS Naturals

CONSTANTS
  Managers,    \* processes that may call integrate_one
  Controller,  \* the manager that also provisions worktrees (its launches)
  Packages,
  NoOne,       \* nobody holds integration.lock
  Faults,      \* what the environment may do in this run, out of AllFaults
  MaxCommits,  \* bound: worker commits per package
  MaxMerges,   \* bound: no merge of a package starts past that many merges
  MaxCrashes   \* bound: managers killed in the middle of a call

(***************************************************************************)
(*  late_commit  a worker commits to a branch a manager has scheduled      *)
(*  conflict     the user's branch has a commit that conflicts with        *)
(*               integration when it is brought up to date                 *)
(*  collision    untracked files make `git switch` fail                    *)
(*  abort        `git merge --abort` fails after a conflict, unchecked     *)
(*  reset        `git reset --hard` fails, which nobody checks             *)
(*  crash        a manager is killed                                       *)
(***************************************************************************)
AllFaults == {"late_commit", "conflict", "collision", "abort", "reset", "crash"}

ASSUME ConstantsAssumption ==
  /\ Controller \in Managers
  /\ NoOne \notin Managers
  /\ {"user", "merge"} \cap Packages = {}
  /\ Faults \subseteq AllFaults
  /\ MaxCommits \in Nat /\ MaxMerges \in Nat /\ MaxCrashes \in Nat

Commit == [author : Packages \cup {"user", "merge"}, n : Nat]

VARIABLES
  lock,        \* flock on locks/integration.lock: its holder
  checkout,    \* HEAD of the main checkout: "integration", "original" (the
               \* branch the user works on) or "detached"
  treeClean,   \* `git status --untracked-files=no` is empty there
  integration, \* commits on the integration branch
  original,    \* commits on the user's branch
  branch,      \* commits on each package's branch, NoBranch before it exists
  mgr,         \* the local variables of each manager's call
  evidence,    \* files written to validation/<package>-<after_head>.json
  merges,      \* merge commits made so far: names the next one
  crashes

repoVars == <<checkout, treeClean, integration, original, branch>>
vars == <<lock, repoVars, mgr, evidence, merges, crashes>>

(***************************************************************************)
(* A call's program counter: "scheduled" holds a candidate and not yet the *)
(* lock; the others hold the lock and are named for what was done last.    *)
(***************************************************************************)
Critical == {"locked", "entered", "verified", "merged", "validated", "returned"}

Idle == [pc |-> "idle", pkg |-> NoOne, head |-> {}, before |-> {},
         after |-> {}, orig |-> "integration"]

Call == [pc : {"idle", "scheduled"} \cup Critical,
         pkg : Packages \cup {NoOne},
         head : SUBSET Commit,
         before : SUBSET Commit,
         after : SUBSET Commit,
         orig : {"integration", "original", "detached"}]

NoBranch == {}   \* every branch that exists reaches the root commit
RootCommit == [author |-> "user", n |-> 0]
UserCommit == [author |-> "user", n |-> 1]
MergeCommit == [author |-> "merge", n |-> merges]

At(m, pc) == mgr[m].pc = pc

Become(m, call) == mgr' = [mgr EXCEPT ![m] = call]

Goto(m, pc) == Become(m, [mgr[m] EXCEPT !.pc = pc])

Init ==
  /\ lock = NoOne
  /\ checkout \in {"integration", "original", "detached"}
  /\ treeClean = TRUE
  /\ integration = {RootCommit}
  /\ original \in {{RootCommit}, {RootCommit, UserCommit}}
  /\ branch = [p \in Packages |-> NoBranch]
  /\ mgr = [m \in Managers |-> Idle]
  /\ evidence = {}
  /\ merges = 0
  /\ crashes = 0

(***************************************************************************)
(* Leaving the call: the `with` block closes the lock file.  An exception  *)
(* first goes back to the original branch when the tree is clean; a        *)
(* detached HEAD has no branch name to go back to.                         *)
(***************************************************************************)
Leave(m) ==
  /\ Become(m, Idle)
  /\ lock' = NoOne

SwitchOutcomes(target) ==
  {target} \cup IF "collision" \in Faults THEN {checkout} ELSE {}

\* Mutated Raise: the exception leaves the main checkout where it is.
RaiseInPlace(m) ==
  /\ UNCHANGED checkout
  /\ Leave(m)

Raise(m) ==
  /\ IF mgr[m].orig = "original" /\ treeClean'
       THEN checkout' \in SwitchOutcomes("original")
       ELSE UNCHANGED checkout
  /\ Leave(m)

(***************************************************************************)
(* The workers and the controller's provisioning.                          *)
(***************************************************************************)

\* ensure_worktree without a registered worktree: the new branch starts at
\* whatever the integration branch is at that moment; no lock is taken.
EnsureWorktree(p) ==
  /\ At(Controller, "idle")
  /\ branch[p] = NoBranch
  /\ branch' = [branch EXCEPT ![p] = integration]
  /\ UNCHANGED <<lock, checkout, treeClean, integration, original, mgr,
                 evidence, merges, crashes>>

\* Mutated PackageCommit: authored by an identity no package has.
AnonymousCommit(p, n) == [author |-> "worker", n |-> n]

PackageCommit(p, n) == [author |-> p, n |-> n]

WorkerCommit(p) ==
  /\ branch[p] # NoBranch
  /\ "late_commit" \in Faults \/ \A m \in Managers : mgr[m].pkg # p
  /\ \E n \in 1 .. MaxCommits :
       /\ PackageCommit(p, n) \notin branch[p]
       /\ \A k \in 1 .. n - 1 : PackageCommit(p, k) \in branch[p]
       /\ branch' = [branch EXCEPT ![p] = @ \cup {PackageCommit(p, n)}]
  /\ UNCHANGED <<lock, checkout, treeClean, integration, original, mgr,
                 evidence, merges, crashes>>

(***************************************************************************)
(* integrate_one                                                           *)
(***************************************************************************)

\* The caller picks a candidate and its head before it asks for the lock.
Schedule(m, p) ==
  /\ At(m, "idle")
  /\ branch[p] # NoBranch
  /\ Become(m, [Idle EXCEPT !.pc = "scheduled", !.pkg = p, !.head = branch[p]])
  /\ UNCHANGED <<lock, repoVars, evidence, merges, crashes>>

\* Mutated AcquireLock: the lock file is opened, and not locked.
AcquireUnlocked(m) ==
  /\ At(m, "scheduled")
  /\ lock' = m
  /\ Goto(m, "locked")
  /\ UNCHANGED <<repoVars, evidence, merges, crashes>>

AcquireLock(m) ==
  /\ At(m, "scheduled")
  /\ lock = NoOne
  /\ lock' = m
  /\ Goto(m, "locked")
  /\ UNCHANGED <<repoVars, evidence, merges, crashes>>

\* Mutated LockBusy: LOCK_EX without LOCK_NB waits for the holder.
LockWaits(m) ==
  /\ At(m, "scheduled")
  /\ lock # NoOne
  /\ UNCHANGED vars

\* LOCK_NB: "Another integration manager is already running".
LockBusy(m) ==
  /\ At(m, "scheduled")
  /\ lock # NoOne
  /\ Become(m, Idle)
  /\ UNCHANGED <<lock, repoVars, evidence, merges, crashes>>

RefuseDirty(m) ==
  /\ At(m, "locked")
  /\ ~treeClean
  /\ Leave(m)
  /\ UNCHANGED <<repoVars, evidence, merges, crashes>>

\* The switch is outside the try block: when it fails the call just leaves.
Enter(m) ==
  /\ At(m, "locked")
  /\ treeClean
  /\ \/ /\ checkout' = "integration"
        /\ Become(m, [mgr[m] EXCEPT !.pc = "entered", !.orig = checkout])
        /\ UNCHANGED lock
     \/ /\ "collision" \in Faults /\ checkout # "integration"
        /\ Leave(m)
        /\ UNCHANGED checkout
  /\ UNCHANGED <<treeClean, integration, original, branch, evidence, merges,
                 crashes>>

Mergeable(m) ==
  /\ branch[mgr[m].pkg] = mgr[m].head              \* head not changed
  /\ ~(branch[mgr[m].pkg] \subseteq integration)   \* not already merged

\* Mutated Verify: takes the package's head for the branch's.
VerifySwapsHeads(m) ==
  /\ At(m, "entered")
  /\ Mergeable(m)
  /\ Become(m, [mgr[m] EXCEPT !.pc = "verified", !.before = mgr[m].head])
  /\ UNCHANGED <<lock, repoVars, evidence, merges, crashes>>

Verify(m) ==
  /\ At(m, "entered")
  /\ Mergeable(m)
  /\ Become(m, [mgr[m] EXCEPT !.pc = "verified", !.before = integration])
  /\ UNCHANGED <<lock, repoVars, evidence, merges, crashes>>

Unmergeable(m) ==
  /\ At(m, "entered")
  /\ ~Mergeable(m)
  /\ UNCHANGED <<treeClean, integration, original, branch, evidence, merges,
                 crashes>>
  /\ Raise(m)

\* execute=False returns the plan; `git merge` failed and was aborted.  Both
\* leave the integration branch alone and go back to the original branch; an
\* abort that fails leaves the conflict in the tree.
PlannedOrAborted(m) ==
  /\ At(m, "verified")
  /\ treeClean' = treeClean \/ ("abort" \in Faults /\ treeClean' = FALSE)
  /\ UNCHANGED <<integration, original, branch, evidence, merges, crashes>>
  /\ Raise(m)

\* git merges the branch as it is now, by name, not the verified head.
Merge(m) ==
  LET merged == integration \cup branch[mgr[m].pkg] \cup {MergeCommit} IN
  /\ At(m, "verified")
  /\ merges < MaxMerges
  /\ integration' = merged
  /\ merges' = merges + 1
  /\ Become(m, [mgr[m] EXCEPT !.pc = "merged", !.after = merged])
  /\ UNCHANGED <<lock, checkout, treeClean, original, branch, evidence, crashes>>

ValidationPassed(m) ==
  /\ At(m, "merged")
  /\ Goto(m, "validated")
  /\ UNCHANGED <<lock, repoVars, evidence, merges, crashes>>

\* Mutated RollBack: a failed suite leaves its merge on the branch.
RollBackForgets(m) ==
  /\ At(m, "merged")
  /\ UNCHANGED <<treeClean, integration, original, branch, evidence, merges,
                 crashes>>
  /\ Raise(m)

\* The suite failed, or raised because it left tracked changes: a reset that
\* fails may find the tree dirty and leave it so.
RollBack(m) ==
  /\ At(m, "merged")
  /\ \/ integration' = mgr[m].before /\ treeClean' = TRUE
     \/ "reset" \in Faults /\ UNCHANGED integration /\ treeClean' \in BOOLEAN
  /\ UNCHANGED <<original, branch, evidence, merges, crashes>>
  /\ Raise(m)

NoSwitchBack(m) ==
  /\ At(m, "validated")
  /\ mgr[m].orig # "original"
  /\ Goto(m, "returned")
  /\ UNCHANGED <<lock, repoVars, evidence, merges, crashes>>

\* Back on the user's branch, which is fast-forwarded or else merged.
SwitchBack(m) ==
  /\ At(m, "validated")
  /\ mgr[m].orig = "original"
  /\ checkout' = "original"
  /\ Goto(m, "returned")
  /\ \/ /\ original \subseteq integration
        /\ original' = integration
        /\ UNCHANGED merges
     \/ /\ ~(original \subseteq integration)
        /\ merges < MaxMerges
        /\ original' = original \cup integration \cup {MergeCommit}
        /\ merges' = merges + 1
  /\ UNCHANGED <<lock, treeClean, integration, branch, evidence, crashes>>

\* The switch, or the merge into the user's branch, raises GitError after the
\* integration branch has been validated.
SwitchBackFails(m) ==
  /\ At(m, "validated")
  /\ mgr[m].orig = "original"
  /\ \/ /\ "collision" \in Faults
        /\ UNCHANGED treeClean
        /\ Raise(m)
     \/ /\ "conflict" \in Faults
        /\ ~(original \subseteq integration)
        /\ checkout' = "original"
        /\ treeClean' = FALSE
        /\ Leave(m)
  /\ UNCHANGED <<integration, original, branch, evidence, merges, crashes>>

RecordEvidence(m) ==
  /\ At(m, "returned")
  /\ evidence' = evidence \cup {[pkg |-> mgr[m].pkg, head |-> mgr[m].head,
                                 after |-> mgr[m].after]}
  /\ Leave(m)
  /\ UNCHANGED <<repoVars, merges, crashes>>

(***************************************************************************)
(* A manager is killed: the kernel drops its flock, the repository stays   *)
(* as it is, and a merge or a validation command may be cut short.         *)
(***************************************************************************)
Crash(m) ==
  /\ "crash" \in Faults
  /\ crashes < MaxCrashes
  /\ mgr[m].pc \in Critical
  /\ Leave(m)
  /\ treeClean' \in IF mgr[m].pc \in {"verified", "merged", "validated"}
                      THEN {treeClean, FALSE} ELSE {treeClean}
  /\ crashes' = crashes + 1
  /\ UNCHANGED <<checkout, integration, original, branch, evidence, merges>>

\* The user resets the main checkout by hand.
CleanByHand ==
  /\ ~treeClean
  /\ lock = NoOne
  /\ treeClean' = TRUE
  /\ UNCHANGED <<lock, checkout, integration, original, branch, mgr, evidence,
                 merges, crashes>>

IntegrateStep(m) ==
  \/ AcquireLock(m)
  \/ LockBusy(m)
  \/ RefuseDirty(m)
  \/ Enter(m)
  \/ Verify(m)
  \/ Unmergeable(m)
  \/ PlannedOrAborted(m)
  \/ Merge(m)
  \/ ValidationPassed(m)
  \/ RollBack(m)
  \/ NoSwitchBack(m)
  \/ SwitchBack(m)
  \/ SwitchBackFails(m)
  \/ RecordEvidence(m)

Next ==
  \/ \E p \in Packages : EnsureWorktree(p) \/ WorkerCommit(p)
  \/ \E m \in Managers : \/ \E p \in Packages : Schedule(m, p)
                         \/ IntegrateStep(m)
                         \/ Crash(m)
  \/ CleanByHand

Spec == Init /\ [][Next]_vars

(***************************************************************************)
(* A call that has started runs to its end: git and the validation         *)
(* commands terminate.  Nothing makes a caller call again, a worker commit *)
(* or a user clean the tree.                                               *)
(***************************************************************************)
FairSpec == Spec /\ \A m \in Managers : WF_vars(IntegrateStep(m))
-----------------------------------------------------------------------------
(***************************************************************************)
(* Properties                                                              *)
(***************************************************************************)
Evidence == [pkg : Packages, head : SUBSET Commit, after : SUBSET Commit]

TypeOK ==
  /\ lock \in Managers \cup {NoOne}
  /\ checkout \in {"integration", "original", "detached"}
  /\ treeClean \in BOOLEAN
  /\ integration \in SUBSET Commit
  /\ original \in SUBSET Commit
  /\ branch \in [Packages -> SUBSET Commit]
  /\ mgr \in [Managers -> Call]
  /\ evidence \in SUBSET Evidence
  /\ merges \in Nat
  /\ crashes \in Nat

\* Between the merge and the end of the call.
InFlight(m) == mgr[m].pc \in {"merged", "validated", "returned"}

\* What a manager validates is the integration branch as it stands, and what
\* it would roll back (`git reset --hard before_head`) is its own merge and
\* nothing else, whoever else calls integrate_one meanwhile or died before.
RollBackIsOwnMerge ==
  \A m \in Managers : InFlight(m) =>
    /\ lock = m
    /\ checkout \in {"integration", mgr[m].orig}
    /\ integration = mgr[m].after
    /\ mgr[m].before \cup mgr[m].head \subseteq mgr[m].after

\* A merge with evidence on disk is never rolled back: every later call's
\* before_head contains it.  Holds under every fault of AllFaults.
EvidencedIsKept == \A e \in evidence : e.after \subseteq integration

\* "Only approved packages with evidence may integrate": while no call is in
\* progress, every worker commit on the integration branch is in the head of
\* a validated merge of its own package.
IntegratedIsEvidenced ==
  lock = NoOne =>
    \A c \in integration : c.author \in Packages =>
      \E e \in evidence : e.pkg = c.author /\ c \in e.head

\* A call that moved the main checkout away from the user's branch is back on
\* it when it ends, whether it returns or raises, unless it was killed or
\* leaves tracked changes in the tree.  Holds whenever the switch works: with
\* every fault but "collision".
HeadRestored ==
  [][\A m \in Managers :
       /\ mgr[m].pc \in Critical \ {"locked"}
       /\ mgr[m].orig = "original"
       /\ mgr'[m].pc = "idle"
       /\ crashes' = crashes
       => checkout' = "original" \/ ~treeClean']_vars

\* Every call ends, so the lock is always given back.
CallEnds == \A m \in Managers : At(m, "scheduled") ~> At(m, "idle")

\* What integration promises (MergeGate), with the branch as it was before
\* the merge that is in flight.
visible == IF \E m \in Managers : InFlight(m)
             THEN mgr[CHOOSE m \in Managers : InFlight(m)].before
             ELSE integration

Gate == INSTANCE MergeGate
          WITH Base <- {RootCommit}, visible <- visible, accepted <- evidence

GateSpec == Gate!Spec
=============================================================================
