--------------------------- MODULE PlanningProofs ---------------------------
(***************************************************************************)
(* That an approved plan is the one in force, that frozen contracts are    *)
(* sound, that only one background planner is at work, and that nothing is *)
(* worked on but what was approved: for any number of runs, packages,      *)
(* plans, patches and commands.                                            *)
(***************************************************************************)
EXTENDS Planning, TLAPS, SequenceTheorems, FiniteSetTheorems, WellFoundedInduction

(***************************************************************************)
(* The inductive invariant                                                 *)
(***************************************************************************)
JobStatus == {"none", "planning", "ready", "failed"}
PlannerAt ==
  {"none", "spawned", "asking", "structuring", "presenting", "presented", "over"}
OpAt ==
  {"idle", "spawning", "planning", "approving", "freezing", "creating",
   "rejecting", "rewriting", "writing"}

\* Commands at work on the pending plan's file, without a run.
Writing == {"rejecting", "rewriting", "writing"}

PlanForm(p) ==
  /\ PendingPlan(p)
  /\ p = [run |-> p.run, packages |-> p.packages,
          approved |-> p.approved, rejected |-> p.rejected]

OpForm(o) ==
  /\ o = [pc |-> o.pc, run |-> o.run, payload |-> o.payload, contracts |-> o.contracts]
  /\ o.pc \in OpAt
  /\ o.run \in Runs \cup {0} /\ (o.pc \notin {"idle"} \cup Writing => o.run # 0)
  /\ PlanForm(o.payload) /\ PackageList(o.contracts)

TickForm(k) ==
  /\ k = [pc |-> k.pc, contracts |-> k.contracts]
  /\ k.pc \in {"idle", "loaded", "working", "dead"} /\ PackageList(k.contracts)

TypeInv ==
  /\ jobs \in [Runs -> JobStatus]
  /\ fresh \subseteq Runs
  /\ planner \in [Runs -> PlannerAt]
  /\ started \in 0 .. MaxRuns
  /\ commands \in 0 .. MaxCommands
  /\ PlanForm(pending)
  /\ documents \subseteq Runs
  /\ charter \in documents \cup {0}
  /\ PackageList(frozen)
  /\ tasks \subseteq Ids
  /\ DOMAIN repairs = Ids /\ \A id \in Ids : repairs[id] \in Patches[id] \cup {NoPatch}
  /\ OpForm(op) /\ TickForm(tick)

\* A planner's process is there, or is about to be.
Live(r) == Running(r) \/ planner[r] = "spawned"

\* There is one job at most whose status is planning, whoever plans has that
\* status, and a process that has not been executed yet has a young job file.
OneJob ==
  /\ \A r \in Runs : r > started => jobs[r] = "none" /\ planner[r] = "none"
  /\ \A q, r \in PlanningJobs : q = r
  /\ \A r \in Runs : Live(r) /\ jobs[r] # "none" => jobs[r] = "planning"
  /\ \A r \in Runs : planner[r] = "spawned" => r \in fresh
  /\ op.pc = "spawning" =>
       op.run \in fresh /\ jobs[op.run] = "planning" /\ planner[op.run] = "none"
  /\ op.pc = "planning" => op.run <= started

\* An approval under way: what is pending is what it read, or a new plan.
Approving ==
  /\ op.pc \in {"approving", "freezing", "creating"} =>
       /\ op.run = op.payload.run /\ op.contracts = Prepared(op.payload.packages)
       /\ Freezable(op.contracts, TRUE)
       /\ pending.run # 0 /\ (pending = op.payload \/ ~pending.approved)
  /\ op.pc \in {"freezing", "creating"} => charter = op.run
  /\ op.pc = "creating" => frozen = op.contracts /\ repaired = {}
  /\ op.pc \in Writing => ~op.payload.approved

\* The packages of approved plans, read or pending, have tasks.
Covered ==
  /\ pending.approved => IdsOf(pending.packages) \subseteq tasks /\ IdsOf(frozen) \subseteq tasks
  /\ op.payload.approved => IdsOf(op.payload.packages) \subseteq tasks

Matches ==
  /\ charter = pending.run
  /\ DOMAIN frozen = DOMAIN pending.packages
  /\ \A i \in DOMAIN frozen :
       \/ frozen[i] = pending.packages[i]
       \/ frozen[i].id = pending.packages[i].id /\ frozen[i].id \in repaired

\* Every step but the one that writes the contracts keeps an approved plan and
\* the frozen one together.
InForce == pending.approved /\ op.pc # "creating" /\ frozen \notin cutOff => Matches

\* Contracts whose first approval is under way.
BeingApproved(contracts) ==
  op.pc = "creating" /\ contracts = op.contracts /\ ~op.payload.approved

Sanctioned ==
  /\ frozen \in sanctioned \cup cutOff \/ BeingApproved(frozen)
  /\ tick.pc = "loaded" =>
       tick.contracts \in sanctioned \cup cutOff \/ BeingApproved(tick.contracts)
  /\ tick.pc = "working" => tick.contracts \in sanctioned \cup cutOff

Validated == frozen = <<>> \/ Freezable(frozen, FALSE)

\* A repair changes what a package is to do, not which package it is.
NoRenames == \A id \in Ids : \A patch \in Patches[id] : "id" \notin DOMAIN patch

Approved ==
  /\ Approving /\ Validated /\ Sanctioned
  /\ NoRenames => Covered /\ InForce

IInv == TypeInv /\ OneJob /\ Approved

-----------------------------------------------------------------------------
(***************************************************************************)
(* Lists of packages                                                       *)
(***************************************************************************)
LEMMA ListFacts ==
  ASSUME NEW l, PackageList(l)
  PROVE  /\ Len(l) \in Nat /\ DOMAIN l = 1 .. Len(l)
         /\ l = [i \in DOMAIN l |-> l[i]]
         /\ \A i \in DOMAIN l : DOMAIN l[i] = Fields /\ l[i].id \in Ids
<1> DEFINE S == {l[i] : i \in DOMAIN l}
<1>1. l \in Seq(S) /\ \A i \in DOMAIN l : DOMAIN l[i] = Fields /\ l[i].id \in Ids
  BY DEF PackageList
<1> HIDE DEF S
<1>2. Len(l) \in Nat /\ l \in [1 .. Len(l) -> S]
  BY <1>1, LenProperties
<1> QED BY <1>1, <1>2

LEMMA ListMade ==
  ASSUME NEW n \in Nat, NEW l, l = [i \in 1 .. n |-> l[i]],
         \A i \in 1 .. n : DOMAIN l[i] = Fields /\ l[i].id \in Ids
  PROVE  PackageList(l)
<1> DEFINE S == {l[i] : i \in 1 .. n}
<1>1. \A i \in 1 .. n : l[i] \in S
  OBVIOUS
<1>2. DOMAIN l = 1 .. n
  OBVIOUS
<1> HIDE DEF S
<1>3. [i \in 1 .. n |-> l[i]] \in [1 .. n -> S]
  BY <1>1
<1>4. l \in [1 .. n -> S]
  BY <1>3, Zenon
<1>5. l \in Seq(S)
  BY <1>4, SeqDef
<1>6. S = {l[i] : i \in DOMAIN l}
  BY <1>2 DEF S
<1> QED BY <1>2, <1>5, <1>6 DEF PackageList

\* A list made package by package of another.
LEMMA ListMapped ==
  ASSUME NEW l, PackageList(l), NEW m, m = [i \in DOMAIN l |-> m[i]],
         \A i \in DOMAIN l : DOMAIN m[i] = Fields /\ m[i].id \in Ids
  PROVE  PackageList(m) /\ DOMAIN m = DOMAIN l
<1>1. PICK n \in Nat : DOMAIN l = 1 .. n
  BY ListFacts
<1>2. m = [i \in 1 .. n |-> m[i]] /\ \A i \in 1 .. n : DOMAIN m[i] = Fields /\ m[i].id \in Ids
  BY <1>1
<1>3. PackageList(m)
  BY <1>2, ListMade
<1>4. DOMAIN m = 1 .. n
  BY <1>2
<1> QED BY <1>1, <1>3, <1>4

LEMMA EmptyList == PackageList(<<>>) /\ IdsOf(<<>>) = {} /\ DOMAIN <<>> = {}
<1>1. <<>> \in Seq({}) /\ DOMAIN <<>> = {}
  OBVIOUS
<1>2. {<<>>[i] : i \in DOMAIN <<>>} = {}
  BY <1>1
<1> QED BY <1>1, <1>2 DEF PackageList, IdsOf

\* The same packages, in the same places.
Alike(l, m) == DOMAIN m = DOMAIN l /\ \A i \in DOMAIN l : m[i].id = l[i].id

LEMMA AlikeIds ==
  ASSUME NEW l, NEW m, Alike(l, m)
  PROVE  IdsOf(m) = IdsOf(l)
BY DEF Alike, IdsOf

IsPackage(p) == DOMAIN p = Fields

LEMMA PackageSteps ==
  ASSUME NEW p, IsPackage(p)
  PROVE  /\ IsPackage(NormalizePaths(p)) /\ NormalizePaths(p).id = p.id
         /\ IsPackage(InferScaffoldOwnedPaths(p)) /\ InferScaffoldOwnedPaths(p).id = p.id
         /\ IsPackage(SanitizeCommands(p)) /\ SanitizeCommands(p).id = p.id
         /\ \A owned : /\ IsPackage(SanitizeContextRefs(p, owned))
                       /\ SanitizeContextRefs(p, owned).id = p.id
<1>1. IsPackage(NormalizePaths(p)) /\ NormalizePaths(p).id = p.id
  BY DEF IsPackage, NormalizePaths, Fields
<1>2. IsPackage(InferScaffoldOwnedPaths(p)) /\ InferScaffoldOwnedPaths(p).id = p.id
  BY DEF IsPackage, InferScaffoldOwnedPaths, Fields
<1>3. IsPackage(SanitizeCommands(p)) /\ SanitizeCommands(p).id = p.id
  BY DEF IsPackage, SanitizeCommands, Fields
<1>4. ASSUME NEW owned
      PROVE  /\ IsPackage(SanitizeContextRefs(p, owned))
             /\ SanitizeContextRefs(p, owned).id = p.id
  BY DEF IsPackage, SanitizeContextRefs, Fields
<1> QED BY <1>1, <1>2, <1>3, <1>4

LEMMA ResolvedAlike ==
  ASSUME NEW l, \A i \in DOMAIN l : IsPackage(l[i])
  PROVE  /\ Alike(l, ResolveOverlaps(l))
         /\ ResolveOverlaps(l) = [i \in DOMAIN l |-> ResolveOverlaps(l)[i]]
         /\ \A i \in DOMAIN l : IsPackage(ResolveOverlaps(l)[i])
<1> DEFINE Claimants(p) == {l[i].id : i \in {j \in DOMAIN l : p \in l[j].owned}}
           Winner(p) == CHOOSE w \in Claimants(p) :
                          \A c \in Claimants(p) : Number[c] <= Number[w]
           Cede(package) == [package EXCEPT !.owned = {p \in @ : Winner(p) = package.id}]
<1>1. ResolveOverlaps(l) = [i \in DOMAIN l |-> Cede(l[i])]
  BY DEF ResolveOverlaps
<1> HIDE DEF Winner, Claimants
<1>2. \A i \in DOMAIN l : IsPackage(Cede(l[i])) /\ Cede(l[i]).id = l[i].id
  BY DEF IsPackage, Fields
<1> HIDE DEF Cede
<1> QED BY <1>1, <1>2 DEF Alike

\* Approval changes what packages own, refer to and run; not which they are.
LEMMA PreparedAlike ==
  ASSUME NEW l, PackageList(l)
  PROVE  PackageList(Prepared(l)) /\ Alike(l, Prepared(l))
<1> DEFINE normal == [i \in DOMAIN l |-> NormalizePaths(l[i])]
           resolved == ResolveOverlaps(normal)
           owned == OwnedPaths(resolved)
           Prepare(package) ==
             SanitizeCommands(SanitizeContextRefs(InferScaffoldOwnedPaths(package), owned))
<1>1. Prepared(l) = [i \in DOMAIN resolved |-> Prepare(resolved[i])]
  BY Zenon DEF Prepared
<1>2. normal = [i \in DOMAIN l |-> NormalizePaths(l[i])]
  OBVIOUS
<1> HIDE DEF normal
<1>3. Alike(l, normal) /\ \A i \in DOMAIN l : IsPackage(normal[i])
  BY <1>2, ListFacts, PackageSteps DEF Alike, IsPackage
<1>4. Alike(l, resolved) /\ \A i \in DOMAIN l : IsPackage(resolved[i])
  BY <1>3, ResolvedAlike DEF Alike
<1> HIDE DEF resolved, owned
<1>5. \A p : IsPackage(p) => IsPackage(Prepare(p)) /\ Prepare(p).id = p.id
  BY PackageSteps
<1> HIDE DEF Prepare
<1>6. Alike(l, Prepared(l)) /\ \A i \in DOMAIN l : IsPackage(Prepared(l)[i])
  BY <1>4, <1>1, <1>5 DEF Alike
<1>7. \A i \in DOMAIN l : DOMAIN Prepared(l)[i] = Fields /\ Prepared(l)[i].id \in Ids
  BY <1>6, ListFacts DEF Alike, IsPackage
<1>8. Prepared(l) = [i \in DOMAIN l |-> Prepared(l)[i]]
  BY <1>1, <1>4 DEF Alike
<1>9. PackageList(Prepared(l))
  BY <1>7, <1>8, ListMapped
<1> QED BY <1>6, <1>9

\* A nonempty set of positions has a first one.
LEMMA FirstOf ==
  ASSUME NEW T, T \subseteq Nat, T # {}
  PROVE  \E i \in T : \A j \in T : i <= j
<1>1. PICK x \in T : \A y \in T : ~(<<y, x>> \in OpToRel(<, Nat))
  BY NatLessThanWellFounded, WFMin
<1>2. \A y \in T : ~(y < x)
  BY <1>1 DEF OpToRel
<1> QED BY <1>2

LEMMA UpdateKeeps ==
  ASSUME NEW p, IsPackage(p), p.id \in Ids, NEW id \in Ids, NEW patch \in Patches[id]
  PROVE  /\ IsPackage(Update(p, patch)) /\ Update(p, patch).id \in Ids
         /\ NoRenames => Update(p, patch).id = p.id
<1>1. DOMAIN patch \subseteq Fields /\ ("id" \in DOMAIN patch => patch.id \in Ids)
  BY PlanningAssumption
<1>2. "id" \in Fields
  BY DEF Fields
<1> QED BY <1>1, <1>2 DEF Update, IsPackage, NoRenames

LEMMA PatchedList ==
  ASSUME NEW l, PackageList(l), NEW id \in IdsOf(l), NEW patch \in Patches[id]
  PROVE  /\ PackageList(Patched(l, id, patch)) /\ DOMAIN Patched(l, id, patch) = DOMAIN l
         /\ NoRenames => Alike(l, Patched(l, id, patch))
         /\ \A i \in DOMAIN l : l[i].id = id \/ Patched(l, id, patch)[i] = l[i]
<1> DEFINE at == {i \in DOMAIN l : l[i].id = id}
           first == CHOOSE i \in DOMAIN l :
                      l[i].id = id /\ \A j \in DOMAIN l : l[j].id = id => i <= j
<1>1. at \subseteq Nat /\ at # {} /\ id \in Ids
  BY ListFacts DEF IdsOf
<1>2. \E i \in at : \A j \in at : i <= j
  BY <1>1, FirstOf
<1>3. first \in DOMAIN l /\ l[first].id = id
  BY <1>2
<1>4. PICK k : k = first
  OBVIOUS
<1>5. Patched(l, id, patch) = [l EXCEPT ![k] = Update(l[k], patch)]
  BY <1>4 DEF Patched
<1> HIDE DEF at, first
<1>6. \A i \in DOMAIN l : IsPackage(l[i]) /\ l[i].id \in Ids
  BY ListFacts DEF IsPackage
<1>7. /\ IsPackage(Update(l[k], patch)) /\ Update(l[k], patch).id \in Ids
      /\ NoRenames => Update(l[k], patch).id = l[k].id
  BY <1>1, <1>3, <1>4, <1>6, UpdateKeeps
<1>8. PICK m : m = Patched(l, id, patch)
  OBVIOUS
<1>9. m = [i \in DOMAIN l |-> m[i]] /\ m[k] = Update(l[k], patch)
      /\ \A i \in DOMAIN l : i # k => m[i] = l[i]
  BY <1>3, <1>4, <1>5, <1>8
<1>10. \A i \in DOMAIN l : DOMAIN m[i] = Fields /\ m[i].id \in Ids
  BY <1>6, <1>7, <1>9 DEF IsPackage
<1>11. PackageList(m) /\ DOMAIN m = DOMAIN l
  BY <1>9, <1>10, ListMapped
<1> QED BY <1>3, <1>4, <1>7, <1>8, <1>9, <1>11 DEF Alike

\* The packages of a planner's answer, without their shell commands.
LEMMA AnswerList ==
  ASSUME NEW plan, PackageList(plan)
  PROVE  PackageList([i \in DOMAIN plan |-> SanitizeCommands(plan[i])])
<1>1. PICK m : m = [i \in DOMAIN plan |-> SanitizeCommands(plan[i])]
  OBVIOUS
<1>2. \A i \in DOMAIN plan : DOMAIN m[i] = Fields /\ m[i].id \in Ids
  BY <1>1, ListFacts, PackageSteps DEF IsPackage
<1>3. m = [i \in DOMAIN plan |-> m[i]]
  BY <1>1
<1> QED BY <1>1, <1>2, <1>3, ListMapped

-----------------------------------------------------------------------------
(***************************************************************************)
(* validate_dag's search, for any packages: it is well defined, and what   *)
(* it finds no cycle in has an order                                       *)
(***************************************************************************)
\* The equation that defines the search in FindsCycle: at a package, with the
\* packages on the path to it.
Places(I) == (SUBSET I) \X I
IsSearch(f, I, deps) ==
  f = [at \in Places(I) |->
         \/ at[2] \in at[1]
         \/ \E d \in deps[at[2]] : f[<<at[1] \cup {at[2]}, d>>]]

\* Places each of which is on its own path or leads to another of them.
Closed(W, deps) ==
  \A w \in W : w[2] \in w[1] \/ \E d \in deps[w[2]] : <<w[1] \cup {w[2]}, d>> \in W

LEMMA PlacesNext ==
  ASSUME NEW I, NEW deps \in [I -> SUBSET I], NEW at \in Places(I), NEW d \in deps[at[2]]
  PROVE  <<at[1] \cup {at[2]}, d>> \in Places(I)
BY DEF Places

LEMMA SearchExists ==
  ASSUME NEW I, NEW deps \in [I -> SUBSET I]
  PROVE  \E f : IsSearch(f, I, deps)
<1> DEFINE Found(at) == \E W \in SUBSET Places(I) : at \in W /\ Closed(W, deps)
           f == [at \in Places(I) |-> Found(at)]
<1>1. ASSUME NEW at \in Places(I), Found(at)
      PROVE  at[2] \in at[1] \/ \E d \in deps[at[2]] : Found(<<at[1] \cup {at[2]}, d>>)
  <2>1. PICK W \in SUBSET Places(I) : at \in W /\ Closed(W, deps)
    BY <1>1
  <2>2. at[2] \in at[1] \/ \E d \in deps[at[2]] : <<at[1] \cup {at[2]}, d>> \in W
    BY <2>1 DEF Closed
  <2> QED BY <2>1, <2>2
<1>2. ASSUME NEW at \in Places(I), at[2] \in at[1]
      PROVE  Found(at)
  <2>1. Closed({at}, deps) /\ {at} \in SUBSET Places(I)
    BY <1>2 DEF Closed
  <2> QED BY <2>1
<1>3. ASSUME NEW at \in Places(I), NEW d \in deps[at[2]], Found(<<at[1] \cup {at[2]}, d>>)
      PROVE  Found(at)
  <2>1. PICK W \in SUBSET Places(I) : <<at[1] \cup {at[2]}, d>> \in W /\ Closed(W, deps)
    BY <1>3
  <2>2. PICK V : V = W \cup {at}
    OBVIOUS
  <2>3. V \in SUBSET Places(I) /\ at \in V
    BY <2>2
  <2>4. Closed(V, deps)
    BY <2>1, <2>2 DEF Closed
  <2> QED BY <2>3, <2>4
<1>4. \A at \in Places(I) :
        Found(at) <=> at[2] \in at[1] \/ \E d \in deps[at[2]] : Found(<<at[1] \cup {at[2]}, d>>)
  BY <1>1, <1>2, <1>3
<1>5. PICK g : g = f
  OBVIOUS
<1>6. \A at \in Places(I) : g[at] <=> Found(at)
  BY <1>5
<1>7. \A at \in Places(I) :
        Found(at) <=> at[2] \in at[1] \/ \E d \in deps[at[2]] : g[<<at[1] \cup {at[2]}, d>>]
  <2> HIDE DEF Found, f
  <2> QED BY <1>4, <1>6, PlacesNext
<1>8. \A at \in Places(I) :
        Found(at) = (at[2] \in at[1] \/ \E d \in deps[at[2]] : g[<<at[1] \cup {at[2]}, d>>])
  BY <1>7
<1>9. g = [at \in Places(I) |-> Found(at)]
  BY <1>5
<1> HIDE DEF Found, f
<1>10. g = [at \in Places(I) |->
              at[2] \in at[1] \/ \E d \in deps[at[2]] : g[<<at[1] \cup {at[2]}, d>>]]
  BY <1>8, <1>9
<1> QED BY <1>10 DEF IsSearch

\* The search ends: each step takes a package more onto its path.
\* The equation at one place, and what the search says.
Unfolds(f, I, deps) ==
  \A s \in SUBSET I, x \in I :
    f[<<s, x>>] <=> x \in s \/ \E d \in deps[x] : f[<<s \cup {x}, d>>]

Finds(f, I) == \E id \in I : f[<<{}, id>>]

LEMMA SearchAt ==
  ASSUME NEW I, NEW deps \in [I -> SUBSET I], NEW f, IsSearch(f, I, deps)
  PROVE  Unfolds(f, I, deps)
<1> SUFFICES ASSUME NEW s \in SUBSET I, NEW x \in I
             PROVE  f[<<s, x>>] <=> x \in s \/ \E d \in deps[x] : f[<<s \cup {x}, d>>]
  BY DEF Unfolds
<1>1. \A at \in Places(I) :
        f[at] <=> at[2] \in at[1] \/ \E d \in deps[at[2]] : f[<<at[1] \cup {at[2]}, d>>]
  BY DEF IsSearch
<1>2. PICK at : at = <<s, x>>
  OBVIOUS
<1>3. at \in Places(I) /\ at[1] = s /\ at[2] = x
  BY <1>2 DEF Places
<1>4. f[at] <=> x \in s \/ \E d \in deps[x] : f[<<s \cup {x}, d>>]
  BY <1>1, <1>3
<1> QED BY <1>2, <1>4

\* The packages left to put on a path become fewer.
LEMMA PathsEnd ==
  ASSUME NEW I, IsFiniteSet(I), NEW s \in SUBSET I, NEW x \in I, x \notin s
  PROVE  /\ Cardinality(I \ s) \in Nat /\ Cardinality(I \ (s \cup {x})) \in Nat
         /\ Cardinality(I \ (s \cup {x})) < Cardinality(I \ s)
<1>1. PICK A, B : A = I \ s /\ B = I \ (s \cup {x})
  OBVIOUS
<1>2. B = A \ {x} /\ x \in A /\ IsFiniteSet(A) /\ IsFiniteSet(B)
  BY <1>1, FS_Subset
<1>3. Cardinality(A) \in Nat /\ Cardinality(B) \in Nat
  BY <1>2, FS_CardinalityType
<1>4. Cardinality(B) = Cardinality(A) - 1
  BY <1>2, FS_RemoveElement
<1>5. Cardinality(B) < Cardinality(A)
  BY <1>3, <1>4
<1> QED BY <1>1, <1>3, <1>5

LEMMA SearchFinds ==
  ASSUME NEW I, IsFiniteSet(I), NEW deps \in [I -> SUBSET I], NEW f, IsSearch(f, I, deps),
         NEW S \in SUBSET I, \A x \in S : deps[x] \cap S # {}, NEW id \in S
  PROVE  f[<<{}, id>>]
<1> SUFFICES ASSUME ~f[<<{}, id>>] PROVE FALSE
  OBVIOUS
<1> DEFINE Misses(s, x) == x \in S /\ ~f[<<s, x>>]
           T == {n \in Nat : \E s \in SUBSET I, x \in S :
                               Misses(s, x) /\ n = Cardinality(I \ s)}
<1>1. \A s \in SUBSET I, x \in I :
        f[<<s, x>>] <=> x \in s \/ \E d \in deps[x] : f[<<s \cup {x}, d>>]
  <2>1. Unfolds(f, I, deps)
    BY SearchAt
  <2> QED BY <2>1 DEF Unfolds
<1>2. \A s \in SUBSET I : Cardinality(I \ s) \in Nat /\ IsFiniteSet(I \ s)
  BY FS_Subset, FS_CardinalityType
<1>3. ASSUME NEW s \in SUBSET I, NEW x \in S, Misses(s, x)
      PROVE  /\ \E y \in S : Misses(s \cup {x}, y)
             /\ Cardinality(I \ (s \cup {x})) < Cardinality(I \ s)
  <2>1. x \notin s /\ \A d \in deps[x] : ~f[<<s \cup {x}, d>>]
    BY <1>1, <1>3
  <2>2. PICK y \in S : y \in deps[x]
    OBVIOUS
  <2>3. Misses(s \cup {x}, y)
    BY <2>1, <2>2
  <2>4. Cardinality(I \ (s \cup {x})) < Cardinality(I \ s)
    BY <2>1, PathsEnd
  <2> QED BY <2>3, <2>4
<1>4. Misses({}, id)
  OBVIOUS
<1> HIDE DEF Misses
<1>5. T \subseteq Nat /\ T # {}
  <2>1. Cardinality(I \ {}) \in T
    BY <1>2, <1>4
  <2> QED BY <2>1
<1>6. PICK n \in T : \A m \in T : n <= m
  <2> HIDE DEF T
  <2> QED BY <1>5, FirstOf
<1>7. PICK s \in SUBSET I, x \in S : Misses(s, x) /\ n = Cardinality(I \ s)
  BY <1>6
<1>8. PICK m : m = Cardinality(I \ (s \cup {x}))
  OBVIOUS
<1>9. m \in Nat /\ m \in T /\ m < n
  BY <1>2, <1>3, <1>7, <1>8
<1>10. n \in Nat
  OBVIOUS
<1> HIDE DEF T
<1> QED BY <1>6, <1>9, <1>10

LEMMA IdsFinite ==
  ASSUME NEW plan, PackageList(plan)
  PROVE  IsFiniteSet(IdsOf(plan))
<1>1. PICK n \in Nat : DOMAIN plan = 1 .. n
  BY ListFacts
<1>2. IsFiniteSet(DOMAIN plan)
  BY <1>1, FS_Interval
<1>3. IdsOf(plan) = {plan[i].id : i \in DOMAIN plan}
  BY DEF IdsOf
<1> DEFINE g == [i \in DOMAIN plan |-> plan[i].id]
<1>4. g \in Surjection(DOMAIN plan, IdsOf(plan))
  BY <1>3 DEF Surjection
<1> QED BY <1>2, <1>4, FS_Surjection

\* What the search finds is a cycle: packages each of which depends on one of
\* them.  Leads(x, y): following dependencies from x one comes to y.
LEMMA FoundIsCycle ==
  ASSUME NEW I, IsFiniteSet(I), NEW deps \in [I -> SUBSET I], NEW f, IsSearch(f, I, deps),
         NEW id \in I, f[<<{}, id>>]
  PROVE  \E S \in SUBSET I : S # {} /\ \A x \in S : deps[x] \cap S # {}
<1> DEFINE Leads(x, y) ==
             \A W \in SUBSET I : deps[x] \subseteq W /\ (\A w \in W : deps[w] \subseteq W) => y \in W
           Chain(s, x) == f[<<s, x>>] /\ \A y \in s : Leads(y, x)
           T == {n \in Nat : \E s \in SUBSET I, x \in I : Chain(s, x) /\ n = Cardinality(I \ s)}
<1>1. \A x \in I : \A d \in deps[x] : Leads(x, d)
  OBVIOUS
<1>2. \A x, y \in I : \A d \in deps[y] : Leads(x, y) => Leads(x, d)
  OBVIOUS
<1>3. \A x, z \in I : \A d \in deps[x] : Leads(d, z) => Leads(x, z)
  <2> SUFFICES ASSUME NEW x \in I, NEW z \in I, NEW d \in deps[x], Leads(d, z),
                      NEW W \in SUBSET I, deps[x] \subseteq W, \A w \in W : deps[w] \subseteq W
               PROVE  z \in W
    OBVIOUS
  <2>1. deps[d] \subseteq W
    OBVIOUS
  <2> QED BY <2>1
<1>4. ASSUME NEW x \in I, Leads(x, x)
      PROVE  \E S \in SUBSET I : S # {} /\ \A z \in S : deps[z] \cap S # {}
  <2> DEFINE S == {z \in I : Leads(z, x)}
  <2>1. x \in S
    BY <1>4
  <2>2. ASSUME NEW z \in S, deps[z] \cap S = {} PROVE FALSE
    <3>1. PICK W : W = I \ S
      OBVIOUS
    <3>2. W \in SUBSET I /\ deps[z] \subseteq W
      BY <3>1, <2>2
    <3>3. ASSUME NEW w \in W, NEW d \in deps[w] PROVE d \in W
      <4>1. w \in I /\ d \in I /\ ~Leads(w, x)
        BY <3>1
      <4>2. ~Leads(d, x)
        <5> HIDE DEF Leads
        <5> QED BY <1>3, <4>1
      <4> QED BY <3>1, <4>1, <4>2
    <3>4. Leads(z, x)
      OBVIOUS
    <3>5. x \in W
      BY <3>2, <3>3, <3>4
    <3> QED BY <2>1, <3>1, <3>5
  <2> QED BY <2>1, <2>2
<1> HIDE DEF Leads
<1> SUFFICES ASSUME \A x \in I : ~Leads(x, x) PROVE FALSE
  BY <1>4
<1>5. ASSUME NEW s \in SUBSET I, NEW x \in I, Chain(s, x)
      PROVE  x \notin s /\ \E y \in I : Chain(s \cup {x}, y)
  <2>1. x \notin s
    BY <1>5
  <2>2. PICK d \in deps[x] : f[<<s \cup {x}, d>>]
    <3>1. Unfolds(f, I, deps)
      BY SearchAt
    <3> QED BY <1>5, <2>1, <3>1 DEF Unfolds
  <2>3. d \in I /\ \A y \in s \cup {x} : Leads(y, d)
    BY <1>1, <1>2, <1>5
  <2> QED BY <2>1, <2>2, <2>3
<1>6. Chain({}, id)
  OBVIOUS
<1>7. \A s \in SUBSET I : Cardinality(I \ s) \in Nat
  BY FS_Subset, FS_CardinalityType
<1> HIDE DEF Chain
<1>8. T \subseteq Nat /\ T # {}
  <2>1. Cardinality(I \ {}) \in T
    BY <1>6, <1>7
  <2> QED BY <2>1
<1>9. PICK n \in T : \A m \in T : n <= m
  <2> HIDE DEF T
  <2> QED BY <1>8, FirstOf
<1>10. PICK s \in SUBSET I, x \in I : Chain(s, x) /\ n = Cardinality(I \ s)
  BY <1>9
<1>11. PICK m : m = Cardinality(I \ (s \cup {x}))
  OBVIOUS
<1>12. m \in Nat /\ n \in Nat /\ m \in T /\ m < n
  BY <1>5, <1>10, <1>11, PathsEnd
<1> HIDE DEF T
<1> QED BY <1>9, <1>12

DependenciesOf(plan) == [id \in IdsOf(plan) |-> Contract(plan, id).deps]

Decides(f, plan) ==
  /\ IsSearch(f, IdsOf(plan), DependenciesOf(plan))
  /\ FindsCycle(plan) <=> Finds(f, IdsOf(plan))

\* The function that FindsCycle chooses is the search over the dependencies.
LEMMA FindsCycleSearches ==
  ASSUME NEW plan, KnownDependencies(plan)
  PROVE  /\ DependenciesOf(plan) \in [IdsOf(plan) -> SUBSET IdsOf(plan)]
         /\ \E f : Decides(f, plan)
<1> DEFINE I == IdsOf(plan)
           deps == DependenciesOf(plan)
           visit == CHOOSE visit :
             visit = [at \in (SUBSET IdsOf(plan)) \X IdsOf(plan) |->
                        \/ at[2] \in at[1]
                        \/ \E d \in Contract(plan, at[2]).deps :
                             visit[<<at[1] \cup {at[2]}, d>>]]
<1>1. deps \in [I -> SUBSET I]
  BY DEF KnownDependencies, DependenciesOf
<1>2. FindsCycle(plan) <=> Finds(visit, I)
  BY Zenon DEF FindsCycle, Finds
<1>3. IsSearch(visit, I, deps)
  <2>1. \A at \in Places(I) : deps[at[2]] = Contract(plan, at[2]).deps
    BY DEF Places, DependenciesOf
  <2>2. \A f : IsSearch(f, I, deps) <=>
          f = [at \in (SUBSET IdsOf(plan)) \X IdsOf(plan) |->
                 \/ at[2] \in at[1]
                 \/ \E d \in Contract(plan, at[2]).deps : f[<<at[1] \cup {at[2]}, d>>]]
    <3> HIDE DEF deps
    <3> QED BY <2>1 DEF IsSearch, Places
  <2>3. \E f : IsSearch(f, I, deps)
    <3> HIDE DEF deps, I
    <3> QED BY <1>1, SearchExists
  <2>4. \E f : f = [at \in (SUBSET IdsOf(plan)) \X IdsOf(plan) |->
                      \/ at[2] \in at[1]
                      \/ \E d \in Contract(plan, at[2]).deps : f[<<at[1] \cup {at[2]}, d>>]]
    BY <2>2, <2>3, Zenon
  <2>5. visit = [at \in (SUBSET IdsOf(plan)) \X IdsOf(plan) |->
                   \/ at[2] \in at[1]
                   \/ \E d \in Contract(plan, at[2]).deps : visit[<<at[1] \cup {at[2]}, d>>]]
    BY <2>4, Zenon
  <2> QED BY <2>2, <2>5, Zenon
<1>4. Decides(visit, plan)
  BY <1>2, <1>3 DEF Decides
<1> HIDE DEF visit
<1> QED BY <1>1, <1>4

\* validate_dag is exact: among packages whose dependencies exist it refuses
\* those that have no order and only those, however many there are.
THEOREM CycleCheckIsExact ==
  ASSUME NEW plan, PackageList(plan), KnownDependencies(plan)
  PROVE  FindsCycle(plan) <=> ~Acyclic(plan)
<1> DEFINE I == IdsOf(plan)
           deps == DependenciesOf(plan)
<1>1. Acyclic(plan) <=> \A S \in (SUBSET I) \ {{}} : \E id \in S : deps[id] \cap S = {}
  BY DEF Acyclic, DependenciesOf
<1>2. deps \in [I -> SUBSET I] /\ IsFiniteSet(I)
  BY FindsCycleSearches, IdsFinite
<1>3. PICK f : Decides(f, plan)
  BY FindsCycleSearches
<1>4. IsSearch(f, I, deps) /\ (FindsCycle(plan) <=> Finds(f, I))
  BY <1>3 DEF Decides
<1> HIDE DEF I, deps
<1>5. ASSUME FindsCycle(plan) PROVE ~Acyclic(plan)
  <2>1. PICK id \in I : f[<<{}, id>>]
    BY <1>4, <1>5 DEF Finds
  <2>2. PICK S \in SUBSET I : S # {} /\ \A x \in S : deps[x] \cap S # {}
    BY <1>2, <1>4, <2>1, FoundIsCycle
  <2> QED BY <1>1, <2>2
<1>6. ASSUME ~Acyclic(plan) PROVE FindsCycle(plan)
  <2>1. PICK S \in SUBSET I : S # {} /\ \A x \in S : deps[x] \cap S # {}
    BY <1>1, <1>6
  <2>2. PICK id \in S : TRUE
    BY <2>1
  <2>3. f[<<{}, id>>]
    BY <1>2, <1>4, <2>1, SearchFinds
  <2> QED BY <1>4, <2>3 DEF Finds
<1> QED BY <1>5, <1>6

-----------------------------------------------------------------------------
(***************************************************************************)
(* Overlaps                                                                *)
(***************************************************************************)
\* Of some positions in a list one has the highest value.
LEMMA HighestOf ==
  ASSUME NEW n \in Nat, NEW f, \A i \in 1 .. n : f[i] \in Nat,
         NEW S \in SUBSET (1 .. n), S # {}
  PROVE  \E i \in S : \A j \in S : f[j] <= f[i]
<1> DEFINE Has(k) == \E i \in S : i <= k /\ \A j \in S : j <= k => f[j] <= f[i]
           Bad == {k \in Nat : k <= n /\ (\E i \in S : i <= k) /\ ~Has(k)}
<1>1. ASSUME Bad # {} PROVE FALSE
  <2>1. PICK k \in Bad : \A h \in Bad : k <= h
    BY <1>1, FirstOf
  <2>2. k \in Nat /\ k <= n /\ ~Has(k) /\ \E i \in S : i <= k
    OBVIOUS
  <2>3. PICK x \in S : x <= k
    BY <2>2
  <2>4. x \in 1 .. n /\ k - 1 \in Nat /\ k - 1 \notin Bad
    <3>1. x \in 1 .. n /\ k - 1 \in Nat /\ ~(k <= k - 1)
      BY <2>2, <2>3
    <3> HIDE DEF Bad
    <3> QED BY <2>1, <3>1
  <2>5. CASE \E i \in S : i <= k - 1
    <3>1. Has(k - 1)
      <4>1. \A h : h \in Nat /\ h <= n /\ (\E i \in S : i <= h) /\ h \notin Bad => Has(h)
        OBVIOUS
      <4> HIDE DEF Has, Bad
      <4>2. k - 1 <= n
        BY <2>2
      <4> QED BY <2>4, <2>5, <4>1, <4>2
    <3>2. PICK i \in S : i <= k - 1 /\ \A j \in S : j <= k - 1 => f[j] <= f[i]
      BY <3>1
    <3>3. f[i] \in Nat /\ \A j \in S : f[j] \in Nat /\ j \in Nat
      OBVIOUS
    <3>4. CASE k \in S /\ f[i] <= f[k]
      BY <2>2, <3>2, <3>3, <3>4
    <3>5. CASE k \notin S \/ f[k] <= f[i]
      BY <2>2, <3>2, <3>3, <3>5
    <3> QED BY <3>3, <3>4, <3>5
  <2>6. CASE \A i \in S : ~(i <= k - 1)
    <3>1. x = k /\ \A j \in S : j <= k => j = x
      BY <2>2, <2>3, <2>6
    <3> QED BY <2>2, <3>1
  <2> QED BY <2>5, <2>6
<1>2. \A h : h \in Nat /\ h <= n /\ (\E i \in S : i <= h) /\ h \notin Bad => Has(h)
  OBVIOUS
<1>3. \A i \in S : i <= n
  OBVIOUS
<1> HIDE DEF Bad
<1>4. n \notin Bad
  BY <1>1
<1> HIDE DEF Has
<1>5. Has(n)
  <2>1. n \in Nat /\ n <= n
    OBVIOUS
  <2>2. \E i \in S : i <= n
    BY <1>3
  <2> QED BY <1>2, <1>4, <2>1, <2>2
<1> USE DEF Has
<1> QED BY <1>3, <1>5

\* Who owns what once overlaps are resolved: a path that several packages
\* claim stays with the one whose number is highest and with no other, and no
\* path that was claimed is lost, for every list of packages (which may list a
\* package twice).  So what validation later finds shared was given to
\* scaffolding afterwards.
THEOREM OverlapsAreResolved ==
  ASSUME NEW plan, PackageList(plan)
  PROVE  /\ OwnedPaths(ResolveOverlaps(plan)) = OwnedPaths(plan)
         /\ \A i, j \in DOMAIN plan :
              plan[i].id # plan[j].id =>
                ResolveOverlaps(plan)[i].owned \cap ResolveOverlaps(plan)[j].owned = {}
         /\ \A i, j \in DOMAIN plan :
              \A p \in ResolveOverlaps(plan)[i].owned \cap plan[j].owned :
                Number[plan[j].id] <= Number[plan[i].id]
<1> DEFINE Claims(p) == {j \in DOMAIN plan : p \in plan[j].owned}
           Claimants(p) == {plan[i].id : i \in Claims(p)}
           Winner(p) == CHOOSE w \in Claimants(p) :
                          \A c \in Claimants(p) : Number[c] <= Number[w]
           Cede(package) == [package EXCEPT !.owned = {p \in @ : Winner(p) = package.id}]
<1>1. ResolveOverlaps(plan) = [i \in DOMAIN plan |-> Cede(plan[i])]
  BY DEF ResolveOverlaps
<1>2. PICK n \in Nat : DOMAIN plan = 1 .. n
  BY ListFacts
<1>3. \A i \in DOMAIN plan : DOMAIN plan[i] = Fields /\ plan[i].id \in Ids
  BY ListFacts
<1>4. \A p : Claims(p) # {} =>
        /\ Winner(p) \in Claimants(p)
        /\ \A c \in Claimants(p) : Number[c] <= Number[Winner(p)]
  <2> SUFFICES ASSUME NEW p, Claims(p) # {}
               PROVE  \E w \in Claimants(p) : \A c \in Claimants(p) : Number[c] <= Number[w]
    OBVIOUS
  <2> DEFINE number == [i \in 1 .. n |-> Number[plan[i].id]]
  <2>1. \A i \in 1 .. n : number[i] \in Nat
    BY <1>2, <1>3, ContractsAssumption
  <2>2. Claims(p) \in SUBSET (1 .. n)
    BY <1>2
  <2>3. \A i \in Claims(p) : number[i] = Number[plan[i].id]
    BY <2>2
  <2> HIDE DEF number, Claims
  <2>4. PICK i \in Claims(p) : \A j \in Claims(p) : number[j] <= number[i]
    BY <2>1, <2>2, HighestOf
  <2> QED BY <2>3, <2>4
<1>5. \A i \in DOMAIN plan :
        Cede(plan[i]).owned = {p \in plan[i].owned : Winner(p) = plan[i].id}
  BY <1>3 DEF Fields
<1>6. \A i \in DOMAIN plan :
        ResolveOverlaps(plan)[i].owned = {p \in plan[i].owned : Winner(p) = plan[i].id}
  BY <1>1, <1>5
<1> HIDE DEF Winner, Cede
<1>7. DOMAIN ResolveOverlaps(plan) = DOMAIN plan
  BY <1>1
<1>8. ASSUME NEW i \in DOMAIN plan, NEW p \in plan[i].owned
      PROVE  \E k \in DOMAIN plan : p \in ResolveOverlaps(plan)[k].owned
  <2>1. PICK k \in Claims(p) : plan[k].id = Winner(p)
    BY <1>4, <1>8
  <2> QED BY <1>6, <2>1
<1>9. OwnedPaths(ResolveOverlaps(plan)) = OwnedPaths(plan)
  BY <1>6, <1>7, <1>8 DEF OwnedPaths
<1>10. ASSUME NEW i \in DOMAIN plan, NEW j \in DOMAIN plan,
              NEW p \in ResolveOverlaps(plan)[i].owned \cap plan[j].owned
       PROVE  Number[plan[j].id] <= Number[plan[i].id]
  BY <1>4, <1>6, <1>10
<1> QED BY <1>6, <1>9, <1>10

-----------------------------------------------------------------------------
(***************************************************************************)
(* Records                                                                 *)
(***************************************************************************)
LEMMA NoPlanFacts ==
  /\ PlanForm(NoPlan) /\ NoPlan.run = 0 /\ NoPlan.packages = <<>>
  /\ ~NoPlan.approved /\ ~NoPlan.rejected
<1>1. NoPlan = [run |-> 0, packages |-> <<>>, approved |-> FALSE, rejected |-> FALSE]
  BY DEF NoPlan
<1>2. 0 \in Runs \cup {0} /\ PackageList(<<>>) /\ FALSE \in BOOLEAN
  BY EmptyList
<1>3. PICK e : e = <<>>
  OBVIOUS
<1>4. NoPlan = [run |-> 0, packages |-> e, approved |-> FALSE, rejected |-> FALSE]
  BY <1>1, <1>3, Zenon
<1>5. PackageList(e)
  BY <1>2, <1>3, Zenon
<1>6. /\ PlanForm(NoPlan) /\ NoPlan.run = 0 /\ NoPlan.packages = e
      /\ ~NoPlan.approved /\ ~NoPlan.rejected
  <2> HIDE DEF NoPlan
  <2> QED BY <1>2, <1>4, <1>5 DEF PlanForm, PendingPlan
<1> QED BY <1>3, <1>6

LEMMA TornFacts == PlanForm(Torn) /\ ~Torn.approved
<1>1. PICK q : q = NoPlan
  OBVIOUS
<1>2. PlanForm(q) /\ ~q.approved
  BY <1>1, NoPlanFacts, Zenon
<1>3. Torn = [q EXCEPT !.rejected = TRUE]
  BY <1>1, Zenon DEF Torn
<1>4. Torn = [run |-> q.run, packages |-> q.packages, approved |-> q.approved, rejected |-> TRUE]
  BY <1>2, <1>3 DEF PlanForm
<1> QED BY <1>2, <1>4 DEF PlanForm, PendingPlan

LEMMA OpMade ==
  ASSUME NEW pc \in OpAt, NEW r \in Runs \cup {0}, pc \notin {"idle"} \cup Writing => r # 0,
         NEW p, PlanForm(p), NEW l, PackageList(l),
         NEW o, o = [pc |-> pc, run |-> r, payload |-> p, contracts |-> l]
  PROVE  OpForm(o) /\ o.pc = pc /\ o.run = r /\ o.payload = p /\ o.contracts = l
BY DEF OpForm

LEMMA IdleForm ==
  \E l : /\ PackageList(l)
         /\ Idle = [pc |-> "idle", run |-> 0, payload |-> NoPlan, contracts |-> l]
<1>1. PICK e : e = <<>>
  OBVIOUS
<1>2. Idle = [pc |-> "idle", run |-> 0, payload |-> NoPlan, contracts |-> e]
  BY <1>1, Zenon DEF Idle
<1>3. PackageList(e)
  BY <1>1, EmptyList, Zenon
<1> QED BY <1>2, <1>3, Zenon

LEMMA IdleFacts ==
  /\ OpForm(Idle) /\ Idle.pc = "idle" /\ Idle.run = 0 /\ Idle.payload = NoPlan
  /\ PackageList(Idle.contracts) /\ ~Idle.payload.approved
<1>1. PICK l : /\ PackageList(l)
               /\ Idle = [pc |-> "idle", run |-> 0, payload |-> NoPlan, contracts |-> l]
  BY IdleForm
<1>2. "idle" \in OpAt
  BY DEF OpAt
<1> QED BY <1>1, <1>2, NoPlanFacts DEF OpForm

\* A command that moves on.
LEMMA OpMoves ==
  ASSUME NEW d, OpForm(d), NEW pc \in OpAt, d.run # 0, NEW o, o = [d EXCEPT !.pc = pc]
  PROVE  /\ OpForm(o) /\ o.pc = pc /\ o.run = d.run
         /\ o.payload = d.payload /\ o.contracts = d.contracts
<1>1. o = [pc |-> pc, run |-> d.run, payload |-> d.payload, contracts |-> d.contracts]
  BY DEF OpForm
<1> QED BY <1>1, OpMade DEF OpForm

LEMMA OpWrites ==
  ASSUME NEW p, PlanForm(p), NEW pc \in Writing, WritesBack(pc, p)
  PROVE  OpForm(op') /\ op'.pc = pc /\ op'.payload = p
<1>1. PICK l : /\ PackageList(l)
               /\ Idle = [pc |-> "idle", run |-> 0, payload |-> NoPlan, contracts |-> l]
  BY IdleForm
<1>2. op' = [pc |-> pc, run |-> 0, payload |-> p, contracts |-> l]
  BY <1>1 DEF WritesBack
<1>3. pc \in OpAt
  BY DEF OpAt, Writing
<1> QED BY <1>1, <1>2, <1>3 DEF OpForm

LEMMA TickMade ==
  ASSUME NEW pc \in {"idle", "loaded", "working", "dead"}, NEW l, PackageList(l),
         NEW k, k = [pc |-> pc, contracts |-> l]
  PROVE  TickForm(k) /\ k.pc = pc /\ k.contracts = l
BY DEF TickForm

LEMMA RestingFacts == TickForm(Resting) /\ Resting.pc = "idle"
<1>1. PICK e : e = <<>>
  OBVIOUS
<1>2. Resting = [pc |-> "idle", contracts |-> e] /\ PackageList(e)
  BY <1>1, EmptyList, Zenon DEF Resting
<1> QED BY <1>2, TickMade

\* TypeInv is TypeOK with the records' forms.
LEMMA TypesSuffice == TypeInv => TypeOK
BY DEF TypeInv, TypeOK, JobStatus, PlannerAt, OpAt, PlanForm, OpForm, TickForm

LEMMA RunsFacts == /\ \A r \in Runs : r \in Nat /\ r # 0 /\ r <= MaxRuns
                   /\ MaxRuns \in Nat /\ MaxCommands \in Nat
BY PlanningAssumption DEF Runs

-----------------------------------------------------------------------------
(***************************************************************************)
(* What a step leaves alone                                                *)
(***************************************************************************)
\* A step that neither touches the files of an approval nor moves one on.
LEMMA ApprovalFrame ==
  ASSUME Approved,
         UNCHANGED <<pending, charter, frozen, repaired, tasks, sanctioned, cutOff, tick>>,
         op' = op \/ /\ op.pc # "creating" /\ op'.pc \in {"idle", "spawning", "planning"}
                     /\ ~op'.payload.approved
  PROVE  Approved'
<1>1. Validated'
  BY DEF Validated, Approved
<1>2. CASE op' = op
  <2>1. Approving' /\ Sanctioned'
    BY <1>2 DEF Approved, Approving, Sanctioned, BeingApproved
  <2>2. NoRenames => Covered' /\ InForce'
    BY <1>2 DEF Approved, Covered, InForce, Matches
  <2> QED BY <1>1, <2>1, <2>2 DEF Approved
<1>3. CASE /\ op.pc # "creating" /\ op'.pc \in {"idle", "spawning", "planning"}
           /\ ~op'.payload.approved
  <2>1. Approving'
    BY <1>3 DEF Approved, Approving
  <2>2. Sanctioned'
    BY <1>3 DEF Approved, Sanctioned, BeingApproved
  <2>3. NoRenames => Covered' /\ InForce'
    BY <1>3 DEF Approved, Covered, InForce, Matches
  <2> QED BY <1>1, <2>1, <2>2, <2>3 DEF Approved
<1> QED BY <1>2, <1>3

\* A step that has nothing to do with planners.
LEMMA JobFrame ==
  ASSUME OneJob, UNCHANGED <<jobs, fresh, planner, started>>,
         op'.pc \in {"spawning", "planning"} => op' = op
  PROVE  OneJob'
BY DEF OneJob, PlanningJobs, Live, Running

\* A planner moves on, or is over.
LEMMA PlannerMoves ==
  ASSUME TypeInv, OneJob, UNCHANGED <<jobs, fresh, started>>,
         NEW r \in Runs, r <= started, planner[r] # "none" \/ op.pc = "planning",
         NEW x \in PlannerAt, x # "spawned", Live(r) \/ x = "over",
         planner' = [planner EXCEPT ![r] = x],
         op'.pc \in {"spawning", "planning"} => op' = op
  PROVE  OneJob' /\ planner' \in [Runs -> PlannerAt]
<1>1. planner \in [Runs -> PlannerAt]
  BY DEF TypeInv
<1>2. planner'[r] = x /\ \A q \in Runs : q # r => planner'[q] = planner[q]
  BY <1>1
<1>3. \A q \in Runs : Live(q)' => Live(q)
  BY <1>2 DEF Live, Running
<1>4. planner' \in [Runs -> PlannerAt]
  BY <1>1
<1>5. \A q \in Runs : q > started => q # r
  BY RunsFacts DEF TypeInv
<1>6. \A q \in Runs : q > started' => jobs'[q] = "none" /\ planner'[q] = "none"
  BY <1>2, <1>5 DEF OneJob
<1>7. \A p, q \in PlanningJobs' : p = q
  BY DEF OneJob, PlanningJobs
<1>8. \A q \in Runs : Live(q)' /\ jobs'[q] # "none" => jobs'[q] = "planning"
  BY <1>3 DEF OneJob
<1>9. \A q \in Runs : planner'[q] = "spawned" => q \in fresh'
  BY <1>2 DEF OneJob
<1>10. op'.pc = "spawning" =>
         op'.run \in fresh' /\ jobs'[op'.run] = "planning" /\ planner'[op'.run] = "none"
  <2> SUFFICES ASSUME op'.pc = "spawning"
               PROVE  op'.run \in fresh' /\ jobs'[op'.run] = "planning" /\ planner'[op'.run] = "none"
    OBVIOUS
  <2>1. op' = op /\ op.pc = "spawning"
    OBVIOUS
  <2>2. op.run \in fresh /\ jobs[op.run] = "planning" /\ planner[op.run] = "none"
    BY <2>1 DEF OneJob
  <2>3. op.run # r /\ op.run \in Runs
    BY <2>1, <2>2 DEF TypeInv
  <2> QED BY <1>2, <2>1, <2>2, <2>3
<1>11. op'.pc = "planning" => op'.run <= started'
  BY DEF OneJob
<1> QED BY <1>4, <1>6, <1>7, <1>8, <1>9, <1>10, <1>11 DEF OneJob

-----------------------------------------------------------------------------
(***************************************************************************)
(* Starting a planning run                                                 *)
(***************************************************************************)
LEMMA NextRun ==
  ASSUME TypeInv, started < MaxRuns
  PROVE  started + 1 \in Runs /\ started + 1 \in 0 .. MaxRuns /\ started \in Nat
BY RunsFacts DEF TypeInv, Runs

LEMMA SubmitInv ==
  ASSUME IInv, NEW replace \in BOOLEAN, Submit(replace)
  PROVE  IInv'
<1>1. PICK n : n = started + 1
  OBVIOUS
<1>2. /\ op.pc = "idle" /\ started < MaxRuns /\ ~Busy /\ started' = n
      /\ jobs' = [r \in Runs |-> IF r = n THEN "planning"
                                 ELSE IF Active(r) THEN "failed" ELSE jobs[r]]
      /\ fresh' = fresh \cup {n}
      /\ op' = [Idle EXCEPT !.pc = "spawning", !.run = n]
      /\ UNCHANGED <<planner, pending, documents, charter, frozen, tasks, repairs,
                     tick, commands, history>>
  BY <1>1 DEF Submit
<1>3. TypeInv /\ OneJob /\ Approved
  BY DEF IInv
<1>4. n \in Runs /\ n \in 0 .. MaxRuns /\ n > started /\ started \in Nat
  BY <1>1, <1>2, <1>3, NextRun
<1>5. "spawning" \in OpAt
  BY DEF OpAt
<1>6. OpForm(op') /\ op'.pc = "spawning" /\ op'.run = n /\ op'.payload = NoPlan
  <2>1. PICK l : /\ PackageList(l)
                 /\ Idle = [pc |-> "idle", run |-> 0, payload |-> NoPlan, contracts |-> l]
    BY IdleForm
  <2>2. op' = [pc |-> "spawning", run |-> n, payload |-> NoPlan, contracts |-> l]
    BY <1>2, <2>1
  <2>3. n # 0 /\ n \in Runs \cup {0}
    BY <1>4, RunsFacts
  <2> QED BY <1>5, <2>1, <2>2, <2>3, OpMade, NoPlanFacts
<1>7. jobs' \in [Runs -> JobStatus]
  BY <1>2, <1>3 DEF TypeInv, JobStatus
<1>8. TypeInv'
  <2>1. fresh' \subseteq Runs /\ started' \in 0 .. MaxRuns
    BY <1>2, <1>3, <1>4 DEF TypeInv
  <2>2. UNCHANGED <<planner, pending, documents, charter, frozen, tasks, repairs, tick, commands>>
    BY <1>2
  <2> QED BY <1>3, <1>6, <1>7, <2>1, <2>2 DEF TypeInv
<1>9. planner[n] = "none" /\ jobs[n] = "none"
  BY <1>3, <1>4 DEF OneJob
<1>10. \A r \in Runs : jobs[r] = "planning" => Active(r)
  BY <1>3, RunsFacts DEF OneJob, Active, PlanningJobs
<1>11. \A r \in Runs : r # n => jobs'[r] = IF Active(r) THEN "failed" ELSE jobs[r]
  BY <1>2
<1>12. jobs'[n] = "planning"
  BY <1>2, <1>4
<1>13. \A r \in Runs : r # n => jobs'[r] # "planning"
  BY <1>10, <1>11
<1>14. \A r \in Runs : Live(r)' /\ jobs'[r] # "none" => jobs'[r] = "planning"
  <2> SUFFICES ASSUME NEW r \in Runs, Live(r), jobs'[r] # "none", r # n PROVE FALSE
    BY <1>2, <1>12 DEF Live, Running
  <2>1. jobs[r] # "none"
    BY <1>11 DEF Active, PlanningJobs
  <2>2. Active(r)
    BY <2>1, <1>3, <1>10 DEF OneJob
  <2>3. Running(r) \/ r \in fresh
    BY <1>3 DEF Live, OneJob
  <2> QED BY <1>2, <2>2, <2>3 DEF Busy
<1>15. \A r \in Runs : r > started' => jobs'[r] = "none" /\ planner'[r] = "none"
  <2> SUFFICES ASSUME NEW r \in Runs, r > n PROVE jobs'[r] = "none" /\ planner'[r] = "none"
    BY <1>2
  <2>1. r > started /\ r # n
    BY <1>1, <1>4, RunsFacts
  <2>2. jobs[r] = "none" /\ planner[r] = "none"
    BY <1>3, <2>1 DEF OneJob
  <2>3. ~Active(r)
    BY <2>2 DEF Active, PlanningJobs
  <2> QED BY <1>2, <1>11, <2>1, <2>2, <2>3
<1>16. \A q, r \in PlanningJobs' : q = r
  BY <1>13 DEF PlanningJobs
<1>17. \A r \in Runs : planner'[r] = "spawned" => r \in fresh'
  BY <1>2, <1>3 DEF OneJob
<1>18. op'.run \in fresh' /\ jobs'[op'.run] = "planning" /\ planner'[op'.run] = "none"
  BY <1>2, <1>6, <1>9, <1>12
<1>19. OneJob'
  BY <1>6, <1>14, <1>15, <1>16, <1>17, <1>18 DEF OneJob
<1>20. Approved'
  <2>1. UNCHANGED <<pending, charter, frozen, repaired, tasks, sanctioned, cutOff, tick>>
    BY <1>2 DEF history
  <2>2. op.pc # "creating" /\ op'.pc \in {"idle", "spawning", "planning"} /\ ~op'.payload.approved
    BY <1>2, <1>6, NoPlanFacts
  <2> QED BY <1>3, <2>1, <2>2, ApprovalFrame
<1> QED BY <1>8, <1>19, <1>20 DEF IInv

LEMMA SpawnInv ==
  ASSUME IInv, Spawn
  PROVE  IInv'
<1>1. PICK n : n = op.run
  OBVIOUS
<1>2. /\ op.pc = "spawning" /\ op' = Idle
      /\ planner' = [planner EXCEPT ![n] = "spawned"]
      /\ UNCHANGED <<files, started, tick, commands, history>>
  BY <1>1 DEF Spawn
<1>3. TypeInv /\ OneJob /\ Approved
  BY DEF IInv
<1>4. n \in fresh /\ n \in Runs /\ jobs[n] = "planning" /\ planner[n] = "none"
  BY <1>1, <1>2, <1>3 DEF OneJob, TypeInv
<1>5. OpForm(op') /\ op'.pc = "idle" /\ ~op'.payload.approved
  BY <1>2, IdleFacts
<1>6. planner \in [Runs -> PlannerAt]
  BY <1>3 DEF TypeInv
<1>7. planner' \in [Runs -> PlannerAt]
  BY <1>2, <1>6 DEF PlannerAt
<1>8. TypeInv'
  BY <1>2, <1>3, <1>5, <1>7 DEF TypeInv, files
<1>9. planner'[n] = "spawned" /\ \A q \in Runs : q # n => planner'[q] = planner[q]
  BY <1>2, <1>4, <1>6
<1>10. UNCHANGED <<jobs, fresh, started>>
  BY <1>2 DEF files
<1>11. \A r \in Runs : r > started' => jobs'[r] = "none" /\ planner'[r] = "none"
  BY <1>3, <1>4, <1>9, <1>10 DEF OneJob
<1>12. \A q, r \in PlanningJobs' : q = r
  BY <1>3, <1>10 DEF PlanningJobs, OneJob
<1>13. \A r \in Runs : Live(r)' /\ jobs'[r] # "none" => jobs'[r] = "planning"
  BY <1>3, <1>4, <1>9, <1>10 DEF OneJob, Live, Running
<1>14. \A r \in Runs : planner'[r] = "spawned" => r \in fresh'
  BY <1>3, <1>4, <1>9, <1>10 DEF OneJob
<1>15. OneJob'
  BY <1>5, <1>11, <1>12, <1>13, <1>14 DEF OneJob
<1>16. Approved'
  <2>1. UNCHANGED <<pending, charter, frozen, repaired, tasks, sanctioned, cutOff, tick>>
    BY <1>2 DEF history, files
  <2>2. op.pc # "creating" /\ op'.pc \in {"idle", "spawning", "planning"} /\ ~op'.payload.approved
    BY <1>2, <1>5
  <2> QED BY <1>3, <2>1, <2>2, ApprovalFrame
<1> QED BY <1>8, <1>15, <1>16 DEF IInv

LEMMA RunGoalInv ==
  ASSUME IInv, RunGoal
  PROVE  IInv'
<1>1. PICK n : n = started + 1
  OBVIOUS
<1>2. /\ op.pc = "idle" /\ started < MaxRuns /\ started' = n
      /\ planner' = [planner EXCEPT ![n] = "asking"]
      /\ op' = [Idle EXCEPT !.pc = "planning", !.run = n]
      /\ UNCHANGED <<files, tick, commands, history>>
  BY <1>1 DEF RunGoal
<1>3. TypeInv /\ OneJob /\ Approved
  BY DEF IInv
<1>4. n \in Runs /\ n \in 0 .. MaxRuns /\ n > started /\ started \in Nat
  BY <1>1, <1>2, <1>3, NextRun
<1>5. "planning" \in OpAt
  BY DEF OpAt
<1>6. OpForm(op') /\ op'.pc = "planning" /\ op'.run = n /\ op'.payload = NoPlan
  <2>1. PICK l : /\ PackageList(l)
                 /\ Idle = [pc |-> "idle", run |-> 0, payload |-> NoPlan, contracts |-> l]
    BY IdleForm
  <2>2. op' = [pc |-> "planning", run |-> n, payload |-> NoPlan, contracts |-> l]
    BY <1>2, <2>1
  <2>3. n # 0 /\ n \in Runs \cup {0}
    BY <1>4, RunsFacts
  <2> QED BY <1>5, <2>1, <2>2, <2>3, OpMade, NoPlanFacts
<1>7. planner \in [Runs -> PlannerAt]
  BY <1>3 DEF TypeInv
<1>8. planner' \in [Runs -> PlannerAt]
  BY <1>2, <1>7 DEF PlannerAt
<1>9. TypeInv'
  <2>1. started' \in 0 .. MaxRuns
    BY <1>2, <1>4
  <2>2. UNCHANGED <<jobs, fresh, pending, documents, charter, frozen, tasks, repairs, tick, commands>>
    BY <1>2 DEF files
  <2> QED BY <1>3, <1>6, <1>8, <2>1, <2>2 DEF TypeInv
<1>10. planner'[n] = "asking" /\ \A q \in Runs : q # n => planner'[q] = planner[q]
  BY <1>2, <1>4, <1>7
<1>11. UNCHANGED <<jobs, fresh>> /\ jobs[n] = "none"
  BY <1>2, <1>3, <1>4 DEF files, OneJob
<1>12. \A r \in Runs : r > started' => jobs'[r] = "none" /\ planner'[r] = "none"
  <2> SUFFICES ASSUME NEW r \in Runs, r > n PROVE jobs'[r] = "none" /\ planner'[r] = "none"
    BY <1>2
  <2>1. r > started /\ r # n
    BY <1>1, <1>4, RunsFacts
  <2> QED BY <1>3, <1>10, <1>11, <2>1 DEF OneJob
<1>13. \A q, r \in PlanningJobs' : q = r
  BY <1>3, <1>11 DEF PlanningJobs, OneJob
<1>14. \A r \in Runs : Live(r)' /\ jobs'[r] # "none" => jobs'[r] = "planning"
  BY <1>3, <1>10, <1>11 DEF OneJob, Live, Running
<1>15. \A r \in Runs : planner'[r] = "spawned" => r \in fresh'
  BY <1>3, <1>10, <1>11 DEF OneJob
<1>16. op'.run <= started'
  BY <1>2, <1>4, <1>6, RunsFacts
<1>17. OneJob'
  BY <1>6, <1>12, <1>13, <1>14, <1>15, <1>16 DEF OneJob
<1>18. Approved'
  <2>1. UNCHANGED <<pending, charter, frozen, repaired, tasks, sanctioned, cutOff, tick>>
    BY <1>2 DEF history, files
  <2>2. op.pc # "creating" /\ op'.pc \in {"idle", "spawning", "planning"} /\ ~op'.payload.approved
    BY <1>2, <1>6, NoPlanFacts
  <2> QED BY <1>3, <2>1, <2>2, ApprovalFrame
<1> QED BY <1>9, <1>17, <1>18 DEF IInv

LEMMA AgeInv ==
  ASSUME IInv, NEW r \in Runs, Age(r)
  PROVE  IInv'
<1>1. /\ r \in fresh /\ op.pc # "spawning" /\ planner[r] # "spawned" /\ fresh' = fresh \ {r}
      /\ UNCHANGED <<jobs, planner, started, pending, documents, charter, frozen,
                     tasks, repairs, op, tick, commands, history>>
  BY DEF Age
<1>2. TypeInv /\ OneJob /\ Approved
  BY DEF IInv
<1>3. TypeInv'
  BY <1>1, <1>2 DEF TypeInv
<1>4. OneJob'
  BY <1>1, <1>2 DEF OneJob, PlanningJobs, Live, Running
<1>5. UNCHANGED <<pending, charter, frozen, repaired, tasks, sanctioned, cutOff, tick>>
  BY <1>1 DEF history
<1>6. Approved'
  BY <1>1, <1>2, <1>5, ApprovalFrame
<1> QED BY <1>3, <1>4, <1>6 DEF IInv

-----------------------------------------------------------------------------
(***************************************************************************)
(* The process that plans a run                                            *)
(***************************************************************************)
\* A planner that has begun plans a run whose id has been given out.
LEMMA Begun ==
  ASSUME TypeInv, OneJob, NEW r \in Runs, planner[r] # "none"
  PROVE  r <= started
BY RunsFacts DEF TypeInv, OneJob

\* Steps that only move a planner.
LEMMA OnlyPlanner ==
  ASSUME IInv, NEW r \in Runs, NEW x \in PlannerAt, x # "spawned", Live(r),
         planner' = [planner EXCEPT ![r] = x],
         UNCHANGED <<files, started, op, tick, commands, history>>
  PROVE  IInv'
<1>1. TypeInv /\ OneJob /\ Approved
  BY DEF IInv
<1>2. planner[r] # "none"
  BY DEF Live, Running
<1>3. r <= started
  BY <1>1, <1>2, Begun
<1>4. UNCHANGED <<jobs, fresh, started>> /\ op' = op
  BY DEF files
<1>5. OneJob' /\ planner' \in [Runs -> PlannerAt]
  BY <1>1, <1>2, <1>3, <1>4, PlannerMoves
<1>6. UNCHANGED <<jobs, fresh, started, pending, documents, charter, frozen, tasks, repairs, op, tick, commands>>
  BY DEF files
<1>7. TypeInv'
  BY <1>1, <1>5, <1>6 DEF TypeInv
<1>8. UNCHANGED <<pending, charter, frozen, repaired, tasks, sanctioned, cutOff, tick>>
  BY DEF files, history
<1>9. Approved'
  BY <1>1, <1>4, <1>8, ApprovalFrame
<1> QED BY <1>5, <1>7, <1>9 DEF IInv

LEMMA ExecuteInv ==
  ASSUME IInv, NEW r \in Runs, Execute(r)
  PROVE  IInv'
<1>1. Live(r) /\ planner' = [planner EXCEPT ![r] = "asking"]
  BY DEF Execute, Live
<1>2. UNCHANGED <<files, started, op, tick, commands, history>>
  BY DEF Execute
<1>3. "asking" \in PlannerAt
  BY DEF PlannerAt
<1> QED BY <1>1, <1>2, <1>3, OnlyPlanner

LEMMA AnswerInProseInv ==
  ASSUME IInv, NEW r \in Runs, AnswerInProse(r)
  PROVE  IInv'
<1>1. Live(r) /\ planner' = [planner EXCEPT ![r] = "structuring"]
  BY DEF AnswerInProse, Live, Running
<1>2. UNCHANGED <<files, started, op, tick, commands, history>>
  BY DEF AnswerInProse
<1>3. "structuring" \in PlannerAt
  BY DEF PlannerAt
<1> QED BY <1>1, <1>2, <1>3, OnlyPlanner

LEMMA KillPlannerInv ==
  ASSUME IInv, NEW r \in Runs, KillPlanner(r)
  PROVE  IInv'
<1>1. Live(r) /\ planner' = [planner EXCEPT ![r] = "over"]
  BY DEF KillPlanner, Live
<1>2. UNCHANGED <<files, started, op, tick, commands, history>>
  BY DEF KillPlanner
<1>3. "over" \in PlannerAt
  BY DEF PlannerAt
<1> QED BY <1>1, <1>2, <1>3, OnlyPlanner

LEMMA AnswerInv ==
  ASSUME IInv, NEW r \in Runs, NEW plan \in Plans[r], Answer(r, plan)
  PROVE  IInv'
<1>1. PICK l : l = [i \in DOMAIN plan |-> SanitizeCommands(plan[i])]
  OBVIOUS
<1>2. /\ planner[r] \in {"asking", "structuring"}
      /\ pending' = [NoPlan EXCEPT !.run = r, !.packages = l]
      /\ planner' = [planner EXCEPT ![r] = "presenting"]
      /\ UNCHANGED <<jobs, fresh, started, documents, charter, frozen, tasks,
                     repairs, op, tick, commands, history>>
  BY <1>1, Zenon DEF Answer
<1>3. TypeInv /\ OneJob /\ Approved
  BY DEF IInv
<1>4. PackageList(plan)
  BY PlanningAssumption DEF Runs
<1>5. PackageList(l)
  BY <1>1, <1>4, AnswerList
<1>6. pending' = [run |-> r, packages |-> l, approved |-> FALSE, rejected |-> FALSE]
  <2>1. PICK e : e = <<>>
    OBVIOUS
  <2>2. NoPlan = [run |-> 0, packages |-> e, approved |-> FALSE, rejected |-> FALSE]
    BY <2>1, Zenon DEF NoPlan
  <2> QED BY <1>2, <2>2
<1>7. PlanForm(pending') /\ pending'.run = r /\ ~pending'.approved
  <2>1. PICK p : p = [run |-> r, packages |-> l, approved |-> FALSE, rejected |-> FALSE]
    OBVIOUS
  <2>2. r \in Runs \cup {0} /\ FALSE \in BOOLEAN
    OBVIOUS
  <2>3. PlanForm(p) /\ p.run = r /\ ~p.approved
    BY <1>5, <2>1, <2>2 DEF PlanForm, PendingPlan
  <2> QED BY <1>6, <2>1, <2>3
<1>8. Live(r) /\ planner[r] # "none"
  BY <1>2 DEF Live, Running
<1>9. r <= started
  BY <1>3, <1>8, Begun
<1>10. UNCHANGED <<jobs, fresh, started>> /\ op' = op /\ "presenting" \in PlannerAt
  BY <1>2 DEF PlannerAt
<1>11. planner' = [planner EXCEPT ![r] = "presenting"]
  BY <1>2
<1>12. OneJob' /\ planner' \in [Runs -> PlannerAt]
  BY <1>3, <1>8, <1>9, <1>10, <1>11, PlannerMoves
<1>13. UNCHANGED <<jobs, fresh, started, documents, charter, frozen, tasks, repairs, op, tick,
                   commands, sanctioned, cutOff, repaired>>
  BY <1>2 DEF history
<1>14. TypeInv'
  BY <1>3, <1>7, <1>12, <1>13 DEF TypeInv
<1>15. Approving'
  BY <1>3, <1>7, <1>13, RunsFacts DEF Approved, Approving
<1>16. Validated' /\ Sanctioned'
  BY <1>3, <1>13 DEF Approved, Validated, Sanctioned, BeingApproved
<1>17. NoRenames => Covered' /\ InForce'
  BY <1>3, <1>7, <1>13 DEF Approved, Covered, InForce
<1> QED BY <1>12, <1>14, <1>15, <1>16, <1>17 DEF IInv, Approved

LEMMA WriteDocumentInv ==
  ASSUME IInv, NEW r \in Runs, WriteDocument(r)
  PROVE  IInv'
<1>1. /\ Live(r) /\ planner[r] # "none" /\ documents' = documents \cup {r}
      /\ planner' = [planner EXCEPT ![r] = "presented"]
  BY DEF WriteDocument, Live, Running
<1>2. UNCHANGED <<jobs, fresh, started, pending, charter, frozen, tasks, repairs,
                  op, tick, commands, sanctioned, cutOff, repaired>>
  BY DEF WriteDocument, history
<1>3. TypeInv /\ OneJob /\ Approved
  BY DEF IInv
<1>4. r <= started
  BY <1>1, <1>3, Begun
<1>5. UNCHANGED <<jobs, fresh, started>> /\ op' = op /\ "presented" \in PlannerAt
  BY <1>2 DEF PlannerAt
<1>6. OneJob' /\ planner' \in [Runs -> PlannerAt]
  BY <1>1, <1>3, <1>4, <1>5, PlannerMoves
<1>7. documents' \subseteq Runs /\ charter' \in documents' \cup {0}
  BY <1>1, <1>2, <1>3 DEF TypeInv
<1>8. TypeInv'
  BY <1>2, <1>3, <1>6, <1>7 DEF TypeInv
<1>9. UNCHANGED <<pending, charter, frozen, repaired, tasks, sanctioned, cutOff, tick>>
  BY <1>2
<1>10. Approved'
  BY <1>3, <1>5, <1>9, ApprovalFrame
<1> QED BY <1>6, <1>8, <1>10 DEF IInv

\* A planner that is over: its job has its status, its command returns.
LEMMA EndInv ==
  ASSUME IInv, NEW r \in Runs, Running(r), NEW status \in {"ready", "failed"},
         End(r, status),
         UNCHANGED <<fresh, started, pending, documents, charter, frozen, tasks,
                     repairs, tick, commands, history>>
  PROVE  IInv'
<1>1. /\ planner' = [planner EXCEPT ![r] = "over"]
      /\ jobs' = [jobs EXCEPT ![r] = IF @ = "none" THEN @ ELSE status]
      /\ op' = IF op.pc = "planning" /\ op.run = r THEN Idle ELSE op
  BY DEF End
<1>2. TypeInv /\ OneJob /\ Approved
  BY DEF IInv
<1>3. planner \in [Runs -> PlannerAt] /\ jobs \in [Runs -> JobStatus]
  BY <1>2 DEF TypeInv
<1>4. /\ planner'[r] = "over" /\ \A q \in Runs : q # r => planner'[q] = planner[q]
      /\ jobs'[r] = (IF jobs[r] = "none" THEN "none" ELSE status)
      /\ \A q \in Runs : q # r => jobs'[q] = jobs[q]
  BY <1>1, <1>3
<1>5. planner' \in [Runs -> PlannerAt] /\ jobs' \in [Runs -> JobStatus]
  BY <1>1, <1>3 DEF PlannerAt, JobStatus
<1>6. (OpForm(op') /\ op'.pc # "spawning") \/ op' = op
  BY <1>1, <1>2, IdleFacts DEF TypeInv
<1>7. OpForm(op')
  BY <1>2, <1>6 DEF TypeInv
<1>8. UNCHANGED <<fresh, started, pending, documents, charter, frozen, tasks, repairs, tick,
                  commands, sanctioned, cutOff, repaired>>
  BY DEF history
<1>9. TypeInv'
  BY <1>2, <1>5, <1>7, <1>8 DEF TypeInv
<1>10. r <= started /\ planner[r] # "none"
  BY <1>2, Begun DEF Running
<1>11. \A q \in Runs : q > started => q # r
  BY <1>10, RunsFacts, <1>2 DEF TypeInv
<1>12. \A q \in Runs : q > started' => jobs'[q] = "none" /\ planner'[q] = "none"
  BY <1>2, <1>4, <1>8, <1>11 DEF OneJob
<1>13. \A q \in Runs : jobs'[q] = "planning" => q # r /\ jobs[q] = "planning"
  BY <1>4
<1>14. \A p, q \in PlanningJobs' : p = q
  BY <1>2, <1>13 DEF OneJob, PlanningJobs
<1>15. \A q \in Runs : Live(q)' /\ jobs'[q] # "none" => jobs'[q] = "planning"
  BY <1>2, <1>4 DEF OneJob, Live, Running
<1>16. \A q \in Runs : planner'[q] = "spawned" => q \in fresh'
  BY <1>2, <1>4, <1>8 DEF OneJob
<1>17. op'.pc = "spawning" =>
         op'.run \in fresh' /\ jobs'[op'.run] = "planning" /\ planner'[op'.run] = "none"
  <2> SUFFICES ASSUME op'.pc = "spawning"
               PROVE  op'.run \in fresh' /\ jobs'[op'.run] = "planning" /\ planner'[op'.run] = "none"
    OBVIOUS
  <2>1. op' = op
    BY <1>6
  <2>2. op.run \in fresh /\ jobs[op.run] = "planning" /\ planner[op.run] = "none" /\ op.run \in Runs
    BY <2>1, <1>2 DEF OneJob, TypeInv
  <2>3. op.run # r
    BY <2>2, <1>10
  <2> QED BY <1>4, <1>8, <2>1, <2>2, <2>3
<1>18. op'.pc = "planning" => op'.run <= started'
  <2>1. CASE op' = op
    BY <1>2, <1>8, <2>1 DEF OneJob
  <2>2. CASE op' = Idle
    BY <2>2, IdleFacts
  <2> QED BY <1>1, <2>1, <2>2
<1>19. OneJob'
  BY <1>12, <1>14, <1>15, <1>16, <1>17, <1>18 DEF OneJob
<1>20. op' = op \/ /\ op.pc # "creating" /\ op'.pc \in {"idle", "spawning", "planning"}
                   /\ ~op'.payload.approved
  BY <1>1, IdleFacts
<1>21. UNCHANGED <<pending, charter, frozen, repaired, tasks, sanctioned, cutOff, tick>>
  BY <1>8
<1>22. Approved'
  BY <1>2, <1>20, <1>21, ApprovalFrame
<1> QED BY <1>9, <1>19, <1>22 DEF IInv

LEMMA FinishInv ==
  ASSUME IInv, NEW r \in Runs, Finish(r)
  PROVE  IInv'
<1>1. Running(r) /\ End(r, "ready")
  BY DEF Finish, Running
<1>2. UNCHANGED <<fresh, started, pending, documents, charter, frozen, tasks,
                  repairs, tick, commands, history>>
  BY DEF Finish
<1> QED BY <1>1, <1>2, EndInv

LEMMA PlannerFailsInv ==
  ASSUME IInv, NEW r \in Runs, PlannerFails(r)
  PROVE  IInv'
<1>1. Running(r) /\ End(r, "failed")
  BY DEF PlannerFails, Running
<1>2. UNCHANGED <<fresh, started, pending, documents, charter, frozen, tasks,
                  repairs, tick, commands, history>>
  BY DEF PlannerFails
<1> QED BY <1>1, <1>2, EndInv

-----------------------------------------------------------------------------
(***************************************************************************)
(* Approving a plan                                                        *)
(***************************************************************************)
LEMMA CommandFacts ==
  ASSUME TypeInv, Command
  PROVE  op.pc = "idle" /\ commands' \in 0 .. MaxCommands
BY RunsFacts DEF TypeInv, Command

LEMMA ApproveInv ==
  ASSUME IInv, Approve
  PROVE  IInv'
<1>1. PICK l : l = Prepared(pending.packages)
  OBVIOUS
<1>2. /\ Command /\ pending.run # 0 /\ Freezable(l, TRUE)
      /\ op' = [pc |-> "approving", run |-> pending.run, payload |-> pending, contracts |-> l]
      /\ UNCHANGED <<files, planner, started, tick, history>>
  BY <1>1 DEF Approve
<1>3. TypeInv /\ OneJob /\ Approved
  BY DEF IInv
<1>4. op.pc = "idle" /\ commands' \in 0 .. MaxCommands
  BY <1>2, <1>3, CommandFacts
<1>5. PlanForm(pending) /\ PackageList(pending.packages) /\ pending.run \in Runs \cup {0}
  BY <1>3 DEF TypeInv, PlanForm, PendingPlan
<1>6. PackageList(l)
  BY <1>1, <1>5, PreparedAlike
<1>7. /\ OpForm(op') /\ op'.pc = "approving" /\ op'.run = pending.run
      /\ op'.payload = pending /\ op'.contracts = l
  <2>1. "approving" \in OpAt
    BY DEF OpAt
  <2>2. PICK o : o = [pc |-> "approving", run |-> pending.run, payload |-> pending, contracts |-> l]
    OBVIOUS
  <2>3. /\ OpForm(o) /\ o.pc = "approving" /\ o.run = pending.run
        /\ o.payload = pending /\ o.contracts = l
    BY <1>2, <1>5, <1>6, <2>1, <2>2, OpMade
  <2> QED BY <1>2, <2>2, <2>3
<1>8. UNCHANGED <<jobs, fresh, planner, started, pending, documents, charter, frozen, tasks,
                  repairs, tick, sanctioned, cutOff, repaired>>
  BY <1>2 DEF files, history
<1>9. TypeInv'
  BY <1>3, <1>4, <1>7, <1>8 DEF TypeInv
<1>10. OneJob'
  BY <1>3, <1>7, <1>8, JobFrame
<1>11. Approving'
  BY <1>1, <1>2, <1>7, <1>8 DEF Approving, Writing
<1>12. Validated' /\ Sanctioned'
  BY <1>3, <1>4, <1>7, <1>8 DEF Approved, Validated, Sanctioned, BeingApproved
<1>13. NoRenames => Covered' /\ InForce'
  BY <1>3, <1>4, <1>7, <1>8 DEF Approved, Covered, InForce, Matches
<1> QED BY <1>9, <1>10, <1>11, <1>12, <1>13 DEF IInv, Approved

LEMMA CharterMissingInv ==
  ASSUME IInv, CharterMissing
  PROVE  IInv'
<1>1. op.pc = "approving" /\ op' = Idle
  BY DEF CharterMissing
<1>2. UNCHANGED <<jobs, fresh, planner, started, pending, documents, charter, frozen, tasks,
                  repairs, tick, commands, sanctioned, cutOff, repaired>>
  BY DEF CharterMissing, files, history
<1>3. TypeInv /\ OneJob /\ Approved
  BY DEF IInv
<1>4. OpForm(op') /\ op'.pc = "idle" /\ ~op'.payload.approved
  BY <1>1, IdleFacts
<1>5. TypeInv'
  BY <1>2, <1>3, <1>4 DEF TypeInv
<1>6. OneJob'
  BY <1>2, <1>3, <1>4, JobFrame
<1>7. Approved'
  BY <1>1, <1>2, <1>3, <1>4, ApprovalFrame
<1> QED BY <1>5, <1>6, <1>7 DEF IInv

\* The two steps that only take the command further.
LEMMA OpMovesOn ==
  ASSUME TypeInv, op.pc \in {"approving", "freezing"}, NEW pc \in {"freezing", "creating"},
         op' = [op EXCEPT !.pc = pc]
  PROVE  /\ OpForm(op') /\ op'.pc = pc /\ op'.run = op.run
         /\ op'.payload = op.payload /\ op'.contracts = op.contracts
<1>1. OpForm(op) /\ op.run # 0 /\ pc \in OpAt
  BY DEF TypeInv, OpForm, OpAt, Writing
<1> QED BY <1>1, OpMoves

LEMMA WriteCharterInv ==
  ASSUME IInv, WriteCharter
  PROVE  IInv'
<1>1. op.pc = "approving" /\ op.run \in documents /\ charter' = op.run
  BY DEF WriteCharter
<1>2. op' = [op EXCEPT !.pc = "freezing"]
  BY DEF WriteCharter
<1>3. UNCHANGED <<jobs, fresh, planner, started, pending, documents, frozen, tasks,
                  repairs, tick, commands, sanctioned, cutOff, repaired>>
  BY DEF WriteCharter, history
<1>4. TypeInv /\ OneJob /\ Approved
  BY DEF IInv
<1>5. /\ OpForm(op') /\ op'.pc = "freezing" /\ op'.run = op.run
      /\ op'.payload = op.payload /\ op'.contracts = op.contracts
  BY <1>1, <1>2, <1>4, OpMovesOn
<1>6. TypeInv'
  BY <1>1, <1>3, <1>4, <1>5 DEF TypeInv
<1>7. OneJob'
  BY <1>3, <1>4, <1>5, JobFrame
<1>8. Approving'
  BY <1>1, <1>3, <1>4, <1>5 DEF Approved, Approving, Writing
<1>9. Validated' /\ Sanctioned'
  BY <1>1, <1>3, <1>4, <1>5 DEF Approved, Validated, Sanctioned, BeingApproved
<1>10. pending.approved => op.run = pending.run
  BY <1>1, <1>4 DEF Approved, Approving
<1>11. NoRenames => Covered' /\ InForce'
  BY <1>1, <1>3, <1>4, <1>5, <1>10 DEF Approved, Covered, InForce, Matches
<1> QED BY <1>6, <1>7, <1>8, <1>9, <1>11 DEF IInv, Approved

\* A contract that may be frozen for a worker may be frozen after a repair.
LEMMA FreezableAnyway ==
  ASSUME NEW l, Freezable(l, TRUE)
  PROVE  Freezable(l, FALSE)
BY DEF Freezable

LEMMA WriteContractsInv ==
  ASSUME IInv, WriteContracts
  PROVE  IInv'
<1>1. op.pc = "freezing" /\ frozen' = op.contracts /\ repaired' = {}
  BY DEF WriteContracts
<1>2. op' = [op EXCEPT !.pc = "creating"]
  BY DEF WriteContracts
<1>3. sanctioned' = IF op.payload.approved THEN sanctioned \cup {op.contracts} ELSE sanctioned
  BY DEF WriteContracts
<1>4. UNCHANGED <<jobs, fresh, planner, started, pending, documents, charter, tasks,
                  repairs, tick, cutOff, commands>>
  BY DEF WriteContracts
<1>5. TypeInv /\ OneJob /\ Approved
  BY DEF IInv
<1>6. /\ OpForm(op') /\ op'.pc = "creating" /\ op'.run = op.run
      /\ op'.payload = op.payload /\ op'.contracts = op.contracts
  BY <1>1, <1>2, <1>5, OpMovesOn
<1>7. PackageList(op.contracts) /\ PackageList(op.payload.packages)
  BY <1>5 DEF TypeInv, OpForm, PlanForm, PendingPlan
<1>8. TypeInv'
  BY <1>1, <1>4, <1>5, <1>6, <1>7 DEF TypeInv
<1>9. OneJob'
  BY <1>4, <1>5, <1>6, JobFrame
<1>10. /\ op.run = op.payload.run /\ op.contracts = Prepared(op.payload.packages)
       /\ Freezable(op.contracts, TRUE) /\ charter = op.run
       /\ pending.run # 0 /\ (pending = op.payload \/ ~pending.approved)
  BY <1>1, <1>5 DEF Approved, Approving
<1>11. Approving'
  BY <1>1, <1>4, <1>6, <1>10 DEF Approving, Writing
<1>12. Validated'
  BY <1>1, <1>10, FreezableAnyway DEF Validated
<1>13. Sanctioned'
  <2>1. frozen' \in sanctioned' \cup cutOff' \/ BeingApproved(frozen)'
    BY <1>1, <1>3, <1>6 DEF BeingApproved
  <2>2. sanctioned \cup cutOff \subseteq sanctioned' \cup cutOff'
    BY <1>3, <1>4
  <2>3. ~BeingApproved(tick.contracts)
    BY <1>1 DEF BeingApproved
  <2>4. /\ tick.pc = "loaded" => tick.contracts \in sanctioned \cup cutOff
        /\ tick.pc = "working" => tick.contracts \in sanctioned \cup cutOff
    BY <1>5, <2>3 DEF Approved, Sanctioned
  <2> QED BY <1>4, <2>1, <2>2, <2>4 DEF Sanctioned
<1>14. IdsOf(frozen') = IdsOf(op.payload.packages)
  BY <1>1, <1>7, <1>10, PreparedAlike, AlikeIds
<1>15. NoRenames => Covered' /\ InForce'
  <2> SUFFICES ASSUME NoRenames PROVE Covered' /\ InForce'
    OBVIOUS
  <2>1. Covered
    BY <1>5 DEF Approved
  <2>2. InForce'
    BY <1>6 DEF InForce
  <2>3. pending'.approved => IdsOf(frozen') \subseteq tasks'
    BY <1>4, <1>10, <1>14, <2>1 DEF Covered
  <2> QED BY <1>4, <1>6, <2>1, <2>2, <2>3 DEF Covered
<1> QED BY <1>8, <1>9, <1>11, <1>12, <1>13, <1>15 DEF IInv, Approved

LEMMA EnsureTaskInv ==
  ASSUME IInv, EnsureTask
  PROVE  IInv'
<1>1. PICK i \in Missing(op.contracts) : tasks' = tasks \cup {op.contracts[i].id}
  BY DEF EnsureTask
<1>2. UNCHANGED <<jobs, fresh, planner, started, pending, documents, charter, frozen,
                  repairs, op, tick, commands, sanctioned, cutOff, repaired>>
  BY DEF EnsureTask, history
<1>3. TypeInv /\ OneJob /\ Approved
  BY DEF IInv
<1>4. op.contracts[i].id \in Ids
  BY <1>3, ListFacts DEF TypeInv, OpForm, Missing
<1>5. tasks \subseteq tasks' /\ tasks' \subseteq Ids
  BY <1>1, <1>3, <1>4 DEF TypeInv
<1>6. TypeInv'
  BY <1>2, <1>3, <1>5 DEF TypeInv
<1>7. OneJob'
  BY <1>2, <1>3, JobFrame
<1>8. Approving' /\ Validated' /\ Sanctioned'
  BY <1>2, <1>3 DEF Approved, Approving, Validated, Sanctioned, BeingApproved
<1>9. NoRenames => Covered' /\ InForce'
  BY <1>2, <1>3, <1>5 DEF Approved, Covered, InForce, Matches
<1> QED BY <1>6, <1>7, <1>8, <1>9 DEF IInv, Approved

LEMMA MarkApprovedInv ==
  ASSUME IInv, MarkApproved
  PROVE  IInv'
<1>1. op.pc = "creating" /\ Missing(op.contracts) = {} /\ op' = Idle
  BY DEF MarkApproved
<1>2. pending' = [op.payload EXCEPT !.packages = op.contracts, !.approved = TRUE]
  BY DEF MarkApproved
<1>3. sanctioned' = sanctioned \cup {op.contracts}
  BY DEF MarkApproved
<1>4. UNCHANGED <<jobs, fresh, planner, started, documents, charter, frozen, tasks, repairs,
                  tick, cutOff, repaired, commands>>
  BY DEF MarkApproved
<1>5. TypeInv /\ OneJob /\ Approved
  BY DEF IInv
<1>6. PICK p : p = op.payload
  OBVIOUS
<1>7. PlanForm(p) /\ PackageList(op.contracts) /\ op.run # 0
  BY <1>1, <1>5, <1>6 DEF TypeInv, OpForm, Writing
<1>8. pending' = [run |-> p.run, packages |-> op.contracts, approved |-> TRUE, rejected |-> p.rejected]
  BY <1>2, <1>6, <1>7 DEF PlanForm
<1>9. /\ PlanForm(pending') /\ pending'.run = p.run
      /\ pending'.packages = op.contracts /\ pending'.approved
  <2>1. p.run \in Runs \cup {0} /\ p.rejected \in BOOLEAN /\ TRUE \in BOOLEAN
    BY <1>7 DEF PlanForm, PendingPlan
  <2>2. PICK q : q = [run |-> p.run, packages |-> op.contracts, approved |-> TRUE, rejected |-> p.rejected]
    OBVIOUS
  <2>3. PlanForm(q) /\ q.run = p.run /\ q.packages = op.contracts /\ q.approved
    BY <1>7, <2>1, <2>2 DEF PlanForm, PendingPlan
  <2> QED BY <1>8, <2>2, <2>3
<1>10. OpForm(op') /\ op'.pc = "idle" /\ ~op'.payload.approved
  BY <1>1, IdleFacts
<1>11. TypeInv'
  BY <1>4, <1>5, <1>9, <1>10 DEF TypeInv
<1>12. OneJob'
  BY <1>4, <1>5, <1>10, JobFrame
<1>13. /\ op.run = op.payload.run /\ charter = op.run /\ frozen = op.contracts
  BY <1>1, <1>5 DEF Approved, Approving
<1>14. Approving' /\ Validated'
  BY <1>4, <1>5, <1>10 DEF Approved, Approving, Validated
<1>15. Sanctioned'
  <2>1. \A l : BeingApproved(l) => l \in sanctioned'
    BY <1>3 DEF BeingApproved
  <2>2. sanctioned \cup cutOff \subseteq sanctioned' \cup cutOff'
    BY <1>3, <1>4
  <2>3. Sanctioned
    BY <1>5 DEF Approved
  <2> QED BY <1>4, <2>1, <2>2, <2>3 DEF Sanctioned
<1>16. IdsOf(op.contracts) \subseteq tasks
  BY <1>1 DEF Missing, IdsOf
<1>17. Covered'
  BY <1>4, <1>9, <1>10, <1>13, <1>16 DEF Covered
<1>18. InForce'
  BY <1>4, <1>6, <1>9, <1>13 DEF InForce, Matches
<1> QED BY <1>11, <1>12, <1>14, <1>15, <1>17, <1>18 DEF IInv, Approved

-----------------------------------------------------------------------------
(***************************************************************************)
(* Rejection and repairs                                                   *)
(***************************************************************************)
\* A command that will write a plan back that is not approved.
LEMMA WritesBackInv ==
  ASSUME IInv, Command, NEW p, PlanForm(p), ~p.approved,
         NEW pc \in Writing, WritesBack(pc, p),
         UNCHANGED <<files, planner, started, tick, history>>
  PROVE  IInv'
<1>1. TypeInv /\ OneJob /\ Approved
  BY DEF IInv
<1>2. op.pc = "idle" /\ commands' \in 0 .. MaxCommands
  BY <1>1, CommandFacts
<1>3. pc \in Writing /\ ~p.approved
  OBVIOUS
<1>4. OpForm(op') /\ op'.pc = pc /\ op'.payload = p
  BY OpWrites
<1>5. UNCHANGED <<jobs, fresh, planner, started, pending, documents, charter, frozen, tasks,
                  repairs, tick, sanctioned, cutOff, repaired>>
  BY DEF files, history
<1>6. TypeInv'
  BY <1>1, <1>2, <1>3, <1>4, <1>5 DEF TypeInv
<1>7. OneJob'
  BY <1>1, <1>3, <1>4, <1>5, JobFrame DEF Writing
<1>8. Approving'
  BY <1>3, <1>4 DEF Approving, Writing
<1>9. Validated' /\ Sanctioned'
  BY <1>1, <1>2, <1>3, <1>4, <1>5 DEF Approved, Validated, Sanctioned, BeingApproved, Writing
<1>10. NoRenames => Covered' /\ InForce'
  BY <1>1, <1>2, <1>3, <1>4, <1>5 DEF Approved, Covered, InForce, Matches
<1> QED BY <1>6, <1>7, <1>8, <1>9, <1>10 DEF IInv, Approved

LEMMA RejectInv ==
  ASSUME IInv, Reject
  PROVE  IInv'
<1>1. PICK p : p = [pending EXCEPT !.approved = FALSE, !.rejected = TRUE]
  OBVIOUS
<1>2. /\ Command /\ WritesBack("rejecting", p)
      /\ UNCHANGED <<files, planner, started, tick, history>>
  BY <1>1 DEF Reject
<1>3. PlanForm(pending)
  BY DEF IInv, TypeInv
<1>4. PlanForm(p) /\ ~p.approved
  <2>1. p = [run |-> pending.run, packages |-> pending.packages, approved |-> FALSE, rejected |-> TRUE]
    BY <1>1, <1>3 DEF PlanForm
  <2>2. pending.run \in Runs \cup {0} /\ PackageList(pending.packages)
    BY <1>3 DEF PlanForm, PendingPlan
  <2> QED BY <2>1, <2>2 DEF PlanForm, PendingPlan
<1> QED BY <1>2, <1>4, WritesBackInv DEF Writing

LEMMA TruncateInv ==
  ASSUME IInv, Truncate
  PROVE  IInv'
<1>1. op.pc = "rejecting" /\ pending' = Torn /\ op' = [op EXCEPT !.pc = "rewriting"]
  BY DEF Truncate
<1>2. UNCHANGED <<jobs, fresh, planner, started, documents, charter, frozen, tasks, repairs,
                  tick, commands, sanctioned, cutOff, repaired>>
  BY DEF Truncate, history
<1>3. TypeInv /\ OneJob /\ Approved
  BY DEF IInv
<1>4. PlanForm(pending') /\ ~pending'.approved
  BY <1>1, TornFacts
<1>5. OpForm(op') /\ op'.pc = "rewriting" /\ op'.payload = op.payload
  <2>1. OpForm(op)
    BY <1>3 DEF TypeInv
  <2>2. op' = [pc |-> "rewriting", run |-> op.run, payload |-> op.payload,
               contracts |-> op.contracts]
    BY <1>1, <2>1 DEF OpForm
  <2>3. "rewriting" \in OpAt /\ "rewriting" \in Writing
    BY DEF OpAt, Writing
  <2>4. op.run \in Runs \cup {0} /\ PlanForm(op.payload) /\ PackageList(op.contracts)
    BY <2>1 DEF OpForm
  <2> QED BY <2>2, <2>3, <2>4, OpMade
<1>6. ~op.payload.approved
  BY <1>1, <1>3 DEF Approved, Approving, Writing
<1>7. TypeInv'
  BY <1>2, <1>3, <1>4, <1>5 DEF TypeInv
<1>8. OneJob'
  BY <1>2, <1>3, <1>5, JobFrame
<1>9. Approving'
  BY <1>5, <1>6 DEF Approving
<1>10. Validated' /\ Sanctioned'
  BY <1>1, <1>2, <1>3, <1>5 DEF Approved, Validated, Sanctioned, BeingApproved
<1>11. Covered' /\ InForce'
  BY <1>4, <1>5, <1>6 DEF Covered, InForce
<1> QED BY <1>7, <1>8, <1>9, <1>10, <1>11 DEF IInv, Approved

\* Written is what the command had read, or nothing.
LEMMA RewriteInv ==
  ASSUME IInv, Rewrite
  PROVE  IInv'
<1>1. op.pc = "rewriting" /\ pending' \in {op.payload, pending} /\ op' = Idle
  BY DEF Rewrite
<1>2. UNCHANGED <<jobs, fresh, planner, started, documents, charter, frozen, tasks, repairs,
                  tick, commands, sanctioned, cutOff, repaired>>
  BY DEF Rewrite, history
<1>3. TypeInv /\ OneJob /\ Approved
  BY DEF IInv
<1>4. OpForm(op') /\ op'.pc = "idle" /\ ~op'.payload.approved
  BY <1>1, IdleFacts
<1>5. PlanForm(pending') /\ (pending' = pending \/ ~pending'.approved)
  BY <1>1, <1>3 DEF TypeInv, OpForm, Approved, Approving, Writing
<1>6. TypeInv'
  BY <1>2, <1>3, <1>4, <1>5 DEF TypeInv
<1>7. OneJob'
  BY <1>2, <1>3, <1>4, JobFrame
<1>8. Approving'
  BY <1>4 DEF Approving, Writing
<1>9. Validated' /\ Sanctioned'
  BY <1>1, <1>2, <1>3 DEF Approved, Validated, Sanctioned, BeingApproved
<1>10. NoRenames => Covered' /\ InForce'
  BY <1>1, <1>2, <1>3, <1>4, <1>5 DEF Approved, Covered, InForce, Matches
<1> QED BY <1>6, <1>7, <1>8, <1>9, <1>10 DEF IInv, Approved

LEMMA RepairPendingInv ==
  ASSUME IInv, NEW id \in Ids, RepairPending(id)
  PROVE  IInv'
<1>1. PICK l : l = Patched(pending.packages, id, repairs[id])
  OBVIOUS
<1>2. PICK p : p = [pending EXCEPT !.packages = l]
  OBVIOUS
<1>3. /\ Command /\ repairs[id] # NoPatch /\ ~pending.approved /\ id \in IdsOf(pending.packages)
      /\ WritesBack("writing", p) /\ UNCHANGED <<files, planner, started, tick, history>>
  BY <1>1, <1>2 DEF RepairPending
<1>4. PlanForm(pending) /\ repairs[id] \in Patches[id]
  BY <1>3 DEF IInv, TypeInv
<1>5. PackageList(l)
  BY <1>1, <1>3, <1>4, PatchedList DEF PlanForm, PendingPlan
<1>6. PlanForm(p) /\ ~p.approved
  <2>1. p = [run |-> pending.run, packages |-> l,
             approved |-> pending.approved, rejected |-> pending.rejected]
    BY <1>2, <1>4 DEF PlanForm
  <2>2. pending.run \in Runs \cup {0} /\ pending.approved \in BOOLEAN /\ pending.rejected \in BOOLEAN
    BY <1>4 DEF PlanForm, PendingPlan
  <2> QED BY <1>3, <1>5, <2>1, <2>2 DEF PlanForm, PendingPlan
<1> QED BY <1>3, <1>6, WritesBackInv DEF Writing

LEMMA WritePendingInv ==
  ASSUME IInv, WritePending
  PROVE  IInv'
<1>1. op.pc = "writing" /\ pending' = op.payload /\ op' = Idle
  BY DEF WritePending
<1>2. UNCHANGED <<jobs, fresh, planner, started, documents, charter, frozen, tasks, repairs,
                  tick, commands, sanctioned, cutOff, repaired>>
  BY DEF WritePending, history
<1>3. TypeInv /\ OneJob /\ Approved
  BY DEF IInv
<1>4. OpForm(op') /\ op'.pc = "idle" /\ ~op'.payload.approved
  BY <1>1, IdleFacts
<1>5. PlanForm(pending') /\ ~pending'.approved
  BY <1>1, <1>3 DEF TypeInv, OpForm, Approved, Approving, Writing
<1>6. TypeInv'
  BY <1>2, <1>3, <1>4, <1>5 DEF TypeInv
<1>7. OneJob'
  BY <1>2, <1>3, <1>4, JobFrame
<1>8. Approving'
  BY <1>4 DEF Approving, Writing
<1>9. Validated' /\ Sanctioned'
  BY <1>1, <1>2, <1>3 DEF Approved, Validated, Sanctioned, BeingApproved
<1>10. Covered' /\ InForce'
  BY <1>4, <1>5 DEF Covered, InForce
<1> QED BY <1>6, <1>7, <1>8, <1>9, <1>10 DEF IInv, Approved

LEMMA RecordRepairInv ==
  ASSUME IInv, NEW id \in Ids, NEW patch \in Patches[id], RecordRepair(id, patch)
  PROVE  IInv'
<1>1. Command /\ repairs' = [repairs EXCEPT ![id] = patch]
  BY DEF RecordRepair
<1>2. UNCHANGED <<jobs, fresh, planner, started, pending, documents, charter, frozen, tasks,
                  op, tick, sanctioned, cutOff, repaired>>
  BY DEF RecordRepair, history
<1>3. TypeInv /\ OneJob /\ Approved
  BY DEF IInv
<1>4. commands' \in 0 .. MaxCommands
  BY <1>1, <1>3, CommandFacts
<1>5. DOMAIN repairs' = Ids /\ \A i \in Ids : repairs'[i] \in Patches[i] \cup {NoPatch}
  BY <1>1, <1>3 DEF TypeInv
<1>6. TypeInv'
  BY <1>2, <1>3, <1>4, <1>5 DEF TypeInv
<1>7. OneJob'
  BY <1>2, <1>3, JobFrame
<1>8. Approved'
  BY <1>2, <1>3, ApprovalFrame
<1> QED BY <1>6, <1>7, <1>8 DEF IInv

LEMMA RepairFrozenInv ==
  ASSUME IInv, NEW id \in Ids, RepairFrozen(id)
  PROVE  IInv'
<1>1. /\ Command /\ repairs[id] # NoPatch /\ id \in IdsOf(frozen)
      /\ frozen' = Patched(frozen, id, repairs[id]) /\ Freezable(frozen', FALSE)
  BY DEF RepairFrozen
<1>2. /\ sanctioned' = sanctioned \cup {frozen'} /\ repaired' = repaired \cup {id}
      /\ cutOff' = IF frozen \in cutOff THEN cutOff \cup {frozen'} ELSE cutOff
  BY DEF RepairFrozen
<1>3. UNCHANGED <<jobs, fresh, planner, started, pending, documents, charter, tasks, repairs,
                  op, tick>>
  BY DEF RepairFrozen
<1>4. TypeInv /\ OneJob /\ Approved
  BY DEF IInv
<1>5. op.pc = "idle" /\ commands' \in 0 .. MaxCommands
  BY <1>1, <1>4, CommandFacts
<1>6. PackageList(frozen) /\ repairs[id] \in Patches[id]
  BY <1>1, <1>4 DEF TypeInv
<1>7. PICK l : l = frozen'
  OBVIOUS
<1>8. /\ PackageList(l) /\ DOMAIN l = DOMAIN frozen
      /\ NoRenames => Alike(frozen, l)
      /\ \A i \in DOMAIN frozen : frozen[i].id = id \/ l[i] = frozen[i]
  BY <1>1, <1>6, <1>7, PatchedList
<1>9. TypeInv'
  BY <1>3, <1>4, <1>5, <1>7, <1>8 DEF TypeInv
<1>10. OneJob'
  BY <1>3, <1>4, JobFrame
<1>11. Approving'
  BY <1>3, <1>5 DEF Approving, Writing
<1>12. Validated'
  BY <1>1 DEF Validated
<1>13. Sanctioned'
  <2>1. sanctioned \cup cutOff \subseteq sanctioned' \cup cutOff' /\ frozen' \in sanctioned'
    BY <1>2
  <2>2. \A c : ~BeingApproved(c)
    BY <1>5 DEF BeingApproved
  <2> QED BY <1>3, <1>4, <2>1, <2>2 DEF Approved, Sanctioned
<1>14. ASSUME NoRenames PROVE Covered' /\ InForce'
  <2>1. Covered /\ InForce /\ Alike(frozen, l)
    BY <1>4, <1>8, <1>14 DEF Approved
  <2>2. IdsOf(frozen') = IdsOf(frozen)
    BY <1>7, <2>1, AlikeIds
  <2>3. Covered'
    BY <1>3, <2>1, <2>2 DEF Covered
  <2>4. InForce'
    <3> SUFFICES ASSUME pending'.approved, frozen' \notin cutOff' PROVE Matches'
      BY DEF InForce
    <3>1. frozen \notin cutOff
      BY <1>2
    <3>2. Matches
      BY <1>3, <1>5, <2>1, <3>1 DEF InForce
    <3>3. ASSUME NEW i \in DOMAIN l
          PROVE  \/ l[i] = pending.packages[i]
                 \/ l[i].id = pending.packages[i].id /\ l[i].id \in repaired'
      <4>1. i \in DOMAIN frozen /\ l[i].id = frozen[i].id
        BY <1>8, <2>1, <3>3 DEF Alike
      <4>2. \/ frozen[i] = pending.packages[i]
            \/ frozen[i].id = pending.packages[i].id /\ frozen[i].id \in repaired
        BY <3>2, <4>1 DEF Matches
      <4>3. CASE l[i] = frozen[i]
        BY <1>2, <4>2, <4>3
      <4>4. CASE frozen[i].id = id
        BY <1>2, <4>1, <4>2, <4>4
      <4> QED BY <1>8, <4>1, <4>3, <4>4
    <3>4. charter = pending.run /\ DOMAIN l = DOMAIN pending.packages
      BY <1>8, <3>2 DEF Matches
    <3> QED BY <1>3, <1>7, <3>3, <3>4 DEF Matches
  <2> QED BY <2>3, <2>4
<1> QED BY <1>9, <1>10, <1>11, <1>12, <1>13, <1>14 DEF IInv, Approved

LEMMA KillOperatorInv ==
  ASSUME IInv, KillOperator
  PROVE  IInv'
<1>1. op.pc # "idle" /\ op' = Idle
  BY DEF KillOperator
<1>2. planner' = IF op.pc = "planning" THEN [planner EXCEPT ![op.run] = "over"] ELSE planner
  BY DEF KillOperator
<1>3. cutOff' = IF op.pc = "creating" THEN cutOff \cup {frozen} ELSE cutOff
  BY DEF KillOperator
<1>4. UNCHANGED <<jobs, fresh, started, pending, documents, charter, frozen, tasks, repairs,
                  tick, commands, sanctioned, repaired>>
  BY DEF KillOperator, files
<1>5. TypeInv /\ OneJob /\ Approved
  BY DEF IInv
<1>6. OpForm(op') /\ op'.pc = "idle" /\ ~op'.payload.approved
  BY <1>1, IdleFacts
<1>7. OneJob' /\ planner' \in [Runs -> PlannerAt]
  <2>1. CASE op.pc = "planning"
    <3>1. PICK r : r = op.run
      OBVIOUS
    <3>2. r \in Runs /\ r <= started
      BY <1>5, <2>1, <3>1 DEF TypeInv, OpForm, OneJob, Writing
    <3>3. planner' = [planner EXCEPT ![r] = "over"] /\ "over" \in PlannerAt
      BY <1>2, <2>1, <3>1 DEF PlannerAt
    <3> QED BY <1>4, <1>5, <1>6, <2>1, <3>2, <3>3, PlannerMoves
  <2>2. CASE op.pc # "planning"
    <3>1. planner' = planner
      BY <1>2, <2>2
    <3> QED BY <1>4, <1>5, <1>6, <3>1, JobFrame DEF TypeInv
  <2> QED BY <2>1, <2>2
<1>8. TypeInv'
  BY <1>4, <1>5, <1>6, <1>7 DEF TypeInv
<1>9. Approving'
  BY <1>6 DEF Approving
<1>10. Validated'
  BY <1>4, <1>5 DEF Approved, Validated
<1>11. Sanctioned'
  <2>1. cutOff \subseteq cutOff'
    BY <1>3
  <2>2. \A c : BeingApproved(c) => c \in cutOff'
    BY <1>3, <1>5 DEF BeingApproved, Approved, Approving
  <2> QED BY <1>4, <1>5, <2>1, <2>2 DEF Approved, Sanctioned
<1>12. NoRenames => Covered' /\ InForce'
  BY <1>3, <1>4, <1>5, <1>6 DEF Approved, Covered, InForce, Matches
<1> QED BY <1>7, <1>8, <1>9, <1>10, <1>11, <1>12 DEF IInv, Approved

-----------------------------------------------------------------------------
(***************************************************************************)
(* The controller                                                          *)
(***************************************************************************)
LEMMA ControllerInv ==
  ASSUME IInv, Controller \/ Restart
  PROVE  IInv'
<1>1. UNCHANGED <<jobs, fresh, planner, started, pending, documents, charter, frozen, tasks,
                  repairs, op, commands, sanctioned, cutOff, repaired>>
  BY DEF Controller, LoadContracts, StartWork, WaitForApproval, DieOfTornPlan, EndTick,
     Restart, files, history
<1>2. TypeInv /\ OneJob /\ Approved
  BY DEF IInv
<1>3. /\ TickForm(tick')
      /\ tick'.pc = "loaded" =>
           tick'.contracts \in sanctioned \cup cutOff \/ BeingApproved(tick'.contracts)
      /\ tick'.pc = "working" => tick'.contracts \in sanctioned \cup cutOff
  <2>1. CASE LoadContracts
    <3>1. tick' = [pc |-> "loaded", contracts |-> frozen] /\ PackageList(frozen)
      BY <1>2, <2>1 DEF LoadContracts, TypeInv
    <3>2. TickForm(tick') /\ tick'.pc = "loaded" /\ tick'.contracts = frozen
      BY <3>1, TickMade
    <3> QED BY <1>2, <3>2 DEF Approved, Sanctioned
  <2>2. CASE StartWork
    <3>1. tick.pc = "loaded" /\ PlanIsApproved /\ tick' = [tick EXCEPT !.pc = "working"]
      BY <2>2 DEF StartWork
    <3>2. TickForm(tick)
      BY <1>2 DEF TypeInv
    <3>3. tick' = [pc |-> "working", contracts |-> tick.contracts] /\ PackageList(tick.contracts)
      BY <3>1, <3>2 DEF TickForm
    <3>4. TickForm(tick') /\ tick'.pc = "working" /\ tick'.contracts = tick.contracts
      BY <3>3, TickMade
    <3>5. ~BeingApproved(tick.contracts)
      <4> SUFFICES ASSUME op.pc = "creating", ~op.payload.approved PROVE FALSE
        BY DEF BeingApproved
      <4>1. pending.run # 0 /\ (pending = op.payload \/ ~pending.approved)
        BY <1>2 DEF Approved, Approving
      <4> QED BY <3>1, <4>1, NoPlanFacts DEF PlanIsApproved
    <3> QED BY <1>2, <3>1, <3>4, <3>5 DEF Approved, Sanctioned
  <2>3. CASE tick' = Resting
    BY <2>3, RestingFacts
  <2>4. CASE DieOfTornPlan
    <3>1. PICK l : l = Resting.contracts
      OBVIOUS
    <3>2. tick' = [pc |-> "dead", contracts |-> l] /\ PackageList(l)
      BY <2>4, <3>1, RestingFacts DEF DieOfTornPlan, TickForm
    <3> QED BY <3>2, TickMade
  <2> QED BY <2>1, <2>2, <2>3, <2>4 DEF Controller, WaitForApproval, EndTick, Restart
<1>4. TypeInv'
  BY <1>1, <1>2, <1>3 DEF TypeInv
<1>5. OneJob'
  BY <1>1, <1>2, JobFrame
<1>6. Approving' /\ Validated'
  BY <1>1, <1>2 DEF Approved, Approving, Validated
<1>7. Sanctioned'
  BY <1>1, <1>2, <1>3 DEF Approved, Sanctioned, BeingApproved
<1>8. NoRenames => Covered' /\ InForce'
  BY <1>1, <1>2 DEF Approved, Covered, InForce, Matches
<1> QED BY <1>4, <1>5, <1>6, <1>7, <1>8 DEF IInv, Approved

-----------------------------------------------------------------------------
(***************************************************************************)
(* The invariant                                                           *)
(***************************************************************************)
LEMMA InitInv == Init => IInv
<1> SUFFICES ASSUME Init PROVE IInv
  OBVIOUS
<1>1. PICK e : e = <<>>
  OBVIOUS
<1>2. /\ jobs = [r \in Runs |-> "none"] /\ fresh = {} /\ planner = [r \in Runs |-> "none"]
      /\ started = 0 /\ pending = NoPlan /\ documents = {} /\ charter = 0 /\ tasks = {}
      /\ repairs = [id \in Ids |-> NoPatch] /\ op = Idle /\ tick = Resting /\ commands = 0
      /\ repaired = {} /\ cutOff = {}
  BY DEF Init
<1>3. frozen = e /\ sanctioned = {e}
  BY <1>1, Zenon DEF Init
<1>4. PackageList(e) /\ IdsOf(e) = {}
  BY <1>1, EmptyList, Zenon
<1>5. TypeInv
  BY <1>2, <1>3, <1>4, NoPlanFacts, IdleFacts, RestingFacts, RunsFacts DEF TypeInv, JobStatus, PlannerAt
<1>6. \A r \in Runs : jobs[r] = "none" /\ planner[r] = "none"
  BY <1>2
<1>7. OneJob
  BY <1>2, <1>6, IdleFacts DEF OneJob, PlanningJobs, Live, Running
<1>8. Approving
  BY <1>2, IdleFacts DEF Approving
<1>9. Validated
  BY <1>1, <1>3 DEF Validated
<1>10. Sanctioned
  BY <1>2, <1>3, RestingFacts DEF Sanctioned
<1>11. Covered /\ InForce
  BY <1>2, NoPlanFacts, IdleFacts DEF Covered, InForce
<1> QED BY <1>5, <1>7, <1>8, <1>9, <1>10, <1>11 DEF IInv, Approved

LEMMA IdleStep ==
  ASSUME IInv, UNCHANGED vars
  PROVE  IInv'
<1>1. UNCHANGED <<jobs, fresh, planner, started, pending, documents, charter, frozen, tasks,
                  repairs, op, tick, commands, sanctioned, cutOff, repaired>>
  BY DEF vars, files, history
<1>2. TypeInv /\ OneJob /\ Approved
  BY DEF IInv
<1>3. TypeInv'
  BY <1>1, <1>2 DEF TypeInv
<1>4. OneJob'
  BY <1>1, <1>2, JobFrame
<1>5. Approved'
  BY <1>1, <1>2, ApprovalFrame
<1> QED BY <1>3, <1>4, <1>5 DEF IInv

LEMMA NextInv == IInv /\ [Next]_vars => IInv'
<1> SUFFICES ASSUME IInv, [Next]_vars PROVE IInv'
  OBVIOUS
<1>1. CASE Operator
  <2>1. ASSUME NEW replace \in BOOLEAN, Submit(replace) PROVE IInv'
    BY <2>1, SubmitInv
  <2>2. CASE Spawn
    BY <2>2, SpawnInv
  <2>3. CASE RunGoal
    BY <2>3, RunGoalInv
  <2>4. CASE Approve
    BY <2>4, ApproveInv
  <2>5. CASE WriteCharter
    BY <2>5, WriteCharterInv
  <2>6. CASE CharterMissing
    BY <2>6, CharterMissingInv
  <2>7. CASE WriteContracts
    BY <2>7, WriteContractsInv
  <2>8. CASE EnsureTask
    BY <2>8, EnsureTaskInv
  <2>9. CASE MarkApproved
    BY <2>9, MarkApprovedInv
  <2>10. CASE Reject
    BY <2>10, RejectInv
  <2>11. CASE WritePending
    BY <2>11, WritePendingInv
  <2>12. ASSUME NEW id \in Ids, NEW patch \in Patches[id], RecordRepair(id, patch) PROVE IInv'
    BY <2>12, RecordRepairInv
  <2>13. ASSUME NEW id \in Ids, RepairPending(id) PROVE IInv'
    BY <2>13, RepairPendingInv
  <2>14. ASSUME NEW id \in Ids, RepairFrozen(id) PROVE IInv'
    BY <2>14, RepairFrozenInv
  <2>15. CASE KillOperator
    BY <2>15, KillOperatorInv
  <2>16. CASE Truncate
    BY <2>16, TruncateInv
  <2>17. CASE Rewrite
    BY <2>17, RewriteInv
  <2> QED BY <1>1, <2>1, <2>2, <2>3, <2>4, <2>5, <2>6, <2>7, <2>8, <2>9, <2>10, <2>11,
             <2>12, <2>13, <2>14, <2>15, <2>16, <2>17 DEF Operator
<1>2. ASSUME NEW r \in Runs, Plan(r) PROVE IInv'
  BY <1>2, ExecuteInv, AnswerInProseInv, AnswerInv, WriteDocumentInv, FinishInv,
     PlannerFailsInv DEF Plan
<1>3. ASSUME NEW r \in Runs, KillPlanner(r) PROVE IInv'
  BY <1>3, KillPlannerInv
<1>4. ASSUME NEW r \in Runs, Age(r) PROVE IInv'
  BY <1>4, AgeInv
<1>5. CASE Controller \/ Restart
  BY <1>5, ControllerInv
<1>6. CASE UNCHANGED vars
  BY <1>6, IdleStep
<1> QED BY <1>1, <1>2, <1>3, <1>4, <1>5, <1>6 DEF Next

LEMMA Invariance == Spec => []IInv
<1>1. Init => IInv
  BY InitInv
<1>2. IInv /\ [Next]_vars => IInv'
  BY NextInv
<1> QED BY <1>1, <1>2, PTL DEF Spec

-----------------------------------------------------------------------------
(***************************************************************************)
(* What follows from it                                                    *)
(***************************************************************************)
\* Every reachable state has the files, commands and loop it should have.
THEOREM TypeCorrect == Spec => []TypeOK
<1>1. IInv => TypeOK
  BY TypesSuffice DEF IInv
<1> QED BY <1>1, Invariance, PTL

\* However often a goal is submitted and whichever planner is killed, there is
\* one background planner at most.
THEOREM OnePlannerAtWork == Spec => []OnePlanner
<1>1. IInv => OnePlanner
  BY DEF IInv, OneJob, OnePlanner, PlanningJobs, Live
<1> QED BY <1>1, Invariance, PTL

\* Whatever planners answer and operators repair, and wherever a command is
\* killed, the frozen contracts can be executed: the depth-first search finds
\* every cycle there may be.
THEOREM FrozenContractsAreSound == Spec => []FrozenIsSound
<1>1. ASSUME IInv PROVE FrozenIsSound
  <2>1. PackageList(frozen) /\ Validated
    BY <1>1 DEF IInv, TypeInv, Approved
  <2>2. CASE frozen = <<>>
    <3>1. IdsOf(frozen) = {}
      BY <2>2, EmptyList
    <3> QED BY <3>1 DEF FrozenIsSound, KnownDependencies, Acyclic, NoSharedEntry
  <2>3. CASE Freezable(frozen, FALSE)
    <3>1. ValidDag(frozen) /\ NoSharedEntry(frozen)
      BY <2>3 DEF Freezable
    <3>2. KnownDependencies(frozen) /\ ~FindsCycle(frozen)
      BY <3>1 DEF ValidDag
    <3>3. Acyclic(frozen)
      BY <2>1, <3>2, CycleCheckIsExact
    <3>4. \A id \in IdsOf(frozen) :
            /\ Contract(frozen, id).owned # {}
            /\ Contract(frozen, id).commands \cap ShellCommands = {}
      BY <2>3 DEF Freezable
    <3> QED BY <3>1, <3>2, <3>3, <3>4 DEF FrozenIsSound
  <2> QED BY <2>1, <2>2, <2>3 DEF Validated
<1>2. IInv => FrozenIsSound
  BY <1>1
<1> QED BY <1>2, Invariance, PTL

\* The controller never works on contracts whose first approval is under way.
THEOREM OnlySanctionedWork == Spec => []WorkIsSanctioned
<1>1. IInv => WorkIsSanctioned
  BY DEF IInv, Approved, Sanctioned, WorkIsSanctioned
<1> QED BY <1>1, Invariance, PTL

\* As long as no repair gives a package another id, an approved plan is in
\* force: its document, its packages and their tasks are there, whenever
\* planners answer and commands are killed.
THEOREM ApprovedPlansAreInForce ==
  ASSUME NoRenames
  PROVE  Spec => []ApprovedIsInForce
<1>1. IInv => ApprovedIsInForce
  <2> SUFFICES ASSUME IInv PROVE ApprovedIsInForce
    OBVIOUS
  <2>1. Covered /\ InForce
    BY DEF IInv, Approved
  <2>2. ApprovedIsFrozen
    BY <2>1 DEF InForce, Matches, ApprovedIsFrozen
  <2>3. ApprovedHasTasks
    BY <2>1 DEF Covered, ApprovedHasTasks
  <2> QED BY <2>2, <2>3 DEF ApprovedIsInForce
<1> QED BY <1>1, Invariance, PTL
=============================================================================
