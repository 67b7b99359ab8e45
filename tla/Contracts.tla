------------------------------ MODULE Contracts ------------------------------
(***************************************************************************)
(* Work-package contracts and what approving a plan makes of them          *)
(* (src/railwarden/planning/pipeline.py, validation/contract.py,           *)
(* validation/commands.py, scheduler/dag.py).  A plan is a sequence of     *)
(* packages, as the planner listed them; a path is a sequence of names, so *)
(* that "src/app" is <<"src", "app">> and "public/" is <<"public", "">>.   *)
(***************************************************************************)
EXTENDS Naturals, FiniteSets, SequencesExt

CONSTANTS
  Ids,            \* package ids
  Number,         \* the number each id ends with (WP-004: 4)
  ScaffoldIds,    \* packages recognised as project scaffolding
  ScaffoldPaths,  \* what a scaffolding package is given to own
  RepoPaths,      \* the files and directories of the repository
  RepoFiles,      \* ... and which of them are files
  DefaultRefs,    \* the default context files that exist
  Skills,         \* references of the form skill:...
  ShellCommands   \* commands that cannot be read as an argv

ASSUME ContractsAssumption ==
  /\ Number \in [Ids -> Nat]
  /\ \A i, j \in Ids : Number[i] = Number[j] => i = j
  /\ ScaffoldIds \subseteq Ids
  /\ RepoFiles \subseteq RepoPaths
  /\ DefaultRefs \subseteq RepoFiles
  /\ Skills \cap RepoPaths = {}

Fields == {"id", "deps", "owned", "refs", "commands"}

PackageList(list) ==
  /\ list \in Seq({list[i] : i \in DOMAIN list})
  /\ \A i \in DOMAIN list : DOMAIN list[i] = Fields /\ list[i].id \in Ids

IdsOf(plan) == {plan[i].id : i \in DOMAIN plan}

\* A list becomes a mapping by id, in which the last of two wins.
Contract(plan, id) ==
  plan[CHOOSE i \in DOMAIN plan :
         /\ plan[i].id = id
         /\ \A j \in DOMAIN plan : plan[j].id = id => j <= i]

-----------------------------------------------------------------------------
(***************************************************************************)
(* What approval does to a plan                                            *)
(***************************************************************************)
Trim(path) == IF Last(path) = "" THEN Front(path) ELSE path

\* A path that is not in the repository stands for the only one in it that
\* has the same file name, if there is one.  (Names are either equal or not
\* similar at all: difflib's close matches are left out.)
NormalizedPath(path) ==
  LET p == Trim(path)
      namesakes == {q \in RepoPaths : Last(q) = Last(p)}
  IN  IF p \notin RepoPaths /\ Cardinality(namesakes) = 1
        THEN CHOOSE q \in namesakes : TRUE
        ELSE p

NormalizePaths(package) ==
  [package EXCEPT !.owned = {NormalizedPath(p) : p \in @}]

\* A path that several packages claim goes to the one with the highest number.
ResolveOverlaps(plan) ==
  LET Claimants(p) == {plan[i].id : i \in {j \in DOMAIN plan : p \in plan[j].owned}}
      Winner(p) == CHOOSE w \in Claimants(p) :
                     \A c \in Claimants(p) : Number[c] <= Number[w]
      Cede(package) == [package EXCEPT !.owned = {p \in @ : Winner(p) = package.id}]
  IN  [i \in DOMAIN plan |-> Cede(plan[i])]

OwnedPaths(plan) == UNION {plan[i].owned : i \in DOMAIN plan}

InferScaffoldOwnedPaths(package) ==
  IF package.id \in ScaffoldIds
    THEN [package EXCEPT !.owned = @ \cup ScaffoldPaths]
    ELSE package

\* Kept are skills, and context files that exist and that no package owns.
SanitizeContextRefs(package, owned) ==
  LET kept == {r \in package.refs :
                 \/ r \in Skills
                 \/ /\ r[1] = "context" /\ Len(r) > 1
                    /\ Trim(r) \notin owned
                    /\ r \in RepoFiles}
  IN  [package EXCEPT !.refs = IF kept = {} THEN DefaultRefs ELSE kept]

SanitizeCommands(package) ==
  [package EXCEPT !.commands = @ \ ShellCommands]

\* approve_latest_plan up to the validation: the extra paths of scaffolding
\* come after the overlaps have been resolved.
Prepared(plan) ==
  LET resolved == ResolveOverlaps([i \in DOMAIN plan |-> NormalizePaths(plan[i])])
      owned == OwnedPaths(resolved)
      Prepare(package) ==
        SanitizeCommands(
          SanitizeContextRefs(InferScaffoldOwnedPaths(package), owned))
  IN  [i \in DOMAIN resolved |-> Prepare(resolved[i])]

-----------------------------------------------------------------------------
(***************************************************************************)
(* What a plan must satisfy to be frozen                                   *)
(***************************************************************************)
KnownDependencies(plan) ==
  \A id \in IdsOf(plan) : Contract(plan, id).deps \subseteq IdsOf(plan)

\* validate_dag's depth-first search finds `id` on the path that led to it.
FindsCycle(plan) ==
  LET visit[at \in (SUBSET IdsOf(plan)) \X IdsOf(plan)] ==
        \/ at[2] \in at[1]
        \/ \E d \in Contract(plan, at[2]).deps : visit[<<at[1] \cup {at[2]}, d>>]
  IN  \E id \in IdsOf(plan) : visit[<<{}, id>>]

\* Mutated ValidDag: only a package that depends on itself is a cycle.
NoSelfDependency(plan) ==
  /\ KnownDependencies(plan)
  /\ \A id \in IdsOf(plan) : id \notin Contract(plan, id).deps

ValidDag(plan) == KnownDependencies(plan) /\ ~FindsCycle(plan)

\* No path is listed by two packages; lists are compared entry by entry.
NoSharedEntry(plan) ==
  \A i, j \in IdsOf(plan) :
    i # j => Contract(plan, i).owned \cap Contract(plan, j).owned = {}

\* validate_packages_for_freeze
Freezable(plan, requireRefs) ==
  /\ plan # <<>>
  /\ ValidDag(plan)
  /\ \A id \in IdsOf(plan) :
       LET package == Contract(plan, id) IN
         /\ package.owned # {}
         /\ requireRefs => package.refs # {}
         /\ package.refs \subseteq RepoPaths
         /\ package.commands \cap ShellCommands = {}
  /\ NoSharedEntry(plan)

-----------------------------------------------------------------------------
(***************************************************************************)
(* A repair is a patch: the fields it gives replace those of the first     *)
(* package with the id.                                                    *)
(***************************************************************************)
Update(package, patch) ==
  [f \in DOMAIN package \cup DOMAIN patch |->
     IF f \in DOMAIN patch THEN patch[f] ELSE package[f]]

Patched(plan, id, patch) ==
  LET first == CHOOSE i \in DOMAIN plan :
                 plan[i].id = id /\ \A j \in DOMAIN plan : plan[j].id = id => i <= j
  IN  [plan EXCEPT ![first] = Update(@, patch)]

-----------------------------------------------------------------------------
(***************************************************************************)
(* The same notions as a reader would define them, to compare with         *)
(***************************************************************************)
\* Some order of the packages puts each after all it depends on: every set of
\* packages has one that depends on none of the set.
Acyclic(plan) ==
  \A S \in (SUBSET IdsOf(plan)) \ {{}} : \E id \in S : Contract(plan, id).deps \cap S = {}

\* A worker may write `path` when it is a root it owns or lies below one.
Within(path, root) == IsPrefix(Trim(root), Trim(path))

Overlap(owned, others) ==
  \E p \in owned, q \in others : Within(p, q) \/ Within(q, p)
=============================================================================
