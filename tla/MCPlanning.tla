----------------------------- MODULE MCPlanning -----------------------------
(***************************************************************************)
(* Planning for TLC: three packages, of which the first is scaffolding, in *)
(* a repository with a source directory and one context file.              *)
(***************************************************************************)
EXTENDS Planning

SomeIds == {"WP-001", "WP-002", "WP-003"}
SomeNumber == [id \in SomeIds |->
                 CASE id = "WP-001" -> 1 [] id = "WP-002" -> 2 [] id = "WP-003" -> 3]
Scaffolding == {"WP-001"}
Manifest == <<"package.json">>
Scaffolds == {Manifest, <<"public", "">>}
Src == <<"src">>
App == <<"src", "app.py">>
Architecture == <<"context", "ARCHITECTURE.md">>
Repository == {Src, App, <<"context">>, Architecture}
RepositoryFiles == {App, Architecture}
Defaults == {Architecture}
Tdd == <<"skill:tdd">>
SkillRefs == {Tdd}
Shell == {"build && test"}

Package(id, deps, owned, refs) ==
  [id |-> id, deps |-> deps, owned |-> owned, refs |-> refs,
   commands |-> {"test", "build && test"}]

\* app.py elsewhere stands for src/app.py, so both packages claim it.
Overlapping == <<Package("WP-001", {}, {<<"lib", "app.py">>}, {}),
                 Package("WP-002", {"WP-001"}, {App, <<"docs">>}, {Architecture})>>
\* The first package keeps what scaffolding owns, the second owns below src.
Nested == <<Package("WP-001", {}, {Src}, {}),
            Package("WP-002", {"WP-001"}, {App}, {})>>
Cyclic == <<Package("WP-001", {"WP-003"}, {}, {}),
            Package("WP-002", {"WP-001"}, {App}, {}),
            Package("WP-003", {"WP-002"}, {<<"docs">>}, {})>>
\* What the third package owns is given to the first afterwards.
Colliding == <<Package("WP-001", {}, {Src}, {}), Package("WP-003", {}, {Manifest}, {})>>
WithSkill == <<Package("WP-002", {}, {Src}, {Tdd})>>
\* The first run answers anything, the one that replaces it a plan like most.
SomePlans == <<{Nested, Cyclic, Colliding, WithSkill}, {Overlapping}>>

\* Repairs the first package of one plan, and takes the second's path in the other.
SomePatches == [id \in SomeIds |->
                  IF id = "WP-001" THEN {[owned |-> {<<"docs">>}]} ELSE {}]
=============================================================================
