---------------------------- MODULE MCController ----------------------------
(***************************************************************************)
(* Controller for TLC: dependency graphs of the packages.                  *)
(***************************************************************************)
EXTENDS Controller

Independent == [p \in Packages |-> {}]

\* 2 depends on 1.
Chain == [p \in Packages |-> IF p = 2 THEN {1} ELSE {}]

\* 3 depends on 1; 2 is independent.
Fork == [p \in Packages |-> IF p = 3 THEN {1} ELSE {}]
=============================================================================
