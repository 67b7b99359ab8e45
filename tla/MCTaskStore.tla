----------------------------- MODULE MCTaskStore -----------------------------
(***************************************************************************)
(* TaskStore for TLC: of the 20 statuses transition_task knows, the one a  *)
(* task is created with, one more that may be left, and one that may not;  *)
(* and the symmetry of the processes.                                      *)
(***************************************************************************)
EXTENDS TaskStore, TLC

FewStatuses == {"planned", "running", "merged"}
FewTerminal == {"merged"}

WriterSymmetry == Permutations(Writers)
=============================================================================
