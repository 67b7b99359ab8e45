---------------------------- MODULE MCIntegration ----------------------------
(***************************************************************************)
(* Integration for TLC: which managers call, and the symmetry of packages. *)
(***************************************************************************)
EXTENDS Integration, TLC

PackageSymmetry == Permutations(Packages)
=============================================================================
