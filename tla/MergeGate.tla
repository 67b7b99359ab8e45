------------------------------ MODULE MergeGate ------------------------------
(***************************************************************************)
(* What integration promises to everyone who reads the integration branch: *)
(* it moves only by accepting one validated merge at a time, forward, and  *)
(* with the evidence of that merge in the same step.                       *)
(***************************************************************************)
CONSTANT Base   \* the branch the repository starts with

VARIABLES
  visible,   \* commits on the integration branch
  accepted   \* evidence of the merges: [pkg, head, after]

gateVars == <<visible, accepted>>

Init == visible = Base /\ accepted = {}

\* A merge brings in a head that was not there, keeps all that was, and its
\* evidence names the branch that came out.
Accept ==
  \E e \in accepted' :
    /\ accepted' = accepted \cup {e}
    /\ visible' = e.after
    /\ visible \cup e.head \subseteq e.after
    /\ ~(e.head \subseteq visible)

Spec == Init /\ [][Accept]_gateVars
=============================================================================
