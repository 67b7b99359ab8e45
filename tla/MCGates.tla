------------------------------ MODULE MCGates ------------------------------
\* Gates for TLC.
EXTENDS Gates
=============================================================================
