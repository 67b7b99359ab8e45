------------------------------ MODULE MCPanes ------------------------------
\* Panes for TLC.
EXTENDS Panes
=============================================================================
