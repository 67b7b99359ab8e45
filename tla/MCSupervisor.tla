---------------------------- MODULE MCSupervisor ----------------------------
\* Supervisor for TLC.
EXTENDS Supervisor
=============================================================================
