----------------------------- MODULE MCProviders -----------------------------
\* Providers for TLC.
EXTENDS Providers
=============================================================================
