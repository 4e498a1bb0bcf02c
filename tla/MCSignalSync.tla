---------------------------- MODULE MCSignalSync ----------------------------
EXTENDS SignalSync
=============================================================================
