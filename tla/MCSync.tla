------------------------------- MODULE MCSync -------------------------------
EXTENDS Sync, TLC
=============================================================================
