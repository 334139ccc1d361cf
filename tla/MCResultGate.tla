---------------------------- MODULE MCResultGate ----------------------------
EXTENDS ResultGate
=============================================================================
