----------------------------- MODULE MCControlLink ----------------------------
EXTENDS ControlLink
=============================================================================
