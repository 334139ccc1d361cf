---------------------------- MODULE MCFrameInput ----------------------------
EXTENDS FrameInput
=============================================================================
