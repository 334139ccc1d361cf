--------------------------- MODULE MCDecoderThreads ---------------------------
EXTENDS DecoderThreads
=============================================================================
