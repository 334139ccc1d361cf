--------------------------- MODULE MCWorkerThreads ----------------------------
EXTENDS WorkerThreads
=============================================================================
