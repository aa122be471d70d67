------------------------------ MODULE MutexMC ------------------------------
EXTENDS Mutex
=============================================================================
