------------------------- MODULE GlobalAllocatorMC -------------------------
EXTENDS GlobalAllocator
=============================================================================
