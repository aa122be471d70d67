---------------------------- MODULE AllocatorMC ----------------------------
EXTENDS Allocator
=============================================================================
