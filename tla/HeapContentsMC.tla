--------------------------- MODULE HeapContentsMC ---------------------------
EXTENDS HeapContents
=============================================================================
