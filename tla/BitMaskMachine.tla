--------------------------- MODULE BitMaskMachine ---------------------------
(***************************************************************************)
(* The bit mask under an arbitrary sequence of set and unset calls, beside *)
(* the plain set of bins those calls describe.                             *)
(***************************************************************************)
EXTENDS BitMask

VARIABLES
  mask,   \* the BitMask
  bins    \* history: the bins set and not unset since

vars == <<mask, bins>>

Init == mask = bitmask_new /\ bins = {}

Set(i)   == mask' = bitmask_set(mask, bitmask_index(i))   /\ bins' = bins \cup {i}
Unset(i) == mask' = bitmask_unset(mask, bitmask_index(i)) /\ bins' = bins \ {i}

Next == \E i \in Bins : Set(i) \/ Unset(i)

Spec == Init /\ [][Next]_vars

-----------------------------------------------------------------------------
TypeOK == mask \in BitMasks /\ bins \in SUBSET Bins

\* Both levels together represent exactly the bins that were set: no bit is lost
\* when a word becomes empty, none survives (BitMask::set, BitMask::unset).
MaskRepresentsBins == Bits(mask) = bins /\ Summarised(mask)

\* BitMask::find_first returns the least set bin at or after min_index and None
\* exactly when there is none, across the border between two words too.
FindFirstIsLeast ==
  \A i \in Bins :
    LET after == { b \in bins : b >= i }
        found == find_first(mask, bitmask_index(i))
    IN  IF after = {} THEN found = None
                      ELSE found = bitmask_index(Min(after))

=============================================================================
