------------------------- MODULE AllocatorContract -------------------------
(***************************************************************************)
(* What picoalloc promises its clients, without headers, lists or bins:    *)
(* the map from the pointers clients own to the layout they were promised. *)
(* An operation that fails is a step that changes nothing.                 *)
(***************************************************************************)
EXTENDS Integers

CONSTANTS Aligns, Requests, ShrinkRequests, TOTAL_SPACE, BASES

VARIABLE owned   \* pointer -> [align, size]

\* A pointer lies in one of the possible arenas, behind at least a header.
Pointers == UNION { base + 1 .. base + TOTAL_SPACE : base \in BASES \ {0} }

\* The granules of size granules from pointer, against those of another client.
Disjoint(pointer, size, p) ==
  pointer + size <= p \/ p + owned[p].size <= pointer

\* pointer may be handed out with this layout, beside everything but `freed`.
Usable(pointer, align, size, freed) ==
  /\ pointer \in Pointers
  /\ pointer % align = 0
  /\ \A p \in DOMAIN owned \ freed : pointer # p /\ Disjoint(pointer, size, p)

Give(pointer, align, size, freed) ==
  /\ Usable(pointer, align, size, freed)
  /\ owned' = [p \in (DOMAIN owned \ freed) \cup {pointer} |->
                 IF p = pointer THEN [align |-> align, size |-> size] ELSE owned[p]]

Release(pointer) == owned' = [p \in DOMAIN owned \ {pointer} |-> owned[p]]

Init == owned = [p \in {} |-> [align |-> 1, size |-> 0]]

\* alloc, alloc_zeroed.
Alloc(align, size) == \E pointer \in Pointers : Give(pointer, align, size, {})

Free(pointer) == Release(pointer)

\* shrink_inplace: to at most the given size, where it is; 0 frees.
Shrink(pointer, size) ==
  \/ size = 0 /\ Release(pointer)
  \/ /\ size \in 1 .. owned[pointer].size
     /\ owned' = [owned EXCEPT ![pointer].size = size]

\* grow_inplace: to the given size, where it is, into nobody's memory.
Grow(pointer, size) ==
  /\ size >= owned[pointer].size
  /\ Give(pointer, owned[pointer].align, size, {pointer})

\* realloc: like shrink and grow, or the allocation moves to memory that was free
\* while the old one was still held.
Realloc(pointer, align, size) ==
  \/ size = 0 /\ Release(pointer)
  \/ Give(pointer, align, size, {pointer})
  \/ \E new \in Pointers : /\ Usable(new, align, size, {})
                           /\ Give(new, align, size, {pointer})

Next ==
  \/ \E align \in Aligns, size \in Requests : Alloc(align, size)
  \/ \E pointer \in DOMAIN owned :
       \/ Free(pointer)
       \/ \E size \in ShrinkRequests : Shrink(pointer, size)
       \/ \E size \in Requests : Grow(pointer, size)
       \/ \E align \in Aligns, size \in Requests : Realloc(pointer, align, size)

Spec == Init /\ [][Next]_owned

-----------------------------------------------------------------------------
\* No two clients share memory, no two hold the same pointer's memory, and every
\* pointer has the alignment it was promised with.
NoSharing ==
  \A p \in DOMAIN owned :
    /\ p % owned[p].align = 0
    /\ \A q \in DOMAIN owned \ {p} : Disjoint(p, owned[p].size, q)

=============================================================================
