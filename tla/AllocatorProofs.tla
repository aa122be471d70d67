-------------------------- MODULE AllocatorProofs --------------------------
(***************************************************************************)
(* The safety invariants of the allocator, for every arena below 4 GiB,    *)
(* every set of requests and every number of bins.                         *)
(***************************************************************************)
EXTENDS AllocatorLemmas

Consistent(h) == Sound(h) \/ Uninitialised(h)

\* The clients in o own exactly the allocated chunks of h, with the promised layout.
ClientsOf(h, o) ==
  /\ DOMAIN o = { h.base + c + 1 : c \in AllocatedOf(h.chunks) }
  /\ \A c \in AllocatedOf(h.chunks) :
       /\ o[h.base + c + 1] \in [align : Nat \ {0}, size : Nat]
       /\ h.chunks[c].size = o[h.base + c + 1].size + 1
       /\ (h.base + c + 1) % o[h.base + c + 1].align = 0

Inv ==
  /\ Consistent(heap) /\ ClientsOf(heap, owned)
  /\ base_address \in BASES \cup {0} /\ limit \in LIMITS

LEMMA HeapPrime ==
  ASSUME NEW g, BecomeHeap(g), IsHeap(g)
  PROVE  heap' = g
  BY DEF BecomeHeap, IsHeap, heap

\* While an allocator lives its arena stays where it is and committed memory is never
\* given back.
Advances ==
  /\ allocated_space <= allocated_space'
  /\ base_address # 0 => base_address' = base_address

LEMMA InvPrime ==
  ASSUME NEW g, BecomeHeap(g), IsHeap(g), Consistent(g), ClientsOf(g, owned'),
         g.base \in BASES \cup {0}, limit' \in LIMITS,
         heap.space <= g.space, heap.base # 0 => g.base = heap.base
  PROVE  Inv' /\ Advances
<1>1. heap' = g
  BY HeapPrime
<1>2. base_address' = g.base
  BY DEF BecomeHeap
<1>3. Consistent(heap')
  BY <1>1
<1>4. ClientsOf(heap', owned')
  BY <1>1
<1>5. Advances
  BY DEF Advances, BecomeHeap, heap
<1> QED BY <1>2, <1>3, <1>4, <1>5 DEF Inv

-----------------------------------------------------------------------------
(* What the operations mean for the clients.                               *)

\* A pointer that is owned leads back to its chunk.
LEMMA OwnedChunk ==
  ASSUME NEW h, Consistent(h), NEW o, ClientsOf(h, o), NEW pointer \in DOMAIN o
  PROVE  /\ Sound(h)
         /\ chunk_of(h, pointer) \in AllocatedOf(h.chunks)
         /\ chunk_of(h, pointer) \in Nat
         /\ pointer = h.base + chunk_of(h, pointer) + 1
         /\ o[pointer] \in [align : Nat \ {0}, size : Nat]
         /\ h.chunks[chunk_of(h, pointer)].size = o[pointer].size + 1
         /\ pointer % o[pointer].align = 0
<1>1. PICK c \in AllocatedOf(h.chunks) : pointer = h.base + c + 1
  BY DEF ClientsOf
<1>2. Sound(h)
  BY <1>1 DEF Consistent, Uninitialised, AllocatedOf
<1>3. c \in Nat /\ h.base \in Nat
  BY <1>1, <1>2, TiledChunk DEF Sound, AllocatedOf
<1>4. chunk_of(h, pointer) = c
  BY <1>1, <1>3 DEF chunk_of, HEADER_SIZE
<1> QED BY <1>1, <1>2, <1>3, <1>4 DEF ClientsOf

\* After a free the client's pointer is gone.
LEMMA ClientsFreed ==
  ASSUME NEW h, Sound(h), NEW o, ClientsOf(h, o), NEW chunk \in AllocatedOf(h.chunks),
         NEW g, Freed(g, h, chunk), NEW p, p = h.base + chunk + 1
  PROVE  ClientsOf(g, Without(o, p))
<1> DEFINE o2 == Without(o, p)
<1>1. /\ g.base = h.base /\ AllocatedOf(g.chunks) = AllocatedOf(h.chunks) \ {chunk}
      /\ \A c \in AllocatedOf(g.chunks) : g.chunks[c].size = h.chunks[c].size
  BY DEF Freed
<1>2. h.base \in Nat /\ \A c \in AllocatedOf(h.chunks) : c \in Nat
  BY TiledChunk DEF Sound, AllocatedOf
<1>3. \A c \in AllocatedOf(h.chunks) : h.base + c + 1 = p <=> c = chunk
  BY <1>2
<1>4. DOMAIN o2 = DOMAIN o \ {p} /\ \A q \in DOMAIN o2 : o2[q] = o[q]
  BY DEF Without
<1> HIDE DEF o2
<1>5. DOMAIN o2 = { h.base + c + 1 : c \in AllocatedOf(g.chunks) }
  BY <1>1, <1>3, <1>4 DEF ClientsOf
<1>6. ASSUME NEW c \in AllocatedOf(g.chunks)
      PROVE  o2[h.base + c + 1] = o[h.base + c + 1] /\ c \in AllocatedOf(h.chunks)
  BY <1>1, <1>4, <1>5
<1> QED BY <1>1, <1>5, <1>6 DEF ClientsOf, o2

\* o2 is o, except that p is owned with this layout.
Handed(o2, o, p, layout) ==
  /\ DOMAIN o2 = DOMAIN o \cup {p} /\ o2[p] = layout
  /\ \A q \in DOMAIN o : q # p => o2[q] = o[q]

\* After an allocation or a change of size the client owns the chunk with the new
\* layout.
LEMMA ClientsPlaced ==
  ASSUME NEW h, Sound(h), NEW o, ClientsOf(h, o), NEW chunk \in Nat,
         NEW size \in Nat, NEW g, Placed(g, h, chunk, size + 1),
         NEW p, p = h.base + chunk + 1, NEW align \in Nat \ {0}, p % align = 0,
         NEW o2, Handed(o2, o, p, Layout(align, size))
  PROVE  ClientsOf(g, o2)
<1>0. /\ DOMAIN o2 = DOMAIN o \cup {p} /\ o2[p] = Layout(align, size)
      /\ \A q \in DOMAIN o : q # p => o2[q] = o[q]
  BY DEF Handed
<1>1. /\ g.base = h.base /\ AllocatedOf(g.chunks) = AllocatedOf(h.chunks) \cup {chunk}
      /\ g.chunks[chunk].size = size + 1
      /\ \A c \in AllocatedOf(h.chunks) : c # chunk => g.chunks[c].size = h.chunks[c].size
  BY DEF Placed
<1>2. h.base \in Nat /\ \A c \in AllocatedOf(h.chunks) : c \in Nat
  BY TiledChunk DEF Sound, AllocatedOf
<1>3. \A c \in AllocatedOf(h.chunks) : h.base + c + 1 = p <=> c = chunk
  BY <1>2
<1>4. DOMAIN o2 = { h.base + c + 1 : c \in AllocatedOf(g.chunks) }
  BY <1>0, <1>1 DEF ClientsOf
<1>5. /\ o2[p] \in [align : Nat \ {0}, size : Nat]
      /\ o2[p].size = size /\ o2[p].align = align
  BY <1>0 DEF Layout
<1>6. ASSUME NEW c \in AllocatedOf(g.chunks)
      PROVE  /\ o2[h.base + c + 1] \in [align : Nat \ {0}, size : Nat]
             /\ g.chunks[c].size = o2[h.base + c + 1].size + 1
             /\ (h.base + c + 1) % o2[h.base + c + 1].align = 0
  <2>1. CASE c = chunk
    BY <1>1, <1>5, <2>1
  <2>2. CASE c # chunk
    <3>1. c \in AllocatedOf(h.chunks) /\ h.base + c + 1 # p
      BY <1>1, <1>3, <2>2
    <3>2. h.base + c + 1 \in DOMAIN o
      BY <3>1 DEF ClientsOf
    <3>3. o2[h.base + c + 1] = o[h.base + c + 1] /\ g.chunks[c].size = h.chunks[c].size
      BY <1>0, <1>1, <2>2, <3>1, <3>2
    <3> QED BY <3>1, <3>3 DEF ClientsOf
  <2> QED BY <2>1, <2>2
<1> QED BY <1>1, <1>4, <1>6 DEF ClientsOf

\* A heap without allocations has no clients, whatever its base.
LEMMA NoClients ==
  ASSUME NEW h, Uninitialised(h), NEW o, ClientsOf(h, o), NEW g, AllocatedOf(g.chunks) = {}
  PROVE  ClientsOf(g, o)
<1>1. AllocatedOf(h.chunks) = {}
  BY DEF Uninitialised, AllocatedOf
<1> QED BY <1>1 DEF ClientsOf

\* alloc_impl works on the arena it found or on the one it has just initialised.
LEMMA AllocImplOp ==
  ASSUME NEW h, Consistent(h), NEW new_base \in Nat, NEW align \in Nat, NEW size \in Nat
  PROVE  LET r == alloc_impl(h, new_base, align, size)
         IN  \E k : /\ \/ k = h
                       \/ /\ Uninitialised(h) /\ Sound(k) /\ AllocatedOf(k.chunks) = {}
                          /\ k.base = new_base /\ k.space = 1
                    /\ \/ r.heap = k /\ r.ret = NULL
                       \/ align # 0 /\ Sound(k) /\ AllocatedFrom(r, k, align, size)
<1> DEFINE k == initialize(h, new_base)
           r == alloc_impl(h, new_base, align, size)
<1>1. CASE is_power_of_two(align) /\ can_initialize(h, new_base)
  <2>1. r = alloc_initialized(k, align, size)
    BY <1>1 DEF alloc_impl
  <2>2. align \in Nat \ {0}
    BY <1>1 DEF is_power_of_two
  <2>3. CASE Sound(h)
    <3>1. k = h
      BY <2>3 DEF Sound, initialize
    <3> HIDE DEF k, r
    <3>2. AllocatedFrom(r, k, align, size)
      BY <2>1, <2>2, <2>3, <3>1, AllocInitializedOp
    <3> QED BY <2>2, <2>3, <3>1, <3>2 DEF r
  <2>4. CASE Uninitialised(h)
    <3>1. new_base \in Nat \ {0}
      BY <1>1, <2>4 DEF Uninitialised, can_initialize
    <3>2. Sound(k) /\ k.base = new_base /\ k.space = 1 /\ AllocatedOf(k.chunks) = {}
      BY <2>4, <3>1, InitializeOp
    <3> HIDE DEF k, r
    <3>3. AllocatedFrom(r, k, align, size)
      BY <2>1, <2>2, <3>2, AllocInitializedOp
    <3> QED BY <2>2, <2>4, <3>2, <3>3 DEF r
  <2> QED BY <2>3, <2>4 DEF Consistent
<1>2. CASE ~(is_power_of_two(align) /\ can_initialize(h, new_base))
  <2>1. r = returns(h, NULL)
    BY <1>2 DEF alloc_impl
  <2>2. r.heap = h /\ r.ret = NULL
    BY <2>1 DEF returns
  <2> QED BY <2>2
<1> QED BY <1>1, <1>2

-----------------------------------------------------------------------------
(* The inductive invariant.  A shrink to SIZE_MAX is left out: its sum with *)
(* the size of the header wraps (run shrink_overflow).                     *)

LEMMA SoundIsHeap ==
  ASSUME NEW h, Consistent(h)
  PROVE  IsHeap(h)
  BY DEF Consistent, Sound, Uninitialised

\* An allocation whose client was given another layout of the same size.
LEMMA ClientsRelabelled ==
  ASSUME NEW h, NEW o, ClientsOf(h, o), NEW p \in DOMAIN o,
         NEW align \in Nat \ {0}, p % align = 0,
         NEW o2, Handed(o2, o, p, Layout(align, o[p].size))
  PROVE  ClientsOf(h, o2)
<1>0. /\ DOMAIN o2 = DOMAIN o /\ o2[p] = Layout(align, o[p].size)
      /\ \A q \in DOMAIN o : q # p => o2[q] = o[q]
  BY DEF Handed
<1>1. PICK a \in AllocatedOf(h.chunks) : p = h.base + a + 1
  BY DEF ClientsOf
<1>2. o[p] \in [align : Nat \ {0}, size : Nat]
  BY <1>1 DEF ClientsOf
<1>3. /\ o2[p] \in [align : Nat \ {0}, size : Nat]
      /\ o2[p].size = o[p].size /\ o2[p].align = align
  BY <1>0, <1>2 DEF Layout
<1>4. ASSUME NEW c \in AllocatedOf(h.chunks)
      PROVE  /\ o2[h.base + c + 1] \in [align : Nat \ {0}, size : Nat]
             /\ h.chunks[c].size = o2[h.base + c + 1].size + 1
             /\ (h.base + c + 1) % o2[h.base + c + 1].align = 0
  <2>1. h.base + c + 1 \in DOMAIN o
    BY DEF ClientsOf
  <2>2. CASE h.base + c + 1 = p
    <3>1. h.chunks[c].size = o[h.base + c + 1].size + 1
      BY DEF ClientsOf
    <3> QED BY <1>3, <2>2, <3>1
  <2>3. CASE h.base + c + 1 # p
    <3>1. o2[h.base + c + 1] = o[h.base + c + 1]
      BY <1>0, <2>1, <2>3
    <3> QED BY <3>1 DEF ClientsOf
  <2> QED BY <2>2, <2>3
<1> QED BY <1>0, <1>4 DEF ClientsOf

LEMMA InitInv == Init => Inv
<1> SUFFICES ASSUME Init PROVE Inv
  OBVIOUS
<1>1. /\ IsHeap(heap) /\ heap.base = 0 /\ heap.space = 0
      /\ heap.mask = bitmask_new /\ heap.first = [bin \in Bins |-> NULL]
      /\ heap.chunks = [c \in {} |-> Chunk(0, 0, FALSE)]
      /\ heap.links = [c \in {} |-> Link(NULL, NULL)]
  BY DEF Init, heap, IsHeap
<1>2. DOMAIN heap.chunks = {} /\ DOMAIN heap.links = {}
  BY <1>1
<1>3. \A bin \in Bins : heap.first[bin] = NULL
  BY <1>1
<1>4. heap.first \in [Bins -> {NULL}]
  BY <1>1
<1>5. Masked(heap)
  BY <1>1, <1>3, NewIsEmpty DEF Masked
<1>6. Listed(heap, {})
  <2>1. heap.links \in [{} -> [next_in_list : {NULL}, prev_in_list : {NULL}]]
    BY <1>1
  <2>2. ListsTyped(heap, {})
    BY <1>4, <2>1 DEF ListsTyped
  <2>3. HeadsLinked(heap)
    BY <1>3 DEF HeadsLinked
  <2>4. ForwardLinked(heap, {}) /\ BackwardLinked(heap, {})
    BY DEF ForwardLinked, BackwardLinked
  <2>5. Anchored(heap, {})
    BY DEF Anchored
  <2> QED BY <1>5, <2>2, <2>3, <2>4, <2>5 DEF Listed
<1>7. Consistent(heap)
  BY <1>1, <1>2, <1>6 DEF Consistent, Uninitialised
<1>8. AllocatedOf(heap.chunks) = {}
  BY <1>2 DEF AllocatedOf
<1>9. ClientsOf(heap, owned)
  BY <1>8 DEF ClientsOf, Init
<1> QED BY <1>7, <1>9 DEF Inv, Init

LEMMA AllocInv ==
  ASSUME Inv, NEW align \in Aligns, NEW size \in Requests, NEW new_base \in BASES,
         Alloc(align, size, new_base)
  PROVE  Inv' /\ Advances
<1> DEFINE h == heap
           r == alloc_impl(h, new_base, align, size)
<1>1. align \in Nat /\ size \in Nat /\ new_base \in Nat
  BY SizeClassConstants, AllocatorConstants
<1>2. Consistent(h) /\ ClientsOf(h, owned) /\ h.base \in BASES \cup {0}
  BY DEF Inv, heap
<1>3. /\ BecomeHeap(r.heap) /\ limit' \in LIMITS
      /\ owned' = IF r.ret = NULL THEN owned ELSE Put(owned, r.ret, Layout(align, size))
  BY DEF Alloc, Inv
<1>4. PICK k : /\ \/ k = h
                  \/ /\ Uninitialised(h) /\ Sound(k) /\ AllocatedOf(k.chunks) = {}
                     /\ k.base = new_base /\ k.space = 1
               /\ \/ r.heap = k /\ r.ret = NULL
                  \/ align # 0 /\ Sound(k) /\ AllocatedFrom(r, k, align, size)
  BY <1>1, <1>2, AllocImplOp
<1> HIDE DEF h, r
<1>5. Consistent(k) /\ ClientsOf(k, owned) /\ k.base \in BASES \cup {0}
  BY <1>2, <1>4, NoClients DEF Consistent
<1>9. heap.space <= k.space /\ (heap.base # 0 => k.base = heap.base)
  <2>1. h.space \in Nat
    BY <1>2, SpaceIsNat DEF Consistent, Sound, Uninitialised
  <2>2. h.space <= k.space /\ (h.base # 0 => k.base = h.base)
    BY <1>4, <2>1 DEF Uninitialised
  <2> QED BY <2>2 DEF h
<1>6. CASE r.heap = k /\ r.ret = NULL
  BY <1>3, <1>5, <1>6, <1>9, InvPrime, SoundIsHeap
<1>7. CASE align # 0 /\ Sound(k) /\ r.ret # NULL /\ AllocatedFrom(r, k, align, size)
  <2>1. PICK c \in Nat : /\ Placed(r.heap, k, c, size + 1)
                         /\ r.ret = k.base + c + 1
                         /\ r.ret % align = 0
    BY <1>7 DEF AllocatedFrom
  <2>2. owned' = Put(owned, r.ret, Layout(align, size))
    BY <1>3, <1>7
  <2>3. Handed(owned', owned, r.ret, Layout(align, size))
    BY <2>2 DEF Put, Handed
  <2>4. align \in Nat \ {0}
    BY <1>1, <1>7
  <2>5. ClientsOf(r.heap, owned')
    BY <1>1, <1>5, <1>7, <2>1, <2>3, <2>4, ClientsPlaced
  <2>6. Sound(r.heap) /\ r.heap.base = k.base
    BY <2>1 DEF Placed
  <2>7. Consistent(r.heap)
    BY <2>6 DEF Consistent
  <2>8. heap.space <= r.heap.space
    <3>1. h.space \in Nat /\ k.space \in Nat /\ r.heap.space \in Nat
      BY <1>2, <1>7, <2>6, SpaceIsNat DEF Consistent, Sound, Uninitialised
    <3>2. h.space <= k.space /\ k.space <= r.heap.space
      BY <1>9, <2>1 DEF Placed, h
    <3>3. h.space <= r.heap.space
      BY <3>1, <3>2
    <3> QED BY <3>3 DEF h
  <2>9. heap.base # 0 => r.heap.base = heap.base
    BY <1>9, <2>6
  <2> QED BY <1>3, <1>5, <2>5, <2>6, <2>7, <2>8, <2>9, InvPrime, SoundIsHeap
<1>8. AllocatedFrom(r, k, align, size) => r.ret # NULL \/ r.heap = k
  <2>1. Sound(k) => k.base \in Nat
    BY DEF Sound
  <2>2. \A c \in Nat : k.base \in Nat => k.base + c + 1 # NULL
    BY DEF NULL
  <2>3. ASSUME AllocatedFrom(r, k, align, size), Sound(k), r.ret = NULL
        PROVE  r.heap = k
    BY <2>1, <2>2, <2>3 DEF AllocatedFrom
  <2> QED BY <1>4, <2>3, <1>6, <1>7
<1> QED BY <1>4, <1>6, <1>7, <1>8


\* Facts every operation on an owned pointer starts from.
Holding(h, o, pointer, chunk) ==
  /\ Sound(h) /\ ClientsOf(h, o)
  /\ chunk \in AllocatedOf(h.chunks) /\ chunk \in Nat
  /\ pointer = h.base + chunk + 1 /\ pointer \in DOMAIN o
  /\ o[pointer] \in [align : Nat \ {0}, size : Nat]
  /\ h.chunks[chunk].size = o[pointer].size + 1
  /\ pointer % o[pointer].align = 0

LEMMA HoldingOf ==
  ASSUME Inv, NEW pointer \in DOMAIN owned
  PROVE  /\ Holding(heap, owned, pointer, chunk_of(heap, pointer))
         /\ heap.base \in BASES \cup {0} /\ limit \in LIMITS
<1>1. Consistent(heap) /\ ClientsOf(heap, owned)
  BY DEF Inv
<1>2. heap.base \in BASES \cup {0} /\ limit \in LIMITS
  BY DEF Inv, heap
<1> DEFINE h == heap
<1> HIDE DEF h
<1>3. Consistent(h) /\ ClientsOf(h, owned)
  BY <1>1 DEF h
<1>4. Holding(h, owned, pointer, chunk_of(h, pointer))
  BY <1>3, OwnedChunk DEF Holding
<1> QED BY <1>2, <1>4 DEF h

\* A step to a sound heap with the same base, or to the heap as it was.
LEMMA InvSound ==
  ASSUME Inv, NEW g, BecomeHeap(g), limit' = limit, Sound(g), g.base = heap.base,
         g = heap \/ heap.space <= g.space, ClientsOf(g, owned')
  PROVE  Inv' /\ Advances
<1>1. Consistent(g) /\ IsHeap(g)
  BY DEF Consistent, Sound
<1>2. heap.base \in BASES \cup {0} /\ limit \in LIMITS
  BY DEF Inv, heap
<1>3. heap.space <= g.space
  <2>1. g.space \in Nat
    BY SpaceIsNat DEF Sound
  <2> QED BY <2>1
<1> QED BY <1>1, <1>2, <1>3, InvPrime

LEMMA InvFreed ==
  ASSUME Inv, NEW h, h = heap, NEW chunk, NEW pointer, Holding(h, owned, pointer, chunk),
         NEW g, Freed(g, h, chunk), BecomeHeap(g), limit' = limit,
         owned' = Without(owned, pointer)
  PROVE  Inv' /\ Advances
<1>1. Sound(g) /\ g.base = heap.base /\ heap.space <= g.space
  BY DEF Freed
<1>2. ClientsOf(g, Without(owned, pointer))
  BY ClientsFreed DEF Holding
<1> QED BY <1>1, <1>2, InvSound

LEMMA InvPlaced ==
  ASSUME Inv, NEW h, h = heap, NEW chunk, NEW pointer, Holding(h, owned, pointer, chunk),
         NEW size \in Nat, NEW align \in Nat \ {0}, pointer % align = 0,
         NEW g, Placed(g, h, chunk, size + 1), BecomeHeap(g), limit' = limit,
         Handed(owned', owned, pointer, Layout(align, size))
  PROVE  Inv' /\ Advances
<1>1. Sound(g) /\ g.base = heap.base /\ heap.space <= g.space
  BY DEF Placed
<1>2. Sound(h) /\ ClientsOf(h, owned) /\ chunk \in Nat /\ pointer = h.base + chunk + 1
  BY DEF Holding
<1>3. ClientsOf(g, owned')
  BY <1>2, ClientsPlaced
<1> QED BY <1>1, <1>3, InvSound

LEMMA ResizedOwner ==
  ASSUME NEW o, NEW p \in DOMAIN o, o[p] \in [align : Nat \ {0}, size : Nat],
         NEW size \in Nat, NEW o2, o2 = [o EXCEPT ![p].size = size]
  PROVE  Handed(o2, o, p, Layout(o[p].align, size))
  BY DEF Handed, Layout

LEMMA FreeInv ==
  ASSUME Inv, NEW pointer \in DOMAIN owned, FreeCall(pointer)
  PROVE  Inv' /\ Advances
<1> DEFINE h == heap
           chunk == chunk_of(h, pointer)
           g == free(h, pointer)
<1>1. Holding(h, owned, pointer, chunk)
  BY HoldingOf
<1>2. BecomeHeap(g) /\ owned' = Without(owned, pointer) /\ limit' = limit
  BY DEF FreeCall
<1>3. h = heap /\ chunk = chunk_of(h, pointer) /\ g = free(h, pointer)
  OBVIOUS
<1> HIDE DEF h, chunk, g
<1>4. Freed(g, h, chunk)
  BY <1>1, <1>3, FreeOp DEF Holding
<1> QED BY <1>1, <1>2, <1>3, <1>4, InvFreed

LEMMA ShrinkInv ==
  ASSUME Inv, NEW pointer \in DOMAIN owned, NEW size \in ShrinkRequests, size # SIZE_MAX,
         ShrinkInplace(pointer, size)
  PROVE  Inv' /\ Advances
<1> DEFINE h == heap
           chunk == chunk_of(h, pointer)
           g == shrink_inplace(h, pointer, size)
<1>1. Holding(h, owned, pointer, chunk)
  BY HoldingOf
<1>2. BecomeHeap(g) /\ limit' = limit
  BY DEF ShrinkInplace
<1>3. owned' = IF size = 0 THEN Without(owned, pointer)
               ELSE IF size < owned[pointer].size THEN [owned EXCEPT ![pointer].size = size]
               ELSE owned
  BY DEF ShrinkInplace
<1>4. size \in 0 .. SIZE_MAX - 1 /\ SIZE_MAX \in Nat
  BY SizeClassConstants, AllocatorConstants
<1>5. h = heap /\ chunk = chunk_of(h, pointer) /\ g = shrink_inplace(h, pointer, size)
  OBVIOUS
<1> HIDE DEF h, chunk, g
<1>6. CASE size = 0
  <2>1. g = free(h, pointer)
    BY <1>5, <1>6 DEF shrink_inplace
  <2>2. Freed(g, h, chunk)
    BY <1>1, <1>5, <2>1, FreeOp DEF Holding
  <2> QED BY <1>1, <1>2, <1>3, <1>5, <1>6, <2>2, InvFreed
<1>7. CASE size # 0
  <2>1. size \in 1 .. SIZE_MAX - 1 /\ size \in Nat
    BY <1>4, <1>7
  <2>2. IF size + 1 >= h.chunks[chunk].size THEN g = h ELSE Placed(g, h, chunk, size + 1)
    BY <1>1, <1>5, <2>1, ShrinkOp DEF Holding
  <2>3. owned[pointer] \in [align : Nat \ {0}, size : Nat]
    BY <1>1 DEF Holding
  <2>4. size + 1 >= h.chunks[chunk].size <=> ~(size < owned[pointer].size)
    BY <1>1, <2>1, <2>3 DEF Holding
  <2>5. CASE size < owned[pointer].size
    <3>1. Placed(g, h, chunk, size + 1)
      BY <2>2, <2>4, <2>5
    <3>2. owned' = [owned EXCEPT ![pointer].size = size]
      BY <1>3, <1>7, <2>5
    <3>3. Handed(owned', owned, pointer, Layout(owned[pointer].align, size))
      BY <2>1, <2>3, <3>2, ResizedOwner
    <3>4. owned[pointer].align \in Nat \ {0} /\ pointer % owned[pointer].align = 0
      BY <1>1 DEF Holding
    <3> QED BY <1>1, <1>2, <1>5, <2>1, <3>1, <3>3, <3>4, InvPlaced
  <2>6. CASE ~(size < owned[pointer].size)
    <3>1. g = h /\ owned' = owned
      BY <1>3, <1>7, <2>2, <2>4, <2>6
    <3>2. Sound(g) /\ ClientsOf(g, owned')
      BY <1>1, <3>1 DEF Holding
    <3> QED BY <1>2, <1>5, <3>1, <3>2, InvSound
  <2> QED BY <2>5, <2>6
<1> QED BY <1>6, <1>7

LEMMA GrowInv ==
  ASSUME Inv, NEW pointer \in DOMAIN owned, NEW size \in Requests,
         GrowInplace(pointer, size)
  PROVE  Inv' /\ Advances
<1> DEFINE h == heap
           chunk == chunk_of(h, pointer)
           r == grow_inplace(h, pointer, size)
<1>1. Holding(h, owned, pointer, chunk)
  BY HoldingOf
<1>2. /\ BecomeHeap(r.heap) /\ limit' = limit
      /\ owned' = IF r.ret = NULL THEN owned ELSE [owned EXCEPT ![pointer].size = r.ret]
  BY DEF GrowInplace
<1>3. size \in Nat
  BY SizeClassConstants, AllocatorConstants
<1>4. h = heap /\ chunk = chunk_of(h, pointer) /\ r = grow_inplace(h, pointer, size)
  OBVIOUS
<1> HIDE DEF h, chunk, r
<1>5. Grown(r, h, chunk, size)
  BY <1>1, <1>3, <1>4, GrowOp DEF Holding
<1>6. owned[pointer] \in [align : Nat \ {0}, size : Nat]
  BY <1>1 DEF Holding
<1>7. CASE r.heap = h /\ r.ret = NULL
  <2>1. Sound(r.heap) /\ ClientsOf(r.heap, owned')
    BY <1>1, <1>2, <1>7 DEF Holding
  <2> QED BY <1>2, <1>4, <1>7, <2>1, InvSound
<1>8. CASE r.heap = h /\ r.ret = h.chunks[chunk].size - 1
  <2>1. r.ret = owned[pointer].size
    BY <1>1, <1>6, <1>8 DEF Holding
  <2>2. r.ret \in Nat /\ r.ret # NULL
    BY <1>6, <2>1 DEF NULL
  <2>3. owned' = [owned EXCEPT ![pointer].size = r.ret]
    BY <1>2, <2>2
  <2>4. Handed(owned', owned, pointer, Layout(owned[pointer].align, r.ret))
    BY <1>6, <2>2, <2>3, ResizedOwner
  <2>5. owned[pointer].align \in Nat \ {0} /\ pointer % owned[pointer].align = 0
    BY <1>1 DEF Holding
  <2>6. ClientsOf(h, owned)
    BY <1>1 DEF Holding
  <2>7. ClientsOf(h, owned')
    BY <2>1, <2>4, <2>5, <2>6, ClientsRelabelled
  <2>8. Sound(r.heap) /\ ClientsOf(r.heap, owned')
    BY <1>1, <1>8, <2>7 DEF Holding
  <2> QED BY <1>2, <1>4, <1>8, <2>8, InvSound
<1>9. CASE Placed(r.heap, h, chunk, size + 1) /\ r.ret = size
  <2>1. owned' = [owned EXCEPT ![pointer].size = size]
    BY <1>2, <1>3, <1>9 DEF NULL
  <2>2. Handed(owned', owned, pointer, Layout(owned[pointer].align, size))
    BY <1>3, <1>6, <2>1, ResizedOwner
  <2>3. owned[pointer].align \in Nat \ {0} /\ pointer % owned[pointer].align = 0
    BY <1>1 DEF Holding
  <2> QED BY <1>1, <1>2, <1>3, <1>4, <1>9, <2>2, <2>3, InvPlaced
<1> QED BY <1>5, <1>7, <1>8, <1>9 DEF Grown


\* The pointer stays, with a new layout.
LEMMA KeptOwner ==
  ASSUME NEW o, NEW p \in DOMAIN o, NEW layout, NEW o2,
         o2 = Put(Without(o, p), p, layout)
  PROVE  Handed(o2, o, p, layout)
  BY DEF Handed, Put, Without

\* The allocation has moved: the new one is made while the old one is still held.
LEMMA InvMoved ==
  ASSUME Inv, NEW h, h = heap, NEW chunk, NEW pointer, Holding(h, owned, pointer, chunk),
         chunk = chunk_of(h, pointer), NEW align \in Nat \ {0}, NEW size \in Nat,
         NEW r, AllocatedFrom(r, h, align, size), r.ret # NULL,
         NEW g, g = free(r.heap, pointer), BecomeHeap(g), limit' = limit,
         owned' = Put(Without(owned, pointer), r.ret, Layout(align, size))
  PROVE  Inv' /\ Advances
<1>1. PICK c \in Nat : /\ Placed(r.heap, h, c, size + 1)
                       /\ c \notin AllocatedOf(h.chunks)
                       /\ r.ret = h.base + c + 1
                       /\ r.ret % align = 0
  BY DEF AllocatedFrom
<1> DEFINE k == r.heap
           o == Put(owned, r.ret, Layout(align, size))
<1>2. Handed(o, owned, r.ret, Layout(align, size))
  BY DEF Handed, Put
<1>3. /\ Sound(h) /\ ClientsOf(h, owned) /\ chunk \in AllocatedOf(h.chunks)
      /\ chunk \in Nat /\ pointer = h.base + chunk + 1 /\ h.base \in Nat
  BY DEF Holding, Sound
<1>4. r.ret # pointer
  <2>1. c # chunk
    BY <1>1, <1>3
  <2>2. \A b, x, y \in Nat : x # y => b + x + 1 # b + y + 1
    OBVIOUS
  <2>3. h.base + c + 1 # h.base + chunk + 1
    BY <1>3, <2>1, <2>2
  <2>4. r.ret = h.base + c + 1 /\ pointer = h.base + chunk + 1
    BY <1>1, <1>3
  <2> QED BY <2>3, <2>4
<1>5. owned' = Without(o, pointer)
  BY <1>4 DEF Put, Without
<1>6. /\ Sound(k) /\ k.base = h.base /\ chunk \in AllocatedOf(k.chunks)
  BY <1>1, <1>3 DEF Placed
<1>7. chunk_of(k, pointer) = chunk
  BY <1>6 DEF chunk_of
<1>8. Placed(k, h, c, size + 1)
  BY <1>1
<1>9. g = free(k, pointer)
  OBVIOUS
<1> HIDE DEF k, o
<1>10. ClientsOf(k, o)
  BY <1>1, <1>2, <1>3, <1>8, ClientsPlaced
<1>11. Freed(g, k, chunk)
  BY <1>6, <1>7, <1>9, FreeOp
<1>12. ClientsOf(g, Without(o, pointer))
  BY <1>3, <1>6, <1>10, <1>11, ClientsFreed
<1>13. Sound(g) /\ g.base = heap.base
  BY <1>6, <1>11 DEF Freed
<1>14. heap.space <= g.space
  <2>1. h.space \in Nat /\ k.space \in Nat /\ g.space \in Nat
    BY <1>3, <1>6, <1>13, SpaceIsNat DEF Sound
  <2>2. h.space <= k.space /\ k.space <= g.space
    BY <1>8, <1>11 DEF Placed, Freed
  <2> QED BY <2>1, <2>2
<1> QED BY <1>5, <1>12, <1>13, <1>14, InvSound

LEMMA ReallocInv ==
  ASSUME Inv, NEW pointer \in DOMAIN owned, NEW align \in Aligns, NEW size \in Requests,
         Realloc(pointer, align, size)
  PROVE  Inv' /\ Advances
<1> DEFINE h == heap
           chunk == chunk_of(h, pointer)
           L == Layout(align, size)
           current == usable_size_impl(h, pointer)
           grown   == grow_inplace(h, pointer, size)
           moved   == alloc_impl(h, h.base, align, size)
           r == realloc(h, pointer, align, size)
<1>1. Holding(h, owned, pointer, chunk)
  BY HoldingOf
<1>2. BecomeHeap(r.heap) /\ limit' = limit
  BY DEF Realloc
<1>3. owned' = IF r.ret # NULL THEN Put(Without(owned, pointer), r.ret, L)
               ELSE IF size = 0 THEN Without(owned, pointer)
               ELSE owned
  BY DEF Realloc
<1>4. align \in {1, owned[pointer].align}
  BY DEF Realloc
<1>5. size \in Nat /\ size <= SIZE_MAX /\ SIZE_MAX \in Nat
  BY SizeClassConstants, AllocatorConstants
<1>6. /\ h = heap /\ chunk = chunk_of(h, pointer) /\ L = Layout(align, size)
      /\ grown = grow_inplace(h, pointer, size)
      /\ moved = alloc_impl(h, h.base, align, size)
      /\ r = IF size = current THEN returns(h, pointer)
             ELSE IF size = 0 THEN returns(free(h, pointer), NULL)
             ELSE IF REALLOC_INPLACE /\ size < current
                    THEN returns(shrink_inplace(h, pointer, size), pointer)
             ELSE IF REALLOC_INPLACE /\ grown.ret # NULL THEN returns(grown.heap, pointer)
             ELSE IF moved.ret = NULL THEN returns(h, NULL)
             ELSE returns(free(moved.heap, pointer), moved.ret)
  BY DEF realloc
<1>7. current = h.chunks[chunk].size - 1
  BY DEF usable_size_impl, HEADER_SIZE
<1>8. \A a, b : returns(a, b).heap = a /\ returns(a, b).ret = b
  BY DEF returns
<1> HIDE DEF h, chunk, L, current, grown, moved, r
<1>9. /\ owned[pointer] \in [align : Nat \ {0}, size : Nat]
      /\ h.chunks[chunk].size = owned[pointer].size + 1
      /\ pointer % owned[pointer].align = 0 /\ pointer \in Nat
      /\ Sound(h) /\ ClientsOf(h, owned) /\ h.base \in Nat
      /\ chunk \in AllocatedOf(h.chunks)
  BY <1>1 DEF Holding, Sound
<1>10. align \in Nat \ {0} /\ pointer % align = 0
  BY <1>4, <1>9
<1>11. current = owned[pointer].size /\ current \in Nat /\ pointer # NULL
  BY <1>7, <1>9 DEF NULL
<1>12. r.ret = pointer => Handed(owned', owned, pointer, L)
  BY <1>3, <1>11, KeptOwner
<1>13. CASE size = current
  <2>1. r.heap = h /\ r.ret = pointer
    BY <1>6, <1>8, <1>13
  <2>2. Handed(owned', owned, pointer, Layout(align, owned[pointer].size))
    BY <1>6, <1>11, <1>12, <1>13, <2>1
  <2>3. ClientsOf(h, owned')
    BY <1>9, <1>10, <2>2, ClientsRelabelled
  <2> QED BY <1>2, <1>6, <1>9, <2>1, <2>3, InvSound
<1>14. CASE size # current /\ size = 0
  <2>1. r.heap = free(h, pointer) /\ r.ret = NULL
    BY <1>6, <1>8, <1>14
  <2>2. Freed(r.heap, h, chunk)
    BY <1>6, <1>9, <2>1, FreeOp
  <2>3. owned' = Without(owned, pointer)
    BY <1>3, <1>14, <2>1
  <2> QED BY <1>1, <1>2, <1>6, <2>2, <2>3, InvFreed
<1>15. CASE size # 0 /\ REALLOC_INPLACE /\ size < current
  <2>1. r.heap = shrink_inplace(h, pointer, size) /\ r.ret = pointer
    BY <1>5, <1>6, <1>8, <1>11, <1>15
  <2>2. h.chunks[chunk].size \in Nat /\ h.chunks[chunk].size <= TOTAL_SPACE
    BY <1>9, TiledChunk, SpaceIsNat DEF Sound, Tiled, ChunksTyped, ChunkHeaders, AllocatedOf
  <2>3. size \in 1 .. SIZE_MAX - 1
    BY <1>5, <1>7, <1>15, <2>2, AllocatorConstants, SpaceIsNat
  <2>4. ~(size + 1 >= h.chunks[chunk].size)
    BY <1>5, <1>7, <1>15, <2>2
  <2>5. Placed(r.heap, h, chunk, size + 1)
    BY <1>6, <1>9, <2>1, <2>3, <2>4, ShrinkOp
  <2>6. Handed(owned', owned, pointer, Layout(align, size))
    BY <1>6, <1>12, <2>1
  <2> QED BY <1>1, <1>2, <1>5, <1>6, <1>10, <2>5, <2>6, InvPlaced
<1>16. CASE /\ size # 0 /\ size # current /\ ~(REALLOC_INPLACE /\ size < current)
            /\ REALLOC_INPLACE /\ grown.ret # NULL
  <2>1. r.heap = grown.heap /\ r.ret = pointer
    BY <1>6, <1>8, <1>16
  <2>2. Grown(grown, h, chunk, size)
    BY <1>5, <1>6, <1>9, GrowOp
  <2>3. h.chunks[chunk].size < size + 1
    BY <1>5, <1>7, <1>9, <1>11, <1>16
  <2>4. ~(h.chunks[chunk].size >= size + 1)
    BY <1>5, <1>9, <2>3
  <2>5. Placed(grown.heap, h, chunk, size + 1)
    BY <1>16, <2>2, <2>4 DEF Grown
  <2>6. Handed(owned', owned, pointer, Layout(align, size))
    BY <1>6, <1>12, <2>1
  <2> QED BY <1>1, <1>2, <1>5, <1>6, <1>10, <2>1, <2>5, <2>6, InvPlaced
<1>17. CASE /\ size # 0 /\ size # current /\ ~(REALLOC_INPLACE /\ size < current)
            /\ ~(REALLOC_INPLACE /\ grown.ret # NULL)
  <2>1. CASE moved.ret = NULL
    <3>1. r.heap = h /\ r.ret = NULL
      BY <1>6, <1>8, <1>17, <2>1
    <3>2. owned' = owned
      BY <1>3, <1>17, <3>1
    <3> QED BY <1>2, <1>6, <1>9, <3>1, <3>2, InvSound
  <2>2. CASE moved.ret # NULL
    <3>1. r.heap = free(moved.heap, pointer) /\ r.ret = moved.ret
      BY <1>6, <1>8, <1>17, <2>2
    <3>2. Consistent(h) /\ ~Uninitialised(h)
      BY <1>9 DEF Consistent, Sound, Uninitialised
    <3>3. AllocatedFrom(moved, h, align, size)
      BY <1>5, <1>6, <1>9, <1>10, <2>2, <3>2, AllocImplOp
    <3>4. owned' = Put(Without(owned, pointer), moved.ret, Layout(align, size))
      BY <1>3, <1>6, <2>2, <3>1
    <3> QED BY <1>1, <1>2, <1>5, <1>6, <1>10, <2>2, <3>1, <3>3, <3>4, InvMoved
  <2> QED BY <2>1, <2>2
<1> QED BY <1>13, <1>14, <1>15, <1>16, <1>17

LEMMA NextInv ==
  ASSUME SIZE_MAX \notin ShrinkRequests, Inv, [Next]_vars
  PROVE  Inv' /\ Advances
<1>1. ASSUME NEW align \in Aligns, NEW size \in Requests, NEW new_base \in BASES,
             Alloc(align, size, new_base)
      PROVE  Inv' /\ Advances
  BY <1>1, AllocInv
<1>2. ASSUME NEW pointer \in DOMAIN owned, FreeCall(pointer)
      PROVE  Inv' /\ Advances
  BY <1>2, FreeInv
<1>3. ASSUME NEW pointer \in DOMAIN owned, NEW size \in ShrinkRequests,
             ShrinkInplace(pointer, size)
      PROVE  Inv' /\ Advances
  BY <1>3, ShrinkInv
<1>4. ASSUME NEW pointer \in DOMAIN owned, NEW size \in Requests,
             GrowInplace(pointer, size)
      PROVE  Inv' /\ Advances
  BY <1>4, GrowInv
<1>5. ASSUME NEW pointer \in DOMAIN owned, NEW align \in Aligns, NEW size \in Requests,
             Realloc(pointer, align, size)
      PROVE  Inv' /\ Advances
  BY <1>5, ReallocInv
<1>6. ASSUME heap' = heap, owned' = owned, UNCHANGED <<base_address, allocated_space>>,
             limit' \in LIMITS
      PROVE  Inv' /\ Advances
  <2>1. allocated_space \in Nat
    BY SpaceIsNat DEF Inv, Consistent, Sound, Uninitialised, heap
  <2>2. Advances
    BY <1>6, <2>1 DEF Advances
  <2> QED BY <1>6, <2>2 DEF Inv
<1>7. CASE ChangeLimit
  BY <1>6, <1>7 DEF ChangeLimit, arena, heap
<1>8. CASE UNCHANGED vars
  BY <1>6, <1>8 DEF vars, arena, heap, Inv
<1> QED BY <1>1, <1>2, <1>3, <1>4, <1>5, <1>7, <1>8 DEF Next


LEMMA InvAlways ==
  ASSUME SIZE_MAX \notin ShrinkRequests
  PROVE  Spec => []Inv
<1>1. Init => Inv
  BY InitInv
<1>2. Inv /\ [Next]_vars => Inv'
  BY NextInv
<1> QED BY <1>1, <1>2, PTL DEF Spec


-----------------------------------------------------------------------------
(* What the invariant says of the variables.                               *)

LEMMA HeapFields ==
  /\ heap.base = base_address /\ heap.space = allocated_space
  /\ heap.mask = free_lists_with_unallocated_memory /\ heap.first = first_in_free_list
  /\ heap.chunks = chunks /\ heap.links = links
  /\ FreeOf(heap.chunks) = Free /\ AllocatedOf(heap.chunks) = Allocated
  BY DEF heap, FreeOf, AllocatedOf, Free, Allocated

\* The parts of the invariant that hold whether the arena is initialised or not.
LEMMA InvParts ==
  ASSUME Inv
  PROVE  /\ ChunksTyped(chunks) /\ Ends(chunks) /\ Apart(chunks) /\ BackLinked(chunks)
         /\ base_address # 0 => 0 \in DOMAIN chunks
         /\ Merged(chunks) /\ Listed(heap, Free) /\ Committed(heap)
         /\ allocated_space \in 0 .. TOTAL_SPACE
<1>1. CASE Sound(heap)
  BY <1>1, HeapFields DEF Sound, Tiled
<1>2. CASE Uninitialised(heap)
  <2>1. DOMAIN chunks = {} /\ base_address = 0 /\ allocated_space = 0 /\ Listed(heap, {})
    BY <1>2, HeapFields DEF Uninitialised
  <2>2. Free = {} /\ FreeOf(chunks) = {}
    BY <2>1 DEF Free, FreeOf
  <2>3. allocated_space \in 0 .. TOTAL_SPACE
    BY <2>1, SpaceIsNat
  <2> QED BY <2>1, <2>2, <2>3, HeapFields
          DEF ChunksTyped, Ends, Apart, BackLinked, Merged, Committed
<1> QED BY <1>1, <1>2 DEF Inv, Consistent

LEMMA InvOwned ==
  ASSUME Inv, NEW c \in Allocated
  PROVE  /\ owned[pointer_to(c)] \in [align : Nat \ {0}, size : Nat]
         /\ chunks[c].size = owned[pointer_to(c)].size + HEADER_SIZE
         /\ pointer_to(c) % owned[pointer_to(c)].align = 0
  BY HeapFields DEF Inv, ClientsOf, pointer_to, HEADER_SIZE

LEMMA InvOwners ==
  ASSUME Inv
  PROVE  DOMAIN owned = { pointer_to(c) : c \in Allocated }
  BY HeapFields DEF Inv, ClientsOf, pointer_to, HEADER_SIZE

LEMMA ChunkIsNat ==
  ASSUME Inv, NEW c \in DOMAIN chunks
  PROVE  /\ c \in Nat /\ c \in Offsets
         /\ chunks[c].prev_chunk_size \in Nat
         /\ chunks[c].size \in Nat \ {0} /\ chunks[c].size <= TOTAL_SPACE
         /\ base_address \in Nat
<1>1. ChunksTyped(chunks)
  BY InvParts
<1>2. c \in Offsets /\ chunks[c] \in ChunkHeaders
  BY <1>1 DEF ChunksTyped
<1>3. base_address \in Nat
  BY AllocatorConstants DEF Inv
<1> QED BY <1>2, <1>3, SpaceIsNat DEF Offsets, ChunkHeaders

LEMMA InvTypeOK == Inv => TypeOK
<1> SUFFICES ASSUME Inv PROVE TypeOK
  OBVIOUS
<1>1. ChunksTyped(chunks) /\ Listed(heap, Free) /\ allocated_space \in 0 .. TOTAL_SPACE
  BY InvParts
<1>2. Free \subseteq Offsets
  BY <1>1 DEF ChunksTyped, Free
<1>3. /\ first_in_free_list \in [Bins -> Free \cup {NULL}]
      /\ links \in [Free -> [next_in_list : Free \cup {NULL}, prev_in_list : Free \cup {NULL}]]
      /\ free_lists_with_unallocated_memory \in BitMasks
  BY <1>1, HeapFields DEF Listed, ListsTyped, Masked
<1>4. \A c \in DOMAIN links :
        links[c] \in [next_in_list : Offsets \cup {NULL}, prev_in_list : Offsets \cup {NULL}]
  BY <1>2, <1>3
<1>5. first_in_free_list \in [Bins -> Offsets \cup {NULL}]
  BY <1>2, <1>3
<1>6. ASSUME NEW p \in DOMAIN owned
      PROVE  owned[p] \in [align : Nat \ {0}, size : 0 .. TOTAL_SPACE]
  <2>1. PICK c \in Allocated : p = pointer_to(c)
    BY InvOwners
  <2>2. owned[p] \in [align : Nat \ {0}, size : Nat] /\ chunks[c].size = owned[p].size + 1
    BY <2>1, InvOwned DEF HEADER_SIZE
  <2>3. chunks[c].size \in Nat /\ chunks[c].size <= TOTAL_SPACE
    BY ChunkIsNat DEF Allocated
  <2>4. owned[p].size \in 0 .. TOTAL_SPACE
    BY <2>2, <2>3, SpaceIsNat
  <2> QED BY <2>2, <2>4
<1> QED BY <1>1, <1>2, <1>3, <1>4, <1>5, <1>6 DEF TypeOK, Inv, ChunksTyped, ChunkHeaders

LEMMA InvBackPointers == Inv => BackPointers
<1> SUFFICES ASSUME Inv, NEW c \in DOMAIN chunks
             PROVE  LET prev == c - chunks[c].prev_chunk_size
                    IN  IF c = 0 THEN prev = 0
                        ELSE prev \in DOMAIN chunks /\ prev + chunks[prev].size = c
  BY DEF BackPointers
<1>1. IF c = 0 THEN chunks[c].prev_chunk_size = 0
      ELSE /\ c - chunks[c].prev_chunk_size \in DOMAIN chunks
           /\ chunks[c - chunks[c].prev_chunk_size].size = chunks[c].prev_chunk_size
  BY InvParts DEF BackLinked
<1>2. c \in Nat /\ chunks[c].prev_chunk_size \in Nat
  BY ChunkIsNat
<1> QED BY <1>1, <1>2

LEMMA InvListsLinked == Inv => ListsLinked
<1> SUFFICES ASSUME Inv PROVE ListsLinked
  OBVIOUS
<1>1. Listed(heap, Free)
  BY InvParts
<1>2. /\ first_in_free_list \in [Bins -> Free \cup {NULL}]
      /\ links \in [Free -> [next_in_list : Free \cup {NULL}, prev_in_list : Free \cup {NULL}]]
  BY <1>1, HeapFields DEF Listed, ListsTyped
<1>3. \A c : bin_of(heap, c) = size_to_bin_round_down(chunks[c].size)
  BY HeapFields DEF bin_of
<1>4. ASSUME NEW bin \in Bins, first_in_free_list[bin] # NULL
      PROVE  /\ first_in_free_list[bin] \in Free
             /\ size_to_bin_round_down(chunks[first_in_free_list[bin]].size) = bin
             /\ links[first_in_free_list[bin]].prev_in_list = NULL
  <2>1. heap.first[bin] # NULL
    BY <1>4, HeapFields
  <2>2. bin_of(heap, heap.first[bin]) = bin /\ heap.links[heap.first[bin]].prev_in_list = NULL
    BY <1>1, <2>1 DEF Listed, HeadsLinked
  <2> QED BY <1>2, <1>3, <1>4, <2>2, HeapFields
<1>5. ASSUME NEW c \in Free, links[c].next_in_list # NULL
      PROVE  /\ links[c].next_in_list \in Free
             /\ links[links[c].next_in_list].prev_in_list = c
             /\ size_to_bin_round_down(chunks[links[c].next_in_list].size)
                  = size_to_bin_round_down(chunks[c].size)
  <2>1. /\ heap.links[heap.links[c].next_in_list].prev_in_list = c
        /\ bin_of(heap, heap.links[c].next_in_list) = bin_of(heap, c)
    BY <1>1, <1>5, HeapFields DEF Listed, ForwardLinked
  <2> QED BY <1>2, <1>3, <1>5, <2>1, HeapFields
<1>6. ASSUME NEW c \in Free
      PROVE  IF links[c].prev_in_list = NULL
               THEN first_in_free_list[size_to_bin_round_down(chunks[c].size)] = c
               ELSE /\ links[c].prev_in_list \in Free
                    /\ links[links[c].prev_in_list].next_in_list = c
  <2>1. IF heap.links[c].prev_in_list = NULL
          THEN heap.first[bin_of(heap, c)] = c
          ELSE heap.links[heap.links[c].prev_in_list].next_in_list = c
    BY <1>1 DEF Listed, BackwardLinked
  <2> QED BY <1>2, <1>3, <2>1, HeapFields
<1>7. DOMAIN links = Free
  BY <1>2
<1> QED BY <1>4, <1>5, <1>6, <1>7 DEF ListsLinked

LEMMA InvEveryFreeChunkIsListed == Inv => EveryFreeChunkIsListed
<1> DEFINE Closed(found) ==
             /\ \A bin \in Bins : first_in_free_list[bin] \in found \cup {NULL}
             /\ \A c \in found : links[c].next_in_list \in found \cup {NULL}
<1> SUFFICES ASSUME Inv
             PROVE  /\ Closed(Free)
                    /\ \A found \in SUBSET Free : Closed(found) => found = Free
  BY DEF EveryFreeChunkIsListed
<1>1. ListsLinked /\ Listed(heap, Free)
  BY InvListsLinked, InvParts
<1>2. Closed(Free)
  BY <1>1 DEF ListsLinked
<1>3. ASSUME NEW found \in SUBSET Free, Closed(found), found # Free
      PROVE  FALSE
  <2> DEFINE S == Free \ found
  <2>1. S \in SUBSET Free /\ S # {}
    BY <1>3
  <2>2. PICK c \in S : links[c].prev_in_list \notin S
    BY <1>1, <2>1, HeapFields DEF Listed, Anchored
  <2>3. c \in Free /\ c \notin found /\ c # NULL
    BY <1>1, <2>2 DEF Listed
  <2>4. CASE links[c].prev_in_list = NULL
    <3>1. first_in_free_list[size_to_bin_round_down(chunks[c].size)] = c
      BY <1>1, <2>3, <2>4 DEF ListsLinked
    <3>2. size_to_bin_round_down(chunks[c].size) \in Bins
      BY <1>1, <2>3, HeapFields DEF Listed, bin_of
    <3> QED BY <1>3, <2>3, <3>1, <3>2
  <2>5. CASE links[c].prev_in_list # NULL
    <3>1. links[c].prev_in_list \in Free /\ links[links[c].prev_in_list].next_in_list = c
      BY <1>1, <2>3, <2>5 DEF ListsLinked
    <3>2. links[c].prev_in_list \in found
      BY <2>2, <3>1
    <3> QED BY <1>3, <2>3, <3>1, <3>2
  <2> QED BY <2>4, <2>5
<1> QED BY <1>2, <1>3

LEMMA InvFittingChunkIsFound == Inv => FittingChunkIsFound
<1> SUFFICES ASSUME Inv, base_address # 0, NEW align \in Aligns, NEW size \in Requests,
                    is_power_of_two(align),
                    min_size_for(align, size) <= MAX_ALLOCATION_SIZE,
                    NEW c \in Free,
                    size_to_bin_round_down(chunks[c].size)
                      >= size_to_bin_round_up(min_size_for(align, size))
             PROVE  has_chunk_for(heap, align, size)
  BY DEF FittingChunkIsFound
<1>1. align \in Nat \ {0} /\ size \in Nat
  BY AllocatorConstants, SizeClassConstants DEF is_power_of_two
<1>2. Listed(heap, Free)
  BY InvParts
<1>3. \A d \in Free : heap.chunks[d].size \in Nat \ {0}
  BY ChunkIsNat, HeapFields DEF Free
<1>4. bin_of(heap, c) >= size_to_bin_round_up(min_size_for(align, size))
  BY HeapFields DEF bin_of
<1> QED BY <1>1, <1>2, <1>3, <1>4, FittingIsFound

LEMMA InvNoSharing == Inv => NoSharing
<1> SUFFICES ASSUME Inv, NEW p \in DOMAIN owned
             PROVE  /\ p % owned[p].align = 0
                    /\ \A q \in DOMAIN owned \ {p} :
                         p + owned[p].size <= q \/ q + owned[q].size <= p
  BY DEF NoSharing, Contract!NoSharing, Contract!Disjoint
<1>1. PICK c \in Allocated : p = pointer_to(c)
  BY InvOwners
<1>2. ASSUME NEW q \in DOMAIN owned \ {p}
      PROVE  p + owned[p].size <= q \/ q + owned[q].size <= p
  <2>1. PICK d \in Allocated : q = pointer_to(d)
    BY InvOwners
  <2>2. c \in DOMAIN chunks /\ d \in DOMAIN chunks /\ c # d
    BY <1>1, <2>1 DEF Allocated
  <2>3. /\ c \in Nat /\ chunks[c].size \in Nat /\ base_address \in Nat
        /\ d \in Nat /\ chunks[d].size \in Nat
    BY <2>2, ChunkIsNat
  <2>4. /\ c < d => c + chunks[c].size <= d
        /\ d < c => d + chunks[d].size <= c
    BY <2>2, InvParts DEF Apart
  <2>5. /\ owned[p].size \in Nat /\ chunks[c].size = owned[p].size + 1
        /\ owned[q].size \in Nat /\ chunks[d].size = owned[q].size + 1
    BY <1>1, <2>1, InvOwned DEF HEADER_SIZE
  <2>6. p = base_address + c + 1 /\ q = base_address + d + 1
    BY <1>1, <2>1 DEF pointer_to, HEADER_SIZE
  <2>7. c < d \/ d < c
    BY <2>2, <2>3
  <2>8. CASE c < d
    BY <2>3, <2>4, <2>5, <2>6, <2>8
  <2>9. CASE d < c
    BY <2>3, <2>4, <2>5, <2>6, <2>9
  <2> QED BY <2>7, <2>8, <2>9
<1>3. p % owned[p].align = 0
  BY <1>1, InvOwned
<1> QED BY <1>2, <1>3


-----------------------------------------------------------------------------
(* The theorems, for every size of the arena (the code's 32-bit sizes hold *)
(* one below 4 GiB), base address, number of bins and set of requests.     *)

\* Type correctness: no operation leaves an offset, a size or a list pointer outside
\* the arena, and clients are never promised more than the arena holds.
THEOREM TypesAreKept ==
  ASSUME SIZE_MAX \notin ShrinkRequests
  PROVE  Spec => []TypeOK
  BY InvAlways, InvTypeOK, PTL

\* The sizes that alloc_impl, free, shrink_inplace, grow_inplace and realloc write
\* always cover the arena from end to end, without overlaps.
THEOREM ChunksTile ==
  ASSUME SIZE_MAX \notin ShrinkRequests
  PROVE  Spec => []Tiling
<1>1. Inv => Tiling
  BY InvParts DEF Tiling, Ends, Apart
<1> QED BY <1>1, InvAlways, PTL

\* prev_chunk_size always is the size of the chunk before, so that free merges with
\* the right one.
THEOREM BackPointersHold ==
  ASSUME SIZE_MAX \notin ShrinkRequests
  PROVE  Spec => []BackPointers
  BY InvAlways, InvBackPointers, PTL

\* No order of calls leaves two free chunks side by side.
THEOREM FreeSpaceIsMerged ==
  ASSUME SIZE_MAX \notin ShrinkRequests
  PROVE  Spec => []Coalesced
<1>1. FreeOf(chunks) = Free
  BY DEF FreeOf, Free
<1>2. Inv => Coalesced
  BY <1>1, InvParts DEF Coalesced, Merged
<1> QED BY <1>2, InvAlways, PTL

\* The list pointers agree in both directions and each free chunk hangs in the list of
\* its size, so unregister_free_space writes to chunks that are really free.
THEOREM ListsStayLinked ==
  ASSUME SIZE_MAX \notin ShrinkRequests
  PROVE  Spec => []ListsLinked
  BY InvAlways, InvListsLinked, PTL

\* Every free chunk can be reached from the head of a list: none hangs in a circle that
\* unregister_free_space and register_free_space have cut off.
THEOREM NoFreeChunkIsLost ==
  ASSUME SIZE_MAX \notin ShrinkRequests
  PROVE  Spec => []EveryFreeChunkIsListed
  BY InvAlways, InvEveryFreeChunkIsListed, PTL

\* alloc_impl finds a chunk whenever a free one is in a bin where all chunks fit: the
\* rounding of sizes, the lists and the mask agree.
THEOREM FittingChunksAreFound ==
  ASSUME SIZE_MAX \notin ShrinkRequests
  PROVE  Spec => []FittingChunkIsFound
  BY InvAlways, InvFittingChunkIsFound, PTL

\* The bit mask says exactly which free lists have chunks, so alloc_impl never takes
\* the head of an empty list.
THEOREM MaskStaysExact ==
  ASSUME SIZE_MAX \notin ShrinkRequests
  PROVE  Spec => []MaskMatchesLists
<1>1. Inv => MaskMatchesLists
  BY InvParts, HeapFields DEF MaskMatchesLists, Listed, Masked
<1> QED BY <1>1, InvAlways, PTL

\* No header and no allocation lies in memory that expand_memory_until has not been
\* asked for.
THEOREM MemoryIsCommitted ==
  ASSUME SIZE_MAX \notin ShrinkRequests
  PROVE  Spec => []WithinCommittedMemory
<1>1. Inv => WithinCommittedMemory
  BY InvParts, HeapFields DEF WithinCommittedMemory, Committed
<1> QED BY <1>1, InvAlways, PTL

\* A chunk is allocated exactly while a client owns it and is as long as its client
\* was told.
THEOREM ClientsKeepTheirChunks ==
  ASSUME SIZE_MAX \notin ShrinkRequests
  PROVE  Spec => []ClientsOwnTheirChunks
<1>1. Inv => ClientsOwnTheirChunks
  BY InvOwned, InvOwners DEF ClientsOwnTheirChunks
<1> QED BY <1>1, InvAlways, PTL

\* Two live allocations never overlap and every pointer is aligned as was asked.
THEOREM ClientsNeverShare ==
  ASSUME SIZE_MAX \notin ShrinkRequests
  PROVE  Spec => []NoSharing
  BY InvAlways, InvNoSharing, PTL

\* While an allocator lives its arena never moves, and memory that expand_memory_until
\* has committed is not forgotten: allocated_space only grows.
THEOREM CommittedMemoryOnlyGrows ==
  ASSUME SIZE_MAX \notin ShrinkRequests
  PROVE  Spec => [][Advances]_vars
<1>1. Inv /\ [Next]_vars => Advances
  BY NextInv
<1> QED BY <1>1, InvAlways, PTL DEF Spec

\* shrink_inplace changes nothing of a chunk but its size, and leaves the shorter of what
\* the client had and what it asked for.
LEMMA ShrinkKeeps ==
  ASSUME Inv, NEW pointer \in DOMAIN owned, NEW size \in ShrinkRequests \ {0},
         size # SIZE_MAX, ShrinkInplace(pointer, size)
  PROVE  LET chunk == chunk_of(heap, pointer)
             old   == usable_size_impl(heap, pointer)
         IN  /\ chunk \in DOMAIN chunks'
             /\ chunks'[chunk] = [chunks[chunk] EXCEPT !.size = HEADER_SIZE + Min({old, size})]
<1> DEFINE h     == heap
           chunk == chunk_of(h, pointer)
           g     == shrink_inplace(h, pointer, size)
           old   == usable_size_impl(h, pointer)
<1>1. Holding(h, owned, pointer, chunk)
  BY HoldingOf
<1>2. h.chunks = chunks /\ chunks' = g.chunks
  BY DEF ShrinkInplace, BecomeHeap, heap
<1>3. size \in 1 .. SIZE_MAX - 1 /\ size \in Nat
  BY SizeClassConstants, AllocatorConstants
<1>4. chunk = chunk_of(h, pointer) /\ g = shrink_inplace(h, pointer, size)
  OBVIOUS
<1>5. old = h.chunks[chunk].size - 1
  BY DEF usable_size_impl, HEADER_SIZE
<1> HIDE DEF h, chunk, g, old
<1>6. /\ Sound(h) /\ chunk \in AllocatedOf(h.chunks)
      /\ chunk \in DOMAIN h.chunks /\ h.chunks[chunk] \in ChunkHeaders
      /\ h.chunks[chunk].size \in Nat
  <2>1. Sound(h) /\ chunk \in AllocatedOf(h.chunks) /\ chunk \in DOMAIN h.chunks
    BY <1>1 DEF Holding, AllocatedOf
  <2> QED BY <2>1, TiledChunk DEF Sound
<1>7. IF size + 1 >= h.chunks[chunk].size THEN g = h
      ELSE Placed(g, h, chunk, size + 1) /\ Resized(g, h, chunk, size + 1)
  BY <1>3, <1>4, <1>6, ShrinkOp
<1>8. chunk \in DOMAIN g.chunks
      /\ g.chunks[chunk] = [h.chunks[chunk] EXCEPT !.size = HEADER_SIZE + Min({old, size})]
  <2>1. CASE size + 1 >= h.chunks[chunk].size
    <3>1. g = h /\ Min({old, size}) = old /\ HEADER_SIZE + old = h.chunks[chunk].size
      <4>1. old \in Int /\ old <= size
        BY <1>3, <1>5, <1>6, <2>1
      <4>2. Min({old, size}) = old
        BY <1>3, <4>1 DEF Min
      <4> QED BY <1>5, <1>6, <1>7, <2>1, <4>2 DEF HEADER_SIZE
    <3>2. [h.chunks[chunk] EXCEPT !.size = h.chunks[chunk].size] = h.chunks[chunk]
      BY <1>6 DEF ChunkHeaders
    <3> QED BY <1>6, <3>1, <3>2
  <2>2. CASE ~(size + 1 >= h.chunks[chunk].size)
    <3>1. Min({old, size}) = size /\ HEADER_SIZE + size = size + 1
      <4>1. old \in Int /\ size < old
        BY <1>3, <1>5, <1>6, <2>2
      <4>2. Min({old, size}) = size
        BY <1>3, <4>1 DEF Min
      <4> QED BY <1>3, <4>2 DEF HEADER_SIZE
    <3> QED BY <1>7, <2>2, <3>1 DEF Placed, Resized, AllocatedOf
  <2> QED BY <2>1, <2>2
<1> QED BY <1>2, <1>8 DEF h, chunk, old

\* Where the sum with the header does not overflow, shrink_inplace keeps the allocation
\* and gives back only what is behind the size asked for.
THEOREM ShrinkingIsSafe ==
  ASSUME SIZE_MAX \notin ShrinkRequests
  PROVE  Spec => ShrinkKeepsTheAllocation
<1> DEFINE Keeps == \A pointer \in DOMAIN owned, size \in ShrinkRequests \ {0} :
              ShrinkInplace(pointer, size) =>
                LET old == usable_size_impl(heap, pointer)
                IN  /\ chunk_of(heap, pointer) \in DOMAIN chunks'
                    /\ chunks'[chunk_of(heap, pointer)]
                         = [chunks[chunk_of(heap, pointer)] EXCEPT
                              !.size = HEADER_SIZE + Min({old, size})]
<1>1. Inv => Keeps
  <2> SUFFICES ASSUME Inv, NEW pointer \in DOMAIN owned, NEW size \in ShrinkRequests \ {0},
                      ShrinkInplace(pointer, size)
               PROVE  LET old == usable_size_impl(heap, pointer)
                      IN  /\ chunk_of(heap, pointer) \in DOMAIN chunks'
                          /\ chunks'[chunk_of(heap, pointer)]
                               = [chunks[chunk_of(heap, pointer)] EXCEPT
                                    !.size = HEADER_SIZE + Min({old, size})]
    OBVIOUS
  <2>1. size # SIZE_MAX
    OBVIOUS
  <2> QED BY <2>1, ShrinkKeeps
<1>2. Inv /\ [Next]_vars => [Keeps]_vars
  BY <1>1
<1>3. Spec => [][Keeps]_vars
  BY <1>2, InvAlways, PTL DEF Spec
<1> QED BY <1>3 DEF ShrinkKeepsTheAllocation

-----------------------------------------------------------------------------
(* The allocator implements its contract: every call is a step that the    *)
(* contract allows, or changes nothing a client can see.                   *)

OwnersAreAFunction == owned = [p \in DOMAIN owned |-> owned[p]]

LEMMA FunctionStep ==
  ASSUME OwnersAreAFunction, [Next]_vars
  PROVE  OwnersAreAFunction'
<1>1. ASSUME owned' = owned PROVE OwnersAreAFunction'
  BY <1>1 DEF OwnersAreAFunction
<1>2. ASSUME NEW f, NEW p, owned' = Without(f, p) PROVE OwnersAreAFunction'
  BY <1>2 DEF OwnersAreAFunction, Without
<1>3. ASSUME NEW f, NEW p, NEW v, owned' = Put(f, p, v) PROVE OwnersAreAFunction'
  BY <1>3 DEF OwnersAreAFunction, Put
<1>4. ASSUME NEW p, NEW v, owned' = [owned EXCEPT ![p].size = v] PROVE OwnersAreAFunction'
  BY <1>4 DEF OwnersAreAFunction
<1>5. ASSUME NEW align \in Aligns, NEW size \in Requests, NEW new_base \in BASES,
             Alloc(align, size, new_base)
      PROVE  OwnersAreAFunction'
  BY <1>1, <1>3, <1>5 DEF Alloc
<1>6. ASSUME NEW pointer \in DOMAIN owned, FreeCall(pointer)
      PROVE  OwnersAreAFunction'
  BY <1>2, <1>6 DEF FreeCall
<1>7. ASSUME NEW pointer \in DOMAIN owned, NEW size \in ShrinkRequests,
             ShrinkInplace(pointer, size)
      PROVE  OwnersAreAFunction'
  BY <1>1, <1>2, <1>4, <1>7 DEF ShrinkInplace
<1>8. ASSUME NEW pointer \in DOMAIN owned, NEW size \in Requests, GrowInplace(pointer, size)
      PROVE  OwnersAreAFunction'
  BY <1>1, <1>4, <1>8 DEF GrowInplace
<1>9. ASSUME NEW pointer \in DOMAIN owned, NEW align \in Aligns, NEW size \in Requests,
             Realloc(pointer, align, size)
      PROVE  OwnersAreAFunction'
  BY <1>1, <1>2, <1>3, <1>9 DEF Realloc
<1>10. CASE ChangeLimit \/ UNCHANGED vars
  BY <1>1, <1>10 DEF ChangeLimit, vars
<1> QED BY <1>5, <1>6, <1>7, <1>8, <1>9, <1>10 DEF Next

-----------------------------------------------------------------------------
\* What a client of a consistent heap can rely on.
LEMMA ClientsApart ==
  ASSUME NEW h, Consistent(h), NEW o, ClientsOf(h, o), h.base \in BASES \cup {0},
         NEW p \in DOMAIN o
  PROVE  /\ p \in Contract!Pointers
         /\ p % o[p].align = 0
         /\ \A q \in DOMAIN o : q # p => p + o[p].size <= q \/ q + o[q].size <= p
<1> DEFINE c == chunk_of(h, p)
<1>1. /\ Sound(h) /\ c \in AllocatedOf(h.chunks) /\ c \in Nat /\ p = h.base + c + 1
      /\ o[p].size \in Nat /\ h.chunks[c].size = o[p].size + 1 /\ p % o[p].align = 0
  BY OwnedChunk
<1> HIDE DEF c
<1>2. Tiled(h.chunks) /\ h.base \in BASES \ {0} /\ h.base \in Nat /\ c \in DOMAIN h.chunks
  BY <1>1 DEF Sound, AllocatedOf
<1>3. p \in Contract!Pointers
  <2>1. c \in 0 .. TOTAL_SPACE - 1
    BY <1>2 DEF Tiled, ChunksTyped, Offsets
  <2>2. p \in h.base + 1 .. h.base + TOTAL_SPACE
    BY <1>1, <1>2, <2>1, SpaceIsNat
  <2> QED BY <1>2, <2>2 DEF Contract!Pointers
<1>4. ASSUME NEW q \in DOMAIN o, q # p
      PROVE  p + o[p].size <= q \/ q + o[q].size <= p
  <2> DEFINE d == chunk_of(h, q)
  <2>1. /\ d \in AllocatedOf(h.chunks) /\ d \in Nat /\ q = h.base + d + 1
        /\ o[q].size \in Nat /\ h.chunks[d].size = o[q].size + 1
    BY OwnedChunk
  <2> HIDE DEF d
  <2>2. d \in DOMAIN h.chunks
    BY <2>1 DEF AllocatedOf
  <2>3. /\ c < d => c + h.chunks[c].size <= d
        /\ d < c => d + h.chunks[d].size <= c
    BY <1>2, <2>2 DEF Tiled, Apart
  <2>4. c < d \/ d < c
    <3>1. c # d
      BY <1>1, <1>4, <2>1
    <3> QED BY <1>1, <2>1, <3>1
  <2>5. CASE c < d
    BY <1>1, <1>2, <2>1, <2>3, <2>5
  <2>6. CASE d < c
    BY <1>1, <1>2, <2>1, <2>3, <2>6
  <2> QED BY <2>4, <2>5, <2>6
<1> QED BY <1>1, <1>3, <1>4

\* A pointer that a consistent heap hands out may be given to its client.
LEMMA UsableAfter ==
  ASSUME NEW h, Consistent(h), h.base \in BASES \cup {0}, NEW o, ClientsOf(h, o),
         NEW p \in DOMAIN o, NEW align, NEW size \in Nat, o[p] = Layout(align, size),
         NEW freed, p \notin DOMAIN owned \ freed,
         \A q \in DOMAIN owned \ freed : q \in DOMAIN o /\ o[q] = owned[q]
  PROVE  Contract!Usable(p, align, size, freed)
<1>1. o[p].align = align /\ o[p].size = size
  BY DEF Layout
<1>2. /\ p \in Contract!Pointers /\ p % align = 0
      /\ \A q \in DOMAIN o : q # p => p + size <= q \/ q + o[q].size <= p
  BY <1>1, ClientsApart
<1>3. ASSUME NEW q \in DOMAIN owned \ freed
      PROVE  p # q /\ (p + size <= q \/ q + owned[q].size <= p)
  <2>1. q # p /\ q \in DOMAIN o /\ o[q] = owned[q]
    OBVIOUS
  <2>2. p + size <= q \/ q + o[q].size <= p
    BY <1>2, <2>1
  <2> QED BY <2>1, <2>2
<1> QED BY <1>2, <1>3 DEF Contract!Usable, Contract!Disjoint

LEMMA UsableNext ==
  ASSUME Inv', NEW p \in DOMAIN owned', NEW align, NEW size \in Nat,
         owned'[p] = Layout(align, size), NEW freed, p \notin DOMAIN owned \ freed,
         \A q \in DOMAIN owned \ freed : q \in DOMAIN owned' /\ owned'[q] = owned[q]
  PROVE  Contract!Usable(p, align, size, freed)
<1>1. Consistent(heap') /\ ClientsOf(heap', owned') /\ heap'.base \in BASES \cup {0}
  BY DEF Inv, heap
<1>2. PICK h, o : h = heap' /\ o = owned'
  OBVIOUS
<1> QED BY <1>1, <1>2, UsableAfter


-----------------------------------------------------------------------------
(* One lemma per operation.                                                *)

\* A new layout for the pointer p, which nobody else holds.
LEMMA GiveNext ==
  ASSUME Inv', NEW p, NEW align, NEW size \in Nat, NEW freed,
         p \notin DOMAIN owned \ freed,
         owned' = [q \in (DOMAIN owned \ freed) \cup {p} |->
                     IF q = p THEN Layout(align, size) ELSE owned[q]]
  PROVE  Contract!Give(p, align, size, freed)
<1>1. p \in DOMAIN owned' /\ owned'[p] = Layout(align, size)
  OBVIOUS
<1>2. \A q \in DOMAIN owned \ freed : q \in DOMAIN owned' /\ owned'[q] = owned[q]
  OBVIOUS
<1>3. Contract!Usable(p, align, size, freed)
  BY <1>1, <1>2, UsableNext
<1> QED BY <1>3 DEF Contract!Give, Layout

\* alloc_impl never returns a pointer that a client already has.
LEMMA AllocIsNew ==
  ASSUME Inv, NEW align \in Aligns, NEW size \in Requests, NEW new_base \in BASES,
         alloc_impl(heap, new_base, align, size).ret # NULL
  PROVE  alloc_impl(heap, new_base, align, size).ret \notin DOMAIN owned
<1> DEFINE h == heap
           r == alloc_impl(h, new_base, align, size)
<1>1. align \in Nat /\ size \in Nat /\ new_base \in Nat
  BY SizeClassConstants, AllocatorConstants
<1>2. Consistent(h) /\ ClientsOf(h, owned)
  BY DEF Inv
<1>3. r.ret # NULL
  OBVIOUS
<1>4. PICK k : /\ \/ k = h
                  \/ /\ Uninitialised(h) /\ Sound(k) /\ AllocatedOf(k.chunks) = {}
                     /\ k.base = new_base
               /\ \/ r.heap = k /\ r.ret = NULL
                  \/ align # 0 /\ Sound(k) /\ AllocatedFrom(r, k, align, size)
  BY <1>1, <1>2, AllocImplOp
<1> SUFFICES r.ret \notin DOMAIN owned
  OBVIOUS
<1> HIDE DEF h, r
<1>5. ClientsOf(k, owned)
  BY <1>2, <1>4, NoClients
<1>6. Sound(k) /\ AllocatedFrom(r, k, align, size)
  BY <1>3, <1>4
<1>7. PICK c \in Nat : c \notin AllocatedOf(k.chunks) /\ r.ret = k.base + c + 1
  BY <1>3, <1>6 DEF AllocatedFrom
<1>8. k.base \in Nat /\ \A d \in AllocatedOf(k.chunks) : d \in Nat
  BY <1>6, TiledChunk DEF Sound, AllocatedOf
<1>9. ASSUME NEW d \in AllocatedOf(k.chunks) PROVE r.ret # k.base + d + 1
  <2>1. d # c
    BY <1>7
  <2> QED BY <1>7, <1>8, <2>1
<1> QED BY <1>5, <1>9 DEF ClientsOf

LEMMA AllocStep ==
  ASSUME Inv, Inv', NEW align \in Aligns, NEW size \in Requests, NEW new_base \in BASES,
         Alloc(align, size, new_base)
  PROVE  owned' = owned \/ Contract!Alloc(align, size)
<1> DEFINE r == alloc_impl(heap, new_base, align, size)
<1>1. size \in Nat
  BY SizeClassConstants, AllocatorConstants
<1>2. owned' = IF r.ret = NULL THEN owned ELSE Put(owned, r.ret, Layout(align, size))
  BY DEF Alloc
<1>3. r.ret # NULL => r.ret \notin DOMAIN owned
  BY AllocIsNew
<1> HIDE DEF r
<1> SUFFICES ASSUME r.ret # NULL PROVE Contract!Alloc(align, size)
  BY <1>2
<1>4. owned' = [q \in (DOMAIN owned \ {}) \cup {r.ret} |->
                  IF q = r.ret THEN Layout(align, size) ELSE owned[q]]
  BY <1>2 DEF Put
<1>5. r.ret \notin DOMAIN owned \ {}
  BY <1>3
<1>6. Contract!Give(r.ret, align, size, {})
  BY <1>1, <1>4, <1>5, GiveNext
<1>7. r.ret \in Contract!Pointers
  BY <1>6 DEF Contract!Give, Contract!Usable
<1> QED BY <1>6, <1>7 DEF Contract!Alloc

LEMMA ReleaseStep ==
  ASSUME NEW pointer, owned' = Without(owned, pointer)
  PROVE  Contract!Release(pointer)
  BY DEF Contract!Release, Without

LEMMA ShrinkStep ==
  ASSUME NEW pointer \in DOMAIN owned, NEW size \in ShrinkRequests, Inv,
         ShrinkInplace(pointer, size)
  PROVE  owned' = owned \/ Contract!Shrink(pointer, size)
<1>1. owned' = IF size = 0 THEN Without(owned, pointer)
               ELSE IF size < owned[pointer].size THEN [owned EXCEPT ![pointer].size = size]
               ELSE owned
  BY DEF ShrinkInplace
<1>2. size \in Nat
  BY SizeClassConstants, AllocatorConstants
<1>3. owned[pointer].size \in Nat
  BY HoldingOf DEF Holding
<1>4. CASE size = 0
  BY <1>1, <1>4, ReleaseStep DEF Contract!Shrink
<1>5. CASE size # 0 /\ size < owned[pointer].size
  <2>1. size \in 1 .. owned[pointer].size
    BY <1>2, <1>3, <1>5
  <2> QED BY <1>1, <1>5, <2>1 DEF Contract!Shrink
<1>6. CASE size # 0 /\ ~(size < owned[pointer].size)
  BY <1>1, <1>6
<1> QED BY <1>4, <1>5, <1>6

LEMMA GrowStep ==
  ASSUME Inv, Inv', OwnersAreAFunction, NEW pointer \in DOMAIN owned, NEW size \in Requests,
         GrowInplace(pointer, size)
  PROVE  owned' = owned \/ Contract!Grow(pointer, size)
<1> DEFINE h == heap
           chunk == chunk_of(h, pointer)
           r == grow_inplace(h, pointer, size)
           align == owned[pointer].align
<1>1. Holding(h, owned, pointer, chunk)
  BY HoldingOf
<1>2. owned' = IF r.ret = NULL THEN owned ELSE [owned EXCEPT ![pointer].size = r.ret]
  BY DEF GrowInplace
<1>3. size \in Nat
  BY SizeClassConstants, AllocatorConstants
<1>4. chunk = chunk_of(h, pointer) /\ r = grow_inplace(h, pointer, size)
  OBVIOUS
<1> HIDE DEF h, chunk, r
<1>5. Grown(r, h, chunk, size)
  BY <1>1, <1>3, <1>4, GrowOp DEF Holding
<1>6. /\ owned[pointer] \in [align : Nat \ {0}, size : Nat]
      /\ h.chunks[chunk].size = owned[pointer].size + 1
  BY <1>1 DEF Holding
<1>7. CASE r.ret = NULL
  BY <1>2, <1>7
<1>8. CASE r.ret # NULL /\ r.ret = h.chunks[chunk].size - 1
  <2>1. r.ret = owned[pointer].size
    BY <1>6, <1>8
  <2>2. [owned[pointer] EXCEPT !.size = r.ret] = owned[pointer]
    BY <1>6, <2>1
  <2>3. owned' = [owned EXCEPT ![pointer] = owned[pointer]]
    BY <1>2, <1>8, <2>2
  <2> QED BY <2>3 DEF OwnersAreAFunction
<1>9. CASE /\ r.ret # NULL /\ r.ret = size
           /\ h.chunks[chunk].size < size + 1
  <2>1. size >= owned[pointer].size
    BY <1>3, <1>6, <1>9
  <2>2. owned' = [owned EXCEPT ![pointer].size = size]
    BY <1>2, <1>9
  <2>3. [owned[pointer] EXCEPT !.size = size] = Layout(align, size)
    BY <1>6 DEF Layout
  <2>4. owned' = [q \in (DOMAIN owned \ {pointer}) \cup {pointer} |->
                    IF q = pointer THEN Layout(align, size) ELSE owned[q]]
    BY <2>2, <2>3
  <2>5. pointer \notin DOMAIN owned \ {pointer}
    OBVIOUS
  <2> HIDE DEF align
  <2>6. Contract!Give(pointer, align, size, {pointer})
    BY <1>3, <2>4, <2>5, GiveNext
  <2> QED BY <2>1, <2>6 DEF Contract!Grow, align
<1> QED BY <1>5, <1>7, <1>8, <1>9 DEF Grown


\* What realloc may return: the same pointer, nothing, or an allocation made while the
\* old one was held.
LEMMA ReallocReturns ==
  ASSUME NEW h, NEW pointer, NEW align, NEW size
  PROVE  LET r     == realloc(h, pointer, align, size)
             moved == alloc_impl(h, h.base, align, size)
         IN  \/ r.ret = pointer
             \/ r.ret = NULL
             \/ r.ret = moved.ret /\ moved.ret # NULL
  BY DEF realloc, returns

\* The place realloc moves an allocation to is free while the old one is still held.
LEMMA MovedUsable ==
  ASSUME Inv, NEW h, h = heap, NEW pointer \in DOMAIN owned,
         NEW align \in Nat \ {0}, NEW size \in Nat,
         NEW r, r = alloc_impl(h, h.base, align, size), r.ret # NULL
  PROVE  Contract!Usable(r.ret, align, size, {}) /\ r.ret \notin DOMAIN owned
<1>1. Holding(h, owned, pointer, chunk_of(h, pointer)) /\ h.base \in BASES \cup {0}
  BY HoldingOf
<1>2. Sound(h) /\ ClientsOf(h, owned) /\ h.base \in Nat
  BY <1>1 DEF Holding, Sound
<1>3. Consistent(h) /\ ~Uninitialised(h)
  BY <1>2 DEF Consistent, Sound, Uninitialised
<1>4. AllocatedFrom(r, h, align, size)
  BY <1>2, <1>3, AllocImplOp
<1>5. PICK c \in Nat : /\ Placed(r.heap, h, c, size + 1)
                       /\ c \notin AllocatedOf(h.chunks)
                       /\ r.ret = h.base + c + 1
                       /\ r.ret % align = 0
  BY <1>4 DEF AllocatedFrom
<1>6. r.ret \notin DOMAIN owned
  <2>1. \A d \in AllocatedOf(h.chunks) : d \in Nat
    BY <1>2, TiledChunk DEF Sound, AllocatedOf
  <2>2. ASSUME NEW d \in AllocatedOf(h.chunks) PROVE r.ret # h.base + d + 1
    <3>1. d # c
      BY <1>5
    <3>2. \A b, x, y \in Nat : x # y => b + x + 1 # b + y + 1
      OBVIOUS
    <3>3. h.base + c + 1 # h.base + d + 1
      BY <1>2, <2>1, <3>1, <3>2
    <3>4. r.ret = h.base + c + 1
      BY <1>5
    <3> QED BY <3>3, <3>4
  <2> QED BY <1>2, <2>2 DEF ClientsOf
<1> DEFINE o == Put(owned, r.ret, Layout(align, size))
           g == r.heap
<1>7. Handed(o, owned, r.ret, Layout(align, size))
  BY DEF Handed, Put
<1>8. /\ r.ret \in DOMAIN o /\ o[r.ret] = Layout(align, size)
      /\ r.ret \notin DOMAIN owned \ {}
      /\ \A q \in DOMAIN owned \ {} : q \in DOMAIN o /\ o[q] = owned[q]
  BY <1>6 DEF Put
<1>9. Placed(g, h, c, size + 1)
  BY <1>5
<1> HIDE DEF o, g
<1>10. ClientsOf(g, o)
  BY <1>2, <1>5, <1>7, <1>9, ClientsPlaced
<1>11. Consistent(g) /\ g.base \in BASES \cup {0}
  BY <1>1, <1>9 DEF Placed, Consistent
<1>12. Contract!Usable(r.ret, align, size, {})
  BY <1>8, <1>10, <1>11, UsableAfter
<1> QED BY <1>6, <1>12

\* realloc returns its own pointer, or one that no client has.
LEMMA ReallocIsNew ==
  ASSUME Inv, NEW pointer \in DOMAIN owned, NEW align \in Aligns, NEW size \in Requests,
         Realloc(pointer, align, size)
  PROVE  LET r == realloc(heap, pointer, align, size)
         IN  r.ret # NULL /\ r.ret # pointer => r.ret \notin DOMAIN owned
<1> DEFINE h == heap
           r == realloc(h, pointer, align, size)
           moved == alloc_impl(h, h.base, align, size)
<1>1. r.ret = pointer \/ r.ret = NULL \/ (r.ret = moved.ret /\ moved.ret # NULL)
  BY ReallocReturns
<1>2. size \in Nat
  BY SizeClassConstants, AllocatorConstants
<1>3. align \in {1, owned[pointer].align}
  BY DEF Realloc
<1>4. align \in Nat \ {0}
  BY <1>3, HoldingOf DEF Holding
<1>5. h = heap /\ moved = alloc_impl(h, h.base, align, size)
  OBVIOUS
<1> SUFFICES ASSUME r.ret # NULL, r.ret # pointer PROVE r.ret \notin DOMAIN owned
  OBVIOUS
<1> HIDE DEF h, r, moved
<1> QED BY <1>1, <1>2, <1>4, <1>5, MovedUsable

LEMMA ReallocStep ==
  ASSUME Inv, Inv', NEW pointer \in DOMAIN owned, NEW align \in Aligns,
         NEW size \in Requests, Realloc(pointer, align, size)
  PROVE  owned' = owned \/ Contract!Realloc(pointer, align, size)
<1> DEFINE h == heap
           L == Layout(align, size)
           r == realloc(h, pointer, align, size)
           moved == alloc_impl(h, h.base, align, size)
<1>1. owned' = IF r.ret # NULL THEN Put(Without(owned, pointer), r.ret, L)
               ELSE IF size = 0 THEN Without(owned, pointer)
               ELSE owned
  BY DEF Realloc
<1>2. align \in {1, owned[pointer].align}
  BY DEF Realloc
<1>3. size \in Nat
  BY SizeClassConstants, AllocatorConstants
<1>4. align \in Nat \ {0}
  BY <1>2, HoldingOf DEF Holding
<1>5. r.ret = pointer \/ r.ret = NULL \/ (r.ret = moved.ret /\ moved.ret # NULL)
  BY ReallocReturns
<1>6. h = heap /\ moved = alloc_impl(h, h.base, align, size)
  OBVIOUS
<1> HIDE DEF h, r, moved
<1>7. ASSUME r.ret # NULL, r.ret \notin DOMAIN owned \ {pointer}
      PROVE  Contract!Give(r.ret, align, size, {pointer})
  <2>1. owned' = [q \in (DOMAIN owned \ {pointer}) \cup {r.ret} |->
                    IF q = r.ret THEN Layout(align, size) ELSE owned[q]]
    BY <1>1, <1>7 DEF Put, Without
  <2> QED BY <1>3, <1>7, <2>1, GiveNext
<1>8. CASE r.ret = NULL
  BY <1>1, <1>8, ReleaseStep DEF Contract!Realloc
<1>9. CASE r.ret # NULL /\ r.ret = pointer
  <2>1. Contract!Give(pointer, align, size, {pointer})
    BY <1>7, <1>9
  <2> QED BY <2>1 DEF Contract!Realloc
<1>10. CASE r.ret # NULL /\ r.ret = moved.ret
  <2>1. Contract!Usable(r.ret, align, size, {}) /\ r.ret \notin DOMAIN owned
    BY <1>3, <1>4, <1>6, <1>10, MovedUsable
  <2>2. r.ret \notin DOMAIN owned \ {pointer}
    BY <2>1
  <2>3. Contract!Give(r.ret, align, size, {pointer})
    BY <1>7, <1>10, <2>2
  <2>4. r.ret \in Contract!Pointers
    BY <2>1 DEF Contract!Usable
  <2> QED BY <2>1, <2>3, <2>4 DEF Contract!Realloc
<1> QED BY <1>5, <1>8, <1>9, <1>10

LEMMA NextStep ==
  ASSUME Inv, Inv', OwnersAreAFunction, [Next]_vars
  PROVE  [Contract!Next]_owned
<1> SUFFICES ASSUME owned' # owned PROVE Contract!Next
  OBVIOUS
<1>1. ASSUME NEW align \in Aligns, NEW size \in Requests, NEW new_base \in BASES,
             Alloc(align, size, new_base)
      PROVE  Contract!Next
  BY <1>1, AllocStep DEF Contract!Next
<1>2. ASSUME NEW pointer \in DOMAIN owned, FreeCall(pointer)
      PROVE  Contract!Next
  BY <1>2, ReleaseStep DEF FreeCall, Contract!Free, Contract!Next
<1>3. ASSUME NEW pointer \in DOMAIN owned, NEW size \in ShrinkRequests,
             ShrinkInplace(pointer, size)
      PROVE  Contract!Next
  BY <1>3, ShrinkStep DEF Contract!Next
<1>4. ASSUME NEW pointer \in DOMAIN owned, NEW size \in Requests,
             GrowInplace(pointer, size)
      PROVE  Contract!Next
  BY <1>4, GrowStep DEF Contract!Next
<1>5. ASSUME NEW pointer \in DOMAIN owned, NEW align \in Aligns, NEW size \in Requests,
             Realloc(pointer, align, size)
      PROVE  Contract!Next
  BY <1>5, ReallocStep DEF Contract!Next
<1>6. ~ChangeLimit /\ ~UNCHANGED vars
  BY DEF ChangeLimit, vars
<1> QED BY <1>1, <1>2, <1>3, <1>4, <1>5, <1>6 DEF Next

\* The allocator implements its contract, for every arena and every set of requests:
\* each call of alloc_impl, free, shrink_inplace, grow_inplace and realloc is a step of
\* AllocatorContract, and one that fails leaves its client what it had.
THEOREM AllocatorImplementsContract ==
  ASSUME SIZE_MAX \notin ShrinkRequests
  PROVE  Spec => ImplementsContract
<1>1. Init => Contract!Init
  BY DEF Init, Contract!Init, Layout
<1>2. Init => OwnersAreAFunction
  BY DEF Init, OwnersAreAFunction
<1>3. OwnersAreAFunction /\ [Next]_vars => OwnersAreAFunction'
  BY FunctionStep
<1>4. Inv /\ Inv' /\ OwnersAreAFunction /\ [Next]_vars => [Contract!Next]_owned
  BY NextStep
<1>5. Spec => []Inv
  BY InvAlways
<1> QED BY <1>1, <1>2, <1>3, <1>4, <1>5, PTL DEF Spec, ImplementsContract, Contract!Spec

-----------------------------------------------------------------------------
(* What an operation leaves alone.                                         *)

\* g is sound and c is still an allocated chunk of it, as long as it was in h.
StillThere(g, h, c) ==
  Sound(g) /\ c \in AllocatedOf(g.chunks) /\ g.chunks[c].size = h.chunks[c].size

\* An allocated chunk has its bit set.
LEMMA AllocatedIsTrue ==
  ASSUME NEW g, Sound(g), NEW c \in AllocatedOf(g.chunks)
  PROVE  g.chunks[c].allocated = TRUE
<1>1. c \in DOMAIN g.chunks /\ g.chunks[c] \in ChunkHeaders /\ g.chunks[c].allocated
  BY DEF Sound, Tiled, ChunksTyped, AllocatedOf
<1>2. g.chunks[c].allocated \in BOOLEAN
  BY <1>1 DEF ChunkHeaders
<1> QED BY <1>1, <1>2, Zenon

\* alloc_impl leaves every allocated chunk alone.
LEMMA AllocKeeps ==
  ASSUME Inv, NEW align \in Aligns, NEW size \in Requests, NEW new_base \in BASES,
         NEW c \in Allocated
  PROVE  StillThere(alloc_impl(heap, new_base, align, size).heap, heap, c)
<1>1. align \in Nat /\ size \in Nat /\ new_base \in Nat
  BY SizeClassConstants, AllocatorConstants
<1>2. Consistent(heap)
  BY DEF Inv
<1>3. c \in AllocatedOf(heap.chunks)
  BY DEF Allocated, AllocatedOf, heap
<1> DEFINE h == heap
           r == alloc_impl(h, new_base, align, size)
<1> HIDE DEF h
<1>4. Consistent(h) /\ c \in AllocatedOf(h.chunks)
  BY <1>2, <1>3 DEF h
<1>5. ~Uninitialised(h) /\ Sound(h)
  BY <1>4 DEF Uninitialised, AllocatedOf, Consistent
<1>6. r.heap = h \/ AllocatedFrom(r, h, align, size)
  <2>1. PICK k : /\ k = h \/ Uninitialised(h)
                 /\ r.heap = k \/ AllocatedFrom(r, k, align, size)
    BY <1>1, <1>4, AllocImplOp
  <2> QED BY <1>5, <2>1
<1> HIDE DEF r
<1>7. CASE r.heap = h
  BY <1>4, <1>5, <1>7 DEF StillThere, r, h
<1>8. CASE AllocatedFrom(r, h, align, size)
  BY <1>4, <1>5, <1>8 DEF StillThere, AllocatedFrom, Placed, r, h
<1> QED BY <1>6, <1>7, <1>8

\* free leaves every other allocated chunk alone.
LEMMA FreeKeeps ==
  ASSUME Inv, NEW pointer \in DOMAIN owned, NEW c \in Allocated, c # chunk_of(heap, pointer)
  PROVE  StillThere(free(heap, pointer), heap, c)
<1> DEFINE h == heap
           chunk == chunk_of(h, pointer)
<1>1. Holding(h, owned, pointer, chunk)
  BY HoldingOf
<1>2. c \in AllocatedOf(h.chunks) /\ c # chunk
  BY DEF Allocated, AllocatedOf, heap
<1> HIDE DEF h
<1>3. Freed(free(h, pointer), h, chunk)
  BY <1>1, FreeOp DEF Holding
<1> HIDE DEF chunk
<1>4. StillThere(free(h, pointer), h, c)
  BY <1>2, <1>3 DEF StillThere, Freed
<1> QED BY <1>4 DEF h

\* realloc leaves every other allocated chunk alone, whether it moves or not.
LEMMA ReallocKeeps ==
  ASSUME Inv, NEW pointer \in DOMAIN owned, NEW align \in Aligns, NEW size \in Requests,
         align \in {1, owned[pointer].align},
         NEW c \in Allocated, c # chunk_of(heap, pointer)
  PROVE  StillThere(realloc(heap, pointer, align, size).heap, heap, c)
<1> DEFINE h == heap
           chunk == chunk_of(h, pointer)
           current == usable_size_impl(h, pointer)
           grown   == grow_inplace(h, pointer, size)
           moved   == alloc_impl(h, h.base, align, size)
           r == realloc(h, pointer, align, size)
<1>1. Holding(h, owned, pointer, chunk) /\ c \in AllocatedOf(h.chunks) /\ c # chunk
  BY HoldingOf DEF Allocated, AllocatedOf, heap
<1>2. size \in Nat /\ size <= SIZE_MAX /\ SIZE_MAX \in Nat
  BY SizeClassConstants, AllocatorConstants
<1>3. /\ chunk = chunk_of(h, pointer)
      /\ grown = grow_inplace(h, pointer, size)
      /\ moved = alloc_impl(h, h.base, align, size)
      /\ r = IF size = current THEN returns(h, pointer)
             ELSE IF size = 0 THEN returns(free(h, pointer), NULL)
             ELSE IF REALLOC_INPLACE /\ size < current
                    THEN returns(shrink_inplace(h, pointer, size), pointer)
             ELSE IF REALLOC_INPLACE /\ grown.ret # NULL THEN returns(grown.heap, pointer)
             ELSE IF moved.ret = NULL THEN returns(h, NULL)
             ELSE returns(free(moved.heap, pointer), moved.ret)
  BY DEF realloc
<1>4. current = h.chunks[chunk].size - 1
  BY DEF usable_size_impl, HEADER_SIZE
<1>5. \A a, b : returns(a, b).heap = a
  BY DEF returns
<1> HIDE DEF h, chunk, current, grown, moved, r
<1>6. /\ owned[pointer] \in [align : Nat \ {0}, size : Nat]
      /\ h.chunks[chunk].size = owned[pointer].size + 1
      /\ Sound(h) /\ h.base \in Nat /\ chunk \in AllocatedOf(h.chunks)
  BY <1>1 DEF Holding, Sound
<1>7. align \in Nat \ {0} /\ current \in Nat
  BY <1>4, <1>6
<1>8. StillThere(h, h, c)
  BY <1>1, <1>6 DEF StillThere
<1>9. ASSUME Freed(free(h, pointer), h, chunk) PROVE StillThere(free(h, pointer), h, c)
  BY <1>1, <1>9 DEF StillThere, Freed
<1>10. ASSUME NEW g, NEW n, Placed(g, h, chunk, n) PROVE StillThere(g, h, c)
  BY <1>1, <1>10 DEF StillThere, Placed
<1>11. Freed(free(h, pointer), h, chunk)
  BY <1>3, <1>6, FreeOp
<1>12. ASSUME size # 0 /\ size < current
       PROVE  StillThere(shrink_inplace(h, pointer, size), h, c)
  <2>1. h.chunks[chunk].size \in Nat /\ h.chunks[chunk].size <= TOTAL_SPACE
    BY <1>6, TiledChunk, SpaceIsNat DEF Sound, Tiled, ChunksTyped, ChunkHeaders, AllocatedOf
  <2>2. size \in 1 .. SIZE_MAX - 1 /\ ~(size + 1 >= h.chunks[chunk].size)
    BY <1>2, <1>4, <1>12, <2>1, AllocatorConstants, SpaceIsNat
  <2> QED BY <1>3, <1>6, <1>10, <2>2, ShrinkOp
<1>13. Grown(grown, h, chunk, size)
  BY <1>2, <1>3, <1>6, GrowOp
<1>14. StillThere(grown.heap, h, c)
  BY <1>8, <1>10, <1>13 DEF Grown
<1>15. ASSUME moved.ret # NULL PROVE StillThere(free(moved.heap, pointer), h, c)
  <2>1. Consistent(h) /\ ~Uninitialised(h)
    BY <1>6 DEF Consistent, Sound, Uninitialised
  <2>2. AllocatedFrom(moved, h, align, size)
    BY <1>2, <1>3, <1>6, <1>7, <1>15, <2>1, AllocImplOp
  <2>3. PICK n \in Nat : Placed(moved.heap, h, n, size + 1) /\ n \notin AllocatedOf(h.chunks)
    BY <1>15, <2>2 DEF AllocatedFrom
  <2> DEFINE k == moved.heap
  <2>4. /\ Sound(k) /\ k.base = h.base /\ chunk \in AllocatedOf(k.chunks)
        /\ StillThere(k, h, c)
    BY <1>1, <1>6, <2>3 DEF Placed, StillThere
  <2> HIDE DEF k
  <2>5. chunk_of(k, pointer) = chunk
    BY <1>3, <2>4 DEF chunk_of
  <2>6. Freed(free(k, pointer), k, chunk)
    BY <2>4, <2>5, FreeOp
  <2>7. StillThere(free(k, pointer), h, c)
    BY <1>1, <2>4, <2>6 DEF StillThere, Freed
  <2> QED BY <2>7 DEF k
<1>16. StillThere(r.heap, h, c)
  <2>1. CASE size = current
    BY <1>3, <1>5, <1>8, <2>1
  <2>2. CASE size # current /\ size = 0
    BY <1>3, <1>5, <1>9, <1>11, <2>2
  <2>3. CASE size # current /\ size # 0 /\ REALLOC_INPLACE /\ size < current
    BY <1>3, <1>5, <1>12, <2>3
  <2>4. CASE /\ size # current /\ size # 0 /\ ~(REALLOC_INPLACE /\ size < current)
             /\ REALLOC_INPLACE /\ grown.ret # NULL
    BY <1>3, <1>5, <1>14, <2>4
  <2>5. CASE /\ size # current /\ size # 0 /\ ~(REALLOC_INPLACE /\ size < current)
             /\ ~(REALLOC_INPLACE /\ grown.ret # NULL)
    BY <1>3, <1>5, <1>8, <1>15, <2>5
  <2> QED BY <2>1, <2>2, <2>3, <2>4, <2>5
<1> QED BY <1>16 DEF r, h

=============================================================================
