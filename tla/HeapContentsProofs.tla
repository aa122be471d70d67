------------------------- MODULE HeapContentsProofs -------------------------
(***************************************************************************)
(* What the memory under the allocator holds, for every arena below 4 GiB, *)
(* every set of requests and every number of bins: the allocator writes    *)
(* its headers, the zeros of alloc_zeroed and the copy of realloc where    *)
(* nobody else has anything.                                               *)
(*                                                                         *)
(* The build is the one with realloc_inplace: without it realloc copies    *)
(* too much (run realloc_copies).  What depends on the zeros of fresh      *)
(* memory is claimed for environments that give their memory back when the *)
(* allocator is dropped (run reused_memory shows the others).              *)
(***************************************************************************)
EXTENDS HeapContents, AllocatorProofs

\* Every header of h is in place, and memory h has not committed is untouched.
Intact(mem, h) ==
  /\ DOMAIN mem = Granules
  /\ \A c \in DOMAIN h.chunks : mem[c] = Header
  /\ FRESH_AFTER_DROP => \A g \in Granules : g >= h.space => mem[g] = Zero

\* The client of p, if its memory was fresh, finds in mem what it expects.
Finds(mem, h, o, e, p) ==
  FRESH_AFTER_DROP => load(mem, p - h.base, o[p].size) = e[p]

AllFind(mem, h, o, e) ==
  DOMAIN e = DOMAIN o /\ \A p \in DOMAIN o : Finds(mem, h, o, e, p)

ContentsInv ==
  /\ Inv
  /\ Intact(memory, heap)
  /\ AllFind(memory, heap, owned, expected)

-----------------------------------------------------------------------------
(* Where data lies.                                                        *)

\* The granules of an allocation are committed memory of the arena, and hold no header.
LEMMA DataPlace ==
  ASSUME NEW h, Consistent(h), NEW o, ClientsOf(h, o), NEW p \in DOMAIN o,
         NEW i \in 0 .. o[p].size - 1
  PROVE  /\ p - h.base \in Nat /\ p - h.base + i \in Nat
         /\ p - h.base + i \in Granules
         /\ p - h.base + i < h.space
         /\ p - h.base + i \notin DOMAIN h.chunks
<1> DEFINE c == chunk_of(h, p)
<1>1. /\ Sound(h) /\ c \in AllocatedOf(h.chunks) /\ c \in Nat /\ p = h.base + c + 1
      /\ o[p].size \in Nat /\ h.chunks[c].size = o[p].size + 1
  BY OwnedChunk
<1> HIDE DEF c
<1>2. /\ Tiled(h.chunks) /\ h.base \in Nat /\ c \in DOMAIN h.chunks /\ h.chunks[c].allocated
      /\ h.space \in 0 .. TOTAL_SPACE /\ Committed(h)
  BY <1>1 DEF Sound, AllocatedOf
<1>3. c + h.chunks[c].size <= h.space
  BY <1>2 DEF Committed
<1>4. p - h.base = c + 1
  BY <1>1, <1>2
<1>5. /\ c + 1 + i \in Nat /\ c < c + 1 + i /\ c + 1 + i < c + h.chunks[c].size
  BY <1>1
<1>6. c + 1 + i \notin DOMAIN h.chunks
  <2> SUFFICES ASSUME c + 1 + i \in DOMAIN h.chunks PROVE FALSE
    OBVIOUS
  <2>1. c + h.chunks[c].size <= c + 1 + i
    BY <1>2, <1>5 DEF Tiled, Apart
  <2> QED BY <1>1, <1>5, <2>1
<1>7. c + 1 + i < h.space /\ c + 1 + i \in Granules
  BY <1>1, <1>2, <1>3, <1>5, SpaceIsNat DEF Granules
<1> QED BY <1>1, <1>4, <1>5, <1>6, <1>7

\* No granule belongs to two allocations.
LEMMA DataApart ==
  ASSUME NEW h, Consistent(h), NEW o, ClientsOf(h, o), h.base \in BASES \cup {0},
         NEW p \in DOMAIN o, NEW q \in DOMAIN o, q # p,
         NEW i \in 0 .. o[p].size - 1, NEW j \in 0 .. o[q].size - 1
  PROVE  p - h.base + i # q - h.base + j
<1>1. p + o[p].size <= q \/ q + o[q].size <= p
  BY ClientsApart
<1>2. /\ h.base \in Nat
      /\ p \in Nat /\ o[p].size \in Nat
      /\ q \in Nat /\ o[q].size \in Nat
  <2>1. ASSUME NEW x \in DOMAIN o PROVE h.base \in Nat /\ x \in Nat /\ o[x].size \in Nat
    BY OwnedChunk DEF Sound
  <2> QED BY <2>1
<1> QED BY <1>1, <1>2

\* The headers of an operation are written where they belong: in no allocation that
\* is left when it returns, and in committed memory.
LEMMA HeadersStored ==
  ASSUME NEW h, NEW mem, Intact(mem, h), h.space \in Nat, NEW g, Consistent(g),
         h.space <= g.space, NEW o, ClientsOf(g, o),
         NEW m, m = store_headers(mem, h.chunks, g.chunks)
  PROVE  /\ Intact(m, g)
         /\ \A p \in DOMAIN o : \A i \in 0 .. o[p].size - 1 :
              m[p - g.base + i] = mem[p - g.base + i]
<1>1. /\ DOMAIN m = Granules
      /\ \A x \in Granules :
           m[x] = IF x \in DOMAIN g.chunks
                       /\ ~(x \in DOMAIN h.chunks /\ h.chunks[x] = g.chunks[x])
                    THEN Header ELSE mem[x]
  BY DEF store_headers, Intact
<1>2. g.space \in Nat /\ Committed(g) /\ ChunksTyped(g.chunks)
  <2>1. CASE Sound(g)
    BY <2>1, SpaceIsNat DEF Sound, Tiled
  <2>2. CASE Uninitialised(g)
    BY <2>2 DEF Uninitialised, Committed, ChunksTyped
  <2> QED BY <2>1, <2>2 DEF Consistent
<1>3. ASSUME NEW c \in DOMAIN g.chunks PROVE c \in Granules /\ c < g.space
  <2>1. c \in Offsets /\ g.chunks[c] \in ChunkHeaders
    BY <1>2 DEF ChunksTyped
  <2>2. c + (IF g.chunks[c].allocated THEN g.chunks[c].size ELSE 1) <= g.space
    BY <1>2 DEF Committed, FREE_CHUNK_HEADER_SIZE
  <2> QED BY <1>2, <2>1, <2>2, SpaceIsNat DEF Offsets, Granules, ChunkHeaders
<1>4. \A c \in DOMAIN g.chunks : m[c] = Header
  BY <1>1, <1>3 DEF Intact
<1>5. ASSUME FRESH_AFTER_DROP, NEW x \in Granules, x >= g.space PROVE m[x] = Zero
  <2>1. x \notin DOMAIN g.chunks
    BY <1>2, <1>3, <1>5, SpaceIsNat DEF Granules
  <2>2. x >= h.space
    BY <1>2, <1>5, SpaceIsNat DEF Granules
  <2> QED BY <1>1, <1>5, <2>1, <2>2 DEF Intact
<1>6. ASSUME NEW p \in DOMAIN o, NEW i \in 0 .. o[p].size - 1
      PROVE  m[p - g.base + i] = mem[p - g.base + i]
  <2>1. p - g.base + i \in Granules /\ p - g.base + i \notin DOMAIN g.chunks
    BY DataPlace
  <2> QED BY <1>1, <2>1
<1> QED BY <1>1, <1>4, <1>5, <1>6 DEF Intact

\* m is mem with this data in the allocation of p, and otherwise as mem for every client.
DataIn(m, mem, h, o, p, data) ==
  /\ Intact(m, h)
  /\ \A i \in 0 .. o[p].size - 1 :
       m[p - h.base + i] = IF i \in DOMAIN data THEN data[i] ELSE mem[p - h.base + i]
  /\ \A q \in DOMAIN o : q # p => \A j \in 0 .. o[q].size - 1 :
       m[q - h.base + j] = mem[q - h.base + j]

\* What is stored inside an allocation touches no header and no other allocation.
LEMMA DataStored ==
  ASSUME NEW h, Consistent(h), h.base \in BASES \cup {0}, NEW o, ClientsOf(h, o),
         NEW mem, Intact(mem, h), NEW p \in DOMAIN o,
         NEW data, DOMAIN data \subseteq 0 .. o[p].size - 1,
         NEW m, m = store(mem, p - h.base, data)
  PROVE  DataIn(m, mem, h, o, p, data)
<1> DEFINE f == p - h.base
<1>1. /\ DOMAIN m = Granules
      /\ \A x \in Granules :
           m[x] = IF x - f \in DOMAIN data THEN data[x - f] ELSE mem[x]
  BY DEF store, Intact
<1>2. o[p].size \in Nat /\ f \in Nat /\ Sound(h)
  BY OwnedChunk DEF Sound
<1>3. ASSUME NEW i \in 0 .. o[p].size - 1
      PROVE  /\ f + i \in Granules /\ f + i < h.space /\ f + i \notin DOMAIN h.chunks
             /\ (f + i) - f = i
  BY <1>2, DataPlace
<1> HIDE DEF f
<1>4. ASSUME NEW x \in Granules, x - f \in DOMAIN data
      PROVE  x < h.space /\ x \notin DOMAIN h.chunks
  <2>1. x - f \in 0 .. o[p].size - 1 /\ x = f + (x - f)
    BY <1>2, <1>4, SpaceIsNat DEF Granules
  <2>2. \A i \in 0 .. o[p].size - 1 : f + i < h.space /\ f + i \notin DOMAIN h.chunks
    BY <1>3
  <2> QED BY <2>1, <2>2
<1>5. \A c \in DOMAIN h.chunks : m[c] = Header
  <2>1. \A c \in DOMAIN h.chunks : c \in Granules
    BY <1>2, TiledChunk, SpaceIsNat DEF Sound, Granules
  <2> QED BY <1>1, <1>4, <2>1 DEF Intact
<1>6. FRESH_AFTER_DROP => \A x \in Granules : x >= h.space => m[x] = Zero
  <2>1. h.space \in Nat
    BY <1>2, SpaceIsNat DEF Sound
  <2>2. ASSUME NEW x \in Granules, x >= h.space PROVE x - f \notin DOMAIN data
    BY <1>4, <2>1, <2>2, SpaceIsNat DEF Granules
  <2> QED BY <1>1, <2>2 DEF Intact
<1>7. ASSUME NEW i \in 0 .. o[p].size - 1
      PROVE  m[f + i] = IF i \in DOMAIN data THEN data[i] ELSE mem[f + i]
  BY <1>1, <1>3
<1>8. ASSUME NEW q \in DOMAIN o, q # p, NEW j \in 0 .. o[q].size - 1
      PROVE  m[q - h.base + j] = mem[q - h.base + j]
  <2> DEFINE x == q - h.base + j
  <2>1. x \in Granules
    BY DataPlace
  <2>2. \A i \in 0 .. o[p].size - 1 : x # f + i
    BY <1>8, DataApart DEF f
  <2> HIDE DEF x
  <2>3. x - f \notin DOMAIN data
    <3> SUFFICES ASSUME x - f \in 0 .. o[p].size - 1 PROVE FALSE
      OBVIOUS
    <3>1. x = f + (x - f)
      BY <1>2, <2>1, SpaceIsNat DEF Granules
    <3> QED BY <2>2, <3>1
  <2>4. m[x] = mem[x]
    BY <1>1, <2>1, <2>3
  <2> QED BY <2>4 DEF x
<1> QED BY <1>1, <1>5, <1>6, <1>7, <1>8 DEF DataIn, Intact, f

LEMMA LoadSame ==
  ASSUME NEW mem, NEW m, NEW f, NEW size,
         \A i \in 0 .. size - 1 : m[f + i] = mem[f + i]
  PROVE  load(m, f, size) = load(mem, f, size)
  BY DEF load

-----------------------------------------------------------------------------
(* What clients find after the headers were written, and after one of them *)
(* has filled its allocation.                                              *)

\* As much as is left of what the client of p expects is found in mem.
Keeps(mem, first, size, data) ==
  FRESH_AFTER_DROP => \A i \in DOMAIN data : i < size => mem[first + i] = data[i]

LEMMA AfterHeaders ==
  ASSUME NEW h, Consistent(h), NEW o, ClientsOf(h, o), NEW mem, Intact(mem, h),
         NEW e, AllFind(mem, h, o, e),
         NEW g, Consistent(g), h.space <= g.space, h.base # 0 => g.base = h.base,
         NEW o2, ClientsOf(g, o2), NEW m, m = store_headers(mem, h.chunks, g.chunks)
  PROVE  /\ Intact(m, g)
         /\ \A p \in DOMAIN o \cap DOMAIN o2 :
              /\ FRESH_AFTER_DROP => DOMAIN e[p] = 0 .. o[p].size - 1
              /\ Keeps(m, p - g.base, o2[p].size, e[p])
              /\ o2[p].size = o[p].size => Finds(m, g, o2, e, p)
<1>1. h.space \in Nat
  BY SpaceIsNat DEF Consistent, Sound, Uninitialised
<1>2. /\ Intact(m, g)
      /\ \A p \in DOMAIN o2 : \A i \in 0 .. o2[p].size - 1 :
           m[p - g.base + i] = mem[p - g.base + i]
  BY <1>1, HeadersStored
<1>3. ASSUME FRESH_AFTER_DROP, NEW p \in DOMAIN o \cap DOMAIN o2
      PROVE  /\ DOMAIN e[p] = 0 .. o[p].size - 1
             /\ \A i \in DOMAIN e[p] : i < o2[p].size => m[p - g.base + i] = e[p][i]
             /\ o2[p].size = o[p].size => load(m, p - g.base, o2[p].size) = e[p]
  <2>1. g.base = h.base /\ o[p].size \in Nat
    BY OwnedChunk DEF Sound
  <2>2. o2[p].size \in Nat
    BY OwnedChunk
  <2>3. load(mem, p - h.base, o[p].size) = e[p]
    BY <1>3 DEF AllFind, Finds
  <2>4. /\ DOMAIN e[p] = 0 .. o[p].size - 1
        /\ \A i \in 0 .. o[p].size - 1 : e[p][i] = mem[p - h.base + i]
    BY <2>3 DEF load
  <2>5. ASSUME NEW i \in DOMAIN e[p], i < o2[p].size
        PROVE  m[p - g.base + i] = e[p][i]
    <3>1. i \in 0 .. o2[p].size - 1 /\ i \in 0 .. o[p].size - 1
      BY <2>1, <2>2, <2>4, <2>5
    <3> QED BY <1>2, <2>1, <2>4, <3>1
  <2>6. o2[p].size = o[p].size => load(m, p - g.base, o2[p].size) = e[p]
    <3>1. \A i \in 0 .. o2[p].size - 1 : m[p - g.base + i] = mem[p - g.base + i]
      BY <1>2
    <3>2. load(m, p - g.base, o2[p].size) = load(mem, p - g.base, o2[p].size)
      BY <3>1, LoadSame
    <3> QED BY <2>1, <2>3, <3>2
  <2> QED BY <2>4, <2>5, <2>6
<1> QED BY <1>2, <1>3 DEF Keeps, Finds

LEMMA ContentsPrime ==
  ASSUME Inv', NEW h, h = heap', Intact(memory', h), AllFind(memory', h, owned', expected')
  PROVE  ContentsInv'
  BY DEF ContentsInv

\* The heap and the clients before and after a step.
LEMMA StepHeaps ==
  ASSUME ContentsInv, Inv', Advances
  PROVE  \E h, o, e, mem, g, o2, m :
           /\ h = heap /\ o = owned /\ e = expected /\ mem = memory
           /\ g = heap' /\ o2 = owned' /\ m = written
           /\ Consistent(h) /\ ClientsOf(h, o) /\ Intact(mem, h) /\ AllFind(mem, h, o, e)
           /\ Consistent(g) /\ ClientsOf(g, o2) /\ g.base \in BASES \cup {0}
           /\ h.space <= g.space /\ (h.base # 0 => g.base = h.base)
           /\ m = store_headers(mem, h.chunks, g.chunks)
<1>1. Consistent(heap) /\ ClientsOf(heap, owned)
  BY DEF ContentsInv, Inv
<1>2. Intact(memory, heap) /\ AllFind(memory, heap, owned, expected)
  BY DEF ContentsInv
<1>3. Consistent(heap') /\ ClientsOf(heap', owned') /\ heap'.base \in BASES \cup {0}
  BY DEF Inv, heap
<1>4. heap.space <= heap'.space /\ (heap.base # 0 => heap'.base = heap.base)
  BY DEF Advances, heap
<1>5. written = store_headers(memory, heap.chunks, heap'.chunks)
  BY DEF written, heap
<1> QED BY <1>1, <1>2, <1>3, <1>4, <1>5

\* Intact memory after a step that has written only headers.
LEMMA WrittenHeaders ==
  ASSUME ContentsInv, Inv', Advances
  PROVE  /\ Intact(written, heap')
         /\ \A p \in DOMAIN owned \cap DOMAIN owned' :
              /\ FRESH_AFTER_DROP => DOMAIN expected[p] = 0 .. owned[p].size - 1
              /\ Keeps(written, p - base_address', owned'[p].size, expected[p])
              /\ owned'[p].size = owned[p].size
                   => Finds(written, heap', owned', expected, p)
<1>1. PICK h, o, e, mem, g, o2, m :
        /\ h = heap /\ o = owned /\ e = expected /\ mem = memory
        /\ g = heap' /\ o2 = owned' /\ m = written
        /\ Consistent(h) /\ ClientsOf(h, o) /\ Intact(mem, h) /\ AllFind(mem, h, o, e)
        /\ Consistent(g) /\ ClientsOf(g, o2) /\ g.base \in BASES \cup {0}
        /\ h.space <= g.space /\ (h.base # 0 => g.base = h.base)
        /\ m = store_headers(mem, h.chunks, g.chunks)
  BY StepHeaps
<1>2. /\ Intact(m, g)
      /\ \A p \in DOMAIN o \cap DOMAIN o2 :
           /\ FRESH_AFTER_DROP => DOMAIN e[p] = 0 .. o[p].size - 1
           /\ Keeps(m, p - g.base, o2[p].size, e[p])
           /\ o2[p].size = o[p].size => Finds(m, g, o2, e, p)
  BY <1>1, AfterHeaders
<1>3. g.base = base_address'
  BY <1>1 DEF heap
<1> QED BY <1>1, <1>2, <1>3

\* A step after which the client of p fills what it has not kept.
LEMMA FilledInv ==
  ASSUME Inv', NEW mem, Intact(mem, heap'), NEW p \in DOMAIN owned', NEW size,
         size = owned'[p].size, NEW kept,
         FRESH_AFTER_DROP => /\ DOMAIN kept \subseteq 0 .. size - 1
                             /\ Keeps(mem, p - base_address', size, kept),
         NEW old, DOMAIN owned' = (DOMAIN expected \ {old}) \cup {p},
         \A q \in DOMAIN owned' : q # p => Finds(mem, heap', owned', expected, q),
         KeepAndFill(mem, old, p, kept, size)
  PROVE  ContentsInv'
<1> DEFINE first == p - base_address'
           rest == fill_slice(first, (0 .. size - 1) \ DOMAIN kept)
           e2 == Put(Without(expected, old), p,
                     [i \in 0 .. size - 1 |-> IF i \in DOMAIN kept THEN kept[i] ELSE rest[i]])
<1>1. memory' = store(mem, first, rest) /\ expected' = e2
  BY DEF KeepAndFill
<1>2. Consistent(heap') /\ ClientsOf(heap', owned') /\ heap'.base \in BASES \cup {0}
  BY DEF Inv, heap
<1>3. PICK g, o, e, m : g = heap' /\ o = owned' /\ e = expected /\ m = memory'
  OBVIOUS
<1>4. g.base = base_address' /\ first = p - g.base /\ size = o[p].size /\ p \in DOMAIN o
  BY <1>3 DEF heap
<1>5. DOMAIN rest = (0 .. size - 1) \ DOMAIN kept
  BY DEF fill_slice
<1> HIDE DEF first, rest
<1>6. DataIn(m, mem, g, o, p, rest)
  <2>1. DOMAIN rest \subseteq 0 .. o[p].size - 1
    BY <1>4, <1>5
  <2>2. m = store(mem, p - g.base, rest)
    BY <1>1, <1>3, <1>4
  <2>3. Consistent(g) /\ ClientsOf(g, o) /\ g.base \in BASES \cup {0} /\ Intact(mem, g)
    BY <1>2, <1>3
  <2> QED BY <1>4, <2>1, <2>2, <2>3, DataStored
<1>7. DOMAIN e2 = DOMAIN o
  BY <1>3 DEF Put, Without
<1>8. FRESH_AFTER_DROP => load(m, p - g.base, o[p].size) = e2[p]
  <2> SUFFICES ASSUME FRESH_AFTER_DROP PROVE load(m, p - g.base, o[p].size) = e2[p]
    OBVIOUS
  <2>1. e2[p] = [i \in 0 .. size - 1 |-> IF i \in DOMAIN kept THEN kept[i] ELSE rest[i]]
    BY DEF Put
  <2>2. o[p].size \in Nat
    BY <1>2, <1>3, <1>4, OwnedChunk
  <2>3. ASSUME NEW i \in 0 .. size - 1
        PROVE  m[p - g.base + i] = IF i \in DOMAIN kept THEN kept[i] ELSE rest[i]
    <3>1. i < size
      BY <1>4, <2>2
    <3>2. m[p - g.base + i] = IF i \in DOMAIN rest THEN rest[i] ELSE mem[p - g.base + i]
      BY <1>4, <1>6 DEF DataIn
    <3>3. i \in DOMAIN kept => mem[p - g.base + i] = kept[i]
      BY <1>4, <3>1 DEF Keeps
    <3> QED BY <1>5, <3>2, <3>3
  <2> QED BY <1>4, <2>1, <2>3 DEF load
<1>9. ASSUME NEW q \in DOMAIN o, q # p PROVE Finds(m, g, o, e2, q)
  <2>1. e2[q] = e[q]
    BY <1>3, <1>9 DEF Put, Without
  <2>2. load(m, q - g.base, o[q].size) = load(mem, q - g.base, o[q].size)
    BY <1>6, <1>9 DEF DataIn, load
  <2>3. Finds(mem, g, o, e, q)
    BY <1>3, <1>9
  <2> QED BY <2>1, <2>2, <2>3 DEF Finds
<1>10. Intact(m, g) /\ AllFind(m, g, o, e2)
  BY <1>4, <1>6, <1>7, <1>8, <1>9 DEF DataIn, AllFind, Finds
<1> HIDE DEF e2
<1>11. Intact(memory', g) /\ AllFind(memory', g, owned', expected')
  BY <1>1, <1>3, <1>10
<1> QED BY <1>3, <1>11, ContentsPrime

-----------------------------------------------------------------------------
(* One lemma per action.                                                   *)

\* A step that writes headers only and after which some clients are left as they were.
LEMMA HeadersOnlyInv ==
  ASSUME ContentsInv, Inv', Advances, memory' = written,
         DOMAIN owned' \subseteq DOMAIN owned, DOMAIN expected' = DOMAIN owned',
         \A p \in DOMAIN owned' :
           owned'[p].size = owned[p].size /\ expected'[p] = expected[p]
  PROVE  ContentsInv'
<1>1. /\ Intact(written, heap')
      /\ \A p \in DOMAIN owned' : Finds(written, heap', owned', expected, p)
  BY WrittenHeaders
<1>2. PICK g, m : g = heap' /\ m = memory'
  OBVIOUS
<1>3. \A p \in DOMAIN owned' : Finds(m, g, owned', expected', p)
  BY <1>1, <1>2 DEF Finds
<1>4. AllFind(memory', g, owned', expected')
  BY <1>2, <1>3 DEF AllFind
<1>5. Intact(memory', g)
  BY <1>1, <1>2
<1> QED BY <1>2, <1>4, <1>5, ContentsPrime

LEMMA ExpectedOwners ==
  ASSUME ContentsInv
  PROVE  /\ DOMAIN expected = DOMAIN owned /\ NULL \notin DOMAIN owned
         /\ \A p \in DOMAIN owned : owned[p].size \in Nat
<1>1. DOMAIN expected = DOMAIN owned /\ Inv
  BY DEF ContentsInv, AllFind
<1>2. ASSUME NEW p \in DOMAIN owned PROVE p # NULL /\ owned[p].size \in Nat
  <2>1. Holding(heap, owned, p, chunk_of(heap, p))
    BY <1>1, HoldingOf
  <2>2. PICK h : h = heap
    OBVIOUS
  <2>3. Sound(h) /\ p = h.base + chunk_of(h, p) + 1 /\ chunk_of(h, p) \in Nat
        /\ owned[p].size \in Nat
    BY <2>1, <2>2 DEF Holding
  <2>4. h.base \in Nat
    BY <2>3 DEF Sound
  <2> QED BY <2>3, <2>4 DEF NULL
<1> QED BY <1>1, <1>2

\* An allocation leaves the clients as they are, or adds one.
LEMMA AllocOwners ==
  ASSUME Inv, NEW align \in Aligns, NEW size \in Requests, NEW new_base \in BASES,
         Alloc(align, size, new_base), NEW p \in new_pointers
  PROVE  owned' = Put(owned, p, Layout(align, size))
<1> DEFINE r == alloc_impl(heap, new_base, align, size)
<1>1. owned' = IF r.ret = NULL THEN owned ELSE Put(owned, r.ret, Layout(align, size))
  BY DEF Alloc
<1> HIDE DEF r
<1>2. r.ret # NULL /\ owned' = Put(owned, r.ret, Layout(align, size))
  BY <1>1 DEF new_pointers
<1>3. DOMAIN owned' = DOMAIN owned \cup {r.ret}
  BY <1>2 DEF Put
<1>4. p = r.ret
  BY <1>3 DEF new_pointers
<1> QED BY <1>2, <1>4

\* Without a new pointer an allocation has failed.
LEMMA AllocFailed ==
  ASSUME Inv, NEW align \in Aligns, NEW size \in Requests, NEW new_base \in BASES,
         Alloc(align, size, new_base), new_pointers = {}
  PROVE  owned' = owned
<1> DEFINE r == alloc_impl(heap, new_base, align, size)
<1>1. owned' = IF r.ret = NULL THEN owned ELSE Put(owned, r.ret, Layout(align, size))
  BY DEF Alloc
<1>2. r.ret # NULL => r.ret \notin DOMAIN owned
  BY AllocIsNew
<1> HIDE DEF r
<1>3. r.ret # NULL => r.ret \in new_pointers
  BY <1>1, <1>2 DEF new_pointers, Put
<1> QED BY <1>1, <1>3

\* A client of alloc_zeroed finds zeros: where memory is not cleared none of it was
\* committed before.
LEMMA ZeroedInv ==
  ASSUME ContentsInv, Inv', Advances, NEW size \in Nat, NEW p \in DOMAIN owned',
         owned'[p].size = size, DOMAIN owned' = DOMAIN owned \cup {p},
         Intact(written, heap'),
         \A q \in DOMAIN owned' : q # p => Finds(written, heap', owned', expected, q),
         expected' = Put(expected, p, zeros(size)),
         LET space == IF base_address = 0 THEN FREE_CHUNK_HEADER_SIZE ELSE allocated_space
             first == p - base_address'
         IN  memory' = IF zero_memory(space, first, size)
                         THEN cleared(written, first, size) ELSE written
  PROVE  ContentsInv'
<1> DEFINE space == IF base_address = 0 THEN FREE_CHUNK_HEADER_SIZE ELSE allocated_space
           first == p - base_address'
<1>0. memory' = IF zero_memory(space, first, size)
                  THEN cleared(written, first, size) ELSE written
  OBVIOUS
<1>1. PICK h, o, e, mem, g, o2, m :
        /\ h = heap /\ o = owned /\ e = expected /\ mem = memory
        /\ g = heap' /\ o2 = owned' /\ m = written
        /\ Consistent(h) /\ ClientsOf(h, o) /\ Intact(mem, h) /\ AllFind(mem, h, o, e)
        /\ Consistent(g) /\ ClientsOf(g, o2) /\ g.base \in BASES \cup {0}
        /\ h.space <= g.space /\ (h.base # 0 => g.base = h.base)
        /\ m = store_headers(mem, h.chunks, g.chunks)
  BY StepHeaps
<1>2. g.base = base_address' /\ h.base = base_address /\ h.space = allocated_space
  BY <1>1 DEF heap
<1>3. h.space \in Nat /\ (h.base = 0 => h.space = 0) /\ h.space <= space /\ space \in Nat
  BY <1>1, <1>2, SpaceIsNat
     DEF Consistent, Sound, Uninitialised, FREE_CHUNK_HEADER_SIZE
<1>4. PICK m2, e2 : m2 = memory' /\ e2 = expected'
  OBVIOUS
<1>5. /\ DOMAIN e2 = DOMAIN o2 /\ e2[p] = zeros(size)
      /\ \A q \in DOMAIN o2 : q # p => e2[q] = e[q]
  BY <1>1, <1>4, ExpectedOwners DEF Put
<1>6. first = p - g.base /\ p \in DOMAIN o2 /\ o2[p].size = size
  BY <1>1, <1>2
<1> HIDE DEF space, first
<1>7. CASE zero_memory(space, first, size)
  <2>1. m2 = store(m, p - g.base, zeros(size))
    BY <1>0, <1>1, <1>4, <1>6, <1>7 DEF cleared
  <2>2. DOMAIN zeros(size) = 0 .. o2[p].size - 1
    BY <1>6 DEF zeros
  <2>3. DataIn(m2, m, g, o2, p, zeros(size))
    BY <1>1, <1>6, <2>1, <2>2, DataStored
  <2>4. \A i \in 0 .. size - 1 : m2[p - g.base + i] = zeros(size)[i]
    BY <1>6, <2>2, <2>3 DEF DataIn
  <2>5. load(m2, p - g.base, o2[p].size) = zeros(size)
    BY <1>6, <2>4 DEF load, zeros
  <2>6. ASSUME NEW q \in DOMAIN o2, q # p PROVE Finds(m2, g, o2, e2, q)
    <3>1. load(m2, q - g.base, o2[q].size) = load(m, q - g.base, o2[q].size)
      BY <2>3, <2>6 DEF DataIn, load
    <3>2. Finds(m, g, o2, e, q)
      BY <1>1, <2>6
    <3> QED BY <1>5, <2>6, <3>1, <3>2 DEF Finds
  <2>7. Intact(m2, g) /\ AllFind(m2, g, o2, e2)
    BY <1>5, <2>3, <2>5, <2>6 DEF DataIn, AllFind, Finds
  <2> QED BY <1>1, <1>4, <2>7, ContentsPrime
<1>8. CASE ~zero_memory(space, first, size)
  <2>1. m2 = m /\ ~(space > first)
    BY <1>0, <1>1, <1>4, <1>8 DEF zero_memory
  <2>2. \A x \in DOMAIN o2 : \A i \in 0 .. o2[x].size - 1 :
          m[x - g.base + i] = mem[x - g.base + i]
    BY <1>1, <1>3, HeadersStored
  <2>3. ASSUME FRESH_AFTER_DROP, NEW i \in 0 .. size - 1 PROVE m[p - g.base + i] = Zero
    <3>1. p - g.base \in Nat /\ p - g.base + i \in Granules
      BY <1>1, <1>6, DataPlace
    <3>2. p - g.base + i >= h.space
      BY <1>3, <1>6, <2>1, <3>1
    <3>3. mem[p - g.base + i] = Zero
      BY <1>1, <2>3, <3>1, <3>2 DEF Intact
    <3> QED BY <1>6, <2>2, <3>3
  <2>4. FRESH_AFTER_DROP => load(m, p - g.base, o2[p].size) = zeros(size)
    BY <1>6, <2>3 DEF load, zeros
  <2>5. ASSUME NEW q \in DOMAIN o2, q # p PROVE Finds(m, g, o2, e2, q)
    <3>1. Finds(m, g, o2, e, q)
      BY <1>1, <2>5
    <3> QED BY <1>5, <2>5, <3>1 DEF Finds
  <2>6. Intact(m, g) /\ AllFind(m, g, o2, e2)
    BY <1>1, <1>5, <2>4, <2>5 DEF AllFind, Finds
  <2> QED BY <1>1, <1>4, <2>1, <2>6, ContentsPrime
<1> QED BY <1>7, <1>8

LEMMA AllocContentsInv ==
  ASSUME ContentsInv, NEW align \in Aligns, NEW size \in Requests, NEW new_base \in BASES,
         NEW is_calloc \in BOOLEAN, AllocContents(align, size, new_base, is_calloc)
  PROVE  ContentsInv'
<1>1. Alloc(align, size, new_base) /\ Inv
  BY DEF AllocContents, ContentsInv
<1>2. Inv' /\ Advances
  BY <1>1, AllocInv
<1>3. /\ DOMAIN expected = DOMAIN owned /\ NULL \notin DOMAIN owned
      /\ size \in Nat
  BY ExpectedOwners, SizeClassConstants, AllocatorConstants
<1>4. CASE new_pointers = {} /\ memory' = written /\ expected' = expected
  <2>1. owned' = owned
    BY <1>1, <1>4, AllocFailed
  <2> QED BY <1>2, <1>3, <1>4, <2>1, HeadersOnlyInv
<1>5. ASSUME NEW p \in new_pointers
      PROVE  /\ p \in DOMAIN owned' /\ owned'[p].size = size
             /\ DOMAIN owned' = DOMAIN owned \cup {p}
             /\ Intact(written, heap')
             /\ \A q \in DOMAIN owned' : q # p => Finds(written, heap', owned', expected, q)
  <2>1. owned' = Put(owned, p, Layout(align, size))
    BY <1>1, AllocOwners
  <2>2. /\ p \in DOMAIN owned' /\ owned'[p].size = size
        /\ DOMAIN owned' = DOMAIN owned \cup {p}
        /\ \A q \in DOMAIN owned' : q # p => q \in DOMAIN owned /\ owned'[q] = owned[q]
    BY <2>1 DEF Put, Layout
  <2> QED BY <1>2, <2>2, WrittenHeaders
<1>6. ASSUME NEW p \in new_pointers, KeepAndFill(written, NULL, p, zeros(0), size)
      PROVE  ContentsInv'
  <2>1. DOMAIN zeros(0) = {}
    BY DEF zeros
  <2>2. DOMAIN zeros(0) \subseteq 0 .. size - 1 /\ Keeps(written, p - base_address', size, zeros(0))
    BY <2>1 DEF Keeps
  <2>3. DOMAIN owned' = (DOMAIN expected \ {NULL}) \cup {p}
    BY <1>3, <1>5
  <2> QED BY <1>2, <1>5, <1>6, <2>2, <2>3, FilledInv
<1>7. ASSUME NEW p \in new_pointers, expected' = Put(expected, p, zeros(size)),
             LET space == IF base_address = 0 THEN FREE_CHUNK_HEADER_SIZE ELSE allocated_space
                 first == p - base_address'
             IN  memory' = IF zero_memory(space, first, size)
                             THEN cleared(written, first, size) ELSE written
      PROVE  ContentsInv'
  BY <1>2, <1>3, <1>5, <1>7, ZeroedInv
<1> QED BY <1>1, <1>4, <1>6, <1>7 DEF AllocContents

LEMMA FillInv ==
  ASSUME ContentsInv, NEW pointer \in DOMAIN owned, Fill(pointer)
  PROVE  ContentsInv'
<1>1. /\ UNCHANGED vars /\ KeepAndFill(memory, pointer, pointer, zeros(0), owned[pointer].size)
  BY DEF Fill
<1>2. heap' = heap /\ owned' = owned /\ base_address' = base_address /\ limit' = limit
  BY <1>1 DEF vars, heap
<1>3. Inv'
  BY <1>2 DEF ContentsInv, Inv
<1>4. /\ Intact(memory, heap') /\ DOMAIN expected = DOMAIN owned'
      /\ \A q \in DOMAIN owned' : Finds(memory, heap', owned', expected, q)
  BY <1>2 DEF ContentsInv, AllFind
<1>5. DOMAIN zeros(0) = {}
  BY DEF zeros
<1>6. /\ DOMAIN zeros(0) \subseteq 0 .. owned[pointer].size - 1
      /\ Keeps(memory, pointer - base_address', owned[pointer].size, zeros(0))
  BY <1>5 DEF Keeps
<1>7. DOMAIN owned' = (DOMAIN expected \ {pointer}) \cup {pointer}
  BY <1>2, <1>4
<1>8. pointer \in DOMAIN owned' /\ owned[pointer].size = owned'[pointer].size
  BY <1>2
<1> QED BY <1>1, <1>3, <1>4, <1>6, <1>7, <1>8, FilledInv

LEMMA FreeContentsInv ==
  ASSUME ContentsInv, NEW pointer \in DOMAIN owned, FreeContents(pointer)
  PROVE  ContentsInv'
<1>1. /\ FreeCall(pointer) /\ memory' = written /\ expected' = Without(expected, pointer)
      /\ Inv
  BY DEF FreeContents, ContentsInv
<1>2. Inv' /\ Advances
  BY <1>1, FreeInv
<1>3. owned' = Without(owned, pointer) /\ DOMAIN expected = DOMAIN owned
  BY <1>1, ExpectedOwners DEF FreeCall
<1>4. /\ DOMAIN owned' \subseteq DOMAIN owned /\ DOMAIN expected' = DOMAIN owned'
      /\ \A p \in DOMAIN owned' : owned'[p] = owned[p] /\ expected'[p] = expected[p]
  BY <1>1, <1>3 DEF Without
<1> QED BY <1>1, <1>2, <1>4, HeadersOnlyInv

\* A shortened allocation holds the beginning of what it held.
LEMMA Truncated ==
  ASSUME NEW s \in Nat, NEW n \in Nat, NEW e, DOMAIN e = 0 .. s - 1,
         NEW k, k = IF n < s THEN n ELSE s, NEW m, NEW f,
         \A i \in DOMAIN e : i < k => m[f + i] = e[i]
  PROVE  load(m, f, k) = truncate(e, n)
<1>1. DOMAIN e \cap 0 .. n - 1 = 0 .. k - 1
  OBVIOUS
<1>2. \A i \in 0 .. k - 1 : i \in DOMAIN e /\ i < k
  OBVIOUS
<1> QED BY <1>1, <1>2 DEF load, truncate

LEMMA ShrinkContentsInv ==
  ASSUME ContentsInv, NEW pointer \in DOMAIN owned, NEW size \in ShrinkRequests,
         size # SIZE_MAX, ShrinkContents(pointer, size)
  PROVE  ContentsInv'
<1>1. /\ ShrinkInplace(pointer, size) /\ memory' = written /\ Inv
      /\ expected' = IF size = 0 THEN Without(expected, pointer)
                     ELSE [expected EXCEPT ![pointer] = truncate(@, size)]
  BY DEF ShrinkContents, ContentsInv
<1>2. Inv' /\ Advances
  BY <1>1, ShrinkInv
<1>3. /\ DOMAIN expected = DOMAIN owned /\ owned[pointer].size \in Nat /\ size \in Nat
  BY ExpectedOwners, SizeClassConstants, AllocatorConstants
<1>4. owned' = IF size = 0 THEN Without(owned, pointer)
               ELSE IF size < owned[pointer].size THEN [owned EXCEPT ![pointer].size = size]
               ELSE owned
  BY <1>1 DEF ShrinkInplace
<1>5. CASE size = 0
  <2>1. /\ DOMAIN owned' \subseteq DOMAIN owned /\ DOMAIN expected' = DOMAIN owned'
        /\ \A p \in DOMAIN owned' : owned'[p] = owned[p] /\ expected'[p] = expected[p]
    BY <1>1, <1>3, <1>4, <1>5 DEF Without
  <2> QED BY <1>1, <1>2, <2>1, HeadersOnlyInv
<1>6. CASE size # 0
  <2>1. /\ DOMAIN owned' = DOMAIN owned /\ DOMAIN expected' = DOMAIN owned
        /\ expected'[pointer] = truncate(expected[pointer], size)
        /\ \A p \in DOMAIN owned : p # pointer => /\ owned'[p] = owned[p]
                                                  /\ expected'[p] = expected[p]
    BY <1>1, <1>3, <1>4, <1>6
  <2>2. owned[pointer] \in [align : Nat \ {0}, size : Nat]
    BY <1>1, HoldingOf DEF Holding
  <2>3. owned'[pointer].size = IF size < owned[pointer].size THEN size ELSE owned[pointer].size
    BY <1>4, <1>6, <2>2
  <2>4. PICK g, o2, m, e2 : g = heap' /\ o2 = owned' /\ m = memory' /\ e2 = expected'
    OBVIOUS
  <2>5. g.base = base_address'
    BY <2>4 DEF heap
  <2>6. /\ Intact(m, g)
        /\ \A p \in DOMAIN owned :
             /\ FRESH_AFTER_DROP => DOMAIN expected[p] = 0 .. owned[p].size - 1
             /\ Keeps(m, p - g.base, o2[p].size, expected[p])
             /\ o2[p].size = owned[p].size => Finds(m, g, o2, expected, p)
    BY <1>1, <1>2, <2>1, <2>4, <2>5, WrittenHeaders
  <2>7. Finds(m, g, o2, e2, pointer)
    <3> SUFFICES ASSUME FRESH_AFTER_DROP
                 PROVE  load(m, pointer - g.base, o2[pointer].size) = e2[pointer]
      BY DEF Finds
    <3>1. DOMAIN expected[pointer] = 0 .. owned[pointer].size - 1
      BY <2>6
    <3>2. \A i \in DOMAIN expected[pointer] :
            i < o2[pointer].size => m[pointer - g.base + i] = expected[pointer][i]
      BY <2>6 DEF Keeps
    <3>3. load(m, pointer - g.base, o2[pointer].size) = truncate(expected[pointer], size)
      <4>1. PICK e, k, s, f : /\ e = expected[pointer] /\ k = o2[pointer].size
                              /\ s = owned[pointer].size /\ f = pointer - g.base
        OBVIOUS
      <4>2. s \in Nat /\ DOMAIN e = 0 .. s - 1 /\ k = IF size < s THEN size ELSE s
        BY <1>3, <2>3, <2>4, <3>1, <4>1
      <4>3. \A i \in DOMAIN e : i < k => m[f + i] = e[i]
        BY <3>2, <4>1
      <4>4. load(m, f, k) = truncate(e, size)
        BY <1>3, <4>2, <4>3, Truncated
      <4> QED BY <4>1, <4>4
    <3> QED BY <2>1, <2>4, <3>3
  <2>8. ASSUME NEW p \in DOMAIN owned, p # pointer PROVE Finds(m, g, o2, e2, p)
    <3>1. Finds(m, g, o2, expected, p)
      BY <2>1, <2>4, <2>6, <2>8
    <3> QED BY <2>1, <2>4, <2>8, <3>1 DEF Finds
  <2>9. AllFind(m, g, o2, e2)
    BY <2>1, <2>4, <2>7, <2>8 DEF AllFind
  <2> QED BY <1>2, <2>4, <2>6, <2>9, ContentsPrime
<1> QED BY <1>5, <1>6

\* An allocation that stays where it is keeps the beginning of what it held, and its
\* client fills the rest.
LEMMA StayInv ==
  ASSUME ContentsInv, Inv', Advances, NEW pointer \in DOMAIN owned,
         DOMAIN owned' = DOMAIN owned,
         \A p \in DOMAIN owned : p # pointer => owned'[p] = owned[p],
         NEW kept,
         FRESH_AFTER_DROP =>
           /\ DOMAIN kept = DOMAIN expected[pointer] \cap 0 .. owned'[pointer].size - 1
           /\ \A i \in DOMAIN kept : kept[i] = expected[pointer][i],
         KeepAndFill(written, pointer, pointer, kept, owned'[pointer].size)
  PROVE  ContentsInv'
<1>1. /\ Intact(written, heap')
      /\ Keeps(written, pointer - base_address', owned'[pointer].size, expected[pointer])
      /\ \A q \in DOMAIN owned' : q # pointer => Finds(written, heap', owned', expected, q)
  BY WrittenHeaders
<1>2. DOMAIN owned' = (DOMAIN expected \ {pointer}) \cup {pointer}
  BY ExpectedOwners
<1>3. FRESH_AFTER_DROP =>
        /\ DOMAIN kept \subseteq 0 .. owned'[pointer].size - 1
        /\ Keeps(written, pointer - base_address', owned'[pointer].size, kept)
  BY <1>1 DEF Keeps
<1>4. PICK size : size = owned'[pointer].size
  OBVIOUS
<1> QED BY <1>1, <1>2, <1>3, <1>4, FilledInv

LEMMA GrowContentsInv ==
  ASSUME ContentsInv, NEW pointer \in DOMAIN owned, NEW size \in Requests,
         GrowContents(pointer, size)
  PROVE  ContentsInv'
<1> DEFINE h == heap
           chunk == chunk_of(h, pointer)
           r == grow_inplace(h, pointer, size)
<1>1. /\ GrowInplace(pointer, size) /\ Inv
      /\ KeepAndFill(written, pointer, pointer, expected[pointer], owned'[pointer].size)
  BY DEF GrowContents, ContentsInv
<1>2. Inv' /\ Advances
  BY <1>1, GrowInv
<1>3. Holding(h, owned, pointer, chunk)
  BY <1>1, HoldingOf
<1>4. owned' = IF r.ret = NULL THEN owned ELSE [owned EXCEPT ![pointer].size = r.ret]
  BY <1>1 DEF GrowInplace
<1>5. size \in Nat
  BY SizeClassConstants, AllocatorConstants
<1>6. chunk = chunk_of(h, pointer) /\ r = grow_inplace(h, pointer, size)
  OBVIOUS
<1> HIDE DEF h, chunk, r
<1>7. Grown(r, h, chunk, size)
  BY <1>3, <1>5, <1>6, GrowOp DEF Holding
<1>8. /\ owned[pointer] \in [align : Nat \ {0}, size : Nat]
      /\ h.chunks[chunk].size = owned[pointer].size + 1
  BY <1>3 DEF Holding
<1>9. r.ret = NULL \/ (r.ret \in Nat /\ owned[pointer].size <= r.ret)
  BY <1>5, <1>7, <1>8 DEF Grown
<1>10. /\ DOMAIN owned' = DOMAIN owned
       /\ \A p \in DOMAIN owned : p # pointer => owned'[p] = owned[p]
  BY <1>4
<1>11. owned'[pointer].size \in Nat /\ owned[pointer].size <= owned'[pointer].size
  BY <1>4, <1>8, <1>9
<1>12. FRESH_AFTER_DROP =>
         DOMAIN expected[pointer] = DOMAIN expected[pointer] \cap 0 .. owned'[pointer].size - 1
  <2> SUFFICES ASSUME FRESH_AFTER_DROP
               PROVE  DOMAIN expected[pointer] \subseteq 0 .. owned'[pointer].size - 1
    OBVIOUS
  <2>1. DOMAIN expected[pointer] = 0 .. owned[pointer].size - 1
    BY <1>2, <1>10, WrittenHeaders
  <2> QED BY <1>8, <1>11, <2>1
<1> QED BY <1>1, <1>2, <1>10, <1>12, StayInv

\* Where realloc returns a pointer its client did not have, it has moved a growing
\* allocation.
LEMMA ReallocMoved ==
  ASSUME Inv, REALLOC_INPLACE, NEW pointer \in DOMAIN owned, NEW align \in Aligns,
         NEW size \in Requests, Realloc(pointer, align, size), NEW p \in new_pointers,
         NEW moved, moved = alloc_impl(heap, base_address, align, size)
  PROVE  /\ p = moved.ret /\ moved.ret # NULL
         /\ owned' = Put(Without(owned, pointer), p, Layout(align, size))
         /\ owned[pointer].size < size /\ align \in Nat \ {0} /\ size \in Nat
         /\ heap' = free(moved.heap, pointer)
<1> DEFINE h == heap
           chunk == chunk_of(h, pointer)
           current == usable_size_impl(h, pointer)
           grown   == grow_inplace(h, pointer, size)
           r == realloc(h, pointer, align, size)
           L == Layout(align, size)
<1>1. BecomeHeap(r.heap) /\ align \in {1, owned[pointer].align}
  BY DEF Realloc
<1>2. owned' = IF r.ret # NULL THEN Put(Without(owned, pointer), r.ret, L)
               ELSE IF size = 0 THEN Without(owned, pointer)
               ELSE owned
  BY DEF Realloc
<1>3. Holding(h, owned, pointer, chunk)
  BY HoldingOf
<1>4. size \in Nat
  BY SizeClassConstants, AllocatorConstants
<1>5. h.base = base_address
  BY DEF heap
<1>6. r = IF size = current THEN returns(h, pointer)
          ELSE IF size = 0 THEN returns(free(h, pointer), NULL)
          ELSE IF REALLOC_INPLACE /\ size < current
                 THEN returns(shrink_inplace(h, pointer, size), pointer)
          ELSE IF REALLOC_INPLACE /\ grown.ret # NULL THEN returns(grown.heap, pointer)
          ELSE IF moved.ret = NULL THEN returns(h, NULL)
          ELSE returns(free(moved.heap, pointer), moved.ret)
  BY <1>5 DEF realloc
<1>7. current = h.chunks[chunk].size - 1
  BY DEF usable_size_impl, HEADER_SIZE
<1>8. \A a, b : returns(a, b).heap = a /\ returns(a, b).ret = b
  BY DEF returns
<1> HIDE DEF h, chunk, current, grown, r
<1>9. /\ owned[pointer] \in [align : Nat \ {0}, size : Nat]
      /\ h.chunks[chunk].size = owned[pointer].size + 1
  BY <1>3 DEF Holding
<1>10. current = owned[pointer].size /\ current \in Nat /\ align \in Nat \ {0}
  BY <1>1, <1>7, <1>9
<1>11. r.ret # NULL /\ p = r.ret /\ p # pointer
  BY <1>2 DEF new_pointers, Put, Without
<1>12. r = returns(free(moved.heap, pointer), moved.ret) /\ size # current /\ ~(size < current)
  BY <1>6, <1>8, <1>11
<1>13. r.heap = free(moved.heap, pointer) /\ r.ret = moved.ret
  BY <1>8, <1>12
<1>14. heap' = free(moved.heap, pointer)
  <2>1. Sound(h) /\ ClientsOf(h, owned) /\ h.base \in Nat
    BY <1>3 DEF Holding, Sound
  <2>2. Consistent(h) /\ ~Uninitialised(h)
    BY <2>1 DEF Consistent, Sound, Uninitialised
  <2>3. AllocatedFrom(moved, h, align, size)
    BY <1>4, <1>5, <1>10, <1>11, <1>13, <2>1, <2>2, AllocImplOp DEF h
  <2>4. PICK c \in Nat : Placed(moved.heap, h, c, size + 1)
    BY <1>11, <1>13, <2>3 DEF AllocatedFrom
  <2>5. Sound(moved.heap) /\ chunk \in AllocatedOf(moved.heap.chunks)
        /\ moved.heap.base = h.base
    BY <1>3, <2>4 DEF Placed, Holding
  <2>6. chunk_of(moved.heap, pointer) = chunk
    BY <2>5 DEF chunk_of, chunk
  <2>7. Freed(r.heap, moved.heap, chunk)
    BY <1>13, <2>5, <2>6, FreeOp
  <2>8. IsHeap(r.heap)
    BY <2>7 DEF Freed, Sound
  <2> QED BY <1>1, <1>13, <2>8, HeapPrime
<1>15. owned[pointer].size < size
  BY <1>4, <1>10, <1>12
<1> QED BY <1>2, <1>4, <1>10, <1>11, <1>13, <1>14, <1>15

\* realloc that moves: the headers of alloc_impl, the copy, the headers of free.
LEMMA MovedContentsInv ==
  ASSUME ContentsInv, Inv', Advances, REALLOC_INPLACE, NEW pointer \in DOMAIN owned,
         NEW align \in Aligns, NEW size \in Requests, Realloc(pointer, align, size),
         NEW p \in new_pointers,
         NEW moved, moved = alloc_impl(heap, base_address, align, size),
         NEW in_new,
         in_new = copied(store_headers(memory, chunks, moved.heap.chunks),
                         pointer - base_address, p - base_address,
                         usable_size_impl(heap, pointer)),
         KeepAndFill(store_headers(in_new, moved.heap.chunks, chunks'), pointer, p,
                     truncate(expected[pointer], size), size)
  PROVE  ContentsInv'
<1>1. PICK h, o, e, mem, g, o2, m :
        /\ h = heap /\ o = owned /\ e = expected /\ mem = memory
        /\ g = heap' /\ o2 = owned' /\ m = written
        /\ Consistent(h) /\ ClientsOf(h, o) /\ Intact(mem, h) /\ AllFind(mem, h, o, e)
        /\ Consistent(g) /\ ClientsOf(g, o2) /\ g.base \in BASES \cup {0}
        /\ h.space <= g.space /\ (h.base # 0 => g.base = h.base)
        /\ m = store_headers(mem, h.chunks, g.chunks)
  BY StepHeaps
<1>2. /\ p = moved.ret /\ moved.ret # NULL
      /\ o2 = Put(Without(o, pointer), p, Layout(align, size))
      /\ o[pointer].size < size /\ align \in Nat \ {0} /\ size \in Nat
      /\ g = free(moved.heap, pointer)
  BY <1>1, ReallocMoved DEF ContentsInv
<1>3. PICK k : k = moved.heap
  OBVIOUS
<1>4. /\ h.base = base_address /\ h.chunks = chunks /\ g.chunks = chunks'
      /\ g.base = base_address'
  BY <1>1 DEF heap
<1>5. Holding(h, o, pointer, chunk_of(h, pointer)) /\ h.base \in BASES \cup {0}
  BY <1>1, HoldingOf DEF ContentsInv
<1> DEFINE current == usable_size_impl(h, pointer)
<1>6. /\ Sound(h) /\ h.base \in Nat /\ h.base # 0 /\ o[pointer].size \in Nat
      /\ current = o[pointer].size /\ chunk_of(h, pointer) \in AllocatedOf(h.chunks)
      /\ pointer = h.base + chunk_of(h, pointer) + 1 /\ chunk_of(h, pointer) \in Nat
      /\ pointer \in DOMAIN o
  BY <1>5 DEF Holding, Sound, usable_size_impl, HEADER_SIZE
<1>7. g.base = h.base
  BY <1>1, <1>6
<1> HIDE DEF current
<1>8. PICK c \in Nat : /\ Placed(k, h, c, size + 1) /\ c \notin AllocatedOf(h.chunks)
                       /\ p = h.base + c + 1 /\ p % align = 0
  <2>1. ~Uninitialised(h)
    BY <1>6 DEF Sound, Uninitialised
  <2>2. AllocatedFrom(moved, h, align, size)
    BY <1>1, <1>2, <1>4, <1>6, <2>1, AllocImplOp
  <2> QED BY <1>2, <1>3, <2>2 DEF AllocatedFrom
<1>9. p \notin DOMAIN o
  <2>1. \A d \in AllocatedOf(h.chunks) : d \in Nat
    BY <1>6, TiledChunk DEF Sound, AllocatedOf
  <2>2. ASSUME NEW d \in AllocatedOf(h.chunks) PROVE p # h.base + d + 1
    <3>1. d # c
      BY <1>8
    <3> QED BY <1>6, <1>8, <2>1, <3>1
  <2> QED BY <1>1, <2>2 DEF ClientsOf
<1> DEFINE ok == Put(o, p, Layout(align, size))
<1>10. /\ DOMAIN ok = DOMAIN o \cup {p} /\ ok[p].size = size
       /\ \A q \in DOMAIN o : ok[q] = o[q]
       /\ Handed(ok, o, p, Layout(align, size))
  BY <1>9 DEF Put, Layout, Handed
<1>11. /\ DOMAIN o2 = (DOMAIN o \ {pointer}) \cup {p} /\ o2[p].size = size
       /\ \A q \in DOMAIN o \ {pointer} : o2[q] = o[q]
       /\ p # pointer
  BY <1>2, <1>6, <1>9 DEF Put, Without, Layout
<1> HIDE DEF ok
<1>12. Consistent(k) /\ ClientsOf(k, ok) /\ k.base = h.base /\ k.base \in BASES \cup {0}
       /\ h.space <= k.space
  <2>1. ClientsOf(k, ok)
    BY <1>1, <1>2, <1>6, <1>8, <1>10, ClientsPlaced
  <2> QED BY <1>5, <1>8, <2>1 DEF Placed, Consistent
<1>13. k.space <= g.space
  <2>1. Sound(k) /\ chunk_of(k, pointer) = chunk_of(h, pointer)
        /\ chunk_of(h, pointer) \in AllocatedOf(k.chunks)
    BY <1>6, <1>8, <1>12 DEF Placed, chunk_of
  <2>2. Freed(g, k, chunk_of(h, pointer))
    BY <1>2, <1>3, <2>1, FreeOp
  <2> QED BY <2>2 DEF Freed
<1>14. PICK m1 : m1 = store_headers(mem, h.chunks, k.chunks)
  OBVIOUS
<1>15. /\ Intact(m1, k)
       /\ \A q \in DOMAIN o :
            /\ FRESH_AFTER_DROP => DOMAIN e[q] = 0 .. o[q].size - 1
            /\ Finds(m1, k, ok, e, q)
  <2>1. /\ Intact(m1, k)
        /\ \A q \in DOMAIN o \cap DOMAIN ok :
             /\ FRESH_AFTER_DROP => DOMAIN e[q] = 0 .. o[q].size - 1
             /\ Keeps(m1, q - k.base, ok[q].size, e[q])
             /\ ok[q].size = o[q].size => Finds(m1, k, ok, e, q)
    BY <1>1, <1>12, <1>14, AfterHeaders
  <2> QED BY <1>10, <2>1
<1>16. PICK data : data = load(m1, pointer - k.base, current)
  OBVIOUS
<1>17. /\ DOMAIN data = 0 .. current - 1
       /\ FRESH_AFTER_DROP =>
            \A i \in 0 .. current - 1 : i \in DOMAIN e[pointer] /\ data[i] = e[pointer][i]
  <2>1. FRESH_AFTER_DROP => data = e[pointer] /\ DOMAIN e[pointer] = 0 .. current - 1
    BY <1>6, <1>10, <1>15, <1>16 DEF Finds
  <2>2. DOMAIN data = 0 .. current - 1
    BY <1>16 DEF load
  <2> QED BY <2>1, <2>2
<1>18. in_new = store(m1, p - k.base, data)
  BY <1>1, <1>3, <1>4, <1>12, <1>14, <1>16 DEF copied, current
<1>19. DataIn(in_new, m1, k, ok, p, data)
  <2>1. DOMAIN data \subseteq 0 .. ok[p].size - 1
    BY <1>2, <1>6, <1>10, <1>17
  <2>2. p \in DOMAIN ok
    BY <1>10
  <2> QED BY <1>12, <1>15, <1>18, <2>1, <2>2, DataStored
<1> DEFINE ek == Put(e, p, load(in_new, p - k.base, size))
<1>20. DOMAIN ek = DOMAIN ok /\ ek[p] = load(in_new, p - k.base, size)
       /\ \A q \in DOMAIN o : ek[q] = e[q]
  BY <1>1, <1>9, <1>10 DEF Put, AllFind
<1> HIDE DEF ek
<1>21. AllFind(in_new, k, ok, ek)
  <2>1. Finds(in_new, k, ok, ek, p)
    BY <1>10, <1>20 DEF Finds
  <2>2. ASSUME NEW q \in DOMAIN o PROVE Finds(in_new, k, ok, ek, q)
    <3>1. q # p /\ q \in DOMAIN ok
      BY <1>9, <1>10
    <3>2. load(in_new, q - k.base, ok[q].size) = load(m1, q - k.base, ok[q].size)
      BY <1>19, <3>1 DEF DataIn, load
    <3> QED BY <1>15, <1>20, <3>2 DEF Finds
  <2> QED BY <1>10, <1>20, <2>1, <2>2 DEF AllFind
<1>22. PICK m3 : m3 = store_headers(in_new, k.chunks, g.chunks)
  OBVIOUS
<1>23. /\ Intact(m3, g)
       /\ \A q \in DOMAIN ok \cap DOMAIN o2 :
            /\ Keeps(m3, q - g.base, o2[q].size, ek[q])
            /\ o2[q].size = ok[q].size => Finds(m3, g, o2, ek, q)
  <2>1. Intact(in_new, k)
    BY <1>19 DEF DataIn
  <2>2. k.base # 0 => g.base = k.base
    BY <1>7, <1>12
  <2> QED BY <1>1, <1>12, <1>13, <1>21, <1>22, <2>1, <2>2, AfterHeaders
<1>24. \A q \in DOMAIN o2 : q # p => Finds(m3, g, o2, e, q)
  <2> SUFFICES ASSUME NEW q \in DOMAIN o2, q # p PROVE Finds(m3, g, o2, e, q)
    OBVIOUS
  <2>1. q \in DOMAIN o /\ q \in DOMAIN ok /\ o2[q] = ok[q]
    BY <1>10, <1>11
  <2>2. Finds(m3, g, o2, ek, q)
    BY <1>23, <2>1
  <2> QED BY <1>20, <2>1, <2>2 DEF Finds
<1> DEFINE kept == truncate(e[pointer], size)
<1>25. FRESH_AFTER_DROP => /\ DOMAIN kept \subseteq 0 .. size - 1
                           /\ Keeps(m3, p - g.base, size, kept)
  <2> SUFFICES ASSUME FRESH_AFTER_DROP
               PROVE  /\ DOMAIN kept \subseteq 0 .. size - 1
                      /\ \A i \in DOMAIN kept : m3[p - g.base + i] = kept[i]
    BY DEF Keeps
  <2>1. DOMAIN e[pointer] = 0 .. current - 1
    BY <1>6, <1>15
  <2>2. /\ DOMAIN kept \subseteq 0 .. size - 1 /\ DOMAIN kept \subseteq 0 .. current - 1
        /\ \A i \in DOMAIN kept : kept[i] = e[pointer][i]
    BY <2>1 DEF truncate
  <2> HIDE DEF kept
  <2>3. ASSUME NEW i \in DOMAIN kept PROVE m3[p - g.base + i] = kept[i]
    <3>1. i \in 0 .. size - 1 /\ i \in 0 .. current - 1 /\ i < size
      BY <1>2, <2>2
    <3>2. ek[p][i] = in_new[p - k.base + i] /\ i \in DOMAIN ek[p]
      BY <1>20, <3>1 DEF load
    <3>3. in_new[p - k.base + i] = data[i]
      BY <1>10, <1>17, <1>19, <3>1 DEF DataIn
    <3>4. m3[p - g.base + i] = ek[p][i]
      BY <1>10, <1>11, <1>23, <3>1, <3>2 DEF Keeps
    <3> QED BY <1>17, <2>2, <3>1, <3>2, <3>3, <3>4
  <2> QED BY <2>2, <2>3
<1>26. DOMAIN owned' = (DOMAIN expected \ {pointer}) \cup {p}
  BY <1>1, <1>11 DEF AllFind
<1>27. KeepAndFill(m3, pointer, p, truncate(expected[pointer], size), size)
  BY <1>3, <1>4, <1>22
<1>28. p \in DOMAIN owned' /\ size = owned'[p].size
  BY <1>1, <1>11
<1>29. /\ Intact(m3, heap')
       /\ \A q \in DOMAIN owned' : q # p => Finds(m3, heap', owned', expected, q)
       /\ FRESH_AFTER_DROP =>
            /\ DOMAIN truncate(expected[pointer], size) \subseteq 0 .. size - 1
            /\ Keeps(m3, p - base_address', size, truncate(expected[pointer], size))
  BY <1>1, <1>4, <1>23, <1>24, <1>25
<1> QED BY <1>26, <1>27, <1>28, <1>29, FilledInv

LEMMA ReallocContentsInv ==
  ASSUME ContentsInv, REALLOC_INPLACE, NEW pointer \in DOMAIN owned, NEW align \in Aligns,
         NEW size \in Requests, ReallocContents(pointer, align, size)
  PROVE  ContentsInv'
<1>1. Realloc(pointer, align, size) /\ Inv
  BY DEF ReallocContents, ContentsInv
<1>2. Inv' /\ Advances
  BY <1>1, ReallocInv
<1> DEFINE r == realloc(heap, pointer, align, size)
           L == Layout(align, size)
<1>3. owned' = IF r.ret # NULL THEN Put(Without(owned, pointer), r.ret, L)
               ELSE IF size = 0 THEN Without(owned, pointer)
               ELSE owned
  BY <1>1 DEF Realloc
<1> HIDE DEF r, L
<1>4. CASE /\ pointer \in DOMAIN owned'
           /\ LET new_size == owned'[pointer].size
              IN  KeepAndFill(written, pointer, pointer,
                              truncate(expected[pointer], new_size), new_size)
  <2>1. /\ DOMAIN owned' = DOMAIN owned
        /\ \A p \in DOMAIN owned : p # pointer => owned'[p] = owned[p]
    <3>1. CASE r.ret # NULL
      <4>1. owned' = Put(Without(owned, pointer), r.ret, L)
        BY <1>3, <3>1
      <4>2. r.ret = pointer
        BY <1>4, <4>1 DEF Put, Without
      <4> QED BY <4>1, <4>2 DEF Put, Without
    <3>2. CASE r.ret = NULL
      BY <1>3, <1>4, <3>2 DEF Without
    <3> QED BY <3>1, <3>2
  <2>2. PICK n, e : n = owned'[pointer].size /\ e = expected[pointer]
    OBVIOUS
  <2>3. /\ DOMAIN truncate(e, n) = DOMAIN e \cap 0 .. n - 1
        /\ \A i \in DOMAIN truncate(e, n) : truncate(e, n)[i] = e[i]
    BY DEF truncate
  <2>4. PICK kept : kept = truncate(e, n)
    OBVIOUS
  <2>5. KeepAndFill(written, pointer, pointer, kept, owned'[pointer].size)
    BY <1>4, <2>2, <2>4
  <2>6. /\ DOMAIN kept = DOMAIN expected[pointer] \cap 0 .. owned'[pointer].size - 1
        /\ \A i \in DOMAIN kept : kept[i] = expected[pointer][i]
    BY <2>2, <2>3, <2>4
  <2> QED BY <1>2, <2>1, <2>5, <2>6, StayInv
<1>5. CASE /\ pointer \notin DOMAIN owned' /\ new_pointers = {}
           /\ memory' = written
           /\ expected' = Without(expected, pointer)
  <2>1. /\ DOMAIN owned' = DOMAIN owned \ {pointer}
        /\ \A p \in DOMAIN owned' : owned'[p].size = owned[p].size
    <3>1. CASE r.ret # NULL
      <4>1. owned' = Put(Without(owned, pointer), r.ret, L)
        BY <1>3, <3>1
      <4>2. r.ret \in DOMAIN owned' /\ r.ret # pointer
        BY <1>5, <4>1 DEF Put
      <4>3. r.ret \in DOMAIN owned
        BY <1>5, <4>2 DEF new_pointers
      <4>4. FALSE
        BY <1>1, <3>1, <4>2, <4>3, ReallocIsNew DEF r
      <4> QED BY <4>4
    <3>2. CASE r.ret = NULL
      BY <1>3, <1>5, <3>2 DEF Without
    <3> QED BY <3>1, <3>2
  <2>2. /\ DOMAIN owned' \subseteq DOMAIN owned /\ DOMAIN expected' = DOMAIN owned'
        /\ \A p \in DOMAIN owned' : expected'[p] = expected[p]
    BY <1>5, <2>1, ExpectedOwners DEF Without
  <2> QED BY <1>2, <1>5, <2>1, <2>2, HeadersOnlyInv
<1>6. ASSUME NEW p \in new_pointers,
             LET moved  == alloc_impl(heap, base_address, align, size).heap.chunks
                 in_new == copied(store_headers(memory, chunks, moved), pointer - base_address,
                                  p - base_address, usable_size_impl(heap, pointer))
             IN  KeepAndFill(store_headers(in_new, moved, chunks'), pointer, p,
                             truncate(expected[pointer], size), size)
      PROVE  ContentsInv'
  <2>1. PICK moved : moved = alloc_impl(heap, base_address, align, size)
    OBVIOUS
  <2>2. PICK in_new : in_new = copied(store_headers(memory, chunks, moved.heap.chunks),
                                      pointer - base_address, p - base_address,
                                      usable_size_impl(heap, pointer))
    OBVIOUS
  <2>3. KeepAndFill(store_headers(in_new, moved.heap.chunks, chunks'), pointer, p,
                    truncate(expected[pointer], size), size)
    BY <1>6, <2>1, <2>2
  <2> QED BY <1>1, <1>2, <2>1, <2>2, <2>3, MovedContentsInv
<1> QED BY <1>4, <1>5, <1>6 DEF ReallocContents

\* A new allocator over the same environment starts from nothing.
LEMMA InitInvNext == Init' => Inv'
  BY InitInv, PTL

LEMMA DropInv ==
  ASSUME ContentsInv, DropAndNew
  PROVE  ContentsInv'
<1>1. Init'
  BY DEF DropAndNew, Init, ContentsInv, Inv
<1>2. Inv'
  BY <1>1, InitInvNext
<1>3. /\ memory' = IF FRESH_AFTER_DROP THEN [x \in Granules |-> Zero] ELSE memory
      /\ expected' = [p \in {} |-> zeros(0)] /\ owned' = [p \in {} |-> Layout(1, 0)]
      /\ chunks' = [c \in {} |-> Chunk(0, 0, FALSE)]
  BY DEF DropAndNew
<1>4. PICK g : g = heap'
  OBVIOUS
<1>5. DOMAIN g.chunks = {}
  BY <1>3, <1>4 DEF heap
<1>6. Intact(memory', g)
  BY <1>3, <1>5 DEF Intact, ContentsInv
<1>7. AllFind(memory', g, owned', expected')
  BY <1>3 DEF AllFind
<1> QED BY <1>2, <1>4, <1>6, <1>7, ContentsPrime

LEMMA InitContents == ContentsInit => ContentsInv
<1> SUFFICES ASSUME ContentsInit PROVE ContentsInv
  OBVIOUS
<1>1. /\ memory = [x \in Granules |-> Zero] /\ expected = [p \in {} |-> zeros(0)]
      /\ Init
  BY DEF ContentsInit
<1>2. owned = [p \in {} |-> Layout(1, 0)] /\ chunks = [c \in {} |-> Chunk(0, 0, FALSE)]
  BY <1>1 DEF Init
<1>3. PICK h : h = heap
  OBVIOUS
<1>4. DOMAIN h.chunks = {}
  BY <1>2, <1>3 DEF heap
<1>5. Intact(memory, h) /\ AllFind(memory, h, owned, expected)
  BY <1>1, <1>2, <1>4 DEF Intact, AllFind
<1> QED BY <1>1, <1>3, <1>5, InitInv DEF ContentsInv

LEMMA ContentsNextInv ==
  ASSUME SIZE_MAX \notin ShrinkRequests, REALLOC_INPLACE,
         ContentsInv, [ContentsNext]_all_vars
  PROVE  ContentsInv'
<1>1. ASSUME NEW align \in Aligns, NEW size \in Requests, NEW new_base \in BASES,
             NEW is_calloc \in BOOLEAN, AllocContents(align, size, new_base, is_calloc)
      PROVE  ContentsInv'
  BY <1>1, AllocContentsInv
<1>2. ASSUME NEW pointer \in DOMAIN owned, Fill(pointer) PROVE ContentsInv'
  BY <1>2, FillInv
<1>3. ASSUME NEW pointer \in DOMAIN owned, FreeContents(pointer) PROVE ContentsInv'
  BY <1>3, FreeContentsInv
<1>4. ASSUME NEW pointer \in DOMAIN owned, NEW size \in ShrinkRequests,
             ShrinkContents(pointer, size)
      PROVE  ContentsInv'
  BY <1>4, ShrinkContentsInv
<1>5. ASSUME NEW pointer \in DOMAIN owned, NEW size \in Requests, GrowContents(pointer, size)
      PROVE  ContentsInv'
  BY <1>5, GrowContentsInv
<1>6. ASSUME NEW pointer \in DOMAIN owned, NEW align \in Aligns, NEW size \in Requests,
             ReallocContents(pointer, align, size)
      PROVE  ContentsInv'
  BY <1>6, ReallocContentsInv
<1>7. CASE DropAndNew
  BY <1>7, DropInv
<1>8. ASSUME heap' = heap, owned' = owned, UNCHANGED <<memory, expected>>, Inv'
      PROVE  ContentsInv'
  <2>1. Intact(memory', heap') /\ AllFind(memory', heap', owned', expected')
    BY <1>8 DEF ContentsInv
  <2> QED BY <1>8, <2>1 DEF ContentsInv
<1>9. CASE ChangeLimit /\ UNCHANGED <<memory, expected>>
  <2>1. Inv'
    BY <1>9, NextInv DEF Next, ContentsInv
  <2> QED BY <1>8, <1>9, <2>1 DEF ChangeLimit, arena, heap
<1>10. CASE UNCHANGED all_vars
  <2>1. UNCHANGED vars /\ UNCHANGED <<memory, expected>>
    BY <1>10 DEF all_vars
  <2>2. Inv'
    BY <2>1, NextInv DEF ContentsInv
  <2> QED BY <1>8, <2>1, <2>2 DEF vars, heap
<1> QED BY <1>1, <1>2, <1>3, <1>4, <1>5, <1>6, <1>7, <1>9, <1>10 DEF ContentsNext

LEMMA ContentsInvAlways ==
  ASSUME SIZE_MAX \notin ShrinkRequests, REALLOC_INPLACE
  PROVE  ContentsSpec => []ContentsInv
<1>1. ContentsInit => ContentsInv
  BY InitContents
<1>2. ContentsInv /\ [ContentsNext]_all_vars => ContentsInv'
  BY ContentsNextInv
<1> QED BY <1>1, <1>2, PTL DEF ContentsSpec

-----------------------------------------------------------------------------
(* The theorems, for every size of the arena (the code's 32-bit sizes hold *)
(* one below 4 GiB), base address, number of bins and set of requests.     *)

\* The granules the allocator reads as headers hold headers, whatever the environment
\* does with memory: neither the clearing of alloc_zeroed nor the copy of realloc nor a
\* client that fills what it was given writes over one.
THEOREM HeadersStayIntact ==
  ASSUME SIZE_MAX \notin ShrinkRequests, REALLOC_INPLACE
  PROVE  ContentsSpec => []HeadersIntact
<1>1. ContentsInv => HeadersIntact
  BY DEF ContentsInv, Intact, HeadersIntact, heap
<1> QED BY <1>1, ContentsInvAlways, PTL

\* Memory above allocated_space has never been written, in an environment that gives
\* its memory back: the test by which alloc_zeroed skips the clearing is sound.
THEOREM UncommittedStaysZero ==
  ASSUME SIZE_MAX \notin ShrinkRequests, REALLOC_INPLACE, FRESH_AFTER_DROP
  PROVE  ContentsSpec => []UncommittedIsZero
<1>1. ContentsInv => UncommittedIsZero
  BY DEF ContentsInv, Intact, UncommittedIsZero, heap
<1> QED BY <1>1, ContentsInvAlways, PTL

\* Every client finds what it wrote, or the zeros alloc_zeroed promised, as long as it
\* owns its allocation and wherever realloc has moved it.
THEOREM ContentsAreKept ==
  ASSUME SIZE_MAX \notin ShrinkRequests, REALLOC_INPLACE, FRESH_AFTER_DROP
  PROVE  ContentsSpec => []ContentsKept
<1>1. ContentsInv => ContentsKept
  BY DEF ContentsInv, AllFind, Finds, ContentsKept, heap
<1> QED BY <1>1, ContentsInvAlways, PTL

=============================================================================
