------------------------ MODULE GlobalAllocatorProofs ------------------------
(***************************************************************************)
(* Threads that call the allocator through its lock act on it one after    *)
(* the other, every client has what it asked for in bytes and is told the  *)
(* truth about it: for any number of threads and calls, every arena below  *)
(* 4 GiB and every set of requests.                                        *)
(***************************************************************************)
EXTENDS GlobalAllocator, TLAPS

-----------------------------------------------------------------------------
(* A is the Allocator that GlobalAllocator uses, AP the same Allocator     *)
(* with the facts proved of it.  Their operators are the same, one by one. *)

AP == INSTANCE AllocatorProofs
MP == INSTANCE MutexProofs

\* The size classes and the bit mask.
LEMMA SameBins ==
  /\ A!NULL = AP!NULL
  /\ A!HEADER_SIZE = AP!HEADER_SIZE
  /\ A!FREE_CHUNK_HEADER_SIZE = AP!FREE_CHUNK_HEADER_SIZE
  /\ \A s : A!HighestBit(s) = AP!HighestBit(s)
  /\ \A S : A!Min(S) = AP!Min(S)
  /\ \A S : A!Max(S) = AP!Max(S)
  /\ \A m, r, s : A!to_bin_index_generic(m, r, s) = AP!to_bin_index_generic(m, r, s)
  /\ A!mantissa_candidates = AP!mantissa_candidates
  /\ A!calculate_optimal_bin_config = AP!calculate_optimal_bin_config
  /\ A!BIN_CONFIG = AP!BIN_CONFIG
  /\ A!BIN_COUNT = AP!BIN_COUNT
  /\ A!Bins = AP!Bins
  /\ A!SECONDARY_LENGTH = AP!SECONDARY_LENGTH
  /\ \A s : A!clamped(s) = AP!clamped(s)
  /\ \A s : A!size_to_bin_round_down(s) = AP!size_to_bin_round_down(s)
  /\ \A s : A!size_to_bin_round_up(s) = AP!size_to_bin_round_up(s)
  /\ A!NoBit = AP!NoBit
  /\ A!None = AP!None
  /\ \A v, i : A!lowest_set_bit_after(v, i) = AP!lowest_set_bit_after(v, i)
  /\ \A i : A!bitmask_index(i) = AP!bitmask_index(i)
  /\ \A m, i : A!bitmask_set(m, i) = AP!bitmask_set(m, i)
  /\ \A m, i : A!bitmask_unset(m, i) = AP!bitmask_unset(m, i)
  /\ \A m, i : A!find_first(m, i) = AP!find_first(m, i)
<1>1. A!NULL = AP!NULL
  BY DEF A!NULL, AP!NULL
<1>2. A!HEADER_SIZE = AP!HEADER_SIZE
  BY DEF A!HEADER_SIZE, AP!HEADER_SIZE
<1>3. A!FREE_CHUNK_HEADER_SIZE = AP!FREE_CHUNK_HEADER_SIZE
  BY DEF A!FREE_CHUNK_HEADER_SIZE, AP!FREE_CHUNK_HEADER_SIZE
<1>4. \A s : A!HighestBit(s) = AP!HighestBit(s)
  BY DEF A!HighestBit, AP!HighestBit
<1>5. \A S : A!Min(S) = AP!Min(S)
  BY DEF A!Min, AP!Min
<1>6. \A S : A!Max(S) = AP!Max(S)
  BY DEF A!Max, AP!Max
<1>7. \A m, r, s : A!to_bin_index_generic(m, r, s) = AP!to_bin_index_generic(m, r, s)
  BY <1>4 DEF A!to_bin_index_generic, AP!to_bin_index_generic
<1>8. A!mantissa_candidates = AP!mantissa_candidates
  BY <1>7, <1>5 DEF A!mantissa_candidates, AP!mantissa_candidates
<1>9. A!calculate_optimal_bin_config = AP!calculate_optimal_bin_config
    BY <1>8, <1>6, <1>7 DEF A!calculate_optimal_bin_config,
     AP!calculate_optimal_bin_config
<1>10. A!BIN_CONFIG = AP!BIN_CONFIG
  BY <1>9 DEF A!BIN_CONFIG, AP!BIN_CONFIG
<1>11. A!BIN_COUNT = AP!BIN_COUNT
  BY <1>10 DEF A!BIN_COUNT, AP!BIN_COUNT
<1>12. A!Bins = AP!Bins
  BY <1>11 DEF A!Bins, AP!Bins
<1>13. A!SECONDARY_LENGTH = AP!SECONDARY_LENGTH
  BY <1>11 DEF A!SECONDARY_LENGTH, AP!SECONDARY_LENGTH
<1>14. \A s : A!clamped(s) = AP!clamped(s)
  BY DEF A!clamped, AP!clamped
<1>15. \A s : A!size_to_bin_round_down(s) = AP!size_to_bin_round_down(s)
  BY <1>10, <1>7, <1>14 DEF A!size_to_bin_round_down, AP!size_to_bin_round_down,
    A!MANTISSA_BITS, AP!MANTISSA_BITS
<1>16. \A s : A!size_to_bin_round_up(s) = AP!size_to_bin_round_up(s)
  BY <1>10, <1>7, <1>14 DEF A!size_to_bin_round_up, AP!size_to_bin_round_up,
    A!MANTISSA_BITS, AP!MANTISSA_BITS
<1>17. A!NoBit = AP!NoBit
  BY DEF A!NoBit, AP!NoBit
<1>18. A!None = AP!None
  BY <1>17 DEF A!None, AP!None
<1>19. \A v, i : A!lowest_set_bit_after(v, i) = AP!lowest_set_bit_after(v, i)
  BY <1>5, <1>17 DEF A!lowest_set_bit_after, AP!lowest_set_bit_after
<1>20. \A i : A!bitmask_index(i) = AP!bitmask_index(i)
  BY DEF A!bitmask_index, AP!bitmask_index
<1>21. \A m, i : A!bitmask_set(m, i) = AP!bitmask_set(m, i)
  BY DEF A!bitmask_set, AP!bitmask_set
<1>22. \A m, i : A!bitmask_unset(m, i) = AP!bitmask_unset(m, i)
  BY DEF A!bitmask_unset, AP!bitmask_unset
<1>23. \A m, i : A!find_first(m, i) = AP!find_first(m, i)
  BY <1>19, <1>17, <1>18, <1>5 DEF A!find_first, AP!find_first
<1> QED BY <1>1, <1>2, <1>3, <1>4, <1>5, <1>6, <1>7, <1>8, <1>9, <1>10, <1>11, <1>12,
          <1>13, <1>14, <1>15, <1>16, <1>17, <1>18, <1>19, <1>20, <1>21, <1>22, <1>23

\* The free lists.
LEMMA SameLists ==
  /\ \A f, k, v : A!Put(f, k, v) = AP!Put(f, k, v)
  /\ \A f, k : A!Without(f, k) = AP!Without(f, k)
  /\ \A p, s, a : A!Chunk(p, s, a) = AP!Chunk(p, s, a)
  /\ \A n, p : A!Link(n, p) = AP!Link(n, p)
  /\ \A n : A!is_power_of_two(n) = AP!is_power_of_two(n)
  /\ \A x, a, b : A!align_offset(x, a, b) = AP!align_offset(x, a, b)
  /\ \A h, c, b : A!unregister_free_space_first_chunk(h, c, b) = AP!unregister_free_space_first_chunk(h, c, b)
  /\ \A h, c, b : A!unregister_free_space(h, c, b) = AP!unregister_free_space(h, c, b)
  /\ \A h, c, p, s : A!register_free_space(h, c, p, s) = AP!register_free_space(h, c, p, s)
  /\ \A h, c, p, s : A!register_allocation(h, c, p, s) = AP!register_allocation(h, c, p, s)
  /\ \A h, c, p : A!set_prev_chunk_size(h, c, p) = AP!set_prev_chunk_size(h, c, p)
<1>1. \A f, k, v : A!Put(f, k, v) = AP!Put(f, k, v)
  BY DEF A!Put, AP!Put
<1>2. \A f, k : A!Without(f, k) = AP!Without(f, k)
  BY DEF A!Without, AP!Without
<1>3. \A p, s, a : A!Chunk(p, s, a) = AP!Chunk(p, s, a)
  BY DEF A!Chunk, AP!Chunk
<1>4. \A n, p : A!Link(n, p) = AP!Link(n, p)
  BY DEF A!Link, AP!Link
<1>5. \A n : A!is_power_of_two(n) = AP!is_power_of_two(n)
  BY SameBins DEF A!is_power_of_two, AP!is_power_of_two
<1>6. \A x, a, b : A!align_offset(x, a, b) = AP!align_offset(x, a, b)
  BY DEF A!align_offset, AP!align_offset
<1>7. \A h, c, b : A!unregister_free_space_first_chunk(h, c, b) = AP!unregister_free_space_first_chunk(h, c, b)
  <2> SUFFICES ASSUME NEW h, NEW c, NEW b
               PROVE  A!unregister_free_space_first_chunk(h, c, b)
                        = AP!unregister_free_space_first_chunk(h, c, b)
    OBVIOUS
  <2>1. A!NULL = AP!NULL /\ A!bitmask_index(b) = AP!bitmask_index(b)
    BY SameBins
  <2>2. \A m, i : A!bitmask_unset(m, i) = AP!bitmask_unset(m, i)
    BY SameBins
  <2>3. A!Without(h.links, c) = AP!Without(h.links, c)
    BY <1>2
  <2> QED BY <2>1, <2>2, <2>3
          DEF A!unregister_free_space_first_chunk, AP!unregister_free_space_first_chunk
<1>8. \A h, c, b : A!unregister_free_space(h, c, b) = AP!unregister_free_space(h, c, b)
  <2> SUFFICES ASSUME NEW h, NEW c, NEW b
               PROVE  A!unregister_free_space(h, c, b) = AP!unregister_free_space(h, c, b)
    OBVIOUS
  <2>1. A!NULL = AP!NULL
    BY SameBins
  <2>2. A!Without(h.links, c) = AP!Without(h.links, c)
    BY <1>2
  <2>3. A!unregister_free_space_first_chunk(h, c, b) = AP!unregister_free_space_first_chunk(h, c, b)
    BY <1>7
  <2> QED BY <2>1, <2>2, <2>3 DEF A!unregister_free_space, AP!unregister_free_space
<1>9. \A h, c, p, s : A!register_free_space(h, c, p, s) = AP!register_free_space(h, c, p, s)
  <2> SUFFICES ASSUME NEW h, NEW c, NEW p, NEW s
               PROVE  A!register_free_space(h, c, p, s) = AP!register_free_space(h, c, p, s)
    OBVIOUS
  <2>1. A!size_to_bin_round_down(s) = AP!size_to_bin_round_down(s)
    BY SameBins
  <2>2. [h.first EXCEPT ![A!size_to_bin_round_down(s)] = c]
          = [h.first EXCEPT ![AP!size_to_bin_round_down(s)] = c]
    BY <2>1
  <2> QED BY <2>1, <2>2, SameBins, <1>1, <1>3, <1>4 DEF A!register_free_space, AP!register_free_space
<1>10. \A h, c, p, s : A!register_allocation(h, c, p, s) = AP!register_allocation(h, c, p, s)
  BY <1>1, <1>3 DEF A!register_allocation, AP!register_allocation
<1>11. \A h, c, p : A!set_prev_chunk_size(h, c, p) = AP!set_prev_chunk_size(h, c, p)
  BY DEF A!set_prev_chunk_size, AP!set_prev_chunk_size
<1> QED BY <1>1, <1>2, <1>3, <1>4, <1>5, <1>6, <1>7, <1>8, <1>9, <1>10, <1>11

\* alloc_impl.
LEMMA SameAlloc ==
  /\ \A h, v : A!returns(h, v) = AP!returns(h, v)
  /\ \A s : A!expand_memory_until(s) = AP!expand_memory_until(s)
  /\ \A h, e : A!committed(h, e) = AP!committed(h, e)
  /\ \A h, b : A!can_initialize(h, b) = AP!can_initialize(h, b)
  /\ \A h, b : A!initialize(h, b) = AP!initialize(h, b)
  /\ \A h, m : A!find_bin(h, m) = AP!find_bin(h, m)
  /\ \A a, r : A!min_size_for(a, r) = AP!min_size_for(a, r)
  /\ \A h, a, r : A!has_chunk_for(h, a, r) = AP!has_chunk_for(h, a, r)
  /\ \A e, r : A!end_offset_for(e, r) = AP!end_offset_for(e, r)
  /\ \A c, r, l : A!free_space_after(c, r, l) = AP!free_space_after(c, r, l)
  /\ \A h, c, a, r : A!placement(h, c, a, r) = AP!placement(h, c, a, r)
  /\ \A h, b, a, r : A!carve(h, b, a, r) = AP!carve(h, b, a, r)
  /\ \A h, a, r : A!alloc_initialized(h, a, r) = AP!alloc_initialized(h, a, r)
  /\ \A h, b, a, r : A!alloc_impl(h, b, a, r) = AP!alloc_impl(h, b, a, r)
<1>1. \A h, v : A!returns(h, v) = AP!returns(h, v)
  BY DEF A!returns, AP!returns
<1>2. \A s : A!expand_memory_until(s) = AP!expand_memory_until(s)
  BY DEF A!expand_memory_until, AP!expand_memory_until
<1>3. \A h, e : A!committed(h, e) = AP!committed(h, e)
  BY DEF A!committed, AP!committed
<1>4. \A h, b : A!can_initialize(h, b) = AP!can_initialize(h, b)
  BY <1>2, SameBins DEF A!can_initialize, AP!can_initialize
<1>5. \A h, b : A!initialize(h, b) = AP!initialize(h, b)
  <2> DEFINE b1 == A!size_to_bin_round_down(TOTAL_SPACE)
             b2 == AP!size_to_bin_round_down(TOTAL_SPACE)
  <2> SUFFICES ASSUME NEW h, NEW b PROVE A!initialize(h, b) = AP!initialize(h, b)
    OBVIOUS
  <2>1. b1 = b2
    BY SameBins
  <2>2. [h.first EXCEPT ![b1] = 0] = [h.first EXCEPT ![b2] = 0]
    BY <2>1
  <2> QED BY <2>1, <2>2, SameBins, SameLists DEF A!initialize, AP!initialize
<1>6. \A h, m : A!find_bin(h, m) = AP!find_bin(h, m)
  BY SameBins DEF A!find_bin, AP!find_bin
<1>7. \A a, r : A!min_size_for(a, r) = AP!min_size_for(a, r)
  BY SameBins DEF A!min_size_for, AP!min_size_for
<1>8. \A h, a, r : A!has_chunk_for(h, a, r) = AP!has_chunk_for(h, a, r)
  BY <1>7, <1>6, SameBins DEF A!has_chunk_for, AP!has_chunk_for
<1>9. \A e, r : A!end_offset_for(e, r) = AP!end_offset_for(e, r)
  BY SameBins DEF A!end_offset_for, AP!end_offset_for
<1>10. \A c, r, l : A!free_space_after(c, r, l) = AP!free_space_after(c, r, l)
  BY SameBins DEF A!free_space_after, AP!free_space_after
<1>11. \A h, c, a, r : A!placement(h, c, a, r) = AP!placement(h, c, a, r)
  BY SameLists, SameBins, <1>10, <1>9 DEF A!placement, AP!placement
<1>12. \A h, b, a, r : A!carve(h, b, a, r) = AP!carve(h, b, a, r)
  BY SameBins, SameLists, <1>3 DEF A!carve, AP!carve
<1>13. \A h, a, r : A!alloc_initialized(h, a, r) = AP!alloc_initialized(h, a, r)
    BY <1>6, <1>7, <1>11, <1>8, <1>2, <1>1, <1>12, SameBins DEF A!alloc_initialized,
     AP!alloc_initialized
<1>14. \A h, b, a, r : A!alloc_impl(h, b, a, r) = AP!alloc_impl(h, b, a, r)
  BY SameLists, <1>4, <1>13, <1>5, <1>1, SameBins DEF A!alloc_impl, AP!alloc_impl
<1> QED BY <1>1, <1>2, <1>3, <1>4, <1>5, <1>6, <1>7, <1>8, <1>9, <1>10, <1>11, <1>12,
          <1>13, <1>14

\* free, shrink_inplace, grow_inplace and realloc.
LEMMA SameRealloc ==
  /\ \A h, p : A!chunk_of(h, p) = AP!chunk_of(h, p)
  /\ \A h, p : A!usable_size_impl(h, p) = AP!usable_size_impl(h, p)
  /\ \A h, c : A!unregister(h, c) = AP!unregister(h, c)
  /\ \A h, c : A!forget(h, c) = AP!forget(h, c)
  /\ \A h, c : A!is_free(h, c) = AP!is_free(h, c)
  /\ \A h, p : A!free(h, p) = AP!free(h, p)
  /\ \A h, p, r : A!shrink_inplace(h, p, r) = AP!shrink_inplace(h, p, r)
  /\ \A h, p, r : A!grow_inplace(h, p, r) = AP!grow_inplace(h, p, r)
  /\ \A h, p, a, r : A!realloc(h, p, a, r) = AP!realloc(h, p, a, r)
<1>1. \A h, p : A!chunk_of(h, p) = AP!chunk_of(h, p)
  BY SameBins DEF A!chunk_of, AP!chunk_of
<1>2. \A h, p : A!usable_size_impl(h, p) = AP!usable_size_impl(h, p)
  BY <1>1, SameBins DEF A!usable_size_impl, AP!usable_size_impl
<1>3. \A h, c : A!unregister(h, c) = AP!unregister(h, c)
  BY SameLists, SameBins DEF A!unregister, AP!unregister
<1>4. \A h, c : A!forget(h, c) = AP!forget(h, c)
  BY SameLists DEF A!forget, AP!forget
<1>5. \A h, c : A!is_free(h, c) = AP!is_free(h, c)
  BY DEF A!is_free, AP!is_free
<1>6. \A h, p : A!free(h, p) = AP!free(h, p)
  BY <1>1, <1>5, <1>4, <1>3, SameLists DEF A!free, AP!free
<1>7. \A h, p, r : A!shrink_inplace(h, p, r) = AP!shrink_inplace(h, p, r)
  <2>1. \A r : A!shrunk_chunk_size(r) = AP!shrunk_chunk_size(r)
    BY SameBins DEF A!shrunk_chunk_size, AP!shrunk_chunk_size
  <2> QED BY <1>1, <1>3, <1>4, <1>5, <1>6, <2>1, SameBins, SameLists
          DEF A!shrink_inplace, AP!shrink_inplace
<1>8. \A h, p, r : A!grow_inplace(h, p, r) = AP!grow_inplace(h, p, r)
  <2> SUFFICES ASSUME NEW h, NEW p, NEW r PROVE A!grow_inplace(h, p, r) = AP!grow_inplace(h, p, r)
    OBVIOUS
  <2> DEFINE chunk     == AP!chunk_of(h, p)
             size      == r + AP!HEADER_SIZE
             old_next  == chunk + h.chunks[chunk].size
             remaining == h.chunks[chunk].size + h.chunks[old_next].size - size
             upto      == AP!end_offset_for(chunk + size, remaining)
             h1        == AP!unregister(AP!committed(h, upto), old_next)
             h2        == [h1 EXCEPT !.chunks[chunk].size = size]
  <2>1. A!chunk_of(h, p) = chunk /\ r + A!HEADER_SIZE = size
    BY <1>1, SameBins
  <2>2. A!unregister(A!committed(h, A!end_offset_for(chunk + size, remaining)), old_next) = h1
    BY <1>3, SameAlloc, SameAlloc
  <2> QED BY <2>1, <2>2, <1>1, SameBins, SameAlloc, <1>3, <1>4, SameLists, <1>5 DEF A!grow_inplace, AP!grow_inplace
<1>9. \A h, p, a, r : A!realloc(h, p, a, r) = AP!realloc(h, p, a, r)
  BY <1>2, <1>8, SameAlloc, <1>6, <1>7, SameBins DEF A!realloc, AP!realloc
<1> QED BY <1>1, <1>2, <1>3, <1>4, <1>5, <1>6, <1>7, <1>8, <1>9

\* What the Allocator assumes of its constants holds of those it is given here.
LEMMA Assumed ==
  /\ AP!SizeClassConstants /\ AP!SizeTIsU32 /\ AP!SomeMantissaFits /\ AP!SecondaryMasksFit
  /\ AP!AllocatorConstants /\ SIZE_MAX \notin ShrinkRequests
  BY AllocatorAssumptions, SameBins DEF ShrinkRequests

\* What was proved of the Allocator: its invariant and what its operations return and
\* leave alone.
LEMMA AllocatorInit == AP!Init => AP!Inv
  BY AP!InitInv, Assumed

LEMMA AllocatorNext ==
  ASSUME AP!Inv, [AP!Next]_(AP!vars)
  PROVE  AP!Inv'
  BY AP!NextInv, Assumed

LEMMA NewPointer ==
  ASSUME AP!Inv, NEW align \in Aligns, NEW size \in Requests, NEW new_base \in BASES,
         AP!alloc_impl(AP!heap, new_base, align, size).ret # AP!NULL
  PROVE  AP!alloc_impl(AP!heap, new_base, align, size).ret \notin DOMAIN owned
  BY AP!AllocIsNew, Assumed

LEMMA MovedPointer ==
  ASSUME AP!Inv, NEW pointer \in DOMAIN owned, NEW align \in Aligns, NEW size \in Requests,
         AP!Realloc(pointer, align, size),
         AP!realloc(AP!heap, pointer, align, size).ret \notin {AP!NULL, pointer}
  PROVE  AP!realloc(AP!heap, pointer, align, size).ret \notin DOMAIN owned
  BY AP!ReallocIsNew, Assumed

LEMMA KeptByAlloc ==
  ASSUME AP!Inv, NEW align \in Aligns, NEW size \in Requests, NEW new_base \in BASES,
         NEW c \in AP!Allocated
  PROVE  AP!StillThere(AP!alloc_impl(AP!heap, new_base, align, size).heap, AP!heap, c)
  BY AP!AllocKeeps, Assumed

LEMMA KeptByFree ==
  ASSUME AP!Inv, NEW pointer \in DOMAIN owned, NEW c \in AP!Allocated,
         c # AP!chunk_of(AP!heap, pointer)
  PROVE  AP!StillThere(AP!free(AP!heap, pointer), AP!heap, c)
  BY AP!FreeKeeps, Assumed

LEMMA KeptByRealloc ==
  ASSUME AP!Inv, NEW pointer \in DOMAIN owned, NEW align \in Aligns, NEW size \in Requests,
         align \in {1, owned[pointer].align},
         NEW c \in AP!Allocated, c # AP!chunk_of(AP!heap, pointer)
  PROVE  AP!StillThere(AP!realloc(AP!heap, pointer, align, size).heap, AP!heap, c)
  BY AP!ReallocKeeps, Assumed

LEMMA OwnedByClient ==
  ASSUME AP!Inv, NEW pointer \in DOMAIN owned
  PROVE  AP!Holding(AP!heap, owned, pointer, AP!chunk_of(AP!heap, pointer))
  BY AP!HoldingOf, Assumed

\* The heap and the steps of the two are the same.
LEMMA SameHeap == A!heap = AP!heap
  BY DEF A!heap, AP!heap

LEMMA SameSteps ==
  /\ A!Init = AP!Init /\ A!vars = AP!vars
  /\ \A a, s, b : A!Alloc(a, s, b) = AP!Alloc(a, s, b)
  /\ \A p : A!FreeCall(p) = AP!FreeCall(p)
  /\ \A p, a, s : A!Realloc(p, a, s) = AP!Realloc(p, a, s)
<1>1. A!Init = AP!Init
  BY SameBins, SameLists
  DEF A!Init, AP!Init, A!bitmask_new, AP!bitmask_new, A!Primaries, AP!Primaries, A!Layout, AP!Layout
<1>2. A!vars = AP!vars
  BY DEF A!vars, AP!vars
<1>3. \A h : A!BecomeHeap(h) = AP!BecomeHeap(h)
  BY DEF A!BecomeHeap, AP!BecomeHeap
<1>4. \A a, s : A!Layout(a, s) = AP!Layout(a, s)
  BY DEF A!Layout, AP!Layout
<1>5. A!NULL = AP!NULL
  BY SameBins
<1>6. \A f, k, v : A!Put(f, k, v) = AP!Put(f, k, v)
  BY SameLists
<1>7. \A f, k : A!Without(f, k) = AP!Without(f, k)
  BY SameLists
<1>8. \A a, s, b : A!Alloc(a, s, b) = AP!Alloc(a, s, b)
  <2>1. \A h, b, a, s : A!alloc_impl(h, b, a, s) = AP!alloc_impl(h, b, a, s)
    BY SameAlloc
  <2> QED BY <1>3, <1>4, <1>5, <1>6, <2>1, SameHeap DEF A!Alloc, AP!Alloc
<1>9. \A p : A!FreeCall(p) = AP!FreeCall(p)
  <2>1. \A h, p : A!free(h, p) = AP!free(h, p)
    BY SameRealloc
  <2> QED BY <1>3, <1>7, <2>1, SameHeap DEF A!FreeCall, AP!FreeCall
<1>10. \A p, a, s : A!Realloc(p, a, s) = AP!Realloc(p, a, s)
  <2>1. \A h, p, a, s : A!realloc(h, p, a, s) = AP!realloc(h, p, a, s)
    BY SameRealloc
  <2> QED BY <1>3, <1>4, <1>5, <1>6, <1>7, <2>1, SameHeap DEF A!Realloc, AP!Realloc
<1> QED BY <1>1, <1>2, <1>8, <1>9, <1>10

-----------------------------------------------------------------------------
(* The inductive invariant.                                                *)

\* A layout that can be served: it has a size in granules, and its alignment either
\* divides a granule or is a number of granules.
GoodLayout(layout) ==
  /\ layout.align \in AlignBytes \cup {1, POINTER_SIZE, CALLOC_ALIGN} /\ layout.align # 0
  /\ GRANULARITY % layout.align = 0 \/ layout.align % GRANULARITY = 0
  /\ layout.size \in Nat
  /\ Sized(layout.align) /\ Sized(layout.size)

WithPointer == {"realloc", "free", "usable_size"}

\* What a front end has decided before it takes the lock.
Prepared(plan) ==
  /\ plan.op \in {"none", "nothing", "fail", "usable_size"} \cup Locking
  /\ plan.granules = granules(plan.layout)
  /\ plan.pointer = NULL <=> plan.op \notin WithPointer
  /\ plan.op \in {"fail", "alloc", "realloc"} <=> plan.entry \in CallsForMemory
  /\ plan.op = "fail" /\ plan.entry # "GlobalAlloc" => plan.error \in {ENOMEM, EINVAL}
  /\ plan.op \in {"alloc", "realloc"} =>
       GoodLayout(plan.layout) /\ from_bytes_usize(plan.layout.size) \in Requests
  /\ plan.op = "realloc" => plan.layout.size # 0

CallsArePrepared == DOMAIN call = Threads /\ \A t \in Threads : Prepared(call[t])

\* A pointer in use stays live, and its layout as it was when the call was prepared.
PointersAreHeld ==
  \A t \in Threads :
    /\ call[t].op \in WithPointer => call[t].pointer \in DOMAIN asked
    /\ call[t].op = "realloc" => call[t].layout.align \in {1, asked[call[t].pointer].align}

PointersAreApart ==
  \A t, u \in Threads :
    call[t].pointer = call[u].pointer /\ call[t].pointer # NULL => t = u

AskedAreServed == NULL \notin DOMAIN asked /\ \A p \in DOMAIN asked : GoodLayout(asked[p])

LocksAreTaken == \A t \in Threads : pc[t] # "outside" <=> call[t].op \in Locking

\* Between its read of the heap and its unlock, the heap is as an operation found it.
PendingIsCurrent ==
  /\ DOMAIN pending \subseteq { t \in Threads : pc[t] = "holding" }
  /\ \A t \in DOMAIN pending : \E b \in BASES : pending[t] = operation(call[t], b)

LockInv == MP!Inv

GlobalInv ==
  /\ AP!Inv
  /\ LockInv
  /\ CallsArePrepared
  /\ PointersAreHeld
  /\ PointersAreApart
  /\ AskedAreServed
  /\ LocksAreTaken
  /\ PendingIsCurrent
  /\ DOMAIN reply = Threads

-----------------------------------------------------------------------------
(* Bytes and granules.                                                     *)

LEMMA DivMod ==
  ASSUME NEW x \in Nat, NEW n \in Nat \ {0}
  PROVE  x \div n \in Nat /\ x % n \in 0 .. n - 1 /\ x = n * (x \div n) + (x % n)
  OBVIOUS

LEMMA DivModUnique ==
  ASSUME NEW n \in Nat \ {0}, NEW q \in Nat, NEW r \in 0 .. n - 1
  PROVE  (n * q + r) \div n = q /\ (n * q + r) % n = r
  BY AP!DivModUnique, Assumed

LEMMA Divides ==
  ASSUME NEW x \in Nat, NEW n \in Nat \ {0}, x % n = 0
  PROVE  \E k \in Nat : x = n * k
<1>1. x \div n \in Nat /\ x = n * (x \div n) + 0
  BY DivMod
<1>2. n * (x \div n) + 0 = n * (x \div n)
  BY <1>1
<1> QED BY <1>1, <1>2

\* from_bytes_usize rounds up, so nothing but 0 bytes has 0 granules.
LEMMA FromBytes ==
  ASSUME NEW bytes \in Nat, Sized(bytes)
  PROVE  /\ from_bytes_usize(bytes) \in Nat
         /\ from_bytes_usize(bytes) * GRANULARITY >= bytes
         /\ bytes # 0 => from_bytes_usize(bytes) # 0
<1> DEFINE t == bytes + GRANULARITY - 1
           q == t \div GRANULARITY
<1>1. GRANULARITY \in Nat \ {0} /\ t \in Nat
  BY GlobalConstants
<1>2. q \in Nat /\ t % GRANULARITY \in 0 .. GRANULARITY - 1
      /\ t = GRANULARITY * q + (t % GRANULARITY)
  BY <1>1, DivMod
<1>3. from_bytes_usize(bytes) = q
  BY DEF from_bytes_usize, Sized
<1>4. q * GRANULARITY >= bytes
  <2>1. q * GRANULARITY = GRANULARITY * q
    BY <1>1, <1>2
  <2> HIDE DEF q
  <2> QED BY <2>1, <1>1, <1>2
<1>5. bytes # 0 => q # 0
  <2> HIDE DEF q
  <2> QED BY <1>1, <1>2, <1>4
<1> QED BY <1>2, <1>3, <1>4, <1>5

\* A pointer aligned in granules is aligned in bytes.
LEMMA AlignedInBytes ==
  ASSUME NEW align \in Nat \ {0}, Sized(align),
         GRANULARITY % align = 0 \/ align % GRANULARITY = 0,
         NEW p \in Nat, p % from_bytes_usize(align) = 0
  PROVE  (p * GRANULARITY) % align = 0
<1> DEFINE G == GRANULARITY
           a == from_bytes_usize(align)
<1>1. G \in Nat \ {0} /\ a \in Nat \ {0}
  BY GlobalConstants, FromBytes
<1>2. PICK k \in Nat : p * G = align * k
  <2>1. CASE G % align = 0
    <3>1. PICK j \in Nat : G = align * j
      BY <1>1, <2>1, Divides
    <3>2. p * j \in Nat /\ p * G = align * (p * j)
      BY <3>1
    <3> QED BY <3>2
  <2>2. CASE align % G = 0
    <3>1. PICK j \in Nat : align = G * j
      BY <1>1, <2>2, Divides
    <3>2. a = j
      <4>1. align + G - 1 = G * j + (G - 1) /\ G - 1 \in 0 .. G - 1
        BY <1>1, <3>1
      <4>2. (align + G - 1) \div G = j
        BY <1>1, <4>1, DivModUnique, SMTT(30)
      <4> QED BY <4>2 DEF from_bytes_usize, Sized
    <3>3. PICK i \in Nat : p = j * i
      BY <1>1, <3>2, Divides
    <3>4. p * G = align * i
      <4>1. (j * i) * G = (G * j) * i
        BY <1>1
      <4> QED BY <3>1, <3>3, <4>1
    <3> QED BY <3>4
  <2> QED BY <2>1, <2>2
<1>3. (align * k + 0) % align = 0
  BY DivModUnique
<1> QED BY <1>2, <1>3

-----------------------------------------------------------------------------
(* What the front ends decide without the lock.                            *)

\* A plan for a call that may use the pointers of S.
MayUse(plan, S) ==
  /\ plan.op # "none"
  /\ plan.op \in WithPointer => plan.pointer \in S
  /\ plan.op = "realloc" => plan.layout.align \in {1, asked[plan.pointer].align}

LEMMA PlanFields ==
  ASSUME NEW entry, NEW op, NEW pointer, NEW layout
  PROVE  /\ Plan(entry, op, pointer, layout).entry = entry
         /\ Plan(entry, op, pointer, layout).op = op
         /\ Plan(entry, op, pointer, layout).pointer = pointer
         /\ Plan(entry, op, pointer, layout).layout = layout
         /\ Plan(entry, op, pointer, layout).granules = granules(layout)
  BY DEF Plan

LEMMA FailPlan ==
  ASSUME NEW S, NEW entry \in CallsForMemory, NEW error,
         entry # "GlobalAlloc" => error \in {ENOMEM, EINVAL}
  PROVE  Prepared(Fail(entry, error)) /\ MayUse(Fail(entry, error), S)
<1> DEFINE plan == Fail(entry, error)
<1>1. /\ plan.entry = entry /\ plan.op = "fail" /\ plan.pointer = NULL
      /\ plan.layout = Layout(1, 0) /\ plan.granules = granules(Layout(1, 0))
      /\ plan.error = error
  BY DEF Fail, Plan
<1> HIDE DEF plan
<1>2. Prepared(plan) /\ MayUse(plan, S)
  BY <1>1 DEF Prepared, MayUse, WithPointer, Locking
<1> QED BY <1>2 DEF plan

LEMMA NothingPlan ==
  ASSUME NEW S, NEW entry \in {"free", "usable_size"}
  PROVE  Prepared(Nothing(entry)) /\ MayUse(Nothing(entry), S)
  BY PlanFields DEF Nothing, Prepared, MayUse, WithPointer, Locking, CallsForMemory

LEMMA NoCallPlan == Prepared(NoCall) /\ NoCall.op = "none" /\ NoCall.pointer = NULL
  BY PlanFields DEF NoCall, Prepared, WithPointer, Locking, CallsForMemory

LEMMA AllocPlan ==
  ASSUME NEW S, NEW layout, GoodLayout(layout), from_bytes_usize(layout.size) \in Requests,
         NEW entry \in CallsForMemory
  PROVE  LET plan == Plan(entry, "alloc", NULL, layout)
         IN  Prepared(plan) /\ MayUse(plan, S)
  BY PlanFields DEF Prepared, MayUse, WithPointer, Locking

LEMMA PointerPlan ==
  ASSUME NEW S, NEW pointer \in S, pointer # NULL, NEW op \in {"free", "usable_size"}
  PROVE  LET plan == Plan(op, op, pointer, Layout(1, 0))
         IN  Prepared(plan) /\ MayUse(plan, S)
  BY PlanFields DEF Prepared, MayUse, WithPointer, Locking, CallsForMemory

LEMMA ReallocPlan ==
  ASSUME NEW S, NEW pointer \in S, pointer # NULL,
         NEW layout, GoodLayout(layout), layout.size # 0,
         layout.align \in {1, asked[pointer].align},
         from_bytes_usize(layout.size) \in Requests, NEW entry \in CallsForMemory
  PROVE  LET plan == Plan(entry, "realloc", pointer, layout)
         IN  Prepared(plan) /\ MayUse(plan, S)
  BY PlanFields DEF Prepared, MayUse, WithPointer, Locking

LEMMA Entries ==
  {"posix_memalign", "aligned_alloc", "calloc", "realloc", "GlobalAlloc"} \subseteq CallsForMemory
  BY DEF CallsForMemory

\* The sizes and alignments that get past the checks of the front ends.
LEMMA SizeIsRequest ==
  /\ \A s \in ByteSizes : s \in Nat /\ (Sized(s) => from_bytes_usize(s) \in Requests)
  /\ \A n \in Counts, s \in ByteSizes :
       n * s \in Nat /\ (Sized(n * s) => from_bytes_usize(n * s) \in Requests)
<1>1. ASSUME NEW s \in ByteSizes
      PROVE  s \in Nat /\ (Sized(s) => from_bytes_usize(s) \in Requests)
  <2>1. s \in Nat /\ 1 * s = s
    BY GlobalConstants
  <2>2. 1 \in Counts \cup {1} /\ from_bytes_usize(s) = from_bytes_usize(1 * s)
    BY <2>1
  <2>3. from_bytes_usize(s)
          \in { from_bytes_usize(n * z) : n \in Counts \cup {1}, z \in ByteSizes }
    BY <2>2
  <2> QED BY <2>1, <2>3 DEF Requests, Sized
<1>2. ASSUME NEW n \in Counts, NEW s \in ByteSizes
      PROVE  n * s \in Nat /\ (Sized(n * s) => from_bytes_usize(n * s) \in Requests)
  <2>1. n * s \in Nat
    BY GlobalConstants
  <2> QED BY <2>1 DEF Requests, Sized
<1> QED BY <1>1, <1>2

LEMMA PowerIsGood ==
  ASSUME NEW align \in AlignBytes \cup {POINTER_SIZE, CALLOC_ALIGN}, A!is_power_of_two(align),
         Sized(align), NEW size \in Nat, Sized(size)
  PROVE  GoodLayout(Layout(align, size))
  BY PowersOfTwoNest DEF GoodLayout, Layout, A!is_power_of_two

LEMMA OneIsGood ==
  ASSUME NEW size \in Nat, Sized(size)
  PROVE  GoodLayout(Layout(1, size))
<1>1. GRANULARITY % 1 = 0
  BY GlobalConstants
<1> QED BY <1>1, ConstantsAreSized DEF GoodLayout, Layout

LEMMA MemalignPlan ==
  ASSUME NEW S, NEW align \in AlignBytes \cup {POINTER_SIZE}, NEW size \in Nat,
         Sized(size) => from_bytes_usize(size) \in Requests,
         NEW entry \in {"posix_memalign", "aligned_alloc"}
  PROVE  Prepared(memalign_for(entry, align, size)) /\ MayUse(memalign_for(entry, align, size), S)
<1>1. CASE ~A!is_power_of_two(align) \/ align < POINTER_SIZE
  BY <1>1, FailPlan, Entries DEF memalign_for
<1>2. CASE ~(~A!is_power_of_two(align) \/ align < POINTER_SIZE) /\ (~Sized(size) \/ ~Sized(align))
  BY <1>2, FailPlan, Entries DEF memalign_for
<1>3. CASE ~(~A!is_power_of_two(align) \/ align < POINTER_SIZE) /\ Sized(size) /\ Sized(align)
  <2>1. GoodLayout(Layout(align, size)) /\ from_bytes_usize(size) \in Requests
    BY <1>3, PowerIsGood
  <2>2. Layout(align, size).size = size
    BY DEF Layout
  <2>3. memalign_for(entry, align, size) = Plan(entry, "alloc", NULL, Layout(align, size))
    BY <1>3 DEF memalign_for
  <2> QED BY <2>1, <2>2, <2>3, AllocPlan, Entries
<1> QED BY <1>1, <1>2, <1>3

LEMMA CallocPlan ==
  ASSUME NEW S, NEW count \in Counts, NEW size \in ByteSizes
  PROVE  Prepared(calloc(count, size)) /\ MayUse(calloc(count, size), S)
<1> DEFINE total == count * size
<1>1. CASE total > USIZE_MAX \/ ~Sized(total)
  BY <1>1, FailPlan, Entries DEF calloc
<1>2. CASE ~(total > USIZE_MAX) /\ Sized(total)
  <2>1. GoodLayout(Layout(CALLOC_ALIGN, total)) /\ from_bytes_usize(total) \in Requests
    BY <1>2, SizeIsRequest, PowerIsGood, ConstantsAreSized
  <2>2. Layout(CALLOC_ALIGN, total).size = total
    BY DEF Layout
  <2>3. calloc(count, size) = Plan("calloc", "alloc", NULL, Layout(CALLOC_ALIGN, total))
    BY <1>2 DEF calloc
  <2> QED BY <2>1, <2>2, <2>3, AllocPlan, Entries
<1> QED BY <1>1, <1>2

LEMMA FreePlan ==
  ASSUME NEW S, NEW pointer \in S \cup {NULL}
  PROVE  /\ Prepared(free(pointer)) /\ MayUse(free(pointer), S)
         /\ Prepared(malloc_usable_size(pointer)) /\ MayUse(malloc_usable_size(pointer), S)
<1>1. CASE pointer = NULL
  BY <1>1, NothingPlan DEF free, malloc_usable_size
<1>2. CASE pointer # NULL
  BY <1>2, PointerPlan DEF free, malloc_usable_size
<1> QED BY <1>1, <1>2

LEMMA CReallocPlan ==
  ASSUME NEW S, NEW pointer \in S \cup {NULL}, NEW size \in Nat,
         Sized(size) => from_bytes_usize(size) \in Requests
  PROVE  Prepared(realloc(pointer, size)) /\ MayUse(realloc(pointer, size), S)
<1>1. CASE pointer = NULL
  BY <1>1, MemalignPlan DEF realloc, malloc, aligned_alloc
<1>2. CASE pointer # NULL /\ size = 0
  BY <1>2, FreePlan DEF realloc
<1>3. CASE pointer # NULL /\ size # 0 /\ ~Sized(size)
  BY <1>3, FailPlan, Entries DEF realloc
<1>4. CASE pointer # NULL /\ size # 0 /\ Sized(size)
  <2>1. GoodLayout(Layout(1, size)) /\ Layout(1, size).size = size /\ Layout(1, size).align = 1
    BY <1>4, OneIsGood DEF Layout
  <2>2. realloc(pointer, size) = Plan("realloc", "realloc", pointer, Layout(1, size))
    BY <1>4 DEF realloc
  <2> QED BY <1>4, <2>1, <2>2, ReallocPlan, Entries
<1> QED BY <1>1, <1>2, <1>3, <1>4

LEMMA RustAllocPlan ==
  ASSUME NEW S, NEW align \in AlignBytes, A!is_power_of_two(align), NEW size \in ByteSizes
  PROVE  Prepared(rust_alloc(align, size)) /\ MayUse(rust_alloc(align, size), S)
<1>1. CASE Sized(align) /\ Sized(size)
  <2>1. GoodLayout(Layout(align, size)) /\ from_bytes_usize(size) \in Requests
    BY <1>1, SizeIsRequest, PowerIsGood
  <2>2. Layout(align, size).size = size
    BY DEF Layout
  <2>3. rust_alloc(align, size) = Plan("GlobalAlloc", "alloc", NULL, Layout(align, size))
    BY <1>1 DEF rust_alloc
  <2> QED BY <2>1, <2>2, <2>3, AllocPlan, Entries
<1>2. CASE ~(Sized(align) /\ Sized(size))
  BY <1>2, FailPlan, Entries DEF rust_alloc
<1> QED BY <1>1, <1>2

LEMMA RustReallocPlan ==
  ASSUME NEW S, NEW pointer \in S, GoodLayout(asked[pointer]), NEW size \in ByteSizes, size # 0
  PROVE  /\ Prepared(rust_realloc(pointer, asked[pointer], size))
         /\ MayUse(rust_realloc(pointer, asked[pointer], size), S)
<1> DEFINE align == asked[pointer].align
<1>1. CASE pointer # NULL /\ Sized(align) /\ Sized(size)
  <2>1. from_bytes_usize(size) \in Requests /\ size \in Nat
    BY <1>1, SizeIsRequest
  <2>2. Layout(align, size).size = size /\ Layout(align, size).align = align
    BY DEF Layout
  <2>3. GoodLayout(Layout(align, size))
    BY <1>1, <2>1, <2>2 DEF GoodLayout
  <2>4. rust_realloc(pointer, asked[pointer], size)
          = Plan("GlobalAlloc", "realloc", pointer, Layout(align, size))
    BY <1>1 DEF rust_realloc
  <2> QED BY <1>1, <2>1, <2>2, <2>3, <2>4, ReallocPlan, Entries
<1>2. CASE ~(pointer # NULL /\ Sized(align) /\ Sized(size))
  BY <1>2, FailPlan, Entries DEF rust_realloc
<1> QED BY <1>1, <1>2

LEMMA PlansArePrepared ==
  ASSUME AskedAreServed, NEW S, S \subseteq DOMAIN asked, NEW plan \in Plans(S)
  PROVE  Prepared(plan) /\ MayUse(plan, S)
<1> USE SizeIsRequest
<1> DEFINE Good == Prepared(plan) /\ MayUse(plan, S)
<1>1. \A a \in AlignBytes \cup {POINTER_SIZE}, s \in ByteSizes :
        plan \in {posix_memalign(a, s), aligned_alloc(a, s)} => Good
  BY MemalignPlan DEF posix_memalign, aligned_alloc
<1>2. \A s \in ByteSizes : plan = malloc(s) => Good
  BY <1>1 DEF malloc
<1>3. \A a \in AlignBytes, s \in ByteSizes :
        plan \in {posix_memalign(a, s), aligned_alloc(a, s)} => Good
  BY <1>1
<1>4. \A n \in Counts, s \in ByteSizes : plan = calloc(n, s) => Good
  BY CallocPlan
<1>5. \A p \in S \cup {NULL}, s \in ByteSizes : plan = realloc(p, s) => Good
  BY CReallocPlan
<1>6. \A p \in S \cup {NULL}, n \in Counts, s \in ByteSizes :
        plan = reallocarray(p, n, s) => Good
  <2> SUFFICES ASSUME NEW p \in S \cup {NULL}, NEW n \in Counts, NEW s \in ByteSizes,
                      plan = reallocarray(p, n, s)
               PROVE  Good
    OBVIOUS
  <2>1. CASE n * s > USIZE_MAX
    BY <2>1, FailPlan, Entries DEF reallocarray
  <2>2. CASE ~(n * s > USIZE_MAX)
    <3>1. plan = realloc(p, n * s)
      BY <2>2 DEF reallocarray
    <3>2. n * s \in Nat /\ (Sized(n * s) => from_bytes_usize(n * s) \in Requests)
      OBVIOUS
    <3> QED BY <3>1, <3>2, CReallocPlan
  <2> QED BY <2>1, <2>2
<1>7. \A p \in S \cup {NULL} : plan \in {free(p), malloc_usable_size(p)} => Good
  BY FreePlan
<1>8. \A a \in AlignBytes, s \in ByteSizes :
        A!is_power_of_two(a) /\ plan = rust_alloc(a, s) => Good
  BY RustAllocPlan
<1>9. \A p \in S, s \in ByteSizes \ {0} : plan = rust_realloc(p, asked[p], s) => Good
  <2>1. \A p \in S : GoodLayout(asked[p])
    BY DEF AskedAreServed
  <2> QED BY <2>1, RustReallocPlan
<1>10. \A p \in S : plan = rust_dealloc(p) => Good
  BY <1>7 DEF rust_dealloc
<1> HIDE DEF Good
<1> QED BY <1>2, <1>3, <1>4, <1>5, <1>6, <1>7, <1>8, <1>9, <1>10 DEF Plans, Good

-----------------------------------------------------------------------------
(* Of the state, an operation uses what the environment would commit and   *)
(* the heap it is applied to, and nothing else.                            *)

LEMMA SameLimit ==
  ASSUME UNCHANGED limit
  PROVE  /\ \A h, b, a, s : A!alloc_impl(h, b, a, s)' = A!alloc_impl(h, b, a, s)
         /\ \A h, p, a, s : A!realloc(h, p, a, s)' = A!realloc(h, p, a, s)
<1>1. \A s : A!expand_memory_until(s)' = A!expand_memory_until(s)
  BY DEF A!expand_memory_until
<1>2. \A h, b : A!can_initialize(h, b)' = A!can_initialize(h, b)
  BY <1>1 DEF A!can_initialize
<1>3. \A h, a, r : A!alloc_initialized(h, a, r)' = A!alloc_initialized(h, a, r)
  BY <1>1 DEF A!alloc_initialized
<1>4. \A h, b, a, s : A!alloc_impl(h, b, a, s)' = A!alloc_impl(h, b, a, s)
  BY <1>2, <1>3 DEF A!alloc_impl
<1>5. \A h, p, r : A!grow_inplace(h, p, r)' = A!grow_inplace(h, p, r)
  <2> SUFFICES ASSUME NEW h, NEW p, NEW r
               PROVE  A!grow_inplace(h, p, r)' = A!grow_inplace(h, p, r)
    OBVIOUS
  <2> DEFINE chunk     == A!chunk_of(h, p)
             size      == r + A!HEADER_SIZE
             old_next  == chunk + h.chunks[chunk].size
             available == h.chunks[chunk].size + h.chunks[old_next].size
             upto      == A!end_offset_for(chunk + size, available - size)
             asks      == A!expand_memory_until(upto)
             grown     == A!returns(A!set_prev_chunk_size(A!register_free_space(A!forget(
                              [A!unregister(A!committed(h, upto), old_next)
                                 EXCEPT !.chunks[chunk].size = size], old_next),
                              chunk + size, size, available - size),
                            chunk + size + (available - size),
                            IF available - size = 0 THEN size ELSE available - size), r)
             outcome(x) ==
               IF size > SIZE_MAX THEN A!returns(h, A!NULL)
               ELSE IF h.chunks[chunk].size >= size
                      THEN A!returns(h, h.chunks[chunk].size - A!HEADER_SIZE)
               ELSE IF /\ A!is_free(h, old_next) /\ available >= size
                       /\ h.space < upto => x
                      THEN grown
                      ELSE A!returns(h, A!NULL)
  <2>1. A!grow_inplace(h, p, r) = outcome(asks)
    BY DEF A!grow_inplace
  <2>2. A!grow_inplace(h, p, r)' = outcome(asks')
    BY DEF A!grow_inplace
  <2>3. asks' <=> asks
    BY DEF A!expand_memory_until
  <2> HIDE DEF grown, chunk, size, old_next, available, upto, asks
  <2> QED BY <2>1, <2>2, <2>3
<1>6. \A h, p, a, s : A!realloc(h, p, a, s)' = A!realloc(h, p, a, s)
  BY <1>4, <1>5 DEF A!realloc
<1> QED BY <1>4, <1>6

LEMMA SameOperation ==
  ASSUME UNCHANGED <<arena, limit>>
  PROVE  \A plan, b : operation(plan, b)' = operation(plan, b)
<1> SUFFICES ASSUME NEW plan, NEW b PROVE operation(plan, b)' = operation(plan, b)
  OBVIOUS
<1>1. A!heap' = A!heap
  BY DEF A!heap, arena
<1>2. UNCHANGED limit
  OBVIOUS
<1> QED BY <1>1, <1>2, SameLimit DEF operation

-----------------------------------------------------------------------------
(* The lock.                                                               *)

LEMMA LockInit == M!Init => LockInv
  BY MP!InitInv, GlobalConstants DEF M!Init, MP!Init, LockInv, MP!CallsIsNatural

LEMMA LockStep ==
  ASSUME LockInv, NEW t \in Threads,
         M!Lock(t) \/ M!CompareExchange(t) \/ M!Write(t) \/ M!Unlock(t)
  PROVE  LockInv'
<1>1. MP!Lock(t) \/ MP!CompareExchange(t) \/ MP!Write(t) \/ MP!Unlock(t)
  BY DEF M!Lock, M!CompareExchange, M!Write, M!Unlock, M!acquire,
         MP!Lock, MP!CompareExchange, MP!Write, MP!Unlock, MP!acquire
<1>2. MP!Next
  BY <1>1 DEF MP!Next
<1> QED BY <1>2, MP!StepInv, GlobalConstants DEF LockInv, MP!CallsIsNatural

LEMMA LockSame ==
  ASSUME LockInv, UNCHANGED mutex_vars
  PROVE  LockInv'
  BY MP!StepInv, GlobalConstants DEF LockInv, MP!CallsIsNatural, MP!vars, mutex_vars

LEMMA LockFacts ==
  ASSUME LockInv
  PROVE  /\ pc \in [Threads -> {"outside", "spinning", "holding"}]
         /\ \A t, u \in Threads : pc[t] = "holding" /\ pc[u] = "holding" => t = u
         /\ ~flag => \A t \in Threads : pc[t] # "holding"
  BY DEF LockInv, MP!Inv, MP!TypeOK, MP!MutualExclusion, MP!FlagTellsTheTruth, MP!Holders

-----------------------------------------------------------------------------
(* The steps that leave the heap alone.                                    *)

LEMMA HeapSame ==
  ASSUME AP!Inv, AskedAreServed, UNCHANGED <<arena, limit, asked>>
  PROVE  AP!Inv' /\ AskedAreServed'
<1>1. UNCHANGED owned
  BY DEF owned
<1>2. UNCHANGED AP!vars
  BY <1>1 DEF AP!vars, arena
<1>3. AP!Inv'
  BY <1>2, AllocatorNext
<1>4. AskedAreServed'
  BY DEF AskedAreServed
<1> QED BY <1>3, <1>4

\* The operations under way keep their results while their calls stay as they are.
LEMMA PendingSame ==
  ASSUME PendingIsCurrent, LockInv, UNCHANGED <<arena, limit, pending>>,
         \A t \in DOMAIN pending : call'[t] = call[t] /\ pc'[t] = "holding"
  PROVE  PendingIsCurrent'
<1>1. DOMAIN pending' \subseteq { t \in Threads : pc'[t] = "holding" }
  BY DEF PendingIsCurrent
<1>2. ASSUME NEW t \in DOMAIN pending
      PROVE  \E b \in BASES : pending[t] = operation(call[t], b)'
  <2>1. PICK b \in BASES : pending[t] = operation(call[t], b)
    BY DEF PendingIsCurrent
  <2>2. operation(call[t], b)' = operation(call[t], b)
    <3>1. \A plan : operation(plan, b)' = operation(plan, b)
      BY SameOperation
    <3> QED BY <1>2, <3>1
  <2> QED BY <2>1, <2>2
<1> QED BY <1>1, <1>2 DEF PendingIsCurrent

LEMMA InitGlobal == Init => GlobalInv
<1> SUFFICES ASSUME Init PROVE GlobalInv
  OBVIOUS
<1>1. AP!Inv
  BY SameSteps, AllocatorInit DEF Init
<1>2. LockInv
  BY LockInit DEF Init
<1>3. \A t \in Threads : call[t] = NoCall
  BY DEF Init
<1>4. CallsArePrepared
  BY <1>3, NoCallPlan DEF Init, CallsArePrepared
<1>5. PointersAreHeld /\ PointersAreApart
  BY <1>3, NoCallPlan DEF PointersAreHeld, PointersAreApart, WithPointer
<1>6. AskedAreServed
  BY DEF Init, AskedAreServed
<1>7. LocksAreTaken
  BY <1>3, NoCallPlan DEF Init, M!Init, LocksAreTaken, Locking
<1>8. PendingIsCurrent
  BY DEF Init, PendingIsCurrent
<1>9. DOMAIN reply = Threads
  BY DEF Init
<1> QED BY <1>1, <1>2, <1>4, <1>5, <1>6, <1>7, <1>8, <1>9 DEF GlobalInv

LEMMA CallGlobal ==
  ASSUME GlobalInv, NEW t \in Threads, Call(t)
  PROVE  GlobalInv'
<1>1. /\ AP!Inv /\ LockInv /\ CallsArePrepared /\ PointersAreHeld /\ PointersAreApart
      /\ AskedAreServed /\ LocksAreTaken /\ PendingIsCurrent /\ DOMAIN reply = Threads
  BY DEF GlobalInv
<1>2. PICK plan \in Plans(DOMAIN asked \ InUse) :
        /\ call' = [call EXCEPT ![t] = plan]
        /\ IF plan.op \in Locking THEN M!Lock(t) ELSE UNCHANGED mutex_vars
  BY DEF Call
<1>3. /\ call[t].op = "none"
      /\ reply' = [reply EXCEPT ![t] = Reply(NULL, 0, 0)]
      /\ UNCHANGED <<arena, limit, asked>> /\ UNCHANGED pending
  BY NoCallPlan DEF Call, Idle
<1>4. Prepared(plan) /\ MayUse(plan, DOMAIN asked \ InUse)
  BY <1>1, <1>2, PlansArePrepared
<1>5. /\ DOMAIN call' = Threads /\ call'[t] = plan
      /\ \A u \in Threads : u # t => call'[u] = call[u]
  BY <1>1, <1>2 DEF CallsArePrepared
<1>6. /\ pc[t] = "outside"
      /\ \A u \in Threads : u # t => pc'[u] = pc[u]
      /\ pc'[t] # "outside" <=> plan.op \in Locking
  <2>1. pc[t] = "outside"
    BY <1>1, <1>3 DEF LocksAreTaken, Locking
  <2>2. CASE plan.op \in Locking
    BY <1>1, <1>2, <2>1, <2>2, LockFacts DEF M!Lock
  <2>3. CASE plan.op \notin Locking
    BY <1>2, <2>1, <2>3 DEF mutex_vars
  <2> QED BY <2>1, <2>2, <2>3
<1>7. AP!Inv' /\ AskedAreServed'
  BY <1>1, <1>3, HeapSame
<1>8. LockInv'
  <2>1. CASE plan.op \in Locking
    BY <1>1, <1>2, <2>1, LockStep
  <2>2. CASE plan.op \notin Locking
    BY <1>1, <1>2, <2>2, LockSame
  <2> QED BY <2>1, <2>2
<1>9. CallsArePrepared'
  <2>1. \A u \in Threads : Prepared(call'[u])
    BY <1>1, <1>4, <1>5 DEF CallsArePrepared
  <2> QED BY <1>5, <2>1 DEF CallsArePrepared, Prepared, GoodLayout
<1>10. PointersAreHeld'
  BY <1>1, <1>3, <1>4, <1>5 DEF PointersAreHeld, MayUse
<1>11. PointersAreApart'
  <2>1. plan.pointer # NULL => plan.pointer \notin InUse
    BY <1>4 DEF Prepared, MayUse
  <2>2. \A u \in Threads : plan.pointer # NULL => call[u].pointer # plan.pointer
    BY <2>1 DEF InUse
  <2> QED BY <1>1, <1>5, <2>2 DEF PointersAreApart
<1>12. LocksAreTaken'
  BY <1>1, <1>5, <1>6 DEF LocksAreTaken
<1>13. PendingIsCurrent'
  <2>1. \A u \in DOMAIN pending : u \in Threads /\ u # t /\ pc[u] = "holding"
    BY <1>1, <1>6 DEF PendingIsCurrent
  <2>2. \A u \in DOMAIN pending : call'[u] = call[u] /\ pc'[u] = "holding"
    BY <1>5, <1>6, <2>1
  <2> QED BY <1>1, <1>3, <2>2, PendingSame
<1>14. DOMAIN reply' = Threads
  BY <1>1, <1>3
<1> QED BY <1>7, <1>8, <1>9, <1>10, <1>11, <1>12, <1>13, <1>14 DEF GlobalInv

LEMMA ReturnGlobal ==
  ASSUME GlobalInv, NEW t \in Threads, Return(t)
  PROVE  GlobalInv'
<1>1. /\ AP!Inv /\ LockInv /\ CallsArePrepared /\ PointersAreHeld /\ PointersAreApart
      /\ AskedAreServed /\ LocksAreTaken /\ PendingIsCurrent /\ DOMAIN reply = Threads
  BY DEF GlobalInv
<1>2. /\ call[t].op \in {"fail", "nothing", "usable_size"}
      /\ UNCHANGED <<arena, limit, asked>> /\ UNCHANGED mutex_vars /\ UNCHANGED pending
  BY DEF Return
<1>3. /\ DOMAIN call' = Threads /\ call'[t] = NoCall
      /\ \A u \in Threads : u # t => call'[u] = call[u]
  BY <1>1 DEF Return, CallsArePrepared
<1>4. AP!Inv' /\ AskedAreServed' /\ LockInv'
  BY <1>1, <1>2, HeapSame, LockSame
<1>5. CallsArePrepared'
  <2>1. \A u \in Threads : Prepared(call'[u])
    BY <1>1, <1>3, NoCallPlan DEF CallsArePrepared
  <2> QED BY <1>3, <2>1 DEF CallsArePrepared, Prepared, GoodLayout
<1>6. PointersAreHeld' /\ PointersAreApart'
  BY <1>1, <1>2, <1>3, NoCallPlan DEF PointersAreHeld, PointersAreApart, WithPointer
<1>7. pc[t] = "outside" /\ pc' = pc
  BY <1>1, <1>2 DEF LocksAreTaken, Locking, mutex_vars
<1>8. LocksAreTaken'
  BY <1>1, <1>3, <1>7, NoCallPlan DEF LocksAreTaken, Locking
<1>9. PendingIsCurrent'
  <2>1. \A u \in DOMAIN pending : u \in Threads /\ u # t /\ pc[u] = "holding"
    BY <1>1, <1>7 DEF PendingIsCurrent
  <2>2. \A u \in DOMAIN pending : call'[u] = call[u] /\ pc'[u] = "holding"
    BY <1>3, <1>7, <2>1
  <2> QED BY <1>1, <1>2, <2>2, PendingSame
<1>10. DOMAIN reply' = Threads
  BY <1>1 DEF Return
<1> QED BY <1>4, <1>5, <1>6, <1>8, <1>9, <1>10 DEF GlobalInv

LEMMA AcquireGlobal ==
  ASSUME GlobalInv, NEW t \in Threads, Acquire(t)
  PROVE  GlobalInv'
<1>1. /\ AP!Inv /\ LockInv /\ CallsArePrepared /\ PointersAreHeld /\ PointersAreApart
      /\ AskedAreServed /\ LocksAreTaken /\ PendingIsCurrent /\ DOMAIN reply = Threads
  BY DEF GlobalInv
<1>2. /\ UNCHANGED <<arena, limit, asked>> /\ UNCHANGED call
      /\ UNCHANGED pending /\ UNCHANGED reply
  BY DEF Acquire
<1>3. /\ pc[t] = "spinning" /\ pc'[t] = "holding" /\ ~flag
      /\ \A u \in Threads : u # t => pc'[u] = pc[u]
  BY <1>1, LockFacts DEF Acquire, M!CompareExchange
<1>4. AP!Inv' /\ AskedAreServed' /\ LockInv'
  BY <1>1, <1>2, HeapSame, LockStep DEF Acquire
<1>5. CallsArePrepared'
  BY <1>1, <1>2 DEF CallsArePrepared, Prepared, GoodLayout
<1>6. PointersAreHeld' /\ PointersAreApart'
  BY <1>1, <1>2 DEF PointersAreHeld, PointersAreApart
<1>7. LocksAreTaken'
  BY <1>1, <1>2, <1>3 DEF LocksAreTaken
<1>8. PendingIsCurrent'
  <2>1. DOMAIN pending = {}
    BY <1>1, <1>3, LockFacts DEF PendingIsCurrent
  <2> QED BY <1>1, <1>2, <2>1, PendingSame
<1>9. DOMAIN reply' = Threads
  BY <1>1, <1>2
<1> QED BY <1>4, <1>5, <1>6, <1>7, <1>8, <1>9 DEF GlobalInv

LEMMA EnterGlobal ==
  ASSUME GlobalInv, NEW t \in Threads, Enter(t)
  PROVE  GlobalInv'
<1>1. /\ AP!Inv /\ LockInv /\ CallsArePrepared /\ PointersAreHeld /\ PointersAreApart
      /\ AskedAreServed /\ LocksAreTaken /\ PendingIsCurrent /\ DOMAIN reply = Threads
  BY DEF GlobalInv
<1>2. /\ UNCHANGED <<arena, limit, asked>> /\ UNCHANGED <<arena, limit>>
      /\ UNCHANGED call /\ UNCHANGED reply
  BY DEF Enter
<1>3. pc[t] = "holding" /\ pc' = pc
  BY DEF Enter, M!Write
<1>4. AP!Inv' /\ AskedAreServed' /\ LockInv'
  BY <1>1, <1>2, HeapSame, LockStep DEF Enter
<1>5. CallsArePrepared'
  BY <1>1, <1>2 DEF CallsArePrepared, Prepared, GoodLayout
<1>6. PointersAreHeld' /\ PointersAreApart'
  BY <1>1, <1>2 DEF PointersAreHeld, PointersAreApart
<1>7. LocksAreTaken'
  BY <1>1, <1>2, <1>3 DEF LocksAreTaken
<1>8. PendingIsCurrent'
  <2>1. PICK b \in BASES : pending' = A!Put(pending, t, operation(call[t], b))
    BY DEF Enter
  <2>2. /\ DOMAIN pending' = DOMAIN pending \cup {t}
        /\ pending'[t] = operation(call[t], b)
        /\ \A u \in DOMAIN pending : u # t => pending'[u] = pending[u]
    BY <2>1 DEF A!Put
  <2>3. \A plan, z : operation(plan, z)' = operation(plan, z)
    BY <1>2, SameOperation
  <2>4. ASSUME NEW u \in DOMAIN pending'
        PROVE  \E z \in BASES : pending'[u] = operation(call[u], z)'
    <3>1. PICK z \in BASES : pending'[u] = operation(call[u], z)
      BY <1>1, <2>2, <2>4 DEF PendingIsCurrent
    <3>2. operation(call[u], z)' = operation(call[u], z)
      BY <1>2, <2>3
    <3> QED BY <3>1, <3>2
  <2>5. DOMAIN pending' \subseteq { u \in Threads : pc'[u] = "holding" }
    BY <1>1, <1>3, <2>2 DEF PendingIsCurrent
  <2> QED BY <2>4, <2>5 DEF PendingIsCurrent
<1>9. DOMAIN reply' = Threads
  BY <1>1, <1>2
<1> QED BY <1>4, <1>5, <1>6, <1>7, <1>8, <1>9 DEF GlobalInv

-----------------------------------------------------------------------------
(* The step that writes the heap.                                          *)

LEMMA OneGranule == from_bytes_usize(1) = 1
<1>1. 1 + GRANULARITY - 1 = GRANULARITY * 1 + 0
  BY GlobalConstants
<1>2. (GRANULARITY * 1 + 0) \div GRANULARITY = 1
  BY GlobalConstants, DivModUnique
<1>3. (1 + GRANULARITY - 1) \div GRANULARITY = 1
  BY <1>1, <1>2
<1> QED BY <1>3, ConstantsAreSized DEF from_bytes_usize, Sized

\* What a good layout asks of the Allocator is something the Allocator is asked for.
LEMMA GoodGranules ==
  ASSUME NEW layout, GoodLayout(layout)
  PROVE  granules(layout).align \in Aligns
  BY DEF GoodLayout, granules, Layout, Aligns, Sized

\* When a thread leaves, the clients have what the Allocator says they own.
Left(t) ==
  LET plan == call[t]
      a    == plan.granules.align
      s    == plan.granules.size
      ret  == pending[t].ret
  IN  \/ /\ plan.op = "alloc" /\ a \in Aligns /\ s \in Requests
         /\ \E b \in BASES : A!Alloc(a, s, b)
         /\ ret # NULL => ret \notin DOMAIN asked
      \/ /\ plan.op = "realloc" /\ a \in Aligns /\ s \in Requests
         /\ plan.pointer \in DOMAIN asked /\ A!Realloc(plan.pointer, a, s)
         /\ ret \notin {NULL, plan.pointer} => ret \notin DOMAIN asked
      \/ /\ plan.op = "free" /\ ret = NULL
         /\ plan.pointer \in DOMAIN asked /\ A!FreeCall(plan.pointer)

LEMMA LeftAlloc ==
  ASSUME GlobalInv, NEW t \in Threads, Leave(t), call[t].op = "alloc"
  PROVE  Left(t)
<1> DEFINE plan == call[t]
           a    == plan.granules.align
           s    == plan.granules.size
           ret  == pending[t].ret
<1>1. AP!Inv /\ Prepared(plan) /\ AskedAreServed /\ PendingIsCurrent
  BY DEF GlobalInv, CallsArePrepared
<1>2. a \in Aligns /\ s \in Requests /\ plan.pointer = NULL
      /\ [align |-> a, size |-> s] = granules(plan.layout)
  <2>1. GoodLayout(plan.layout) /\ plan.granules = granules(plan.layout)
    BY <1>1 DEF Prepared
  <2>2. a \in Aligns
    BY <2>1, GoodGranules
  <2> QED BY <1>1, <2>1, <2>2 DEF Prepared, WithPointer, granules, Layout
<1>3. PICK b \in BASES : pending[t] = operation(plan, b)
  BY <1>1 DEF PendingIsCurrent, Leave
<1>4. pending[t] = A!alloc_impl(A!heap, b, a, s)
  BY <1>3 DEF operation
<1>5. ret # NULL => ret \notin DOMAIN asked
  <2>1. pending[t] = AP!alloc_impl(AP!heap, b, a, s) /\ AP!NULL = NULL
    BY <1>4, SameAlloc, SameHeap, SameBins DEF NULL
  <2>2. DOMAIN owned = DOMAIN asked
    BY DEF owned
  <2> QED BY <1>1, <1>2, <2>1, <2>2, NewPointer
<1>6. owned' = IF ret = NULL THEN owned ELSE A!Put(owned, ret, A!Layout(a, s))
  <2>1. asked' = [p \in DOMAIN asked \cup ({ret} \ {NULL}) |->
                    IF p = ret THEN plan.layout ELSE asked[p]]
    BY <1>1, <1>2 DEF Leave, AskedAreServed
  <2>2. CASE ret = NULL
    <3>1. DOMAIN asked' = DOMAIN asked /\ \A p \in DOMAIN asked : asked'[p] = asked[p]
      BY <1>1, <2>1, <2>2 DEF AskedAreServed
    <3> QED BY <2>2, <3>1 DEF owned
  <2>3. CASE ret # NULL
    <3>1. /\ DOMAIN asked' = DOMAIN asked \cup {ret} /\ asked'[ret] = plan.layout
          /\ \A p \in DOMAIN asked : p # ret => asked'[p] = asked[p]
      BY <2>1, <2>3
    <3>2. owned' = [p \in DOMAIN asked \cup {ret} |->
                      IF p = ret THEN [align |-> a, size |-> s] ELSE owned[p]]
      BY <1>2, <3>1 DEF owned
    <3>3. DOMAIN owned = DOMAIN asked
      BY DEF owned
    <3> QED BY <2>3, <3>2, <3>3 DEF A!Put, A!Layout
  <2> QED BY <2>2, <2>3
<1>7. A!Alloc(a, s, b)
  BY <1>4, <1>6 DEF A!Alloc, Leave, NULL
<1> QED BY <1>2, <1>5, <1>7 DEF Left

LEMMA LeftFree ==
  ASSUME GlobalInv, NEW t \in Threads, Leave(t), call[t].op = "free"
  PROVE  Left(t)
<1> DEFINE plan == call[t]
           ret  == pending[t].ret
<1>1. /\ AskedAreServed /\ PendingIsCurrent
      /\ plan.pointer \in DOMAIN asked
  BY DEF GlobalInv, PointersAreHeld, WithPointer
<1>2. PICK b \in BASES : pending[t] = operation(plan, b)
  BY <1>1 DEF PendingIsCurrent, Leave
<1>3. /\ pending[t].heap = A!free(A!heap, plan.pointer)
      /\ ret = NULL
  BY <1>2 DEF operation, A!returns
<1>4. owned' = A!Without(owned, plan.pointer)
  <2>1. /\ DOMAIN asked' = DOMAIN asked \ {plan.pointer}
        /\ \A p \in DOMAIN asked' : asked'[p] = asked[p]
    BY <1>1, <1>3 DEF Leave, AskedAreServed
  <2> QED BY <2>1 DEF owned, A!Without
<1>5. A!FreeCall(plan.pointer)
  BY <1>3, <1>4 DEF A!FreeCall, Leave
<1> QED BY <1>1, <1>3, <1>5 DEF Left

LEMMA LeftRealloc ==
  ASSUME GlobalInv, NEW t \in Threads, Leave(t), call[t].op = "realloc"
  PROVE  Left(t)
<1> DEFINE plan == call[t]
           a    == plan.granules.align
           s    == plan.granules.size
           ret  == pending[t].ret
<1>1. /\ AP!Inv /\ Prepared(plan) /\ AskedAreServed /\ PendingIsCurrent
      /\ plan.pointer \in DOMAIN asked
      /\ plan.layout.align \in {1, asked[plan.pointer].align}
  BY DEF GlobalInv, CallsArePrepared, PointersAreHeld, WithPointer
<1>2. /\ a \in Aligns /\ s \in Requests /\ s # 0
      /\ [align |-> a, size |-> s] = granules(plan.layout)
      /\ a = from_bytes_usize(plan.layout.align)
  <2>1. GoodLayout(plan.layout) /\ plan.granules = granules(plan.layout)
    BY <1>1 DEF Prepared
  <2>2. a \in Aligns
    BY <2>1, GoodGranules
  <2>3. a = from_bytes_usize(plan.layout.align) /\ s = from_bytes_usize(plan.layout.size)
    BY <2>1 DEF granules, Layout
  <2>4. s # 0
    <3>1. plan.layout.size \in Nat /\ plan.layout.size # 0 /\ Sized(plan.layout.size)
      BY <1>1, <2>1 DEF Prepared, GoodLayout
    <3> QED BY <2>3, <3>1, FromBytes
  <2> QED BY <1>1, <2>1, <2>2, <2>3, <2>4 DEF Prepared, granules, Layout
<1>3. PICK b \in BASES : pending[t] = operation(plan, b)
  BY <1>1 DEF PendingIsCurrent, Leave
<1>4. pending[t] = A!realloc(A!heap, plan.pointer, a, s)
  BY <1>3 DEF operation
<1>5. DOMAIN owned = DOMAIN asked /\ a \in {1, owned[plan.pointer].align}
  <2>1. owned[plan.pointer].align = from_bytes_usize(asked[plan.pointer].align)
    BY <1>1 DEF owned, granules, Layout
  <2> QED BY <1>1, <1>2, <2>1, OneGranule DEF owned
<1>6. owned' = IF ret # NULL
                 THEN A!Put(A!Without(owned, plan.pointer), ret, A!Layout(a, s))
               ELSE owned
  <2>1. CASE ret = NULL
    <3>1. asked' = [p \in DOMAIN asked |-> IF p = ret THEN plan.layout ELSE asked[p]]
      BY <2>1 DEF Leave
    <3>2. DOMAIN asked' = DOMAIN asked /\ \A p \in DOMAIN asked : asked'[p] = asked[p]
      BY <1>1, <2>1, <3>1 DEF AskedAreServed
    <3> QED BY <2>1, <3>2 DEF owned
  <2>2. CASE ret # NULL
    <3>1. asked' = [p \in (DOMAIN asked \ {plan.pointer}) \cup {ret} |->
                      IF p = ret THEN plan.layout ELSE asked[p]]
      BY <2>2 DEF Leave
    <3>2. owned' = [p \in (DOMAIN asked \ {plan.pointer}) \cup {ret} |->
                      IF p = ret THEN [align |-> a, size |-> s] ELSE owned[p]]
      BY <1>2, <3>1 DEF owned
    <3>3. /\ DOMAIN A!Without(owned, plan.pointer) = DOMAIN asked \ {plan.pointer}
          /\ \A p \in DOMAIN asked \ {plan.pointer} :
               A!Without(owned, plan.pointer)[p] = owned[p]
      BY <1>5 DEF A!Without
    <3> QED BY <2>2, <3>2, <3>3 DEF A!Put, A!Layout
  <2> QED BY <2>1, <2>2
<1>7. A!Realloc(plan.pointer, a, s)
  BY <1>2, <1>4, <1>5, <1>6 DEF A!Realloc, Leave, NULL
<1>8. ret \notin {NULL, plan.pointer} => ret \notin DOMAIN asked
  <2>1. pending[t] = AP!realloc(AP!heap, plan.pointer, a, s) /\ AP!NULL = NULL
    BY <1>4, SameRealloc, SameHeap, SameBins DEF NULL
  <2>2. AP!Realloc(plan.pointer, a, s)
    BY <1>7, SameSteps
  <2> QED BY <1>1, <1>2, <1>5, <2>1, <2>2, MovedPointer
<1> QED BY <1>1, <1>2, <1>7, <1>8 DEF Left

LEMMA LeaveLeft ==
  ASSUME GlobalInv, NEW t \in Threads, Leave(t)
  PROVE  Left(t)
<1>1. pc[t] = "holding"
  BY DEF Leave, M!Unlock
<1>2. call[t].op \in Locking
  BY <1>1 DEF GlobalInv, LocksAreTaken
<1> QED BY <1>2, LeftAlloc, LeftRealloc, LeftFree DEF Locking

\* Seen by the Allocator, a thread that leaves is one call.
LEMMA LeftIsCall ==
  ASSUME NEW t \in Threads, Left(t)
  PROVE  A!Next /\ AP!Next
<1>1. DOMAIN owned = DOMAIN asked
  BY DEF owned
<1>2. CASE \E a \in Aligns, s \in Requests, b \in BASES : A!Alloc(a, s, b)
  BY <1>2, SameSteps DEF A!Next, AP!Next
<1>3. CASE \E p \in DOMAIN owned, a \in Aligns, s \in Requests : A!Realloc(p, a, s)
  BY <1>3, SameSteps DEF A!Next, AP!Next
<1>4. CASE \E p \in DOMAIN owned : A!FreeCall(p)
  BY <1>4, SameSteps DEF A!Next, AP!Next
<1> QED BY <1>1, <1>2, <1>3, <1>4 DEF Left

LEMMA LeaveGlobal ==
  ASSUME GlobalInv, NEW t \in Threads, Leave(t)
  PROVE  GlobalInv'
<1> DEFINE plan == call[t]
           ret  == pending[t].ret
           gone == IF plan.op = "free" \/ ret # NULL THEN {plan.pointer} ELSE {}
<1>1. /\ AP!Inv /\ LockInv /\ CallsArePrepared /\ PointersAreHeld /\ PointersAreApart
      /\ AskedAreServed /\ LocksAreTaken /\ PendingIsCurrent /\ DOMAIN reply = Threads
  BY DEF GlobalInv
<1>2. Left(t) /\ Prepared(plan) /\ plan.op \in Locking
  BY <1>1, LeaveLeft DEF CallsArePrepared, Left, Locking
<1>3. AP!Inv'
  BY <1>1, <1>2, LeftIsCall, AllocatorNext
<1>4. LockInv'
  BY <1>1, LockStep DEF Leave
<1>5. /\ DOMAIN call' = Threads /\ call'[t] = NoCall
      /\ \A u \in Threads : u # t => call'[u] = call[u]
  BY <1>1 DEF Leave, CallsArePrepared
<1>6. CallsArePrepared'
  <2>1. \A u \in Threads : Prepared(call'[u])
    BY <1>1, <1>5, NoCallPlan DEF CallsArePrepared
  <2> QED BY <1>5, <2>1 DEF CallsArePrepared, Prepared, GoodLayout
<1>7. asked' = [p \in (DOMAIN asked \ gone) \cup ({ret} \ {NULL}) |->
                  IF p = ret THEN plan.layout ELSE asked[p]]
  BY DEF Leave
<1>8. ret # NULL => plan.op \in {"alloc", "realloc"}
                    /\ (ret \notin DOMAIN asked \/ ret = plan.pointer)
  BY <1>2 DEF Left
<1>9. PointersAreHeld'
  <2>1. ASSUME NEW u \in Threads, u # t, call[u].op \in WithPointer
        PROVE  call[u].pointer \in DOMAIN asked' /\ asked'[call[u].pointer] = asked[call[u].pointer]
    <3>1. call[u].pointer \in DOMAIN asked /\ call[u].pointer # NULL
      BY <1>1, <2>1 DEF PointersAreHeld, CallsArePrepared, Prepared
    <3>2. call[u].pointer # plan.pointer
      BY <1>1, <2>1, <3>1 DEF PointersAreApart
    <3>3. call[u].pointer # ret
      BY <1>8, <3>1, <3>2
    <3> QED BY <1>7, <3>1, <3>2, <3>3
  <2> QED BY <1>1, <1>5, <2>1, NoCallPlan DEF PointersAreHeld, WithPointer
<1>10. PointersAreApart'
  BY <1>1, <1>5, NoCallPlan DEF PointersAreApart
<1>11. AskedAreServed'
  <2>1. ret # NULL => GoodLayout(plan.layout)
    BY <1>2, <1>8 DEF Prepared
  <2>2. \A p \in DOMAIN asked' : GoodLayout(asked'[p])
    BY <1>1, <1>7, <2>1 DEF AskedAreServed
  <2>3. NULL \notin DOMAIN asked'
    BY <1>1, <1>7 DEF AskedAreServed
  <2> QED BY <2>2, <2>3 DEF AskedAreServed
<1>12. /\ pc[t] = "holding" /\ pc'[t] = "outside"
       /\ \A u \in Threads : u # t => pc'[u] = pc[u]
  BY <1>1, LockFacts DEF Leave, M!Unlock
<1>13. LocksAreTaken'
  BY <1>1, <1>5, <1>12, NoCallPlan DEF LocksAreTaken, Locking
<1>14. PendingIsCurrent'
  <2>1. DOMAIN pending \subseteq {t}
    BY <1>1, <1>12, LockFacts DEF PendingIsCurrent
  <2>2. DOMAIN pending' = {}
    BY <2>1 DEF Leave, A!Without
  <2> QED BY <2>2 DEF PendingIsCurrent
<1>15. DOMAIN reply' = Threads
  BY <1>1 DEF Leave
<1> QED BY <1>3, <1>4, <1>6, <1>9, <1>10, <1>11, <1>13, <1>14, <1>15 DEF GlobalInv

LEMMA SameGlobal ==
  ASSUME GlobalInv, UNCHANGED vars
  PROVE  GlobalInv'
<1>1. /\ AP!Inv /\ LockInv /\ CallsArePrepared /\ PointersAreHeld /\ PointersAreApart
      /\ AskedAreServed /\ LocksAreTaken /\ PendingIsCurrent /\ DOMAIN reply = Threads
  BY DEF GlobalInv
<1>2. /\ UNCHANGED <<arena, limit, asked>> /\ UNCHANGED <<arena, limit, pending>>
      /\ UNCHANGED mutex_vars /\ pc' = pc /\ call' = call /\ reply' = reply
  BY DEF vars, mutex_vars
<1>3. AP!Inv' /\ AskedAreServed' /\ LockInv'
  BY <1>1, <1>2, HeapSame, LockSame
<1>4. CallsArePrepared'
  BY <1>1, <1>2 DEF CallsArePrepared, Prepared, GoodLayout
<1>5. PointersAreHeld' /\ PointersAreApart' /\ LocksAreTaken' /\ DOMAIN reply' = Threads
  BY <1>1, <1>2 DEF PointersAreHeld, PointersAreApart, LocksAreTaken
<1>6. PendingIsCurrent'
  <2>1. \A u \in DOMAIN pending : pc[u] = "holding"
    BY <1>1 DEF PendingIsCurrent
  <2> QED BY <1>1, <1>2, <2>1, PendingSame
<1> QED BY <1>3, <1>4, <1>5, <1>6 DEF GlobalInv

LEMMA ChangeLimitGlobal ==
  ASSUME GlobalInv, ChangeLimit
  PROVE  GlobalInv'
<1>1. /\ AP!Inv /\ LockInv /\ CallsArePrepared /\ PointersAreHeld /\ PointersAreApart
      /\ AskedAreServed /\ LocksAreTaken /\ PendingIsCurrent /\ DOMAIN reply = Threads
  BY DEF GlobalInv
<1>2. /\ UNCHANGED mutex_vars /\ pc' = pc /\ call' = call /\ reply' = reply
      /\ pending' = pending /\ asked' = asked /\ DOMAIN pending = {}
  BY DEF ChangeLimit, mutex_vars
<1>3. UNCHANGED owned
  BY <1>2 DEF owned
<1>4. AP!Inv'
  <2>1. AP!ChangeLimit
    BY <1>3 DEF ChangeLimit, AP!ChangeLimit, AP!arena, arena
  <2> QED BY <1>1, <2>1, AllocatorNext DEF AP!Next
<1>5. AskedAreServed' /\ LockInv'
  BY <1>1, <1>2, LockSame DEF AskedAreServed
<1>6. CallsArePrepared'
  BY <1>1, <1>2 DEF CallsArePrepared, Prepared, GoodLayout
<1>7. PointersAreHeld' /\ PointersAreApart' /\ LocksAreTaken' /\ DOMAIN reply' = Threads
  BY <1>1, <1>2 DEF PointersAreHeld, PointersAreApart, LocksAreTaken
<1>8. PendingIsCurrent'
  BY <1>2 DEF PendingIsCurrent
<1> QED BY <1>4, <1>5, <1>6, <1>7, <1>8 DEF GlobalInv

LEMMA NextGlobal == GlobalInv /\ [Next]_vars => GlobalInv'
<1> SUFFICES ASSUME GlobalInv, [Next]_vars PROVE GlobalInv'
  OBVIOUS
<1>1. CASE UNCHANGED vars
  BY <1>1, SameGlobal
<1>2. CASE Next
  BY <1>2, CallGlobal, ReturnGlobal, AcquireGlobal, EnterGlobal, LeaveGlobal,
     ChangeLimitGlobal DEF Next
<1> QED BY <1>1, <1>2

\* The invariant holds in every state that threads can bring the global allocator to.
LEMMA GlobalAlways == Spec => []GlobalInv
  BY InitGlobal, NextGlobal, PTL DEF Spec

-----------------------------------------------------------------------------
(* The theorems.                                                           *)

LEMMA StepIsCall ==
  ASSUME GlobalInv, [Next]_vars
  PROVE  [A!Next]_(A!vars)
<1>1. ASSUME UNCHANGED <<arena, limit, asked>> PROVE UNCHANGED A!vars
  <2>1. UNCHANGED owned
    BY <1>1 DEF owned
  <2> QED BY <1>1, <2>1 DEF A!vars, arena
<1>2. CASE UNCHANGED vars
  BY <1>1, <1>2 DEF vars
<1>3. ASSUME NEW t \in Threads, Call(t) \/ Return(t) \/ Acquire(t) \/ Enter(t)
      PROVE  UNCHANGED A!vars
  BY <1>1, <1>3 DEF Call, Return, Acquire, Enter
<1>4. ASSUME NEW t \in Threads, Leave(t) PROVE A!Next
  BY <1>4, LeaveLeft, LeftIsCall
<1>5. ASSUME ChangeLimit PROVE A!Next
  <2>1. UNCHANGED owned
    BY <1>5 DEF owned, ChangeLimit
  <2>2. A!ChangeLimit
    BY <1>5, <2>1 DEF ChangeLimit, A!ChangeLimit, A!arena, arena
  <2> QED BY <2>2 DEF A!Next
<1> QED BY <1>2, <1>3, <1>4, <1>5 DEF Next

\* However calls of threads interleave, between the conversions they make without the
\* lock, the spinning and the two halves of an operation under the lock, the global
\* allocator behaves as an Allocator called by one client at a time; so what is proved
\* of the Allocator holds of it.
THEOREM ThreadsTakeTurns == Spec => ImplementsAllocator
<1>1. Init => A!Init
  BY DEF Init
<1>2. GlobalInv /\ [Next]_vars => [A!Next]_(A!vars)
  BY StepIsCall
<1> QED BY <1>1, <1>2, GlobalAlways, PTL DEF Spec, ImplementsAllocator, A!Spec

\* A call does not end when it begins.
LEMMA CallEnds ==
  ASSUME GlobalInv, NEW u \in Threads, Call(u), NEW t \in Threads, call[t] # NoCall
  PROVE  call'[t] # NoCall
<1>1. AskedAreServed /\ CallsArePrepared
  BY DEF GlobalInv
<1>2. PICK plan \in Plans(DOMAIN asked \ InUse) : call' = [call EXCEPT ![u] = plan]
  BY DEF Call
<1>3. call[u] = NoCall
  BY DEF Call, Idle
<1> QED BY <1>1, <1>2, <1>3 DEF CallsArePrepared

\* What the client knows is what the heap has.
LiveIsAsked == live = DOMAIN asked /\ live \subseteq Nat

LEMMA LiveAlways == Spec => []LiveIsAsked
<1>1. ASSUME GlobalInv PROVE LiveIsAsked
  <2>1. AP!Inv /\ DOMAIN owned = DOMAIN asked
    BY <1>1 DEF GlobalInv, owned
  <2>2. DOMAIN owned = { AP!pointer_to(c) : c \in AP!Allocated }
    BY <2>1, AP!InvOwners, Assumed
  <2>3. live = { AP!pointer_to(c) : c \in AP!Allocated }
    BY SameBins DEF live, A!pointer_to, AP!pointer_to, A!Allocated, AP!Allocated
  <2>4. ASSUME NEW p \in DOMAIN owned PROVE p \in Nat
    <3> DEFINE chunk == AP!chunk_of(AP!heap, p)
    <3>1. AP!Holding(AP!heap, owned, p, chunk)
      BY <2>1, OwnedByClient
    <3>2. p = AP!heap.base + chunk + 1 /\ chunk \in Nat /\ chunk \in DOMAIN chunks
      BY <3>1 DEF AP!Holding, AP!AllocatedOf, AP!heap
    <3>3. AP!heap.base \in Nat
      BY <2>1, <3>2, AP!ChunkIsNat, Assumed DEF AP!heap
    <3> QED BY <3>2, <3>3
  <2> QED BY <2>1, <2>2, <2>3, <2>4 DEF LiveIsAsked
<1> QED BY <1>1, GlobalAlways, PTL

\* What a client is told when the Allocator has returned ret, or was not asked.
Told(plan, ret, r) ==
  IF ret # NULL
    THEN Succeeded(plan.entry, r) /\ r.pointer = ret /\ r.errno = 0
    ELSE /\ ~Succeeded(plan.entry, r)
         /\ r.pointer \in {NULL, Unwritten}
         /\ plan.entry = "posix_memalign" => r.pointer = Unwritten
         /\ plan.entry \notin {"posix_memalign", "GlobalAlloc"} => r.errno \in {ENOMEM, EINVAL}

LEMMA ReturnedTells ==
  ASSUME NEW plan, Prepared(plan), plan.entry \in CallsForMemory,
         NEW ret, ret # Unwritten, plan.op = "fail" => ret = NULL
  PROVE  Told(plan, ret, returned(plan, ret))
<1> USE DEF ENOMEM, EINVAL, Unwritten
<1>1. NULL = -1 /\ \A p, c, e : /\ Reply(p, c, e).pointer = p
                               /\ Reply(p, c, e).code = c
                               /\ Reply(p, c, e).errno = e
  BY DEF NULL, A!NULL, Reply
<1>2. plan.op = "fail" /\ plan.entry # "GlobalAlloc" => plan.error \in {ENOMEM, EINVAL}
  BY DEF Prepared
<1>3. LET r == posix_memalign_returns(plan, ret)
      IN  plan.entry # "GlobalAlloc" =>
            IF ret # NULL THEN r.pointer = ret /\ r.code = 0 /\ r.errno = 0
            ELSE r.pointer = Unwritten /\ r.code \in {ENOMEM, EINVAL} /\ r.errno = 0
  BY <1>1, <1>2 DEF posix_memalign_returns
<1>4. CASE plan.entry = "posix_memalign"
  <2>1. returned(plan, ret) = posix_memalign_returns(plan, ret)
    BY <1>4 DEF returned
  <2> QED BY <1>3, <1>4, <2>1 DEF Told, Succeeded
<1>5. CASE plan.entry = "aligned_alloc"
  <2>1. returned(plan, ret) = aligned_alloc_returns(plan, ret)
    BY <1>5 DEF returned
  <2>2. LET r == aligned_alloc_returns(plan, ret)
        IN  IF ret # NULL THEN r.pointer = ret /\ r.errno = 0
            ELSE r.pointer = NULL /\ r.errno \in {ENOMEM, EINVAL}
    BY <1>1, <1>3, <1>5 DEF aligned_alloc_returns
  <2> QED BY <1>5, <2>1, <2>2 DEF Told, Succeeded
<1>6. CASE plan.entry = "calloc"
  <2>1. returned(plan, ret) = calloc_returns(plan, ret)
    BY <1>6 DEF returned
  <2> QED BY <1>1, <1>2, <1>6, <2>1 DEF calloc_returns, Told, Succeeded
<1>7. CASE plan.entry = "realloc"
  <2>1. returned(plan, ret) = realloc_returns(plan, ret)
    BY <1>7 DEF returned
  <2> QED BY <1>1, <1>2, <1>7, <2>1 DEF realloc_returns, Told, Succeeded
<1>8. CASE plan.entry = "GlobalAlloc"
  <2>1. returned(plan, ret) = rust_returns(ret)
    BY <1>8 DEF returned
  <2> QED BY <1>1, <1>8, <2>1 DEF rust_returns, Told, Succeeded
<1> QED BY <1>4, <1>5, <1>6, <1>7, <1>8 DEF CallsForMemory

LEMMA ReturnedQuietly ==
  ASSUME NEW plan, plan.entry \notin CallsForMemory, NEW ret
  PROVE  returned(plan, ret).errno = 0
  BY DEF returned, CallsForMemory, Reply

LEMMA ReturnTruth ==
  ASSUME GlobalInv, LiveIsAsked, LiveIsAsked', NEW t \in Threads, Return(t)
  PROVE  ReplyIsTrue(t)
<1> DEFINE plan == call[t]
<1>1. /\ Prepared(plan) /\ plan.op \in {"fail", "nothing", "usable_size"}
      /\ reply'[t] = returned(plan, NULL)
      /\ live' = live
  BY DEF GlobalInv, CallsArePrepared, Return, LiveIsAsked
<1>2. CASE plan.entry \notin CallsForMemory
  BY <1>1, <1>2, ReturnedQuietly DEF ReplyIsTrue
<1>3. CASE plan.entry \in CallsForMemory
  <2>1. NULL # Unwritten
    BY DEF NULL, A!NULL, Unwritten
  <2>2. Told(plan, NULL, reply'[t])
    BY <1>1, <1>3, <2>1, ReturnedTells
  <2> QED BY <1>1, <1>3, <2>2 DEF ReplyIsTrue, Told
<1> QED BY <1>2, <1>3

LEMMA LeaveTruth ==
  ASSUME GlobalInv, LiveIsAsked, LiveIsAsked', NEW t \in Threads, Leave(t)
  PROVE  ReplyIsTrue(t)
<1> DEFINE plan == call[t]
           ret  == pending[t].ret
<1>1. /\ Left(t) /\ Prepared(plan) /\ plan.op \in Locking /\ AskedAreServed
      /\ reply'[t] = returned(plan, ret)
  BY LeaveLeft DEF GlobalInv, CallsArePrepared, Left, Locking, Leave
<1>2. /\ live = DOMAIN asked /\ live' = DOMAIN asked' /\ live' \subseteq Nat
      /\ NULL \notin live
  BY <1>1 DEF LiveIsAsked, AskedAreServed
<1>3. live' = (live \ (IF plan.op = "free" \/ ret # NULL THEN {plan.pointer} ELSE {}))
                \cup ({ret} \ {NULL})
  BY <1>2 DEF Leave
<1>4. CASE plan.op = "free"
  <2>1. ret = NULL /\ plan.entry \notin CallsForMemory
    BY <1>1, <1>4 DEF Left, Prepared
  <2>2. live' = live \ {plan.pointer}
    BY <1>3, <1>4, <2>1
  <2> QED BY <1>1, <1>4, <2>1, <2>2, ReturnedQuietly DEF ReplyIsTrue
<1>5. CASE plan.op \in {"alloc", "realloc"}
  <2>1. plan.entry \in CallsForMemory /\ plan.op # "free" /\ plan.op # "fail"
    BY <1>1, <1>5 DEF Prepared
  <2>2. ret # Unwritten
    <3>1. CASE ret = NULL
      BY <3>1 DEF NULL, A!NULL, Unwritten
    <3>2. CASE ret # NULL
      BY <1>2, <1>3, <3>2 DEF Unwritten
    <3> QED BY <3>1, <3>2
  <2>3. Told(plan, ret, reply'[t])
    BY <1>1, <2>1, <2>2, ReturnedTells
  <2>4. ret \in live => ret = plan.pointer
    BY <1>1, <1>2, <1>5 DEF Left
  <2>5. CASE ret = NULL
    BY <1>2, <1>3, <2>1, <2>3, <2>5 DEF ReplyIsTrue, Told
  <2>6. CASE ret # NULL
    BY <1>2, <1>3, <2>1, <2>3, <2>4, <2>6 DEF ReplyIsTrue, Told
  <2> QED BY <2>5, <2>6
<1> QED BY <1>1, <1>4, <1>5 DEF Locking

\* Whatever path a call takes through the front ends, its client is told what has
\* happened to the heap: a pointer stands for exactly one new chunk, a failure for an
\* unchanged heap, and a C client finds the reason where its function promises it.
THEOREM ClientsAreToldTheTruth == Spec => RepliesTellTheTruth
<1>1. ASSUME GlobalInv, LiveIsAsked, LiveIsAsked', Next, NEW t \in Threads, ~Idle(t), Idle(t)'
      PROVE  ReplyIsTrue(t)
  <2>1. DOMAIN call = Threads /\ call[t] # NoCall /\ call'[t] = NoCall
    BY <1>1 DEF GlobalInv, CallsArePrepared, Idle, NoCall, Plan, granules, Layout
  <2>2. ASSUME NEW u \in Threads, Call(u) PROVE FALSE
    BY <1>1, <2>1, <2>2, CallEnds
  <2>3. ASSUME NEW u \in Threads, Acquire(u) \/ Enter(u) \/ ChangeLimit PROVE FALSE
    BY <2>1, <2>3 DEF Acquire, Enter, ChangeLimit
  <2>4. ASSUME NEW u \in Threads, Return(u) PROVE u = t
    BY <2>1, <2>4 DEF Return
  <2>5. ASSUME NEW u \in Threads, Leave(u) PROVE u = t
    BY <2>1, <2>5 DEF Leave
  <2> QED BY <1>1, <2>2, <2>3, <2>4, <2>5, ReturnTruth, LeaveTruth DEF Next
<1> DEFINE Ended == \A t \in Threads : ~Idle(t) /\ Idle(t)' => ReplyIsTrue(t)
<1>2. GlobalInv /\ LiveIsAsked /\ LiveIsAsked' /\ [Next]_vars => [Ended]_vars
  BY <1>1
<1> QED BY <1>2, GlobalAlways, LiveAlways, PTL
        DEF Spec, RepliesTellTheTruth

\* Every live pointer is aligned as its client asked in bytes, and has at least the bytes
\* that were asked for, although the allocator knows granules only.
THEOREM BytesAreServed == Spec => []ServedAsAsked
<1>1. ASSUME GlobalInv, NEW p \in DOMAIN asked
      PROVE  /\ (p * GRANULARITY) % asked[p].align = 0
             /\ A!usable_size_impl(A!heap, p) * GRANULARITY >= asked[p].size
  <2> DEFINE align == asked[p].align
             size  == asked[p].size
             chunk == AP!chunk_of(AP!heap, p)
  <2>1. AP!Inv /\ GoodLayout(asked[p]) /\ p \in DOMAIN owned
    BY <1>1 DEF GlobalInv, AskedAreServed, owned
  <2>2. /\ owned[p].align = from_bytes_usize(align)
        /\ owned[p].size = from_bytes_usize(size)
    BY <1>1 DEF owned, granules, Layout
  <2>3. /\ align \in Nat \ {0} /\ Sized(align) /\ size \in Nat /\ Sized(size)
        /\ GRANULARITY % align = 0 \/ align % GRANULARITY = 0
    <3>1. align \in AlignBytes \cup {1, POINTER_SIZE, CALLOC_ALIGN} /\ align # 0
      BY <2>1 DEF GoodLayout
    <3>2. align \in Nat
      BY <3>1, GlobalConstants
    <3> QED BY <2>1, <3>1, <3>2 DEF GoodLayout
  <2>4. AP!Holding(AP!heap, owned, p, chunk)
    BY <2>1, OwnedByClient
  <2>5. /\ p = AP!heap.base + chunk + 1 /\ chunk \in Nat
        /\ AP!heap.chunks[chunk].size = owned[p].size + 1
        /\ p % owned[p].align = 0
    BY <2>4 DEF AP!Holding
  <2>6. p \in Nat
    <3>1. chunk \in DOMAIN chunks
      BY <2>4 DEF AP!Holding, AP!AllocatedOf, AP!heap
    <3>2. AP!heap.base \in Nat
      BY <2>1, <3>1, AP!ChunkIsNat, Assumed DEF AP!heap
    <3> QED BY <2>5, <3>2
  <2>7. (p * GRANULARITY) % align = 0
    BY <2>2, <2>3, <2>5, <2>6, AlignedInBytes
  <2>8. A!usable_size_impl(A!heap, p) = from_bytes_usize(size)
    <3>1. A!usable_size_impl(A!heap, p) = AP!usable_size_impl(AP!heap, p)
      BY SameRealloc, SameHeap
    <3>2. from_bytes_usize(size) \in Nat
      BY <2>3, FromBytes
    <3> QED BY <2>2, <2>5, <3>1, <3>2 DEF AP!usable_size_impl, AP!HEADER_SIZE
  <2>9. from_bytes_usize(size) * GRANULARITY >= size
    BY <2>3, FromBytes
  <2> QED BY <2>7, <2>8, <2>9
<1>2. GlobalInv => ServedAsAsked
  BY <1>1 DEF ServedAsAsked
<1> QED BY <1>2, GlobalAlways, PTL

\* malloc_usable_size may read its header without the lock: whatever another thread's
\* operation is doing to the heap, it does not write the word that is read.
THEOREM UsableSizeNeedsNoLock == Spec => []UnlockedReadIsStable
<1>1. ASSUME GlobalInv, NEW t \in Threads, NEW u \in DOMAIN pending,
             call[t].op = "usable_size"
      PROVE  LET c == A!chunk_of(A!heap, call[t].pointer)
             IN  /\ c \in DOMAIN pending[u].heap.chunks
                 /\ \A f \in header_fields_read : pending[u].heap.chunks[c][f] = chunks[c][f]
  <2> DEFINE p    == call[t].pointer
             plan == call[u]
             c    == AP!chunk_of(AP!heap, p)
             g    == pending[u].heap
  <2>1. /\ AP!Inv /\ u \in Threads /\ Prepared(plan) /\ Prepared(call[t])
        /\ p \in DOMAIN asked /\ DOMAIN owned = DOMAIN asked
        /\ plan.op \in Locking
    BY <1>1
    DEF GlobalInv, CallsArePrepared, PendingIsCurrent, PointersAreHeld, WithPointer, owned,
        LocksAreTaken
  <2>2. t # u /\ p # plan.pointer
    BY <1>1, <2>1
    DEF GlobalInv, Locking, PointersAreApart, Prepared, WithPointer
  <2>3. p = AP!heap.base + c + 1 /\ c \in Nat /\ c \in AP!Allocated
    BY <2>1, OwnedByClient DEF AP!Holding, AP!AllocatedOf, AP!heap, AP!Allocated
  <2>4. PICK b \in BASES : pending[u] = operation(plan, b)
    BY <1>1 DEF GlobalInv, PendingIsCurrent
  <2>5. ASSUME plan.op \in {"free", "realloc"}
        PROVE  plan.pointer \in DOMAIN owned /\ c # AP!chunk_of(AP!heap, plan.pointer)
    <3>1. plan.pointer \in DOMAIN owned
      BY <1>1, <2>1, <2>5 DEF GlobalInv, PointersAreHeld, WithPointer
    <3>2. plan.pointer = AP!heap.base + AP!chunk_of(AP!heap, plan.pointer) + 1
      BY <2>1, <3>1, OwnedByClient DEF AP!Holding
    <3> QED BY <2>2, <2>3, <3>1, <3>2
  <2>6. AP!StillThere(g, AP!heap, c)
    <3>1. CASE plan.op = "alloc"
      <4>1. plan.granules.align \in Aligns /\ plan.granules.size \in Requests
        BY <2>1, <3>1, GoodGranules DEF Prepared, granules, Layout
      <4>2. pending[u] = AP!alloc_impl(AP!heap, b, plan.granules.align, plan.granules.size)
        BY <2>4, <3>1, SameAlloc, SameHeap DEF operation
      <4> QED BY <2>1, <2>3, <4>1, <4>2, KeptByAlloc
    <3>2. CASE plan.op = "realloc"
      <4>1. plan.granules.align \in Aligns /\ plan.granules.size \in Requests
        BY <2>1, <3>2, GoodGranules DEF Prepared, granules, Layout
      <4>2. pending[u] = AP!realloc(AP!heap, plan.pointer, plan.granules.align,
                                    plan.granules.size)
        BY <2>4, <3>2, SameRealloc, SameHeap DEF operation
      <4>3. plan.granules.align \in {1, owned[plan.pointer].align}
        <5>1. plan.layout.align \in {1, asked[plan.pointer].align}
          BY <1>1, <2>1, <3>2 DEF GlobalInv, PointersAreHeld
        <5>2. plan.granules.align = from_bytes_usize(plan.layout.align)
          BY <2>1 DEF Prepared, granules, Layout
        <5>3. owned[plan.pointer].align = from_bytes_usize(asked[plan.pointer].align)
          BY <2>1, <2>5, <3>2 DEF owned, granules, Layout
        <5> QED BY <5>1, <5>2, <5>3, OneGranule
      <4> QED BY <2>1, <2>3, <2>5, <3>2, <4>1, <4>2, <4>3, KeptByRealloc
    <3>3. CASE plan.op = "free"
      <4>1. g = AP!free(AP!heap, plan.pointer)
        BY <2>4, <3>3, SameRealloc, SameHeap DEF operation, A!returns
      <4> QED BY <2>1, <2>3, <2>5, <3>3, <4>1, KeptByFree
    <3> QED BY <2>1, <3>1, <3>2, <3>3 DEF Locking
  <2>7. /\ c \in DOMAIN g.chunks /\ g.chunks[c].size = chunks[c].size
        /\ g.chunks[c].allocated /\ chunks[c].allocated
    BY <2>3, <2>6 DEF AP!StillThere, AP!AllocatedOf, AP!heap, AP!Allocated
  <2>8. A!chunk_of(A!heap, p) = c
    BY SameRealloc, SameHeap
  <2>9. g.chunks[c]["size"] = chunks[c]["size"]
    BY <2>7
  <2>10. g.chunks[c]["allocated"] = chunks[c]["allocated"]
    <3>1. c \in AP!AllocatedOf(AP!heap.chunks) /\ AP!Sound(AP!heap)
      BY <2>1, OwnedByClient DEF AP!Holding
    <3>2. c \in AP!AllocatedOf(g.chunks) /\ AP!Sound(g)
      BY <2>6 DEF AP!StillThere
    <3>3. AP!heap.chunks[c].allocated = TRUE /\ g.chunks[c].allocated = TRUE
      BY <3>1, <3>2, AP!AllocatedIsTrue, Assumed
    <3>4. AP!heap.chunks = chunks
      BY DEF AP!heap
    <3> QED BY <3>3, <3>4
  <2> HIDE DEF c, g, p
  <2>11. \A f \in header_fields_read : g.chunks[c][f] = chunks[c][f]
    BY <2>9, <2>10 DEF header_fields_read
  <2> QED BY <2>7, <2>8, <2>11 DEF g, p
<1>2. GlobalInv => UnlockedReadIsStable
  BY <1>1 DEF UnlockedReadIsStable
<1> QED BY <1>2, GlobalAlways, PTL

=============================================================================
