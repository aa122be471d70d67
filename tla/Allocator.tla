----------------------------- MODULE Allocator -----------------------------
(***************************************************************************)
(* picoalloc's Allocator: an arena cut into chunks by boundary tags, the   *)
(* free chunks threaded onto doubly linked lists, one per size class.      *)
(*                                                                         *)
(* Sizes and offsets count granules of ALLOCATION_GRANULARITY (32) bytes.  *)
(* A chunk is named by the offset of its header from base_address; every   *)
(* header fills one granule, so the pointer a client holds is the granule  *)
(* after it.  The words the code keeps inside the arena are two partial    *)
(* functions: chunks (the ChunkHeader at an offset) and links (the rest of *)
(* the FreeChunkHeader, for chunks that are in a free list).  Words left   *)
(* behind when a chunk is merged or handed out are dead and are dropped,   *)
(* so a read of one is an error.                                           *)
(***************************************************************************)
EXTENDS BitMask, Integers

CONSTANTS
  TOTAL_SPACE,      \* env.total_space()
  BASES,            \* what env.allocate_address_space() may return (0 is null)
  LIMITS,           \* how far env.expand_memory_until() may agree to go
  Aligns,           \* the alignments clients ask for
  Requests,         \* the sizes clients ask for
  ShrinkRequests,   \* the sizes clients shrink an allocation to
  REALLOC_INPLACE   \* the cargo feature realloc_inplace

ASSUME AllocatorConstants ==
  /\ TOTAL_SPACE \in 1 .. SIZE_MAX - 1
  /\ BASES \subseteq Nat
  /\ LIMITS \subseteq Nat
  /\ Aligns \subseteq 0 .. SIZE_MAX
  /\ Requests \subseteq 0 .. SIZE_MAX
  /\ ShrinkRequests \subseteq 0 .. SIZE_MAX
  /\ REALLOC_INPLACE \in BOOLEAN

HEADER_SIZE            == 1
FREE_CHUNK_HEADER_SIZE == 1
NULL                   == -1

VARIABLES
  base_address,     \* 0 until the arena is initialised
  allocated_space,  \* the prefix of the arena the environment has committed
  free_lists_with_unallocated_memory,
  first_in_free_list,
  chunks,           \* offset -> ChunkHeader
  links,            \* offset -> the list pointers of a FreeChunkHeader
  limit,            \* external: how much the environment would commit now
  owned             \* external: pointer -> the layout its client was promised

arena == <<base_address, allocated_space, free_lists_with_unallocated_memory,
           first_in_free_list, chunks, links>>
vars  == <<base_address, allocated_space, free_lists_with_unallocated_memory,
           first_in_free_list, chunks, links, limit, owned>>

\* The fields the operations work on, as one value: an operation of the code is
\* an operator from the heap before to the heap after.
heap ==
  [ base   |-> base_address,
    space  |-> allocated_space,
    mask   |-> free_lists_with_unallocated_memory,
    first  |-> first_in_free_list,
    chunks |-> chunks,
    links  |-> links ]

BecomeHeap(h) ==
  /\ base_address'                       = h.base
  /\ allocated_space'                    = h.space
  /\ free_lists_with_unallocated_memory' = h.mask
  /\ first_in_free_list'                 = h.first
  /\ chunks'                             = h.chunks
  /\ links'                              = h.links

-----------------------------------------------------------------------------
Put(f, key, value) == [x \in DOMAIN f \cup {key} |-> IF x = key THEN value ELSE f[x]]
Without(f, key)    == [x \in DOMAIN f \ {key} |-> f[x]]

Chunk(prev_chunk_size, size, allocated) ==
  [prev_chunk_size |-> prev_chunk_size, size |-> size, allocated |-> allocated]

Link(next_in_list, prev_in_list) ==
  [next_in_list |-> next_in_list, prev_in_list |-> prev_in_list]

is_power_of_two(n) == n # 0 /\ n = 2^HighestBit(n)

\* Mutant of align_offset: the offset is aligned, the address is not.
align_offset_only(x, a, b) == ((x + a - 1) \div a) * a

\* The least offset at or after x that is aligned as an address.
align_offset(x, a, b) == ((b + x + a - 1) \div a) * a - b

-----------------------------------------------------------------------------
(* The free lists.                                                         *)

\* Mutant of unregister_free_space_first_chunk: the rest of the list is dropped.
empty_free_list(h, chunk, bin) ==
  [h EXCEPT !.first[bin] = NULL,
            !.mask  = bitmask_unset(@, bitmask_index(bin)),
            !.links = Without(@, chunk)]

unregister_free_space_first_chunk(h, chunk, bin) ==
  LET next == h.links[chunk].next_in_list
      rest == Without(h.links, chunk)
  IN  [h EXCEPT
        !.first[bin] = next,
        !.mask  = IF next = NULL THEN bitmask_unset(@, bitmask_index(bin)) ELSE @,
        !.links = IF next = NULL THEN rest
                  ELSE [rest EXCEPT ![next].prev_in_list = NULL]]

\* Mutant of unregister_free_space: the next chunk still points back to this one.
unregister_one_way(h, chunk, bin) ==
  LET next == h.links[chunk].next_in_list
      prev == h.links[chunk].prev_in_list
  IN  IF h.first[bin] = chunk
        THEN unregister_free_space_first_chunk(h, chunk, bin)
        ELSE [h EXCEPT !.links = [Without(@, chunk) EXCEPT ![prev].next_in_list = next]]

unregister_free_space(h, chunk, bin) ==
  LET next   == h.links[chunk].next_in_list
      prev   == h.links[chunk].prev_in_list
      rest   == Without(h.links, chunk)
      joined == [rest EXCEPT ![prev].next_in_list = next]
  IN  IF h.first[bin] = chunk
        THEN unregister_free_space_first_chunk(h, chunk, bin)
        ELSE [h EXCEPT !.links = IF next = NULL THEN joined
                                 ELSE [joined EXCEPT ![next].prev_in_list = prev]]

\* A chunk is pushed in front of its list; nothing is registered for size 0.
register_free_space(h, chunk, prev_chunk_size, size) ==
  LET bin  == size_to_bin_round_down(size)
      next == h.first[bin]
      rest == IF next = NULL THEN h.links
              ELSE [h.links EXCEPT ![next].prev_in_list = chunk]
  IN  IF size = 0 THEN h
      ELSE [h EXCEPT
             !.first[bin] = chunk,
             !.chunks = Put(@, chunk, Chunk(prev_chunk_size, size, FALSE)),
             !.links  = Put(rest, chunk, Link(next, NULL)),
             !.mask   = bitmask_set(@, bitmask_index(bin))]

register_allocation(h, chunk, prev_chunk_size, size) ==
  [h EXCEPT !.chunks = Put(@, chunk, Chunk(prev_chunk_size, size, TRUE))]

\* Mutant of set_prev_chunk_size: the chunk after is left alone.
keep_prev_chunk_size(h, final_chunk, prev_chunk_size) == h

\* The back pointer of the chunk at the end of what was just rewritten, unless
\* that is the end of the address space.
set_prev_chunk_size(h, final_chunk, prev_chunk_size) ==
  IF final_chunk < TOTAL_SPACE
    THEN [h EXCEPT !.chunks[final_chunk].prev_chunk_size = prev_chunk_size]
    ELSE h

-----------------------------------------------------------------------------
(* Operations: the heap after, and what the caller gets.                   *)

returns(h, value) == [heap |-> h, ret |-> value]

expand_memory_until(size) == size <= limit

\* Commits memory up to end_offset; callers have asked the environment.
committed(h, end_offset) ==
  IF h.space < end_offset THEN [h EXCEPT !.space = end_offset] ELSE h

\* initialize: the arena becomes one free chunk, of which only the header is
\* committed.  new_base is the answer of allocate_address_space.
can_initialize(h, new_base) ==
  h.base # 0 \/ (new_base # 0 /\ expand_memory_until(FREE_CHUNK_HEADER_SIZE))

initialize(h, new_base) ==
  LET bin == size_to_bin_round_down(TOTAL_SPACE)
  IN  IF h.base # 0 THEN h
      ELSE [h EXCEPT
             !.base   = new_base,
             !.space  = FREE_CHUNK_HEADER_SIZE,
             !.mask   = bitmask_set(@, bitmask_index(bin)),
             !.first[bin] = 0,
             !.chunks = Put(@, 0, Chunk(0, TOTAL_SPACE, FALSE)),
             !.links  = Put(@, 0, Link(NULL, NULL))]

\* The bin to allocate from: the first with chunks that all fit, else perhaps the
\* one below it, whose chunks may or may not.
find_bin(h, min_size) ==
  LET fitting == find_first(h.mask, bitmask_index(size_to_bin_round_up(min_size)))
  IN  IF fitting # None THEN fitting
      ELSE find_first(h.mask, bitmask_index(size_to_bin_round_down(min_size)))

\* The space a request may need.  The code adds with checked_add and refuses a
\* sum above SIZE_MAX; here the sum is exact and above MAX_ALLOCATION_SIZE.
min_size_for(align, requested_size) == requested_size + HEADER_SIZE + (align - 1)

\* The head of the bin is the only chunk that is considered.
has_chunk_for(h, align, requested_size) ==
  LET min_size == min_size_for(align, requested_size)
      bin      == find_bin(h, min_size)
  IN  /\ min_size <= MAX_ALLOCATION_SIZE
      /\ bin # None
      /\ h.chunks[h.first[bin.index]].size >= min_size

\* Mutants of end_offset_for: room for a header even where the arena ends; no room
\* for the header of what remains.
end_offset_with_header(end, remaining) == end + FREE_CHUNK_HEADER_SIZE
end_offset_without_header(end, remaining) == end

\* What must be committed: up to `end`, and the header of the free space behind it.
end_offset_for(end, remaining) ==
  IF remaining = 0 THEN end ELSE end + FREE_CHUNK_HEADER_SIZE

\* Mutant of free_space_after: the alignment gap is counted twice.
free_space_with_gap(chunk_size, requested_size, lhs) ==
  chunk_size - requested_size - HEADER_SIZE

free_space_after(chunk_size, requested_size, lhs) ==
  chunk_size - requested_size - lhs - HEADER_SIZE

\* Where the allocation goes in the chunk, and what remains on both sides of it.
placement(h, chunk, align, requested_size) ==
  LET data_offset   == align_offset(chunk + HEADER_SIZE, align, h.base)
      header_offset == data_offset - HEADER_SIZE
      lhs           == header_offset - chunk
      rhs           == free_space_after(h.chunks[chunk].size, requested_size, lhs)
  IN  [ header |-> header_offset,
        lhs    |-> lhs,
        rhs    |-> rhs,
        end_offset |-> end_offset_for(data_offset + requested_size, rhs) ]

\* Cuts the chunk at the head of bin into free space, allocation, free space.
carve(h, bin, at, requested_size) ==
  LET chunk   == h.first[bin]
      before  == h.chunks[chunk].prev_chunk_size
      size    == requested_size + HEADER_SIZE
      next    == at.header + size
      taken   == unregister_free_space_first_chunk(committed(h, at.end_offset), chunk, bin)
      left    == register_free_space(taken, chunk, before, at.lhs)
      middle  == register_allocation(left, at.header,
                                     IF at.lhs = 0 THEN before ELSE at.lhs, size)
      right   == register_free_space(middle, next, size, at.rhs)
  IN  set_prev_chunk_size(right, next + at.rhs, IF at.rhs = 0 THEN size ELSE at.rhs)

alloc_initialized(h, align, requested_size) ==
  LET bin == find_bin(h, min_size_for(align, requested_size)).index
      at  == placement(h, h.first[bin], align, requested_size)
  IN  IF /\ has_chunk_for(h, align, requested_size)
         /\ h.space < at.end_offset => expand_memory_until(at.end_offset)
        THEN returns(carve(h, bin, at, requested_size), h.base + at.header + HEADER_SIZE)
        ELSE returns(h, NULL)

\* A bad alignment is refused before the arena is initialised; an arena that was
\* initialised stays so when the allocation then fails.
alloc_impl(h, new_base, align, requested_size) ==
  IF is_power_of_two(align) /\ can_initialize(h, new_base)
    THEN alloc_initialized(initialize(h, new_base), align, requested_size)
    ELSE returns(h, NULL)

-----------------------------------------------------------------------------
chunk_of(h, pointer) == pointer - h.base - HEADER_SIZE

\* Mutant of usable_size_impl: the header is counted as usable.
usable_size_with_header(h, pointer) == h.chunks[chunk_of(h, pointer)].size

usable_size_impl(h, pointer) == h.chunks[chunk_of(h, pointer)].size - HEADER_SIZE

\* Mutant of unregister: the bin a request of that size would search.
unregister_round_up(h, chunk) ==
  unregister_free_space(h, chunk, size_to_bin_round_up(h.chunks[chunk].size))

\* Takes a free chunk out of its list to merge it; its header becomes dead.
unregister(h, chunk) ==
  unregister_free_space(h, chunk, size_to_bin_round_down(h.chunks[chunk].size))
forget(h, chunk)     == [h EXCEPT !.chunks = Without(@, chunk)]

\* Mutant of is_free: a chunk in the last granule is taken for the end.
is_free_before_last(h, chunk) == chunk < TOTAL_SPACE - 1 /\ ~h.chunks[chunk].allocated

\* Is there a free chunk at this offset?
is_free(h, chunk) == chunk < TOTAL_SPACE /\ ~h.chunks[chunk].allocated

free(h, pointer) ==
  LET chunk   == chunk_of(h, pointer)
      own     == h.chunks[chunk]
      prev    == chunk - own.prev_chunk_size
      next    == chunk + own.size
      h1      == IF chunk # 0 /\ is_free(h, prev) THEN forget(unregister(h, prev), chunk) ELSE h
      start   == IF chunk # 0 /\ is_free(h, prev) THEN prev ELSE chunk
      h2      == IF is_free(h, next) THEN forget(unregister(h1, next), next) ELSE h1
      end     == IF is_free(h, next) THEN next + h.chunks[next].size ELSE next
      h3      == register_free_space(h2, start, h.chunks[start].prev_chunk_size, end - start)
  IN  set_prev_chunk_size(h3, end, end - start)

\* Mutant of shrunk_chunk_size: the header is forgotten.
shrunk_size_only(requested_size) == requested_size

\* unchecked_add wraps at the width of a Size in a release build.
shrunk_chunk_size(requested_size) == (requested_size + HEADER_SIZE) % (SIZE_MAX + 1)

shrink_inplace(h, pointer, requested_size) ==
  LET chunk    == chunk_of(h, pointer)
      current  == h.chunks[chunk].size
      new_size == shrunk_chunk_size(requested_size)
      next     == chunk + current
      h1       == [h EXCEPT !.chunks[chunk].size = new_size]
      h2       == IF is_free(h1, next) THEN forget(unregister(h1, next), next) ELSE h1
      end      == IF is_free(h1, next) THEN next + h.chunks[next].size ELSE next
      rest     == chunk + new_size
      h3       == register_free_space(h2, rest, new_size, end - rest)
  IN  IF requested_size = 0 THEN free(h, pointer)
      ELSE IF new_size >= current THEN h
      ELSE set_prev_chunk_size(h3, end, end - rest)

grow_inplace(h, pointer, requested_size) ==
  LET chunk      == chunk_of(h, pointer)
      current    == h.chunks[chunk].size
      new_size   == requested_size + HEADER_SIZE
      old_next   == chunk + current
      available  == current + h.chunks[old_next].size
      remaining  == available - new_size
      new_next   == chunk + new_size
      end_offset == end_offset_for(new_next, remaining)
      h1         == unregister(committed(h, end_offset), old_next)
      h2         == forget([h1 EXCEPT !.chunks[chunk].size = new_size], old_next)
      h3         == register_free_space(h2, new_next, new_size, remaining)
      h4         == set_prev_chunk_size(h3, new_next + remaining,
                                        IF remaining = 0 THEN new_size ELSE remaining)
  IN  IF new_size > SIZE_MAX THEN returns(h, NULL)
      ELSE IF current >= new_size THEN returns(h, current - HEADER_SIZE)
      ELSE IF /\ is_free(h, old_next)
              /\ available >= new_size
              /\ h.space < end_offset => expand_memory_until(end_offset)
             THEN returns(h4, requested_size)
             ELSE returns(h, NULL)

\* Mutant of realloc: the old allocation is freed even if there is no new one.
realloc_freeing_first(h, pointer, align, new_size) ==
  LET freed == free(h, pointer)
      moved == alloc_impl(freed, h.base, align, new_size)
  IN  IF new_size = 0 THEN returns(freed, NULL) ELSE moved

\* The copy of the contents is not part of this module.
realloc(h, pointer, align, new_size) ==
  LET current == usable_size_impl(h, pointer)
      grown   == grow_inplace(h, pointer, new_size)
      moved   == alloc_impl(h, h.base, align, new_size)
  IN  IF new_size = current THEN returns(h, pointer)
      ELSE IF new_size = 0 THEN returns(free(h, pointer), NULL)
      ELSE IF REALLOC_INPLACE /\ new_size < current
             THEN returns(shrink_inplace(h, pointer, new_size), pointer)
      ELSE IF REALLOC_INPLACE /\ grown.ret # NULL THEN returns(grown.heap, pointer)
      ELSE IF moved.ret = NULL THEN returns(h, NULL)
      ELSE returns(free(moved.heap, pointer), moved.ret)

-----------------------------------------------------------------------------
(* The state machine: clients call the operations in any order, always     *)
(* with a pointer they own (the Safety section of every operation).        *)

Allocated     == { c \in DOMAIN chunks : chunks[c].allocated }
Free          == { c \in DOMAIN chunks : ~chunks[c].allocated }
pointer_to(c) == base_address + c + HEADER_SIZE

Layout(align, size) == [align |-> align, size |-> size]

Init ==
  /\ base_address = 0
  /\ allocated_space = 0
  /\ free_lists_with_unallocated_memory = bitmask_new
  /\ first_in_free_list = [bin \in Bins |-> NULL]
  /\ chunks = [c \in {} |-> Chunk(0, 0, FALSE)]
  /\ links = [c \in {} |-> Link(NULL, NULL)]
  /\ limit \in LIMITS
  /\ owned = [p \in {} |-> Layout(1, 0)]

Alloc(align, size, new_base) ==
  LET result == alloc_impl(heap, new_base, align, size)
  IN  /\ BecomeHeap(result.heap)
      /\ owned' = IF result.ret = NULL THEN owned
                  ELSE Put(owned, result.ret, Layout(align, size))
      /\ UNCHANGED limit

FreeCall(pointer) ==
  /\ BecomeHeap(free(heap, pointer))
  /\ owned' = Without(owned, pointer)
  /\ UNCHANGED limit

\* A client that shrinks to a size it does not exceed keeps what it had.
ShrinkInplace(pointer, size) ==
  /\ BecomeHeap(shrink_inplace(heap, pointer, size))
  /\ owned' = IF size = 0 THEN Without(owned, pointer)
              ELSE IF size < owned[pointer].size THEN [owned EXCEPT ![pointer].size = size]
              ELSE owned
  /\ UNCHANGED limit

\* Some(n): the client may now use n granules.
GrowInplace(pointer, size) ==
  LET result == grow_inplace(heap, pointer, size)
  IN  /\ BecomeHeap(result.heap)
      /\ owned' = IF result.ret = NULL THEN owned
                  ELSE [owned EXCEPT ![pointer].size = result.ret]
      /\ UNCHANGED limit

\* Both callers of realloc: GlobalAlloc passes the layout's own alignment, the C
\* interface passes 1.
Realloc(pointer, align, size) ==
  LET result == realloc(heap, pointer, align, size)
  IN  /\ align \in {1, owned[pointer].align}
      /\ BecomeHeap(result.heap)
      /\ owned' = IF result.ret # NULL
                    THEN Put(Without(owned, pointer), result.ret, Layout(align, size))
                  ELSE IF size = 0 THEN Without(owned, pointer)
                  ELSE owned
      /\ UNCHANGED limit

\* External: the host has more or less memory to give than before.
ChangeLimit ==
  /\ limit' \in LIMITS
  /\ UNCHANGED <<arena, owned>>

Next ==
  \/ \E align \in Aligns, size \in Requests, new_base \in BASES : Alloc(align, size, new_base)
  \/ \E pointer \in DOMAIN owned : FreeCall(pointer)
  \/ \E pointer \in DOMAIN owned, size \in ShrinkRequests : ShrinkInplace(pointer, size)
  \/ \E pointer \in DOMAIN owned, size \in Requests : GrowInplace(pointer, size)
  \/ \E pointer \in DOMAIN owned, align \in Aligns, size \in Requests :
       Realloc(pointer, align, size)
  \/ ChangeLimit

Spec == Init /\ [][Next]_vars

-----------------------------------------------------------------------------
(* Properties                                                              *)

Offsets == 0 .. TOTAL_SPACE - 1

TypeOK ==
  /\ base_address \in BASES \cup {0}
  /\ allocated_space \in 0 .. TOTAL_SPACE
  /\ free_lists_with_unallocated_memory \in BitMasks
  /\ first_in_free_list \in [Bins -> Offsets \cup {NULL}]
  /\ DOMAIN chunks \subseteq Offsets
  /\ \A c \in DOMAIN chunks :
       chunks[c] \in [prev_chunk_size : 0 .. TOTAL_SPACE, size : 1 .. TOTAL_SPACE,
                      allocated : BOOLEAN]
  /\ DOMAIN links \subseteq Offsets
  /\ \A c \in DOMAIN links :
       links[c] \in [next_in_list : Offsets \cup {NULL}, prev_in_list : Offsets \cup {NULL}]
  /\ limit \in LIMITS
  /\ \A p \in DOMAIN owned : owned[p] \in [align : Nat \ {0}, size : 0 .. TOTAL_SPACE]

\* The headers agree with what clients were told: a client owns a pointer exactly
\* while its chunk is allocated, and the chunk is as long as was promised
\* (usable_size).
ClientsOwnTheirChunks ==
  /\ DOMAIN owned = { pointer_to(c) : c \in Allocated }
  /\ \A c \in Allocated : chunks[c].size = owned[pointer_to(c)].size + HEADER_SIZE

\* Walking the chunks by their sizes covers the arena from end to end: every chunk
\* ends where another begins or where the address space ends, and none overlap
\* (alloc_impl, shrink_inplace, grow_inplace and free all recompute sizes).
Tiling ==
  base_address # 0 =>
    /\ 0 \in DOMAIN chunks
    /\ \A c \in DOMAIN chunks : c + chunks[c].size \in DOMAIN chunks \cup {TOTAL_SPACE}
    /\ \A c, d \in DOMAIN chunks : c < d => c + chunks[c].size <= d

\* prev_chunk_size, which free trusts to find the chunk before, is the size of that
\* chunk: no operation forgets the back pointer of the chunk after the ones it moved.
BackPointers ==
  \A c \in DOMAIN chunks :
    LET prev == c - chunks[c].prev_chunk_size
    IN  IF c = 0 THEN prev = 0
        ELSE prev \in DOMAIN chunks /\ prev + chunks[prev].size = c

\* Free neighbours are always merged, whatever the order of the calls: of two
\* adjacent chunks one is allocated.
Coalesced ==
  \A c \in Free : c + chunks[c].size \notin Free

\* The list pointers are consistent in both directions and every chunk hangs in the
\* list of its own size, so unregister_free_space unlinks from the right list.
ListsLinked ==
  /\ DOMAIN links = Free
  /\ \A bin \in Bins :
       first_in_free_list[bin] # NULL =>
         /\ first_in_free_list[bin] \in Free
         /\ size_to_bin_round_down(chunks[first_in_free_list[bin]].size) = bin
         /\ links[first_in_free_list[bin]].prev_in_list = NULL
  /\ \A c \in Free :
       LET bin  == size_to_bin_round_down(chunks[c].size)
           next == links[c].next_in_list
           prev == links[c].prev_in_list
       IN  /\ next # NULL =>
                /\ next \in Free
                /\ links[next].prev_in_list = c
                /\ size_to_bin_round_down(chunks[next].size) = bin
           /\ IF prev = NULL THEN first_in_free_list[bin] = c
              ELSE prev \in Free /\ links[prev].next_in_list = c

\* Every free chunk can be found by following its list from the head, and nothing else:
\* whatever has the heads and, with each chunk, the next one, is all of the free chunks.
EveryFreeChunkIsListed ==
  { found \in SUBSET Free :
      /\ \A bin \in Bins : first_in_free_list[bin] \in found \cup {NULL}
      /\ \A c \in found : links[c].next_in_list \in found \cup {NULL} } = {Free}

\* The bit of a free list is set exactly when the list is not empty, so find_first
\* neither skips memory nor returns the head of an empty list.
MaskMatchesLists ==
  /\ Summarised(free_lists_with_unallocated_memory)
  /\ Bits(free_lists_with_unallocated_memory)
       = { bin \in Bins : first_in_free_list[bin] # NULL }

\* Every header and every allocation lies in memory the environment has committed
\* (paranoid_check_access), although only the needed prefix is ever committed.
WithinCommittedMemory ==
  \A c \in DOMAIN chunks :
    c + (IF chunks[c].allocated THEN chunks[c].size ELSE FREE_CHUNK_HEADER_SIZE)
      <= allocated_space

\* A request is refused for want of space only when no bin holds chunks that are
\* sure to fit: find_first and the rounding of sizes never overlook such a chunk.
FittingChunkIsFound ==
  base_address # 0 =>
    \A align \in Aligns, size \in Requests :
      LET min_size == min_size_for(align, size)
      IN  /\ is_power_of_two(align)
          /\ min_size <= MAX_ALLOCATION_SIZE
          /\ \E c \in Free : size_to_bin_round_down(chunks[c].size)
                               >= size_to_bin_round_up(min_size)
          => has_chunk_for(heap, align, size)

-----------------------------------------------------------------------------
(* What clients are promised, without the arena.                           *)
Contract == INSTANCE AllocatorContract

\* The arena's clients never share memory and every pointer has the alignment its
\* client asked for, wherever the environment placed the arena (align_offset).
NoSharing == Contract!NoSharing

\* Every call of the allocator is a step the contract allows: a failed call takes
\* nothing from its client, a realloc that cannot move leaves the old allocation.
ImplementsContract == Contract!Spec

\* "Shrinks the memory allocation to at most the given size" (shrink_inplace): the
\* allocation stays, as long as it was or, if that is shorter, as long as was asked.
ShrinkKeepsTheAllocation ==
  [][\A pointer \in DOMAIN owned, size \in ShrinkRequests \ {0} :
       ShrinkInplace(pointer, size) =>
         LET old == usable_size_impl(heap, pointer)
         IN  /\ chunk_of(heap, pointer) \in DOMAIN chunks'
             /\ chunks'[chunk_of(heap, pointer)]
                  = [chunks[chunk_of(heap, pointer)] EXCEPT
                       !.size = HEADER_SIZE + Min({old, size})] ]_vars

=============================================================================
