---------------------------- MODULE HeapContents ----------------------------
(***************************************************************************)
(* The memory under the allocator, beside Allocator's account of it: what  *)
(* each granule holds, and what its client believes it holds.              *)
(*                                                                         *)
(* The clients are those of the fuzz targets: a client fills its           *)
(* allocation with values of its own, remembers them, and compares.  The   *)
(* value a client writes to a granule is the granule's offset, which is    *)
(* never Zero; so data that moved, was overwritten or was left behind by   *)
(* an earlier owner can be told apart.  Granules at and behind TOTAL_SPACE *)
(* belong to somebody else.                                                *)
(***************************************************************************)
EXTENDS Allocator

CONSTANT
  FRESH_AFTER_DROP   \* free_address_space gives the memory back, and the next
                     \* address space is new and zero (linux, corevm); else it is
                     \* the same memory again (ArrayPointer, polkavm, wasm)

VARIABLES
  memory,     \* granule -> Zero, Header, or the value a client wrote
  expected    \* pointer -> what its client wrote or was promised, by index

all_vars == <<vars, memory, expected>>

Zero   == 0
Header == -1

Granules == 0 .. 2 * TOTAL_SPACE

-----------------------------------------------------------------------------
store(mem, first, data) ==
  [g \in DOMAIN mem |-> IF g - first \in DOMAIN data THEN data[g - first] ELSE mem[g]]

load(mem, first, size) == [i \in 0 .. size - 1 |-> mem[first + i]]

zeros(size)                == [i \in 0 .. size - 1 |-> Zero]
fill_slice(first, indices) == [i \in indices |-> first + i]

\* Every header an operation creates or changes fills the granule of its chunk.
store_headers(mem, before, after) ==
  [g \in DOMAIN mem |->
     IF g \in DOMAIN after /\ ~(g \in DOMAIN before /\ before[g] = after[g])
       THEN Header ELSE mem[g]]

\* Mutant of zero_memory: memory is only cleared if all of it was committed before.
zero_memory_if_all_used(space, first, size) == space >= first + size

\* Memory that was never committed is taken to be zero: allocated_space is compared
\* as it was before this allocation.
zero_memory(space, first, size) == space > first

\* Mutant of cleared: the size of the chunk is cleared, not that of the allocation.
cleared_chunk(mem, first, size) == store(mem, first, zeros(size + HEADER_SIZE))

cleared(mem, first, size) == store(mem, first, zeros(size))

\* Mutant of copied: the header is taken off once too often.
copied_less(mem, from, to, size) == store(mem, to, load(mem, from, size - HEADER_SIZE))

\* copy_nonoverlapping of the old size, whatever the new size is.
copied(mem, from, to, size) == store(mem, to, load(mem, from, size))

-----------------------------------------------------------------------------
(* The operations.  Each is Allocator's action and what it, or the client  *)
(* when it returns, writes.                                                *)

\* A client that has kept the first values of its allocation, perhaps from an old
\* place, fills the rest.
KeepAndFill(mem, old, pointer, kept, size) ==
  LET first == pointer - base_address'
      rest  == fill_slice(first, (0 .. size - 1) \ DOMAIN kept)
  IN  /\ memory' = store(mem, first, rest)
      /\ expected' = Put(Without(expected, old), pointer,
                         [i \in 0 .. size - 1 |-> IF i \in DOMAIN kept THEN kept[i] ELSE rest[i]])

truncate(data, size) == [i \in DOMAIN data \cap 0 .. size - 1 |-> data[i]]

written        == store_headers(memory, chunks, chunks')
new_pointers   == DOMAIN owned' \ DOMAIN owned

\* alloc, whose client fills what it got; alloc_zeroed, whose client expects zeros.
AllocContents(align, size, new_base, is_calloc) ==
  LET space    == IF base_address = 0 THEN FREE_CHUNK_HEADER_SIZE ELSE allocated_space
      first(p) == p - base_address'
  IN  /\ Alloc(align, size, new_base)
      /\ \/ /\ new_pointers = {}
            /\ memory' = written
            /\ UNCHANGED expected
         \/ /\ ~is_calloc
            /\ \E p \in new_pointers : KeepAndFill(written, NULL, p, zeros(0), size)
         \/ /\ is_calloc
            /\ \E p \in new_pointers :
                 /\ memory' = IF zero_memory(space, first(p), size)
                                THEN cleared(written, first(p), size)
                                ELSE written
                 /\ expected' = Put(expected, p, zeros(size))

\* A client overwrites what it has.
Fill(pointer) ==
  /\ UNCHANGED vars
  /\ KeepAndFill(memory, pointer, pointer, zeros(0), owned[pointer].size)

FreeContents(pointer) ==
  /\ FreeCall(pointer)
  /\ memory' = written
  /\ expected' = Without(expected, pointer)

ShrinkContents(pointer, size) ==
  /\ ShrinkInplace(pointer, size)
  /\ memory' = written
  /\ expected' = IF size = 0 THEN Without(expected, pointer)
                 ELSE [expected EXCEPT ![pointer] = truncate(@, size)]

\* The client fills what it gained.
GrowContents(pointer, size) ==
  /\ GrowInplace(pointer, size)
  /\ KeepAndFill(written, pointer, pointer, expected[pointer], owned'[pointer].size)

\* Where the allocation stays or goes, only headers are written; where it moves, the
\* headers of alloc, then the copy, then the headers of free.
ReallocContents(pointer, align, size) ==
  /\ Realloc(pointer, align, size)
  /\ \/ /\ pointer \in DOMAIN owned'
        /\ LET new_size == owned'[pointer].size
           IN  KeepAndFill(written, pointer, pointer, truncate(expected[pointer], new_size), new_size)
     \/ /\ pointer \notin DOMAIN owned' /\ new_pointers = {}
        /\ memory' = written
        /\ expected' = Without(expected, pointer)
     \/ \E p \in new_pointers :
          LET moved  == alloc_impl(heap, base_address, align, size).heap.chunks
              in_new == copied(store_headers(memory, chunks, moved), pointer - base_address,
                               p - base_address, usable_size_impl(heap, pointer))
          IN  KeepAndFill(store_headers(in_new, moved, chunks'), pointer, p,
                          truncate(expected[pointer], size), size)

\* The allocator is dropped, its clients are gone, and another one is made over the
\* same environment.
DropAndNew ==
  /\ base_address' = 0
  /\ allocated_space' = 0
  /\ free_lists_with_unallocated_memory' = bitmask_new
  /\ first_in_free_list' = [bin \in Bins |-> NULL]
  /\ chunks' = [c \in {} |-> Chunk(0, 0, FALSE)]
  /\ links' = [c \in {} |-> Link(NULL, NULL)]
  /\ owned' = [p \in {} |-> Layout(1, 0)]
  /\ expected' = [p \in {} |-> zeros(0)]
  /\ memory' = IF FRESH_AFTER_DROP THEN [g \in Granules |-> Zero] ELSE memory
  /\ UNCHANGED limit

ContentsInit ==
  /\ Init
  /\ memory = [g \in Granules |-> Zero]
  /\ expected = [p \in {} |-> zeros(0)]

ContentsNext ==
  \/ \E align \in Aligns, size \in Requests, new_base \in BASES, is_calloc \in BOOLEAN :
       AllocContents(align, size, new_base, is_calloc)
  \/ \E pointer \in DOMAIN owned : Fill(pointer)
  \/ \E pointer \in DOMAIN owned : FreeContents(pointer)
  \/ \E pointer \in DOMAIN owned, size \in ShrinkRequests : ShrinkContents(pointer, size)
  \/ \E pointer \in DOMAIN owned, size \in Requests : GrowContents(pointer, size)
  \/ \E pointer \in DOMAIN owned, align \in Aligns, size \in Requests :
       ReallocContents(pointer, align, size)
  \/ DropAndNew
  \/ ChangeLimit /\ UNCHANGED <<memory, expected>>

ContentsSpec == ContentsInit /\ [][ContentsNext]_all_vars

-----------------------------------------------------------------------------
\* A client finds what it wrote, or the zeros it was promised: no operation of the
\* allocator, for this client or another, writes into a live allocation (the clearing
\* in alloc_impl, the copy in realloc, the headers of every operation), and a moved
\* allocation takes its contents along.
ContentsKept ==
  \A p \in DOMAIN expected :
    load(memory, p - base_address, owned[p].size) = expected[p]

\* The granules the allocator will read as headers hold headers: neither the clearing
\* of alloc_zeroed nor the copy of realloc runs over the end of its allocation.
HeadersIntact ==
  \A c \in DOMAIN chunks : memory[c] = Header

\* Memory that was never committed has never been written, nor has what lies behind
\* the arena: on this alloc_zeroed relies when it skips the clearing.
UncommittedIsZero ==
  \A g \in Granules : g >= allocated_space => memory[g] = Zero

\* "Allocates zeroed memory." (alloc_zeroed): a client that has not written yet reads
\* zeros.
ZeroedReadsZero ==
  \A p \in DOMAIN expected : \A i \in DOMAIN expected[p] :
    expected[p][i] = Zero => memory[p - base_address + i] = Zero

=============================================================================
