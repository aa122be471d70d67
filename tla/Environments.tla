---------------------------- MODULE Environments ----------------------------
(***************************************************************************)
(* The environments picoalloc is built for, and the life of an allocator   *)
(* on each: it asks for its address space on first use, perhaps several    *)
(* times, commits memory as it goes, and gives the space back when it is   *)
(* dropped; then a new one is made.  Addresses and lengths are in bytes.   *)
(***************************************************************************)
EXTENDS Integers, FiniteSets

CONSTANTS
  PLATFORMS,     \* a subset of {"array", "linux", "polkavm", "corevm", "wasm"}
  GRANULARITY,   \* ALLOCATION_GRANULARITY
  SIZE,          \* the parameter of System<SIZE> and Array<SIZE>
  SIZE_T,        \* how many values a SizeT has: 2^32
  USIZE,         \* how many values a usize has
  HEAP_BASES,    \* where the heap may begin (__heap_base), aligned or not
  PAGE_SIZE,
  MEMORY_END,    \* the host has no memory from here on
  OTHERS         \* the pages other code may map (linux, corevm)

ASSUME EnvironmentConstants ==
  /\ PLATFORMS \subseteq {"array", "linux", "polkavm", "corevm", "wasm"}
  /\ GRANULARITY \in Nat \ {0} /\ PAGE_SIZE \in Nat \ {0}
  /\ PAGE_SIZE % GRANULARITY = 0
  /\ SIZE_T \in Nat \ {0} /\ USIZE \in Nat \ {0}
  /\ MEMORY_END \in Nat /\ SIZE \in 1 .. MEMORY_END
  /\ HEAP_BASES \subseteq 1 .. MEMORY_END
  /\ OTHERS \subseteq Nat

VARIABLES
  platform, heap_base,   \* external: fixed for a program
  break,                 \* external: memory below it exists (polkavm, wasm)
  mapped,                \* external: the addresses this program's allocators mapped
  others,                \* external: the pages other code has mapped
  aborted,               \* abort() was called
  base_address, allocated_space   \* of the allocator, in bytes and in granules

vars == <<platform, heap_base, break, mapped, others, aborted, base_address, allocated_space>>

FREE_CHUNK_HEADER_SIZE == 1

next_multiple_of(x, n) == ((x + n - 1) \div n) * n

range(address, length) == address .. address + length - 1

\* Size::from_bytes_usize and Size::bytes: the shift keeps the width of a SizeT.
total_space == (SIZE + GRANULARITY - 1) \div GRANULARITY
bytes(size) == (size * GRANULARITY) % SIZE_T

\* The shift is harmless for arenas below 4 GiB, and the code checks no such limit: a
\* longer arena would be mapped with its length modulo 2^32.
ASSUME ArenaFitsSizeT == total_space * GRANULARITY < SIZE_T

\* On wasm the end of the arena is computed as an address, and the code checks no limit
\* here, either: an arena that ended behind the last address would wrap to a low one.
ASSUME ArenaFitsUsize ==
  "wasm" \in PLATFORMS =>
    \A b \in HEAP_BASES :
      next_multiple_of(b, GRANULARITY) + total_space * GRANULARITY < USIZE

-----------------------------------------------------------------------------
(* The hosts.  A call has a set of outcomes: the host after it, and the    *)
(* answer.                                                                 *)

host == [break |-> break, mapped |-> mapped, others |-> others, aborted |-> aborted]

BecomeHost(h) ==
  /\ break'   = h.break
  /\ mapped'  = h.mapped
  /\ others'  = h.others
  /\ aborted' = h.aborted
  /\ UNCHANGED <<platform, heap_base>>

outcome(h, answer) == [host |-> h, answer |-> answer]

abort(h) == [h EXCEPT !.aborted = TRUE]

page(address) == range(address, PAGE_SIZE)

\* mmap and CoreVM's alloc: any place that is free, or none.  Page 0 is never mapped.
places(h, length) ==
  { p \in 1 .. MEMORY_END - length :
      /\ p % PAGE_SIZE = 0
      /\ range(p, length) \cap (h.mapped \cup UNION { page(q) : q \in h.others }) = {} }

map_outcomes(h, length) ==
  { outcome([h EXCEPT !.mapped = @ \cup range(p, length)], p) : p \in places(h, length) }

\* munmap and CoreVM's free: whatever is mapped there.
unmap(h, address, length) ==
  [h EXCEPT !.mapped = @ \ range(address, length),
            !.others = { q \in @ : page(q) \cap range(address, length) = {} }]

mapped_length == next_multiple_of(bytes(total_space), PAGE_SIZE)

\* Mutant of grown: a request for no more than the whole pages in it.
grown_by_whole_pages(h, length, unit) == [h EXCEPT !.break = @ + (length \div unit) * unit]

\* sbrk in units of 1, memory_grow in units of a page.
grown(h, length, unit) == [h EXCEPT !.break = @ + next_multiple_of(length, unit)]

grow_outcome(h, length, unit) ==
  IF grown(h, length, unit).break <= MEMORY_END
    THEN outcome(grown(h, length, unit), TRUE)
    ELSE outcome(h, FALSE)

-----------------------------------------------------------------------------
(* Env, by platform.                                                       *)

\* Mutant of aligned_heap_base: the heap starts where the linker put it.
unaligned_heap_base == heap_base

\* Array is aligned by its type; the others round up what they are given.
aligned_heap_base == next_multiple_of(heap_base, GRANULARITY)

\* Mutant of polkavm_allocate: the break is not moved up to the rounded heap base.
polkavm_allocate_as_is(h) == outcome(h, aligned_heap_base)

polkavm_allocate(h) ==
  LET moved == grow_outcome(h, aligned_heap_base - h.break, 1)
  IN  IF h.break >= aligned_heap_base THEN outcome(h, aligned_heap_base)
      ELSE IF moved.answer THEN outcome(moved.host, aligned_heap_base)
      ELSE outcome(h, 0)

allocate_address_space(h) ==
  CASE platform \in {"array", "wasm"} -> { outcome(h, aligned_heap_base) }
    [] platform = "polkavm" -> { polkavm_allocate(h) }
    [] platform = "corevm"  -> map_outcomes(h, mapped_length) \cup { outcome(h, 0) }
    [] platform = "linux"   -> { outcome(abort(h), 0) } \cup
                               IF mapped_length = 0 THEN {} ELSE map_outcomes(h, mapped_length)

\* The difference of two addresses wraps at the width of a usize.
polkavm_expand(h, base, size) ==
  LET have == (h.break - base) % USIZE
  IN  IF have >= bytes(size) THEN outcome(h, TRUE)
      ELSE grow_outcome(h, bytes(size) - have, 1)

\* The length of a full memory wraps to 0, and so may the sum.
wasm_expand(h, base, size) ==
  LET current_size  == h.break % USIZE
      required_size == (base + bytes(size)) % USIZE
  IN  IF current_size >= required_size THEN outcome(h, TRUE)
      ELSE grow_outcome(h, required_size - current_size, PAGE_SIZE)

expand_memory_until(h, base, size) ==
  CASE platform = "array"   -> outcome(h, size <= total_space)
    [] platform = "polkavm" -> polkavm_expand(h, base, size)
    [] platform = "wasm"    -> wasm_expand(h, base, size)
    [] OTHER                -> outcome(h, TRUE)

\* Mutant of free_address_space: the space behind the last granule goes, too.
free_one_page_more(h, base) ==
  IF platform \in {"linux", "corevm"} THEN unmap(h, base, mapped_length + PAGE_SIZE) ELSE h

\* munmap refuses a length of 0.
free_address_space(h, base) ==
  CASE platform = "linux" /\ mapped_length = 0 -> abort(h)
    [] platform \in {"linux", "corevm"} -> unmap(h, base, mapped_length)
    [] OTHER -> h

-----------------------------------------------------------------------------
(* The allocator.                                                          *)

Init ==
  /\ platform \in PLATFORMS
  /\ heap_base \in HEAP_BASES
  /\ break \in CASE platform = "polkavm" -> heap_base .. MEMORY_END
                 [] platform = "wasm" -> { b \in heap_base .. MEMORY_END : b % PAGE_SIZE = 0 }
                 [] OTHER -> {0}
  /\ mapped = {}
  /\ others = {}
  /\ aborted = FALSE
  /\ base_address = 0
  /\ allocated_space = 0

\* initialize_impl: it fails if there is no address space, or none of it can be used;
\* then the space is given back and the next allocation tries again.
InitializeImpl ==
  /\ ~aborted /\ base_address = 0
  /\ \E space \in allocate_address_space(host) :
       LET ready == expand_memory_until(space.host, space.answer, FREE_CHUNK_HEADER_SIZE)
       IN  \/ /\ space.answer = 0
              /\ BecomeHost(space.host)
              /\ UNCHANGED <<base_address, allocated_space>>
           \/ /\ space.answer # 0 /\ ready.answer
              /\ BecomeHost(ready.host)
              /\ base_address' = space.answer
              /\ allocated_space' = FREE_CHUNK_HEADER_SIZE
           \/ /\ space.answer # 0 /\ ~ready.answer
              /\ BecomeHost(free_address_space(ready.host, space.answer))
              /\ UNCHANGED <<base_address, allocated_space>>

\* Mutant of Commit: the answer of the environment is not looked at.
CommitAnyway(end_offset) ==
  /\ ~aborted /\ base_address # 0 /\ allocated_space < end_offset
  /\ BecomeHost(expand_memory_until(host, base_address, end_offset).host)
  /\ allocated_space' = end_offset
  /\ UNCHANGED base_address

\* alloc_impl and grow_inplace, when they need memory up to end_offset.
Commit(end_offset) ==
  LET grant == expand_memory_until(host, base_address, end_offset)
  IN  /\ ~aborted /\ base_address # 0 /\ allocated_space < end_offset
      /\ BecomeHost(grant.host)
      /\ allocated_space' = IF grant.answer THEN end_offset ELSE allocated_space
      /\ UNCHANGED base_address

\* Mutant of Drop: the address space is kept.
DropOnly ==
  /\ ~aborted
  /\ BecomeHost(host)
  /\ base_address' = 0
  /\ allocated_space' = 0

\* Drop gives the address space back, also one that was never reserved: then it releases
\* what lies from address 0 on.  After it there is a new allocator.
Drop ==
  /\ ~aborted
  /\ BecomeHost(free_address_space(host, base_address))
  /\ base_address' = 0
  /\ allocated_space' = 0

\* External: other code moves the break (sbrk, memory_grow never take memory back), or
\* maps and unmaps pages of its own.
OtherCode ==
  /\ ~aborted
  /\ \/ /\ platform \in {"polkavm", "wasm"}
        /\ break < MEMORY_END
        /\ BecomeHost(grown(host, 1, IF platform = "wasm" THEN PAGE_SIZE ELSE 1))
     \/ /\ platform \in {"linux", "corevm"}
        /\ \E q \in OTHERS \cap places(host, PAGE_SIZE) :
             BecomeHost([host EXCEPT !.others = @ \cup {q}])
     \/ \E q \in others : BecomeHost([host EXCEPT !.others = @ \ {q}])
  /\ UNCHANGED <<base_address, allocated_space>>

Next ==
  \/ InitializeImpl
  \/ \E end_offset \in 1 .. total_space : Commit(end_offset)
  \/ Drop
  \/ OtherCode

Spec == Init /\ [][Next]_vars

-----------------------------------------------------------------------------
\* The addresses that can be read and written.
Backed ==
  CASE platform = "array"              -> range(aligned_heap_base, next_multiple_of(SIZE, GRANULARITY))
    [] platform \in {"linux","corevm"} -> mapped
    [] OTHER                           -> 0 .. break - 1

\* What the allocator takes to be committed (allocated_space) really is memory, on
\* every platform: the answers of expand_memory_until can be believed, whoever else
\* moved the break, wherever the heap began, and however often initialisation failed.
MemoryIsBacked ==
  range(base_address, allocated_space * GRANULARITY) \subseteq Backed

\* Exactly the address space in use is mapped: none is left over by an allocator that
\* was dropped, and none is lost.  (The release after a failed initialisation is never
\* reached on these platforms, where every commit succeeds.)
NothingLeaks ==
  platform \in {"linux", "corevm"} =>
    mapped = IF base_address = 0 THEN {} ELSE range(base_address, mapped_length)

\* There is one way only in which the allocator unmaps pages of other code: it is dropped
\* before it ever had an address space, its free_address_space names the null address,
\* and the pages lie in the first mapped_length bytes.  The release of a space that was
\* reserved hits nothing else, however the host placed it between the others.
OthersKeepTheirs ==
  [][~OtherCode =>
       /\ others' \subseteq others
       /\ \A q \in others \ others' : Drop /\ base_address = 0 /\ q < mapped_length]_vars

\* The granules from base_address that can be used, for the contract.
usable_granules ==
  IF base_address = 0 THEN 0
  ELSE CHOOSE n \in 0 .. total_space :
         /\ range(base_address, n * GRANULARITY) \subseteq Backed
         /\ \A k \in n + 1 .. total_space :
              ~(range(base_address, k * GRANULARITY) \subseteq Backed)

Env == INSTANCE EnvContract WITH base <- base_address, usable <- usable_granules

\* Every platform is an Env: the base is aligned and stays where it is, and what can
\* be used never shrinks until it is released.
ImplementsEnv == Env!Spec

=============================================================================
