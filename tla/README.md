# picoalloc in TLA+

A specification of [picoalloc](../src), a small memory allocator for `no_std`
programs: TLA+ modules translated from its Rust source, TLC runs on small
instances, and TLAPS proofs of the main safety properties for every instance.
Paths below are relative to the repository (`src/allocator.rs` is
`src/src/allocator.rs` from here).

## 1. The system

| Component | State | Operations | Correct when |
|---|---|---|---|
| Size classes (`allocator.rs` 128-215, 650-664) | none | `to_bin_index_generic`, `calculate_optimal_bin_config`, `size_to_bin_round_down/up` | a chunk is filed under the last bin it reaches, a request starts at the first bin where all chunks fit, every bin exists |
| `BitMask` (242-350) | a primary word and an array of secondary words | `set`, `unset`, `find_first` | both levels represent the same set; `find_first` is the least element from a start |
| `Allocator<E>` (545-1200) | `base_address`, `allocated_space`, the mask, `first_in_free_list`; inside the arena a header per chunk and list pointers in free chunks | `alloc`, `alloc_zeroed`, `free`, `shrink_inplace`, `grow_inplace`, `realloc`, `usable_size`, `initialize`, `Drop` | chunks tile the arena, free neighbours are merged, each free chunk is in the list of its size, only committed memory is touched, live allocations are disjoint and aligned |
| `Env` (`env.rs`, `env/*.rs`) | the host's memory | `total_space`, `allocate_address_space`, `expand_memory_until`, `free_address_space` | a granted prefix stays usable; a refusal changes nothing |
| `Mutex<T>` (`mutex.rs`) | `flag` and the value | `lock`, the guard's `Deref`/`DerefMut`/`Drop` | one guard at a time, writes visible to the next holder, spinners get in |
| `GlobalAlloc` (1202-1260) and the C front end (`global_allocator_libc.rs`) | the global `Mutex<Allocator>`, `errno` | `malloc`, `calloc`, `realloc`, `posix_memalign`, `free`, ... | bytes become granules without truncation, every call is made under the lock |

How they interact: the front ends convert a layout, take the `Mutex` and call the
`Allocator`. The allocator asks the `Env` for its address space once, lazily, and
for more committed memory whenever an allocation ends behind `allocated_space`. Free
chunks hang in one doubly linked list per size class; the `BitMask` caches which
lists are not empty. Each chunk's header has its own size and that of the chunk
before it (a boundary tag), and `free` trusts both to find its neighbours.

Two front ends may be built in side by side and then share one global allocator.
What the allocator writes lies in the arena next to its clients' data, so its memory
is only as safe as its arithmetic.

What is hard here is mostly *sequential*: four operations rewrite the same
boundary tags and lists with different arithmetic, and a mistake shows only many
calls later, when a neighbour is merged. To that come the edges of the arena and of
the integers, the environment saying no in the middle of a call, memory that other
code moves or maps, and the lock's atomicity and memory ordering, with one reader
(`malloc_usable_size`) that does not take it. The hazards, each with its line and the properties
that cover it, are in `PROJECT.json`.

## 2. Modules

| Module | Models | Notes |
|---|---|---|
| `SizeClasses` | the mapping of sizes to bins | pure operators over `SIZE_MAX`, `MASK_BITS`, `MAX_ALLOCATION_SIZE`, `MAX_BINS`; `LeastSizeOf` is the reference they are compared with |
| `BitMask` | the two-level mask | a word is the set of its one bits |
| `BitMaskMachine` | any sequence of `set` and `unset` | with the plain set they describe as history |
| `Allocator` | `Allocator<E>` and its `Env` | see below |
| `AllocatorContract` | what clients are promised | only the map from pointers to layouts |
| `Mutex` | the spin lock | with Acquire/Release as visibility of the latest write |
| `HeapContents` | what the arena's granules hold | extends `Allocator`; each action is Allocator's plus what it writes |
| `EnvContract` | what the allocator needs of an `Env` | abstract: a base and a usable prefix |
| `Environments` | the five environments, and the allocator's use of them | in bytes; shown to implement `EnvContract` |
| `GlobalAllocator` | threads in the C front end and in `GlobalAlloc` | composes `Allocator` and `Mutex`; shown to implement `Allocator` |
| `SizeClassesMC`, `BitMaskMC`, `AllocatorMC`, `MutexMC`, `HeapContentsMC`, `EnvironmentsMC`, `GlobalAllocatorMC` | the modules TLC runs | `SizeClassesMC` walks through the borders of the bins and states the two size class properties |
| `BinLemmas`, `BinProofs`, `MutexProofs`, `AllocatorLemmas`, `AllocatorProofs`, `HeapContentsProofs`, `EnvironmentsProofs`, `GlobalAllocatorProofs` | lemmas and theorems | checked by `tlapm` |

**State of `Allocator`.** Everything is counted in granules of 32 bytes
(`ALLOCATION_GRANULARITY`). Both headers fit one granule, so a pointer is its chunk's
offset plus the base plus one. The four fields of the struct are variables with
their names. The words in the arena are two partial functions from offsets:
`chunks` (`prev_chunk_size`, `size` and the allocated bit of a `ChunkHeader`) and
`links` (`next_in_list`, `prev_in_list` of a `FreeChunkHeader`). When a chunk is
merged or handed out its words are dropped from these functions: reading a dead word
is then an evaluation error and not a lucky value. `limit` (how far the environment
would commit now) and `owned` (the layout promised for each live pointer) are
external.

**Actions of `Allocator`.** An operation of the code is an operator from the heap
before to the heap after, built from the same helpers as the code
(`unregister_free_space`, `register_free_space`, ...); an action applies it to the
variables and updates `owned` by what the caller was told.

| Action | Code |
|---|---|
| `Alloc` | `alloc_impl` with `initialize`: alignment check, lazy initialisation, search, commit, the three-way cut. An environment that refuses leaves the heap as it was, except that the arena stays initialised |
| `FreeCall` | `free`, with both merges |
| `ShrinkInplace` | `shrink_inplace`; size 0 frees; the sum with the header wraps at the width of a `Size` as `unchecked_add` does in a release build |
| `GrowInplace` | `grow_inplace` |
| `Realloc` | `realloc` with and without the feature `realloc_inplace` (a constant), called with the alignment of the layout (`GlobalAlloc`) or 1 (C) |
| `ChangeLimit` | external: the host has more or less memory to give |

Clients use the API as its Safety sections demand: they pass only pointers they own.

**Mutex.** A thread is outside, spinning or holding a guard. `seen_by` is the set of
threads that see the latest write to the value and `published` says whether reading
the flag with Acquire makes it visible. A failed exchange changes nothing and is a
stuttering step, which also covers the spurious failures of
`compare_exchange_weak`.

**HeapContents.** `memory` gives each granule a value: zero, a header, or what a
client wrote (its own offset, so values tell where they were written). `expected` is
what each client remembers, as the fuzz targets do. An operation writes every header
that it creates or changes (`store_headers`, by comparing `chunks` before and after),
`alloc_zeroed` clears or trusts (`zero_memory`), a moving `realloc` copies. `DropAndNew`
ends an allocator and starts another over the same environment, whose memory is fresh
or the same again (`FRESH_AFTER_DROP`). The granules behind the arena belong to
somebody else and must never change.

**Environments.** A variable says which platform the program runs on. A host call is a
set of outcomes. `mmap` and CoreVM's `alloc` choose any free place or fail; `sbrk` and
`memory_grow` move the break or fail. `OtherCode` uses the same host: it moves the
break, maps and unmaps pages. `bytes` keeps the 32-bit shift of `Size::bytes`, and the
subtraction in polkavm's `expand_memory_until` wraps as a release build's does.

| Action | Code |
|---|---|
| `InitializeImpl` | `initialize_impl`: reserve, try the first commit, give back on failure |
| `Commit` | the commits of `alloc_impl` and `grow_inplace` |
| `Drop` | `Drop for Allocator`, also of one that was never initialised |
| `OtherCode` | external |

**GlobalAllocator.** A front end is an operator from arguments to a plan: fail with an
error, do nothing, read a size, or call the allocator under the lock. The plan names the
function whose last lines return to the client (`entry`): `malloc` ends in
`aligned_alloc`, `realloc` of a null pointer too, `reallocarray` in `realloc`. `Plans` is
every call a client may make. What such a function makes of the allocator's answer is an
operator of its own (`posix_memalign_returns`, which writes `*result` on success only,
`aligned_alloc_returns`, which starts from null and copies the code to `errno`,
`calloc_returns`, `realloc_returns`, `rust_returns`), and `reply` is what the client
sees: pointer, code and `errno`. The client clears `errno` when it calls. A thread takes
these steps:

| Action | Code |
|---|---|
| `Call` | the part before `lock()`: early checks and conversion to granules |
| `Return` | early returns, and `malloc_usable_size`, without the lock |
| `Acquire` | the exchange of `Mutex::lock` that succeeds |
| `Enter` | the call of the allocator begins: it works on the heap it finds; what it will leave is in `pending` |
| `Leave` | the heap is written, the guard dropped, result and `errno` set |
| `ChangeLimit` | external, while no operation is under way: an operation asks the environment in one step of the model, `Enter`, and counts as done in `Leave`, so a change between the two is one before or after |

Between `Enter` and `Leave` the operation is under way, and any of the words it changes
may be half written; that is what `UnlockedReadIsStable` is about. If exclusion failed,
two operations would work on the same heap and the second to leave would undo the
first, which is what `ImplementsAllocator` would catch.

## 3. Runs

| Run | Instance | Distinct states | Shows |
|---|---|---|---|
| `bit_mask` | 3 words of 4 bits, the last not full; 11 bins | 2 048 | all subsets of bins: both levels agree, `find_first` is the least from every start |
| `size_classes` | the real 64-bit constants: 2^25 granules, 4096 bins wanted | 26 110 | both mappings agree with the reference at the borders of every bin |
| `allocator_bins` | 7 granules, 6 bins, unaligned base 3, two commit limits, requests up to `SIZE_MAX`, alignments 1, 2 and the invalid 3 | 8 588 | all invariants of the arena, lists, mask, commits and clients; a shrink to less than `SIZE_MAX` keeps the allocation |
| `allocator_clamped` | 8 granules, but `MAX_ALLOCATION_SIZE` 4; two commit limits; without `realloc_inplace` | 10 316 | one bin holds chunks of many sizes and lists of several chunks; every `realloc` moves or fails; the refinement of `AllocatorContract` |
| `shrink_overflow` | 6 granules, a shrink to `SIZE_MAX` | violation | finding 1 |
| `mutex` | 3 threads, 2 calls each | 1 040 | exclusion, visibility, and that spinners get in |
| `heap_contents` | 7 granules, two commit limits, alignments 1 and 2 | 8 780 | contents, headers and untouched memory, across drops |
| `realloc_copies` | 8 granules, without `realloc_inplace` | violation | finding 2 |
| `reused_memory` | as `heap_contents`, the memory is not fresh after a drop | violation | finding 3 |
| `environments` | all platforms, 14 bytes in granules of 4, pages of 8, four heap bases of which none is aligned, other code on pages below, between and above | 662 | committed is backed, no leaks, what other code can lose, `EnvContract` is implemented |
| `front_ends` | 1 thread, 5 locking calls, sizes 0, 9 and `usize::MAX`, counts with products that wrap, alignments 1, 16 and 24, 8 granules, two bases, a limit that changes | 693 062 | sizes and alignments in bytes; pointer, code and `errno` against the heap |
| `global_allocator` | 2 threads, 2 locking calls each, 4 granules | 113 209 | the refinement of `Allocator`; the unlocked read; liveness of all front ends |

**Bounds.** All runs exhaust their state space; no counter is cut off except `CALLS`,
the calls of `lock()` a thread makes, in `Mutex` and `GlobalAllocator`. Seven granules hold three allocations with a free chunk between each two,
which is every pattern of neighbours `free` distinguishes (free or used on either
side, first or last in the arena), and a cut with free space on both sides. Eight
granules with a small `MAX_ALLOCATION_SIZE` give lists of up to four chunks, so that
a head, an inner element and a tail are unlinked. `SIZE_MAX` 31 stands for the 32-bit limit: it is above every sum the
other sizes can make. The theorems show that the
choice does not matter, for all safety properties. `size_classes` uses the real constants
and visits both ends of every bin instead of all 2^25 sizes: within a bin both
mappings are constant between the values visited (`LeadingBits` exceeds the mantissa
plus the implicit bit). TLC's integers end at 2^31 - 1, which is its `SIZE_MAX`.

In `heap_contents` seven granules allow a moving `realloc` and a zeroed allocation that
is partly above and partly below `allocated_space`, the case `zero_memory` decides. In
`environments` the heap bases are chosen so that rounding crosses the break, the last
page and the end of memory; a usize ends at 127, above every address, as
`ArenaFitsUsize` asks. In `front_ends` a usize ends at 511 and a granule is 8
bytes, so that `usize::MAX` overflows when it is rounded up and `57 * 9` wraps to 1. In
`global_allocator` four granules hold two neighbouring allocations: one thread reads a
header while the other merges or splits next to it.

**Fairness.** `Mutex` and `GlobalAllocator` have liveness properties, under the same
fairness. Each holder eventually drops its
guard (`WF` of `Unlock`): code under the guard has no unbounded loop. When the flag
is clear and threads spin, *some* exchange succeeds (`WF` of the disjunction, not of
each thread): the hardware promises no more, and the lock keeps no queue. So
`SpinnersGetIn` is claimed for threads that call `lock` finitely often (`CALLS`);
with unbounded competitors one thread may starve, in the code as in the model.
`GlobalAllocator` uses the Mutex's fairness as it stands, and adds that a call which
needs no lock returns (it is straight-line code). Its `Unlock` happens only in `Leave`,
so a holder that comes to drop its guard must have gone through `Enter`. Clients need
not call at all. The runs of these two modules switch off the deadlock check because
the threads come to an end, `environments` because `abort` ends the program, and
`size_classes` because it walks through a finite set of inputs.

**Mutants.** For each property `PROJECT.json` names a changed definition (a dropped
update, an off-by-one, a swapped order) under which TLC finds it violated.

## 4. Findings

1. `shrink_inplace` adds the header size with `unchecked_add` (`allocator.rs:963`),
which is a plain `+`: with overflow checks off, `Size(u32::MAX)` wraps to a chunk of
0 granules. The check `new_size >= current_size` that should have made the call a
no-op is then false, the allocation is registered as free space and can be handed out
again while its owner holds it. The run `shrink_overflow` shows the shortest case.
`grow_inplace` uses `checked_add` for the same sum. The internal caller, `realloc`, is
not affected: it shrinks only to sizes below the current one. All theorems about the
allocator therefore assume `SIZE_MAX \notin ShrinkRequests`.

2. Without the feature `realloc_inplace` (which is on by default) `realloc` to a
smaller size copies `current_size` bytes, the old size, into the new and smaller
allocation (`allocator.rs:1108`), over the header behind it. `realloc_copies` shows it
in two calls. With the feature a move only ever grows, and `heap_contents` shows that
nothing is overwritten.

3. `alloc_zeroed` takes memory this allocator never committed to be zero
(`allocator.rs:827`). That holds for linux and CoreVM. It does not hold for a second
allocator over the same `Array`, nor on polkavm and wasm, whose `free_address_space`
gives nothing back (`reused_memory`). Nothing in `env.rs` asks for zeroed memory, while
the doc of `alloc_zeroed` promises it.

## 5. Proofs

Everything below holds for every value of the constants that satisfies the named
assumptions. Of the code it holds for arenas below 4 GiB: `ChunkSize` and `Size::bytes`
shift within 32 bits, while the model's sums are exact (section 6).

| Assumption | Why the code justifies it |
|---|---|
| `SizeClassConstants`, `AllocatorConstants`, `CallsIsNatural`, `EnvironmentConstants`, `GlobalConstants` | the types of the constants |
| `SomeMantissaFits`, `SecondaryMasksFit` | checked at compile time (the last asks for one word less than the code's assertion) |
| `SizeTIsU32` | a `Size` is a `u32` |
| `ArenaFitsSizeT`, `ArenaFitsUsize` | the sizes of arena the code handles (section 6) |
| `AllocatorAssumptions`, `ConstantsAreSized`, `PowersOfTwoNest` | those of `Allocator` for the granules the front ends ask for; alignments fixed in const blocks; a granule is a power of two |

| Theorem | Statement |
|---|---|
| `MaskTypes`, `MaskInvariant`, `FindFirstCorrect` | the mask stays within its words; it represents the bins set; `find_first` is the least from a start |
| `RoundDownIsExact`, `RoundUpIsExact` | every size that can be allocated is filed under the last bin it reaches, and is looked for from the first bin where all chunks fit |
| `MutexExcludes`, `MutexPublishes`, `FlagIsExact` | one guard; each holder sees all earlier writes; the flag tells whether there is a guard |
| `TypesAreKept` | `Spec => []TypeOK` |
| `ChunksTile`, `BackPointersHold`, `FreeSpaceIsMerged` | the arena is tiled, with right back pointers, and merged |
| `ListsStayLinked`, `MaskStaysExact` | free lists and mask are consistent with the chunks |
| `NoFreeChunkIsLost` | following the lists from their heads reaches every free chunk |
| `FittingChunksAreFound` | `alloc` overlooks no chunk in a bin whose chunks all fit |
| `MemoryIsCommitted`, `CommittedMemoryOnlyGrows` | nothing lies outside committed memory, of which none is given back |
| `ClientsKeepTheirChunks`, `ClientsNeverShare` | what clients hold is theirs, disjoint and aligned |
| `ShrinkingIsSafe` | `shrink_inplace` keeps the allocation (`ShrinkKeepsTheAllocation`): with `shrink_overflow` this shows that the overflow is all that is wrong |
| `AllocatorImplementsContract` | `Spec => Contract!Spec` |
| `HeadersStayIntact`, `UncommittedStaysZero`, `ContentsAreKept` | no header is overwritten; memory never committed is zero; clients find what they wrote, and zeros where they were promised them |
| `CommittedMemoryIsBacked`, `AddressSpaceIsReturned`, `OtherPagesStay` | on every platform what is committed is backed by the host, what was reserved is given back, and only the drop of an unused allocator can unmap pages of other code, the lowest ones |
| `PlatformsImplementEnv` | every platform implements `EnvContract` |
| `ThreadsTakeTurns` | any number of threads in the front ends implement `Allocator`: each call is one of its steps |
| `BytesAreServed`, `ClientsAreToldTheTruth` | alignment and size are right in bytes; pointer, code and `errno` say what the call did to the heap |
| `UsableSizeNeedsNoLock` | the word `malloc_usable_size` reads without the lock is not changed by the operation under way |

The theorems about the allocator assume `SIZE_MAX \notin ShrinkRequests` (finding 1),
those about contents also `REALLOC_INPLACE` (finding 2), and the two about zeros and
data also `FRESH_AFTER_DROP` (finding 3). The front ends call neither
`shrink_inplace` nor `grow_inplace` directly, so their theorems need none of these.

**The inductive invariants.** None of the allocator's invariants is inductive alone:
`free` finds its neighbours by the back pointers, unlinks them from a list it computes
from their size, and relies on the mask to be right. `Inv` (`AllocatorProofs`) says
that the heap is either untouched or `Sound`, and that the clients own exactly its
allocated chunks. `Sound` is the conjunction of `Tiled` (types, ends, no overlap, back
pointers), `Merged`, `Listed` (lists and mask, for a given set of chunks) and
`Committed`. Among the parts of `Listed` is `Anchored`: each nonempty set of listed
chunks has one whose predecessor in its list is outside the set. Links that merely
agree with their neighbours would also allow a circle of chunks that no head leads
to; `Anchored` excludes it without an induction along the list.

`ContentsInv` (`HeapContentsProofs`) adds to `Inv` that each chunk's header is in
memory, that what was never committed is zero, and that each client finds what it
expects. Zeros must be known of *free* uncommitted granules, not only of allocated
ones, because `zero_memory` decides by `allocated_space` alone.

`EnvInv` (`EnvironmentsProofs`) relates `base_address` and `allocated_space` to the
host: on polkavm and wasm the base is the rounded heap base and the break is behind
the committed memory, on the others the reserved pages are mapped and apart from
those of other code.

`GlobalInv` (`GlobalAllocatorProofs`) joins the allocator's `Inv` and the lock's with
what lies between a call's steps. `CallsArePrepared`: a prepared call is one the
allocator may be asked. `PointersAreHeld`, `PointersAreApart`: the pointers in the
hands of threads are live and no two threads have the same. `LocksAreTaken`: a thread
is at the lock exactly while its call needs it. `PendingIsCurrent`: who has begun an
operation holds the guard, and what it will leave is what the allocator makes of the
heap as it is *now*, which is where exclusion is needed.
`AskedAreServed`: granules cover the bytes. `ClientsAreToldTheTruth` needs one more fact,
`LiveIsAsked`, which follows from these: the pointers that clients count as theirs are
those of the allocated chunks, before and after the step in which a call ends.

**The argument.**
1. `BinLemmas`, size classes: the facts on powers of two that the rest needs, case by
   case up to 2^32. A size is then an exponent and a mantissa (`IsFloat`), the index of
   its bin grows with both (`IndexOrder`), and so every size has a bin (`BinsExist`),
   a chunk found in a bin is large enough (`BinFits`), and both roundings are exact
   (`RoundedSize`). Then the mask: what `set`, `unset` and `find_first` do to the set it
   stands for.
2. `AllocatorLemmas`, free lists: `unregister_free_space` takes one chunk out of
   `Listed`, `register_free_space` adds one. `Listed(h, F)` speaks of an explicit set
   `F`, since in the middle of an operation the listed chunks are not the free ones.
3. `AllocatorLemmas`, operations: every operation replaces the chunks between two
   borders by at most three, of which only the middle one may be allocated (`IsCut`).
   `TiledCut`, `MergedCut` and `SoundCut` show once what a cut preserves; `FreeOp`,
   `ShrinkOp`, `GrowOp`, `CarveOp`/`AllocInitializedOp` and `InitializeOp` show where
   each operation cuts, and leave only what its caller needs to know (`Freed`,
   `Placed`, `Grown`, `AllocatedFrom`).
4. `AllocatorProofs`: from these, one lemma per action that `Inv` is preserved, and
   one per property that `Inv` implies it. Then one lemma per action that a step of
   the allocator is a step of the contract or leaves `owned` alone. A moving `realloc`
   needs the intermediate heap, in which old and new allocation live side by side.
   Last, what an operation leaves alone (`StillThere`): the headers of the chunks it
   was not called for.
5. `HeapContentsProofs`: one lemma per kind of write (headers, zeros, a client's data,
   the copy of a moving `realloc`) that it hits no granule of somebody else.
6. `EnvironmentsProofs`: one lemma per host call on each platform; for the refinement,
   `usable_granules` is the longest prefix the host backs, and only grows while
   allocator and other code take turns.
7. `GlobalAllocatorProofs`: `AP` and `MP` are instances of the proofs about the
   allocator and the lock, so that all their lemmas hold of the composition. `Enter`
   fixes what an operation will leave, and `Leave`, possibly many steps later, makes it
   the heap; between the two no other thread changes the heap, and so the whole is the
   step of `Allocator` that `Leave` is mapped to.

**Only model-checked.** Liveness of the lock and of the front ends (`SpinnersGetIn`,
`EveryCallReturns`), which the prover cannot do. Every other property that a passing
run checks is also proved.

## 6. Not modelled, and the plan

Not modelled: provenance of pointers and the typed accessors (no state), the
`paranoid` assertions as code (their content is stated as invariants), formatting
traits, the registers of the system calls, the unit tests of `lib.rs` (single runs of
calls that the runs enumerate) and the panic handler of the native crate. Other ways
to use the same memory, like a client that breaks a Safety section, are out of scope.

An arena of 4 GiB or more is excluded by the assumption `ArenaFitsSizeT` of
`Environments`: `Size::bytes` shifts within 32 bits (`allocator.rs:66`), so
`System<SIZE>`, which accepts such a size, would map only `SIZE` modulo 2^32 bytes. The
repository's own allocator has 1 GiB. In the same way `ArenaFitsUsize` excludes an
arena on wasm that ends behind the last address: the sum in `env/wasm.rs:30` would
wrap, and memory that does not exist would be taken for granted.

`Drop` of an allocator that was never used releases a null base (`allocator.rs:578`). On
linux that is `munmap(0, SIZE)`, which takes whatever is mapped in the first `SIZE` bytes;
a program that is not position independent starts at `0x400000`. No comment in the
repository says that this is safe or unsafe, so it is not a finding; `OthersKeepTheirs`
is stated with this exception, and shows that there is no other. The global
allocator is a static and is never dropped.

On polkavm and wasm `MemoryIsBacked` says that committed memory exists, not that it is
the allocator's alone. Memory that other code gets from `sbrk` or `memory_grow` lies in
the same range behind the heap base, and the next commit counts it in; a program there
must leave the break to the allocator. On wasm `memory_size * PAGE_SIZE` wraps to 0 for a
full memory of 4 GiB, and the commit is then refused; the model has the wrap, the run's
memory ends below it.

Two simplifications. Rust's aliasing rules are stricter than the model's: the shared
reference that `header_for_pointer` makes covers the whole header, while
`UnlockedReadIsStable` speaks of the word that is loaded. And `GlobalAllocator` gives
each C call its alignment as `calloc` and `malloc` ask for it, with pointers of 2 bytes
where the code's have 4 or 8, in proportion to the granule.

Next: what the theorems say together about a whole program. Allocations that threads
hold through the front ends are disjoint, which follows from `ThreadsTakeTurns` and
`ClientsNeverShare`, and each thread finds its data as it left it, for which
`HeapContents` would have to be composed with `GlobalAllocator`.
