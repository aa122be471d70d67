-------------------------- MODULE GlobalAllocator --------------------------
(***************************************************************************)
(* GLOBAL_ALLOCATOR: one Allocator behind one Mutex, called by threads     *)
(* through the C interface (malloc, calloc, realloc, free, ...) and        *)
(* through Rust's GlobalAlloc, which a build may offer side by side.       *)
(*                                                                         *)
(* A call first converts bytes to granules and decides what to do, without *)
(* the lock.  Under the lock an operation reads the heap, and is then in   *)
(* the middle of writing it until the guard is dropped.  malloc_usable_size *)
(* reads a header without the lock.                                        *)
(***************************************************************************)
EXTENDS Integers

CONSTANTS
  SIZE_MAX, MASK_BITS, MAX_ALLOCATION_SIZE, MAX_BINS,   \* see SizeClasses
  TOTAL_SPACE, BASES, LIMITS, REALLOC_INPLACE,          \* see Allocator
  Threads, CALLS,                                       \* see Mutex
  GRANULARITY,    \* ALLOCATION_GRANULARITY, in bytes
  USIZE_MAX,      \* usize::MAX
  POINTER_SIZE,   \* size_of::<*mut c_void>()
  CALLOC_ALIGN,   \* the alignment calloc asks for
  AlignBytes,     \* the alignments clients ask for
  ByteSizes,      \* the sizes clients ask for
  Counts          \* the counts of calloc and reallocarray

ASSUME GlobalConstants ==
  /\ GRANULARITY \in Nat \ {0} /\ USIZE_MAX \in Nat
  /\ POINTER_SIZE \in Nat \ {0} /\ CALLOC_ALIGN \in Nat \ {0}
  /\ AlignBytes \subseteq Nat /\ ByteSizes \subseteq 0 .. USIZE_MAX /\ Counts \subseteq Nat
  /\ CALLS \in Nat

VARIABLES
  base_address, allocated_space, free_lists_with_unallocated_memory,
  first_in_free_list, chunks, links, limit,   \* the Allocator and its environment
  flag, pc, calls, seen_by, published,        \* the Mutex
  call,       \* thread -> the call it makes
  pending,    \* thread -> the heap and the answer its operation under way will leave
  reply,      \* thread -> what its last call gave back
  asked       \* external: pointer -> the alignment and size in bytes it was asked with

arena      == <<base_address, allocated_space, free_lists_with_unallocated_memory,
                first_in_free_list, chunks, links>>
mutex_vars == <<flag, pc, calls, seen_by, published>>
vars       == <<arena, limit, mutex_vars, call, pending, reply, asked>>

-----------------------------------------------------------------------------
(* Bytes and granules.                                                     *)

ENOMEM == 12
EINVAL == 22
None   == -1

\* Mutant of from_bytes_usize: rounds down.
from_bytes_truncated(bytes) == IF bytes \div GRANULARITY > SIZE_MAX THEN None ELSE bytes \div GRANULARITY

\* checked_add, shift, and a check that the result is a SizeT.
from_bytes_usize(bytes) ==
  LET size == (bytes + GRANULARITY - 1) \div GRANULARITY
  IN  IF bytes + GRANULARITY - 1 > USIZE_MAX \/ size > SIZE_MAX THEN None ELSE size

Sized(bytes) == from_bytes_usize(bytes) # None

Layout(align, size) == [align |-> align, size |-> size]
granules(layout) == Layout(from_bytes_usize(layout.align), from_bytes_usize(layout.size))

\* Here a layout is in bytes; for the Allocator it is in granules.
owned          == [p \in DOMAIN asked |-> granules(asked[p])]
Aligns         == { from_bytes_usize(a) : a \in AlignBytes \cup {1, POINTER_SIZE, CALLOC_ALIGN} }
                    \ {None}
Requests       == { from_bytes_usize(n * s) : n \in Counts \cup {1}, s \in ByteSizes } \ {None}
ShrinkRequests == {}

A == INSTANCE Allocator

ASSUME AllocatorAssumptions ==
  /\ A!SizeClassConstants /\ A!SizeTIsU32 /\ A!SomeMantissaFits /\ A!SecondaryMasksFit
  /\ A!AllocatorConstants

\* The alignments calloc and realloc ask for are converted in const blocks.
ASSUME ConstantsAreSized ==
  Sized(1) /\ Sized(CALLOC_ALIGN) /\ A!is_power_of_two(CALLOC_ALIGN)

\* A granule is a power of two, so the alignments that are one divide it or are
\* multiples of it.
ASSUME PowersOfTwoNest ==
  \A a \in AlignBytes \cup {POINTER_SIZE, CALLOC_ALIGN} :
    A!is_power_of_two(a) => GRANULARITY % a = 0 \/ a % GRANULARITY = 0

M == INSTANCE Mutex

NULL == A!NULL

-----------------------------------------------------------------------------
(* What a call will do: the function whose last lines will return to the   *)
(* client (a function may hand over to another, as malloc does), what the  *)
(* client asked for in bytes and the Allocator is asked for in granules,   *)
(* and the error of a call that has failed before it asked.                *)

Plan(entry, op, pointer, layout) ==
  [entry |-> entry, op |-> op, pointer |-> pointer, layout |-> layout,
   granules |-> granules(layout), error |-> 0]

NoCall             == Plan("none", "none", NULL, Layout(1, 0))
Nothing(entry)     == Plan(entry, "nothing", NULL, Layout(1, 0))
Fail(entry, error) == [Plan(entry, "fail", NULL, Layout(1, 0)) EXCEPT !.error = error]

memalign_for(entry, align, size) ==
  IF ~A!is_power_of_two(align) \/ align < POINTER_SIZE THEN Fail(entry, EINVAL)
  ELSE IF ~Sized(size) \/ ~Sized(align) THEN Fail(entry, ENOMEM)
  ELSE Plan(entry, "alloc", NULL, Layout(align, size))

posix_memalign(align, size) == memalign_for("posix_memalign", align, size)
aligned_alloc(align, size)  == memalign_for("aligned_alloc", align, size)
malloc(size)                == aligned_alloc(POINTER_SIZE, size)

\* Mutant of calloc: the product may wrap.
calloc_wrapping(count, size) ==
  LET total_size == (count * size) % (USIZE_MAX + 1)
  IN  IF ~Sized(total_size) THEN Fail("calloc", ENOMEM)
      ELSE [Plan("calloc", "alloc", NULL, Layout(CALLOC_ALIGN, count * size))
              EXCEPT !.granules.size = from_bytes_usize(total_size)]

calloc(count, size) ==
  LET total_size == count * size
  IN  IF total_size > USIZE_MAX \/ ~Sized(total_size) THEN Fail("calloc", ENOMEM)
      ELSE Plan("calloc", "alloc", NULL, Layout(CALLOC_ALIGN, total_size))

free(pointer) ==
  IF pointer = NULL THEN Nothing("free") ELSE Plan("free", "free", pointer, Layout(1, 0))

\* A size of 0 frees the pointer and returns null, which is no failure.
realloc(pointer, size) ==
  IF pointer = NULL THEN malloc(size)
  ELSE IF size = 0 THEN free(pointer)
  ELSE IF ~Sized(size) THEN Fail("realloc", ENOMEM)
  ELSE Plan("realloc", "realloc", pointer, Layout(1, size))

reallocarray(pointer, count, size) ==
  IF count * size > USIZE_MAX THEN Fail("realloc", ENOMEM) ELSE realloc(pointer, count * size)

\* Mutant of header_fields_read: the header is read as a whole.
whole_header_read == {"prev_chunk_size", "size", "allocated"}

\* The word of the header that usable_size reads: ChunkSize, without the lock.
header_fields_read == {"size", "allocated"}

malloc_usable_size(pointer) ==
  IF pointer = NULL THEN Nothing("usable_size")
  ELSE Plan("usable_size", "usable_size", pointer, Layout(1, 0))

\* GlobalAlloc has only null to report a failure with.
rust_alloc(align, size) ==
  IF Sized(align) /\ Sized(size) THEN Plan("GlobalAlloc", "alloc", NULL, Layout(align, size))
  ELSE Fail("GlobalAlloc", 0)

rust_realloc(pointer, layout, new_size) ==
  IF pointer # NULL /\ Sized(layout.align) /\ Sized(new_size)
    THEN Plan("GlobalAlloc", "realloc", pointer, Layout(layout.align, new_size))
    ELSE Fail("GlobalAlloc", 0)

rust_dealloc(pointer) == free(pointer)

\* Everything a client may call with the pointers it may use.  GlobalAlloc asks its
\* callers for powers of two and for sizes that are not 0.
Plans(pointers) ==
  LET nullable == pointers \cup {NULL}
      layouts  == { a \in AlignBytes : A!is_power_of_two(a) }
  IN  { malloc(s) : s \in ByteSizes }
      \cup { aligned_alloc(a, s) : a \in AlignBytes, s \in ByteSizes }
      \cup { posix_memalign(a, s) : a \in AlignBytes, s \in ByteSizes }
      \cup { calloc(n, s) : n \in Counts, s \in ByteSizes }
      \cup { realloc(p, s) : p \in nullable, s \in ByteSizes }
      \cup { reallocarray(p, n, s) : p \in nullable, n \in Counts, s \in ByteSizes }
      \cup { free(p) : p \in nullable }
      \cup { malloc_usable_size(p) : p \in nullable }
      \cup { rust_alloc(a, s) : a \in layouts, s \in ByteSizes \ {0} }
      \cup { rust_realloc(p, asked[p], s) : p \in pointers, s \in ByteSizes \ {0} }
      \cup { rust_dealloc(p) : p \in pointers }

-----------------------------------------------------------------------------
(* What the client gets back: a pointer, the int that posix_memalign       *)
(* returns, and errno, which is 0 unless it is set.  ret is what the       *)
(* Allocator returned, and null if it was not asked.                       *)

Unwritten == -2

Reply(pointer, code, errno) == [pointer |-> pointer, code |-> code, errno |-> errno]

\* *result is written in the case of success only, and errno never.
posix_memalign_returns(plan, ret) ==
  IF plan.op = "fail" THEN Reply(Unwritten, plan.error, 0)
  ELSE IF ret # NULL THEN Reply(ret, 0, 0)
  ELSE Reply(Unwritten, ENOMEM, 0)

\* Mutant of aligned_alloc_returns: errno is not set.
aligned_alloc_without_errno(plan, ret) ==
  LET inner == posix_memalign_returns(plan, ret)
  IN  Reply(IF inner.pointer = Unwritten THEN NULL ELSE inner.pointer, 0, 0)

\* result starts as null, for posix_memalign to write; its code goes to errno.
aligned_alloc_returns(plan, ret) ==
  LET inner  == posix_memalign_returns(plan, ret)
      result == IF inner.pointer = Unwritten THEN NULL ELSE inner.pointer
  IN  Reply(result, 0, IF inner.code # 0 THEN inner.code ELSE inner.errno)

calloc_returns(plan, ret) ==
  IF plan.op = "fail" THEN Reply(NULL, 0, plan.error)
  ELSE IF ret # NULL THEN Reply(ret, 0, 0)
  ELSE Reply(NULL, 0, ENOMEM)

\* Mutant of realloc_returns: a failure gives the old pointer back.
realloc_returns_old(plan, ret) ==
  IF plan.op = "fail" THEN Reply(NULL, 0, plan.error)
  ELSE IF ret # NULL THEN Reply(ret, 0, 0)
  ELSE Reply(plan.pointer, 0, ENOMEM)

realloc_returns(plan, ret) ==
  IF plan.op = "fail" THEN Reply(NULL, 0, plan.error)
  ELSE IF ret # NULL THEN Reply(ret, 0, 0)
  ELSE Reply(NULL, 0, ENOMEM)

rust_returns(ret) == Reply(ret, 0, 0)

\* free and malloc_usable_size give no pointer back.
returned(plan, ret) ==
  CASE plan.entry = "posix_memalign" -> posix_memalign_returns(plan, ret)
    [] plan.entry = "aligned_alloc"  -> aligned_alloc_returns(plan, ret)
    [] plan.entry = "calloc"         -> calloc_returns(plan, ret)
    [] plan.entry = "realloc"        -> realloc_returns(plan, ret)
    [] plan.entry = "GlobalAlloc"    -> rust_returns(ret)
    [] OTHER                         -> Reply(NULL, 0, 0)

-----------------------------------------------------------------------------
(* The steps of a thread.                                                  *)

Locking == {"alloc", "realloc", "free"}

Init ==
  /\ asked = [p \in {} |-> Layout(1, 0)]
  /\ A!Init
  /\ M!Init
  /\ call = [t \in Threads |-> NoCall]
  /\ pending = [t \in {} |-> A!returns(A!heap, NULL)]
  /\ reply = [t \in Threads |-> Reply(NULL, 0, 0)]

\* Clients use no pointer in two calls at once.
Idle(t)    == call[t] = NoCall
InUse      == { call[t].pointer : t \in Threads }

\* The client clears errno and calls.
Call(t) ==
  /\ Idle(t)
  /\ \E plan \in Plans(DOMAIN asked \ InUse) :
       /\ call' = [call EXCEPT ![t] = plan]
       /\ IF plan.op \in Locking THEN M!Lock(t) ELSE UNCHANGED mutex_vars
  /\ reply' = [reply EXCEPT ![t] = Reply(NULL, 0, 0)]
  /\ UNCHANGED <<arena, limit, pending, asked>>

\* Calls that need no lock.
Return(t) ==
  /\ call[t].op \in {"fail", "nothing", "usable_size"}
  /\ call' = [call EXCEPT ![t] = NoCall]
  /\ reply' = [reply EXCEPT ![t] = returned(call[t], NULL)]
  /\ UNCHANGED <<arena, limit, mutex_vars, pending, asked>>

Acquire(t) ==
  /\ M!CompareExchange(t)
  /\ UNCHANGED <<arena, limit, call, pending, reply, asked>>

\* The operation of the Allocator, from the heap it finds.
operation(plan, new_base) ==
  LET layout == plan.granules
  IN  CASE plan.op = "alloc"   -> A!alloc_impl(A!heap, new_base, layout.align, layout.size)
        [] plan.op = "realloc" -> A!realloc(A!heap, plan.pointer, layout.align, layout.size)
        [] plan.op = "free"    -> A!returns(A!free(A!heap, plan.pointer), NULL)

Enter(t) ==
  /\ M!Write(t)
  /\ t \notin DOMAIN pending
  /\ \E new_base \in BASES : pending' = A!Put(pending, t, operation(call[t], new_base))
  /\ UNCHANGED <<arena, limit, call, reply, asked>>

\* The heap is written, the guard dropped, and the client has its answer.
Leave(t) ==
  LET plan == call[t]
      ret  == pending[t].ret
      gone == IF plan.op = "free" \/ ret # NULL THEN {plan.pointer} ELSE {}
      got  == { ret } \ {NULL}
  IN  /\ t \in DOMAIN pending
      /\ M!Unlock(t)
      /\ A!BecomeHeap(pending[t].heap)
      /\ asked' = [p \in (DOMAIN asked \ gone) \cup got |->
                     IF p = ret THEN plan.layout ELSE asked[p]]
      /\ reply' = [reply EXCEPT ![t] = returned(plan, ret)]
      /\ call' = [call EXCEPT ![t] = NoCall]
      /\ pending' = A!Without(pending, t)
      /\ UNCHANGED limit

\* External: the host has more or less memory to give than before.
ChangeLimit ==
  /\ DOMAIN pending = {}
  /\ limit' \in LIMITS
  /\ UNCHANGED <<arena, mutex_vars, call, pending, reply, asked>>

Next ==
  \/ \E t \in Threads : Call(t) \/ Return(t) \/ Acquire(t) \/ Enter(t) \/ Leave(t)
  \/ ChangeLimit

\* The Mutex's own fairness (an exchange succeeds while the flag is clear, a holder
\* comes to drop its guard, which takes an Enter and a Leave), and a call that needs no
\* lock returns.  Clients need not call.
Fairness ==
  /\ M!Fairness
  /\ \A t \in Threads : WF_vars(Return(t))

Spec == Init /\ [][Next]_vars /\ Fairness

-----------------------------------------------------------------------------
\* Whatever the interleaving of threads, conversions and lock, the calls act on the
\* allocator as if they came one after the other: no update is lost, no memory leaks
\* when a call fails, and the layouts in bytes that clients asked for are those the
\* allocator serves in granules.
ImplementsAllocator == A!Spec

\* Every live pointer is aligned as was asked, in bytes, and malloc_usable_size tells
\* at least the bytes that were asked for, whatever was rounded on the way.
ServedAsAsked ==
  \A p \in DOMAIN asked :
    /\ (p * GRANULARITY) % asked[p].align = 0
    /\ A!usable_size_impl(A!heap, p) * GRANULARITY >= asked[p].size

\* malloc_usable_size takes no lock, yet no other thread is writing the word it reads,
\* although others may be merging or splitting the chunks next to it.
UnlockedReadIsStable ==
  \A t \in Threads, u \in DOMAIN pending :
    call[t].op = "usable_size" =>
      LET c == A!chunk_of(A!heap, call[t].pointer)
      IN  /\ c \in DOMAIN pending[u].heap.chunks
          /\ \A f \in header_fields_read : pending[u].heap.chunks[c][f] = chunks[c][f]

\* The pointers to the chunks that are allocated, as the heap has it.
live == { A!pointer_to(c) : c \in A!Allocated }

\* How a client learns that a call for memory has failed: from the code of
\* posix_memalign, and everywhere else from a null pointer.
CallsForMemory == {"posix_memalign", "aligned_alloc", "calloc", "realloc", "GlobalAlloc"}
Succeeded(entry, r) == IF entry = "posix_memalign" THEN r.code = 0 ELSE r.pointer # NULL

\* A call for memory that seems to succeed has made one chunk, the one behind the pointer
\* returned, and released the one it was given; one that seems to fail has left the heap
\* as it was and no pointer behind, and a C client finds the reason in the code or in
\* errno.  Only free, realloc to size 0 and dealloc release for nothing in return.
ReplyIsTrue(t) ==
  LET plan == call[t]
      r    == reply'[t]
  IN  IF plan.entry \notin CallsForMemory
        THEN /\ live' = IF plan.op = "free" THEN live \ {plan.pointer} ELSE live
             /\ r.errno = 0
      ELSE IF Succeeded(plan.entry, r)
        THEN /\ live' = (live \ {plan.pointer}) \cup {r.pointer}
             /\ r.pointer \in live => r.pointer = plan.pointer
             /\ r.errno = 0
      ELSE   /\ live' = live
             /\ r.pointer \in {NULL, Unwritten}
             /\ plan.entry = "posix_memalign" => r.pointer = Unwritten
             /\ plan.entry \notin {"posix_memalign", "GlobalAlloc"} =>
                  r.errno \in {ENOMEM, EINVAL}

\* What a call tells its client, by its pointer, its code and errno, is what it has done
\* to the heap, in the step that ends it: a client that believes a failure of realloc
\* still has its memory, none is lost when a call fails after it took the lock, and
\* errno speaks of failures only.
RepliesTellTheTruth ==
  [][\A t \in Threads : ~Idle(t) /\ Idle(t)' => ReplyIsTrue(t)]_vars

\* Every call returns, if the other threads take the lock finitely often: no path
\* through the front ends leaves the lock taken.
EveryCallReturns ==
  \A t \in Threads : ~Idle(t) ~> Idle(t)

=============================================================================
