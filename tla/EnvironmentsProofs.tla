-------------------------- MODULE EnvironmentsProofs --------------------------
(***************************************************************************)
(* What the allocator takes to be memory is memory, a drop leaks nothing,  *)
(* only the drop of an unused allocator takes pages of others, and every   *)
(* platform is an Env: for every arena below 4 GiB, page size, heap base   *)
(* and end of memory.                                                      *)
(***************************************************************************)
EXTENDS Environments, TLAPS

-----------------------------------------------------------------------------
(* Rounding.                                                               *)

LEMMA DivMod ==
  ASSUME NEW x \in Nat, NEW n \in Nat \ {0}
  PROVE  x \div n \in Nat /\ x % n \in 0 .. n - 1 /\ x = n * (x \div n) + (x % n)
  OBVIOUS

LEMMA TimesMonotone ==
  ASSUME NEW n \in Nat, NEW p \in Nat, NEW q \in Nat, p <= q
  PROVE  p * n \in Nat /\ q * n \in Nat /\ p * n <= q * n
<1>1. (q - p) * n \in Nat
  OBVIOUS
<1>2. q * n = p * n + (q - p) * n
  OBVIOUS
<1> QED BY <1>1, <1>2

\* A multiple leaves no remainder.
LEMMA MultipleIsMultiple ==
  ASSUME NEW n \in Nat \ {0}, NEW p \in Nat
  PROVE  p * n \in Nat /\ (p * n) % n = 0
<1> DEFINE x == p * n
           q == x \div n
           r == x % n
<1>1. x \in Nat /\ x = n * p
  OBVIOUS
<1>2. q \in Nat /\ r \in 0 .. n - 1 /\ x = n * q + r
  BY <1>1, DivMod
<1> HIDE DEF q, r
<1>3. ~(p + 1 <= q)
  <2>1. SUFFICES ASSUME p + 1 <= q PROVE FALSE
    OBVIOUS
  <2>2. (p + 1) * n <= q * n
    BY <1>2, <2>1, TimesMonotone
  <2> QED BY <1>1, <1>2, <2>2
<1>4. ~(q + 1 <= p)
  <2>1. SUFFICES ASSUME q + 1 <= p PROVE FALSE
    OBVIOUS
  <2>2. (q + 1) * n <= p * n
    BY <1>2, <2>1, TimesMonotone
  <2>3. (q + 1) * n = n * q + n
    BY <1>2
  <2> QED BY <1>1, <1>2, <2>2, <2>3
<1>5. p = q
  BY <1>2, <1>3, <1>4
<1>6. r = 0
  <2> HIDE DEF x
  <2> QED BY <1>1, <1>2, <1>5
<1> QED BY <1>1, <1>6 DEF r

\* next_multiple_of is the least multiple that is not below its argument.
LEMMA NextMultiple ==
  ASSUME NEW x \in Nat, NEW n \in Nat \ {0}
  PROVE  /\ next_multiple_of(x, n) \in Nat
         /\ x <= next_multiple_of(x, n)
         /\ next_multiple_of(x, n) % n = 0
         /\ \A y \in Nat : y % n = 0 /\ x <= y => next_multiple_of(x, n) <= y
<1> DEFINE t == x + n - 1
           q == t \div n
           m == next_multiple_of(x, n)
<1>1. t \in Nat
  OBVIOUS
<1> HIDE DEF t
<1>2. q \in Nat /\ t % n \in 0 .. n - 1 /\ t = n * q + (t % n)
  BY <1>1, DivMod
<1>3. m = q * n
  BY DEF next_multiple_of, t
<1> HIDE DEF q, m
<1>4. q * n \in Nat /\ (q * n) % n = 0 /\ q * n = n * q
  BY <1>2, MultipleIsMultiple
<1>5. x <= m
  BY <1>2, <1>3, <1>4 DEF t
<1>6. ASSUME NEW y \in Nat, y % n = 0, x <= y PROVE m <= y
  <2>1. PICK k \in Nat : y = k * n
    <3>1. y \div n \in Nat /\ y = n * (y \div n) + 0
      BY <1>6, DivMod
    <3>2. y = (y \div n) * n
      BY <3>1
    <3> QED BY <3>1, <3>2
  <2>2. SUFFICES ASSUME k + 1 <= q PROVE FALSE
    <3>1. ~(k + 1 <= q) => q <= k
      BY <1>2
    <3>2. q <= k => q * n <= k * n
      BY <1>2, TimesMonotone
    <3> QED BY <1>3, <2>1, <3>1, <3>2
  <2>3. (k + 1) * n <= q * n
    BY <1>2, <2>2, TimesMonotone
  <2>4. (k + 1) * n = k * n + n
    OBVIOUS
  <2> QED BY <1>2, <1>4, <1>6, <2>1, <2>3, <2>4 DEF t
<1> QED BY <1>3, <1>4, <1>5, <1>6 DEF m

-----------------------------------------------------------------------------
(* The inductive invariant.                                                *)

Hosts == [break : Nat, mapped : SUBSET Int, others : SUBSET OTHERS, aborted : BOOLEAN]

EnvTypeOK ==
  /\ platform \in PLATFORMS
  /\ heap_base \in HEAP_BASES
  /\ host \in Hosts
  /\ base_address \in Nat
  /\ allocated_space \in 0 .. total_space

\* Something is committed exactly while there is an address space, and it is aligned.
BaseIsReady ==
  /\ (base_address = 0) <=> (allocated_space = 0)
  /\ base_address % GRANULARITY = 0

\* Where the heap has a fixed place, the address space begins there.
BaseIsHeapBase ==
  platform \in {"array", "polkavm", "wasm"} /\ base_address # 0
    => base_address = aligned_heap_base

\* Where memory is committed by moving the break, it ends at the break or before.
BreakIsBehind ==
  platform \in {"polkavm", "wasm"} /\ base_address # 0
    => base_address + allocated_space * GRANULARITY <= break

\* The pages of other code are whole pages outside of what the allocator mapped and of
\* the low addresses.
OthersAreApart ==
  platform \in {"linux", "corevm"} =>
    \A q \in others : q % PAGE_SIZE = 0 /\ page(q) \cap mapped = {}

EnvInv ==
  /\ EnvTypeOK
  /\ BaseIsReady
  /\ BaseIsHeapBase
  /\ BreakIsBehind
  /\ OthersAreApart
  /\ NothingLeaks

-----------------------------------------------------------------------------
(* Sizes and the environment's answers.                                    *)

LEMMA SmallRemainder ==
  ASSUME NEW x \in Nat, NEW n \in Nat \ {0}, x < n
  PROVE  x % n = x
  OBVIOUS

\* A number that is a multiple of the page is one of the granule.
LEMMA PageMultiple ==
  ASSUME NEW y \in Nat, y % PAGE_SIZE = 0
  PROVE  y % GRANULARITY = 0
<1>1. PICK k \in Nat : y = k * PAGE_SIZE
  <2>1. y \div PAGE_SIZE \in Nat /\ y = PAGE_SIZE * (y \div PAGE_SIZE) + 0
    BY EnvironmentConstants, DivMod
  <2>2. y = (y \div PAGE_SIZE) * PAGE_SIZE
    BY <2>1, EnvironmentConstants
  <2> QED BY <2>1, <2>2
<1>2. PICK j \in Nat : PAGE_SIZE = j * GRANULARITY
  <2>1. /\ PAGE_SIZE \div GRANULARITY \in Nat
        /\ PAGE_SIZE = GRANULARITY * (PAGE_SIZE \div GRANULARITY) + 0
    BY EnvironmentConstants, DivMod
  <2>2. PAGE_SIZE = (PAGE_SIZE \div GRANULARITY) * GRANULARITY
    BY <2>1, EnvironmentConstants
  <2> QED BY <2>1, <2>2
<1>3. k * j \in Nat /\ y = (k * j) * GRANULARITY
  BY <1>1, <1>2, EnvironmentConstants
<1> QED BY <1>3, MultipleIsMultiple, EnvironmentConstants

\* The arena, in granules.
LEMMA Space ==
  /\ total_space \in Nat \ {0}
  /\ total_space * GRANULARITY = next_multiple_of(SIZE, GRANULARITY)
  /\ total_space * GRANULARITY \in Nat \ {0}
<1>1. SIZE \in Nat \ {0} /\ GRANULARITY \in Nat \ {0}
  BY EnvironmentConstants
<1>2. total_space * GRANULARITY = next_multiple_of(SIZE, GRANULARITY)
  BY DEF total_space, next_multiple_of
<1>3. next_multiple_of(SIZE, GRANULARITY) \in Nat \ {0}
  BY <1>1, NextMultiple
<1>4. total_space \in Nat
  <2>1. SIZE + GRANULARITY - 1 \in Nat
    BY <1>1
  <2> QED BY <1>1, <2>1, DivMod DEF total_space
<1>5. total_space # 0
  BY <1>1, <1>2, <1>3
<1> QED BY <1>2, <1>3, <1>4, <1>5

\* The shift of Size::bytes loses nothing, and a larger size has more bytes.
LEMMA Bytes ==
  ASSUME NEW n \in 0 .. total_space
  PROVE  /\ n * GRANULARITY \in Nat
         /\ n * GRANULARITY <= total_space * GRANULARITY
         /\ bytes(n) = n * GRANULARITY
<1>1. n \in Nat /\ n <= total_space /\ GRANULARITY \in Nat /\ SIZE_T \in Nat \ {0}
  BY Space, EnvironmentConstants
<1>2. n * GRANULARITY \in Nat /\ n * GRANULARITY <= total_space * GRANULARITY
  BY <1>1, Space, TimesMonotone
<1>3. n * GRANULARITY < SIZE_T
  BY <1>2, Space, ArenaFitsSizeT, EnvironmentConstants
<1>4. (n * GRANULARITY) % SIZE_T = n * GRANULARITY
  BY <1>1, <1>2, <1>3, SmallRemainder
<1> QED BY <1>2, <1>4 DEF bytes

\* What is mapped holds the arena.
LEMMA MappedLength ==
  /\ mapped_length \in Nat \ {0}
  /\ total_space * GRANULARITY <= mapped_length
<1>1. bytes(total_space) = total_space * GRANULARITY
  BY Space, Bytes
<1>2. PAGE_SIZE \in Nat \ {0} /\ GRANULARITY \in Nat \ {0} /\ SIZE \in Nat
  BY EnvironmentConstants
<1>3. mapped_length = next_multiple_of(total_space * GRANULARITY, PAGE_SIZE)
  BY <1>1 DEF mapped_length
<1>4. mapped_length \in Nat /\ total_space * GRANULARITY <= mapped_length
  BY <1>2, <1>3, Space, NextMultiple
<1> QED BY <1>4, Space

\* The rounded heap base is a granule's address, and on wasm the arena ends below USIZE.
LEMMA HeapBase ==
  ASSUME platform \in PLATFORMS, heap_base \in HEAP_BASES
  PROVE  /\ aligned_heap_base \in Nat \ {0}
         /\ aligned_heap_base % GRANULARITY = 0
         /\ platform = "wasm" => aligned_heap_base + total_space * GRANULARITY < USIZE
<1>1. heap_base \in Nat \ {0} /\ GRANULARITY \in Nat \ {0}
  BY EnvironmentConstants
<1>2. aligned_heap_base \in Nat \ {0} /\ aligned_heap_base % GRANULARITY = 0
  BY <1>1, NextMultiple DEF aligned_heap_base
<1>3. platform = "wasm" => aligned_heap_base + total_space * GRANULARITY < USIZE
  BY ArenaFitsUsize DEF aligned_heap_base
<1> QED BY <1>2, <1>3

\* A host that was only asked for more memory: its break has not gone down.
Raised(h, g) ==
  /\ g \in Hosts /\ h.break <= g.break
  /\ g.mapped = h.mapped /\ g.others = h.others /\ g.aborted = h.aborted

\* sbrk and memory_grow give what is asked for, or nothing.
LEMMA GrowOutcome ==
  ASSUME NEW h \in Hosts, NEW length \in Nat, NEW unit \in Nat \ {0}
  PROVE  LET r == grow_outcome(h, length, unit)
         IN  /\ Raised(h, r.host) /\ r.answer \in BOOLEAN
             /\ r.answer => h.break + length <= r.host.break
<1> DEFINE g == grown(h, length, unit)
           m == next_multiple_of(length, unit)
<1>1. m \in Nat /\ length <= m
  BY NextMultiple
<1>2. g = [h EXCEPT !.break = @ + m]
  BY DEF grown
<1> HIDE DEF m, g
<1>3. Raised(h, g) /\ g.break = h.break + m
  BY <1>1, <1>2 DEF Raised, Hosts
<1>4. Raised(h, h)
  BY DEF Raised, Hosts
<1>5. grow_outcome(h, length, unit) =
        IF g.break <= MEMORY_END THEN outcome(g, TRUE) ELSE outcome(h, FALSE)
  BY DEF grow_outcome, g
<1>6. h.break \in Nat
  BY DEF Hosts
<1> QED BY <1>1, <1>3, <1>4, <1>5, <1>6 DEF outcome

\* On polkavm the break is at the rounded heap base, or there is no address space.
LEMMA PolkavmAllocate ==
  ASSUME NEW h \in Hosts, platform \in PLATFORMS, heap_base \in HEAP_BASES
  PROVE  LET r == polkavm_allocate(h)
         IN  /\ Raised(h, r.host)
             /\ r.answer # 0 => r.answer = aligned_heap_base /\ aligned_heap_base <= r.host.break
<1>1. aligned_heap_base \in Nat /\ h.break \in Nat
  BY HeapBase DEF Hosts
<1>2. Raised(h, h)
  BY DEF Raised, Hosts
<1>3. CASE h.break >= aligned_heap_base
  BY <1>1, <1>2, <1>3 DEF polkavm_allocate, outcome
<1>4. CASE ~(h.break >= aligned_heap_base)
  <2> DEFINE moved == grow_outcome(h, aligned_heap_base - h.break, 1)
  <2>1. /\ Raised(h, moved.host) /\ moved.answer \in BOOLEAN
        /\ moved.answer => h.break + (aligned_heap_base - h.break) <= moved.host.break
    BY <1>1, <1>4, GrowOutcome
  <2>2. polkavm_allocate(h) =
          IF moved.answer THEN outcome(moved.host, aligned_heap_base) ELSE outcome(h, 0)
    BY <1>4 DEF polkavm_allocate
  <2> HIDE DEF moved
  <2> QED BY <1>1, <1>2, <2>1, <2>2 DEF outcome
<1> QED BY <1>3, <1>4

\* When expand_memory_until says yes, there is memory up to the offset asked for.
LEMMA Expand ==
  ASSUME NEW h \in Hosts, platform \in PLATFORMS,
         NEW base \in Nat, NEW size \in 1 .. total_space,
         platform = "polkavm" => base <= h.break,
         platform = "wasm" => base + size * GRANULARITY < USIZE
  PROVE  LET r == expand_memory_until(h, base, size)
         IN  /\ Raised(h, r.host)
             /\ r.answer /\ platform \in {"polkavm", "wasm"}
                  => base + size * GRANULARITY <= r.host.break
             /\ platform \in {"array", "linux", "corevm"} => r.host = h /\ r.answer
<1>1. Raised(h, h)
  BY DEF Raised, Hosts
<1>2. /\ size * GRANULARITY \in Nat /\ bytes(size) = size * GRANULARITY
      /\ size <= total_space
  BY Bytes, Space
<1>3. h.break \in Nat /\ USIZE \in Nat \ {0} /\ PAGE_SIZE \in Nat \ {0}
  BY EnvironmentConstants DEF Hosts
<1>4. CASE platform = "polkavm"
  <2> DEFINE have == (h.break - base) % USIZE
             more == grow_outcome(h, bytes(size) - have, 1)
  <2>0. h.break - base \in Nat
    BY <1>3, <1>4
  <2>1. have \in Nat /\ have <= h.break - base
    <3> DEFINE d == h.break - base
    <3>1. d \in Nat
      BY <2>0
    <3> HIDE DEF d
    <3>2. d \div USIZE \in Nat /\ d % USIZE \in 0 .. USIZE - 1 /\ d = USIZE * (d \div USIZE) + (d % USIZE)
      BY <1>3, <3>1, DivMod
    <3>3. USIZE * (d \div USIZE) \in Nat
      BY <1>3, <3>2
    <3>4. d % USIZE <= d
      BY <3>1, <3>2, <3>3
    <3> QED BY <3>2, <3>4 DEF d
  <2>2. expand_memory_until(h, base, size) =
          IF have >= bytes(size) THEN outcome(h, TRUE) ELSE more
    BY <1>4 DEF expand_memory_until, polkavm_expand
  <2> HIDE DEF have
  <2>3. CASE have >= bytes(size)
    BY <1>1, <1>2, <1>3, <1>4, <2>1, <2>2, <2>3 DEF outcome
  <2>4. CASE ~(have >= bytes(size))
    <3>1. bytes(size) - have \in Nat
      BY <1>2, <2>1, <2>4
    <3>2. /\ Raised(h, more.host) /\ more.answer \in BOOLEAN
          /\ more.answer => h.break + (bytes(size) - have) <= more.host.break
      BY <3>1, GrowOutcome
    <3> HIDE DEF more
    <3>3. more.host.break \in Nat
      BY <3>2 DEF Raised, Hosts
    <3>4. more.answer => base + size * GRANULARITY <= more.host.break
      BY <1>2, <1>3, <2>1, <3>2, <3>3
    <3> QED BY <1>4, <2>2, <2>4, <3>2, <3>4
  <2> QED BY <2>3, <2>4
<1>5. CASE platform = "wasm"
  <2> DEFINE end  == base + size * GRANULARITY
             now  == h.break % USIZE
             more == grow_outcome(h, end - now, PAGE_SIZE)
  <2>1. end \in Nat /\ now \in 0 .. h.break
    <3>1. USIZE \in Nat \ {0} /\ h.break \in Nat
      BY <1>3, EnvironmentConstants
    <3>2. h.break % USIZE \in 0 .. h.break
      BY <3>1
    <3> QED BY <1>2, <3>2
  <2>2. (base + bytes(size)) % USIZE = end
    BY <1>2, <1>3, <1>5, <2>1, SmallRemainder
  <2>3. expand_memory_until(h, base, size) =
          IF now >= end THEN outcome(h, TRUE) ELSE more
    BY <1>5, <2>2 DEF expand_memory_until, wasm_expand
  <2> HIDE DEF now
  <2>4. CASE now >= end
    BY <1>1, <1>3, <1>5, <2>1, <2>3, <2>4 DEF outcome
  <2>5. CASE ~(now >= end)
    <3> HIDE DEF end
    <3>1. end - now \in Nat
      BY <1>3, <2>1, <2>5
    <3>2. /\ Raised(h, more.host) /\ more.answer \in BOOLEAN
          /\ more.answer => h.break + (end - now) <= more.host.break
      BY <1>3, <3>1, GrowOutcome
    <3> HIDE DEF more
    <3>3. more.host.break \in Nat
      BY <3>2 DEF Raised, Hosts
    <3>4. more.answer => end <= more.host.break
      BY <1>3, <2>1, <3>2, <3>3
    <3> QED BY <1>5, <2>3, <2>5, <3>2, <3>4 DEF end
  <2> QED BY <2>4, <2>5
<1>6. CASE platform \in {"array", "linux", "corevm"}
  BY <1>1, <1>2, <1>6, Space DEF expand_memory_until, outcome
<1> QED BY <1>4, <1>5, <1>6, EnvironmentConstants

-----------------------------------------------------------------------------
(* Every step keeps the invariant.                                         *)

\* What a step never does: move the program, lower the break, or move an address space.
Keeps ==
  /\ platform' = platform /\ heap_base' = heap_base
  /\ break <= break'
  /\ base_address # 0 => base_address' \in {0, base_address}

LEMMA Become ==
  ASSUME NEW g \in Hosts, BecomeHost(g)
  PROVE  /\ host' = g /\ host' \in Hosts
         /\ break' = g.break /\ mapped' = g.mapped /\ others' = g.others /\ aborted' = g.aborted
         /\ platform' = platform /\ heap_base' = heap_base
  BY DEF Hosts, BecomeHost, host

\* Where the heap has a fixed place, a host that was only asked for memory is enough.
LEMMA RaisedInv ==
  ASSUME EnvInv, platform \in {"array", "polkavm", "wasm"},
         NEW g, Raised(host, g), BecomeHost(g),
         base_address' \in {0, aligned_heap_base}, allocated_space' \in 0 .. total_space,
         (base_address' = 0) <=> (allocated_space' = 0),
         platform \in {"polkavm", "wasm"} /\ base_address' # 0 =>
           base_address' + allocated_space' * GRANULARITY <= g.break
  PROVE  EnvInv' /\ Keeps /\ others' = others
<1>1. platform \in PLATFORMS /\ heap_base \in HEAP_BASES
  BY DEF EnvInv, EnvTypeOK
<1>2. g \in Hosts /\ break <= g.break /\ g.others = others
  BY DEF Raised, host
<1>3. /\ host' \in Hosts /\ break' = g.break /\ others' = others
      /\ platform' = platform /\ heap_base' = heap_base
  BY <1>2, Become
<1>4. aligned_heap_base' = aligned_heap_base
  BY <1>3 DEF aligned_heap_base
<1>5. aligned_heap_base \in Nat \ {0} /\ aligned_heap_base % GRANULARITY = 0
  BY <1>1, HeapBase
<1>6. 0 % GRANULARITY = 0
  BY EnvironmentConstants
<1>7. EnvTypeOK' /\ BaseIsReady' /\ BaseIsHeapBase'
  BY <1>1, <1>3, <1>4, <1>5, <1>6 DEF EnvTypeOK, BaseIsReady, BaseIsHeapBase
<1>8. BreakIsBehind' /\ OthersAreApart' /\ NothingLeaks'
  BY <1>3 DEF BreakIsBehind, OthersAreApart, NothingLeaks
<1>9. base_address # 0 => base_address = aligned_heap_base
  BY DEF EnvInv, BaseIsHeapBase
<1> QED BY <1>2, <1>3, <1>7, <1>8, <1>9 DEF EnvInv, Keeps

\* allocate_address_space on the platforms that map: a free place, or none.
LEMMA MapSpace ==
  ASSUME NEW space \in allocate_address_space(host), platform \in {"linux", "corevm"}
  PROVE  \/ space.answer = 0 /\ space.host \in {host, abort(host)}
         \/ /\ space.answer \in places(host, mapped_length)
            /\ space.host =
                 [host EXCEPT !.mapped = @ \cup range(space.answer, mapped_length)]
<1>1. space \in map_outcomes(host, mapped_length)
        \/ space \in {outcome(abort(host), 0), outcome(host, 0)}
  BY MappedLength DEF allocate_address_space
<1>2. CASE space \in map_outcomes(host, mapped_length)
  BY <1>2 DEF map_outcomes, outcome
<1>3. CASE space \in {outcome(abort(host), 0), outcome(host, 0)}
  BY <1>3 DEF outcome
<1> QED BY <1>1, <1>2, <1>3

\* allocate_address_space on the others: the rounded heap base, below the break.
LEMMA FixedSpace ==
  ASSUME EnvTypeOK, NEW space \in allocate_address_space(host),
         platform \in {"array", "polkavm", "wasm"}
  PROVE  /\ Raised(host, space.host)
         /\ space.answer # 0 => space.answer = aligned_heap_base
         /\ space.answer # 0 /\ platform = "polkavm" => space.answer <= space.host.break
<1>1. Raised(host, host) /\ host \in Hosts
  BY DEF Raised, Hosts, EnvTypeOK
<1>2. CASE platform \in {"array", "wasm"}
  BY <1>1, <1>2 DEF allocate_address_space, outcome
<1>3. CASE platform = "polkavm"
  <2>1. space = polkavm_allocate(host)
    BY <1>3 DEF allocate_address_space
  <2> QED BY <1>1, <2>1, PolkavmAllocate DEF EnvTypeOK
<1> QED BY <1>2, <1>3

\* Where memory is mapped, the address space in use is all that may be mapped.
LEMMA MappedInv ==
  ASSUME EnvInv, platform \in {"linux", "corevm"},
         NEW g \in Hosts, BecomeHost(g), g.break = break,
         base_address' \in Nat, base_address' % GRANULARITY = 0,
         allocated_space' \in 0 .. total_space,
         (base_address' = 0) <=> (allocated_space' = 0),
         base_address # 0 => base_address' \in {0, base_address},
         g.mapped = IF base_address' = 0 THEN {} ELSE range(base_address', mapped_length),
         \A q \in g.others : q % PAGE_SIZE = 0 /\ page(q) \cap g.mapped = {}
  PROVE  EnvInv' /\ Keeps
<1>1. platform \in PLATFORMS /\ heap_base \in HEAP_BASES /\ break \in Nat
  BY DEF EnvInv, EnvTypeOK, Hosts, host
<1>2. /\ host' \in Hosts /\ break' = break /\ mapped' = g.mapped /\ others' = g.others
      /\ platform' = platform /\ heap_base' = heap_base
  BY Become
<1>3. EnvTypeOK' /\ BaseIsReady'
  BY <1>1, <1>2 DEF EnvTypeOK, BaseIsReady
<1>4. BaseIsHeapBase' /\ BreakIsBehind'
  BY <1>2 DEF BaseIsHeapBase, BreakIsBehind
<1>5. OthersAreApart' /\ NothingLeaks'
  BY <1>2 DEF OthersAreApart, NothingLeaks
<1> QED BY <1>1, <1>2, <1>3, <1>4, <1>5 DEF EnvInv, Keeps

LEMMA EnvInit == Init => EnvInv
<1> SUFFICES ASSUME Init PROVE EnvInv
  OBVIOUS
<1>1. break \in Nat
  <2>1. heap_base \in Nat /\ MEMORY_END \in Nat
    BY EnvironmentConstants DEF Init
  <2>2. CASE platform = "polkavm"
    BY <2>1, <2>2 DEF Init
  <2>3. CASE platform = "wasm"
    BY <2>1, <2>3 DEF Init
  <2>4. CASE platform \notin {"polkavm", "wasm"}
    BY <2>4 DEF Init
  <2> QED BY <2>2, <2>3, <2>4
<1>2. 0 % GRANULARITY = 0
  BY EnvironmentConstants
<1>3. host \in Hosts
  <2>1. break \in Nat /\ mapped = {} /\ others = {} /\ aborted \in BOOLEAN
    BY <1>1 DEF Init
  <2> QED BY <2>1 DEF Hosts, host
<1>4. platform \in PLATFORMS /\ heap_base \in HEAP_BASES
      /\ base_address = 0 /\ allocated_space = 0
  BY DEF Init
<1>5. EnvTypeOK /\ BaseIsReady
  BY <1>2, <1>3, <1>4, Space DEF EnvTypeOK, BaseIsReady
<1> QED BY <1>5 DEF Init, EnvInv, BaseIsHeapBase, BreakIsBehind, OthersAreApart, NothingLeaks

LEMMA InitializeInv ==
  ASSUME EnvInv, InitializeImpl
  PROVE  EnvInv' /\ Keeps /\ others' = others
<1>1. PICK space \in allocate_address_space(host) :
        LET ready == expand_memory_until(space.host, space.answer, FREE_CHUNK_HEADER_SIZE)
        IN  \/ /\ space.answer = 0
               /\ BecomeHost(space.host)
               /\ UNCHANGED <<base_address, allocated_space>>
            \/ /\ space.answer # 0 /\ ready.answer
               /\ BecomeHost(ready.host)
               /\ base_address' = space.answer
               /\ allocated_space' = FREE_CHUNK_HEADER_SIZE
            \/ /\ space.answer # 0 /\ ~ready.answer
               /\ BecomeHost(free_address_space(ready.host, space.answer))
               /\ UNCHANGED <<base_address, allocated_space>>
  BY DEF InitializeImpl
<1> DEFINE ready == expand_memory_until(space.host, space.answer, FREE_CHUNK_HEADER_SIZE)
<1>2. /\ base_address = 0 /\ allocated_space = 0 /\ EnvTypeOK /\ host \in Hosts
      /\ platform \in PLATFORMS /\ heap_base \in HEAP_BASES
  BY DEF InitializeImpl, EnvInv, BaseIsReady, EnvTypeOK
<1>3. FREE_CHUNK_HEADER_SIZE = 1 /\ 1 \in 1 .. total_space /\ 0 \in 0 .. total_space
      /\ 1 \in 0 .. total_space
  BY Space DEF FREE_CHUNK_HEADER_SIZE
<1>4. CASE platform \in {"array", "polkavm", "wasm"}
  <2>1. /\ Raised(host, space.host)
        /\ space.answer # 0 => space.answer = aligned_heap_base
        /\ space.answer # 0 /\ platform = "polkavm" => space.answer <= space.host.break
    BY <1>2, <1>4, FixedSpace
  <2>2. space.host \in Hosts
    BY <2>1 DEF Raised
  <2>3. CASE space.answer = 0
    <3>1. BecomeHost(space.host) /\ base_address' = 0 /\ allocated_space' = 0
      BY <1>1, <1>2, <2>3
    <3> QED BY <1>3, <1>4, <2>1, <3>1, RaisedInv
  <2>4. CASE space.answer # 0
    <3>1. space.answer = aligned_heap_base /\ aligned_heap_base \in Nat \ {0}
      BY <1>2, <2>1, <2>4, HeapBase
    <3>2. platform = "wasm" => space.answer + 1 * GRANULARITY < USIZE
      <4>1. /\ platform = "wasm" => aligned_heap_base + total_space * GRANULARITY < USIZE
        BY <1>2, HeapBase
      <4>2. 1 * GRANULARITY \in Nat /\ 1 * GRANULARITY <= total_space * GRANULARITY
        BY <1>3, Bytes
      <4> QED BY <3>1, <4>1, <4>2, Space, EnvironmentConstants
    <3>3. /\ Raised(space.host, ready.host)
          /\ ready.answer /\ platform \in {"polkavm", "wasm"}
               => space.answer + 1 * GRANULARITY <= ready.host.break
      BY <1>2, <1>3, <2>1, <2>2, <2>4, <3>1, <3>2, Expand
    <3> HIDE DEF ready
    <3>4. Raised(host, ready.host)
      BY <1>2, <2>1, <3>3 DEF Raised, Hosts
    <3>5. CASE ready.answer
      <4>1. /\ BecomeHost(ready.host) /\ base_address' = aligned_heap_base
            /\ allocated_space' = 1
        BY <1>1, <1>3, <2>4, <3>1, <3>5 DEF ready
      <4> QED BY <1>3, <1>4, <3>1, <3>3, <3>4, <3>5, <4>1, RaisedInv
    <3>6. CASE ~ready.answer
      <4>1. free_address_space(ready.host, space.answer) = ready.host
        BY <1>4 DEF free_address_space
      <4>2. BecomeHost(ready.host) /\ base_address' = 0 /\ allocated_space' = 0
        BY <1>1, <1>2, <2>4, <3>6, <4>1 DEF ready
      <4> QED BY <1>3, <1>4, <3>4, <4>2, RaisedInv
    <3> QED BY <3>5, <3>6
  <2> QED BY <2>3, <2>4
<1>5. CASE platform \in {"linux", "corevm"}
  <2>1. mapped = {} /\ \A q \in others : q % PAGE_SIZE = 0
    BY <1>2, <1>5 DEF EnvInv, NothingLeaks, OthersAreApart
  <2>2. 0 % GRANULARITY = 0
    BY EnvironmentConstants
  <2>3. CASE space.answer = 0
    <3>1. BecomeHost(space.host) /\ base_address' = 0 /\ allocated_space' = 0
      BY <1>1, <1>2, <2>3
    <3>2. 0 \notin places(host, mapped_length)
      BY DEF places
    <3>3. space.host \in {host, abort(host)}
      BY <1>5, <2>3, <3>2, MapSpace
    <3>4. /\ space.host \in Hosts /\ space.host.break = break /\ space.host.mapped = {}
          /\ space.host.others = others
      <4>1. CASE space.host = host
        BY <1>2, <2>1, <4>1 DEF host
      <4>2. CASE space.host = abort(host)
        <5>1. abort(host) \in Hosts
          BY <1>2 DEF abort, Hosts
        <5>2. /\ abort(host).break = host.break /\ abort(host).mapped = host.mapped
              /\ abort(host).others = host.others
          BY <1>2 DEF abort, Hosts
        <5>3. host.break = break /\ host.mapped = mapped /\ host.others = others
          BY DEF host
        <5> QED BY <2>1, <4>2, <5>1, <5>2, <5>3
      <4> QED BY <3>3, <4>1, <4>2
    <3>5. EnvInv' /\ Keeps
      BY <1>2, <1>3, <1>5, <2>1, <2>2, <3>1, <3>4, MappedInv
    <3>6. others' = others
      BY <3>1, <3>4, Become
    <3> QED BY <3>5, <3>6
  <2>4. CASE space.answer # 0
    <3> DEFINE p == space.answer
               g == space.host
    <3>1. /\ p \in places(host, mapped_length)
          /\ g = [host EXCEPT !.mapped = @ \cup range(p, mapped_length)]
      BY <1>5, <2>4, MapSpace
    <3>2. p \in Nat \ {0} /\ p % PAGE_SIZE = 0
      BY <3>1, MappedLength, EnvironmentConstants DEF places
    <3>3. \A q \in others : page(q) \cap range(p, mapped_length) = {}
      BY <3>1 DEF places, host
    <3>4. /\ g \in Hosts /\ g.break = break /\ g.others = others
          /\ g.mapped = range(p, mapped_length)
      <4>1. range(p, mapped_length) \subseteq Int
        BY <3>2, MappedLength DEF range
      <4> HIDE DEF p
      <4> QED BY <1>2, <2>1, <3>1, <4>1 DEF host, Hosts
    <3>5. ready.host = g /\ ready.answer
      BY <1>5 DEF expand_memory_until, outcome
    <3>6. BecomeHost(g) /\ base_address' = p /\ allocated_space' = 1
      BY <1>1, <1>3, <2>4, <3>5
    <3>7. p % GRANULARITY = 0
      BY <3>2, PageMultiple
    <3> HIDE DEF p, g
    <3>8. EnvInv' /\ Keeps
      BY <1>2, <1>3, <1>5, <2>1, <3>2, <3>3, <3>4, <3>6, <3>7, MappedInv
    <3>9. others' = others
      BY <3>4, <3>6, Become
    <3> QED BY <3>8, <3>9
  <2> QED BY <2>3, <2>4
<1> QED BY <1>2, <1>4, <1>5, EnvironmentConstants

LEMMA CommitInv ==
  ASSUME EnvInv, NEW end_offset \in 1 .. total_space, Commit(end_offset)
  PROVE  EnvInv' /\ Keeps /\ others' = others
<1> DEFINE grant == expand_memory_until(host, base_address, end_offset)
<1>1. /\ base_address # 0 /\ EnvTypeOK /\ host \in Hosts
      /\ base_address \in Nat /\ base_address % GRANULARITY = 0
      /\ allocated_space \in 0 .. total_space /\ allocated_space # 0
      /\ platform \in PLATFORMS /\ heap_base \in HEAP_BASES /\ break \in Nat
  BY DEF Commit, EnvInv, BaseIsReady, EnvTypeOK, host, Hosts
<1>2. /\ BecomeHost(grant.host) /\ base_address' = base_address
      /\ allocated_space' = IF grant.answer THEN end_offset ELSE allocated_space
  BY DEF Commit
<1>3. end_offset \in 0 .. total_space /\ end_offset # 0
  BY Space
<1>4. CASE platform \in {"array", "polkavm", "wasm"}
  <2>1. base_address = aligned_heap_base
    BY <1>1, <1>4 DEF EnvInv, BaseIsHeapBase
  <2>2. platform \in {"polkavm", "wasm"}
          => base_address + allocated_space * GRANULARITY <= break
    BY <1>1 DEF EnvInv, BreakIsBehind
  <2>3. platform = "polkavm" => base_address <= host.break
    <3>1. allocated_space * GRANULARITY \in Nat
      BY <1>1, Bytes
    <3> QED BY <1>1, <2>2, <3>1 DEF host
  <2>4. platform = "wasm" => base_address + end_offset * GRANULARITY < USIZE
    <3>1. platform = "wasm" => aligned_heap_base + total_space * GRANULARITY < USIZE
      BY <1>1, HeapBase
    <3>2. /\ end_offset * GRANULARITY \in Nat
          /\ end_offset * GRANULARITY <= total_space * GRANULARITY
      BY <1>3, Bytes
    <3> QED BY <1>1, <2>1, <3>1, <3>2, Space, EnvironmentConstants
  <2>5. /\ Raised(host, grant.host)
        /\ grant.answer /\ platform \in {"polkavm", "wasm"}
             => base_address + end_offset * GRANULARITY <= grant.host.break
    BY <1>1, <2>3, <2>4, Expand
  <2> HIDE DEF grant
  <2>6. grant.host.break \in Nat /\ break <= grant.host.break
    BY <2>5 DEF Raised, Hosts, host
  <2>7. platform \in {"polkavm", "wasm"}
          => base_address' + allocated_space' * GRANULARITY <= grant.host.break
    <3>1. CASE grant.answer
      BY <1>2, <2>5, <3>1
    <3>2. CASE ~grant.answer
      <4>1. allocated_space * GRANULARITY \in Nat
        BY <1>1, Bytes
      <4> QED BY <1>1, <1>2, <2>2, <2>6, <3>2, <4>1
    <3> QED BY <3>1, <3>2
  <2>8. allocated_space' \in 0 .. total_space /\ allocated_space' # 0
    BY <1>1, <1>2, <1>3
  <2> QED BY <1>1, <1>2, <1>4, <2>1, <2>5, <2>7, <2>8, RaisedInv
<1>5. CASE platform \in {"linux", "corevm"}
  <2>1. grant.host = host /\ grant.answer
    BY <1>5 DEF expand_memory_until, outcome
  <2>2. BecomeHost(host) /\ allocated_space' = end_offset
    BY <1>2, <2>1
  <2>3. /\ mapped = IF base_address' = 0 THEN {} ELSE range(base_address', mapped_length)
        /\ \A q \in others : q % PAGE_SIZE = 0 /\ page(q) \cap mapped = {}
    BY <1>2, <1>5 DEF EnvInv, NothingLeaks, OthersAreApart
  <2>4. host.break = break /\ host.mapped = mapped /\ host.others = others
    BY DEF host
  <2>5. EnvInv' /\ Keeps
    BY <1>1, <1>2, <1>3, <1>5, <2>2, <2>3, <2>4, MappedInv
  <2> QED BY <1>1, <2>2, <2>4, <2>5, Become
<1> QED BY <1>1, <1>4, <1>5, EnvironmentConstants

\* Other code loses the pages that the null base of an unused allocator names, and no
\* others.
OnlyLowPages ==
  /\ others' \subseteq others
  /\ \A q \in others \ others' : base_address = 0 /\ q < mapped_length

LEMMA DropInv ==
  ASSUME EnvInv, Drop
  PROVE  EnvInv' /\ Keeps /\ OnlyLowPages
<1> DEFINE g == free_address_space(host, base_address)
<1>1. BecomeHost(g) /\ base_address' = 0 /\ allocated_space' = 0
  BY DEF Drop
<1>2. /\ host \in Hosts /\ platform \in PLATFORMS /\ base_address \in Nat
      /\ 0 \in 0 .. total_space /\ 0 % GRANULARITY = 0
  BY Space, EnvironmentConstants DEF EnvInv, EnvTypeOK
<1>3. CASE platform \in {"array", "polkavm", "wasm"}
  <2>1. g = host
    BY <1>3 DEF free_address_space
  <2>2. Raised(host, host)
    BY <1>2 DEF Raised, Hosts
  <2> QED BY <1>1, <1>2, <1>3, <2>1, <2>2, RaisedInv DEF OnlyLowPages
<1>4. CASE platform \in {"linux", "corevm"}
  <2> DEFINE freed == range(base_address, mapped_length)
             kept  == { q \in others : page(q) \cap freed = {} }
  <2>1. g = unmap(host, base_address, mapped_length)
    BY <1>4, MappedLength DEF free_address_space
  <2>2. /\ mapped = IF base_address = 0 THEN {} ELSE freed
        /\ \A q \in others : q % PAGE_SIZE = 0 /\ page(q) \cap mapped = {}
        /\ others \subseteq OTHERS
    BY <1>2, <1>4 DEF EnvInv, NothingLeaks, OthersAreApart, Hosts, host
  <2>3. mapped \ freed = {}
    BY <2>2
  <2>4. ASSUME NEW q \in others, ~(base_address = 0 /\ q < mapped_length)
        PROVE  page(q) \cap freed = {}
    <3>1. CASE base_address = 0
      <4>1. q \in Nat /\ mapped_length <= q
        BY <2>2, <2>4, <3>1, MappedLength, EnvironmentConstants
      <4> QED BY <3>1, <4>1, MappedLength, EnvironmentConstants DEF page, range
    <3>2. CASE base_address # 0
      BY <2>2, <3>2
    <3> QED BY <3>1, <3>2
  <2>5. kept \subseteq others /\ \A q \in others \ kept : base_address = 0 /\ q < mapped_length
    BY <2>4
  <2>6. g = [host EXCEPT !.mapped = {}, !.others = kept]
    BY <2>1, <2>3 DEF unmap, host
  <2> HIDE DEF g, freed, kept
  <2>7. g \in Hosts /\ g.break = break /\ g.mapped = {} /\ g.others = kept
    BY <1>2, <2>2, <2>5, <2>6 DEF host, Hosts
  <2>8. EnvInv' /\ Keeps
    BY <1>1, <1>2, <1>4, <2>2, <2>5, <2>7, MappedInv
  <2> QED BY <1>1, <2>5, <2>7, <2>8, Become DEF OnlyLowPages
<1> QED BY <1>2, <1>3, <1>4, EnvironmentConstants

LEMMA OtherCodeInv ==
  ASSUME EnvInv, OtherCode
  PROVE  EnvInv' /\ Keeps
<1>1. /\ host \in Hosts /\ platform \in PLATFORMS /\ EnvTypeOK /\ BaseIsReady
      /\ base_address' = base_address /\ allocated_space' = allocated_space
      /\ break \in Nat
  BY DEF EnvInv, EnvTypeOK, OtherCode, Hosts, host
<1>2. /\ base_address \in Nat /\ base_address % GRANULARITY = 0
      /\ allocated_space \in 0 .. total_space
      /\ (base_address = 0) <=> (allocated_space = 0)
  BY <1>1 DEF EnvTypeOK, BaseIsReady
<1>3. CASE /\ platform \in {"polkavm", "wasm"}
           /\ BecomeHost(grown(host, 1, IF platform = "wasm" THEN PAGE_SIZE ELSE 1))
  <2> DEFINE unit == IF platform = "wasm" THEN PAGE_SIZE ELSE 1
             m == next_multiple_of(1, unit)
             g == grown(host, 1, unit)
  <2>1. unit \in Nat \ {0}
    BY EnvironmentConstants
  <2> HIDE DEF unit
  <2>2. m \in Nat
    BY <2>1, NextMultiple
  <2>3. g = [host EXCEPT !.break = @ + m]
    BY DEF grown
  <2> HIDE DEF m, g
  <2>4. Raised(host, g)
    BY <1>1, <2>2, <2>3 DEF Raised, Hosts
  <2>5. BecomeHost(g)
    BY <1>3 DEF g, unit
  <2>6. base_address \in {0, aligned_heap_base}
    BY <1>3 DEF EnvInv, BaseIsHeapBase
  <2>7. base_address # 0 => base_address + allocated_space * GRANULARITY <= g.break
    <3>1. base_address # 0 => base_address + allocated_space * GRANULARITY <= break
      BY <1>3 DEF EnvInv, BreakIsBehind
    <3>2. g.break \in Nat /\ break <= g.break
      BY <2>4 DEF Raised, Hosts, host
    <3>3. allocated_space * GRANULARITY \in Nat
      BY <1>2, Bytes
    <3> QED BY <1>1, <1>2, <3>1, <3>2, <3>3
  <2> QED BY <1>1, <1>2, <1>3, <2>4, <2>5, <2>6, <2>7, RaisedInv
<1>4. CASE /\ platform \in {"linux", "corevm"}
           /\ \E q \in OTHERS \cap places(host, PAGE_SIZE) :
                BecomeHost([host EXCEPT !.others = @ \cup {q}])
  <2>1. PICK q \in OTHERS \cap places(host, PAGE_SIZE) :
          BecomeHost([host EXCEPT !.others = @ \cup {q}])
    BY <1>4
  <2> DEFINE g == [host EXCEPT !.others = @ \cup {q}]
  <2>2. /\ g \in Hosts /\ g.break = break /\ g.mapped = mapped
        /\ g.others = others \cup {q}
    BY <1>1, <2>1 DEF Hosts, host
  <2>3. q % PAGE_SIZE = 0 /\ page(q) \cap mapped = {}
    BY <2>1 DEF places, page, host
  <2>4. /\ mapped = IF base_address = 0 THEN {} ELSE range(base_address, mapped_length)
        /\ \A r \in others : r % PAGE_SIZE = 0 /\ page(r) \cap mapped = {}
    BY <1>4 DEF EnvInv, NothingLeaks, OthersAreApart
  <2>5. \A r \in g.others : r % PAGE_SIZE = 0 /\ page(r) \cap g.mapped = {}
    BY <2>2, <2>3, <2>4
  <2>6. BecomeHost(g)
    BY <2>1
  <2> HIDE DEF g
  <2> QED BY <1>1, <1>2, <1>4, <2>2, <2>4, <2>5, <2>6, MappedInv
<1>5. CASE \E q \in others : BecomeHost([host EXCEPT !.others = @ \ {q}])
  <2>1. PICK q \in others : BecomeHost([host EXCEPT !.others = @ \ {q}])
    BY <1>5
  <2> DEFINE g == [host EXCEPT !.others = @ \ {q}]
  <2>2. /\ g \in Hosts /\ g.break = break /\ g.mapped = mapped
        /\ g.others = others \ {q}
    BY <1>1 DEF Hosts, host
  <2>3. BecomeHost(g)
    BY <2>1
  <2> HIDE DEF g
  <2>4. /\ host' \in Hosts /\ break' = break /\ mapped' = mapped /\ others' \subseteq others
        /\ platform' = platform /\ heap_base' = heap_base
    BY <2>2, <2>3, Become
  <2>5. aligned_heap_base' = aligned_heap_base
    BY <2>4 DEF aligned_heap_base
  <2> QED BY <1>1, <2>4, <2>5 DEF EnvInv, EnvTypeOK, BaseIsReady, BaseIsHeapBase,
            BreakIsBehind, OthersAreApart, NothingLeaks, Keeps
<1> QED BY <1>3, <1>4, <1>5 DEF OtherCode

LEMMA EnvNext ==
  ASSUME EnvInv, [Next]_vars
  PROVE  EnvInv' /\ Keeps /\ (~OtherCode => others' = others \/ (Drop /\ OnlyLowPages))
<1>1. CASE UNCHANGED vars
  <2>1. host' = host /\ aligned_heap_base' = aligned_heap_base
    BY <1>1 DEF vars, host, aligned_heap_base
  <2>2. break \in Nat
    BY DEF EnvInv, EnvTypeOK, host, Hosts
  <2> QED BY <1>1, <2>1, <2>2 DEF vars, EnvInv, EnvTypeOK, BaseIsReady, BaseIsHeapBase,
            BreakIsBehind, OthersAreApart, NothingLeaks, Keeps
<1>2. CASE Next
  BY <1>2, InitializeInv, CommitInv, DropInv, OtherCodeInv DEF Next
<1> QED BY <1>1, <1>2

LEMMA EnvInvAlways == Spec => []EnvInv
<1>1. EnvInv /\ [Next]_vars => EnvInv'
  BY EnvNext
<1> QED BY <1>1, EnvInit, PTL DEF Spec

-----------------------------------------------------------------------------
(* The properties.                                                         *)

\* A prefix of the address space that is no longer than what is committed is backed.
LEMMA PrefixBacked ==
  ASSUME EnvInv PROVE MemoryIsBacked
<1>1. /\ base_address \in Nat /\ allocated_space \in 0 .. total_space
      /\ platform \in PLATFORMS /\ ((base_address = 0) <=> (allocated_space = 0))
      /\ break \in Nat
  BY DEF EnvInv, EnvTypeOK, BaseIsReady, host, Hosts
<1> DEFINE length == allocated_space * GRANULARITY
<1>2. length \in Nat /\ length <= total_space * GRANULARITY
  BY <1>1, Bytes
<1>3. base_address = 0 => length = 0
  BY <1>1, EnvironmentConstants
<1> HIDE DEF length
<1>4. CASE base_address = 0
  <2>1. range(base_address, length) = {}
    BY <1>3, <1>4 DEF range
  <2> QED BY <2>1 DEF MemoryIsBacked, length
<1>5. CASE base_address # 0 /\ platform = "array"
  <2>1. base_address = aligned_heap_base
    BY <1>5 DEF EnvInv, BaseIsHeapBase
  <2>2. Backed = range(base_address, total_space * GRANULARITY)
    BY <1>5, <2>1, Space DEF Backed
  <2>3. range(base_address, length) \subseteq Backed
    BY <1>1, <1>2, <2>2, Space DEF range
  <2> QED BY <2>3 DEF MemoryIsBacked, length
<1>6. CASE base_address # 0 /\ platform \in {"linux", "corevm"}
  <2>1. Backed = range(base_address, mapped_length)
    BY <1>6 DEF Backed, EnvInv, NothingLeaks
  <2>2. range(base_address, length) \subseteq Backed
    BY <1>1, <1>2, <2>1, Space, MappedLength DEF range
  <2> QED BY <2>2 DEF MemoryIsBacked, length
<1>7. CASE base_address # 0 /\ platform \in {"polkavm", "wasm"}
  <2>1. base_address + length <= break
    BY <1>7 DEF EnvInv, BreakIsBehind, length
  <2>2. Backed = 0 .. break - 1
    BY <1>7 DEF Backed
  <2>3. range(base_address, length) \subseteq Backed
    BY <1>1, <1>2, <2>1, <2>2 DEF range
  <2> QED BY <2>3 DEF MemoryIsBacked, length
<1> QED BY <1>1, <1>4, <1>5, <1>6, <1>7, EnvironmentConstants

\* What the allocator takes to be committed is memory: every yes of
\* expand_memory_until, on every platform, is true.
THEOREM CommittedMemoryIsBacked == Spec => []MemoryIsBacked
<1>1. EnvInv => MemoryIsBacked
  BY PrefixBacked
<1> QED BY <1>1, EnvInvAlways, PTL

\* Exactly the address space in use is mapped: initialize_impl and Drop give back what
\* allocate_address_space mapped, and no more.
THEOREM AddressSpaceIsReturned == Spec => []NothingLeaks
<1>1. EnvInv => NothingLeaks
  BY DEF EnvInv
<1> QED BY <1>1, EnvInvAlways, PTL

\* The only step of the allocator that can unmap pages of other code is the Drop of one
\* that never had an address space, and it takes no page from mapped_length on: what
\* initialize_impl reserved and Drop releases lies apart from all others' pages.
THEOREM OtherPagesStay == Spec => OthersKeepTheirs
<1> DEFINE Kept == ~OtherCode =>
                     /\ others' \subseteq others
                     /\ \A q \in others \ others' :
                          Drop /\ base_address = 0 /\ q < mapped_length
<1>1. EnvInv /\ [Next]_vars => [Kept]_vars
  <2> SUFFICES ASSUME EnvInv, [Next]_vars, ~OtherCode
               PROVE  /\ others' \subseteq others
                      /\ \A q \in others \ others' :
                           Drop /\ base_address = 0 /\ q < mapped_length
    OBVIOUS
  <2>1. others' = others \/ (Drop /\ OnlyLowPages)
    BY EnvNext
  <2> QED BY <2>1 DEF OnlyLowPages
<1> QED BY <1>1, EnvInvAlways, PTL DEF Spec, OthersKeepTheirs

-----------------------------------------------------------------------------
(* The refinement of EnvContract.  usable_granules is the largest number   *)
(* of granules that are all backed; on every platform there is one.        *)

BackedPrefix(n) == range(base_address, n * GRANULARITY) \subseteq Backed

LargestPrefix(n) ==
  /\ n \in 0 .. total_space
  /\ BackedPrefix(n)
  /\ \A k \in n + 1 .. total_space : ~BackedPrefix(k)

LEMMA LargestExists ==
  ASSUME EnvInv, base_address # 0
  PROVE  \E n : LargestPrefix(n)
<1>1. /\ base_address \in Nat /\ platform \in PLATFORMS /\ break \in Nat
      /\ GRANULARITY \in Nat \ {0} /\ total_space \in Nat
  BY EnvironmentConstants, Space DEF EnvInv, EnvTypeOK, host, Hosts
<1>2. CASE BackedPrefix(total_space)
  <2>1. LargestPrefix(total_space)
    BY <1>1, <1>2 DEF LargestPrefix
  <2> QED BY <2>1
<1>3. CASE ~BackedPrefix(total_space)
  <2>1. platform \in {"polkavm", "wasm"}
    <3>1. platform = "array" => BackedPrefix(total_space)
      BY Space DEF BackedPrefix, Backed, EnvInv, BaseIsHeapBase
    <3>2. platform \in {"linux", "corevm"} => BackedPrefix(total_space)
      <4>1. platform \in {"linux", "corevm"} => Backed = range(base_address, mapped_length)
        BY DEF EnvInv, NothingLeaks, Backed
      <4>2. range(base_address, total_space * GRANULARITY)
              \subseteq range(base_address, mapped_length)
        BY <1>1, Space, MappedLength DEF range
      <4> QED BY <4>1, <4>2 DEF BackedPrefix
    <3> QED BY <1>1, <1>3, <3>1, <3>2, EnvironmentConstants
  <2>2. Backed = 0 .. break - 1
    BY <2>1 DEF Backed
  <2>3. base_address <= break
    <3>1. base_address + allocated_space * GRANULARITY <= break
      BY <2>1 DEF EnvInv, BreakIsBehind
    <3>2. allocated_space * GRANULARITY \in Nat
      BY Bytes DEF EnvInv, EnvTypeOK
    <3> QED BY <1>1, <3>1, <3>2
  <2> DEFINE d == break - base_address
             n == d \div GRANULARITY
  <2>4. d \in Nat
    BY <1>1, <2>3
  <2>5. /\ n \in Nat /\ d % GRANULARITY \in 0 .. GRANULARITY - 1
        /\ d = GRANULARITY * n + (d % GRANULARITY)
    <3> HIDE DEF d
    <3> QED BY <1>1, <2>4, DivMod
  <2> HIDE DEF n
  <2>6. n * GRANULARITY = GRANULARITY * n /\ n * GRANULARITY \in Nat
    BY <1>1, <2>5
  <2>7. BackedPrefix(n)
    <3>1. n * GRANULARITY <= d
      <4> HIDE DEF d
      <4> QED BY <1>1, <2>4, <2>5, <2>6
    <3> QED BY <1>1, <2>2, <2>6, <3>1 DEF BackedPrefix, range
  <2>8. ASSUME NEW k \in n + 1 .. total_space PROVE ~BackedPrefix(k)
    <3>1. k \in Nat /\ n + 1 <= k
      BY <1>1, <2>5
    <3>2. (n + 1) * GRANULARITY <= k * GRANULARITY /\ k * GRANULARITY \in Nat
      BY <1>1, <2>5, <3>1, TimesMonotone
    <3>3. (n + 1) * GRANULARITY = n * GRANULARITY + GRANULARITY
      BY <1>1, <2>5
    <3>4. d < k * GRANULARITY
      <4> HIDE DEF d
      <4> QED BY <1>1, <2>4, <2>5, <2>6, <3>2, <3>3
    <3>5. break \in range(base_address, k * GRANULARITY)
      BY <1>1, <2>3, <3>2, <3>4 DEF range
    <3> QED BY <1>1, <2>2, <3>5 DEF BackedPrefix
  <2>9. n <= total_space
    <3>1. SUFFICES ASSUME ~(n <= total_space) PROVE FALSE
      OBVIOUS
    <3>2. total_space * GRANULARITY <= n * GRANULARITY
      BY <1>1, <2>5, <3>1, TimesMonotone
    <3>3. range(base_address, total_space * GRANULARITY)
            \subseteq range(base_address, n * GRANULARITY)
      BY <1>1, <2>6, <3>2, Space DEF range
    <3> QED BY <1>3, <2>7, <3>3 DEF BackedPrefix
  <2>10. LargestPrefix(n)
    BY <1>1, <2>5, <2>7, <2>8, <2>9 DEF LargestPrefix
  <2> QED BY <2>10
<1> QED BY <1>2, <1>3

\* usable_granules is that number, and no backed prefix is longer.
LEMMA UsableIsLargest ==
  ASSUME EnvInv, base_address # 0
  PROVE  /\ usable_granules \in 0 .. total_space
         /\ BackedPrefix(usable_granules)
         /\ \A k \in 0 .. total_space : BackedPrefix(k) => k <= usable_granules
<1> DEFINE P(n) == /\ range(base_address, n * GRANULARITY) \subseteq Backed
                   /\ \A k \in n + 1 .. total_space :
                        ~(range(base_address, k * GRANULARITY) \subseteq Backed)
<1>1. PICK n \in 0 .. total_space : P(n)
  BY LargestExists DEF LargestPrefix, BackedPrefix
<1>2. usable_granules = CHOOSE m \in 0 .. total_space : P(m)
  BY DEF usable_granules
<1>3. usable_granules \in 0 .. total_space /\ P(usable_granules)
  <2> HIDE DEF P
  <2> QED BY <1>1, <1>2
<1>4. ASSUME NEW k \in 0 .. total_space, BackedPrefix(k) PROVE k <= usable_granules
  <2>1. ~(k \in usable_granules + 1 .. total_space)
    BY <1>3, <1>4 DEF BackedPrefix
  <2> QED BY <1>3, <2>1, Space
<1> QED BY <1>3, <1>4 DEF BackedPrefix

LEMMA BackedGrows ==
  ASSUME EnvInv, EnvInv', Keeps, base_address # 0, base_address' # 0
  PROVE  base_address' = base_address /\ Backed \subseteq Backed'
<1>1. /\ base_address' = base_address /\ platform' = platform /\ heap_base' = heap_base
      /\ break <= break' /\ break \in Nat /\ break' \in Nat /\ platform \in PLATFORMS
  BY DEF Keeps, EnvInv, EnvTypeOK, Hosts, host
<1>2. CASE platform = "array"
  BY <1>1, <1>2 DEF Backed, aligned_heap_base
<1>3. CASE platform \in {"linux", "corevm"}
  BY <1>1, <1>3 DEF Backed, EnvInv, NothingLeaks
<1>4. CASE platform \in {"polkavm", "wasm"}
  <2>1. Backed = 0 .. break - 1 /\ Backed' = 0 .. break' - 1
    BY <1>1, <1>4 DEF Backed
  <2>2. ASSUME NEW b \in Nat, NEW c \in Nat, b <= c PROVE 0 .. b - 1 \subseteq 0 .. c - 1
    BY <2>2
  <2> QED BY <1>1, <2>1, <2>2
<1> QED BY <1>1, <1>2, <1>3, <1>4, EnvironmentConstants

LEMMA EnvStep ==
  ASSUME EnvInv, EnvInv', Keeps,
         /\ usable_granules' \in 0 .. total_space
         /\ BackedPrefix(usable_granules)'
         /\ \A k \in 0 .. total_space : BackedPrefix(k)' => k <= usable_granules',
         base_address' # 0
  PROVE  Env!Next
<1>1. CASE base_address = 0
  <2>1. /\ allocated_space' \in 0 .. total_space /\ allocated_space' # 0
        /\ base_address' % GRANULARITY = 0
    BY DEF EnvInv, EnvTypeOK, BaseIsReady
  <2>2. MemoryIsBacked'
    BY PrefixBacked, PTL
  <2>3. PICK a \in 0 .. total_space : a = allocated_space' /\ a # 0
    BY <2>1
  <2>4. BackedPrefix(a)'
    BY <2>2, <2>3 DEF MemoryIsBacked, BackedPrefix
  <2>5. usable_granules' > 0
    BY <2>3, <2>4, Space
  <2> QED BY <1>1, <2>1, <2>5 DEF Env!Next, Env!Reserve
<1>2. CASE base_address # 0
  <2>1. base_address' = base_address /\ Backed \subseteq Backed'
    BY <1>2, BackedGrows
  <2>2. usable_granules \in 0 .. total_space /\ BackedPrefix(usable_granules)
    BY <1>2, UsableIsLargest
  <2>3. PICK u : u = usable_granules
    OBVIOUS
  <2>4. BackedPrefix(u)'
    BY <2>1, <2>2, <2>3 DEF BackedPrefix
  <2>5. usable_granules' >= usable_granules
    BY <2>2, <2>3, <2>4, Space
  <2> QED BY <1>2, <2>1, <2>5 DEF Env!Next, Env!Extend
<1> QED BY <1>1, <1>2

\* Every platform is an Env: the base is aligned and stays where it is, and what can be
\* used from there never shrinks until it is released.
THEOREM PlatformsImplementEnv == Spec => ImplementsEnv
<1>1. Init => Env!Init
  BY DEF Init, Env!Init, usable_granules
<1>2. EnvInv /\ base_address # 0 =>
        /\ usable_granules \in 0 .. total_space
        /\ BackedPrefix(usable_granules)
        /\ \A k \in 0 .. total_space : BackedPrefix(k) => k <= usable_granules
  BY UsableIsLargest
<1>3. (EnvInv /\ base_address # 0 =>
        /\ usable_granules \in 0 .. total_space
        /\ BackedPrefix(usable_granules)
        /\ \A k \in 0 .. total_space : BackedPrefix(k) => k <= usable_granules)'
  BY <1>2, PTL
<1>4. EnvInv /\ [Next]_vars => [Env!Next]_<<base_address, usable_granules>>
  <2> SUFFICES ASSUME EnvInv, [Next]_vars PROVE Env!Next
    OBVIOUS
  <2>1. EnvInv' /\ Keeps
    BY EnvNext
  <2>2. CASE base_address' = 0
    BY <2>2 DEF Env!Next, Env!Release, usable_granules
  <2>3. CASE base_address' # 0
    BY <1>3, <2>1, <2>3, EnvStep
  <2> QED BY <2>2, <2>3
<1> QED BY <1>1, <1>4, EnvInvAlways, PTL DEF Spec, ImplementsEnv, Env!Spec

=============================================================================
