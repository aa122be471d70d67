----------------------------- MODULE BinLemmas -----------------------------
(***************************************************************************)
(* Bins, for every width of the Mask, every largest size and every number  *)
(* of bins: which sizes a bin holds, and what the operations of the        *)
(* two-level bit mask do to the set of bins it represents.                 *)
(***************************************************************************)
EXTENDS BitMask, WellFoundedInduction, TLAPS

\* What `index >> PRIMARY_BIN_SHIFT` and `index & SECONDARY_BIN_MASK` are.
LEMMA DivMod ==
  ASSUME NEW i \in Nat, NEW w \in Nat \ {0}
  PROVE  /\ i \div w \in Nat
         /\ i % w \in 0 .. w - 1
         /\ i = w * (i \div w) + (i % w)
  OBVIOUS

\* A product of naturals is monotone.
LEMMA TimesMonotone ==
  ASSUME NEW w \in Nat, NEW p \in Nat, NEW q \in Nat, p <= q
  PROVE  w * p <= w * q
<1>1. w * (q - p) \in Nat
  OBVIOUS
<1>2. w * q = w * p + w * (q - p)
  OBVIOUS
<1> QED BY <1>1, <1>2

\* The pair of indices determines the index.
LEMMA DivModUnique ==
  ASSUME NEW w \in Nat \ {0}, NEW p \in Nat, NEW s \in 0 .. w - 1
  PROVE  /\ p * w + s \in Nat
         /\ (p * w + s) \div w = p
         /\ (p * w + s) % w = s
<1> DEFINE i == p * w + s
           q == i \div w
           r == i % w
<1>0. w * p = p * w /\ w * p \in Nat /\ i \in Nat
  OBVIOUS
<1>1. q \in Nat /\ r \in 0 .. w - 1 /\ i = w * q + r
  BY <1>0, DivMod
<1> HIDE DEF q, r
<1>2. CASE p + 1 <= q
  <2>1. w * (p + 1) <= w * q
    BY <1>1, <1>2, TimesMonotone
  <2>2. w * (p + 1) = w * p + w
    OBVIOUS
  <2> QED BY <1>0, <1>1, <2>1, <2>2
<1>3. CASE q + 1 <= p
  <2>1. w * (q + 1) <= w * p
    BY <1>1, <1>3, TimesMonotone
  <2>2. w * (q + 1) = w * q + w
    BY <1>1
  <2>3. w * q \in Nat
    BY <1>1
  <2> QED BY <1>0, <1>1, <2>1, <2>2, <2>3
<1>4. CASE p = q
  BY <1>0, <1>1, <1>4 DEF q, r
<1> QED BY <1>1, <1>2, <1>3, <1>4

\* A nonempty set of naturals has a least element, and Min is it.
LEMMA MinIsLeast ==
  ASSUME NEW S \in SUBSET Nat, S # {}
  PROVE  Min(S) \in S /\ \A y \in S : Min(S) <= y
<1>1. \E x \in S : \A y \in S : ~(<<y, x>> \in OpToRel(<, Nat))
  BY NatLessThanWellFounded, WFMin
<1>2. PICK x \in S : \A y \in S : ~(<<y, x>> \in OpToRel(<, Nat))
  BY <1>1
<1>3. \A y \in S : x <= y
  <2> TAKE y \in S
  <2>1. ~(y < x)
    BY <1>2 DEF OpToRel
  <2> QED BY <2>1
<1> QED BY <1>3 DEF Min

\* The least element is the only one with its property.
LEMMA MinUnique ==
  ASSUME NEW S \in SUBSET Nat, NEW m \in S, \A y \in S : m <= y
  PROVE  Min(S) = m
<1>1. Min(S) \in S /\ Min(S) <= m
  BY MinIsLeast
<1>2. m <= Min(S) /\ m \in Nat /\ Min(S) \in Nat
  BY <1>1
<1> QED BY <1>1, <1>2

-----------------------------------------------------------------------------
(* Size classes.                                                           *)

\* The powers of two that a SizeT needs: the provers know the value of each, but not
\* what they have in common.
LEMMA Doubles ==
  ASSUME NEW k \in 0 .. 31
  PROVE  2^(k + 1) = 2 * 2^k /\ 2^k \in Nat \ {0}
<1>0. CASE k = 0
  BY <1>0
<1>1. CASE k = 1
  BY <1>1
<1>2. CASE k = 2
  BY <1>2
<1>3. CASE k = 3
  BY <1>3
<1>4. CASE k = 4
  BY <1>4
<1>5. CASE k = 5
  BY <1>5
<1>6. CASE k = 6
  BY <1>6
<1>7. CASE k = 7
  BY <1>7
<1>8. CASE k = 8
  BY <1>8
<1>9. CASE k = 9
  BY <1>9
<1>10. CASE k = 10
  BY <1>10
<1>11. CASE k = 11
  BY <1>11
<1>12. CASE k = 12
  BY <1>12
<1>13. CASE k = 13
  BY <1>13
<1>14. CASE k = 14
  BY <1>14
<1>15. CASE k = 15
  BY <1>15
<1>16. CASE k = 16
  BY <1>16
<1>17. CASE k = 17
  BY <1>17
<1>18. CASE k = 18
  BY <1>18
<1>19. CASE k = 19
  BY <1>19
<1>20. CASE k = 20
  BY <1>20
<1>21. CASE k = 21
  BY <1>21
<1>22. CASE k = 22
  BY <1>22
<1>23. CASE k = 23
  BY <1>23
<1>24. CASE k = 24
  BY <1>24
<1>25. CASE k = 25
  BY <1>25
<1>26. CASE k = 26
  BY <1>26
<1>27. CASE k = 27
  BY <1>27
<1>28. CASE k = 28
  BY <1>28
<1>29. CASE k = 29
  BY <1>29
<1>30. CASE k = 30
  BY <1>30
<1>31. CASE k = 31
  BY <1>31
<1> QED
  BY <1>0, <1>1, <1>2, <1>3, <1>4, <1>5, <1>6, <1>7, <1>8, <1>9, <1>10, <1>11,
          <1>12, <1>13, <1>14, <1>15, <1>16, <1>17, <1>18, <1>19, <1>20, <1>21, <1>22,
          <1>23, <1>24, <1>25, <1>26, <1>27, <1>28, <1>29, <1>30, <1>31

\* A power is not zero.
LEMMA PowerIsNat ==
  ASSUME NEW k \in 0 .. 32
  PROVE  2^k \in Nat \ {0}
<1>1. CASE k = 32
  BY <1>1
<1>2. CASE k \in 0 .. 31
  BY <1>2, Doubles
<1> QED BY <1>1, <1>2


\* Powers are ordered as their exponents.
LEMMA PowersGrow ==
  ASSUME NEW k \in 0 .. 32, NEW l \in 0 .. 32, k <= l
  PROVE  2^k <= 2^l
<1> DEFINE Bad == { n \in 0 .. 32 : k <= n /\ ~(2^k <= 2^n) }
<1>1. SUFFICES ASSUME Bad # {} PROVE FALSE
  OBVIOUS
<1>2. PICK n \in Bad : \A i \in Bad : n <= i
  <2>1. Bad \in SUBSET Nat
    OBVIOUS
  <2> QED BY <1>1, <2>1, MinIsLeast
<1>3. n \in 0 .. 32 /\ k <= n /\ ~(2^k <= 2^n) /\ 2^k \in Nat
  BY PowerIsNat
<1>4. n # k
  BY <1>3
<1>5. n - 1 \in 0 .. 31 /\ k <= n - 1 /\ n - 1 \notin Bad /\ n - 1 + 1 = n
  BY <1>2, <1>3, <1>4
<1>6. 2^k <= 2^(n - 1)
  BY <1>5
<1>7. 2^n = 2 * 2^(n - 1) /\ 2^(n - 1) \in Nat
  BY <1>5, Doubles
<1> QED BY <1>3, <1>6, <1>7

\* A power of a sum is the product of the powers, for the exponents of a mantissa.
LEMMA PowerStep ==
  ASSUME NEW m \in 0 .. 7, NEW j \in 0 .. 31, m + 1 + j <= 32, 2^(m + j) = 2^m * 2^j
  PROVE  2^(m + 1 + j) = 2^(m + 1) * 2^j
<1>1. m + j \in 0 .. 31 /\ m \in 0 .. 31 /\ m + 1 + j = m + j + 1
  OBVIOUS
<1>2. 2^(m + j + 1) = 2 * 2^(m + j)
  BY <1>1, Doubles
<1>3. 2^(m + 1) = 2 * 2^m /\ 2^m \in Nat /\ 2^j \in Nat
  BY <1>1, Doubles
<1>4. PICK a \in Nat, b \in Nat : a = 2^m /\ b = 2^j
  BY <1>3
<1>5. 2 * (a * b) = (2 * a) * b
  OBVIOUS
<1> QED BY <1>1, <1>2, <1>3, <1>4, <1>5

LEMMA PowerSum ==
  ASSUME NEW m \in 1 .. 8, NEW j \in 0 .. 31, m + j <= 32
  PROVE  2^(m + j) = 2^m * 2^j
<1> DEFINE P(n) == 2^(n + j) = 2^n * 2^j
<1>1. \A n \in 0 .. 7 : n + 1 + j <= 32 /\ P(n) => P(n + 1)
  BY PowerStep
<1>2. P(0)
  <2>1. 0 + j = j
    OBVIOUS
  <2>2. 2^j \in Nat
    BY Doubles
  <2>3. 2^j = 1 * 2^j /\ 2^0 = 1
    BY <2>2
  <2> QED BY <2>1, <2>3
<1> DEFINE Bad == { n \in 1 .. 8 : n + j <= 32 /\ ~P(n) }
<1>3. SUFFICES ASSUME Bad # {} PROVE FALSE
  OBVIOUS
<1>4. PICK n \in Bad : \A i \in Bad : n <= i
  <2>1. Bad \in SUBSET Nat
    OBVIOUS
  <2> QED BY <1>3, <2>1, MinIsLeast
<1>5. n \in 1 .. 8 /\ n + j <= 32 /\ ~P(n) /\ n - 1 \in 0 .. 7 /\ n - 1 + 1 = n
  OBVIOUS
<1>6. n - 1 \notin Bad
  BY <1>4, <1>5
<1> HIDE DEF P
<1>7. P(n - 1)
  <2>1. CASE n = 1
    BY <1>2, <2>1
  <2>2. CASE n # 1
    BY <1>5, <1>6, <2>2
  <2> QED BY <2>1, <2>2
<1>8. P(n - 1 + 1)
  BY <1>1, <1>5, <1>7
<1> QED BY <1>5, <1>8

\* Every nonzero Size has a highest bit.
LEMMA HighestBitIs ==
  ASSUME NEW size \in 1 .. SIZE_MAX
  PROVE  /\ HighestBit(size) \in 0 .. 31
         /\ 2^HighestBit(size) <= size
         /\ size < 2^(HighestBit(size) + 1)
<1> DEFINE K == { k \in 0 .. 31 : size < 2^(k + 1) }
<1>1. size < 2^32
  <2>1. 2^16 = 65536 /\ 2^32 = 4294967296
    OBVIOUS
  <2>2. PICK w \in Nat \ {0} : w = 65536
    OBVIOUS
  <2>3. /\ SIZE_MAX \in Nat /\ SIZE_MAX \div w \in Nat /\ SIZE_MAX % w \in 0 .. w - 1
        /\ SIZE_MAX = w * (SIZE_MAX \div w) + (SIZE_MAX % w)
    BY SizeClassConstants, DivMod
  <2>4. SIZE_MAX \div w < w
    BY <2>1, <2>2, SizeTIsU32
  <2> DEFINE a == SIZE_MAX \div w
             b == SIZE_MAX % w
  <2> HIDE DEF a, b
  <2>5. a \in Nat /\ b \in 0 .. w - 1 /\ a < w /\ SIZE_MAX = w * a + b
    BY <2>3, <2>4 DEF a, b
  <2>6. SIZE_MAX < w * w
    <3>1. w * (a + 1) <= w * w
      BY <2>5
    <3>2. w * (a + 1) = w * a + w /\ w * a \in Nat /\ w * w \in Nat
      BY <2>5
    <3>3. b \in Nat /\ b < w /\ SIZE_MAX = w * a + b
      BY <2>5
    <3> QED BY <3>1, <3>2, <3>3
  <2>7. w * w = 2^32
    BY <2>1, <2>2
  <2>8. size \in Nat /\ size <= SIZE_MAX
    BY <2>3
  <2> QED BY <2>3, <2>6, <2>7, <2>8
<1>2. 31 \in K
  BY <1>1
<1>3. PICK k \in K : \A i \in K : k <= i
  <2>1. K \in SUBSET Nat
    OBVIOUS
  <2> QED BY <1>2, <2>1, MinIsLeast
<1>4. 2^k <= size
  <2>1. CASE k = 0
    BY <2>1
  <2>2. CASE k # 0
    <3>1. k - 1 \in 0 .. 31 /\ k - 1 \notin K /\ k - 1 + 1 = k
      BY <1>3, <2>2
    <3>2. k \in 0 .. 32
      BY <1>3
    <3>3. 2^k \in Nat
      BY <3>2, PowerIsNat
    <3> QED BY <3>1, <3>3, SizeClassConstants
  <2> QED BY <2>1, <2>2
<1>5. \E i \in 0 .. 31 : 2^i <= size /\ size < 2^(i + 1)
  BY <1>3, <1>4
<1> QED BY <1>5 DEF HighestBit

\* A size as a floating point number: exponent, mantissa with its leading one, and the
\* bits that are cut off.
IsFloat(size, m, e, q, r) ==
  /\ e \in 0 .. 31 - m
  /\ q \in 2^m .. 2^(m + 1) - 1
  /\ r \in 0 .. 2^e - 1
  /\ size = 2^e * q + r

index_of(m, e, q) == e * 2^m + q - 1

\* What to_bin_index_generic computes.
LEMMA BinIndex ==
  ASSUME NEW m \in 1 .. 8, NEW size \in 1 .. SIZE_MAX, 2^m <= size
  PROVE  \E e, q, r \in Nat :
           /\ IsFloat(size, m, e, q, r)
           /\ to_bin_index_generic(m, FALSE, size) = index_of(m, e, q)
           /\ to_bin_index_generic(m, TRUE, size)
                = IF r = 0 THEN index_of(m, e, q) ELSE index_of(m, e, q + 1)
<1> DEFINE h == HighestBit(size)
<1>1. h \in 0 .. 31 /\ 2^h <= size /\ size < 2^(h + 1)
  BY HighestBitIs
<1> HIDE DEF h
<1>2. m <= h
  <2>1. SUFFICES ASSUME h + 1 <= m PROVE FALSE
    BY <1>1
  <2>2. h + 1 \in 0 .. 32 /\ m \in 0 .. 32
    BY <1>1
  <2>3. 2^(h + 1) <= 2^m /\ 2^(h + 1) \in Nat /\ 2^m \in Nat
    BY <2>1, <2>2, PowersGrow, PowerIsNat
  <2> QED BY <1>1, <2>3, SizeClassConstants
<1> DEFINE e == h - m
<1>3. e \in 0 .. 31 - m /\ e \in 0 .. 32 /\ e \in 0 .. 31 /\ m + e = h /\ e + m = h
      /\ m \in 0 .. 32 /\ m \in 0 .. 31 /\ m + 1 \in 0 .. 32
  BY <1>1, <1>2
<1> HIDE DEF e
<1>4. PICK E \in Nat \ {0}, M \in Nat \ {0} : E = 2^e /\ M = 2^m
  BY <1>3, PowerIsNat
<1>5. 2^h = M * E /\ 2^(h + 1) = 2 * (M * E) /\ 2^(m + 1) = 2 * M
  <2>1. e \in 0 .. 31 /\ m + e <= 32
    BY <1>3
  <2>4. 2^(m + e) = 2^m * 2^e
    BY <2>1, PowerSum
  <2>2. 2^(h + 1) = 2 * 2^h
    BY <1>1, Doubles
  <2>3. 2^(m + 1) = 2 * 2^m
    BY <1>3, Doubles
  <2> QED BY <1>3, <1>4, <2>2, <2>3, <2>4
<1> DEFINE q == size \div E
           r == size % E
<1>6. size \in Nat \ {0}
  BY SizeClassConstants
<1>7. q \in Nat /\ r \in 0 .. E - 1 /\ size = E * q + r
  BY <1>4, <1>6, DivMod
<1> HIDE DEF q, r
<1>8. M <= q
  <2>1. SUFFICES ASSUME q + 1 <= M PROVE FALSE
    BY <1>7
  <2>2. E * (q + 1) <= E * M
    BY <1>7, <2>1, TimesMonotone
  <2>3. E * (q + 1) = E * q + E /\ E * M = M * E
    BY <1>7
  <2> QED BY <1>1, <1>5, <1>6, <1>7, <2>2, <2>3
<1>9. q < 2 * M
  <2>1. SUFFICES ASSUME 2 * M <= q PROVE FALSE
    BY <1>7
  <2>2. E * (2 * M) <= E * q
    BY <1>7, <2>1, TimesMonotone
  <2>3. E * (2 * M) = 2 * (M * E) /\ M * E \in Nat /\ E * q \in Nat
    BY <1>7
  <2>4. 2 * (M * E) <= size
    BY <1>7, <2>2, <2>3
  <2> QED BY <1>1, <1>5, <1>6, <2>3, <2>4
<1>10. q % M = q - M
  <2>1. q = 1 * M + (q - M) /\ q - M \in 0 .. M - 1
    BY <1>7, <1>8, <1>9
  <2>2. (1 * M + (q - M)) % M = q - M
    BY <2>1, DivModUnique
  <2> QED BY <2>1, <2>2
<1>11. IsFloat(size, m, e, q, r)
  <2>1. q \in M .. 2 * M - 1
    BY <1>7, <1>8, <1>9
  <2> QED BY <1>3, <1>4, <1>5, <1>7, <2>1 DEF IsFloat
<1>12. ~(size < 2^m) /\ size # 0
  BY <1>4, <1>6
<1>13. /\ to_bin_index_generic(m, FALSE, size) = (e + 1) * M + (q % M) + 0 - 1
       /\ to_bin_index_generic(m, TRUE, size)
            = (e + 1) * M + (q % M) + (IF r # 0 THEN 1 ELSE 0) - 1
  BY <1>4, <1>12 DEF to_bin_index_generic, h, e, q, r
<1>14. (e + 1) * M = e * M + M /\ e * M \in Nat
  BY <1>3
<1>15. /\ to_bin_index_generic(m, FALSE, size) = index_of(m, e, q)
       /\ to_bin_index_generic(m, TRUE, size)
            = IF r = 0 THEN index_of(m, e, q) ELSE index_of(m, e, q + 1)
  <2>1. index_of(m, e, q) = e * M + q - 1 /\ index_of(m, e, q + 1) = e * M + (q + 1) - 1
    BY <1>4 DEF index_of
  <2>2. PICK x \in Nat : x = e * M
    BY <1>14
  <2>3. /\ to_bin_index_generic(m, FALSE, size) = x + M + (q - M) + 0 - 1
        /\ to_bin_index_generic(m, TRUE, size)
             = x + M + (q - M) + (IF r # 0 THEN 1 ELSE 0) - 1
    BY <1>10, <1>13, <1>14, <2>2
  <2>4. index_of(m, e, q) = x + q - 1 /\ index_of(m, e, q + 1) = x + (q + 1) - 1
    BY <2>1, <2>2
  <2>5. q \in Nat /\ x + M + (q - M) + 0 - 1 = x + q - 1
        /\ x + M + (q - M) + 1 - 1 = x + (q + 1) - 1
    BY <1>7
  <2>6. CASE r = 0
    BY <2>3, <2>4, <2>5, <2>6
  <2>7. CASE r # 0
    BY <2>3, <2>4, <2>5, <2>7
  <2> QED BY <2>6, <2>7
<1>16. e \in Nat /\ q \in Nat /\ r \in Nat
  BY <1>3, <1>7
<1> QED BY <1>11, <1>15, <1>16


\* Small sizes have a bin each.
LEMMA SmallBinIndex ==
  ASSUME NEW m, NEW size \in Nat \ {0}, size < 2^m, NEW up \in BOOLEAN
  PROVE  to_bin_index_generic(m, up, size) = size - 1
  BY DEF to_bin_index_generic

\* The order of floating point numbers is the order of their parts.
LEMMA FloatOrder ==
  ASSUME NEW m \in 1 .. 8, NEW s \in Nat, NEW t \in Nat, s <= t,
         NEW e \in Nat, NEW q \in Nat, NEW r \in Nat, IsFloat(s, m, e, q, r),
         NEW f \in Nat, NEW p \in Nat, NEW u \in Nat, IsFloat(t, m, f, p, u)
  PROVE  \/ e + 1 <= f
         \/ e = f /\ q + 1 <= p
         \/ e = f /\ q = p /\ r <= u
<1>1. /\ e \in 0 .. 32 /\ f \in 0 .. 32 /\ f \in 0 .. 31 /\ f + 1 \in 0 .. 32
      /\ m \in 0 .. 32 /\ m \in 0 .. 31
  BY DEF IsFloat
<1>2. PICK E \in Nat \ {0}, F \in Nat \ {0}, M \in Nat \ {0} : E = 2^e /\ F = 2^f /\ M = 2^m
  BY <1>1, PowerIsNat
<1>3. /\ q \in M .. 2 * M - 1 /\ r \in 0 .. E - 1 /\ s = E * q + r
      /\ p \in M .. 2 * M - 1 /\ u \in 0 .. F - 1 /\ t = F * p + u
  <2>1. 2^(m + 1) = 2 * M
    BY <1>1, <1>2, Doubles
  <2> QED BY <1>2, <2>1 DEF IsFloat
<1>4. ~(f + 1 <= e)
  <2>1. SUFFICES ASSUME f + 1 <= e PROVE FALSE
    OBVIOUS
  <2>2. 2^(f + 1) <= 2^e /\ 2^(f + 1) = 2 * 2^f
    BY <1>1, <2>1, PowersGrow, Doubles
  <2>3. 2 * F <= E
    BY <1>2, <2>2
  <2>4. M * (2 * F) <= M * E /\ E * M <= E * q /\ F * (p + 1) <= F * (2 * M)
    BY <1>3, <2>3, TimesMonotone
  <2>5. M * (2 * F) = F * (2 * M) /\ M * E = E * M /\ F * (p + 1) = F * p + F
    OBVIOUS
  <2>6. PICK x \in Nat, y \in Nat : x = E * q /\ y = F * p
    OBVIOUS
  <2>7. y + F <= x
    BY <2>4, <2>5, <2>6
  <2> QED BY <1>3, <2>6, <2>7
<1>5. ASSUME e = f, p + 1 <= q PROVE FALSE
  <2>1. E * (p + 1) <= E * q
    BY <1>5, TimesMonotone
  <2>2. E * (p + 1) = E * p + E /\ E = F
    BY <1>2, <1>5
  <2>3. PICK x \in Nat, y \in Nat : x = E * q /\ y = E * p
    OBVIOUS
  <2> QED BY <1>3, <2>1, <2>2, <2>3
<1>6. ASSUME e = f, p = q PROVE r <= u
  <2>1. E = F
    BY <1>2, <1>6
  <2>2. PICK x \in Nat : x = E * q
    OBVIOUS
  <2> QED BY <1>3, <1>6, <2>1, <2>2
<1> QED BY <1>4, <1>5, <1>6

\* Both mappings are monotone, and a request is never searched for in the bin of a
\* smaller chunk, nor below it.
LEMMA IndexOrder ==
  ASSUME NEW m \in 1 .. 8, NEW s \in 1 .. SIZE_MAX, NEW t \in 1 .. SIZE_MAX, s <= t
  PROVE  /\ to_bin_index_generic(m, FALSE, s) \in Nat
         /\ to_bin_index_generic(m, TRUE, s) \in Nat
         /\ to_bin_index_generic(m, FALSE, s) <= to_bin_index_generic(m, TRUE, s)
         /\ to_bin_index_generic(m, TRUE, s) <= to_bin_index_generic(m, TRUE, t)
         /\ s < t => to_bin_index_generic(m, FALSE, s) < to_bin_index_generic(m, TRUE, t)
<1> DEFINE down(x) == to_bin_index_generic(m, FALSE, x)
           up(x)   == to_bin_index_generic(m, TRUE, x)
<1>1. PICK M \in Nat \ {0} : M = 2^m /\ 2^(m + 1) = 2 * M
  <2>1. m \in 0 .. 31 /\ m \in 0 .. 32
    OBVIOUS
  <2> QED BY <2>1, PowerIsNat, Doubles
<1>2. s \in Nat \ {0} /\ t \in Nat \ {0}
  BY SizeClassConstants
<1>3. ASSUME NEW x \in {s, t}, x < M PROVE down(x) = x - 1 /\ up(x) = x - 1
  BY <1>1, <1>2, <1>3, SmallBinIndex
<1>4. ASSUME NEW x \in {s, t}, M <= x
      PROVE  \E e, q, r \in Nat :
               /\ IsFloat(x, m, e, q, r) /\ q \in M .. 2 * M - 1 /\ e * M \in Nat
               /\ down(x) = e * M + q - 1
               /\ up(x) = IF r = 0 THEN e * M + q - 1 ELSE e * M + q
  <2>1. PICK e, q, r \in Nat :
           /\ IsFloat(x, m, e, q, r)
           /\ down(x) = index_of(m, e, q)
           /\ up(x) = IF r = 0 THEN index_of(m, e, q) ELSE index_of(m, e, q + 1)
    <3>1. x \in 1 .. SIZE_MAX /\ 2^m <= x
      BY <1>1, <1>4
    <3> QED BY <3>1, BinIndex
  <2>2. q \in M .. 2 * M - 1
    BY <1>1, <2>1 DEF IsFloat
  <2>3. PICK y \in Nat : y = e * M
    OBVIOUS
  <2>4. index_of(m, e, q) = y + q - 1 /\ index_of(m, e, q + 1) = y + q
    BY <1>1, <2>3 DEF index_of
  <2> QED BY <2>1, <2>2, <2>3, <2>4
<1> HIDE DEF down, up
<1> DEFINE Goal == /\ down(s) \in Nat /\ up(s) \in Nat
                   /\ down(s) <= up(s) /\ up(s) <= up(t)
                   /\ s < t => down(s) < up(t)
<1> SUFFICES Goal
  BY DEF down, up
<1>5. CASE t < M
  BY <1>2, <1>3, <1>5
<1>6. CASE s < M /\ M <= t
  <2>1. PICK e, q, r \in Nat :
               /\ IsFloat(t, m, e, q, r) /\ q \in M .. 2 * M - 1 /\ e * M \in Nat
               /\ down(t) = e * M + q - 1
               /\ up(t) = IF r = 0 THEN e * M + q - 1 ELSE e * M + q
    BY <1>4, <1>6
  <2>2. PICK y \in Nat : y = e * M
    BY <2>1
  <2>3. down(s) = s - 1 /\ up(s) = s - 1
    BY <1>3, <1>6
  <2> QED BY <1>2, <1>6, <2>1, <2>2, <2>3
<1>7. CASE M <= s
  <2>1. PICK e, q, r \in Nat :
               /\ IsFloat(s, m, e, q, r) /\ q \in M .. 2 * M - 1 /\ e * M \in Nat
               /\ down(s) = e * M + q - 1
               /\ up(s) = IF r = 0 THEN e * M + q - 1 ELSE e * M + q
    BY <1>4, <1>7
  <2>2. PICK f, p, u \in Nat :
               /\ IsFloat(t, m, f, p, u) /\ p \in M .. 2 * M - 1 /\ f * M \in Nat
               /\ down(t) = f * M + p - 1
               /\ up(t) = IF u = 0 THEN f * M + p - 1 ELSE f * M + p
    BY <1>2, <1>4, <1>7
  <2>3. \/ e + 1 <= f
        \/ e = f /\ q + 1 <= p
        \/ e = f /\ q = p /\ r <= u
    BY <1>2, <2>1, <2>2, FloatOrder
  <2>4. PICK y \in Nat, z \in Nat : y = e * M /\ z = f * M
    BY <2>1, <2>2
  <2>5. CASE e + 1 <= f
    <3>1. M * (e + 1) <= M * f
      BY <2>5, TimesMonotone
    <3>2. M * (e + 1) = e * M + M /\ M * f = f * M
      OBVIOUS
    <3>3. y + M <= z
      BY <2>4, <3>1, <3>2
    <3> QED BY <2>1, <2>2, <2>4, <3>3
  <2>6. CASE e = f /\ q + 1 <= p
    BY <2>1, <2>2, <2>4, <2>6
  <2>7. CASE e = f /\ q = p /\ r <= u
    <3>1. y = z
      BY <2>4, <2>7
    <3>2. s < t => r < u
      <4>1. PICK E \in Nat : E = 2^e
        <5>1. e \in 0 .. 32
          BY <2>1 DEF IsFloat
        <5> QED BY <5>1, PowerIsNat
      <4>2. s = E * q + r /\ t = E * q + u
        BY <2>1, <2>2, <2>7, <4>1 DEF IsFloat
      <4>3. PICK x \in Nat : x = E * q
        OBVIOUS
      <4> QED BY <4>2, <4>3
    <3> QED BY <2>1, <2>2, <2>4, <2>7, <3>1, <3>2
  <2> QED BY <2>3, <2>5, <2>6, <2>7
<1> QED BY <1>1, <1>2, <1>5, <1>6, <1>7

\* calculate_optimal_bin_config picks one of the mantissas it tries.
LEMMA Config ==
  /\ MANTISSA_BITS \in 1 .. 8
  /\ BIN_COUNT = to_bin_index_generic(MANTISSA_BITS, TRUE, MAX_ALLOCATION_SIZE) + 1
<1> DEFINE S == mantissa_candidates
           N == { n \in 0 .. 7 : 8 - n \in S }
<1>1. S \subseteq 1 .. 8 /\ S # {}
  BY SomeMantissaFits DEF mantissa_candidates
<1> HIDE DEF S
<1>2. PICK n \in N : \A i \in N : n <= i
  <2>1. PICK x \in S : TRUE
    BY <1>1
  <2>2. 8 - x \in 0 .. 7 /\ 8 - (8 - x) = x
    BY <1>1
  <2>3. N \in SUBSET Nat /\ N # {}
    BY <2>2
  <2> QED BY <2>3, MinIsLeast
<1>3. 8 - n \in S /\ \A y \in S : 8 - n >= y
  <2>1. ASSUME NEW y \in S PROVE 8 - n >= y
    <3>1. y \in 1 .. 8 /\ 8 - y \in 0 .. 7 /\ 8 - (8 - y) = y
      BY <1>1
    <3>2. n <= 8 - y
      BY <1>2, <3>1
    <3> QED BY <3>1, <3>2
  <2> QED BY <2>1
<1>4. Max(S) \in S
  BY <1>3 DEF Max
<1> QED BY <1>1, <1>4 DEF MANTISSA_BITS, BIN_COUNT, BIN_CONFIG, calculate_optimal_bin_config, S

\* There is a bin, and every size up to MAX_ALLOCATION_SIZE has one, to file a chunk
\* under and to search from.
LEMMA BinsExist ==
  /\ BIN_COUNT \in Nat \ {0}
  /\ \A size \in 1 .. MAX_ALLOCATION_SIZE :
       size_to_bin_round_down(size) \in Bins /\ size_to_bin_round_up(size) \in Bins
<1> DEFINE m == MANTISSA_BITS
           down(x) == to_bin_index_generic(m, FALSE, x)
           up(x)   == to_bin_index_generic(m, TRUE, x)
<1>1. m \in 1 .. 8 /\ BIN_COUNT = up(MAX_ALLOCATION_SIZE) + 1
  BY Config
<1>2. ASSUME NEW s \in 1 .. MAX_ALLOCATION_SIZE
      PROVE  /\ clamped(s) = s /\ down(s) \in Nat /\ up(s) \in Nat
             /\ down(s) <= up(s) /\ up(s) <= up(MAX_ALLOCATION_SIZE)
  <2>1. /\ s \in 1 .. SIZE_MAX /\ MAX_ALLOCATION_SIZE \in 1 .. SIZE_MAX
        /\ s <= MAX_ALLOCATION_SIZE /\ clamped(s) = s
    BY SizeClassConstants DEF clamped
  <2> QED BY <1>1, <2>1, IndexOrder
<1> HIDE DEF m
<1>3. up(MAX_ALLOCATION_SIZE) \in Nat
  <2>1. MAX_ALLOCATION_SIZE \in 1 .. MAX_ALLOCATION_SIZE
    BY SizeClassConstants
  <2> QED BY <1>2, <2>1
<1>4. ASSUME NEW s \in 1 .. MAX_ALLOCATION_SIZE
      PROVE  size_to_bin_round_down(s) \in Bins /\ size_to_bin_round_up(s) \in Bins
  <2>1. size_to_bin_round_down(s) = down(s) /\ size_to_bin_round_up(s) = up(s)
    BY <1>2 DEF size_to_bin_round_down, size_to_bin_round_up, m
  <2> HIDE DEF down, up
  <2> QED BY <1>1, <1>2, <1>3, <2>1 DEF Bins
<1> HIDE DEF up
<1>5. BIN_COUNT \in Nat \ {0}
  BY <1>1, <1>3
<1> QED BY <1>4, <1>5

\* The promise of rounding up: a chunk in the first bin searched, or in a later one,
\* is large enough.
LEMMA BinFits ==
  ASSUME NEW size \in 1 .. MAX_ALLOCATION_SIZE, NEW chunk_size \in Nat \ {0},
         size_to_bin_round_down(chunk_size) >= size_to_bin_round_up(size)
  PROVE  chunk_size >= size
<1> DEFINE m == MANTISSA_BITS
           down(x) == to_bin_index_generic(m, FALSE, x)
           up(x)   == to_bin_index_generic(m, TRUE, x)
<1>1. SUFFICES ASSUME chunk_size < size PROVE FALSE
  BY SizeClassConstants
<1>2. /\ size \in 1 .. SIZE_MAX /\ chunk_size \in 1 .. SIZE_MAX /\ chunk_size <= size
      /\ clamped(size) = size /\ clamped(chunk_size) = chunk_size
  BY <1>1, SizeClassConstants DEF clamped
<1>3. m \in 1 .. 8
  BY Config
<1>4. /\ down(chunk_size) < up(size) /\ down(chunk_size) \in Nat
      /\ up(chunk_size) \in Nat /\ up(chunk_size) <= up(size)
  BY <1>1, <1>2, <1>3, IndexOrder
<1>5. up(size) \in Nat
  <2>1. size <= size
    BY <1>2
  <2> QED BY <1>2, <1>3, <2>1, IndexOrder
<1>6. down(chunk_size) >= up(size)
  BY <1>2 DEF size_to_bin_round_down, size_to_bin_round_up
<1> HIDE DEF down, up
<1> QED BY <1>4, <1>5, <1>6

-----------------------------------------------------------------------------
\* The least size of a bin with a small index.
LEMMA LeastSmall ==
  ASSUME NEW x \in Nat, x <= 2^MANTISSA_BITS, NEW bin \in Int, bin + 1 = x
  PROVE  LeastSizeOf(bin) = x
<1>1. PICK M \in Nat \ {0} : M = 2^MANTISSA_BITS
  <2>1. MANTISSA_BITS \in 0 .. 32
    BY Config
  <2> QED BY <2>1, PowerIsNat
<1>2. LeastSizeOf(bin) = IF x \div M = 0 THEN x % M ELSE (M + (x % M)) * 2^((x \div M) - 1)
  BY <1>1 DEF LeastSizeOf
<1>3. CASE x < M
  <2>1. x = 0 * M + x /\ x \in 0 .. M - 1
    BY <1>3
  <2>2. (0 * M + x) \div M = 0 /\ (0 * M + x) % M = x
    BY <2>1, DivModUnique
  <2>3. x \div M = 0 /\ x % M = x
    BY <2>1, <2>2
  <2> QED BY <1>2, <2>3
<1>4. CASE x = M
  <2>1. x = 1 * M + 0 /\ 0 \in 0 .. M - 1
    BY <1>4
  <2>2. (1 * M + 0) \div M = 1 /\ (1 * M + 0) % M = 0
    BY <2>1, DivModUnique
  <2>3. x \div M = 1 /\ x % M = 0
    BY <2>1, <2>2
  <2> DEFINE k == (x \div M) - 1
  <2>4. LeastSizeOf(bin) = (M + (x % M)) * 2^k
    BY <1>2, <2>3
  <2>5. k = 0
    BY <2>3
  <2> HIDE DEF k
  <2>6. 2^k = 1
    BY <2>5
  <2> QED BY <1>4, <2>3, <2>4, <2>6
<1> QED BY <1>1, <1>3, <1>4

\* The least size of the bin of a floating point number; a mantissa that overflows
\* carries into the exponent.
LEMMA LeastFloat ==
  ASSUME NEW e \in Nat, e <= 31 - MANTISSA_BITS,
         NEW q \in 2^MANTISSA_BITS .. 2^(MANTISSA_BITS + 1)
  PROVE  LeastSizeOf(index_of(MANTISSA_BITS, e, q)) = 2^e * q
<1> DEFINE m   == MANTISSA_BITS
           bin == index_of(m, e, q)
<1>1. m \in 1 .. 8 /\ m \in 0 .. 31 /\ m \in 0 .. 32 /\ e \in 0 .. 31 /\ e \in 0 .. 32
  BY Config
<1> HIDE DEF m
<1>2. PICK M \in Nat \ {0}, E \in Nat \ {0} : M = 2^m /\ E = 2^e /\ 2^(m + 1) = 2 * M
  <2>1. 2^m \in Nat \ {0} /\ 2^e \in Nat \ {0}
    BY <1>1, PowerIsNat
  <2>2. 2^(m + 1) = 2 * 2^m
    BY <1>1, Doubles
  <2> QED BY <2>1, <2>2
<1>3. q \in M .. 2 * M
  BY <1>2 DEF m
<1>4. PICK x \in Nat : x = e * M
  OBVIOUS
<1>5. bin + 1 = x + q
  BY <1>2, <1>3, <1>4 DEF index_of
<1>6. LeastSizeOf(bin) = IF (x + q) \div M = 0 THEN (x + q) % M
                         ELSE (M + ((x + q) % M)) * 2^(((x + q) \div M) - 1)
  BY <1>2, <1>5 DEF LeastSizeOf, m
<1>7. CASE q < 2 * M
  <2>1. x + q = (e + 1) * M + (q - M) /\ q - M \in 0 .. M - 1 /\ e + 1 \in Nat
    BY <1>3, <1>4, <1>7
  <2>2. ((e + 1) * M + (q - M)) \div M = e + 1 /\ ((e + 1) * M + (q - M)) % M = q - M
    BY <2>1, DivModUnique
  <2>3. (x + q) \div M = e + 1 /\ (x + q) % M = q - M
    BY <2>1, <2>2
  <2>4. e + 1 # 0 /\ e + 1 - 1 = e /\ M + (q - M) = q
    BY <1>3
  <2>5. LeastSizeOf(bin) = q * E
    <3>1. LeastSizeOf(bin) = (M + (q - M)) * 2^(e + 1 - 1)
      BY <1>6, <2>3, <2>4
    <3> QED BY <1>2, <2>4, <3>1
  <2>6. q * E = E * q
    BY <1>3
  <2> QED BY <1>2, <2>5, <2>6 DEF m
<1>8. CASE q = 2 * M
  <2>1. x + q = (e + 2) * M + 0 /\ 0 \in 0 .. M - 1 /\ e + 2 \in Nat
    BY <1>3, <1>4, <1>8
  <2>2. ((e + 2) * M + 0) \div M = e + 2 /\ ((e + 2) * M + 0) % M = 0
    BY <2>1, DivModUnique
  <2>3. (x + q) \div M = e + 2 /\ (x + q) % M = 0
    BY <2>1, <2>2
  <2>4. e + 2 # 0 /\ e + 2 - 1 = e + 1 /\ M + 0 = M
    OBVIOUS
  <2>5. LeastSizeOf(bin) = M * 2^(e + 1)
    BY <1>6, <2>3, <2>4
  <2>6. 2^(e + 1) = 2 * E
    BY <1>1, <1>2, Doubles
  <2>7. M * (2 * E) = E * (2 * M)
    OBVIOUS
  <2> QED BY <1>2, <1>8, <2>5, <2>6, <2>7 DEF m
<1> QED BY <1>3, <1>7, <1>8


\* What both mappings make of a size, and the size of the bins around it.
LEMMA RoundedSize ==
  ASSUME NEW size \in 1 .. MAX_ALLOCATION_SIZE
  PROVE  LET down == size_to_bin_round_down(size)
             up   == size_to_bin_round_up(size)
         IN  /\ down \in Nat /\ up \in Nat
             /\ LeastSizeOf(down) <= size /\ size < LeastSizeOf(down + 1)
             /\ size <= LeastSizeOf(up) /\ (up > 0 => LeastSizeOf(up - 1) < size)
<1> DEFINE m    == MANTISSA_BITS
           down == size_to_bin_round_down(size)
           up   == size_to_bin_round_up(size)
<1>1. m \in 1 .. 8 /\ m \in 0 .. 32 /\ m \in 0 .. 31
  BY Config
<1>2. PICK M \in Nat \ {0} : M = 2^m /\ 2^(m + 1) = 2 * M
  <2>1. 2^m \in Nat \ {0} /\ 2^(m + 1) = 2 * 2^m
    BY <1>1, PowerIsNat, Doubles
  <2> QED BY <2>1
<1>3. size \in Nat \ {0} /\ size \in 1 .. SIZE_MAX /\ clamped(size) = size
  BY SizeClassConstants DEF clamped
<1>4. down = to_bin_index_generic(m, FALSE, size) /\ up = to_bin_index_generic(m, TRUE, size)
  BY <1>3 DEF size_to_bin_round_down, size_to_bin_round_up
<1>5. down \in Nat /\ up \in Nat
  <2>1. size <= size
    BY <1>3
  <2> QED BY <1>1, <1>3, <1>4, <2>1, IndexOrder
<1> HIDE DEF m, down, up
<1> DEFINE Goal == /\ LeastSizeOf(down) <= size /\ size < LeastSizeOf(down + 1)
                   /\ size <= LeastSizeOf(up) /\ (up > 0 => LeastSizeOf(up - 1) < size)
<1> SUFFICES Goal
  BY <1>5 DEF down, up
<1>6. CASE size < M
  <2>1. down = size - 1 /\ up = size - 1
    BY <1>2, <1>3, <1>4, <1>6, SmallBinIndex
  <2>2. \A x \in Nat, bin \in Int : x <= M /\ bin + 1 = x => LeastSizeOf(bin) = x
    BY <1>2, LeastSmall DEF m
  <2>3. LeastSizeOf(size - 1) = size
    BY <1>3, <1>6, <2>2
  <2>4. LeastSizeOf(size - 1 + 1) = size + 1
    BY <1>3, <1>6, <2>2
  <2>5. LeastSizeOf(size - 1 - 1) = size - 1
    BY <1>3, <1>6, <2>2
  <2> QED BY <1>3, <2>1, <2>3, <2>4, <2>5
<1>7. CASE M <= size
  <2>1. PICK e, q, r \in Nat :
           /\ IsFloat(size, m, e, q, r)
           /\ down = index_of(m, e, q)
           /\ up = IF r = 0 THEN index_of(m, e, q) ELSE index_of(m, e, q + 1)
    <3>1. m \in 1 .. 8 /\ size \in 1 .. SIZE_MAX /\ 2^m <= size
      BY <1>1, <1>2, <1>3, <1>7
    <3> QED BY <1>4, <3>1, BinIndex
  <2>2. e <= 31 - m /\ e \in 0 .. 32 /\ q \in M .. 2 * M - 1 /\ r \in Nat
    BY <1>1, <1>2, <2>1 DEF IsFloat
  <2>3. PICK E \in Nat \ {0} : E = 2^e
    BY <2>2, PowerIsNat
  <2>4. size = E * q + r /\ r \in 0 .. E - 1
    BY <2>1, <2>3 DEF IsFloat
  <2>5. PICK x \in Nat, y \in Nat : x = E * q /\ y = e * M
    OBVIOUS
  <2>6. E * (q + 1) = x + E
    BY <2>5
  <2>7. index_of(m, e, q) = y + q - 1 /\ index_of(m, e, q + 1) = y + q
    BY <1>2, <2>5 DEF index_of
  <2>8. \A p \in M .. 2 * M : LeastSizeOf(index_of(m, e, p)) = 2^e * p
    BY <1>2, <2>2, LeastFloat DEF m
  <2>9. q \in M .. 2 * M /\ q + 1 \in M .. 2 * M
    BY <2>2
  <2>10. LeastSizeOf(y + q - 1) = x /\ LeastSizeOf(y + q) = x + E
    BY <2>3, <2>5, <2>6, <2>7, <2>8, <2>9
  <2>11. down = y + q - 1 /\ down + 1 = y + q /\ LeastSizeOf(down) = x
         /\ LeastSizeOf(down + 1) = x + E
    BY <2>1, <2>7, <2>10
  <2>12. CASE r # 0
    <3>1. up = y + q /\ up - 1 = y + q - 1
      BY <2>1, <2>7, <2>12
    <3> QED BY <2>4, <2>5, <2>10, <2>11, <2>12, <3>1
  <2>13. CASE r = 0
    <3>1. up = y + q - 1 /\ size = x
      BY <2>1, <2>4, <2>5, <2>7, <2>13
    <3>2. up > 0 => LeastSizeOf(up - 1) < x
      <4>1. CASE q # M
        <5>1. q - 1 \in M .. 2 * M /\ index_of(m, e, q - 1) = up - 1
          <6>1. index_of(m, e, q - 1) = y + (q - 1) - 1
            BY <1>2, <2>5 DEF index_of
          <6> QED BY <2>2, <3>1, <4>1, <6>1
        <5>2. E * (q - 1) = x - E
          BY <2>5
        <5> QED BY <2>3, <2>5, <2>8, <5>1, <5>2
      <4>2. CASE q = M /\ e = 0
        <5>1. y = 0 /\ E = 1
          BY <2>3, <2>5, <4>2
        <5>2. x = M /\ up - 1 \in Int /\ up - 1 + 1 = M - 1 /\ M - 1 \in Nat /\ M - 1 <= M
          BY <2>5, <3>1, <4>2, <5>1
        <5>3. LeastSizeOf(up - 1) = M - 1
          BY <1>2, <5>2, LeastSmall DEF m
        <5> QED BY <5>2, <5>3
      <4>3. CASE q = M /\ e # 0
        <5>1. e - 1 \in Nat /\ e - 1 \in 0 .. 31 /\ e - 1 <= 31 - m /\ e - 1 + 1 = e
          BY <1>1, <2>2, <4>3
        <5>2. PICK D \in Nat \ {0} : D = 2^(e - 1) /\ E = 2 * D
          BY <2>3, <5>1, Doubles
        <5>3. 2 * M - 1 \in M .. 2 * M
          OBVIOUS
        <5>4. LeastSizeOf(index_of(m, e - 1, 2 * M - 1)) = D * (2 * M - 1)
          BY <1>2, <5>1, <5>2, <5>3, LeastFloat DEF m
        <5>5. index_of(m, e - 1, 2 * M - 1) = up - 1
          <6>1. (e - 1) * M = y - M
            BY <2>5
          <6>2. index_of(m, e - 1, 2 * M - 1) = (y - M) + (2 * M - 1) - 1
            BY <1>2, <6>1 DEF index_of
          <6> QED BY <3>1, <4>3, <6>2
        <5>6. D * (2 * M - 1) = x - D
          <6>1. D * (2 * M - 1) = (2 * D) * M - D
            OBVIOUS
          <6> QED BY <2>5, <4>3, <5>2, <6>1
        <5> QED BY <5>4, <5>5, <5>6
      <4> QED BY <4>1, <4>2, <4>3
    <3> QED BY <2>5, <2>11, <3>1, <3>2
  <2> QED BY <2>12, <2>13
<1> QED BY <1>3, <1>6, <1>7

-----------------------------------------------------------------------------
(* The bit mask.                                                           *)

Indices == 0 .. SECONDARY_LENGTH * MASK_BITS - 1

\* The words of the mask have a bit for every index, and for every bin.
LEMMA IndexRange ==
  /\ \A i \in Indices : i \in Nat /\ i \div MASK_BITS \in Primaries
                                /\ i % MASK_BITS \in 0 .. MASK_BITS - 1
  /\ \A p \in Primaries, s \in 0 .. MASK_BITS - 1 : p * MASK_BITS + s \in Indices
  /\ Bins \subseteq Indices
<1> DEFINE W == MASK_BITS
           L == SECONDARY_LENGTH
<1>0. W \in Nat \ {0} /\ L \in Nat /\ W * L = L * W /\ W * L \in Nat
  BY SizeClassConstants, SecondaryMasksFit
<1>1. ASSUME NEW i \in Indices
      PROVE  i \in Nat /\ i \div W \in Primaries /\ i % W \in 0 .. W - 1
  <2>1. i \in Nat /\ i < W * L
    BY <1>0 DEF Indices
  <2> DEFINE q == i \div W
  <2>2. q \in Nat /\ i % W \in 0 .. W - 1 /\ i = W * q + (i % W)
    BY <1>0, <2>1, DivMod
  <2> HIDE DEF q
  <2>3. ASSUME L <= q PROVE FALSE
    <3>1. W * L <= W * q
      BY <1>0, <2>2, <2>3, TimesMonotone
    <3> QED BY <1>0, <2>1, <2>2, <3>1
  <2>4. q < L
    BY <1>0, <2>2, <2>3
  <2> QED BY <1>0, <2>1, <2>2, <2>4 DEF q, Primaries
<1>2. ASSUME NEW p \in Primaries, NEW s \in 0 .. W - 1
      PROVE  p * W + s \in Indices
  <2>1. p \in Nat /\ p + 1 <= L
    BY <1>0 DEF Primaries
  <2>2. W * (p + 1) <= W * L
    BY <1>0, <2>1, TimesMonotone
  <2>3. W * (p + 1) = p * W + W /\ p * W \in Nat
    BY <1>0, <2>1
  <2> QED BY <1>0, <2>2, <2>3 DEF Indices
<1>3. Bins \subseteq Indices
  <2> DEFINE n == BIN_COUNT + W - 1
  <2>1. BIN_COUNT \in Nat /\ n \in Nat /\ L = n \div W
    BY <1>0, BinsExist DEF SECONDARY_LENGTH
  <2>2. n = W * (n \div W) + (n % W) /\ n % W \in 0 .. W - 1
    BY <1>0, <2>1, DivMod
  <2>3. n <= W * L + (W - 1)
    BY <1>0, <2>1, <2>2
  <2>4. BIN_COUNT <= L * W
    BY <1>0, <2>1, <2>3
  <2> QED BY <1>0, <2>1, <2>4 DEF Bins, Indices
<1> QED BY <1>1, <1>2, <1>3

\* Two indices with the same word and the same position are the same.
LEMMA SameIndex ==
  ASSUME NEW i \in Indices, NEW j \in Indices,
         i \div MASK_BITS = j \div MASK_BITS, i % MASK_BITS = j % MASK_BITS
  PROVE  i = j
<1>1. MASK_BITS \in Nat \ {0}
  BY SizeClassConstants
<1>2. i \in Nat /\ j \in Nat
  BY IndexRange
<1>3. i = MASK_BITS * (i \div MASK_BITS) + (i % MASK_BITS)
  BY <1>1, <1>2, DivMod
<1>4. j = MASK_BITS * (j \div MASK_BITS) + (j % MASK_BITS)
  BY <1>1, <1>2, DivMod
<1> QED BY <1>3, <1>4

-----------------------------------------------------------------------------
(* find_first, for any mask whose primary mask is a summary.               *)

\* BitMask::index and the indices find_first puts together are the same pairs.
LEMMA IndexOfPair ==
  ASSUME NEW p \in Primaries, NEW s \in 0 .. MASK_BITS - 1
  PROVE  bitmask_index(p * MASK_BITS + s)
           = [index |-> p * MASK_BITS + s, primary |-> p, secondary |-> s]
<1>1. MASK_BITS \in Nat \ {0} /\ p \in Nat
  BY SizeClassConstants, SecondaryMasksFit DEF Primaries
<1>2. (p * MASK_BITS + s) \div MASK_BITS = p /\ (p * MASK_BITS + s) % MASK_BITS = s
  BY <1>1, DivModUnique
<1> QED BY <1>2 DEF bitmask_index

\* A bit of a later word has a larger index, whatever the positions in the words.
LEMMA LaterWordIsLarger ==
  ASSUME NEW p \in Nat, NEW q \in Nat, p < q,
         NEW s \in 0 .. MASK_BITS - 1, NEW r \in 0 .. MASK_BITS - 1
  PROVE  p * MASK_BITS + s < q * MASK_BITS + r
<1>1. MASK_BITS \in Nat
  BY SizeClassConstants
<1>2. MASK_BITS * (p + 1) <= MASK_BITS * q
  BY <1>1, TimesMonotone
<1>3. MASK_BITS * (p + 1) = p * MASK_BITS + MASK_BITS /\ MASK_BITS * q = q * MASK_BITS
  BY <1>1
<1>4. p * MASK_BITS \in Nat /\ q * MASK_BITS \in Nat
  BY <1>1
<1> QED BY <1>1, <1>2, <1>3, <1>4

\* lowest_set_bit_after is the least bit from bit_index on, or none.
LEMMA LowestSetBit ==
  ASSUME NEW value \in Mask, NEW k \in 0 .. MASK_BITS - 1
  PROVE  LET r == lowest_set_bit_after(value, k)
             after == { b \in value : b >= k }
         IN  IF after = {} THEN r = NoBit
             ELSE r \in after /\ \A b \in after : r <= b
<1>1. MASK_BITS \in Nat \ {0} /\ k % MASK_BITS = k
  BY SizeClassConstants
<1>2. \A b \in value : b \in Nat
  BY <1>1 DEF Mask
<1>3. { b \in value : b >= k } \in SUBSET Nat
  BY <1>2
<1> QED BY <1>1, <1>3, MinIsLeast DEF lowest_set_bit_after

\* An index is its word times the width of a word plus its position.
LEMMA IndexSplit ==
  ASSUME NEW i \in Indices
  PROVE  /\ i \in Nat
         /\ i \div MASK_BITS \in Primaries /\ i \div MASK_BITS \in Nat
         /\ i % MASK_BITS \in 0 .. MASK_BITS - 1
         /\ i = (i \div MASK_BITS) * MASK_BITS + (i % MASK_BITS)
<1>1. MASK_BITS \in Nat \ {0} /\ i \in Nat
  BY SizeClassConstants, IndexRange
<1>2. i \div MASK_BITS \in Nat /\ i = MASK_BITS * (i \div MASK_BITS) + (i % MASK_BITS)
  BY <1>1, DivMod
<1>3. MASK_BITS * (i \div MASK_BITS) = (i \div MASK_BITS) * MASK_BITS
  BY <1>1, <1>2
<1> QED BY <1>1, <1>2, <1>3, IndexRange

\* A bit of word p at position s is the bin p * MASK_BITS + s.
LEMMA BitOfWord ==
  ASSUME NEW m \in BitMasks, NEW p \in Primaries, NEW s \in m.secondary_masks[p]
  PROVE  /\ s \in 0 .. MASK_BITS - 1
         /\ p * MASK_BITS + s \in Bits(m)
<1>1. MASK_BITS \in Nat \ {0} /\ p \in Nat
  BY SizeClassConstants, SecondaryMasksFit DEF Primaries
<1>2. s \in 0 .. MASK_BITS - 1
  BY DEF BitMasks, Mask
<1>3. (p * MASK_BITS + s) \div MASK_BITS = p /\ (p * MASK_BITS + s) % MASK_BITS = s
  BY <1>1, <1>2, DivModUnique
<1>4. p * MASK_BITS + s \in Indices
  BY <1>2, IndexRange
<1> QED BY <1>2, <1>3, <1>4 DEF Bits, Indices

\* find_first returns the least bit from i on, found in the word of i or in the first
\* later word that is not zero, and None when there is none.
LEMMA FindFirst ==
  ASSUME NEW m \in BitMasks, Summarised(m), NEW i \in Indices
  PROVE  LET after == { b \in Bits(m) : b >= i }
         IN  find_first(m, bitmask_index(i))
               = IF after = {} THEN None ELSE bitmask_index(Min(after))
<1> DEFINE W     == MASK_BITS
           p0    == i \div W
           s0    == i % W
           after == { b \in Bits(m) : b >= i }
           own   == IF p0 \in m.primary_mask
                      THEN lowest_set_bit_after(m.secondary_masks[p0], s0)
                      ELSE NoBit
           other == lowest_set_bit_after(m.primary_mask, p0 + 1)
           bit(p, s) == [index |-> p * MASK_BITS + s, primary |-> p, secondary |-> s]
<1>1. find_first(m, bitmask_index(i))
        = IF own # NoBit THEN bit(p0, own)
          ELSE IF other = NoBit THEN None
          ELSE bit(other, Min(m.secondary_masks[other]))
  BY DEF find_first, bitmask_index
<1>2. /\ W \in Nat \ {0} /\ i \in Nat
      /\ p0 \in Primaries /\ p0 \in Nat /\ s0 \in 0 .. W - 1
      /\ i = p0 * W + s0
  BY SizeClassConstants, IndexSplit
<1>3. \A b \in Bits(m) :
        /\ b \in Indices /\ b \in Nat
        /\ b \div W \in Primaries /\ b \div W \in Nat
        /\ b % W \in 0 .. W - 1
        /\ b % W \in m.secondary_masks[b \div W]
        /\ b = (b \div W) * W + (b % W)
  BY IndexSplit DEF Bits, Indices
<1>4. after \in SUBSET Nat
  BY <1>3
<1>5. NoBit \notin 0 .. W - 1
  BY SizeClassConstants DEF NoBit
<1>6. m.primary_mask \in Mask /\ \A p \in Primaries : m.secondary_masks[p] \in Mask
  BY DEF BitMasks
<1>7. m.primary_mask = { p \in Primaries : m.secondary_masks[p] # {} }
  BY DEF Summarised
<1> HIDE DEF p0, s0
\* No bit of an earlier word, nor an earlier bit of its own word, is after i.
<1>8. ASSUME NEW b \in after
      PROVE  b \div W > p0 \/ (b \div W = p0 /\ b % W >= s0)
  <2> DEFINE q == b \div W
             r == b % W
  <2>1. q \in Nat /\ r \in 0 .. W - 1 /\ b = q * W + r /\ b >= i /\ b \in Nat
    BY <1>3
  <2> HIDE DEF q, r
  <2>2. ASSUME q < p0 PROVE FALSE
    <3>1. q * W + r < p0 * W + s0
      BY <1>2, <2>1, <2>2, LaterWordIsLarger
    <3> QED BY <1>2, <2>1, <3>1
  <2>3. ASSUME q = p0, r < s0 PROVE FALSE
    <3>1. p0 * W \in Nat
      BY <1>2
    <3> QED BY <1>2, <2>1, <2>3, <3>1
  <2>4. q > p0 \/ (q = p0 /\ r >= s0)
    BY <1>2, <2>1, <2>2, <2>3
  <2> QED BY <2>4 DEF q, r
<1>9. CASE own # NoBit
  <2>1. own = lowest_set_bit_after(m.secondary_masks[p0], s0)
    BY <1>9
  <2>2. /\ own \in m.secondary_masks[p0] /\ own >= s0
        /\ \A s \in m.secondary_masks[p0] : s >= s0 => own <= s
    BY <1>2, <1>6, <1>9, <2>1, LowestSetBit
  <2> HIDE DEF own
  <2>3. own \in 0 .. W - 1 /\ p0 * W + own \in Bits(m)
    BY <1>2, <2>2, BitOfWord
  <2>4. p0 * W \in Nat
    BY <1>2
  <2>5. p0 * W + own \in after
    BY <1>2, <2>2, <2>3, <2>4
  <2>6. ASSUME NEW b \in after PROVE p0 * W + own <= b
    <3>1. CASE b \div W > p0
      BY <1>2, <1>3, <2>3, <2>4, <3>1, LaterWordIsLarger
    <3>2. CASE b \div W = p0 /\ b % W >= s0
      <4>1. b = p0 * W + (b % W) /\ b % W \in m.secondary_masks[p0]
        BY <1>3, <3>2
      <4>2. own <= b % W
        BY <2>2, <3>2, <4>1
      <4>3. b \in Bits(m)
        OBVIOUS
      <4>4. b % W \in Nat
        BY <1>2, <1>3, <4>3
      <4> QED BY <1>2, <2>3, <2>4, <4>1, <4>2, <4>4
    <3> QED BY <1>8, <3>1, <3>2
  <2>7. Min(after) = p0 * W + own
    BY <1>4, <2>5, <2>6, MinUnique
  <2> QED BY <1>1, <1>2, <1>9, <2>3, <2>5, <2>7, IndexOfPair
<1>10. CASE own = NoBit
  <2>1. \A s \in m.secondary_masks[p0] : ~(s >= s0)
    <3>1. CASE p0 \notin m.primary_mask
      BY <1>2, <1>7, <3>1
    <3>2. CASE p0 \in m.primary_mask
      BY <1>2, <1>5, <1>6, <1>10, <3>2, LowestSetBit DEF Mask
    <3> QED BY <3>1, <3>2
  <2>2. \A b \in after : b \div W > p0
    BY <1>3, <1>8, <2>1
  <2>3. p0 + 1 \in 0 .. W - 1
    BY <1>2, SecondaryMasksFit, SizeClassConstants DEF Primaries
  <2>4. IF { p \in m.primary_mask : p >= p0 + 1 } = {} THEN other = NoBit
        ELSE /\ other \in m.primary_mask /\ other >= p0 + 1
             /\ \A p \in m.primary_mask : p >= p0 + 1 => other <= p
    BY <1>6, <2>3, LowestSetBit
  <2>5. CASE other = NoBit
    <3>1. \A p \in m.primary_mask : ~(p >= p0 + 1)
      BY <1>5, <1>6, <2>4, <2>5 DEF Mask
    <3>2. ASSUME NEW b \in after PROVE FALSE
      BY <1>2, <1>3, <1>7, <2>2, <3>1, <3>2
    <3> QED BY <1>1, <1>10, <2>5, <3>2
  <2>6. CASE other # NoBit
    <3> HIDE DEF other
    <3>1. /\ other \in Primaries /\ other \in Nat /\ other > p0
          /\ m.secondary_masks[other] # {}
          /\ \A p \in m.primary_mask : p >= p0 + 1 => other <= p
      BY <1>2, <1>7, <2>4, <2>6, SecondaryMasksFit, SizeClassConstants DEF Primaries
    <3> DEFINE s1 == Min(m.secondary_masks[other])
    <3>2. m.secondary_masks[other] \in SUBSET Nat
      BY <1>6, <3>1 DEF Mask
    <3>3. s1 \in m.secondary_masks[other] /\ \A s \in m.secondary_masks[other] : s1 <= s
      BY <3>1, <3>2, MinIsLeast
    <3> HIDE DEF s1
    <3>4. s1 \in 0 .. W - 1 /\ other * W + s1 \in Bits(m)
      BY <3>1, <3>3, BitOfWord
    <3>5. other * W \in Nat
      BY <1>2, <3>1
    <3>6. other * W + s1 \in after
      <4>1. p0 * W + s0 < other * W + s1
        BY <1>2, <3>1, <3>4, LaterWordIsLarger
      <4> QED BY <1>2, <3>4, <3>5, <4>1
    <3>7. ASSUME NEW b \in after PROVE other * W + s1 <= b
      <4>1. other <= b \div W
        BY <1>2, <1>3, <1>7, <2>2, <3>1
      <4>2. CASE other = b \div W
        BY <1>3, <3>3, <3>4, <3>5, <4>2
      <4>3. CASE other < b \div W
        <5>1. other * W + s1 < (b \div W) * W + (b % W)
          BY <1>3, <3>1, <3>4, <4>3, LaterWordIsLarger
        <5> QED BY <1>3, <3>4, <3>5, <5>1
      <4> QED BY <1>3, <3>1, <4>1, <4>2, <4>3
    <3>8. Min(after) = other * W + s1
      BY <1>4, <3>6, <3>7, MinUnique
    <3> QED BY <1>1, <1>10, <2>6, <3>1, <3>4, <3>6, <3>8, IndexOfPair DEF s1
  <2> QED BY <2>5, <2>6
<1> QED BY <1>9, <1>10

-----------------------------------------------------------------------------

\* The parts of a BitIndex are within the mask.
LEMMA BinInRange ==
  ASSUME NEW i \in Bins
  PROVE  /\ i \in Indices
         /\ bitmask_index(i).primary \in Primaries
         /\ bitmask_index(i).secondary \in 0 .. MASK_BITS - 1
  BY IndexRange DEF bitmask_index

\* BitMask::set adds its bin to the set the mask stands for, and nothing else.
LEMMA SetAddsBit ==
  ASSUME NEW m \in BitMasks, Summarised(m), NEW i \in Bins
  PROVE  LET n == bitmask_set(m, bitmask_index(i))
         IN  n \in BitMasks /\ Summarised(n) /\ Bits(n) = Bits(m) \cup {i}
<1> DEFINE n == bitmask_set(m, bitmask_index(i))
           p == i \div MASK_BITS
           s == i % MASK_BITS
<1>1. i \in Indices /\ p \in Primaries /\ s \in 0 .. MASK_BITS - 1
  BY BinInRange, IndexRange
<1>2. p \in 0 .. MASK_BITS - 1
  BY <1>1, SizeClassConstants, SecondaryMasksFit DEF Primaries
<1>3. /\ n = [primary_mask |-> n.primary_mask, secondary_masks |-> n.secondary_masks]
      /\ n.primary_mask = m.primary_mask \cup {p}
      /\ n.secondary_masks = [m.secondary_masks EXCEPT ![p] = @ \cup {s}]
  BY DEF bitmask_set, bitmask_index
<1> HIDE DEF n, p, s
<1>4. /\ m.primary_mask \in Mask
      /\ m.secondary_masks \in [Primaries -> Mask]
  BY DEF BitMasks
<1>5. n \in BitMasks
  <2>1. n.primary_mask \in Mask /\ n.secondary_masks \in [Primaries -> Mask]
    BY <1>1, <1>2, <1>3, <1>4 DEF Mask
  <2> QED BY <1>3, <2>1 DEF BitMasks
<1>6. Summarised(n)
  BY <1>1, <1>3, <1>4 DEF Summarised
<1>7. ASSUME NEW j \in Indices
      PROVE  j % MASK_BITS \in n.secondary_masks[j \div MASK_BITS]
               <=> j % MASK_BITS \in m.secondary_masks[j \div MASK_BITS] \/ j = i
  <2>1. j \div MASK_BITS \in Primaries
    BY IndexRange
  <2>2. CASE j \div MASK_BITS = p /\ j % MASK_BITS = s
    BY <1>1, <1>3, <1>4, <2>2, SameIndex DEF p, s
  <2>3. CASE j \div MASK_BITS = p /\ j % MASK_BITS # s
    BY <1>1, <1>3, <1>4, <2>3 DEF s
  <2>4. CASE j \div MASK_BITS # p
    BY <1>3, <1>4, <2>1, <2>4 DEF p
  <2> QED BY <2>2, <2>3, <2>4
<1>8. Bits(n) = Bits(m) \cup {i}
  BY <1>1, <1>7 DEF Bits, Indices
<1> QED BY <1>5, <1>6, <1>8 DEF n

\* BitMask::unset removes its bin, and no other bit, even when it empties a word.
LEMMA UnsetRemovesBit ==
  ASSUME NEW m \in BitMasks, Summarised(m), NEW i \in Bins
  PROVE  LET n == bitmask_unset(m, bitmask_index(i))
         IN  n \in BitMasks /\ Summarised(n) /\ Bits(n) = Bits(m) \ {i}
<1> DEFINE n == bitmask_unset(m, bitmask_index(i))
           p == i \div MASK_BITS
           s == i % MASK_BITS
           w == m.secondary_masks[p] \ {s}
<1>1. i \in Indices /\ p \in Primaries /\ s \in 0 .. MASK_BITS - 1
  BY BinInRange, IndexRange
<1>3. /\ n = [primary_mask |-> n.primary_mask, secondary_masks |-> n.secondary_masks]
      /\ n.primary_mask = IF w = {} THEN m.primary_mask \ {p} ELSE m.primary_mask
      /\ n.secondary_masks = [m.secondary_masks EXCEPT ![p] = w]
  BY DEF bitmask_unset, bitmask_index
<1> HIDE DEF n, p, s
<1>4. /\ m.primary_mask \in Mask
      /\ m.secondary_masks \in [Primaries -> Mask]
  BY DEF BitMasks
<1>5. n \in BitMasks
  <2>1. n.primary_mask \in Mask /\ n.secondary_masks \in [Primaries -> Mask]
    BY <1>1, <1>3, <1>4 DEF Mask
  <2> QED BY <1>3, <2>1 DEF BitMasks
<1>6. Summarised(n)
  <2>1. m.primary_mask = { q \in Primaries : m.secondary_masks[q] # {} }
    BY DEF Summarised
  <2>2. CASE w = {}
    BY <1>1, <1>3, <1>4, <2>1, <2>2 DEF Summarised
  <2>3. CASE w # {}
    <3>1. p \in m.primary_mask
      BY <1>1, <2>1, <2>3
    <3> QED BY <1>1, <1>3, <1>4, <2>1, <2>3, <3>1 DEF Summarised
  <2> QED BY <2>2, <2>3
<1>7. ASSUME NEW j \in Indices
      PROVE  j % MASK_BITS \in n.secondary_masks[j \div MASK_BITS]
               <=> j % MASK_BITS \in m.secondary_masks[j \div MASK_BITS] /\ j # i
  <2>1. j \div MASK_BITS \in Primaries
    BY IndexRange
  <2>2. CASE j \div MASK_BITS = p /\ j % MASK_BITS = s
    BY <1>1, <1>3, <1>4, <2>2, SameIndex DEF p, s
  <2>3. CASE j \div MASK_BITS = p /\ j % MASK_BITS # s
    BY <1>1, <1>3, <1>4, <2>3 DEF s
  <2>4. CASE j \div MASK_BITS # p
    BY <1>3, <1>4, <2>1, <2>4 DEF p
  <2> QED BY <2>2, <2>3, <2>4
<1>8. Bits(n) = Bits(m) \ {i}
  BY <1>7 DEF Bits, Indices
<1> QED BY <1>5, <1>6, <1>8 DEF n

\* BitMask::new stands for no bin.
LEMMA NewIsEmpty ==
  bitmask_new \in BitMasks /\ Summarised(bitmask_new) /\ Bits(bitmask_new) = {}
<1>1. bitmask_new \in BitMasks /\ Summarised(bitmask_new)
  BY DEF bitmask_new, BitMasks, Mask, Summarised
<1>2. \A i \in Indices : bitmask_new.secondary_masks[i \div MASK_BITS] = {}
  BY IndexRange DEF bitmask_new
<1> QED BY <1>1, <1>2 DEF Bits, Indices

=============================================================================
