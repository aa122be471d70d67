---------------------------- MODULE SizeClasses ----------------------------
(***************************************************************************)
(* The size classes of picoalloc: how a size, counted in granules of 32    *)
(* bytes, is mapped to the index of a free list ("bin").  A bin index is a *)
(* small floating point number: an exponent and MANTISSA_BITS of mantissa, *)
(* so the width of a bin grows with the sizes it holds.                    *)
(*                                                                         *)
(* A free chunk is filed under the bin its size rounds DOWN to; a request  *)
(* searches from the bin its size rounds UP to, where every chunk fits.    *)
(***************************************************************************)
EXTENDS Naturals, FiniteSetsExt

CONSTANTS
  SIZE_MAX,             \* SizeT::MAX, the largest value of a Size
  MASK_BITS,            \* the number of bits of the integer type Mask
  MAX_ALLOCATION_SIZE,  \* the largest chunk a request may need, in granules
  MAX_BINS              \* the number of bins the build asks for

ASSUME SizeClassConstants ==
  /\ SIZE_MAX \in Nat
  /\ MASK_BITS \in 2 .. SIZE_MAX
  /\ MAX_ALLOCATION_SIZE \in 1 .. SIZE_MAX
  /\ MAX_BINS \in Nat \ {0}

\* SizeT is a u32: two halves of 16 bits.
ASSUME SizeTIsU32 == SIZE_MAX \div 2^16 < 2^16

-----------------------------------------------------------------------------
\* The position of the most significant bit of a nonzero SizeT: 31 minus its
\* leading zeros.
HighestBit(size) == CHOOSE k \in 0 .. 31 : 2^k <= size /\ size < 2^(k + 1)

\* Mutants of to_bin_index_generic: rounding up without looking at the bits that
\* are cut off; the exponent one too small.
bin_index_without_carry(mantissa_bits, round_up, size) ==
  LET start_bit == HighestBit(size) - mantissa_bits
  IN  IF size < 2^mantissa_bits THEN size - 1
      ELSE start_bit * 2^mantissa_bits + size \div 2^start_bit - 1

bin_index_low_exponent(mantissa_bits, round_up, size) ==
  LET start_bit == HighestBit(size) - mantissa_bits
  IN  IF size < 2^mantissa_bits THEN size - 1
      ELSE (start_bit - 1) * 2^mantissa_bits + size \div 2^start_bit - 1

\* The mantissa is cut out of the size at start_bit; rounding up adds one when
\* any bit below is set, and may carry into the exponent.  (Rounding down the
\* code joins the two fields with |, which is a sum: they do not overlap.)
to_bin_index_generic(mantissa_bits, round_up, size) ==
  LET start_bit == HighestBit(size) - mantissa_bits
      exponent  == start_bit + 1
      mantissa  == (size \div 2^start_bit) % 2^mantissa_bits
      carry     == IF round_up /\ size % 2^start_bit # 0 THEN 1 ELSE 0
  IN  IF size = 0 THEN 0
      ELSE IF size < 2^mantissa_bits THEN size - 1
      ELSE exponent * 2^mantissa_bits + mantissa + carry - 1

\* The widest mantissa, of 8 to 1 bits, whose bins fit: the code tries them in
\* descending order and refuses to compile when none does.
mantissa_candidates ==
  { m \in 1 .. 8 : to_bin_index_generic(m, TRUE, MAX_ALLOCATION_SIZE)
                     < Min({MAX_BINS, MASK_BITS * MASK_BITS}) }

\* The panic of calculate_optimal_bin_config at compile time.
ASSUME SomeMantissaFits == mantissa_candidates # {}

calculate_optimal_bin_config ==
  LET m == Max(mantissa_candidates)
  IN  [ mantissa_bits |-> m,
        bin_count |-> to_bin_index_generic(m, TRUE, MAX_ALLOCATION_SIZE) + 1 ]

BIN_CONFIG    == calculate_optimal_bin_config
MANTISSA_BITS == BIN_CONFIG.mantissa_bits
BIN_COUNT     == BIN_CONFIG.bin_count
Bins          == 0 .. BIN_COUNT - 1

\* The number of Mask words that hold one bit per bin.
SECONDARY_LENGTH == (BIN_COUNT + MASK_BITS - 1) \div MASK_BITS

clamped(size) == IF size > MAX_ALLOCATION_SIZE THEN MAX_ALLOCATION_SIZE ELSE size

size_to_bin_round_down(size) ==
  to_bin_index_generic(MANTISSA_BITS, FALSE, clamped(size))

size_to_bin_round_up(size) ==
  to_bin_index_generic(MANTISSA_BITS, TRUE, clamped(size))

-----------------------------------------------------------------------------
\* Reference: the least size of a bin, its index read as a floating point number.
LeastSizeOf(bin) ==
  LET exponent == (bin + 1) \div 2^MANTISSA_BITS
      mantissa == (bin + 1) % 2^MANTISSA_BITS
  IN  IF exponent = 0 THEN mantissa
      ELSE (2^MANTISSA_BITS + mantissa) * 2^(exponent - 1)

=============================================================================
