------------------------------ MODULE BitMask ------------------------------
(***************************************************************************)
(* The two-level bit mask that records which free lists are not empty.     *)
(* A Mask word is the set of the positions of its set bits.  Bit s of      *)
(* secondary_masks[p] stands for bin p * MASK_BITS + s; bit p of           *)
(* primary_mask says that secondary_masks[p] is not zero.                  *)
(***************************************************************************)
EXTENDS SizeClasses

\* The compile-time assertion lets SECONDARY_LENGTH equal MASK_BITS, but then
\* find_first would shift by the full width of a Mask.  Every build has fewer
\* words: 38 of 64 bits, or 21 of 32 bits.
ASSUME SecondaryMasksFit == SECONDARY_LENGTH \in 1 .. MASK_BITS - 1

Mask      == SUBSET (0 .. MASK_BITS - 1)
Primaries == 0 .. SECONDARY_LENGTH - 1
BitMasks  == [primary_mask : Mask, secondary_masks : [Primaries -> Mask]]

\* u32::MAX and None, the two ways the code says that there is no such bit.
NoBit == SIZE_MAX
None  == [index |-> NoBit, primary |-> NoBit, secondary |-> NoBit]

\* Mutant of lowest_set_bit_after: strictly after.
lowest_set_bit_beyond(value, bit_index) ==
  LET bits_after == { bit \in value : bit > bit_index % MASK_BITS }
  IN  IF bits_after = {} THEN NoBit ELSE Min(bits_after)

\* `1 << bit_index` shifts by bit_index modulo the width of the Mask.
lowest_set_bit_after(value, bit_index) ==
  LET bits_after == { bit \in value : bit >= bit_index % MASK_BITS }
  IN  IF bits_after = {} THEN NoBit ELSE Min(bits_after)

bitmask_new == [ primary_mask |-> {}, secondary_masks |-> [p \in Primaries |-> {}] ]

\* Mutant of bitmask_index: the secondary index without SECONDARY_BIN_MASK.
bitmask_index_unmasked(index) ==
  [index |-> index, primary |-> index \div MASK_BITS, secondary |-> index]

bitmask_index(index) ==
  [ index     |-> index,
    primary   |-> index \div MASK_BITS,
    secondary |-> index % MASK_BITS ]

bitmask_set(mask, index) ==
  [ primary_mask    |-> mask.primary_mask \cup {index.primary},
    secondary_masks |-> [mask.secondary_masks EXCEPT
                           ![index.primary] = @ \cup {index.secondary}] ]

\* Mutant of bitmask_unset: the primary bit of a word that became zero stays.
bitmask_unset_secondary(mask, index) ==
  [mask EXCEPT !.secondary_masks[index.primary] = @ \ {index.secondary}]

bitmask_unset(mask, index) ==
  LET secondary == mask.secondary_masks[index.primary] \ {index.secondary}
  IN  [ primary_mask    |-> IF secondary = {} THEN mask.primary_mask \ {index.primary}
                                              ELSE mask.primary_mask,
        secondary_masks |-> [mask.secondary_masks EXCEPT ![index.primary] = secondary] ]

\* The word of min_index is searched from min_index on; when it has no such bit
\* the search moves to the next word that the primary mask says is not zero.
find_first(mask, min_index) ==
  LET own   == IF min_index.primary \in mask.primary_mask
                 THEN lowest_set_bit_after(mask.secondary_masks[min_index.primary],
                                           min_index.secondary)
                 ELSE NoBit
      other == lowest_set_bit_after(mask.primary_mask, min_index.primary + 1)
      bit(p, s) == [index |-> p * MASK_BITS + s, primary |-> p, secondary |-> s]
  IN  IF own # NoBit THEN bit(min_index.primary, own)
      ELSE IF other = NoBit THEN None
      ELSE bit(other, Min(mask.secondary_masks[other]))

-----------------------------------------------------------------------------
\* The set of bins a mask stands for.
Bits(mask) ==
  { i \in 0 .. SECONDARY_LENGTH * MASK_BITS - 1 :
      i % MASK_BITS \in mask.secondary_masks[i \div MASK_BITS] }

\* What bitmask_unset's second half is for: the primary mask has exactly the
\* bits of the secondary masks that are not zero.
Summarised(mask) ==
  mask.primary_mask = { p \in Primaries : mask.secondary_masks[p] # {} }

=============================================================================
