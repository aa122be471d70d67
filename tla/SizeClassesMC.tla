--------------------------- MODULE SizeClassesMC ---------------------------
(***************************************************************************)
(* The size classes against their reference meaning, with the constants of *)
(* the 64-bit build: 2^25 granules, 4096 bins wanted, masks of 64 bits.    *)
(* The sizes visited are all sizes below 2^LeadingBits and every larger    *)
(* size that is such a pattern followed by zeros, by ones, or by zeros and *)
(* a final one: both borders of every bin, and the sizes next to them.     *)
(***************************************************************************)
EXTENDS BitMask

CONSTANT LeadingBits

VARIABLES
  size,   \* the size whose class is computed
  fill    \* the bit the pattern is being continued with

size_vars == <<size, fill>>

SizesInit == /\ size \in 1 .. 2^LeadingBits - 1
             /\ size <= MAX_ALLOCATION_SIZE
             /\ fill \in {0, 1}

\* One more bit of the pattern.
Widen == /\ fill # 2
         /\ 2 * size + fill <= MAX_ALLOCATION_SIZE
         /\ size' = 2 * size + fill
         /\ UNCHANGED fill

\* The size just above a power-of-two multiple of the pattern.
StepOver == /\ fill = 0
            /\ size < MAX_ALLOCATION_SIZE
            /\ size' = size + 1
            /\ fill' = 2

SizesNext == Widen \/ StepOver

SizesSpec == SizesInit /\ [][SizesNext]_size_vars

-----------------------------------------------------------------------------
\* size_to_bin_round_down files a size under the last bin whose least size it has
\* reached, which is one of the bins that exist.
RoundDownIsLastReachedBin ==
  LET bin == size_to_bin_round_down(size)
  IN  /\ bin \in Bins
      /\ LeastSizeOf(bin) <= size
      /\ size < LeastSizeOf(bin + 1)

\* size_to_bin_round_up gives the first bin in which every chunk is large enough:
\* alloc_impl may take any chunk from there on without looking at its size.
RoundUpIsFirstFittingBin ==
  LET bin == size_to_bin_round_up(size)
  IN  /\ bin \in Bins
      /\ size <= LeastSizeOf(bin)
      /\ bin > 0 => LeastSizeOf(bin - 1) < size

=============================================================================
