----------------------------- MODULE BinProofs -----------------------------
(***************************************************************************)
(* The two-level bit mask represents exactly the bins that were set, and   *)
(* find_first finds the least of them, after any sequence of calls; and    *)
(* sizes are rounded to the bins they belong to, whatever the constants of *)
(* the build.                                                              *)
(***************************************************************************)
EXTENDS BitMaskMachine, SizeClassesMC, BinLemmas

Inv == TypeOK /\ MaskRepresentsBins

\* The mask is well formed and represents the bins set, whatever the sequence of calls.
THEOREM MaskInvariant == Spec => [](TypeOK /\ MaskRepresentsBins)
<1>1. Init => Inv
  BY NewIsEmpty DEF Init, Inv, TypeOK, MaskRepresentsBins
<1>2. Inv /\ [Next]_vars => Inv'
  <2> SUFFICES ASSUME Inv, [Next]_vars PROVE Inv'
    OBVIOUS
  <2> USE DEF Inv, TypeOK, MaskRepresentsBins
  <2>1. ASSUME NEW i \in Bins, Set(i) PROVE Inv'
    BY <2>1, SetAddsBit DEF Set
  <2>2. ASSUME NEW i \in Bins, Unset(i) PROVE Inv'
    BY <2>2, UnsetRemovesBit DEF Unset
  <2>3. CASE UNCHANGED vars
    BY <2>3 DEF vars
  <2> QED BY <2>1, <2>2, <2>3 DEF Next
<1> QED BY <1>1, <1>2, PTL DEF Spec, Inv

\* Every word of the mask stays within its width: BitMask::index never names a bit
\* that BitMask::set would have to shift out.
THEOREM MaskTypes == Spec => []TypeOK
<1>1. TypeOK /\ MaskRepresentsBins => TypeOK
  OBVIOUS
<1> QED BY <1>1, MaskInvariant, PTL

\* find_first always returns the least set bin from min_index on.
THEOREM FindFirstCorrect == Spec => []FindFirstIsLeast
<1>1. TypeOK /\ MaskRepresentsBins => FindFirstIsLeast
  <2> SUFFICES ASSUME TypeOK, MaskRepresentsBins, NEW i \in Bins
               PROVE  LET after == { b \in bins : b >= i }
                      IN  find_first(mask, bitmask_index(i))
                            = IF after = {} THEN None ELSE bitmask_index(Min(after))
    BY DEF FindFirstIsLeast
  <2>1. i \in Indices /\ mask \in BitMasks /\ Summarised(mask) /\ Bits(mask) = bins
    BY BinInRange DEF TypeOK, MaskRepresentsBins
  <2> QED BY <2>1, FindFirst
<1> QED BY <1>1, MaskInvariant, PTL

-----------------------------------------------------------------------------
(* The size classes.                                                       *)

\* The sizes a chunk or a request may have without being clamped.
SizeInRange == size \in 1 .. MAX_ALLOCATION_SIZE /\ fill \in {0, 1, 2}

LEMMA SizesAreInRange == SizesSpec => []SizeInRange
<1>1. SizesInit => SizeInRange
  BY SizeClassConstants DEF SizesInit, SizeInRange
<1>2. SizeInRange /\ [SizesNext]_size_vars => SizeInRange'
  <2> SUFFICES ASSUME SizeInRange, [SizesNext]_size_vars PROVE SizeInRange'
    OBVIOUS
  <2>1. CASE Widen
    BY <2>1, SizeClassConstants DEF Widen, SizeInRange
  <2>2. CASE StepOver
    BY <2>2, SizeClassConstants DEF StepOver, SizeInRange
  <2>3. CASE UNCHANGED size_vars
    BY <2>3 DEF size_vars, SizeInRange
  <2> QED BY <2>1, <2>2, <2>3 DEF SizesNext
<1> QED BY <1>1, <1>2, PTL DEF SizesSpec

\* register_free_space files a chunk of any size under the last bin whose least size it
\* has reached, and that bin exists.
THEOREM RoundDownIsExact == SizesSpec => []RoundDownIsLastReachedBin
<1>1. SizeInRange => RoundDownIsLastReachedBin
  BY RoundedSize, BinsExist DEF SizeInRange, RoundDownIsLastReachedBin
<1> QED BY <1>1, SizesAreInRange, PTL

\* A request of any size is searched for from the first bin all of whose chunks are
\* large enough, and that bin exists.
THEOREM RoundUpIsExact == SizesSpec => []RoundUpIsFirstFittingBin
<1>1. SizeInRange => RoundUpIsFirstFittingBin
  BY RoundedSize, BinsExist DEF SizeInRange, RoundUpIsFirstFittingBin
<1> QED BY <1>1, SizesAreInRange, PTL

=============================================================================
