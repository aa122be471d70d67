---------------------------- MODULE EnvContract ----------------------------
(***************************************************************************)
(* What the allocator needs of an Env: an aligned address space that stays *)
(* where it is, of which a growing prefix can be used, until it is given   *)
(* back.                                                                   *)
(***************************************************************************)
EXTENDS Naturals

CONSTANT GRANULARITY

VARIABLES
  base,     \* the address the allocator works at, 0 if it has none
  usable    \* how many granules from there can be read and written

Init == base = 0 /\ usable = 0

Reserve ==
  /\ base = 0
  /\ base' # 0 /\ base' % GRANULARITY = 0
  /\ usable' > 0

Extend ==
  /\ base # 0 /\ base' = base
  /\ usable' >= usable

Release == base' = 0 /\ usable' = 0

Next == Reserve \/ Extend \/ Release

Spec == Init /\ [][Next]_<<base, usable>>

=============================================================================
