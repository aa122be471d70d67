---------------------------- MODULE MutexProofs ----------------------------
(***************************************************************************)
(* Mutual exclusion and visibility of the spin lock, for any number of     *)
(* threads and of calls.                                                   *)
(***************************************************************************)
EXTENDS Mutex, TLAPS

Inv == TypeOK /\ MutualExclusion /\ NoStaleAccess /\ FlagTellsTheTruth

\* A new Mutex is unlocked and its value is visible to whoever gets to see the Mutex.
LEMMA InitInv == Init => Inv
  BY CallsIsNatural
  DEF Init, Inv, TypeOK, MutualExclusion, NoStaleAccess, FlagTellsTheTruth, Holders

\* Every step of every thread keeps the four parts of the invariant.
LEMMA StepInv == Inv /\ [Next]_vars => Inv'
<1> SUFFICES ASSUME Inv, [Next]_vars PROVE Inv'
  OBVIOUS
<1> USE DEF Inv, TypeOK, MutualExclusion, NoStaleAccess, FlagTellsTheTruth, Holders
<1>1. ASSUME NEW t \in Threads, Lock(t) PROVE Inv'
  <2>1. Holders' = Holders
    BY <1>1 DEF Lock
  <2>2. TypeOK'
    BY <1>1 DEF Lock
  <2> QED BY <1>1, <2>1, <2>2 DEF Lock
<1>2. ASSUME NEW t \in Threads, CompareExchange(t) PROVE Inv'
  <2>1. Holders = {} /\ published = TRUE
    BY <1>2 DEF CompareExchange
  <2>2. Holders' = {t} /\ flag' = TRUE /\ t \in seen_by'
    BY <1>2, <2>1 DEF CompareExchange, acquire
  <2>3. TypeOK'
    BY <1>2 DEF CompareExchange, acquire
  <2> QED BY <2>2, <2>3
<1>3. ASSUME NEW t \in Threads, Write(t) PROVE Inv'
  <2>1. Holders = {t} /\ Holders' = {t} /\ flag = TRUE
    BY <1>3 DEF Write
  <2>2. TypeOK'
    BY <1>3 DEF Write
  <2> QED BY <1>3, <2>1, <2>2 DEF Write
<1>4. ASSUME NEW t \in Threads, Unlock(t) PROVE Inv'
  <2>1. Holders = {t} /\ t \in seen_by
    BY <1>4 DEF Unlock
  <2>2. Holders' = {} /\ flag' = FALSE /\ published' = TRUE
    BY <1>4, <2>1 DEF Unlock
  <2>3. TypeOK'
    BY <1>4 DEF Unlock
  <2> QED BY <2>2, <2>3
<1>5. CASE UNCHANGED vars
  BY <1>5 DEF vars
<1> QED BY <1>1, <1>2, <1>3, <1>4, <1>5 DEF Next

\* The flag of Mutex::lock really excludes: no two guards exist at the same time.
THEOREM MutexExcludes == Spec => []MutualExclusion
<1>1. Inv => MutualExclusion
  BY DEF Inv
<1> QED BY <1>1, InitInv, StepInv, PTL DEF Spec

\* A thread that holds a guard sees every write made under earlier guards: the
\* Acquire of lock() and the Release of drop() are enough, and both are needed.
THEOREM MutexPublishes == Spec => []NoStaleAccess
<1>1. Inv => NoStaleAccess
  BY DEF Inv
<1> QED BY <1>1, InitInv, StepInv, PTL DEF Spec

\* The flag is set exactly while a guard exists, and while it is clear the value is
\* published: lock() and drop() leave no state in which the next holder could be wrong.
THEOREM FlagIsExact == Spec => []FlagTellsTheTruth
<1>1. Inv => FlagTellsTheTruth
  BY DEF Inv
<1> QED BY <1>1, InitInv, StepInv, PTL DEF Spec

=============================================================================
