------------------------------- MODULE Mutex -------------------------------
(***************************************************************************)
(* picoalloc's Mutex<T>: a spin lock around one value, here the allocator. *)
(* Threads run the body of lock(), use the value through the guard, and    *)
(* drop the guard.                                                         *)
(*                                                                         *)
(* The value is represented by who can see its latest write.  A thread     *)
(* sees it because it wrote it, or because it read, with Acquire, a flag   *)
(* that was stored with Release by a thread that saw it.  A thread that    *)
(* uses the value without seeing the latest write races with that write.   *)
(***************************************************************************)
EXTENDS Naturals

CONSTANTS
  Threads,
  CALLS      \* bound: how often a thread calls lock()

ASSUME CallsIsNatural == CALLS \in Nat

VARIABLES
  flag,       \* Mutex::flag
  pc,         \* thread -> "outside", "spinning" in lock(), or "holding" a guard
  calls,      \* thread -> the calls of lock() it still makes
  seen_by,    \* the threads that see the latest write to the value
  published   \* whether reading flag with Acquire makes that write visible

vars == <<flag, pc, calls, seen_by, published>>

Init ==
  /\ flag = FALSE
  /\ pc = [t \in Threads |-> "outside"]
  /\ calls = [t \in Threads |-> CALLS]
  /\ seen_by = Threads
  /\ published = TRUE

Lock(t) ==
  /\ pc[t] = "outside"
  /\ calls[t] > 0
  /\ pc' = [pc EXCEPT ![t] = "spinning"]
  /\ calls' = [calls EXCEPT ![t] = @ - 1]
  /\ UNCHANGED <<flag, seen_by, published>>

acquire(t) == seen_by' = IF published THEN seen_by \cup {t} ELSE seen_by

\* Mutant of CompareExchange: the flag is stored without being compared.
StoreTrue(t) ==
  /\ pc[t] = "spinning"
  /\ flag' = TRUE
  /\ acquire(t)
  /\ pc' = [pc EXCEPT ![t] = "holding"]
  /\ UNCHANGED <<calls, published>>

\* The iteration of the loop in lock() that succeeds.  One that fails, because the
\* flag is set or spuriously (compare_exchange_weak), changes nothing: its load is
\* Relaxed, and it is a stuttering step.
CompareExchange(t) ==
  /\ pc[t] = "spinning"
  /\ flag = FALSE
  /\ flag' = TRUE
  /\ acquire(t)
  /\ pc' = [pc EXCEPT ![t] = "holding"]
  /\ UNCHANGED <<calls, published>>

\* DerefMut of the guard: the value is written, and nobody else sees that yet.
Write(t) ==
  /\ pc[t] = "holding"
  /\ seen_by' = {t}
  /\ published' = FALSE
  /\ UNCHANGED <<flag, pc, calls>>

\* Mutants of Unlock: a Relaxed store; a guard that is forgotten.
UnlockRelaxed(t) ==
  /\ pc[t] = "holding"
  /\ flag' = FALSE
  /\ pc' = [pc EXCEPT ![t] = "outside"]
  /\ UNCHANGED <<calls, seen_by, published>>

ForgetGuard(t) ==
  /\ pc[t] = "holding"
  /\ pc' = [pc EXCEPT ![t] = "outside"]
  /\ UNCHANGED <<flag, calls, seen_by, published>>

\* Drop of the guard: flag is stored with Release.
Unlock(t) ==
  /\ pc[t] = "holding"
  /\ flag' = FALSE
  /\ published' = (t \in seen_by)
  /\ pc' = [pc EXCEPT ![t] = "outside"]
  /\ UNCHANGED <<calls, seen_by>>

Next == \E t \in Threads : Lock(t) \/ CompareExchange(t) \/ Write(t) \/ Unlock(t)

\* A holder gets to drop its guard: what it does meanwhile has no loops.  While the
\* flag is clear some spinning thread's exchange succeeds; which one is not said.
Fairness ==
  /\ WF_vars(\E t \in Threads : CompareExchange(t))
  /\ \A t \in Threads : WF_vars(Unlock(t))

Spec == Init /\ [][Next]_vars /\ Fairness

-----------------------------------------------------------------------------
TypeOK ==
  /\ flag \in BOOLEAN
  /\ pc \in [Threads -> {"outside", "spinning", "holding"}]
  /\ calls \in [Threads -> Nat]
  /\ seen_by \subseteq Threads
  /\ published \in BOOLEAN

Holders == { t \in Threads : pc[t] = "holding" }

\* Never two guards at once, whatever the interleaving of exchanges and drops.
MutualExclusion == \A t, u \in Holders : t = u

\* Whoever holds the guard sees every earlier write to the value: Acquire and Release
\* hand the writes over from guard to guard, so no use of the value is a data race.
NoStaleAccess == Holders \subseteq seen_by

\* A thread in lock() gets its guard, provided the others call lock() only finitely
\* often; the spin lock is not fair, so nothing more can be had.
SpinnersGetIn == \A t \in Threads : pc[t] = "spinning" ~> pc[t] = "holding"

\* The strengthening under which both are inductive: flag says whether there is a
\* holder, and while there is none the next one is sure to see the latest write.
FlagTellsTheTruth ==
  /\ flag <=> Holders # {}
  /\ ~flag => published

=============================================================================
