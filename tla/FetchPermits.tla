---------------------------- MODULE FetchPermits ----------------------------
(***************************************************************************)
(* What the global fetch semaphore of live_fetch.rs promises: at most      *)
(* MaxFetches background fetches hold a permit, a permit is taken by one   *)
(* fetch at a time and every permit comes back.  The compare-and-swap loop *)
(* that implements it is part of LiveCache.                                *)
(***************************************************************************)
EXTENDS Naturals, FiniteSets

CONSTANTS
  Fetchers,     \* fetch threads that may run at the same time
  MaxFetches    \* MAX_CONCURRENT_FETCHES

VARIABLE holders   \* the fetches that hold a permit

Init == holders = {}

Acquire(t) ==
  /\ t \notin holders
  /\ Cardinality(holders) < MaxFetches
  /\ holders' = holders \cup {t}

Release(t) ==
  /\ t \in holders
  /\ holders' = holders \ {t}

Next == \E t \in Fetchers : Acquire(t) \/ Release(t)

SafeSpec == Init /\ [][Next]_holders

\* Nothing obliges a caller to ask for a permit; a holder must give it back.
Spec == SafeSpec /\ \A t \in Fetchers : WF_holders(Release(t))
=============================================================================
