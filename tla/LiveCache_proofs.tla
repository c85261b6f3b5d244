--------------------------- MODULE LiveCache_proofs ---------------------------
(***************************************************************************)
(* Theorems about LiveCache, for every set of keys, connections and fetch  *)
(* threads and every bound.                                                *)
(***************************************************************************)
EXTENDS LiveCache, FiniteSetTheorems, SequenceTheorems, TLAPS

(***************************************************************************)
(* Typing and the semaphore.  permits - 1 stays a natural number only      *)
(* because the counter is exact, so the two are proved together.           *)
(***************************************************************************)
PermitInv == TypeOK /\ PermitsExact

\* The two maps of the model are finite.
LEMMA FiniteDomains ==
  ASSUME TypeOK
  PROVE  IsFiniteSet(DOMAIN fetch) /\ IsFiniteSet(DOMAIN entries)
BY FS_Subset, KeysAssumption, FetchersAssumption DEF TypeOK, IsPartialFn

\* Countdowns and saturating ages stay in their intervals.
LEMMA ClockTypes ==
  ASSUME NEW b \in Nat, NEW n \in 0 .. b
  PROVE  Down(n) \in 0 .. b /\ Up(n, b) \in 0 .. b
BY DEF Down, Up

LEMMA PermitInit == Init => PermitInv
<1> SUFFICES ASSUME Init PROVE PermitInv
  OBVIOUS
<1>1. DOMAIN entries = {} /\ DOMAIN fetch = {}
  BY DEF Init
<1>2. TypeOK
  BY <1>1, TimesAssumption, ConfigsAssumption
  DEF Init, TypeOK, IsPartialFn, Server
<1>3. PermitsExact
  BY <1>1, FS_EmptySet, FetchersAssumption DEF Init, PermitsExact
<1> QED BY <1>2, <1>3 DEF PermitInv

\* Clearing keys keeps the types of the four variables it assigns.
LEMMA ClearTypes ==
  ASSUME TypeOK, NEW S \in SUBSET Keys, Clear(S)
  PROVE  /\ IsPartialFn(entries', Keys, Entry)
         /\ cooldown' \in [Keys -> 0 .. NegativeTTL]
         /\ coalesce' \in [Keys -> 0 .. Window]
         /\ IsPartialFn(fetch', Fetchers, Fetch)
         /\ DOMAIN fetch' = DOMAIN fetch
<1>1. IsPartialFn(entries', Keys, Entry)
  BY DEF TypeOK, Clear, IsPartialFn
<1>2. cooldown' \in [Keys -> 0 .. NegativeTTL] /\ coalesce' \in [Keys -> 0 .. Window]
  BY TimesAssumption DEF TypeOK, Clear
<1>3. IsPartialFn(fetch', Fetchers, Fetch) /\ DOMAIN fetch' = DOMAIN fetch
  BY DEF TypeOK, Clear, IsPartialFn, Fetch
<1> QED BY <1>1, <1>2, <1>3

\* Leaving a key ends the handler or goes on with the remaining keys.
LEMMA NextKeyTypes ==
  ASSUME TypeOK, NextKey, server.pc # "idle"
  PROVE  /\ server' \in Server
         /\ server'.pc \in {"idle", "check"}
         /\ server'.pc # "idle" => server'.todo # <<>>
<1>1. server \in Server /\ server.todo \in Seq(Keys) /\ server.todo # <<>>
  BY DEF TypeOK, Server
<1>2. Tail(server.todo) \in Seq(Keys) /\ Len(Tail(server.todo)) = Len(server.todo) - 1
  BY <1>1, HeadTailProperties
<1>3. Len(server.todo) # 1 => Tail(server.todo) # <<>>
  <2>1. Len(server.todo) \in Nat \ {0}
    BY <1>1, EmptySeq
  <2>2. Len(<<>>) = 0
    BY EmptySeq
  <2>3. ASSUME NEW rest \in Seq(Keys), NEW n \in Nat \ {0, 1}, Len(rest) = n - 1
        PROVE  rest # <<>>
    BY <2>2, <2>3
  <2> QED BY <1>2, <2>1, <2>3
<1> QED BY <1>2, <1>3, TimesAssumption DEF NextKey, Server

LEMMA PermitStep == PermitInv /\ [Next]_vars => PermitInv'
<1> SUFFICES ASSUME PermitInv, [Next]_vars PROVE PermitInv'
  OBVIOUS
<1> USE DEF PermitInv
<1>1. ASSUME NEW k \in Keys, Completion(k) PROVE PermitInv'
  <2>1. <<k>> \in Seq(Keys) /\ <<k>> # <<>>
    OBVIOUS
  <2>2. server' \in Server /\ server'.todo # <<>> /\ config \in ActiveConfigs
    BY <1>1, <2>1 DEF Completion, TypeOK, Server
  <2> QED BY <1>1, <2>2 DEF Completion, TypeOK, PermitsExact
<1>2. ASSUME NEW S \in SUBSET Keys, Refresh(S) PROVE PermitInv'
  <2>1. server' \in Server /\ (server'.pc # "idle" => server'.todo # <<>> /\ config \in ActiveConfigs)
    <3>1. RefreshKeys \in Seq(Keys)
      BY KeysAssumption
    <3> QED BY <1>2, <3>1 DEF Refresh, TypeOK, Server, Idle
  <2> QED BY <1>2, <2>1, ClearTypes DEF Refresh, TypeOK, PermitsExact
<1>3. ASSUME DidClose PROVE PermitInv'
  BY <1>3, ClearTypes DEF DidClose, TypeOK, PermitsExact
<1>4. ASSUME NEW c \in Configs, ChangeConfig(c) PROVE PermitInv'
  BY <1>4, ClearTypes DEF ChangeConfig, TypeOK, PermitsExact, Idle
<1>5. ASSUME Check PROVE PermitInv'
  <2>1. CASE NextKey
    BY <1>5, <2>1, NextKeyTypes DEF Check, TypeOK, PermitsExact
  <2>2. CASE server' = [server EXCEPT !.pc = "record"]
    BY <1>5, <2>2 DEF Check, TypeOK, PermitsExact, Server
  <2> QED BY <1>5, <2>1, <2>2 DEF Check
<1>6. ASSUME Record PROVE PermitInv'
  <2> DEFINE k == Head(server.todo)
  <2>1. k \in Keys
    BY <1>6 DEF Record, TypeOK, Server
  <2>2. CASE NextKey /\ UNCHANGED coalesce
    BY <1>6, <2>2, NextKeyTypes DEF Record, TypeOK, PermitsExact
  <2>3. CASE /\ coalesce' = [coalesce EXCEPT ![k] = Window]
             /\ server' = [server EXCEPT !.pc = "load", !.since = 0]
    <3>1. coalesce' \in [Keys -> 0 .. Window]
      BY <2>1, <2>3, TimesAssumption DEF TypeOK
    <3>2. server' = [pc |-> "load", todo |-> server.todo, cur |-> server.cur, since |-> 0]
      BY <1>6, <2>3 DEF Record, TypeOK, Server
    <3>3. server' \in Server /\ server'.todo # <<>> /\ config \in ActiveConfigs
      BY <1>6, <3>2, TimesAssumption DEF Record, TypeOK, Server
    <3> QED BY <1>6, <3>1, <3>3 DEF Record, TypeOK, PermitsExact
  <2> QED BY <1>6, <2>2, <2>3 DEF Record
<1>7. ASSUME PermitLoad PROVE PermitInv'
  BY <1>7 DEF PermitLoad, TypeOK, PermitsExact, Server
<1>8. ASSUME PermitFull PROVE PermitInv'
  BY <1>8, NextKeyTypes DEF PermitFull, TypeOK, PermitsExact
<1>9. ASSUME PermitRetry PROVE PermitInv'
  BY <1>9 DEF PermitRetry, TypeOK, PermitsExact, Server
<1>10. ASSUME NEW t \in Fetchers, Spawn(t) PROVE PermitInv'
  <2>1. NewFetch \in Fetch
    BY <1>10 DEF Spawn, NewFetch, Fetch, TypeOK, Server
  <2>2. IsPartialFn(fetch', Fetchers, Fetch) /\ DOMAIN fetch' = DOMAIN fetch \cup {t}
    BY <1>10, <2>1 DEF Spawn, TypeOK, IsPartialFn
  <2>3. Cardinality(DOMAIN fetch') = Cardinality(DOMAIN fetch) + 1
    BY <1>10, <2>2, FiniteDomains, FS_AddElement DEF Spawn
  <2>4. permits' = permits + 1 /\ permits' <= MaxFetches
    BY <1>10, FetchersAssumption DEF Spawn, TypeOK, Server
  <2> QED BY <1>10, <2>2, <2>3, <2>4, NextKeyTypes DEF Spawn, TypeOK, PermitsExact
<1>11. ASSUME NEW t \in Fetchers, FetchOk(t) PROVE PermitInv'
  <2>1. IsPartialFn(fetch', Fetchers, Fetch) /\ DOMAIN fetch' = DOMAIN fetch
    BY <1>11 DEF FetchOk, TypeOK, IsPartialFn, Fetch
  <2>2. fetch[t] \in Fetch
    BY <1>11 DEF FetchOk, TypeOK, IsPartialFn
  <2>3. IsPartialFn(entries', Keys, Entry)
    BY <1>11, <2>2, TimesAssumption DEF FetchOk, Insert, TypeOK, IsPartialFn, Entry, Fetch
  <2>4. cooldown' \in [Keys -> 0 .. NegativeTTL]
    BY <1>11, <2>2, TimesAssumption DEF FetchOk, Insert, TypeOK, Fetch
  <2> QED BY <1>11, <2>1, <2>3, <2>4 DEF FetchOk, TypeOK, PermitsExact
<1>12. ASSUME NEW t \in Fetchers, FetchErr(t) PROVE PermitInv'
  <2>1. IsPartialFn(fetch', Fetchers, Fetch) /\ DOMAIN fetch' = DOMAIN fetch
    BY <1>12 DEF FetchErr, TypeOK, IsPartialFn, Fetch
  <2>2. cooldown' \in [Keys -> 0 .. NegativeTTL]
    BY <1>12, TimesAssumption DEF FetchErr, InsertNegative, TypeOK, IsPartialFn, Fetch
  <2> QED BY <1>12, <2>1, <2>2 DEF FetchErr, InsertNegative, TypeOK, PermitsExact
<1>13. ASSUME NEW t \in Fetchers, ReleasePermit(t) PROVE PermitInv'
  <2>1. IsPartialFn(fetch', Fetchers, Fetch) /\ DOMAIN fetch' = DOMAIN fetch \ {t}
    BY <1>13 DEF ReleasePermit, TypeOK, IsPartialFn
  <2>2. t \in DOMAIN fetch
    BY <1>13 DEF ReleasePermit
  <2>3. /\ Cardinality(DOMAIN fetch') = Cardinality(DOMAIN fetch) - 1
        /\ Cardinality(DOMAIN fetch') \in Nat
    BY <2>1, <2>2, FiniteDomains, FS_RemoveElement, FS_CardinalityType, FS_Subset
  <2> QED BY <1>13, <2>1, <2>3, FetchersAssumption DEF ReleasePermit, TypeOK, PermitsExact
<1>14. ASSUME Tick PROVE PermitInv'
  <2>1. TTL \in Nat /\ NegativeTTL \in Nat /\ Window \in Nat
    BY TimesAssumption
  <2>2. IsPartialFn(entries', Keys, Entry)
    <3>1. ASSUME NEW k \in DOMAIN entries
          PROVE  [entries[k] EXCEPT !.age = Up(@, TTL), !.since = Up(@, Window)] \in Entry
      BY <2>1, ClockTypes DEF TypeOK, IsPartialFn, Entry
    <3> QED BY <1>14, <3>1 DEF Tick, TypeOK, IsPartialFn
  <2>3. cooldown' \in [Keys -> 0 .. NegativeTTL] /\ coalesce' \in [Keys -> 0 .. Window]
    BY <1>14, <2>1, ClockTypes DEF Tick, TypeOK
  <2>4. IsPartialFn(fetch', Fetchers, Fetch) /\ DOMAIN fetch' = DOMAIN fetch
    <3>1. ASSUME NEW t \in DOMAIN fetch
          PROVE  [fetch[t] EXCEPT !.since = Up(@, Window)] \in Fetch
      BY <2>1, ClockTypes DEF TypeOK, IsPartialFn, Fetch
    <3> QED BY <1>14, <3>1 DEF Tick, TypeOK, IsPartialFn
  <2>5. server' \in Server /\ server'.pc = server.pc /\ server'.todo = server.todo
    BY <1>14, <2>1, ClockTypes DEF Tick, TypeOK, Server
  <2> QED BY <1>14, <2>2, <2>3, <2>4, <2>5 DEF Tick, TypeOK, PermitsExact
<1>15. ASSUME UNCHANGED vars PROVE PermitInv'
  BY <1>15 DEF vars, TypeOK, PermitsExact
<1> QED BY <1>1, <1>2, <1>3, <1>4, <1>5, <1>6, <1>7, <1>8, <1>9, <1>10,
           <1>11, <1>12, <1>13, <1>14, <1>15 DEF Next, ServerStep, FetchStep

LEMMA PermitInvariant == SafeSpec => []PermitInv
BY PermitInit, PermitStep, PTL DEF SafeSpec

\* Every variable keeps its type, and a handler that looks keys up runs under
\* an active configuration.
THEOREM TypeCorrect == SafeSpec => []TypeOK
BY PermitInvariant, PTL DEF PermitInv

\* ACTIVE_FETCHES counts the running fetch threads exactly and never exceeds
\* MAX_CONCURRENT_FETCHES, for any number of threads and any cap.
THEOREM SemaphoreExact == SafeSpec => []PermitsExact
BY PermitInvariant, PTL DEF PermitInv

-----------------------------------------------------------------------------
(***************************************************************************)
(* The semaphore implements its abstract specification.                    *)
(***************************************************************************)

\* Clearing the cache leaves the set of running fetches alone.
LEMMA ClearKeepsFetches ==
  ASSUME NEW S, Clear(S)
  PROVE  DOMAIN fetch' = DOMAIN fetch
BY DEF Clear

LEMMA PermitsStep ==
  PermitInv /\ [Next]_vars => [Permits!Next]_(DOMAIN fetch)
<1> SUFFICES ASSUME PermitInv, [Next]_vars
             PROVE  Permits!Next \/ DOMAIN fetch' = DOMAIN fetch
  OBVIOUS
<1>1. ASSUME NEW k \in Keys, Completion(k) PROVE DOMAIN fetch' = DOMAIN fetch
  BY <1>1 DEF Completion
<1>2. ASSUME NEW S \in SUBSET Keys, Refresh(S) PROVE DOMAIN fetch' = DOMAIN fetch
  BY <1>2, ClearKeepsFetches DEF Refresh
<1>3. ASSUME DidClose PROVE DOMAIN fetch' = DOMAIN fetch
  BY <1>3, ClearKeepsFetches DEF DidClose
<1>4. ASSUME NEW c \in Configs, ChangeConfig(c) PROVE DOMAIN fetch' = DOMAIN fetch
  BY <1>4, ClearKeepsFetches DEF ChangeConfig
<1>5. ASSUME Check \/ Record \/ PermitLoad \/ PermitFull \/ PermitRetry
      PROVE  DOMAIN fetch' = DOMAIN fetch
  BY <1>5 DEF Check, Record, PermitLoad, PermitFull, PermitRetry
<1>6. ASSUME NEW t \in Fetchers, Spawn(t) PROVE Permits!Next
  <2>1. Cardinality(DOMAIN fetch) < MaxFetches
    BY <1>6 DEF Spawn, PermitInv, PermitsExact
  <2>2. DOMAIN fetch' = DOMAIN fetch \cup {t} /\ t \notin DOMAIN fetch
    BY <1>6 DEF Spawn
  <2>3. Permits!Cardinality(DOMAIN fetch) = Cardinality(DOMAIN fetch)
    BY DEF Cardinality, Permits!Cardinality
  <2> QED BY <2>1, <2>2, <2>3 DEF Permits!Next, Permits!Acquire
<1>7. ASSUME NEW t \in Fetchers, FetchOk(t) \/ FetchErr(t)
      PROVE  DOMAIN fetch' = DOMAIN fetch
  BY <1>7 DEF FetchOk, FetchErr
<1>8. ASSUME NEW t \in Fetchers, ReleasePermit(t) PROVE Permits!Next
  BY <1>8 DEF ReleasePermit, Permits!Next, Permits!Release
<1>9. ASSUME Tick PROVE DOMAIN fetch' = DOMAIN fetch
  BY <1>9 DEF Tick
<1>10. ASSUME UNCHANGED vars PROVE DOMAIN fetch' = DOMAIN fetch
  BY <1>10 DEF vars
<1> QED BY <1>1, <1>2, <1>3, <1>4, <1>5, <1>6, <1>7, <1>8, <1>9, <1>10
        DEF Next, ServerStep, FetchStep

\* The load and compare-and-swap of try_acquire_fetch_permit, interleaved with
\* the permits that fetch threads return, behave like the atomic semaphore.
THEOREM SemaphoreRefinement == SafeSpec => Permits!SafeSpec
<1>1. Init => Permits!Init
  BY DEF Init, Permits!Init
<1> QED BY <1>1, PermitInvariant, PermitsStep, PTL DEF SafeSpec, Permits!SafeSpec

-----------------------------------------------------------------------------
(***************************************************************************)
(* The entry cap.                                                          *)
(***************************************************************************)

\* Storing a result evicts one other entry when a new key meets a full cache,
\* and nothing otherwise.
LEMMA InsertDomain ==
  ASSUME TypeOK, CacheBounded, NEW k, NEW e, Insert(k, e)
  PROVE  \/ DOMAIN entries' = DOMAIN entries
         \/ /\ k \notin DOMAIN entries
            /\ Cardinality(DOMAIN entries) < MaxEntries
            /\ DOMAIN entries' = DOMAIN entries \cup {k}
         \/ /\ k \notin DOMAIN entries
            /\ Cardinality(DOMAIN entries) = MaxEntries
            /\ \E v \in Oldest : DOMAIN entries' = (DOMAIN entries \ {v}) \cup {k}
<1>1. Cardinality(DOMAIN entries) \in Nat
  BY FiniteDomains, FS_CardinalityType
<1>2. PICK gone \in Evictions(k) : DOMAIN entries' = (DOMAIN entries \ gone) \cup {k}
  BY DEF Insert
<1>3. CASE k \notin DOMAIN entries /\ Cardinality(DOMAIN entries) >= MaxEntries
  <2>1. \E v \in Oldest : gone = {v}
    BY <1>2, <1>3 DEF Evictions
  <2> QED BY <1>1, <1>2, <1>3, <2>1, MaxEntriesAssumption DEF CacheBounded
<1>4. CASE ~(k \notin DOMAIN entries /\ Cardinality(DOMAIN entries) >= MaxEntries)
  <2>1. gone = {}
    BY <1>2, <1>4 DEF Evictions
  <2> QED BY <1>1, <1>2, <1>4, <2>1, MaxEntriesAssumption
<1> QED BY <1>3, <1>4

LEMMA InsertBounded ==
  ASSUME TypeOK, CacheBounded, NEW k, NEW e, Insert(k, e)
  PROVE  CacheBounded'
<1> DEFINE D == DOMAIN entries
<1>1. IsFiniteSet(D) /\ Cardinality(D) \in Nat
  BY FiniteDomains, FS_CardinalityType
<1>2. CASE DOMAIN entries' = D
  BY <1>2 DEF CacheBounded
<1>3. CASE k \notin D /\ Cardinality(D) < MaxEntries /\ DOMAIN entries' = D \cup {k}
  BY <1>1, <1>3, FS_AddElement, MaxEntriesAssumption DEF CacheBounded
<1>4. ASSUME NEW v \in Oldest, k \notin D, Cardinality(D) = MaxEntries,
             DOMAIN entries' = (D \ {v}) \cup {k}
      PROVE  CacheBounded'
  <2>1. IsFiniteSet(D \ {v}) /\ Cardinality(D \ {v}) = Cardinality(D) - 1
    BY <1>1, FS_RemoveElement DEF Oldest
  <2>2. Cardinality((D \ {v}) \cup {k}) = Cardinality(D)
    <3>1. k \notin D \ {v}
      BY <1>4
    <3>2. Cardinality((D \ {v}) \cup {k}) = Cardinality(D \ {v}) + 1
      BY <2>1, <3>1, FS_AddElement
    <3> QED BY <1>1, <2>1, <3>2
  <2> QED BY <1>4, <2>2, MaxEntriesAssumption DEF CacheBounded
<1> QED BY <1>2, <1>3, <1>4, InsertDomain

\* A step stores a result, drops entries or leaves the set of cached keys.
LEMMA CachedKeysStep ==
  ASSUME TypeOK, [Next]_vars
  PROVE  \/ \E t \in Fetchers : FetchOk(t)
         \/ /\ DOMAIN entries' \subseteq DOMAIN entries
            /\ DOMAIN fetch' = DOMAIN fetch
            /\ \A t \in DOMAIN fetch : fetch'[t].phase = fetch[t].phase
         \/ DOMAIN entries' = DOMAIN entries
<1>1. ASSUME NEW S \in SUBSET Keys, Clear(S)
      PROVE  /\ DOMAIN entries' \subseteq DOMAIN entries
             /\ DOMAIN fetch' = DOMAIN fetch
             /\ \A t \in DOMAIN fetch : fetch'[t].phase = fetch[t].phase
  BY <1>1 DEF Clear, TypeOK, IsPartialFn, Fetch
<1>2. ASSUME NEW k \in Keys, Completion(k) PROVE DOMAIN entries' = DOMAIN entries
  BY <1>2 DEF Completion
<1>3. ASSUME ServerStep PROVE DOMAIN entries' = DOMAIN entries
  BY <1>3 DEF ServerStep, Check, Record, PermitLoad, PermitFull, PermitRetry, Spawn
<1>4. ASSUME NEW t \in Fetchers, FetchErr(t) \/ ReleasePermit(t)
      PROVE  DOMAIN entries' = DOMAIN entries
  BY <1>4 DEF FetchErr, InsertNegative, ReleasePermit
<1>5. ASSUME Tick PROVE DOMAIN entries' = DOMAIN entries
  BY <1>5 DEF Tick
<1>6. ASSUME UNCHANGED vars PROVE DOMAIN entries' = DOMAIN entries
  BY <1>6 DEF vars
<1> QED BY <1>1, <1>2, <1>3, <1>4, <1>5, <1>6
        DEF Next, Refresh, DidClose, ChangeConfig, FetchStep

LEMMA CacheBoundedStep ==
  TypeOK /\ CacheBounded /\ [Next]_vars => CacheBounded'
<1> SUFFICES ASSUME TypeOK, CacheBounded, [Next]_vars PROVE CacheBounded'
  OBVIOUS
<1>1. ASSUME NEW t \in Fetchers, FetchOk(t) PROVE CacheBounded'
  BY <1>1, InsertBounded DEF FetchOk
<1>2. ASSUME DOMAIN entries' \subseteq DOMAIN entries PROVE CacheBounded'
  <2>1. /\ Cardinality(DOMAIN entries') <= Cardinality(DOMAIN entries)
        /\ Cardinality(DOMAIN entries') \in Nat /\ Cardinality(DOMAIN entries) \in Nat
    BY <1>2, FiniteDomains, FS_Subset, FS_CardinalityType
  <2> QED BY <2>1, MaxEntriesAssumption DEF CacheBounded
<1> QED BY <1>1, <1>2, CachedKeysStep

\* The cache never holds more than MAX_CACHE_ENTRIES collections.
THEOREM CapHolds == SafeSpec => []CacheBounded
<1>1. Init => CacheBounded
  BY FS_EmptySet, MaxEntriesAssumption DEF Init, CacheBounded
<1> QED BY <1>1, CacheBoundedStep, TypeCorrect, PTL DEF SafeSpec

\* Storing a result costs at most one other entry, only in a full cache, and a
\* fresh entry goes only if all are fresh.
THEOREM StaleGoesFirst == SafeSpec => EvictsStaleFirst
<1> DEFINE Stored == \E t \in DOMAIN fetch :
                        fetch[t].phase = "fetching" /\ fetch'[t].phase = "stored"
           Cost == \A k \in DOMAIN entries \ DOMAIN entries' :
                     Stored => /\ Cardinality(DOMAIN entries) = MaxEntries
                               /\ Cardinality(DOMAIN entries') = MaxEntries
                               /\ Fresh(k) => \A j \in DOMAIN entries : Fresh(j)
<1>1. ASSUME TypeOK, CacheBounded, [Next]_vars PROVE Cost
  <2>1. ASSUME NEW t \in Fetchers, FetchOk(t) PROVE Cost
    <3> SUFFICES ASSUME NEW k \in DOMAIN entries \ DOMAIN entries'
                 PROVE  /\ Cardinality(DOMAIN entries) = MaxEntries
                        /\ Cardinality(DOMAIN entries') = MaxEntries
                        /\ Fresh(k) => \A j \in DOMAIN entries : Fresh(j)
      OBVIOUS
    <3> DEFINE n == fetch[t].key
               D == DOMAIN entries
    <3>1. /\ n \notin D
          /\ Cardinality(D) = MaxEntries
          /\ \E v \in Oldest : DOMAIN entries' = (D \ {v}) \cup {n}
      BY <1>1, <2>1, InsertDomain DEF FetchOk
    <3>2. k \in Oldest /\ DOMAIN entries' = (D \ {k}) \cup {n}
      BY <3>1
    <3>3. IsFiniteSet(D \ {k}) /\ Cardinality(D \ {k}) = Cardinality(D) - 1
      BY <1>1, FiniteDomains, FS_RemoveElement
    <3>4. Cardinality(DOMAIN entries') = Cardinality(D)
      BY <3>1, <3>2, <3>3, FS_AddElement, MaxEntriesAssumption
    <3>5. ASSUME Fresh(k), NEW j \in D PROVE Fresh(j)
      <4>1. entries[j].age \in Nat /\ entries[k].age \in Nat /\ entries[j].age <= entries[k].age
        BY <1>1, <3>2 DEF TypeOK, IsPartialFn, Entry, Oldest
      <4> QED BY <3>5, <4>1, TimesAssumption DEF Fresh
    <3> QED BY <3>1, <3>4, <3>5
  <2>2. ASSUME \A t \in DOMAIN fetch : fetch'[t].phase = fetch[t].phase PROVE Cost
    BY <2>2
  <2>3. ASSUME DOMAIN entries' = DOMAIN entries PROVE Cost
    BY <2>3
  <2> QED BY <1>1, <2>1, <2>2, <2>3, CachedKeysStep
<1> QED BY <1>1, TypeCorrect, CapHolds, PTL DEF SafeSpec, EvictsStaleFirst

-----------------------------------------------------------------------------
(***************************************************************************)
(* Values of earlier connections.                                          *)
(***************************************************************************)

\* If one finite set shrinks and the other does not grow, so does the sum.
LEMMA ForeignShrinks ==
  ASSUME PermitInv, ForeignBounded,
         ForeignEntries' \subseteq ForeignEntries,
         ForeignFetches' \subseteq ForeignFetches
  PROVE  ForeignBounded'
<1>1. IsFiniteSet(ForeignEntries) /\ IsFiniteSet(ForeignFetches)
  BY FiniteDomains, FS_Subset DEF ForeignEntries, ForeignFetches, PermitInv
<1>2. /\ Cardinality(ForeignEntries) \in Nat /\ Cardinality(ForeignFetches) \in Nat
      /\ Cardinality(ForeignEntries') <= Cardinality(ForeignEntries)
      /\ Cardinality(ForeignFetches') <= Cardinality(ForeignFetches)
      /\ Cardinality(ForeignEntries') \in Nat /\ Cardinality(ForeignFetches') \in Nat
  BY <1>1, FS_Subset, FS_CardinalityType
<1> QED BY <1>2, FetchersAssumption DEF ForeignBounded

\* A clear under an unchanged configuration makes nothing foreign.
LEMMA ClearForeign ==
  ASSUME TypeOK, NEW S, Clear(S), UNCHANGED config
  PROVE  ForeignEntries' \subseteq ForeignEntries /\ ForeignFetches' \subseteq ForeignFetches
<1>1. ForeignEntries' \subseteq ForeignEntries
  BY DEF Clear, ForeignEntries
<1>2. \A t \in DOMAIN fetch : fetch'[t].phase = fetch[t].phase /\ fetch'[t].conn = fetch[t].conn
  BY DEF Clear, TypeOK, IsPartialFn, Fetch
<1> QED BY <1>1, <1>2, ClearKeepsFetches DEF ForeignFetches

LEMMA ForeignStep ==
  PermitInv /\ ForeignBounded /\ [Next]_vars => ForeignBounded'
<1> SUFFICES ASSUME PermitInv, ForeignBounded, [Next]_vars PROVE ForeignBounded'
  OBVIOUS
<1>0. TypeOK
  BY DEF PermitInv
<1>1. ASSUME NEW k \in Keys, Completion(k) PROVE ForeignBounded'
  BY <1>1 DEF Completion, ForeignBounded, ForeignEntries, ForeignFetches
<1>2. ASSUME NEW S \in SUBSET Keys, Refresh(S) PROVE ForeignBounded'
  BY <1>0, <1>2, ClearForeign, ForeignShrinks DEF Refresh
<1>3. ASSUME DidClose PROVE ForeignBounded'
  BY <1>0, <1>3, ClearForeign, ForeignShrinks DEF DidClose
<1>4. ASSUME NEW c \in Configs, ChangeConfig(c) PROVE ForeignBounded'
  <2>1. ForeignEntries' = {}
    BY <1>0, <1>4 DEF ChangeConfig, Clear, ForeignEntries, TypeOK, IsPartialFn
  <2>2. ForeignFetches' \subseteq DOMAIN fetch
    BY <1>4, ClearKeepsFetches DEF ChangeConfig, ForeignFetches
  <2>3. /\ Cardinality(ForeignFetches') <= Cardinality(DOMAIN fetch)
        /\ Cardinality(ForeignFetches') \in Nat /\ Cardinality(DOMAIN fetch) \in Nat
    BY <1>0, <2>2, FiniteDomains, FS_Subset, FS_CardinalityType
  <2>4. Cardinality(ForeignEntries') = 0
    BY <2>1, FS_EmptySet
  <2> QED BY <2>3, <2>4, FetchersAssumption DEF ForeignBounded, PermitInv, PermitsExact
<1>5. ASSUME Check \/ Record \/ PermitLoad \/ PermitFull \/ PermitRetry
      PROVE  ForeignBounded'
  BY <1>5 DEF Check, Record, PermitLoad, PermitFull, PermitRetry,
              ForeignBounded, ForeignEntries, ForeignFetches
<1>6. ASSUME NEW t \in Fetchers, Spawn(t) PROVE ForeignBounded'
  <2>1. ForeignEntries' = ForeignEntries
    BY <1>6 DEF Spawn, ForeignEntries
  <2>2. ForeignFetches' \subseteq ForeignFetches
    BY <1>6 DEF Spawn, NewFetch, ForeignFetches
  <2> QED BY <2>1, <2>2, ForeignShrinks
<1>7. ASSUME NEW t \in Fetchers, FetchOk(t) PROVE ForeignBounded'
  <2> DEFINE k == fetch[t].key
  <2>1. ForeignFetches' = ForeignFetches \ {t}
    BY <1>0, <1>7 DEF FetchOk, ForeignFetches, TypeOK, IsPartialFn, Fetch
  <2>2. CASE fetch[t].conn = config
    <3>1. ForeignEntries' \subseteq ForeignEntries
      BY <1>7, <2>2 DEF FetchOk, Insert, ForeignEntries
    <3> QED BY <2>1, <3>1, ForeignShrinks
  <2>3. CASE fetch[t].conn # config
    <3>1. t \in ForeignFetches
      BY <1>7, <2>3 DEF FetchOk, ForeignFetches
    <3>2. ForeignEntries' \subseteq ForeignEntries \cup {k}
      BY <1>7 DEF FetchOk, Insert, ForeignEntries
    <3>3. IsFiniteSet(ForeignEntries) /\ IsFiniteSet(ForeignFetches)
      BY <1>0, FiniteDomains, FS_Subset DEF ForeignEntries, ForeignFetches
    <3>7. Cardinality(ForeignEntries) \in Nat /\ Cardinality(ForeignFetches) \in Nat
      BY <3>3, FS_CardinalityType
    <3>4. /\ IsFiniteSet(ForeignEntries \cup {k})
          /\ Cardinality(ForeignEntries \cup {k}) <= Cardinality(ForeignEntries) + 1
      <4>1. /\ IsFiniteSet(ForeignEntries \cup {k})
            /\ Cardinality(ForeignEntries \cup {k}) =
                 IF k \in ForeignEntries THEN Cardinality(ForeignEntries)
                                         ELSE Cardinality(ForeignEntries) + 1
        BY <3>3, FS_AddElement
      <4> QED BY <3>7, <4>1
    <3>5. /\ Cardinality(ForeignEntries') <= Cardinality(ForeignEntries \cup {k})
          /\ Cardinality(ForeignEntries') \in Nat
          /\ Cardinality(ForeignEntries \cup {k}) \in Nat
      BY <3>2, <3>4, FS_Subset, FS_CardinalityType
    <3>6. Cardinality(ForeignFetches') = Cardinality(ForeignFetches) - 1
      BY <2>1, <3>1, <3>3, FS_RemoveElement
    <3> QED BY <3>4, <3>5, <3>6, <3>7, FetchersAssumption DEF ForeignBounded
  <2> QED BY <2>2, <2>3
<1>8. ASSUME NEW t \in Fetchers, FetchErr(t) PROVE ForeignBounded'
  <2>1. ForeignFetches' \subseteq ForeignFetches
    BY <1>0, <1>8 DEF FetchErr, ForeignFetches, TypeOK, IsPartialFn, Fetch
  <2>2. ForeignEntries' = ForeignEntries
    BY <1>8 DEF FetchErr, InsertNegative, ForeignEntries
  <2> QED BY <2>1, <2>2, ForeignShrinks
<1>9. ASSUME NEW t \in Fetchers, ReleasePermit(t) PROVE ForeignBounded'
  <2>1. ForeignFetches' \subseteq ForeignFetches /\ ForeignEntries' = ForeignEntries
    BY <1>9 DEF ReleasePermit, ForeignFetches, ForeignEntries
  <2> QED BY <2>1, ForeignShrinks
<1>10. ASSUME Tick PROVE ForeignBounded'
  <2>1. \A k \in DOMAIN entries : entries'[k].conn = entries[k].conn
    BY <1>0, <1>10 DEF Tick, TypeOK, IsPartialFn, Entry
  <2>2. \A t \in DOMAIN fetch : fetch'[t].conn = fetch[t].conn /\ fetch'[t].phase = fetch[t].phase
    BY <1>0, <1>10 DEF Tick, TypeOK, IsPartialFn, Fetch
  <2>3. ForeignFetches' \subseteq ForeignFetches /\ ForeignEntries' \subseteq ForeignEntries
    BY <1>10, <2>1, <2>2 DEF Tick, ForeignFetches, ForeignEntries
  <2> QED BY <2>3, ForeignShrinks
<1>11. ASSUME UNCHANGED vars PROVE ForeignBounded'
  BY <1>11 DEF vars, ForeignBounded, ForeignEntries, ForeignFetches
<1> QED BY <1>1, <1>2, <1>3, <1>4, <1>5, <1>6, <1>7, <1>8, <1>9, <1>10, <1>11
        DEF Next, ServerStep, FetchStep

\* However often the connection is changed, cached values and running fetches
\* of earlier connections together number at most MAX_CONCURRENT_FETCHES.
THEOREM ForeignLimited == SafeSpec => []ForeignBounded
<1>1. Init => ForeignBounded
  <2> SUFFICES ASSUME Init PROVE ForeignBounded
    OBVIOUS
  <2>1. ForeignEntries = {} /\ ForeignFetches = {}
    BY DEF Init, ForeignEntries, ForeignFetches
  <2> QED BY <2>1, FS_EmptySet, FetchersAssumption DEF ForeignBounded
<1> QED BY <1>1, ForeignStep, PermitInvariant, PTL DEF SafeSpec

-----------------------------------------------------------------------------
(***************************************************************************)
(* Coalescing.                                                             *)
(***************************************************************************)

\* Without an attempt on its way to a permit, FlightInv speaks of the fetches
\* and the entries only.  A clear or a step of the server thread that leaves
\* no attempt pending therefore keeps it.
LEMMA FlightUnpending ==
  ASSUME TypeOK, FlightInv,
         UNCHANGED <<entries, coalesce, fetch>>, server'.pc \notin {"load", "cas"}
  PROVE  FlightInv'
BY DEF FlightInv, Pending, Live, Recent, SingleFlight, NoOvertaking

LEMMA FlightClear ==
  ASSUME TypeOK, FlightInv, NEW S \in SUBSET Keys, Clear(S),
         server'.pc \notin {"load", "cas"}
  PROVE  FlightInv'
<1>1. ASSUME NEW t \in DOMAIN fetch
      PROVE  /\ fetch'[t].key = fetch[t].key /\ fetch'[t].since = fetch[t].since
             /\ fetch'[t].phase = fetch[t].phase
             /\ ~fetch'[t].cleared => ~fetch[t].cleared /\ fetch[t].key \notin S
             /\ fetch[t].key \in Keys
  BY DEF Clear, TypeOK, IsPartialFn, Fetch
<1>2. DOMAIN fetch' = DOMAIN fetch
  BY ClearKeepsFetches
<1>3. \A k \in Keys \ S : coalesce'[k] = coalesce[k]
  BY DEF Clear
<1>4. \A k \in DOMAIN entries' : k \in DOMAIN entries /\ entries'[k] = entries[k]
  BY DEF Clear
<1>5. \A t \in DOMAIN fetch' :
        Live(t)' => coalesce'[fetch'[t].key] + fetch'[t].since >= Window
  BY <1>1, <1>2, <1>3 DEF FlightInv, Live, Recent
<1>6. \A t, u \in DOMAIN fetch' :
        fetch'[t].key = fetch'[u].key /\ Live(t)' => fetch'[u].since >= fetch'[t].since
  BY <1>1, <1>2 DEF FlightInv, Live, Recent
<1>7. SingleFlight'
  BY <1>1, <1>2 DEF FlightInv, SingleFlight, Recent
<1>8. NoOvertaking'
  BY <1>1, <1>2, <1>4 DEF FlightInv, NoOvertaking, Recent
<1> QED BY <1>5, <1>6, <1>7, <1>8 DEF FlightInv, Pending

\* The saturating age keeps the order of ages and grows while it is in range.
LEMMA UpMonotone ==
  ASSUME NEW b \in Nat, NEW m \in 0 .. b, NEW n \in 0 .. b
  PROVE  /\ m >= n => Up(m, b) >= Up(n, b)
         /\ Up(n, b) < b => n < b /\ Up(n, b) = n + 1
BY DEF Up

LEMMA FlightTick ==
  ASSUME TypeOK, FlightInv, Tick
  PROVE  FlightInv'
<1>0. Window \in Nat
  BY TimesAssumption
<1>1. ASSUME NEW t \in DOMAIN fetch
      PROVE  /\ fetch'[t].key = fetch[t].key /\ fetch'[t].since = Up(fetch[t].since, Window)
             /\ fetch'[t].phase = fetch[t].phase /\ fetch'[t].cleared = fetch[t].cleared
             /\ fetch[t].key \in Keys /\ fetch[t].since \in 0 .. Window
  BY DEF Tick, TypeOK, IsPartialFn, Fetch
<1>2. DOMAIN fetch' = DOMAIN fetch /\ DOMAIN entries' = DOMAIN entries
  BY DEF Tick
<1>3. ASSUME NEW k \in DOMAIN entries
      PROVE  /\ entries'[k].since = Up(entries[k].since, Window)
             /\ entries[k].since \in 0 .. Window /\ k \in Keys
  BY DEF Tick, TypeOK, IsPartialFn, Entry
<1>4. /\ server'.since = Up(server.since, Window) /\ server.since \in 0 .. Window
      /\ server'.pc = server.pc /\ server'.todo = server.todo
  BY DEF Tick, TypeOK, Server
<1>5. \A k \in Keys : coalesce'[k] = Down(coalesce[k]) /\ coalesce[k] \in 0 .. Window
  BY DEF Tick, TypeOK
<1>6. ASSUME NEW k \in Keys, NEW n \in 0 .. Window, Up(n, Window) < Window,
             coalesce[k] + n >= Window
      PROVE  coalesce'[k] + Up(n, Window) >= Window
  BY <1>0, <1>5, <1>6 DEF Down, Up
<1>7. \A t \in DOMAIN fetch : Live(t)' => Live(t)
  BY <1>0, <1>1, UpMonotone DEF Live, Recent
<1>8. \A t \in DOMAIN fetch' :
        Live(t)' => coalesce'[fetch'[t].key] + fetch'[t].since >= Window
  <2> SUFFICES ASSUME NEW t \in DOMAIN fetch, Live(t)'
               PROVE  coalesce'[fetch[t].key] + Up(fetch[t].since, Window) >= Window
    BY <1>1, <1>2
  <2>1. coalesce[fetch[t].key] + fetch[t].since >= Window
    BY <1>7 DEF FlightInv
  <2>2. Up(fetch[t].since, Window) < Window
    BY <1>1 DEF Live, Recent
  <2> QED BY <1>1, <1>6, <2>1, <2>2
<1>9. \A k \in Keys :
        Pending(k)' /\ server'.since < Window => coalesce'[k] + server'.since >= Window
  <2> SUFFICES ASSUME NEW k \in Keys, Pending(k)', server'.since < Window
               PROVE  coalesce'[k] + Up(server.since, Window) >= Window
    BY <1>4
  <2>1. Pending(k) /\ server.since < Window /\ Up(server.since, Window) < Window
    BY <1>0, <1>4, UpMonotone DEF Pending
  <2>2. coalesce[k] + server.since >= Window
    BY <2>1 DEF FlightInv
  <2> QED BY <1>4, <1>6, <2>1, <2>2
<1>10. \A k \in Keys, t \in DOMAIN fetch' :
         Pending(k)' /\ fetch'[t].key = k => ~Live(t)' /\ fetch'[t].since >= server'.since
  <2> SUFFICES ASSUME NEW k \in Keys, NEW t \in DOMAIN fetch, Pending(k)', fetch[t].key = k
               PROVE  ~Live(t)' /\ fetch'[t].since >= server'.since
    BY <1>1, <1>2
  <2>1. ~Live(t) /\ fetch[t].since >= server.since
    BY <1>4 DEF FlightInv, Pending
  <2> QED BY <1>0, <1>1, <1>4, <1>7, <2>1, UpMonotone
<1>11. \A k \in DOMAIN entries' : Pending(k)' => entries'[k].since >= server'.since
  BY <1>0, <1>2, <1>3, <1>4, UpMonotone DEF FlightInv, Pending
<1>12. \A t, u \in DOMAIN fetch' :
         fetch'[t].key = fetch'[u].key /\ Live(t)' => fetch'[u].since >= fetch'[t].since
  BY <1>0, <1>1, <1>2, <1>7, UpMonotone DEF FlightInv
<1>13. SingleFlight'
  BY <1>0, <1>1, <1>2, UpMonotone DEF FlightInv, SingleFlight, Recent
<1>14. NoOvertaking'
  BY <1>0, <1>1, <1>2, <1>3, UpMonotone DEF FlightInv, NoOvertaking, Recent
<1> QED BY <1>8, <1>9, <1>10, <1>11, <1>12, <1>13, <1>14 DEF FlightInv

LEMMA FlightRecord ==
  ASSUME TypeOK, FlightInv, Record
  PROVE  FlightInv'
<1> DEFINE k == Head(server.todo)
<1>1. k \in Keys
  BY HeadTailProperties DEF Record, TypeOK, Server
<1>2. CASE NextKey /\ UNCHANGED coalesce
  BY <1>2, FlightUnpending, NextKeyTypes DEF Record
<1>3. CASE /\ CanSpawn(k)
           /\ coalesce' = [coalesce EXCEPT ![k] = Window]
           /\ server' = [server EXCEPT !.pc = "load", !.since = 0]
  <2>1. UNCHANGED <<entries, fetch>>
    BY DEF Record
  <2>2. \A j \in Keys : coalesce'[j] >= coalesce[j] /\ coalesce[j] \in Nat /\ coalesce'[j] \in Nat
    BY <1>1, <1>3, TimesAssumption DEF TypeOK
  <2>3. coalesce[k] = 0 /\ coalesce'[k] = Window
    BY <1>1, <1>3 DEF CanSpawn, TypeOK
  <2>4. \A j : Pending(j)' => j = k /\ server'.since = 0
    BY <1>3 DEF Pending, TypeOK, Server
  <2>5. \A t \in DOMAIN fetch : fetch[t].key \in Keys /\ fetch[t].since \in 0 .. Window
    BY DEF TypeOK, IsPartialFn, Fetch
  <2>6. \A j \in DOMAIN entries : entries[j].since \in 0 .. Window
    BY DEF TypeOK, IsPartialFn, Entry
  <2>7. \A t \in DOMAIN fetch : fetch[t].key = k => ~Live(t)
    BY <2>3, <2>5, TimesAssumption DEF FlightInv, Live, Recent
  <2>8. \A t \in DOMAIN fetch : Live(t)' <=> Live(t)
    BY <2>1 DEF Live, Recent
  <2>9. \A t \in DOMAIN fetch' :
          Live(t)' => coalesce'[fetch'[t].key] + fetch'[t].since >= Window
    BY <2>1, <2>2, <2>5, <2>8, TimesAssumption DEF FlightInv
  <2>10. \A j \in Keys : Pending(j)' /\ server'.since < Window
                         => coalesce'[j] + server'.since >= Window
    BY <2>3, <2>4, TimesAssumption
  <2>11. \A j \in Keys, t \in DOMAIN fetch' :
           Pending(j)' /\ fetch'[t].key = j => ~Live(t)' /\ fetch'[t].since >= server'.since
    BY <2>1, <2>4, <2>5, <2>7, <2>8
  <2>12. \A j \in DOMAIN entries' : Pending(j)' => entries'[j].since >= server'.since
    BY <2>1, <2>4, <2>6
  <2>13. \A t, u \in DOMAIN fetch' :
           fetch'[t].key = fetch'[u].key /\ Live(t)' => fetch'[u].since >= fetch'[t].since
    BY <2>1, <2>8 DEF FlightInv
  <2>14. SingleFlight' /\ NoOvertaking'
    BY <2>1 DEF FlightInv, SingleFlight, NoOvertaking, Recent
  <2> QED BY <2>9, <2>10, <2>11, <2>12, <2>13, <2>14 DEF FlightInv
<1> QED BY <1>2, <1>3 DEF Record

LEMMA FlightSpawn ==
  ASSUME TypeOK, FlightInv, NEW n \in Fetchers, Spawn(n)
  PROVE  FlightInv'
<1> DEFINE k == Head(server.todo)
<1>1. k \in Keys /\ Pending(k)
  BY HeadTailProperties DEF Spawn, TypeOK, Server, Pending
<1>2. server'.pc \notin {"load", "cas"}
  BY NextKeyTypes DEF Spawn
<1>3. UNCHANGED <<entries, coalesce>>
  BY DEF Spawn
<1>4. /\ DOMAIN fetch' = DOMAIN fetch \cup {n} /\ n \notin DOMAIN fetch
      /\ \A t \in DOMAIN fetch : fetch'[t] = fetch[t]
  BY DEF Spawn
<1>5. /\ fetch'[n].key = k /\ fetch'[n].since = server.since
      /\ fetch'[n].phase = "fetching" /\ ~fetch'[n].cleared
      /\ server.since \in 0 .. Window
  BY DEF Spawn, NewFetch, TypeOK, Server
<1>6. \A t \in DOMAIN fetch : fetch[t].key = k => ~Live(t) /\ fetch[t].since >= server.since
  BY <1>1 DEF FlightInv
<1>7. \A t \in DOMAIN fetch : Live(t)' <=> Live(t)
  BY <1>4 DEF Live, Recent
<1>8. \A t \in DOMAIN fetch' :
        Live(t)' => coalesce'[fetch'[t].key] + fetch'[t].since >= Window
  BY <1>1, <1>3, <1>4, <1>5, <1>7 DEF FlightInv, Live, Recent
<1>9. \A t, u \in DOMAIN fetch' :
        fetch'[t].key = fetch'[u].key /\ Live(t)' => fetch'[u].since >= fetch'[t].since
  BY <1>4, <1>5, <1>6, <1>7 DEF FlightInv
<1>10. SingleFlight'
  BY <1>4, <1>5, <1>6 DEF FlightInv, SingleFlight, Live, Recent
<1>11. NoOvertaking'
  BY <1>1, <1>3, <1>4, <1>5 DEF FlightInv, NoOvertaking, Recent
<1> QED BY <1>2, <1>8, <1>9, <1>10, <1>11 DEF FlightInv, Pending

\* A fetch ends, well or badly, or its thread goes away: every other fetch
\* stays as it was.
LEMMA FlightEnd ==
  ASSUME TypeOK, FlightInv, UNCHANGED <<coalesce, server>>,
         DOMAIN fetch' \subseteq DOMAIN fetch,
         \A t \in DOMAIN fetch' :
           /\ fetch'[t].key = fetch[t].key /\ fetch'[t].since = fetch[t].since
           /\ fetch'[t].cleared = fetch[t].cleared
           /\ fetch'[t].phase = "fetching" => fetch[t].phase = "fetching",
         \A k \in DOMAIN entries' :
           \/ k \in DOMAIN entries /\ entries'[k] = entries[k]
           \/ \E t \in DOMAIN fetch : fetch[t].key = k /\ entries'[k].since = fetch[t].since
  PROVE  FlightInv'
<1>1. \A t \in DOMAIN fetch' : t \in DOMAIN fetch /\ (Live(t)' <=> Live(t))
  BY DEF Live, Recent
<1>2. \A k : Pending(k)' <=> Pending(k)
  BY DEF Pending
<1>3. \A t \in DOMAIN fetch : fetch[t].key \in Keys
  BY DEF TypeOK, IsPartialFn, Fetch
<1>4. \A t \in DOMAIN fetch' :
        Live(t)' => coalesce'[fetch'[t].key] + fetch'[t].since >= Window
  BY <1>1 DEF FlightInv
<1>5. \A k \in Keys :
        Pending(k)' /\ server'.since < Window => coalesce'[k] + server'.since >= Window
  BY <1>2 DEF FlightInv
<1>6. \A k \in Keys, t \in DOMAIN fetch' :
        Pending(k)' /\ fetch'[t].key = k => ~Live(t)' /\ fetch'[t].since >= server'.since
  BY <1>1, <1>2 DEF FlightInv
<1>7. \A k \in DOMAIN entries' : Pending(k)' => entries'[k].since >= server'.since
  BY <1>2, <1>3 DEF FlightInv
<1>8. \A t, u \in DOMAIN fetch' :
        fetch'[t].key = fetch'[u].key /\ Live(t)' => fetch'[u].since >= fetch'[t].since
  BY <1>1 DEF FlightInv
<1>9. SingleFlight'
  BY DEF FlightInv, SingleFlight, Recent
<1>10. NoOvertaking'
  <2> SUFFICES ASSUME NEW t \in DOMAIN fetch', fetch'[t].phase = "fetching", Recent(t)',
                      ~fetch'[t].cleared, fetch'[t].key \in DOMAIN entries'
               PROVE  entries'[fetch'[t].key].since >= fetch'[t].since
    BY DEF NoOvertaking
  <2> DEFINE k == fetch[t].key
  <2>1. Live(t) /\ t \in DOMAIN fetch /\ fetch[t].phase = "fetching"
    BY <1>1 DEF Live
  <2>2. CASE k \in DOMAIN entries /\ entries'[k] = entries[k]
    BY <2>1, <2>2 DEF FlightInv, NoOvertaking, Live
  <2>3. CASE \E u \in DOMAIN fetch : fetch[u].key = k /\ entries'[k].since = fetch[u].since
    BY <2>1, <2>3 DEF FlightInv
  <2> QED BY <2>2, <2>3
<1> QED BY <1>4, <1>5, <1>6, <1>7, <1>8, <1>9, <1>10 DEF FlightInv

LEMMA FlightFetchStep ==
  ASSUME TypeOK, FlightInv, NEW n \in Fetchers, FetchStep(n)
  PROVE  FlightInv'
<1>1. CASE FetchOk(n)
  <2>1. \A t \in DOMAIN fetch' :
          /\ fetch'[t].key = fetch[t].key /\ fetch'[t].since = fetch[t].since
          /\ fetch'[t].cleared = fetch[t].cleared
          /\ fetch'[t].phase = "fetching" => fetch[t].phase = "fetching"
    BY <1>1 DEF FetchOk, TypeOK, IsPartialFn, Fetch
  <2>2. \A k \in DOMAIN entries' :
          \/ k \in DOMAIN entries /\ entries'[k] = entries[k]
          \/ \E t \in DOMAIN fetch : fetch[t].key = k /\ entries'[k].since = fetch[t].since
    BY <1>1 DEF FetchOk, Insert
  <2> QED BY <1>1, <2>1, <2>2, FlightEnd DEF FetchOk
<1>2. CASE FetchErr(n)
  <2>1. \A t \in DOMAIN fetch' :
          /\ fetch'[t].key = fetch[t].key /\ fetch'[t].since = fetch[t].since
          /\ fetch'[t].cleared = fetch[t].cleared
          /\ fetch'[t].phase = "fetching" => fetch[t].phase = "fetching"
    BY <1>2 DEF FetchErr, TypeOK, IsPartialFn, Fetch
  <2> QED BY <1>2, <2>1, FlightEnd DEF FetchErr, InsertNegative
<1>3. CASE ReleasePermit(n)
  BY <1>3, FlightEnd DEF ReleasePermit
<1> QED BY <1>1, <1>2, <1>3 DEF FetchStep

LEMMA FlightStep == TypeOK /\ FlightInv /\ [Next]_vars => FlightInv'
<1> SUFFICES ASSUME TypeOK, FlightInv, [Next]_vars PROVE FlightInv'
  OBVIOUS
<1>1. ASSUME NEW k \in Keys, Completion(k) PROVE FlightInv'
  <2>1. server'.pc = "check"
    BY <1>1 DEF Completion, TypeOK, Server
  <2> QED BY <1>1, <2>1, FlightUnpending DEF Completion
<1>2. ASSUME NEW S \in SUBSET Keys, Refresh(S) PROVE FlightInv'
  <2>1. server'.pc \notin {"load", "cas"}
    BY <1>2 DEF Refresh, Idle, TypeOK, Server
  <2> QED BY <1>2, <2>1, FlightClear DEF Refresh
<1>3. ASSUME DidClose PROVE FlightInv'
  BY <1>3, FlightClear DEF DidClose, Idle
<1>4. ASSUME NEW c \in Configs, ChangeConfig(c) PROVE FlightInv'
  BY <1>4, FlightClear DEF ChangeConfig, Idle
<1>5. ASSUME Check PROVE FlightInv'
  <2>1. server'.pc \notin {"load", "cas"}
    <3>1. CASE NextKey
      BY <1>5, <3>1, NextKeyTypes DEF Check
    <3>2. CASE server' = [server EXCEPT !.pc = "record"]
      BY <3>2 DEF TypeOK, Server
    <3> QED BY <1>5, <3>1, <3>2 DEF Check
  <2> QED BY <1>5, <2>1, FlightUnpending DEF Check
<1>6. ASSUME Record PROVE FlightInv'
  BY <1>6, FlightRecord
<1>7. ASSUME PermitLoad \/ PermitRetry PROVE FlightInv'
  <2>1. /\ UNCHANGED <<entries, coalesce, fetch>>
        /\ server'.since = server.since /\ \A k : Pending(k)' => Pending(k)
    BY <1>7 DEF PermitLoad, PermitRetry, Pending, TypeOK, Server
  <2>2. \A t \in DOMAIN fetch : Live(t)' <=> Live(t)
    BY <2>1 DEF Live, Recent
  <2> QED BY <2>1, <2>2 DEF FlightInv, SingleFlight, NoOvertaking, Recent
<1>8. ASSUME PermitFull PROVE FlightInv'
  BY <1>8, FlightUnpending, NextKeyTypes DEF PermitFull
<1>9. ASSUME NEW t \in Fetchers, Spawn(t) PROVE FlightInv'
  BY <1>9, FlightSpawn
<1>10. ASSUME NEW t \in Fetchers, FetchStep(t) PROVE FlightInv'
  BY <1>10, FlightFetchStep
<1>11. ASSUME Tick PROVE FlightInv'
  BY <1>11, FlightTick
<1>12. ASSUME UNCHANGED vars PROVE FlightInv'
  BY <1>12 DEF vars, FlightInv, Pending, Live, Recent, SingleFlight, NoOvertaking
<1> QED BY <1>1, <1>2, <1>3, <1>4, <1>5, <1>6, <1>7, <1>8, <1>9, <1>10, <1>11, <1>12
        DEF Next, ServerStep

LEMMA FlightInvariant == SafeSpec => []FlightInv
<1>1. Init => FlightInv
  BY DEF Init, FlightInv, Pending, SingleFlight, NoOvertaking
<1> QED BY <1>1, FlightStep, TypeCorrect, PTL DEF SafeSpec

\* Of the attempts that no clear has forgotten, a key has one per coalescing
\* window.
THEOREM Coalesced == SafeSpec => []SingleFlight
BY FlightInvariant, PTL DEF FlightInv

\* A fetch that answers within its window never replaces the result of a fetch
\* that was started after it.
THEOREM InOrder == SafeSpec => []NoOvertaking
BY FlightInvariant, PTL DEF FlightInv
=============================================================================
