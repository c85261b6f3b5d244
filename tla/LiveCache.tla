------------------------------ MODULE LiveCache ------------------------------
(***************************************************************************)
(* The live enrichment of the language server: the in-memory cache of      *)
(* device collections (live_cache.rs), the background fetch threads that   *)
(* fill it, the permit semaphore that bounds them (live_fetch.rs) and the  *)
(* handlers of the single server thread that start fetches, clear the      *)
(* cache and replace the connection (server.rs).                           *)
(*                                                                         *)
(* Every section that holds the cache mutex is one action; the server      *)
(* thread and the fetch threads interleave between sections.  Elapsed time *)
(* is kept as bounded ages and countdowns that move on Tick, so that only  *)
(* what the code can compare (elapsed() < bound) is remembered.            *)
(* Collections are abstracted to the connection they were fetched from.    *)
(*                                                                         *)
(* A definition whose name starts with Bad is a plausible slip in the code *)
(* of the definition that follows it; no specification uses it.  Replacing *)
(* the one by the other must break a property, which shows that the        *)
(* property constrains that code.                                          *)
(***************************************************************************)
EXTENDS Naturals, Sequences, FiniteSets

CONSTANTS
  Keys,          \* cache keys: one per ResourceKind, "custom:<property>"
  CustomKeys,    \* the keys of custom resources
  RefreshKeys,   \* the keys rsc.live.refresh prefetches, in order
  Configs,       \* LiveConfig values that live_connection_changed tells apart
  ActiveConfigs, \* those for which LiveConfig::is_active() holds
  Fetchers,      \* identities for fetch threads
  MaxFetches,    \* MAX_CONCURRENT_FETCHES
  MaxEntries,    \* MAX_CACHE_ENTRIES
  TTL,           \* LIVE_TTL_SECS, in ticks
  NegativeTTL,   \* LIVE_NEGATIVE_TTL_SECS, in ticks
  Window         \* LIVE_FETCH_BLOCKING_TIMEOUT_SECS, in ticks

ASSUME KeysAssumption ==
  /\ IsFiniteSet(Keys)
  /\ CustomKeys \subseteq Keys
  /\ RefreshKeys \in Seq(Keys \ CustomKeys)
ASSUME ConfigsAssumption == Configs # {} /\ ActiveConfigs \subseteq Configs
ASSUME FetchersAssumption ==
  IsFiniteSet(Fetchers) /\ MaxFetches \in Nat /\ MaxFetches < Cardinality(Fetchers)
ASSUME MaxEntriesAssumption == MaxEntries \in Nat \ {0}
ASSUME TimesAssumption ==
  /\ TTL \in Nat \ {0}
  /\ NegativeTTL \in Nat \ {0}
  /\ Window \in Nat \ {0}

VARIABLES
  entries,    \* the cached collections, a function on the cached keys
  cooldown,   \* failed_at: ticks left of a key's negative cooldown
  coalesce,   \* last_fetch_attempt: ticks left of a key's coalescing window
  permits,    \* ACTIVE_FETCHES
  fetch,      \* the running fetch threads, a function on their identities
  config,     \* Server::live_config
  server      \* program counter and locals of the server thread

vars == <<entries, cooldown, coalesce, permits, fetch, config, server>>

-----------------------------------------------------------------------------
(***************************************************************************)
(* Types.  "since" counts the ticks since the attempt behind a fetch was   *)
(* recorded, up to Window; "cleared" notes that the attempt was forgotten  *)
(* by a clear.  The code keeps neither: they are history for properties.   *)
(***************************************************************************)
IsPartialFn(f, S, T) == DOMAIN f \subseteq S /\ f \in [DOMAIN f -> T]

Entry == [conn : Configs, age : 0 .. TTL, since : 0 .. Window]
Fetch == [key : Keys, conn : Configs, phase : {"fetching", "stored"},
          since : 0 .. Window, cleared : BOOLEAN]
Server == [pc : {"idle", "check", "record", "load", "cas"},
           todo : Seq(Keys), cur : Nat, since : 0 .. Window]

TypeOK ==
  /\ IsPartialFn(entries, Keys, Entry)
  /\ cooldown \in [Keys -> 0 .. NegativeTTL]
  /\ coalesce \in [Keys -> 0 .. Window]
  /\ permits \in Nat
  /\ IsPartialFn(fetch, Fetchers, Fetch)
  /\ config \in Configs
  /\ server \in Server
  /\ server.pc # "idle" => server.todo # <<>> /\ config \in ActiveConfigs

-----------------------------------------------------------------------------
(* LiveCache *)

\* The time to live is not looked at.
BadFresh(k) == k \in DOMAIN entries

\* is_fresh / try_get_cached
Fresh(k) == k \in DOMAIN entries /\ entries[k].age < TTL

\* Only failures hold a key back.
BadCanSpawn(k) == cooldown[k] = 0

\* can_spawn_fetch, with is_negative_cooldown
CanSpawn(k) == cooldown[k] = 0 /\ coalesce[k] = 0

\* max_by_key
BadOldest == {k \in DOMAIN entries : \A j \in DOMAIN entries : entries[j].age >= entries[k].age}

\* The candidates of min_by_key(fetched_at): ages saturate, so entries that
\* are both stale may tie.
Oldest == {k \in DOMAIN entries : \A j \in DOMAIN entries : entries[j].age <= entries[k].age}

\* The sets of entries that inserting k may evict.
Evictions(k) ==
  IF k \notin DOMAIN entries /\ Cardinality(DOMAIN entries) >= MaxEntries
    THEN {{v} : v \in Oldest}
    ELSE {{}}

Insert(k, e) ==
  /\ \E gone \in Evictions(k) :
       entries' = [j \in (DOMAIN entries \ gone) \cup {k} |->
                     IF j = k THEN e ELSE entries[j]]
  /\ cooldown' = [cooldown EXCEPT ![k] = 0]

InsertNegative(k) ==
  /\ cooldown' = [cooldown EXCEPT ![k] = NegativeTTL]
  /\ UNCHANGED entries

\* clear_key for each of S, or clear_all.  Fetches in flight are not told.
Clear(S) ==
  /\ entries' = [k \in DOMAIN entries \ S |-> entries[k]]
  /\ cooldown' = [k \in Keys |-> IF k \in S THEN 0 ELSE cooldown[k]]
  /\ coalesce' = [k \in Keys |-> IF k \in S THEN 0 ELSE coalesce[k]]
  /\ fetch' = [t \in DOMAIN fetch |->
                 [fetch[t] EXCEPT !.cleared = @ \/ fetch[t].key \in S]]

-----------------------------------------------------------------------------
(* The handlers of the server thread *)

Idle == server.pc = "idle"

\* Leave the key at the head of todo and take up the next one.
NextKey ==
  server' = [pc |-> IF Len(server.todo) = 1 THEN "idle" ELSE "check",
             todo |-> Tail(server.todo), cur |-> 0, since |-> Window]

\* Enrichment is triggered without looking at is_active().
BadCompletion(k) ==
  /\ Idle
  /\ server' = [server EXCEPT !.pc = "check", !.todo = <<k>>]
  /\ UNCHANGED <<entries, cooldown, coalesce, permits, fetch, config>>

\* textDocument/completion while live enrichment is active: at most one key
\* is looked up.  The read of the cache that follows changes nothing.
Completion(k) ==
  /\ Idle
  /\ config \in ActiveConfigs
  /\ server' = [server EXCEPT !.pc = "check", !.todo = <<k>>]
  /\ UNCHANGED <<entries, cooldown, coalesce, permits, fetch, config>>

\* rsc.live.refresh: clear the named keys (all of them without arguments),
\* then prefetch.
Refresh(S) ==
  /\ Idle
  /\ Clear(S)
  /\ server' = IF config \in ActiveConfigs /\ RefreshKeys # <<>>
                 THEN [server EXCEPT !.pc = "check", !.todo = RefreshKeys]
                 ELSE server
  /\ UNCHANGED <<permits, config>>

\* textDocument/didClose
DidClose ==
  /\ Idle
  /\ Clear(Keys)
  /\ UNCHANGED <<permits, config, server>>

\* The cache survives the change.
BadChangeConfig(c) ==
  /\ Idle
  /\ c # config
  /\ config' = c
  /\ UNCHANGED <<entries, cooldown, coalesce, permits, fetch, server>>

\* workspace/didChangeConfiguration with live_connection_changed
ChangeConfig(c) ==
  /\ Idle
  /\ c # config
  /\ config' = c
  /\ Clear(Keys)
  /\ UNCHANGED <<permits, server>>

\* First lock section of get_cached_or_fetch_background and of
\* trigger_custom_fetch_background.
Check ==
  /\ server.pc = "check"
  /\ LET k == Head(server.todo) IN
       IF Fresh(k) \/ ~CanSpawn(k) THEN NextKey
       ELSE server' = [server EXCEPT !.pc = "record"]
  /\ UNCHANGED <<entries, cooldown, coalesce, permits, fetch, config>>

\* record_fetch_attempt is forgotten.
BadRecord ==
  /\ server.pc = "record"
  /\ LET k == Head(server.todo) IN
       IF ~CanSpawn(k) \/ (k \notin CustomKeys /\ Fresh(k)) THEN NextKey
       ELSE server' = [server EXCEPT !.pc = "load", !.since = 0]
  /\ UNCHANGED <<entries, cooldown, coalesce, permits, fetch, config>>

\* Second lock section.  Only the built-in path looks again for a fresh entry.
Record ==
  /\ server.pc = "record"
  /\ LET k == Head(server.todo) IN
       IF ~CanSpawn(k) \/ (k \notin CustomKeys /\ Fresh(k))
         THEN NextKey /\ UNCHANGED coalesce
         ELSE /\ coalesce' = [coalesce EXCEPT ![k] = Window]
              /\ server' = [server EXCEPT !.pc = "load", !.since = 0]
  /\ UNCHANGED <<entries, cooldown, permits, fetch, config>>

\* try_acquire_fetch_permit: the initial load
PermitLoad ==
  /\ server.pc = "load"
  /\ server' = [server EXCEPT !.pc = "cas", !.cur = permits]
  /\ UNCHANGED <<entries, cooldown, coalesce, permits, fetch, config>>

\* No permit: the key is given up, its attempt stays recorded.
PermitFull ==
  /\ server.pc = "cas"
  /\ server.cur >= MaxFetches
  /\ NextKey
  /\ UNCHANGED <<entries, cooldown, coalesce, permits, fetch, config>>

\* The compare_exchange fails and reloads.
PermitRetry ==
  /\ server.pc = "cas"
  /\ server.cur < MaxFetches
  /\ permits # server.cur
  /\ server' = [server EXCEPT !.cur = permits]
  /\ UNCHANGED <<entries, cooldown, coalesce, permits, fetch, config>>

\* Thread identities are taken in a fixed order: which is free says nothing.
FreeFetcher == CHOOSE t \in Fetchers : t \notin DOMAIN fetch

\* The fetch thread of the key at the head of todo.
NewFetch == [key |-> Head(server.todo), conn |-> config, phase |-> "fetching",
             since |-> server.since, cleared |-> FALSE]

\* A plain store in place of the compare_exchange.
BadSpawnStore(t) ==
  /\ server.pc = "cas"
  /\ server.cur < MaxFetches
  /\ t \notin DOMAIN fetch /\ t = FreeFetcher
  /\ permits' = server.cur + 1
  /\ fetch' = [u \in DOMAIN fetch \cup {t} |-> IF u = t THEN NewFetch ELSE fetch[u]]
  /\ NextKey
  /\ UNCHANGED <<entries, cooldown, coalesce, config>>

\* One permit too many.
BadSpawnCap(t) ==
  /\ server.pc = "cas"
  /\ server.cur <= MaxFetches
  /\ permits = server.cur
  /\ t \notin DOMAIN fetch /\ t = FreeFetcher
  /\ permits' = server.cur + 1
  /\ fetch' = [u \in DOMAIN fetch \cup {t} |-> IF u = t THEN NewFetch ELSE fetch[u]]
  /\ NextKey
  /\ UNCHANGED <<entries, cooldown, coalesce, config>>

\* The compare_exchange succeeds and the fetch thread is spawned with a clone
\* of the configuration.
Spawn(t) ==
  /\ server.pc = "cas"
  /\ server.cur < MaxFetches
  /\ permits = server.cur
  /\ t \notin DOMAIN fetch /\ t = FreeFetcher
  /\ permits' = server.cur + 1
  /\ fetch' = [u \in DOMAIN fetch \cup {t} |-> IF u = t THEN NewFetch ELSE fetch[u]]
  /\ NextKey
  /\ UNCHANGED <<entries, cooldown, coalesce, config>>

-----------------------------------------------------------------------------
(* The fetch threads *)

FetchOk(t) ==
  /\ t \in DOMAIN fetch /\ fetch[t].phase = "fetching"
  /\ Insert(fetch[t].key, [conn |-> fetch[t].conn, age |-> 0, since |-> fetch[t].since])
  /\ fetch' = [fetch EXCEPT ![t].phase = "stored"]
  /\ UNCHANGED <<coalesce, permits, config, server>>

FetchErr(t) ==
  /\ t \in DOMAIN fetch /\ fetch[t].phase = "fetching"
  /\ InsertNegative(fetch[t].key)
  /\ fetch' = [fetch EXCEPT ![t].phase = "stored"]
  /\ UNCHANGED <<coalesce, permits, config, server>>

\* Drop of FetchPermitGuard at the end of the thread
ReleasePermit(t) ==
  /\ t \in DOMAIN fetch /\ fetch[t].phase = "stored"
  /\ permits' = permits - 1
  /\ fetch' = [u \in DOMAIN fetch \ {t} |-> fetch[u]]
  /\ UNCHANGED <<entries, cooldown, coalesce, config, server>>

-----------------------------------------------------------------------------
Down(n) == IF n = 0 THEN 0 ELSE n - 1
Up(n, bound) == IF n < bound THEN n + 1 ELSE bound

\* A recorded attempt holds its key back until it is cleared.
BadTick ==
  /\ entries' = [k \in DOMAIN entries |->
                   [entries[k] EXCEPT !.age = Up(@, TTL), !.since = Up(@, Window)]]
  /\ cooldown' = [k \in Keys |-> Down(cooldown[k])]
  /\ fetch' = [t \in DOMAIN fetch |-> [fetch[t] EXCEPT !.since = Up(@, Window)]]
  /\ server' = [server EXCEPT !.since = Up(@, Window)]
  /\ UNCHANGED <<coalesce, permits, config>>

\* Time passes.
Tick ==
  /\ entries' = [k \in DOMAIN entries |->
                   [entries[k] EXCEPT !.age = Up(@, TTL), !.since = Up(@, Window)]]
  /\ cooldown' = [k \in Keys |-> Down(cooldown[k])]
  /\ coalesce' = [k \in Keys |-> Down(coalesce[k])]
  /\ fetch' = [t \in DOMAIN fetch |-> [fetch[t] EXCEPT !.since = Up(@, Window)]]
  /\ server' = [server EXCEPT !.since = Up(@, Window)]
  /\ UNCHANGED <<permits, config>>

Init ==
  /\ entries = <<>>
  /\ cooldown = [k \in Keys |-> 0]
  /\ coalesce = [k \in Keys |-> 0]
  /\ permits = 0
  /\ fetch = <<>>
  /\ config \in Configs
  /\ server = [pc |-> "idle", todo |-> <<>>, cur |-> 0, since |-> Window]

\* What the server thread does without waiting for the client.
ServerStep ==
  \/ Check \/ Record \/ PermitLoad \/ PermitFull \/ PermitRetry
  \/ \E t \in Fetchers : Spawn(t)

FetchStep(t) == FetchOk(t) \/ FetchErr(t) \/ ReleasePermit(t)

Next ==
  \/ \E k \in Keys : Completion(k)
  \/ \E S \in SUBSET Keys : Refresh(S)
  \/ DidClose
  \/ \E c \in Configs : ChangeConfig(c)
  \/ ServerStep
  \/ \E t \in Fetchers : FetchStep(t)
  \/ Tick

SafeSpec == Init /\ [][Next]_vars

\* The client owes nothing.  The server thread runs to the end of a handler,
\* a fetch ends (every socket operation has a timeout) and time passes.
Spec ==
  /\ SafeSpec
  /\ WF_vars(ServerStep)
  /\ \A t \in Fetchers : WF_vars(FetchStep(t))
  /\ WF_vars(Tick)

-----------------------------------------------------------------------------
(* Properties *)

\* The counter of the semaphore is exactly the number of fetch threads alive
\* and never exceeds its cap, although it is taken by a load and a later
\* compare-and-swap while threads give permits back in between.
PermitsExact ==
  permits = Cardinality(DOMAIN fetch) /\ permits <= MaxFetches

\* The compare-and-swap loop implements the abstract semaphore.
Permits == INSTANCE FetchPermits WITH holders <- DOMAIN fetch
ImplementsPermits == Permits!Spec

Recent(t) == fetch[t].since < Window

\* "at most one fetch is in flight per key within
\* LIVE_FETCH_BLOCKING_TIMEOUT_SECS" (live_cache.rs, doc of
\* trigger_custom_fetch_background), as far as the window does give it: of the
\* attempts that no clear has forgotten, one per key within the window.
SingleFlight ==
  \A t, u \in DOMAIN fetch :
    /\ fetch[t].key = fetch[u].key /\ t # u
    /\ ~fetch[t].cleared /\ ~fetch[u].cleared
    => ~Recent(t) \/ ~Recent(u)

\* A fetch that answers within its window never overwrites the result of a
\* fetch that was started after it: results cannot go back in time unless
\* the older fetch outlived the window or a clear released the key.
NoOvertaking ==
  \A t \in DOMAIN fetch :
    /\ fetch[t].phase = "fetching" /\ Recent(t) /\ ~fetch[t].cleared
    /\ fetch[t].key \in DOMAIN entries
    => entries[fetch[t].key].since >= fetch[t].since

\* Why SingleFlight and NoOvertaking hold: an attempt that is recent and not
\* forgotten still keeps its key from being attempted again, so everything else
\* about the key is older.  This is their inductive strengthening.
Live(t) == ~fetch[t].cleared /\ Recent(t)
Pending(k) == server.pc \in {"load", "cas"} /\ Head(server.todo) = k

FlightInv ==
  /\ \A t \in DOMAIN fetch :
       Live(t) => coalesce[fetch[t].key] + fetch[t].since >= Window
  /\ \A k \in Keys :
       Pending(k) /\ server.since < Window => coalesce[k] + server.since >= Window
  /\ \A k \in Keys, t \in DOMAIN fetch :
       Pending(k) /\ fetch[t].key = k => ~Live(t) /\ fetch[t].since >= server.since
  /\ \A k \in DOMAIN entries : Pending(k) => entries[k].since >= server.since
  /\ \A t, u \in DOMAIN fetch :
       fetch[t].key = fetch[u].key /\ Live(t) => fetch[u].since >= fetch[t].since
  /\ SingleFlight
  /\ NoOvertaking

\* The cache stays within its cap whatever order fetches finish in.
CacheBounded == Cardinality(DOMAIN entries) <= MaxEntries

\* Storing a result costs at most one other entry, only when the cache is
\* full, and never a fresh one while a stale one is there to go.
EvictsStaleFirst ==
  [][\A k \in DOMAIN entries \ DOMAIN entries' :
       (\E t \in DOMAIN fetch : fetch[t].phase = "fetching" /\ fetch'[t].phase = "stored")
       => /\ Cardinality(DOMAIN entries) = MaxEntries
          /\ Cardinality(DOMAIN entries') = MaxEntries
          /\ Fresh(k) => \A j \in DOMAIN entries : Fresh(j)]_vars

ForeignEntries == {k \in DOMAIN entries : entries[k].conn # config}
ForeignFetches ==
  {t \in DOMAIN fetch : fetch[t].phase = "fetching" /\ fetch[t].conn # config}

\* "entries fetched under the previous target/credentials are stale by
\* definition" (server.rs, workspace/didChangeConfiguration): the cache holds
\* nothing of another connection.
NoForeignEntry == ForeignEntries = {}

\* What the clear on a configuration change does give: entries of earlier
\* connections come only from the fetches that were in flight, so there are
\* never more of both than permits, however often the connection changes.
ForeignBounded ==
  Cardinality(ForeignEntries) + Cardinality(ForeignFetches) <= MaxFetches

\* Once the connection is no longer changed, values of earlier connections
\* eventually stop being offered.
ForeignFades ==
  <>[][config' = config]_vars => <>[](\A k \in ForeignEntries : ~Fresh(k))

\* No key is barred forever, neither by an attempt whose fetch got no permit, nor
\* by a failure, nor by a lost thread; and the server thread, which never waits for
\* a permit or a fetch, comes back from every handler to make the attempt.
NoLockout == (\A k \in Keys : []<>CanSpawn(k)) /\ []<>Idle
=============================================================================
