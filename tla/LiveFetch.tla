------------------------------ MODULE LiveFetch -----------------------------
(***************************************************************************)
(* One fetch of a device collection from the configuration it captures to  *)
(* the request it sends (live_fetch.rs), with the cache of TLS agents      *)
(* (PINNED_CACHE), the CA bundle on disk and its negative cache            *)
(* (live_net.rs), and the configuration that settings may replace at any   *)
(* moment (live_config.rs, server.rs).                                     *)
(*                                                                         *)
(* An agent is found, built and cached in separate lock sections, by fetch *)
(* threads that run beside each other and hold clones of configurations    *)
(* that may be out of date.  When fetches are started, and what becomes of *)
(* the answer, is the subject of LiveCache.                                *)
(*                                                                         *)
(* A host name is looked up anew by every fetch; the answer is drawn from  *)
(* Answers.  The device is drawn when a connection is made: the key and    *)
(* the issuer its certificate has.                                         *)
(***************************************************************************)
EXTENDS LiveSettings

CONSTANTS
  Envs,       \* environments the process may be started in
  Payloads,   \* payloads of workspace/didChangeConfiguration
  Answers,    \* answers of the resolver for a name; <<>> is a failure
  Fetchers,   \* identities for fetch threads: MAX_CONCURRENT_FETCHES of them
  MaxAgents,  \* MAX_PINNED_AGENT_CACHE_ENTRIES
  MaxStarts,  \* bound: fetches started
  MaxChanges, \* bound: configuration changes
  MaxEdits    \* bound: changes of the bundle on disk

ASSUME LiveFetchAssumption ==
  /\ MaxAgents \in Nat \ {0}
  /\ {MaxStarts, MaxChanges, MaxEdits} \subseteq Nat

\* What comes from outside has the form that parsing gives it.
ASSUME InputAssumption ==
  /\ \A e \in Envs : IsEnvironment(e)
  /\ \A p \in Payloads : IsSettings(p.keys)
  /\ Answers \subseteq Seq(Addresses)

VARIABLES
  env,     \* the environment of the process
  config,  \* Server::live_config
  bundle,  \* the CA file on disk
  bad,     \* the path is in bad_ca_cache
  agents,  \* PINNED_CACHE: entries [key, agent], least recently used first
  fetch,   \* the running fetch threads, a function on their identities
  unread,  \* history: a bundle could not be read when an agent was built
  started, changed, edited  \* counters of the bounds

vars == <<env, config, bundle, bad, agents, fetch, unread, started, changed, edited>>

-----------------------------------------------------------------------------
(* Agents *)

\* The address set is left out of the key.
BadKeyAddrs(c, shim, addrs) ==
  [timeout |-> c.timeout, verify |-> VerifyEffective(c, shim), pin |-> c.pin, ca |-> c.ca,
   port |-> c.port]

\* The pin is left out of the key.
BadKey(c, shim, addrs) ==
  [timeout |-> c.timeout, verify |-> VerifyEffective(c, shim), ca |-> c.ca, addrs |-> addrs,
   port |-> c.port]

\* agent_cache_key_for_config: the socket addresses carry the port.
Key(c, shim, addrs) ==
  [timeout |-> c.timeout, verify |-> VerifyEffective(c, shim), pin |-> c.pin,
   ca |-> c.ca, addrs |-> addrs, port |-> c.port]

Agent(checks, pin, addrs, port) ==
  [checks |-> checks, pin |-> pin, addrs |-> addrs, port |-> port]

\* read_ca_bundle with parse_pem_certs: a bundle marked bad is not read again.
Reads == ~bad /\ bundle = "good"

\* build_agent_for_config: without its bundle an agent falls back to the platform
\* roots and checks no pin.
Built(c, shim, addrs) ==
  LET secure == CASE c.pin # NoPin /\ c.ca  -> IF Reads THEN "pin+ca" ELSE "default"
                  [] c.pin # NoPin /\ ~c.ca -> "pin"
                  [] c.pin = NoPin /\ c.ca  -> IF Reads THEN "ca" ELSE "default"
                  [] OTHER                  -> IF VerifyEffective(c, shim)
                                                 THEN "default" ELSE "none"
  IN  Agent(IF Https(c, shim) THEN secure ELSE "default", c.pin, addrs, c.port)

Holds(s, k) == \E i \in DOMAIN s : s[i].key = k
IndexOf(s, k) == CHOOSE i \in DOMAIN s : s[i].key = k
Without(s, k) == IF Holds(s, k) THEN RemoveAt(s, IndexOf(s, k)) ELSE s

\* The cap is looked at after the entry is in.
BadInsertAgent(k, a) ==
  agents' = Append(Without(IF Len(agents) > MaxAgents THEN Tail(agents) ELSE agents, k),
                   [key |-> k, agent |-> a])

\* Second lock section of get_cached_agent_for_config: at the cap the least
\* recently used entry goes, also when the key is there already.
InsertAgent(k, a) ==
  agents' = Append(Without(IF Len(agents) >= MaxAgents THEN Tail(agents) ELSE agents, k),
                   [key |-> k, agent |-> a])

-----------------------------------------------------------------------------
(* The device *)

Peer == [pin : Pins, issuer : {"system", "bundle", "self"}]

\* SpkiPinVerifier, PinnedWithCaVerifier, the platform verifier and
\* NoCertificateVerification
Accepts(agent, peer) ==
  CASE agent.checks = "default" -> peer.issuer = "system"
    [] agent.checks = "ca"      -> peer.issuer = "bundle"
    [] agent.checks = "pin"     -> peer.pin = agent.pin
    [] agent.checks = "pin+ca"  -> peer.pin = agent.pin /\ peer.issuer = "bundle"
    [] OTHER                    -> TRUE

-----------------------------------------------------------------------------
(* The steps *)

\* A free identity; which one says nothing.
Idle == Fetchers \ DOMAIN fetch
At(t, phase) == t \in DOMAIN fetch /\ fetch[t].phase = phase
GoTo(t, f) == fetch' = [u \in DOMAIN fetch \cup {t} |-> IF u = t THEN f ELSE fetch[u]]
Gone(t) == fetch' = [u \in DOMAIN fetch \ {t} |-> fetch[u]]

Thread(phase, cfg, agent, peer) ==
  [phase |-> phase, cfg |-> cfg, agent |-> agent, peer |-> peer]
NoAgent == Agent("none", NoPin, <<>>, 0)
NoPeer == [pin |-> NoPin, issuer |-> "self"]

\* A fetch thread begins with a clone of the configuration: fetch_resource and
\* fetch_custom_resource with is_active() and the URL.
Start ==
  /\ started < MaxStarts
  /\ Idle # {}
  /\ IsActive(config)
  /\ GoTo(CHOOSE t \in Idle : TRUE, Thread("lookup", config, NoAgent, NoPeer))
  /\ started' = started + 1
  /\ UNCHANGED <<env, config, bundle, bad, agents, unread, changed, edited>>

\* A literal resolves to itself.
AnswersFor(h) == IF h.form = "literal" THEN {<<h.addr>>} ELSE Answers

\* fetch_live_resource up to the first lock section of the agent cache: resolve,
\* check every address, look for an agent.
Lookup(t) ==
  /\ At(t, "lookup")
  /\ LET c == fetch[t].cfg IN
       \E answer \in AnswersFor(c.hosts[1]) :
         IF Resolved(answer, c.allow, c.denies)
           THEN LET addrs == Dedup(answer)
                    k == Key(c, env.shim, addrs)
                IN  IF Holds(agents, k)
                      THEN LET e == agents[IndexOf(agents, k)] IN
                             /\ agents' = Append(Without(agents, k), e)
                             /\ GoTo(t, Thread("ready", c, e.agent, NoPeer))
                      ELSE /\ GoTo(t, Thread("build", c, Agent("none", NoPin, addrs, c.port), NoPeer))
                           /\ UNCHANGED agents
           ELSE Gone(t) /\ UNCHANGED agents
  /\ UNCHANGED <<env, config, bundle, bad, unread, started, changed, edited>>

\* build_agent_for_config, outside the lock
Build(t) ==
  /\ At(t, "build")
  /\ LET c == fetch[t].cfg
         reads == Https(c, env.shim) /\ c.ca
     IN  /\ GoTo(t, Thread("insert", c, Built(c, env.shim, fetch[t].agent.addrs), NoPeer))
         /\ bad' = (bad \/ (reads /\ bundle = "broken"))
         /\ unread' = (unread \/ (reads /\ ~Reads))
  /\ UNCHANGED <<env, config, bundle, agents, started, changed, edited>>

Insert(t) ==
  /\ At(t, "insert")
  /\ InsertAgent(Key(fetch[t].cfg, env.shim, fetch[t].agent.addrs), fetch[t].agent)
  /\ GoTo(t, Thread("ready", fetch[t].cfg, fetch[t].agent, NoPeer))
  /\ UNCHANGED <<env, config, bundle, bad, unread, started, changed, edited>>

\* agent.get(url).call(): the request, with the credentials, follows the handshake.
Send(t) ==
  /\ At(t, "ready")
  /\ \E peer \in Peer :
       IF Https(fetch[t].cfg, env.shim) /\ ~Accepts(fetch[t].agent, peer)
         THEN Gone(t)
         ELSE GoTo(t, Thread("sent", fetch[t].cfg, fetch[t].agent, peer))
  /\ UNCHANGED <<env, config, bundle, bad, agents, unread, started, changed, edited>>

\* The answer, an error or the timeout ends the fetch; a redirect is an error.
Receive(t) ==
  /\ At(t, "sent")
  /\ Gone(t)
  /\ UNCHANGED <<env, config, bundle, bad, agents, unread, started, changed, edited>>

\* workspace/didChangeConfiguration
ChangeConfig(p) ==
  /\ changed < MaxChanges
  /\ config' = FromSettings(env, p)
  /\ config' # config
  /\ changed' = changed + 1
  /\ UNCHANGED <<env, bundle, bad, agents, fetch, unread, started, edited>>

\* The operator replaces, breaks or removes the bundle.
EditBundle ==
  /\ edited < MaxEdits
  /\ \E b \in {"good", "broken", "unreadable"} \ {bundle} : bundle' = b
  /\ edited' = edited + 1
  /\ UNCHANGED <<env, config, bad, agents, fetch, unread, started, changed>>

Init ==
  /\ env \in Envs
  /\ config = FromEnv(env)
  /\ bundle \in {"good", "broken", "unreadable"}
  /\ bad = FALSE /\ agents = <<>> /\ fetch = <<>> /\ unread = FALSE
  /\ started = 0 /\ changed = 0 /\ edited = 0

Next ==
  \/ Start
  \/ \E t \in DOMAIN fetch :
       Lookup(t) \/ Build(t) \/ Insert(t) \/ Send(t) \/ Receive(t)
  \/ \E p \in Payloads : ChangeConfig(p)
  \/ EditBundle

Spec == Init /\ [][Next]_vars

-----------------------------------------------------------------------------
(* Properties *)

\* The agent cache holds at most its cap of agents and no key twice, with builders
\* that run beside each other.
AgentsBounded ==
  /\ Len(agents) <= MaxAgents
  /\ \A i, j \in DOMAIN agents : agents[i].key = agents[j].key => i = j

\* The types, with the caps of the configuration and of the agent cache
Configured(c) ==
  /\ Len(c.hosts) <= MaxHosts /\ Len(c.custom) <= MaxCustom
  /\ Cardinality(c.denies) <= MaxDenies
  /\ c.port \in Ports /\ c.timeout \in 1 .. 30
  /\ c.pin \in Pins \cup {NoPin}
  /\ {c.enabled, c.pass, c.verify, c.http, c.allow, c.pinBad, c.ca} \subseteq BOOLEAN

TypeOK ==
  /\ env \in Envs /\ Configured(config)
  /\ bundle \in {"good", "broken", "unreadable"} /\ bad \in BOOLEAN /\ unread \in BOOLEAN
  /\ AgentsBounded
  /\ DOMAIN fetch \subseteq Fetchers
  /\ \A t \in DOMAIN fetch :
       /\ fetch[t].phase \in {"lookup", "build", "insert", "ready", "sent"}
       /\ Configured(fetch[t].cfg) /\ IsActive(fetch[t].cfg)
  /\ started \in 0 .. MaxStarts /\ changed \in 0 .. MaxChanges /\ edited \in 0 .. MaxEdits

Sent(t) == At(t, "sent")

\* live_net.rs, resolve_and_validate_host_with_denies and the pinned resolver: the
\* credentials go to addresses that the documented ranges allow under the
\* configuration the fetch captured, and that no entry of the operator's list
\* covers, whatever the resolver answered, whichever agent was reused and
\* whatever settings came in between.
AddressesAllowed ==
  \A t \in DOMAIN fetch : Sent(t) =>
    LET c == fetch[t].cfg IN
      /\ fetch[t].agent.addrs # <<>>
      /\ \A i \in DOMAIN fetch[t].agent.addrs :
           ~Documented(fetch[t].agent.addrs[i], c.allow, DenyList(env.denies))

\* live_net.rs, is_normalized_ssrf_denied and is_normalized_loopback_or_private:
\* the tests on octets refuse the documented blocks and nothing else, at every
\* edge of every block, for mapped addresses, under the opt-in and the list of the
\* environment the process starts in and under prefixes that end inside an octet.
PolicyExact ==
  started = 0 /\ changed = 0 /\ edited = 0 =>
    \A a \in Probes, denies \in ProbeDenies \cup {config.denies} :
      DeniedIp(a, config.allow, denies) <=> Documented(a, config.allow, denies)

\* What a configuration asks of the device
Trusts(c, peer) ==
  /\ ~c.pinBad
  /\ c.pin # NoPin => peer.pin = c.pin
  /\ c.ca => peer.issuer = "bundle"
  /\ c.verify /\ c.pin = NoPin /\ ~c.ca => peer.issuer = "system"

\* live_fetch.rs, selection of the verifier: over TLS the credentials go to a
\* device that the captured configuration trusts, also with an agent built by
\* another fetch; only a bundle that could not be read is replaced, by the
\* platform roots.
DeviceTrusted ==
  \A t \in DOMAIN fetch : Sent(t) /\ Https(fetch[t].cfg, env.shim) =>
    \/ Trusts(fetch[t].cfg, fetch[t].peer)
    \/ fetch[t].cfg.ca /\ unread /\ fetch[t].peer.issuer = "system"

\* live_config.rs, apply_settings_value: without the opt-in a project cannot send
\* the credentials to another host, port, user or path, over plain HTTP or into a
\* private network.  Over TLS they go to a device that the environment trusts, or
\* to one that has a pin the project put in the place of the environment's pin, of
\* its malformed pin or of its check of the chain; a bundle of the environment is
\* checked beside that pin, unless it could not be read.
SettingsStayHome ==
  \A t \in DOMAIN fetch : Sent(t) /\ ~env.optIn =>
    LET c == fetch[t].cfg
        peer == fetch[t].peer
        home == FromEnv(env)
    IN  /\ <<c.hosts, fetch[t].agent.port, c.user, c.custom>> =
             <<home.hosts, home.port, home.user, home.custom>>
        /\ Https(home, env.shim) => Https(c, env.shim)
        /\ \A i \in DOMAIN fetch[t].agent.addrs :
             ~Documented(fetch[t].agent.addrs[i], home.allow, {})
        /\ Https(home, env.shim) =>
             \/ Trusts(home, peer)
             \/ /\ c.pin # home.pin /\ peer.pin = c.pin
                /\ home.ca => peer.issuer = "bundle"
             \/ home.ca /\ unread /\ peer.issuer = "system"

\* apply_settings_value: "Env values always win", also where the settings bring a
\* pin: over TLS the device is one that the environment trusts.
EnvironmentWins ==
  \A t \in DOMAIN fetch : Sent(t) /\ ~env.optIn =>
    LET peer == fetch[t].peer
        home == FromEnv(env)
    IN  Https(home, env.shim) =>
          \/ Trusts(home, peer)
          \/ home.ca /\ unread /\ peer.issuer = "system"
=============================================================================
