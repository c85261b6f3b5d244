---------------------------- MODULE LiveSettings ----------------------------
(***************************************************************************)
(* The configuration of the live connection (live_config.rs): what the     *)
(* environment of the process gives, and what workspace settings may       *)
(* change of it.  Settings come from the opened project, so a key that     *)
(* could send the credentials elsewhere, or over a weaker transport, is    *)
(* followed only when the operator has opted in.                           *)
(*                                                                         *)
(* An environment has the raw values as classes: a host list, a user that  *)
(* may be invalid, a deny list whose entries may not parse.  A settings    *)
(* object is a record of the keys that are present.                        *)
(***************************************************************************)
EXTENDS HostPolicy

CONSTANTS
  Pins,        \* SPKI digests
  NoPin,       \* no fingerprint, or an empty one
  BadPin,      \* a fingerprint that does not parse
  NoPrefix,    \* a deny entry that does not parse
  MaxHosts,    \* LIVE_MAX_HOSTS
  MaxCustom,   \* LIVE_CUSTOM_RESOURCES_MAX
  MaxDenies,   \* MAX_LIVE_DENY_PREFIXES
  MaxDenyBytes \* MAX_LIVE_DENY_PREFIXES_BYTES

ASSUME SettingsAssumption ==
  /\ NoPin \notin Pins /\ BadPin \notin Pins /\ NoPin # BadPin
  /\ {MaxHosts, MaxCustom, MaxDenies, MaxDenyBytes} \subseteq Nat

Ports == 1 .. 65535

Least(m, n) == IF m < n THEN m ELSE n
Clamp(n, lo, hi) == IF n < lo THEN lo ELSE Least(n, hi)
FirstOf(s, n) == SubSeq(s, 1, Least(n, Len(s)))

\* validate_user, with the fallback of its callers
UserOrAdmin(u) == IF u \in {"", "invalid"} THEN "admin" ELSE u

\* parse_custom_resources_from_value: the cap counts the entries as they come,
\* then those that are not valid go.
Resources == [path : STRING, valid : BOOLEAN]
CustomOf(raw) ==
  LET first == FirstOf(raw, MaxCustom) IN
    Chosen(first, {i \in DOMAIN first : first[i].valid})

\* parse_deny_prefixes: the bytes of an entry and its comma are charged before it
\* is parsed.  Both totals only grow, so the list ends with the first entry that
\* has either of them past its cap.
DenyEntries == [bytes : Nat, prefix : DenyPrefixes \cup {NoPrefix}]
DenyList(raw) ==
  LET used[i \in 0 .. Len(raw)] == IF i = 0 THEN 0 ELSE used[i - 1] + raw[i].bytes + 1
      parsed == {i \in DOMAIN raw : raw[i].prefix # NoPrefix}
  IN  {raw[i].prefix :
         i \in {j \in parsed : used[j] <= MaxDenyBytes /\ Rank(parsed, j) <= MaxDenies}}

\* What the environment can hold.  Numbers are given as what they are parsed to,
\* switches as what they mean.
IsEnvironment(e) ==
  /\ e.hosts \in Seq(Hosts) /\ e.custom \in Seq(Resources) /\ e.denies \in Seq(DenyEntries)
  /\ e.port \in Nat /\ e.timeout \in Nat
  /\ e.pin \in Pins \cup {NoPin, BadPin}
  /\ {e.enabled, e.pass, e.verify, e.http, e.allow, e.ca, e.shim, e.optIn} \subseteq BOOLEAN

\* LiveConfig::from_env_with
FromEnv(e) ==
  [enabled |-> e.enabled,
   hosts   |-> FirstOf(e.hosts, MaxHosts),
   user    |-> UserOrAdmin(e.user),
   pass    |-> e.pass,
   port    |-> IF e.port \in Ports THEN e.port ELSE 443,
   verify  |-> e.verify,
   http    |-> e.http,
   timeout |-> Clamp(e.timeout, 1, 30),
   custom  |-> CustomOf(e.custom),
   allow   |-> e.allow,
   denies  |-> DenyList(e.denies),
   pin     |-> IF e.pin = BadPin THEN NoPin ELSE e.pin,
   pinBad  |-> e.pin = BadPin,
   ca      |-> e.ca]

-----------------------------------------------------------------------------
(* What the configuration amounts to *)

\* resolve_scheme_with_legacy
Https(c, shim) == ~c.http /\ ~(~c.verify /\ c.port \notin {443, 8729} /\ shim)

\* ssl_verify_effective
VerifyEffective(c, shim) == Https(c, shim) /\ (c.verify \/ c.pin # NoPin \/ c.ca)

\* is_active
IsActive(c) ==
  /\ ~c.pinBad
  /\ c.enabled
  /\ c.hosts # <<>>
  /\ c.pass
  /\ ValidHost(c.hosts[1], c.allow, c.denies)

-----------------------------------------------------------------------------
(***************************************************************************)
(* The overlay.  "ok" is RSC_LS_ALLOW_SETTINGS_TRANSPORT=1; s is the       *)
(* object found under an explicit scope.  No key changes enabled or the    *)
(* deny list, and a password is ignored.                                   *)
(***************************************************************************)
Has(s, k) == k \in DOMAIN s

\* What the getters of live_config.rs give for the keys that are present
IsSettings(s) ==
  /\ Has(s, "hosts") => s.hosts \in Seq(Hosts)
  /\ Has(s, "custom") => s.custom \in Seq(Resources)
  /\ Has(s, "port") => s.port \in Ports
  /\ Has(s, "timeout") => s.timeout \in Nat
  /\ \A k \in {"verify", "http", "allow", "ca"} : Has(s, k) => s[k] \in BOOLEAN

\* A payload names its scope; a bare object is never a settings object, and rsc
\* itself only when it has a host.
FindSettings(p) ==
  IF p.scope \in {"rsc.live", "mikrotik"} \/ (p.scope = "rsc" /\ Has(p.keys, "hosts"))
    THEN p.keys
    ELSE <<>>

HostsAfter(c, s, ok) ==
  IF Has(s, "hosts") /\ s.hosts # <<>> /\ ok THEN FirstOf(s.hosts, MaxHosts) ELSE c.hosts

UserAfter(c, s, ok) ==
  IF Has(s, "user") /\ s.user # "" /\ (ok \/ s.user = c.user)
    THEN UserOrAdmin(s.user) ELSE c.user

PortAfter(c, s, ok) == IF Has(s, "port") /\ ok THEN s.port ELSE c.port

\* Downgrade and upgrade are mixed up.
BadSwitchAfter(c, s, k, weaker, ok) ==
  IF Has(s, k) /\ (s[k] = weaker \/ c[k] = weaker \/ ok) THEN s[k] ELSE c[k]

\* ssl_verify, force_http and allow_loopback: towards the weaker value only with
\* the opt-in.
SwitchAfter(c, s, k, weaker, ok) ==
  IF Has(s, k) /\ (s[k] # weaker \/ c[k] = weaker \/ ok) THEN s[k] ELSE c[k]

TimeoutAfter(c, s) == IF Has(s, "timeout") THEN Clamp(s.timeout, 1, 30) ELSE c.timeout

CustomAfter(c, s, ok) == IF Has(s, "custom") /\ ok THEN CustomOf(s.custom) ELSE c.custom

\* A pin that parses replaces the one there is; an empty one removes it only with
\* the opt-in.
PinAfter(c, s, ok) ==
  CASE Has(s, "pin") /\ s.pin \in Pins           -> [pin |-> s.pin, bad |-> FALSE]
    [] Has(s, "pin") /\ s.pin = NoPin /\ ok      -> [pin |-> NoPin, bad |-> c.pinBad]
    [] OTHER                                     -> [pin |-> c.pin, bad |-> c.pinBad]

CaAfter(c, s, ok) == IF Has(s, "ca") /\ ok THEN s.ca ELSE c.ca

\* apply_settings_value_with_transport
Overlay(c, s, ok) ==
  [enabled |-> c.enabled,
   hosts   |-> HostsAfter(c, s, ok),
   user    |-> UserAfter(c, s, ok),
   pass    |-> c.pass,
   port    |-> PortAfter(c, s, ok),
   verify  |-> SwitchAfter(c, s, "verify", FALSE, ok),
   http    |-> SwitchAfter(c, s, "http", TRUE, ok),
   timeout |-> TimeoutAfter(c, s),
   custom  |-> CustomAfter(c, s, ok),
   allow   |-> SwitchAfter(c, s, "allow", TRUE, ok),
   denies  |-> c.denies,
   pin     |-> PinAfter(c, s, ok).pin,
   pinBad  |-> PinAfter(c, s, ok).bad,
   ca      |-> CaAfter(c, s, ok)]

\* from_settings_value: the overlay starts from the environment every time.
FromSettings(e, p) == Overlay(FromEnv(e), FindSettings(p), e.optIn)
=============================================================================
