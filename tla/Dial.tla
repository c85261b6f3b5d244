-------------------------------- MODULE Dial --------------------------------
(***************************************************************************)
(* What the companion scripts share on their way to a device               *)
(* (scripts/_mikrotik_shared.py): the host is looked up once, every        *)
(* address of the answer is checked, and only those addresses are dialled. *)
(*                                                                         *)
(* Definitions whose names start with Bad are plausible slips in the code  *)
(* of the definition that follows; no specification uses them.             *)
(***************************************************************************)
EXTENDS Naturals, Sequences, SequencesExt, FiniteSets, Lists

CONSTANTS
  Addrs,    \* addresses a resolver may answer with
  Denied,   \* those the address policy refuses
  Answers,  \* the answers of the resolver; the empty one stands for failure
  None      \* no value, no answer yet, not exited yet

ASSUME DialAssumption ==
  /\ Denied \subseteq Addrs
  /\ Answers \subseteq Seq(Addrs)
  /\ None \notin Addrs \cup Nat

\* Only the first address is checked.
BadAccepted(answer) == answer # <<>> /\ answer[1] \notin Denied

\* One address the policy refuses, or no address at all, fails the target.
Accepted(answer) == answer # <<>> /\ ToSet(answer) \cap Denied = {}

\* resolve_host_addrs: the addresses to dial, in the resolver's order.
Pinned(answer) ==
  Chosen(answer, {i \in DOMAIN answer : \A j \in 1 .. i - 1 : answer[j] # answer[i]})

\* open_pinned_socket: addresses are tried in order until one of those that are
\* up accepts.
Connects(addrs, up) == ToSet(addrs) \cap up # {}
Tried(addrs, up) ==
  {addrs[i] : i \in {k \in DOMAIN addrs : \A j \in 1 .. k - 1 : addrs[j] \notin up}}

-----------------------------------------------------------------------------
(***************************************************************************)
(* Transport security.  A peer is known by whether its key is the pinned   *)
(* one and by the authority its certificate chains to.                     *)
(***************************************************************************)
Tls == [https : BOOLEAN, verify : BOOLEAN, ca : BOOLEAN, pin : BOOLEAN]
Peer == [pinned : BOOLEAN, chain : {"ca", "system", "self"}]

\* The pin takes the place of a custom CA bundle.
BadSessionVerify(tls) ==
  IF tls.pin /\ tls.https
    THEN "self"
    ELSE IF tls.ca THEN "ca" ELSE IF tls.verify THEN "system" ELSE "self"

\* build_pinned_requests_session: the authority the chain must lead to, "self"
\* for no check.
SessionVerify(tls) ==
  IF tls.pin /\ tls.https
    THEN IF tls.ca THEN "ca" ELSE "self"
    ELSE IF tls.ca THEN "ca" ELSE IF tls.verify THEN "system" ELSE "self"

\* The SSL context of the requests-less client of the live check
ContextVerify(tls) ==
  LET pinned == tls.pin /\ tls.https IN
    IF tls.ca
      THEN IF ~tls.verify /\ ~pinned THEN "self" ELSE "ca"
      ELSE IF pinned \/ ~tls.verify THEN "self" ELSE "system"

\* The handshake and verify_spki_pin_on_socket, before any request byte is sent
Handshake(tls, authority, peer) ==
  tls.https =>
    /\ authority # "self" => peer.chain = authority
    /\ tls.pin => peer.pinned
=============================================================================
