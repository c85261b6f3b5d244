----------------------------- MODULE HostPolicy -----------------------------
(***************************************************************************)
(* Which hosts and addresses the live connection may use (live_net.rs).    *)
(* An address is its family and its octets.  A host is what the text of    *)
(* MIKROTIK_HOST amounts to: a literal with the address that URL parsing   *)
(* gives it and whether it was written canonically, or a name.             *)
(*                                                                         *)
(* Definitions whose names start with Bad are plausible slips in the code  *)
(* of the definition that follows; no specification uses them.             *)
(***************************************************************************)
EXTENDS Naturals, Sequences, SequencesExt, FiniteSets, Lists

Octets == 0 .. 255
Addresses == [v : {4}, o : [1 .. 4 -> Octets]] \cup [v : {6}, o : [1 .. 16 -> Octets]]

V4(a, b, c, d) == [v |-> 4, o |-> <<a, b, c, d>>]

Segment(a, i) == 256 * a.o[2 * i - 1] + a.o[2 * i]
ZeroTo(a, n) == \A i \in 1 .. n : a.o[i] = 0
Loopback6(a) == a.v = 6 /\ ZeroTo(a, 15) /\ a.o[16] = 1
From4(o) == V4(o[1], o[2], o[3], o[4])

\* Ipv6Addr::to_ipv4_mapped: ::ffff:a.b.c.d
Mapped(a) == a.v = 6 /\ ZeroTo(a, 10) /\ a.o[11] = 255 /\ a.o[12] = 255
Unmapped(a) == IF Mapped(a) THEN From4(SubSeq(a.o, 13, 16)) ELSE a

-----------------------------------------------------------------------------
(* Operator deny prefixes *)

\* DenyPrefix: a network of either family and how many of its bits count
DenyPrefixes == {p \in [net : Addresses, len : Nat] : p.len <= 8 * Len(p.net.o)}

\* prefix_bits_match: whole octets first, then the high bits of the next one
PrefixBitsMatch(net, cand, len) ==
  LET full == len \div 8
      unit == 2 ^ (8 - (len % 8))
  IN  /\ \A i \in 1 .. full : net[i] = cand[i]
      /\ len % 8 # 0 => net[full + 1] \div unit = cand[full + 1] \div unit

\* DenyPrefix::contains: same family only
PrefixContains(p, a) == p.net.v = a.v /\ PrefixBitsMatch(p.net.o, a.o, p.len)

\* is_extra_deny_match: a mapped address is tried as IPv4 and as it stands.
ExtraDenyMatch(a, denies) ==
  \E p \in denies : PrefixContains(p, Unmapped(a)) \/ PrefixContains(p, a)

-----------------------------------------------------------------------------
(* The built-in ranges *)

\* The unconditional IPv4 ranges of is_normalized_ssrf_denied
Denied4(o) ==
  \/ o[1] = 169 /\ o[2] = 254
  \/ o = <<0, 0, 0, 0>>
  \/ o[1] \in 224 .. 239
  \/ o[1] >= 240
  \/ o[1] = 192 /\ o[2] = 0 /\ o[3] = 0
  \/ o[1] = 198 /\ o[2] \in {18, 19}

\* The second octet is compared with an open upper end.
BadPrivate4(o) ==
  \/ o[1] \in {127, 10}
  \/ o[1] = 192 /\ o[2] = 168
  \/ o[1] = 172 /\ o[2] \in 16 .. 30
  \/ o[1] = 100 /\ o[2] \in 64 .. 127

\* The IPv4 ranges of is_normalized_loopback_or_private
Private4(o) ==
  \/ o[1] \in {127, 10}
  \/ o[1] = 192 /\ o[2] = 168
  \/ o[1] = 172 /\ o[2] \in 16 .. 31
  \/ o[1] = 100 /\ o[2] \in 64 .. 127

\* is_ipv6_transition_prefix: NAT64, Teredo, 6to4
Nat64(a) == Segment(a, 1) = 100 /\ Segment(a, 2) = 65435 /\ \A i \in 5 .. 12 : a.o[i] = 0
Teredo(a) == Segment(a, 1) = 8193 /\ Segment(a, 2) = 0
SixToFour(a) == Segment(a, 1) = 8194

\* is_normalized_ssrf_denied.  What a transition prefix embeds is not looked at:
\* the prefix alone denies it.
SsrfDenied(a) ==
  LET b == Unmapped(a) IN
    IF b.v = 4
      THEN Denied4(b.o)
      ELSE \/ ZeroTo(b, 12) /\ ~Loopback6(b)
           \/ Nat64(b) \/ Teredo(b) \/ SixToFour(b)
           \/ b.o[1] = 254 /\ b.o[2] \in 128 .. 191

\* is_normalized_loopback_or_private
LoopbackOrPrivate(a) ==
  LET b == Unmapped(a) IN
    IF b.v = 4
      THEN Private4(b.o)
      ELSE \/ Loopback6(b)
           \/ ZeroTo(b, 12) /\ Private4(SubSeq(b.o, 13, 16))
           \/ b.o[1] \in {252, 253}

\* denied_reason_for_ip_with_denies, with Some(reason) as TRUE
DeniedIp(a, allow, denies) ==
  \/ ExtraDenyMatch(a, denies)
  \/ SsrfDenied(a)
  \/ ~allow /\ LoopbackOrPrivate(a)

-----------------------------------------------------------------------------
(***************************************************************************)
(* Hosts: [form |-> "literal", addr, canonical] or [form |-> "name", name] *)
(* with name one of "localhost", "metadata" (the names of is_ssrf_denied_  *)
(* host, with or without the final dot), "other", and "bad" for what the   *)
(* checks of length, controls and URI delimiters refuse.                   *)
(***************************************************************************)
Literal(a, canonical) == [form |-> "literal", addr |-> a, canonical |-> canonical]
Name(n) == [form |-> "name", name |-> n]
Hosts ==
  [form : {"literal"}, addr : Addresses, canonical : BOOLEAN]
    \cup [form : {"name"}, name : {"localhost", "metadata", "other", "bad"}]

\* validate_host_with_policy, with Ok as TRUE
ValidHost(h, allow, denies) ==
  IF h.form = "literal"
    THEN h.canonical /\ ~DeniedIp(h.addr, allow, denies)
    ELSE h.name = "other" \/ (h.name = "localhost" /\ allow)

-----------------------------------------------------------------------------
(* Addresses of a resolver's answer *)

\* resolve_and_validate_host_with_denies: the empty answer stands for failure
Resolved(answer, allow, denies) ==
  answer # <<>> /\ \A i \in DOMAIN answer : ~DeniedIp(answer[i], allow, denies)

\* Vec::dedup: adjacent duplicates go, order stays.
Dedup(answer) ==
  Chosen(answer, {i \in DOMAIN answer : i = 1 \/ answer[i] # answer[i - 1]})

-----------------------------------------------------------------------------
(***************************************************************************)
(* The documented policy, as the blocks the comments list, with membership *)
(* decided bit by bit.                                                     *)
(***************************************************************************)
Bit(o, n) == (o[n \div 8 + 1] \div 2 ^ (7 - (n % 8))) % 2
InBlock(a, block) ==
  a.v = block.net.v /\ \A n \in 0 .. block.len - 1 : Bit(a.o, n) = Bit(block.net.o, n)
Block(net, len) == [net |-> net, len |-> len]
Net6(a, b, c, d) ==
  [v |-> 6, o |-> [i \in 1 .. 16 |-> IF i <= 4 THEN <<a, b, c, d>>[i] ELSE 0]]

ForbiddenBlocks ==
  {Block(V4(169, 254, 0, 0), 16), Block(V4(0, 0, 0, 0), 32), Block(V4(224, 0, 0, 0), 4),
   Block(V4(240, 0, 0, 0), 4), Block(V4(192, 0, 0, 0), 24), Block(V4(198, 18, 0, 0), 15),
   Block(Net6(254, 128, 0, 0), 10), Block(Net6(0, 100, 255, 155), 96),
   Block(Net6(32, 1, 0, 0), 32), Block(Net6(32, 2, 0, 0), 16), Block(Net6(0, 0, 0, 0), 96)}
GatedBlocks ==
  {Block(V4(127, 0, 0, 0), 8), Block(V4(10, 0, 0, 0), 8), Block(V4(172, 16, 0, 0), 12),
   Block(V4(192, 168, 0, 0), 16), Block(V4(100, 64, 0, 0), 10), Block(Net6(252, 0, 0, 0), 7)}

In(a, blocks) == \E b \in blocks : InBlock(Unmapped(a), b)
Documented(a, allow, denies) ==
  \/ \E p \in denies : InBlock(Unmapped(a), p) \/ InBlock(a, p)
  \/ In(a, ForbiddenBlocks) /\ ~Loopback6(a)
  \/ ~allow /\ (In(a, GatedBlocks) \/ Loopback6(a))

\* Both ends of every block, and every address one bit of the prefix away from them
Flip(o, n) == [o EXCEPT ![n \div 8 + 1] =
                 IF Bit(o, n) = 0 THEN @ + 2 ^ (7 - (n % 8)) ELSE @ - 2 ^ (7 - (n % 8))]
LastOf(b) ==
  [i \in DOMAIN b.net.o |->
     IF 8 * i <= b.len THEN b.net.o[i]
     ELSE IF 8 * (i - 1) >= b.len THEN 255
     ELSE LET unit == 2 ^ (8 * i - b.len) IN (b.net.o[i] \div unit) * unit + unit - 1]
Edges(b) ==
  LET ends == {b.net.o, LastOf(b)} IN
    {[v |-> b.net.v, o |-> o] :
       o \in ends \cup {Flip(e, n) : e \in ends, n \in 0 .. b.len - 1}}
AsMapped(a) ==
  IF a.v = 4
    THEN [v |-> 6, o |-> [i \in 1 .. 16 |-> IF i <= 10 THEN 0
                                            ELSE IF i <= 12 THEN 255 ELSE a.o[i - 12]]]
    ELSE a
ProbeDenies == {{}, {Block(V4(203, 0, 112, 0), 20)}, {Block(Net6(32, 1, 13, 184), 45)}}
Probes ==
  LET blocks == ForbiddenBlocks \cup GatedBlocks \cup UNION ProbeDenies
      edges == UNION {Edges(b) : b \in blocks}
  IN  edges \cup {AsMapped(a) : a \in edges} \cup {[Net6(0, 0, 0, 0) EXCEPT !.o[16] = 1]}
=============================================================================
