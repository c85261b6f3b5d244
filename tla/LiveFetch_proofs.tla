-------------------------- MODULE LiveFetch_proofs --------------------------
(***************************************************************************)
(* Proofs about LiveFetch, for every environment, every settings payload,  *)
(* every answer of the resolver and any number of fetch threads: the agent *)
(* cache keeps its cap, the device that gets the credentials is one the    *)
(* captured configuration trusts, and settings without the opt-in change   *)
(* nothing that the environment decides; first, the tests on octets of     *)
(* live_net.rs and the documented blocks, decided bit by bit, are the same *)
(* for every address, every list of prefixes and either value of the       *)
(* opt-in.                                                                 *)
(***************************************************************************)
EXTENDS LiveFetch, Lists_proofs

-----------------------------------------------------------------------------
(* Addresses: bits of an octet *)

LEMMA Powers ==
  /\ 2 ^ 0 = 1 /\ 2 ^ 1 = 2 /\ 2 ^ 2 = 4 /\ 2 ^ 3 = 8 /\ 2 ^ 4 = 16
  /\ 2 ^ 5 = 32 /\ 2 ^ 6 = 64 /\ 2 ^ 7 = 128 /\ 2 ^ 8 = 256
OBVIOUS

\* Octets agree in what is left of them after the low bits are shifted out exactly
\* if they agree in each of the high bits.
LEMMA HighBits ==
  ASSUME NEW x \in Octets, NEW y \in Octets, NEW r \in 0 .. 8
  PROVE  x \div 2 ^ (8 - r) = y \div 2 ^ (8 - r)
           <=> \A k \in 0 .. r - 1 : (x \div 2 ^ (7 - k)) % 2 = (y \div 2 ^ (7 - k)) % 2
<1> DEFINE SameBit(n) == (x \div 2 ^ n) % 2 = (y \div 2 ^ n) % 2
           SameHigh(n) == x \div 2 ^ n = y \div 2 ^ n
<1>1. x \in Int /\ y \in Int /\ 0 <= x /\ x <= 255 /\ 0 <= y /\ y <= 255
  BY DEF Octets
<1>2. SameHigh(8)
  BY <1>1
<1>3. \A n \in 0 .. 7 : SameHigh(7 - n) <=> SameHigh(8 - n) /\ SameBit(7 - n)
  <2>1. SameHigh(7) <=> SameHigh(8) /\ SameBit(7)
    BY <1>1
  <2>2. SameHigh(6) <=> SameHigh(7) /\ SameBit(6)
    BY <1>1
  <2>3. SameHigh(5) <=> SameHigh(6) /\ SameBit(5)
    BY <1>1
  <2>4. SameHigh(4) <=> SameHigh(5) /\ SameBit(4)
    BY <1>1
  <2>5. SameHigh(3) <=> SameHigh(4) /\ SameBit(3)
    BY <1>1
  <2>6. SameHigh(2) <=> SameHigh(3) /\ SameBit(2)
    BY <1>1
  <2>7. SameHigh(1) <=> SameHigh(2) /\ SameBit(1)
    BY <1>1
  <2>8. SameHigh(0) <=> SameHigh(1) /\ SameBit(0)
    BY <1>1
  <2>9. \A n \in 0 .. 7 : n \in {0, 1, 2, 3, 4, 5, 6, 7}
    OBVIOUS
  <2> HIDE DEF SameBit, SameHigh
  <2> QED BY <2>1, <2>2, <2>3, <2>4, <2>5, <2>6, <2>7, <2>8, <2>9
<1> DEFINE Agree == {m \in Nat : m <= 8 =>
                       (SameHigh(8 - m) <=> \A k \in 0 .. m - 1 : SameBit(7 - k))}
<1> SUFFICES r \in Agree
  OBVIOUS
<1> HIDE DEF SameBit, SameHigh
<1>4. 0 \in Agree
  BY <1>2
<1>5. ASSUME NEW m \in Nat, m \in Agree PROVE m + 1 \in Agree
  <2> SUFFICES ASSUME m + 1 <= 8
               PROVE  SameHigh(8 - (m + 1)) <=> \A k \in 0 .. m : SameBit(7 - k)
    OBVIOUS
  <2>1. SameHigh(7 - m) <=> SameHigh(8 - m) /\ SameBit(7 - m)
    BY <1>3
  <2>2. SameHigh(8 - m) <=> \A k \in 0 .. m - 1 : SameBit(7 - k)
    BY <1>5
  <2>3. 8 - (m + 1) = 7 - m /\ \A k \in 0 .. m : k \in 0 .. m - 1 \/ k = m
    OBVIOUS
  <2> QED BY <2>1, <2>2, <2>3
<1> HIDE DEF Agree
<1> QED BY <1>4, <1>5, Induction

-----------------------------------------------------------------------------
(* Prefixes *)

\* Where a bit lies
LEMMA Places ==
  ASSUME NEW k \in Nat
  PROVE  /\ k \div 8 \in Nat /\ k % 8 \in 0 .. 7
         /\ k = 8 * (k \div 8) + (k % 8)
         /\ \A q \in Nat, r \in 0 .. 7 : k = 8 * q + r => q = k \div 8 /\ r = k % 8
OBVIOUS

\* Whole octets and the high bits of the next one are the same as bit after bit.
LEMMA PrefixBits ==
  ASSUME NEW w \in Nat, NEW net \in [1 .. w -> Octets], NEW cand \in [1 .. w -> Octets],
         NEW len \in Nat, len <= 8 * w
  PROVE  PrefixBitsMatch(net, cand, len) <=> \A n \in 0 .. len - 1 : Bit(cand, n) = Bit(net, n)
<1> DEFINE full == len \div 8
           rest == len % 8
           Same(i, k) == (net[i] \div 2 ^ (7 - k)) % 2 = (cand[i] \div 2 ^ (7 - k)) % 2
           High(i, r) == net[i] \div 2 ^ (8 - r) = cand[i] \div 2 ^ (8 - r)
<1>1. full \in Nat /\ rest \in 0 .. 7 /\ len = 8 * full + rest /\ full <= w
      /\ (rest # 0 => full + 1 <= w)
  BY Places
<1>2. \A i \in 1 .. w, r \in 0 .. 8 : High(i, r) <=> \A k \in 0 .. r - 1 : Same(i, k)
  <2>1. \A i \in 1 .. w : net[i] \in Octets /\ cand[i] \in Octets
    OBVIOUS
  <2>2. ASSUME NEW i \in 1 .. w, NEW r \in 0 .. 8
        PROVE  High(i, r) <=> \A k \in 0 .. r - 1 : Same(i, k)
    <3> DEFINE x == net[i]
               y == cand[i]
    <3>1. x \in Octets /\ y \in Octets
      BY <2>1
    <3> HIDE DEF x, y
    <3>2. x \div 2 ^ (8 - r) = y \div 2 ^ (8 - r)
            <=> \A k \in 0 .. r - 1 : (x \div 2 ^ (7 - k)) % 2 = (y \div 2 ^ (7 - k)) % 2
      BY <3>1, HighBits, Zenon
    <3>3. \A k : Same(i, k) <=> (x \div 2 ^ (7 - k)) % 2 = (y \div 2 ^ (7 - k)) % 2
      BY Zenon DEF x, y
    <3>4. High(i, r) <=> x \div 2 ^ (8 - r) = y \div 2 ^ (8 - r)
      BY Zenon DEF x, y
    <3> HIDE DEF Same, High
    <3> QED BY <3>2, <3>3, <3>4, Zenon
  <2> HIDE DEF Same, High
  <2> QED BY <2>2
<1>3. \A i \in 1 .. w : High(i, 8) <=> net[i] = cand[i]
  <2>1. \A x \in Octets : x \div 2 ^ (8 - 8) = x
    BY Powers DEF Octets
  <2> QED BY <2>1
<1>4. \A i \in 1 .. w : net[i] = cand[i] <=> \A k \in 0 .. 7 : Same(i, k)
  <2> HIDE DEF Same, High
  <2>1. 8 \in 0 .. 8 /\ 8 - 1 = 7
    OBVIOUS
  <2> QED BY <1>2, <1>3, <2>1
<1>5. \A n \in Nat : Bit(cand, n) = Bit(net, n) <=> Same(n \div 8 + 1, n % 8)
  BY DEF Bit
<1>6. PrefixBitsMatch(net, cand, len)
        <=> /\ \A i \in 1 .. full : net[i] = cand[i]
            /\ rest # 0 => High(full + 1, rest)
  BY DEF PrefixBitsMatch
<1> HIDE DEF Same, High, full, rest
<1>7. PrefixBitsMatch(net, cand, len)
        <=> /\ \A i \in 1 .. full : \A k \in 0 .. 7 : Same(i, k)
            /\ rest # 0 => \A k \in 0 .. rest - 1 : Same(full + 1, k)
  <2>1. \A i \in 1 .. full : i \in 1 .. w
    BY <1>1
  <2>2. rest # 0 => full + 1 \in 1 .. w /\ rest \in 0 .. 8
    BY <1>1
  <2> QED BY <1>2, <1>4, <1>6, <2>1, <2>2
<1>8. ASSUME PrefixBitsMatch(net, cand, len), NEW n \in 0 .. len - 1
      PROVE  Bit(cand, n) = Bit(net, n)
  <2> DEFINE q == n \div 8
             r == n % 8
  <2>1. n \in Nat /\ n < len /\ len \in Nat
    OBVIOUS
  <2>2. q \in Nat /\ r \in 0 .. 7 /\ n = 8 * q + r
    BY <2>1, Places
  <2>3. Bit(cand, n) = Bit(net, n) <=> Same(q + 1, r)
    BY <1>5, <2>1
  <2> HIDE DEF q, r
  <2>4. q < full \/ (q = full /\ r < rest)
    BY <1>1, <2>1, <2>2
  <2>5. CASE q < full
    <3>1. q + 1 \in 1 .. full
      BY <1>1, <2>2, <2>5
    <3> QED BY <1>7, <1>8, <2>2, <2>3, <3>1
  <2>6. CASE q = full /\ r < rest
    <3>1. r \in 0 .. rest - 1 /\ rest # 0
      BY <1>1, <2>2, <2>6
    <3> QED BY <1>7, <1>8, <2>3, <2>6, <3>1
  <2> QED BY <2>4, <2>5, <2>6
<1>9. ASSUME \A n \in 0 .. len - 1 : Bit(cand, n) = Bit(net, n)
      PROVE  PrefixBitsMatch(net, cand, len)
  <2>1. ASSUME NEW i \in Nat, NEW k \in 0 .. 7, 8 * i + k < len PROVE Same(i + 1, k)
    <3> DEFINE n == 8 * i + k
    <3>1. n \in 0 .. len - 1 /\ n \in Nat
      BY <2>1
    <3>2. i = n \div 8 /\ k = n % 8
      BY <3>1, Places
    <3> HIDE DEF n
    <3>3. Bit(cand, n) = Bit(net, n) <=> Same(i + 1, k)
      BY <1>5, <3>1, <3>2
    <3> QED BY <1>9, <3>1, <3>3
  <2>2. ASSUME NEW i \in 1 .. full, NEW k \in 0 .. 7 PROVE Same(i, k)
    <3>1. i - 1 \in Nat /\ 8 * (i - 1) + k < len /\ i - 1 + 1 = i
      BY <1>1
    <3>2. Same(i - 1 + 1, k)
      BY <2>1, <3>1
    <3> QED BY <3>1, <3>2
  <2>3. ASSUME NEW k \in 0 .. rest - 1 PROVE Same(full + 1, k)
    <3>1. k \in 0 .. 7 /\ full \in Nat /\ 8 * full + k < len
      BY <1>1
    <3> QED BY <2>1, <3>1
  <2> QED BY <1>7, <2>2, <2>3
<1> QED BY <1>8, <1>9

Width(a) == IF a.v = 4 THEN 4 ELSE 16

\* What an address is
LEMMA AddressParts ==
  ASSUME NEW a \in Addresses
  PROVE  /\ a.v \in {4, 6} /\ Width(a) \in {4, 16} /\ Width(a) \in Nat
         /\ a.o \in [1 .. Width(a) -> Octets] /\ a.o \in Seq(Octets) /\ Len(a.o) = Width(a)
<1>1. \/ a.v = 4 /\ a.o \in [1 .. 4 -> Octets]
      \/ a.v = 6 /\ a.o \in [1 .. 16 -> Octets]
  BY DEF Addresses
<1>2. a.v \in {4, 6} /\ Width(a) \in {4, 16} /\ a.o \in [1 .. Width(a) -> Octets]
  BY <1>1 DEF Width
<1> DEFINE w == Width(a)
<1>3. w \in Nat /\ a.o \in [1 .. w -> Octets]
  BY <1>2
<1> HIDE DEF w
<1>4. a.o \in Seq(Octets) /\ Len(a.o) = w
  BY <1>3
<1> QED BY <1>2, <1>3, <1>4 DEF w

\* An address is in a prefix exactly if it is in the block.
LEMMA PrefixIsBlock ==
  ASSUME NEW a \in Addresses, NEW p \in DenyPrefixes
  PROVE  PrefixContains(p, a) <=> InBlock(a, p)
<1>1. p.net \in Addresses /\ p.len \in Nat /\ p.len <= 8 * Len(p.net.o)
  BY DEF DenyPrefixes
<1>2. CASE p.net.v = a.v
  <2> DEFINE w == Width(a)
  <2>1. w \in Nat /\ a.o \in [1 .. w -> Octets] /\ p.net.o \in [1 .. w -> Octets] /\ p.len <= 8 * w
    BY <1>1, <1>2, AddressParts DEF Width
  <2> HIDE DEF w
  <2>2. PrefixBitsMatch(p.net.o, a.o, p.len)
          <=> \A n \in 0 .. p.len - 1 : Bit(a.o, n) = Bit(p.net.o, n)
    BY <1>1, <2>1, PrefixBits
  <2> QED BY <1>2, <2>2 DEF PrefixContains, InBlock
<1>3. CASE p.net.v # a.v
  BY <1>3 DEF PrefixContains, InBlock
<1> QED BY <1>2, <1>3

\* What a mapped address stands for is an address.
LEMMA UnmappedIs ==
  ASSUME NEW a \in Addresses
  PROVE  /\ Unmapped(a) \in Addresses
         /\ Mapped(a) => a.v = 6 /\ Unmapped(a).v = 4 /\ ~Loopback6(a)
         /\ ~Mapped(a) => Unmapped(a) = a
<1>1. CASE Mapped(a)
  <2>0. a.v = 6 /\ a.o[11] = 255 /\ Width(a) = 16
    BY <1>1 DEF Mapped, Width
  <2>1. a.v = 6 /\ a.o \in Seq(Octets) /\ Len(a.o) = 16 /\ a.o[11] = 255
    BY <2>0, AddressParts
  <2> DEFINE s == SubSeq(a.o, 13, 16)
  <2>2. s[1] = a.o[13] /\ s[2] = a.o[14] /\ s[3] = a.o[15] /\ s[4] = a.o[16]
    BY <2>1
  <2>3. a.o[13] \in Octets /\ a.o[14] \in Octets /\ a.o[15] \in Octets /\ a.o[16] \in Octets
    BY <2>1
  <2>4. Unmapped(a) = V4(s[1], s[2], s[3], s[4])
    BY <1>1 DEF Unmapped, From4
  <2> HIDE DEF s
  <2>5. Unmapped(a) = [v |-> 4, o |-> <<a.o[13], a.o[14], a.o[15], a.o[16]>>]
    BY <2>2, <2>4 DEF V4
  <2>6. <<a.o[13], a.o[14], a.o[15], a.o[16]>> \in [1 .. 4 -> Octets]
    BY <2>3
  <2>7. Unmapped(a) \in Addresses /\ Unmapped(a).v = 4
    BY <2>5, <2>6 DEF Addresses
  <2>8. ~Loopback6(a)
    BY <2>1 DEF Loopback6, ZeroTo
  <2> QED BY <1>1, <2>1, <2>7, <2>8
<1>2. CASE ~Mapped(a)
  BY <1>2 DEF Unmapped
<1> QED BY <1>1, <1>2

-----------------------------------------------------------------------------
(* The documented blocks *)

LEMMA V4Is ==
  ASSUME NEW a \in Octets, NEW b \in Octets, NEW c \in Octets, NEW d \in Octets
  PROVE  /\ V4(a, b, c, d) \in Addresses /\ V4(a, b, c, d).v = 4
         /\ V4(a, b, c, d).o[1] = a /\ V4(a, b, c, d).o[2] = b
         /\ V4(a, b, c, d).o[3] = c /\ V4(a, b, c, d).o[4] = d
<1>1. <<a, b, c, d>> \in [1 .. 4 -> Octets]
  OBVIOUS
<1> QED BY <1>1 DEF V4, Addresses

LEMMA Net6Is ==
  ASSUME NEW a \in Octets, NEW b \in Octets, NEW c \in Octets, NEW d \in Octets
  PROVE  /\ Net6(a, b, c, d) \in Addresses /\ Net6(a, b, c, d).v = 6
         /\ Net6(a, b, c, d).o[1] = a /\ Net6(a, b, c, d).o[2] = b
         /\ Net6(a, b, c, d).o[3] = c /\ Net6(a, b, c, d).o[4] = d
         /\ \A i \in 5 .. 16 : Net6(a, b, c, d).o[i] = 0
<1> DEFINE octet(i) == IF i <= 4 THEN <<a, b, c, d>>[i] ELSE 0
<1>1. octet(1) = a /\ octet(2) = b /\ octet(3) = c /\ octet(4) = d
  OBVIOUS
<1>2. \A i \in 5 .. 16 : octet(i) = 0
  OBVIOUS
<1>3. \A i \in 1 .. 16 : i \in {1, 2, 3, 4} \/ i \in 5 .. 16
  OBVIOUS
<1>4. Net6(a, b, c, d) = [v |-> 6, o |-> [i \in 1 .. 16 |-> octet(i)]]
  BY DEF Net6
<1> HIDE DEF octet
<1>5. \A i \in 1 .. 16 : octet(i) \in Octets
  <2>1. 0 \in Octets
    BY DEF Octets
  <2> QED BY <1>1, <1>2, <1>3, <2>1
<1>6. Net6(a, b, c, d) \in Addresses
  BY <1>4, <1>5 DEF Addresses
<1> QED BY <1>1, <1>2, <1>4, <1>6

\* A block by its octets
LEMMA BlockOctets ==
  ASSUME NEW a \in Addresses, NEW net \in Addresses, net.v = a.v,
         NEW len \in Nat, len <= 8 * Width(a)
  PROVE  InBlock(a, Block(net, len))
           <=> /\ \A i \in 1 .. len \div 8 : a.o[i] = net.o[i]
               /\ len % 8 # 0 => a.o[len \div 8 + 1] \div 2 ^ (8 - (len % 8))
                                   = net.o[len \div 8 + 1] \div 2 ^ (8 - (len % 8))
<1> DEFINE p == Block(net, len)
<1>1. p.net = net /\ p.len = len /\ p = [net |-> net, len |-> len]
  BY DEF Block
<1>2. Len(net.o) = Width(a)
  BY AddressParts DEF Width
<1>3. p \in DenyPrefixes
  BY <1>1, <1>2 DEF DenyPrefixes
<1>4. PrefixContains(p, a) <=> InBlock(a, p)
  BY <1>3, PrefixIsBlock
<1>5. PrefixContains(p, a) <=> PrefixBitsMatch(net.o, a.o, len)
  BY <1>1 DEF PrefixContains
<1> HIDE DEF p
<1>6. PrefixBitsMatch(net.o, a.o, len)
        <=> /\ \A i \in 1 .. len \div 8 : a.o[i] = net.o[i]
            /\ len % 8 # 0 => a.o[len \div 8 + 1] \div 2 ^ (8 - (len % 8))
                                = net.o[len \div 8 + 1] \div 2 ^ (8 - (len % 8))
  BY Zenon DEF PrefixBitsMatch
<1> QED BY <1>4, <1>5, <1>6, Zenon DEF p

\* A length is f octets and r more bits, u what the other bits of an octet can hold.
SplitAs(len, f, r, u) ==
  f \in Nat /\ r \in 0 .. 7 /\ len = 8 * f + r /\ u = 2 ^ (8 - r)
Agree(a, net, f, r, u) ==
  /\ \A i \in 1 .. f : a.o[i] = net.o[i]
  /\ r # 0 => a.o[f + 1] \div u = net.o[f + 1] \div u

LEMMA BlockAt ==
  ASSUME NEW a \in Addresses, NEW net \in Addresses, net.v = a.v,
         NEW len, NEW f, NEW r, NEW u, SplitAs(len, f, r, u), len <= 8 * Width(a)
  PROVE  InBlock(a, Block(net, len)) <=> Agree(a, net, f, r, u)
<1>1. len \in Nat /\ len \div 8 = f /\ len % 8 = r
  BY Places DEF SplitAs
<1> QED BY <1>1, BlockOctets DEF SplitAs, Agree

\* The lengths of the documented blocks
LEMMA Lengths ==
  /\ SplitAs(4, 0, 4, 16) /\ SplitAs(7, 0, 7, 2) /\ SplitAs(8, 1, 0, 256)
  /\ SplitAs(10, 1, 2, 64) /\ SplitAs(12, 1, 4, 16) /\ SplitAs(15, 1, 7, 2)
  /\ SplitAs(16, 2, 0, 256) /\ SplitAs(24, 3, 0, 256) /\ SplitAs(32, 4, 0, 256)
  /\ SplitAs(96, 12, 0, 256)
BY Powers DEF SplitAs

LEMMA BlockLengths ==
  ASSUME NEW a \in Addresses, NEW net \in Addresses, net.v = a.v
  PROVE  /\ InBlock(a, Block(net, 4)) <=> Agree(a, net, 0, 4, 16)
         /\ InBlock(a, Block(net, 7)) <=> Agree(a, net, 0, 7, 2)
         /\ InBlock(a, Block(net, 8)) <=> Agree(a, net, 1, 0, 256)
         /\ InBlock(a, Block(net, 10)) <=> Agree(a, net, 1, 2, 64)
         /\ InBlock(a, Block(net, 12)) <=> Agree(a, net, 1, 4, 16)
         /\ InBlock(a, Block(net, 15)) <=> Agree(a, net, 1, 7, 2)
         /\ InBlock(a, Block(net, 16)) <=> Agree(a, net, 2, 0, 256)
         /\ InBlock(a, Block(net, 24)) <=> Agree(a, net, 3, 0, 256)
         /\ InBlock(a, Block(net, 32)) <=> Agree(a, net, 4, 0, 256)
         /\ a.v = 6 => (InBlock(a, Block(net, 96)) <=> Agree(a, net, 12, 0, 256))
<1>1. Width(a) \in {4, 16} /\ (a.v = 6 => Width(a) = 16)
  BY AddressParts DEF Width
<1>2. \A len \in 0 .. 32 : len <= 8 * Width(a)
  BY <1>1
<1>3. a.v = 6 => 96 <= 8 * Width(a)
  BY <1>1
<1>4. \A len, f, r, u : SplitAs(len, f, r, u) /\ len <= 8 * Width(a)
        => (InBlock(a, Block(net, len)) <=> Agree(a, net, f, r, u))
  BY BlockAt
<1> QED BY <1>2, <1>3, <1>4, Lengths

\* The IPv4 blocks that are always refused are the octets is_normalized_ssrf_denied tests.
LEMMA Forbidden4 ==
  ASSUME NEW a \in Addresses, a.v = 4
  PROVE  (\E b \in ForbiddenBlocks : InBlock(a, b)) <=> Denied4(a.o)
<1> DEFINE o == a.o
<1>1. o \in [1 .. 4 -> Octets] /\ o[1] \in 0 .. 255 /\ o[2] \in 0 .. 255
  <2>1. Width(a) = 4
    BY DEF Width
  <2>2. o \in [1 .. 4 -> Octets]
    BY <2>1, AddressParts
  <2> QED BY <2>2 DEF Octets
<1>2. /\ 0 \in Octets /\ 169 \in Octets /\ 254 \in Octets /\ 224 \in Octets
      /\ 240 \in Octets /\ 192 \in Octets /\ 198 \in Octets /\ 18 \in Octets
  BY DEF Octets
<1>3. InBlock(a, Block(V4(169, 254, 0, 0), 16)) <=> o[1] = 169 /\ o[2] = 254
  <2>1. V4(169, 254, 0, 0) \in Addresses /\ V4(169, 254, 0, 0).v = 4
        /\ V4(169, 254, 0, 0).o[1] = 169 /\ V4(169, 254, 0, 0).o[2] = 254
    BY <1>2, V4Is
  <2>2. InBlock(a, Block(V4(169, 254, 0, 0), 16)) <=> Agree(a, V4(169, 254, 0, 0), 2, 0, 256)
    BY <2>1, BlockLengths
  <2> QED BY <2>1, <2>2 DEF Agree
<1>4. InBlock(a, Block(V4(0, 0, 0, 0), 32)) <=> o = <<0, 0, 0, 0>>
  <2> DEFINE net == V4(0, 0, 0, 0)
  <2>1. net \in Addresses /\ net.v = 4
        /\ net.o[1] = 0 /\ net.o[2] = 0 /\ net.o[3] = 0 /\ net.o[4] = 0
    BY <1>2, V4Is
  <2> HIDE DEF net
  <2>2. InBlock(a, Block(net, 32)) <=> Agree(a, net, 4, 0, 256)
    BY <2>1, BlockLengths
  <2>3. Agree(a, net, 4, 0, 256) <=> o[1] = 0 /\ o[2] = 0 /\ o[3] = 0 /\ o[4] = 0
    BY <2>1 DEF Agree
  <2>4. o = <<0, 0, 0, 0>> <=> o[1] = 0 /\ o[2] = 0 /\ o[3] = 0 /\ o[4] = 0
    BY <1>1
  <2> QED BY <2>2, <2>3, <2>4 DEF net
<1>5. InBlock(a, Block(V4(224, 0, 0, 0), 4)) <=> o[1] \in 224 .. 239
  <2>1. V4(224, 0, 0, 0) \in Addresses /\ V4(224, 0, 0, 0).v = 4 /\ V4(224, 0, 0, 0).o[1] = 224
    BY <1>2, V4Is
  <2>2. InBlock(a, Block(V4(224, 0, 0, 0), 4)) <=> Agree(a, V4(224, 0, 0, 0), 0, 4, 16)
    BY <2>1, BlockLengths
  <2> QED BY <1>1, <2>1, <2>2 DEF Agree
<1>6. InBlock(a, Block(V4(240, 0, 0, 0), 4)) <=> o[1] >= 240
  <2>1. V4(240, 0, 0, 0) \in Addresses /\ V4(240, 0, 0, 0).v = 4 /\ V4(240, 0, 0, 0).o[1] = 240
    BY <1>2, V4Is
  <2>2. InBlock(a, Block(V4(240, 0, 0, 0), 4)) <=> Agree(a, V4(240, 0, 0, 0), 0, 4, 16)
    BY <2>1, BlockLengths
  <2> QED BY <1>1, <2>1, <2>2 DEF Agree
<1>7. InBlock(a, Block(V4(192, 0, 0, 0), 24)) <=> o[1] = 192 /\ o[2] = 0 /\ o[3] = 0
  <2>1. V4(192, 0, 0, 0) \in Addresses /\ V4(192, 0, 0, 0).v = 4
        /\ V4(192, 0, 0, 0).o[1] = 192 /\ V4(192, 0, 0, 0).o[2] = 0 /\ V4(192, 0, 0, 0).o[3] = 0
    BY <1>2, V4Is
  <2>2. InBlock(a, Block(V4(192, 0, 0, 0), 24)) <=> Agree(a, V4(192, 0, 0, 0), 3, 0, 256)
    BY <2>1, BlockLengths
  <2> QED BY <2>1, <2>2 DEF Agree
<1>8. InBlock(a, Block(V4(198, 18, 0, 0), 15)) <=> o[1] = 198 /\ o[2] \in {18, 19}
  <2>1. V4(198, 18, 0, 0) \in Addresses /\ V4(198, 18, 0, 0).v = 4
        /\ V4(198, 18, 0, 0).o[1] = 198 /\ V4(198, 18, 0, 0).o[2] = 18
    BY <1>2, V4Is
  <2>2. InBlock(a, Block(V4(198, 18, 0, 0), 15)) <=> Agree(a, V4(198, 18, 0, 0), 1, 7, 2)
    BY <2>1, BlockLengths
  <2> QED BY <1>1, <2>1, <2>2 DEF Agree
<1>9. \A b \in {Block(Net6(254, 128, 0, 0), 10), Block(Net6(0, 100, 255, 155), 96),
                Block(Net6(32, 1, 0, 0), 32), Block(Net6(32, 2, 0, 0), 16),
                Block(Net6(0, 0, 0, 0), 96)} : ~InBlock(a, b)
  <2>1. \A b, c, d, e, n : Block(Net6(b, c, d, e), n).net.v = 6
    BY DEF Block, Net6
  <2> QED BY <2>1 DEF InBlock
<1>10. Denied4(o) <=> \/ o[1] = 169 /\ o[2] = 254
                      \/ o = <<0, 0, 0, 0>>
                      \/ o[1] \in 224 .. 239
                      \/ o[1] >= 240
                      \/ o[1] = 192 /\ o[2] = 0 /\ o[3] = 0
                      \/ o[1] = 198 /\ o[2] \in {18, 19}
  BY DEF Denied4
<1> HIDE DEF o
<1>11. (\E b \in ForbiddenBlocks : InBlock(a, b)) <=> Denied4(o)
  BY <1>3, <1>4, <1>5, <1>6, <1>7, <1>8, <1>9, <1>10 DEF ForbiddenBlocks
<1> QED BY <1>11 DEF o

\* The IPv4 blocks behind the opt-in are the octets is_normalized_loopback_or_private tests.
LEMMA Gated4 ==
  ASSUME NEW a \in Addresses, a.v = 4
  PROVE  (\E b \in GatedBlocks : InBlock(a, b)) <=> Private4(a.o)
<1> DEFINE o == a.o
<1>1. o \in [1 .. 4 -> Octets] /\ o[1] \in 0 .. 255 /\ o[2] \in 0 .. 255
  <2>1. Width(a) = 4
    BY DEF Width
  <2>2. o \in [1 .. 4 -> Octets]
    BY <2>1, AddressParts
  <2> QED BY <2>2 DEF Octets
<1>2. /\ 0 \in Octets /\ 127 \in Octets /\ 10 \in Octets /\ 172 \in Octets
      /\ 16 \in Octets /\ 192 \in Octets /\ 168 \in Octets /\ 100 \in Octets /\ 64 \in Octets
  BY DEF Octets
<1>3. InBlock(a, Block(V4(127, 0, 0, 0), 8)) <=> o[1] = 127
  <2>1. V4(127, 0, 0, 0) \in Addresses /\ V4(127, 0, 0, 0).v = 4
        /\ V4(127, 0, 0, 0).o[1] = 127
    BY <1>2, V4Is
  <2>2. InBlock(a, Block(V4(127, 0, 0, 0), 8)) <=> Agree(a, V4(127, 0, 0, 0), 1, 0, 256)
    BY <2>1, BlockLengths
  <2> QED BY <2>1, <2>2 DEF Agree
<1>4. InBlock(a, Block(V4(10, 0, 0, 0), 8)) <=> o[1] = 10
  <2>1. V4(10, 0, 0, 0) \in Addresses /\ V4(10, 0, 0, 0).v = 4
        /\ V4(10, 0, 0, 0).o[1] = 10
    BY <1>2, V4Is
  <2>2. InBlock(a, Block(V4(10, 0, 0, 0), 8)) <=> Agree(a, V4(10, 0, 0, 0), 1, 0, 256)
    BY <2>1, BlockLengths
  <2> QED BY <2>1, <2>2 DEF Agree
<1>5. InBlock(a, Block(V4(172, 16, 0, 0), 12)) <=> o[1] = 172 /\ o[2] \in 16 .. 31
  <2>1. V4(172, 16, 0, 0) \in Addresses /\ V4(172, 16, 0, 0).v = 4
        /\ V4(172, 16, 0, 0).o[1] = 172 /\ V4(172, 16, 0, 0).o[2] = 16
    BY <1>2, V4Is
  <2>2. InBlock(a, Block(V4(172, 16, 0, 0), 12)) <=> Agree(a, V4(172, 16, 0, 0), 1, 4, 16)
    BY <2>1, BlockLengths
  <2> QED BY <1>1, <2>1, <2>2 DEF Agree
<1>6. InBlock(a, Block(V4(192, 168, 0, 0), 16)) <=> o[1] = 192 /\ o[2] = 168
  <2>1. V4(192, 168, 0, 0) \in Addresses /\ V4(192, 168, 0, 0).v = 4
        /\ V4(192, 168, 0, 0).o[1] = 192 /\ V4(192, 168, 0, 0).o[2] = 168
    BY <1>2, V4Is
  <2>2. InBlock(a, Block(V4(192, 168, 0, 0), 16)) <=> Agree(a, V4(192, 168, 0, 0), 2, 0, 256)
    BY <2>1, BlockLengths
  <2> QED BY <2>1, <2>2 DEF Agree
<1>7. InBlock(a, Block(V4(100, 64, 0, 0), 10)) <=> o[1] = 100 /\ o[2] \in 64 .. 127
  <2>1. V4(100, 64, 0, 0) \in Addresses /\ V4(100, 64, 0, 0).v = 4
        /\ V4(100, 64, 0, 0).o[1] = 100 /\ V4(100, 64, 0, 0).o[2] = 64
    BY <1>2, V4Is
  <2>2. InBlock(a, Block(V4(100, 64, 0, 0), 10)) <=> Agree(a, V4(100, 64, 0, 0), 1, 2, 64)
    BY <2>1, BlockLengths
  <2> QED BY <1>1, <2>1, <2>2 DEF Agree
<1>8. ~InBlock(a, Block(Net6(252, 0, 0, 0), 7))
  <2>1. \A b, c, d, e, n : Block(Net6(b, c, d, e), n).net.v = 6
    BY DEF Block, Net6
  <2> QED BY <2>1 DEF InBlock
<1>9. Private4(o) <=> \/ o[1] \in {127, 10}
                      \/ o[1] = 192 /\ o[2] = 168
                      \/ o[1] = 172 /\ o[2] \in 16 .. 31
                      \/ o[1] = 100 /\ o[2] \in 64 .. 127
  BY DEF Private4
<1> HIDE DEF o
<1>10. (\E b \in GatedBlocks : InBlock(a, b)) <=> Private4(o)
  BY <1>3, <1>4, <1>5, <1>6, <1>7, <1>8, <1>9 DEF GatedBlocks
<1> QED BY <1>10 DEF o

\* A segment of an address is two of its octets.
LEMMA TwoOctets ==
  ASSUME NEW x \in 0 .. 255, NEW y \in 0 .. 255
  PROVE  /\ 256 * x + y = 0 <=> x = 0 /\ y = 0
         /\ 256 * x + y = 100 <=> x = 0 /\ y = 100
         /\ 256 * x + y = 8193 <=> x = 32 /\ y = 1
         /\ 256 * x + y = 8194 <=> x = 32 /\ y = 2
         /\ 256 * x + y = 65435 <=> x = 255 /\ y = 155
OBVIOUS

LEMMA Segments ==
  ASSUME NEW a \in Addresses, a.v = 6
  PROVE  /\ Segment(a, 1) = 100 <=> a.o[1] = 0 /\ a.o[2] = 100
         /\ Segment(a, 1) = 8193 <=> a.o[1] = 32 /\ a.o[2] = 1
         /\ Segment(a, 1) = 8194 <=> a.o[1] = 32 /\ a.o[2] = 2
         /\ Segment(a, 2) = 0 <=> a.o[3] = 0 /\ a.o[4] = 0
         /\ Segment(a, 2) = 65435 <=> a.o[3] = 255 /\ a.o[4] = 155
<1> DEFINE w == a.o[1]
           x == a.o[2]
           y == a.o[3]
           z == a.o[4]
<1>1. w \in 0 .. 255 /\ x \in 0 .. 255 /\ y \in 0 .. 255 /\ z \in 0 .. 255
  <2>1. Width(a) = 16
    BY DEF Width
  <2>2. a.o \in [1 .. 16 -> Octets]
    BY <2>1, AddressParts
  <2> DEFINE o == a.o
  <2> HIDE DEF o
  <2>3. \A i \in 1 .. 16 : o[i] \in Octets
    BY <2>2 DEF o
  <2>4. \A i \in 1 .. 16 : o[i] \in 0 .. 255
    BY <2>3 DEF Octets
  <2>5. o[1] \in 0 .. 255 /\ o[2] \in 0 .. 255 /\ o[3] \in 0 .. 255 /\ o[4] \in 0 .. 255
    BY <2>4
  <2> QED BY <2>5, Zenon DEF o, w, x, y, z
<1>2. Segment(a, 1) = 256 * w + x /\ Segment(a, 2) = 256 * y + z
  BY DEF Segment
<1> HIDE DEF w, x, y, z
<1>3. /\ Segment(a, 1) = 100 <=> w = 0 /\ x = 100
      /\ Segment(a, 1) = 8193 <=> w = 32 /\ x = 1
      /\ Segment(a, 1) = 8194 <=> w = 32 /\ x = 2
  BY <1>1, <1>2, TwoOctets
<1>4. /\ Segment(a, 2) = 0 <=> y = 0 /\ z = 0
      /\ Segment(a, 2) = 65435 <=> y = 255 /\ z = 155
  BY <1>1, <1>2, TwoOctets
<1> QED BY <1>3, <1>4 DEF w, x, y, z

\* The IPv6 blocks that are always refused, the loopback address apart
LEMMA Forbidden6 ==
  ASSUME NEW a \in Addresses, a.v = 6
  PROVE  (\E b \in ForbiddenBlocks : InBlock(a, b)) /\ ~Loopback6(a)
           <=> \/ ZeroTo(a, 12) /\ ~Loopback6(a)
               \/ Nat64(a) \/ Teredo(a) \/ SixToFour(a)
               \/ a.o[1] = 254 /\ a.o[2] \in 128 .. 191
<1> DEFINE o == a.o
<1>1. /\ o \in [1 .. 16 -> Octets]
      /\ o[1] \in 0 .. 255 /\ o[2] \in 0 .. 255 /\ o[3] \in 0 .. 255 /\ o[4] \in 0 .. 255
  <2>1. Width(a) = 16
    BY DEF Width
  <2>2. o \in [1 .. 16 -> Octets]
    BY <2>1, AddressParts
  <2> HIDE DEF o
  <2>3. \A i \in 1 .. 16 : o[i] \in Octets
    BY <2>2
  <2>4. \A i \in 1 .. 16 : o[i] \in 0 .. 255
    BY <2>3 DEF Octets
  <2> QED BY <2>2, <2>4
<1>2. /\ 0 \in Octets /\ 254 \in Octets /\ 128 \in Octets /\ 100 \in Octets
      /\ 255 \in Octets /\ 155 \in Octets /\ 32 \in Octets /\ 1 \in Octets /\ 2 \in Octets
  BY DEF Octets
<1>3. InBlock(a, Block(Net6(254, 128, 0, 0), 10)) <=> o[1] = 254 /\ o[2] \in 128 .. 191
  <2>1. Net6(254, 128, 0, 0) \in Addresses /\ Net6(254, 128, 0, 0).v = 6
        /\ Net6(254, 128, 0, 0).o[1] = 254 /\ Net6(254, 128, 0, 0).o[2] = 128
    <3>1. 0 \in Octets /\ 254 \in Octets /\ 128 \in Octets
      BY <1>2
    <3> QED BY <3>1, Net6Is
  <2>2. InBlock(a, Block(Net6(254, 128, 0, 0), 10)) <=> Agree(a, Net6(254, 128, 0, 0), 1, 2, 64)
    BY <2>1, BlockLengths
  <2> QED BY <1>1, <2>1, <2>2 DEF Agree
<1>4. InBlock(a, Block(Net6(0, 100, 255, 155), 96)) <=> Nat64(a)
  <2> DEFINE net == Net6(0, 100, 255, 155)
  <2>1. net \in Addresses /\ net.v = 6
        /\ net.o[1] = 0 /\ net.o[2] = 100 /\ net.o[3] = 255 /\ net.o[4] = 155
        /\ \A i \in 5 .. 16 : net.o[i] = 0
    <3>1. 0 \in Octets /\ 100 \in Octets /\ 255 \in Octets /\ 155 \in Octets
      BY <1>2
    <3> QED BY <3>1, Net6Is
  <2> HIDE DEF net
  <2>2. InBlock(a, Block(net, 96)) <=> Agree(a, net, 12, 0, 256)
    BY <2>1, BlockLengths
  <2>3. Agree(a, net, 12, 0, 256) <=> \A i \in 1 .. 12 : o[i] = net.o[i]
    BY DEF Agree
  <2>4. (\A i \in 1 .. 12 : o[i] = net.o[i])
          <=> o[1] = 0 /\ o[2] = 100 /\ o[3] = 255 /\ o[4] = 155 /\ \A i \in 5 .. 12 : o[i] = 0
    BY <2>1
  <2>5. /\ Segment(a, 1) = 100 <=> o[1] = 0 /\ o[2] = 100
        /\ Segment(a, 2) = 65435 <=> o[3] = 255 /\ o[4] = 155
    BY Segments
  <2> QED BY <2>2, <2>3, <2>4, <2>5 DEF Nat64, net
<1>5. InBlock(a, Block(Net6(32, 1, 0, 0), 32)) <=> Teredo(a)
  <2> DEFINE net == Net6(32, 1, 0, 0)
  <2>1. net \in Addresses /\ net.v = 6
        /\ net.o[1] = 32 /\ net.o[2] = 1 /\ net.o[3] = 0 /\ net.o[4] = 0
    <3>1. 0 \in Octets /\ 32 \in Octets /\ 1 \in Octets
      BY <1>2
    <3> QED BY <3>1, Net6Is
  <2> HIDE DEF net
  <2>2. InBlock(a, Block(net, 32)) <=> Agree(a, net, 4, 0, 256)
    BY <2>1, BlockLengths
  <2>3. Agree(a, net, 4, 0, 256) <=> o[1] = 32 /\ o[2] = 1 /\ o[3] = 0 /\ o[4] = 0
    BY <2>1 DEF Agree
  <2>4. /\ Segment(a, 1) = 8193 <=> o[1] = 32 /\ o[2] = 1
        /\ Segment(a, 2) = 0 <=> o[3] = 0 /\ o[4] = 0
    BY Segments
  <2> QED BY <2>2, <2>3, <2>4 DEF Teredo, net
<1>6. InBlock(a, Block(Net6(32, 2, 0, 0), 16)) <=> SixToFour(a)
  <2> DEFINE net == Net6(32, 2, 0, 0)
  <2>1. net \in Addresses /\ net.v = 6 /\ net.o[1] = 32 /\ net.o[2] = 2
    <3>1. 0 \in Octets /\ 32 \in Octets /\ 2 \in Octets
      BY <1>2
    <3> QED BY <3>1, Net6Is
  <2> HIDE DEF net
  <2>2. InBlock(a, Block(net, 16)) <=> Agree(a, net, 2, 0, 256)
    BY <2>1, BlockLengths
  <2>3. Agree(a, net, 2, 0, 256) <=> o[1] = 32 /\ o[2] = 2
    BY <2>1 DEF Agree
  <2>4. Segment(a, 1) = 8194 <=> o[1] = 32 /\ o[2] = 2
    BY Segments
  <2> QED BY <2>2, <2>3, <2>4 DEF SixToFour, net
<1>7. InBlock(a, Block(Net6(0, 0, 0, 0), 96)) <=> ZeroTo(a, 12)
  <2> DEFINE net == Net6(0, 0, 0, 0)
  <2>1. net \in Addresses /\ net.v = 6
        /\ net.o[1] = 0 /\ net.o[2] = 0 /\ net.o[3] = 0 /\ net.o[4] = 0
        /\ \A i \in 5 .. 16 : net.o[i] = 0
    <3>1. 0 \in Octets
      BY <1>2
    <3> QED BY <3>1, Net6Is
  <2> HIDE DEF net
  <2>2. InBlock(a, Block(net, 96)) <=> Agree(a, net, 12, 0, 256)
    BY <2>1, BlockLengths
  <2>3. Agree(a, net, 12, 0, 256) <=> \A i \in 1 .. 12 : o[i] = net.o[i]
    BY DEF Agree
  <2>4. \A i \in 1 .. 12 : net.o[i] = 0
    BY <2>1
  <2> QED BY <2>2, <2>3, <2>4 DEF ZeroTo, net
<1>8. \A b \in {Block(V4(169, 254, 0, 0), 16), Block(V4(0, 0, 0, 0), 32),
                Block(V4(224, 0, 0, 0), 4), Block(V4(240, 0, 0, 0), 4),
                Block(V4(192, 0, 0, 0), 24), Block(V4(198, 18, 0, 0), 15)} : ~InBlock(a, b)
  <2>1. \A b, c, d, e, n : Block(V4(b, c, d, e), n).net.v = 4
    BY DEF Block, V4
  <2> QED BY <2>1 DEF InBlock
<1>9. Loopback6(a) => ~Nat64(a) /\ ~Teredo(a) /\ ~SixToFour(a) /\ o[1] = 0
  <2>1. Loopback6(a) => o[1] = 0 /\ o[2] = 0
    BY DEF Loopback6, ZeroTo
  <2>2. o[1] = 0 /\ o[2] = 0 => Segment(a, 1) = 0
    BY DEF Segment
  <2> QED BY <2>1, <2>2 DEF Nat64, Teredo, SixToFour
<1>10. (\E b \in ForbiddenBlocks : InBlock(a, b))
         <=> \/ ZeroTo(a, 12) \/ Nat64(a) \/ Teredo(a) \/ SixToFour(a)
             \/ o[1] = 254 /\ o[2] \in 128 .. 191
  <2> HIDE DEF o
  <2> QED BY <1>3, <1>4, <1>5, <1>6, <1>7, <1>8 DEF ForbiddenBlocks
<1> QED BY <1>9, <1>10

LEMMA Gated6 ==
  ASSUME NEW a \in Addresses, a.v = 6
  PROVE  (\E b \in GatedBlocks : InBlock(a, b)) <=> a.o[1] \in {252, 253}
<1> DEFINE o == a.o
<1>1. o[1] \in 0 .. 255
  <2>1. Width(a) = 16
    BY DEF Width
  <2>2. o \in [1 .. 16 -> Octets]
    BY <2>1, AddressParts
  <2> QED BY <2>2 DEF Octets
<1>2. 252 \in Octets /\ 0 \in Octets
  BY DEF Octets
<1>3. InBlock(a, Block(Net6(252, 0, 0, 0), 7)) <=> o[1] \in {252, 253}
  <2>1. Net6(252, 0, 0, 0) \in Addresses /\ Net6(252, 0, 0, 0).v = 6
        /\ Net6(252, 0, 0, 0).o[1] = 252
    BY <1>2, Net6Is
  <2>2. InBlock(a, Block(Net6(252, 0, 0, 0), 7)) <=> Agree(a, Net6(252, 0, 0, 0), 0, 7, 2)
    BY <2>1, BlockLengths
  <2> QED BY <1>1, <2>1, <2>2 DEF Agree
<1>4. \A b \in {Block(V4(127, 0, 0, 0), 8), Block(V4(10, 0, 0, 0), 8), Block(V4(172, 16, 0, 0), 12),
                Block(V4(192, 168, 0, 0), 16), Block(V4(100, 64, 0, 0), 10)} : ~InBlock(a, b)
  <2>1. \A b, c, d, e, n : Block(V4(b, c, d, e), n).net.v = 4
    BY DEF Block, V4
  <2> QED BY <2>1 DEF InBlock
<1> HIDE DEF o
<1>5. (\E b \in GatedBlocks : InBlock(a, b)) <=> o[1] \in {252, 253}
  BY <1>3, <1>4 DEF GatedBlocks
<1> QED BY <1>5 DEF o

-----------------------------------------------------------------------------
\* denied_reason_for_ip_with_denies refuses an address, an IPv4 address written as
\* IPv6 included, exactly if a block that the comments of live_net.rs list, or one
\* of the operator's prefixes, holds it.
THEOREM DeniedAsDocumented ==
  ASSUME NEW a \in Addresses, NEW allow \in BOOLEAN, NEW denies \in SUBSET DenyPrefixes
  PROVE  DeniedIp(a, allow, denies) <=> Documented(a, allow, denies)
<1> DEFINE b == Unmapped(a)
           Extra == \E p \in denies : InBlock(b, p) \/ InBlock(a, p)
           Forbidden == \E p \in ForbiddenBlocks : InBlock(b, p)
           Gated == \E p \in GatedBlocks : InBlock(b, p)
<1>1. b \in Addresses /\ b.v \in {4, 6}
  BY UnmappedIs, AddressParts
<1>2. ExtraDenyMatch(a, denies) <=> Extra
  <2>1. \A p \in denies : (PrefixContains(p, b) <=> InBlock(b, p))
                          /\ (PrefixContains(p, a) <=> InBlock(a, p))
    BY <1>1, PrefixIsBlock
  <2> QED BY <2>1 DEF ExtraDenyMatch
<1>3. DeniedIp(a, allow, denies)
        <=> Extra \/ SsrfDenied(a) \/ (~allow /\ LoopbackOrPrivate(a))
  BY <1>2 DEF DeniedIp
<1>4. Documented(a, allow, denies)
        <=> Extra \/ (Forbidden /\ ~Loopback6(a)) \/ (~allow /\ (Gated \/ Loopback6(a)))
  BY DEF Documented, In
<1>5. CASE b.v = 4
  <2>1. ~Loopback6(a)
    <3>1. Mapped(a) \/ a.v = 4
      BY <1>5, UnmappedIs
    <3>2. a.v = 4 => ~Loopback6(a)
      BY DEF Loopback6
    <3> QED BY <3>1, <3>2, UnmappedIs
  <2>2. SsrfDenied(a) <=> Denied4(b.o)
    BY <1>5 DEF SsrfDenied
  <2>3. LoopbackOrPrivate(a) <=> Private4(b.o)
    BY <1>5 DEF LoopbackOrPrivate
  <2>4. Forbidden <=> Denied4(b.o)
    BY <1>1, <1>5, Forbidden4
  <2>5. Gated <=> Private4(b.o)
    BY <1>1, <1>5, Gated4
  <2> HIDE DEF b, Extra, Forbidden, Gated
  <2> QED BY <1>3, <1>4, <2>1, <2>2, <2>3, <2>4, <2>5
<1>6. CASE b.v = 6
  <2>1. b = a
    BY <1>6, UnmappedIs
  <2>2. SsrfDenied(a) <=> \/ ZeroTo(b, 12) /\ ~Loopback6(b)
                          \/ Nat64(b) \/ Teredo(b) \/ SixToFour(b)
                          \/ b.o[1] = 254 /\ b.o[2] \in 128 .. 191
    BY <1>6 DEF SsrfDenied
  <2>3. LoopbackOrPrivate(a) <=> \/ Loopback6(b)
                                 \/ ZeroTo(b, 12) /\ Private4(SubSeq(b.o, 13, 16))
                                 \/ b.o[1] \in {252, 253}
    BY <1>6 DEF LoopbackOrPrivate
  <2>4. Forbidden /\ ~Loopback6(b) <=> SsrfDenied(a)
    BY <1>1, <1>6, <2>2, Forbidden6
  <2>5. Gated <=> b.o[1] \in {252, 253}
    BY <1>1, <1>6, Gated6
  <2>6. ZeroTo(b, 12) => Loopback6(b) \/ SsrfDenied(a)
    BY <2>2
  <2> HIDE DEF b, Extra, Forbidden, Gated
  <2> QED BY <1>3, <1>4, <2>1, <2>3, <2>4, <2>5, <2>6
<1> QED BY <1>1, <1>5, <1>6

-----------------------------------------------------------------------------
(* What the runs probe are addresses. *)

\* Flipping a bit, and setting the low bits, gives an octet.
LEMMA OctetKept ==
  ASSUME NEW x \in Octets, NEW r \in 0 .. 7
  PROVE  /\ (x \div 2 ^ (7 - r)) % 2 = 0 => x + 2 ^ (7 - r) \in Octets
         /\ (x \div 2 ^ (7 - r)) % 2 # 0 => x - 2 ^ (7 - r) \in Octets
         /\ (x \div 2 ^ (7 - r)) * 2 ^ (7 - r) + 2 ^ (7 - r) - 1 \in Octets
<1> DEFINE Kept(n) == /\ (x \div 2 ^ n) % 2 = 0 => x + 2 ^ n \in Octets
                      /\ (x \div 2 ^ n) % 2 # 0 => x - 2 ^ n \in Octets
                      /\ (x \div 2 ^ n) * 2 ^ n + 2 ^ n - 1 \in Octets
<1>1. x \in 0 .. 255 /\ Octets = 0 .. 255
  BY DEF Octets
<1>2. Kept(0) /\ Kept(1)
  BY <1>1, Powers
<1>3. Kept(2) /\ Kept(3)
  BY <1>1, Powers
<1>4. Kept(4) /\ Kept(5)
  BY <1>1, Powers
<1>5. Kept(6) /\ Kept(7)
  BY <1>1, Powers
<1> HIDE DEF Kept
<1>6. 7 - r \in {0, 1, 2, 3, 4, 5, 6, 7}
  OBVIOUS
<1>7. Kept(7 - r)
  BY <1>2, <1>3, <1>4, <1>5, <1>6
<1> QED BY <1>7 DEF Kept

LEMMA FlipKept ==
  ASSUME NEW w \in Nat, NEW o \in [1 .. w -> Octets], NEW n \in Nat, n < 8 * w
  PROVE  Flip(o, n) \in [1 .. w -> Octets]
<1> DEFINE i == n \div 8 + 1
           r == n % 8
           x == o[i]
           u == 2 ^ (7 - r)
           y == IF (x \div u) % 2 = 0 THEN x + u ELSE x - u
<1>1. i \in 1 .. w /\ r \in 0 .. 7
  BY Places
<1>2. Flip(o, n) = [o EXCEPT ![i] = y]
  BY DEF Flip, Bit
<1>3. x \in Octets
  BY <1>1
<1> HIDE DEF i, r, x
<1>4. y \in Octets
  BY <1>1, <1>3, OctetKept
<1> HIDE DEF y
<1> QED BY <1>1, <1>2, <1>4

LEMMA LastKept ==
  ASSUME NEW p \in DenyPrefixes
  PROVE  LastOf(p) \in [1 .. Width(p.net) -> Octets]
<1> DEFINE w == Width(p.net)
           o == p.net.o
           len == p.len
           octet(i) == IF 8 * i <= len THEN o[i]
                       ELSE IF 8 * (i - 1) >= len THEN 255
                       ELSE LET unit == 2 ^ (8 * i - len) IN (o[i] \div unit) * unit + unit - 1
<1>1. p.net \in Addresses /\ len \in Nat
  BY DEF DenyPrefixes
<1>2. w \in Nat /\ o \in [1 .. w -> Octets] /\ DOMAIN o = 1 .. w
  BY <1>1, AddressParts
<1>3. LastOf(p) = [i \in 1 .. w |-> octet(i)]
  BY <1>2 DEF LastOf
<1> HIDE DEF w, o, len
<1>4. ASSUME NEW i \in 1 .. w PROVE octet(i) \in Octets
  <2>1. o[i] \in Octets /\ 255 \in Octets
    BY <1>2 DEF Octets
  <2>2. CASE 8 * i <= len \/ 8 * (i - 1) >= len
    BY <1>1, <2>1, <2>2
  <2>3. CASE ~(8 * i <= len \/ 8 * (i - 1) >= len)
    <3> DEFINE r == 7 - (8 * i - len)
    <3>1. r \in 0 .. 7 /\ 7 - r = 8 * i - len
      BY <1>1, <2>3
    <3>2. octet(i) = (o[i] \div 2 ^ (7 - r)) * 2 ^ (7 - r) + 2 ^ (7 - r) - 1
      BY <2>3, <3>1
    <3> HIDE DEF r, octet
    <3>3. (o[i] \div 2 ^ (7 - r)) * 2 ^ (7 - r) + 2 ^ (7 - r) - 1 \in Octets
      BY <2>1, <3>1, OctetKept
    <3> QED BY <3>2, <3>3
  <2> HIDE DEF octet
  <2> QED BY <2>2, <2>3
<1> HIDE DEF octet
<1>5. LastOf(p) \in [1 .. w -> Octets]
  BY <1>3, <1>4
<1> QED BY <1>5 DEF w

\* The ends of a block and what is one bit away from them
LEMMA EdgesKept ==
  ASSUME NEW p \in DenyPrefixes
  PROVE  Edges(p) \subseteq Addresses
<1> DEFINE w == Width(p.net)
           ends == {p.net.o, LastOf(p)}
           near == {Flip(e, n) : e \in ends, n \in 0 .. p.len - 1}
<1>1. p.net \in Addresses /\ p.len \in Nat /\ p.len <= 8 * Len(p.net.o)
  BY DEF DenyPrefixes
<1>2. w \in Nat /\ w = Len(p.net.o) /\ p.net.o \in [1 .. w -> Octets]
  BY <1>1, AddressParts
<1>3. LastOf(p) \in [1 .. w -> Octets]
  BY LastKept
<1>4. Edges(p) = {[v |-> p.net.v, o |-> o] : o \in ends \cup near}
  BY DEF Edges
<1>5. \A o \in [1 .. w -> Octets] : [v |-> p.net.v, o |-> o] \in Addresses
  <2>1. \/ p.net.v = 4 /\ w = 4
        \/ p.net.v = 6 /\ w = 16
    BY <1>1, AddressParts DEF Width
  <2> HIDE DEF w
  <2> QED BY <2>1 DEF Addresses
<1> HIDE DEF w
<1>6. \A o \in ends : o \in [1 .. w -> Octets]
  BY <1>2, <1>3
<1>7. \A e \in ends, n \in 0 .. p.len - 1 : Flip(e, n) \in [1 .. w -> Octets]
  <2> SUFFICES ASSUME NEW e \in ends, NEW n \in 0 .. p.len - 1
               PROVE  Flip(e, n) \in [1 .. w -> Octets]
    OBVIOUS
  <2>1. e \in [1 .. w -> Octets]
    BY <1>6
  <2>2. n \in Nat /\ n < 8 * w
    BY <1>1, <1>2
  <2> QED BY <1>2, <2>1, <2>2, FlipKept
<1> HIDE DEF ends
<1>8. \A o \in near : o \in [1 .. w -> Octets]
  BY <1>7
<1> HIDE DEF near
<1> QED BY <1>4, <1>5, <1>6, <1>8

LEMMA AsMappedKept ==
  ASSUME NEW a \in Addresses
  PROVE  AsMapped(a) \in Addresses
<1>1. CASE a.v = 4
  <2> DEFINE octet(i) == IF i <= 10 THEN 0 ELSE IF i <= 12 THEN 255 ELSE a.o[i - 12]
  <2>1. Width(a) = 4
    BY <1>1 DEF Width
  <2>2. \A i \in 1 .. 4 : a.o[i] \in Octets
    BY <2>1, AddressParts
  <2>3. 0 \in Octets /\ 255 \in Octets
    BY DEF Octets
  <2>4. \A i \in 1 .. 16 : octet(i) \in Octets
    BY <2>2, <2>3
  <2>5. AsMapped(a) = [v |-> 6, o |-> [i \in 1 .. 16 |-> octet(i)]]
    BY <1>1 DEF AsMapped
  <2> HIDE DEF octet
  <2> QED BY <2>4, <2>5 DEF Addresses
<1>2. CASE a.v # 4
  BY <1>2 DEF AsMapped
<1> QED BY <1>1, <1>2

\* The blocks are prefixes.
LEMMA BlocksArePrefixes ==
  /\ ForbiddenBlocks \cup GatedBlocks \subseteq DenyPrefixes
  /\ \A denies \in ProbeDenies : denies \subseteq DenyPrefixes
<1>1. \A net \in Addresses, n \in Nat : n <= 8 * Width(net) => Block(net, n) \in DenyPrefixes
  <2> SUFFICES ASSUME NEW net \in Addresses, NEW n \in Nat, n <= 8 * Width(net)
               PROVE  Block(net, n) \in DenyPrefixes
    OBVIOUS
  <2> DEFINE p == Block(net, n)
  <2>1. p = [net |-> net, len |-> n] /\ p.net = net /\ p.len = n
    BY DEF Block
  <2>2. Len(net.o) = Width(net)
    BY AddressParts
  <2> HIDE DEF p
  <2>3. p \in DenyPrefixes
    BY <2>1, <2>2 DEF DenyPrefixes
  <2> QED BY <2>3 DEF p
<1>2. \A a, b, c, d, n : a \in Octets /\ b \in Octets /\ c \in Octets /\ d \in Octets /\ n \in 0 .. 32
                           => Block(V4(a, b, c, d), n) \in DenyPrefixes
  BY <1>1, V4Is DEF Width
<1>3. \A a, b, c, d, n : a \in Octets /\ b \in Octets /\ c \in Octets /\ d \in Octets /\ n \in 0 .. 128
                           => Block(Net6(a, b, c, d), n) \in DenyPrefixes
  <2>1. \A a, b, c, d \in Octets : Net6(a, b, c, d) \in Addresses /\ Width(Net6(a, b, c, d)) = 16
    BY Net6Is DEF Width
  <2> QED BY <1>1, <2>1
<1>4. /\ 0 \in Octets /\ 1 \in Octets /\ 2 \in Octets /\ 10 \in Octets /\ 13 \in Octets
      /\ 16 \in Octets /\ 18 \in Octets /\ 32 \in Octets /\ 64 \in Octets /\ 100 \in Octets
      /\ 112 \in Octets /\ 127 \in Octets /\ 128 \in Octets /\ 155 \in Octets /\ 168 \in Octets
      /\ 169 \in Octets /\ 172 \in Octets /\ 184 \in Octets /\ 192 \in Octets /\ 198 \in Octets
      /\ 203 \in Octets /\ 224 \in Octets /\ 240 \in Octets /\ 252 \in Octets /\ 254 \in Octets
      /\ 255 \in Octets
  BY DEF Octets
<1>5. /\ 4 \in 0 .. 32 /\ 8 \in 0 .. 32 /\ 10 \in 0 .. 32 /\ 12 \in 0 .. 32 /\ 15 \in 0 .. 32
      /\ 16 \in 0 .. 32 /\ 20 \in 0 .. 32 /\ 24 \in 0 .. 32 /\ 32 \in 0 .. 32
      /\ 7 \in 0 .. 128 /\ 10 \in 0 .. 128 /\ 16 \in 0 .. 128 /\ 32 \in 0 .. 128
      /\ 45 \in 0 .. 128 /\ 96 \in 0 .. 128
  OBVIOUS
<1>6. ForbiddenBlocks \subseteq DenyPrefixes
  BY <1>2, <1>3, <1>4, <1>5 DEF ForbiddenBlocks
<1>7. GatedBlocks \subseteq DenyPrefixes
  BY <1>2, <1>3, <1>4, <1>5 DEF GatedBlocks
<1>8. \A denies \in ProbeDenies : denies \subseteq DenyPrefixes
  BY <1>2, <1>3, <1>4, <1>5 DEF ProbeDenies
<1> QED BY <1>6, <1>7, <1>8

LEMMA ProbesAreAddresses == Probes \subseteq Addresses
<1> DEFINE blocks == ForbiddenBlocks \cup GatedBlocks \cup UNION ProbeDenies
           edges == UNION {Edges(b) : b \in blocks}
           one == [Net6(0, 0, 0, 0) EXCEPT !.o[16] = 1]
<1>1. blocks \subseteq DenyPrefixes
  BY BlocksArePrefixes
<1> HIDE DEF blocks
<1>2. edges \subseteq Addresses
  BY <1>1, EdgesKept
<1> HIDE DEF edges
<1>3. {AsMapped(a) : a \in edges} \subseteq Addresses
  BY <1>2, AsMappedKept
<1>4. one \in Addresses
  <2>1. 0 \in Octets /\ 1 \in Octets
    BY DEF Octets
  <2> DEFINE net == Net6(0, 0, 0, 0)
  <2>2. net \in Addresses /\ net.v = 6
    BY <2>1, Net6Is
  <2>3. one = [net EXCEPT !.o = [net.o EXCEPT ![16] = 1]]
    OBVIOUS
  <2> HIDE DEF net, one
  <2>4. net \in [v : {6}, o : [1 .. 16 -> Octets]]
    BY <2>2 DEF Addresses
  <2>5. one \in [v : {6}, o : [1 .. 16 -> Octets]]
    BY <2>1, <2>3, <2>4
  <2> QED BY <2>5 DEF Addresses
<1> HIDE DEF one
<1>5. Probes = edges \cup {AsMapped(a) : a \in edges} \cup {one}
  BY DEF Probes, edges, blocks, one
<1> QED BY <1>2, <1>3, <1>4, <1>5

-----------------------------------------------------------------------------
(* The agent cache and the fetches *)

Distinct(s) == \A i, j \in DOMAIN s : s[i].key = s[j].key => i = j

\* t has entries of s, and e.
From(t, s, e) == \A j \in DOMAIN t : t[j] = e \/ \E m \in DOMAIN s : t[j] = s[m]

\* What is removed leaves the others, in their order.
LEMMA RemoveAtKeeps ==
  ASSUME NEW S, NEW s \in Seq(S), NEW i \in DOMAIN s
  PROVE  /\ RemoveAt(s, i) \in Seq(S)
         /\ Len(RemoveAt(s, i)) = Len(s) - 1
         /\ \A j \in 1 .. Len(s) - 1 :
              RemoveAt(s, i)[j] = IF j < i THEN s[j] ELSE s[j + 1]
<1> DEFINE a == SubSeq(s, 1, i - 1)
           b == SubSeq(s, i + 1, Len(s))
<1>0. i \in 1 .. Len(s) /\ Len(s) \in Nat /\ i - 1 \in Int /\ i + 1 \in Int /\ 1 \in Int
  OBVIOUS
<1>1. /\ a \in Seq(S) /\ Len(a) = i - 1
      /\ \A j \in 1 .. i - 1 : a[j] = s[j]
  <2>1. \A j \in 1 .. i - 1 : s[j] \in S
    BY <1>0
  <2>2. /\ a \in Seq(S)
        /\ Len(a) = IF 1 <= i - 1 THEN i - 1 - 1 + 1 ELSE 0
        /\ \A j \in 1 .. i - 1 - 1 + 1 : a[j] = s[1 + j - 1]
    BY <1>0, <2>1, SubSeqProperties
  <2>3. QED
    BY <1>0, <2>2
<1>2. /\ b \in Seq(S) /\ Len(b) = Len(s) - i
      /\ \A j \in 1 .. Len(s) - i : b[j] = s[j + i]
  <2>1. \A j \in i + 1 .. Len(s) : s[j] \in S
    BY <1>0
  <2>2. /\ b \in Seq(S)
        /\ Len(b) = IF i + 1 <= Len(s) THEN Len(s) - (i + 1) + 1 ELSE 0
        /\ \A j \in 1 .. Len(s) - (i + 1) + 1 : b[j] = s[i + 1 + j - 1]
    BY <1>0, <2>1, SubSeqProperties
  <2>3. QED
    BY <1>0, <2>2
<1>3. RemoveAt(s, i) = a \o b
  BY DEF RemoveAt
<1> DEFINE c == a \o b
<1>4. /\ c \in Seq(S)
      /\ Len(c) = Len(a) + Len(b)
      /\ \A j \in 1 .. Len(a) + Len(b) :
           c[j] = IF j <= Len(a) THEN a[j] ELSE b[j - Len(a)]
  BY <1>1, <1>2, ConcatProperties
<1> HIDE DEF c
<1> HIDE DEF a, b
<1>5. ASSUME NEW j \in 1 .. Len(s) - 1
      PROVE  c[j] = IF j < i THEN s[j] ELSE s[j + 1]
  <2>1. c[j] = IF j <= i - 1 THEN a[j] ELSE b[j - (i - 1)]
    <3>1. Len(a) + Len(b) = Len(s) - 1
      BY <1>0, <1>1, <1>2
    <3>2. \A m \in 1 .. Len(s) - 1 : c[m] = IF m <= Len(a) THEN a[m] ELSE b[m - Len(a)]
      BY <1>4, <3>1, Zenon
    <3>3. c[j] = IF j <= Len(a) THEN a[j] ELSE b[j - Len(a)]
      BY <1>5, <3>2, Zenon
    <3>4. QED
      BY <1>1, <3>3, Zenon
  <2>2. CASE j < i
    BY <1>0, <1>1, <2>1, <2>2
  <2>3. CASE j >= i
    <3>1. j - (i - 1) \in 1 .. Len(s) - i /\ j - (i - 1) + i = j + 1 /\ ~(j <= i - 1)
      BY <1>0, <2>3
    <3>2. c[j] = b[j - (i - 1)]
      BY <2>1, <3>1
    <3>3. b[j - (i - 1)] = s[j - (i - 1) + i]
      BY <1>2, <3>1
    <3>4. ~(j < i)
      BY <1>0, <2>3
    <3>5. QED
      BY <3>1, <3>2, <3>3, <3>4
  <2>4. QED
    BY <1>0, <2>2, <2>3
<1>6. RemoveAt(s, i) = c /\ Len(c) = Len(s) - 1
  BY <1>0, <1>1, <1>2, <1>3, <1>4 DEF c
<1>7. QED
  BY <1>4, <1>5, <1>6

\* Without takes the key out and nothing else.
LEMMA WithoutKeeps ==
  ASSUME NEW S, NEW s \in Seq(S), NEW k, Distinct(s)
  PROVE  /\ Without(s, k) \in Seq(S)
         /\ Len(Without(s, k)) <= Len(s)
         /\ Holds(s, k) => Len(Without(s, k)) = Len(s) - 1
         /\ \A j \in DOMAIN Without(s, k) : \E m \in DOMAIN s : Without(s, k)[j] = s[m]
         /\ Distinct(Without(s, k))
         /\ ~Holds(Without(s, k), k)
<1>1. CASE ~Holds(s, k)
  <2>1. Without(s, k) = s
    BY <1>1 DEF Without
  <2>2. QED
    BY <1>1, <2>1
<1>2. CASE Holds(s, k)
  <2> DEFINE i == IndexOf(s, k)
             w == RemoveAt(s, i)
  <2>1. i \in DOMAIN s /\ s[i].key = k
    BY <1>2 DEF Holds, IndexOf
  <2>2. Without(s, k) = w
    BY <1>2 DEF Without
  <2> HIDE DEF i
  <2>3. /\ w \in Seq(S)
        /\ Len(w) = Len(s) - 1
        /\ \A j \in 1 .. Len(s) - 1 : w[j] = IF j < i THEN s[j] ELSE s[j + 1]
    BY <2>1, RemoveAtKeeps
  <2> HIDE DEF w
  <2>4. DOMAIN w = 1 .. Len(s) - 1 /\ DOMAIN s = 1 .. Len(s) /\ Len(s) \in Nat
    BY <2>3
  <2>5. ASSUME NEW j \in DOMAIN w
        PROVE  \E m \in DOMAIN s :
                 /\ w[j] = s[m] /\ m # i /\ m \in {j, j + 1}
                 /\ j < i => m = j /\ m < i
                 /\ j >= i => m = j + 1
    BY <2>1, <2>3, <2>4, <2>5
  <2>6. \A j \in DOMAIN w : w[j].key # k
    BY <2>1, <2>5 DEF Distinct
  <2>7. ASSUME NEW j \in DOMAIN w, NEW l \in DOMAIN w, w[j].key = w[l].key
        PROVE  j = l
    <3>1. PICK m \in DOMAIN s : w[j] = s[m] /\ (j < i => m = j /\ m < i) /\ (j >= i => m = j + 1)
      BY <2>5
    <3>2. PICK n \in DOMAIN s : w[l] = s[n] /\ (l < i => n = l /\ n < i) /\ (l >= i => n = l + 1)
      BY <2>5
    <3>3. m = n
      BY <2>7, <3>1, <3>2 DEF Distinct
    <3>4. QED
      BY <2>1, <2>4, <3>1, <3>2, <3>3
  <2>8. Distinct(w) /\ ~Holds(w, k)
    BY <2>6, <2>7 DEF Distinct, Holds
  <2>9. \A j \in DOMAIN w : \E m \in DOMAIN s : w[j] = s[m]
    BY <2>5
  <2>10. QED
    BY <1>2, <2>2, <2>3, <2>4, <2>8, <2>9
<1>3. QED
  BY <1>1, <1>2

\* An entry under a new key goes to the end.
LEMMA AppendKeeps ==
  ASSUME NEW S, NEW s \in Seq(S), NEW e, Distinct(s), ~Holds(s, e.key),
         NEW t, t = Append(s, e)
  PROVE  /\ t \in Seq(S \cup {e})
         /\ Len(t) = Len(s) + 1
         /\ Distinct(t)
         /\ From(t, s, e)
<1>0. s \in Seq(S \cup {e}) /\ e \in S \cup {e}
  OBVIOUS
<1>1. /\ t \in Seq(S \cup {e}) /\ Len(t) = Len(s) + 1 /\ t[Len(s) + 1] = e
      /\ \A j \in 1 .. Len(s) : t[j] = s[j]
  BY <1>0
<1>2. DOMAIN t = 1 .. Len(s) + 1 /\ DOMAIN s = 1 .. Len(s) /\ Len(s) \in Nat
  BY <1>1
<1>3. \A j \in DOMAIN t : j = Len(s) + 1 \/ j \in DOMAIN s
  BY <1>2
<1>4. \A j \in DOMAIN t : t[j] = e \/ \E m \in DOMAIN s : t[j] = s[m]
  BY <1>1, <1>2, <1>3
<1>5. Distinct(t)
  <2> SUFFICES ASSUME NEW i \in DOMAIN t, NEW j \in DOMAIN t, t[i].key = t[j].key
               PROVE  i = j
    BY DEF Distinct
  <2>1. CASE i = Len(s) + 1 /\ j \in DOMAIN s
    BY <1>1, <1>2, <2>1 DEF Holds
  <2>2. CASE j = Len(s) + 1 /\ i \in DOMAIN s
    BY <1>1, <1>2, <2>2 DEF Holds
  <2>3. CASE i \in DOMAIN s /\ j \in DOMAIN s
    BY <1>1, <1>2, <2>3 DEF Distinct
  <2>4. QED
    BY <1>3, <2>1, <2>2, <2>3
<1>6. QED
  BY <1>1, <1>4, <1>5 DEF From

\* An entry at the end in place of the one with its key
LEMMA PutKeeps ==
  ASSUME NEW S, NEW s \in Seq(S), Distinct(s), NEW e,
         NEW n \in Nat, Len(s) < n \/ (Len(s) <= n /\ Holds(s, e.key)),
         NEW t, t = Append(Without(s, e.key), e)
  PROVE  /\ t \in Seq(S \cup {e})
         /\ Len(t) <= n
         /\ Distinct(t)
         /\ From(t, s, e)
<1> DEFINE w == Without(s, e.key)
<1>1. /\ w \in Seq(S) /\ Len(w) <= Len(s)
      /\ Holds(s, e.key) => Len(w) = Len(s) - 1
      /\ \A j \in DOMAIN w : \E m \in DOMAIN s : w[j] = s[m]
      /\ Distinct(w) /\ ~Holds(w, e.key)
  BY WithoutKeeps
<1>2. t = Append(w, e)
  OBVIOUS
<1> HIDE DEF w
<1>3. /\ t \in Seq(S \cup {e})
      /\ Len(t) = Len(w) + 1
      /\ Distinct(t)
      /\ From(t, w, e)
  BY <1>1, <1>2, AppendKeeps
<1>4. Len(w) + 1 <= n
  <2>1. Len(w) \in Nat /\ Len(s) \in Nat
    BY <1>1
  <2>2. QED
    BY <1>1, <2>1
<1>5. Len(t) <= n
  BY <1>3, <1>4
<1>6. From(t, s, e)
  BY <1>1, <1>3 DEF From
<1>7. QED
  BY <1>3, <1>5, <1>6

-----------------------------------------------------------------------------
(***************************************************************************)
(* The inductive invariant.  Every agent, cached or in hand, fits what its *)
(* key says of the verifier.                                               *)
(***************************************************************************)
Fits(a, verify, pin, ca) ==
  verify =>
    \/ a.checks = "default" /\ pin = NoPin /\ ~ca
    \/ a.checks = "default" /\ ca /\ unread
    \/ a.checks = "pin" /\ a.pin = pin /\ pin # NoPin /\ ~ca
    \/ a.checks = "ca" /\ pin = NoPin /\ ca
    \/ a.checks = "pin+ca" /\ a.pin = pin /\ pin # NoPin /\ ca

IsSequence(s) == \E S : s \in Seq(S)

CacheFits ==
  \A i \in DOMAIN agents :
    Fits(agents[i].agent, agents[i].key.verify, agents[i].key.pin, agents[i].key.ca)

Suits(a, c) == Fits(a, VerifyEffective(c, env.shim), c.pin, c.ca)

FetchFits(f) ==
  /\ ~f.cfg.pinBad
  /\ f.phase \in {"insert", "ready", "sent"} => Suits(f.agent, f.cfg)
  /\ f.phase = "sent" => (Https(f.cfg, env.shim) => Accepts(f.agent, f.peer))

IInv ==
  /\ IsSequence(agents)
  /\ Distinct(agents)
  /\ Len(agents) <= MaxAgents
  /\ CacheFits
  /\ \A t \in DOMAIN fetch : FetchFits(fetch[t])

\* A thread that moves on leaves the others as they are.
LEMMA OthersKept ==
  ASSUME NEW t, NEW f, GoTo(t, f), FetchFits(f)', env' = env, unread => unread',
         \A u \in DOMAIN fetch : FetchFits(fetch[u])
  PROVE  (\A u \in DOMAIN fetch : FetchFits(fetch[u]))'
<1> SUFFICES ASSUME NEW u \in DOMAIN fetch'
             PROVE  FetchFits(fetch[u])'
  OBVIOUS
<1>1. CASE u = t
  <2>1. fetch'[u] = f
    BY <1>1 DEF GoTo
  <2>2. QED
    BY <2>1 DEF FetchFits, Suits, Fits
<1>2. CASE u # t
  <2>1. u \in DOMAIN fetch /\ fetch'[u] = fetch[u]
    BY <1>2 DEF GoTo
  <2>2. FetchFits(fetch[u])
    BY <2>1
  <2>3. QED
    BY <2>1, <2>2 DEF FetchFits, Suits, Fits
<1>3. QED
  BY <1>1, <1>2

LEMMA GoneKept ==
  ASSUME NEW t, Gone(t), env' = env, unread' = unread,
         \A u \in DOMAIN fetch : FetchFits(fetch[u])
  PROVE  (\A u \in DOMAIN fetch : FetchFits(fetch[u]))'
BY DEF Gone, FetchFits, Suits, Fits

\* The cache after an entry was put at the end in place of one with its key
LEMMA EntryPut ==
  ASSUME NEW s, IsSequence(s), Distinct(s), NEW e,
         Len(s) < MaxAgents \/ (Len(s) <= MaxAgents /\ Holds(s, e.key)),
         \A i \in DOMAIN s : Fits(s[i].agent, s[i].key.verify, s[i].key.pin, s[i].key.ca),
         Fits(e.agent, e.key.verify, e.key.pin, e.key.ca),
         agents' = Append(Without(s, e.key), e), unread' = unread
  PROVE  IsSequence(agents)' /\ Distinct(agents)' /\ (Len(agents) <= MaxAgents)' /\ CacheFits'
<1>1. PICK S : s \in Seq(S)
  BY DEF IsSequence
<1>2. PICK t : t = agents'
  OBVIOUS
<1>3. MaxAgents \in Nat
  BY LiveFetchAssumption
<1>4. /\ t \in Seq(S \cup {e})
      /\ Len(t) <= MaxAgents
      /\ Distinct(t)
      /\ From(t, s, e)
  BY <1>1, <1>2, <1>3, PutKeeps
<1>5. \A j \in DOMAIN t : Fits(t[j].agent, t[j].key.verify, t[j].key.pin, t[j].key.ca)
  BY <1>4 DEF From
<1>6. CacheFits'
  BY <1>2, <1>5 DEF CacheFits, Fits
<1>7. IsSequence(t)
  BY <1>4 DEF IsSequence
<1>8. IsSequence(agents') /\ Distinct(agents') /\ Len(agents') <= MaxAgents
  BY <1>2, <1>4, <1>7
<1>9. QED
  BY <1>6, <1>8

-----------------------------------------------------------------------------
LEMMA InvInit == Init => IInv
<1> SUFFICES ASSUME Init PROVE IInv
  OBVIOUS
<1>1. agents = <<>> /\ fetch = <<>>
  BY DEF Init
<1>2. agents \in Seq({}) /\ Len(agents) = 0 /\ DOMAIN agents = {} /\ DOMAIN fetch = {}
  BY <1>1
<1>3. QED
  BY <1>2, LiveFetchAssumption DEF IInv, IsSequence, Distinct, CacheFits

LEMMA CacheUntouched ==
  ASSUME IInv, agents' = agents, unread => unread'
  PROVE  IsSequence(agents)' /\ Distinct(agents)' /\ (Len(agents) <= MaxAgents)' /\ CacheFits'
<1>1. CacheFits'
  BY DEF IInv, CacheFits, Fits
<1>2. IsSequence(agents') /\ Distinct(agents') /\ Len(agents') <= MaxAgents
  BY DEF IInv
<1>3. QED
  BY <1>1, <1>2

LEMMA InvStart == IInv /\ Start => IInv'
<1> SUFFICES ASSUME IInv, Start PROVE IInv'
  OBVIOUS
<1>1. PICK t, f :
        /\ f = Thread("lookup", config, NoAgent, NoPeer)
        /\ GoTo(t, f)
        /\ env' = env /\ agents' = agents /\ unread' = unread /\ ~config.pinBad
  BY DEF Start, IsActive
<1>2. FetchFits(f)'
  BY <1>1 DEF FetchFits, Thread
<1>3. (\A u \in DOMAIN fetch : FetchFits(fetch[u]))'
  BY <1>1, <1>2, OthersKept DEF IInv
<1>4. QED
  BY <1>1, <1>3, CacheUntouched DEF IInv

LEMMA InvLookup ==
  ASSUME IInv, NEW t, Lookup(t)
  PROVE  IInv'
<1> DEFINE c == fetch[t].cfg
<1>0. t \in DOMAIN fetch /\ FetchFits(fetch[t]) /\ UNCHANGED <<env, unread>>
  BY DEF Lookup, At, IInv
<1>1. PICK answer \in AnswersFor(c.hosts[1]) :
        IF Resolved(answer, c.allow, c.denies)
          THEN LET addrs == Dedup(answer)
                   k == Key(c, env.shim, addrs)
               IN  IF Holds(agents, k)
                     THEN LET e == agents[IndexOf(agents, k)] IN
                            /\ agents' = Append(Without(agents, k), e)
                            /\ GoTo(t, Thread("ready", c, e.agent, NoPeer))
                     ELSE /\ GoTo(t, Thread("build", c, Agent("none", NoPin, addrs, c.port), NoPeer))
                          /\ UNCHANGED agents
          ELSE Gone(t) /\ UNCHANGED agents
  BY DEF Lookup
<1> DEFINE addrs == Dedup(answer)
           k == Key(c, env.shim, addrs)
<1>2. CASE Gone(t) /\ UNCHANGED agents
  <2>1. (\A u \in DOMAIN fetch : FetchFits(fetch[u]))'
    BY <1>0, <1>2, GoneKept DEF IInv
  <2>2. QED
    BY <1>0, <1>2, <2>1, CacheUntouched DEF IInv
<1>3. ASSUME Holds(agents, k),
             agents' = Append(Without(agents, k), agents[IndexOf(agents, k)]),
             GoTo(t, Thread("ready", c, agents[IndexOf(agents, k)].agent, NoPeer))
      PROVE  IInv'
  <2> DEFINE i == IndexOf(agents, k)
             e == agents[i]
  <2>1. i \in DOMAIN agents /\ e.key = k
    BY <1>3 DEF Holds, IndexOf
  <2>2. Fits(e.agent, e.key.verify, e.key.pin, e.key.ca)
    BY <2>1 DEF IInv, CacheFits
  <2>3. /\ k.verify = VerifyEffective(c, env.shim)
        /\ k.pin = c.pin /\ k.ca = c.ca
    BY DEF Key
  <2> HIDE DEF i, k, c
  <2>4. Suits(e.agent, fetch[t].cfg)
    BY <2>1, <2>2, <2>3 DEF Suits, c
  <2> HIDE DEF e
  <2>5. PICK f : f = Thread("ready", fetch[t].cfg, e.agent, NoPeer)
    OBVIOUS
  <2>6. GoTo(t, f) /\ FetchFits(f)'
    <3>1. GoTo(t, f)
      BY <1>3, <2>5 DEF e, i, c
    <3>2. f.cfg = fetch[t].cfg /\ f.phase = "ready" /\ f.agent = e.agent
      BY <2>5 DEF Thread
    <3>3. QED
      BY <1>0, <2>4, <3>1, <3>2 DEF FetchFits, Suits, Fits
  <2>7. (\A u \in DOMAIN fetch : FetchFits(fetch[u]))'
    BY <1>0, <2>6, OthersKept DEF IInv
  <2>8. agents' = Append(Without(agents, e.key), e)
    BY <1>3, <2>1 DEF e, i
  <2>9. IsSequence(agents)' /\ Distinct(agents)' /\ (Len(agents) <= MaxAgents)' /\ CacheFits'
    <3>1. Len(agents) <= MaxAgents /\ Holds(agents, e.key)
      BY <1>3, <2>1 DEF IInv, e
    <3>2. \A j \in DOMAIN agents :
            Fits(agents[j].agent, agents[j].key.verify, agents[j].key.pin, agents[j].key.ca)
      BY DEF IInv, CacheFits
    <3>3. Fits(e.agent, e.key.verify, e.key.pin, e.key.ca)
      BY <2>2 DEF e
    <3>4. IsSequence(agents) /\ Distinct(agents)
      BY DEF IInv
    <3>5. QED
      BY <1>0, <2>8, <3>1, <3>2, <3>3, <3>4, EntryPut
  <2>10. QED
    BY <2>7, <2>9 DEF IInv
<1>4. ASSUME GoTo(t, Thread("build", c, Agent("none", NoPin, addrs, c.port), NoPeer)),
             UNCHANGED agents
      PROVE  IInv'
  <2>1. PICK f : f = Thread("build", c, Agent("none", NoPin, addrs, c.port), NoPeer)
    OBVIOUS
  <2>2. GoTo(t, f)
    BY <1>4, <2>1
  <2>3. f.cfg = fetch[t].cfg /\ f.phase = "build"
    BY <2>1 DEF Thread
  <2>4. FetchFits(f)'
    BY <1>0, <2>3 DEF FetchFits
  <2>5. (\A u \in DOMAIN fetch : FetchFits(fetch[u]))'
    BY <1>0, <2>2, <2>4, OthersKept DEF IInv
  <2>6. QED
    BY <1>0, <1>4, <2>5, CacheUntouched DEF IInv
<1>5. QED
  BY <1>1, <1>2, <1>3, <1>4

LEMMA InvBuild ==
  ASSUME IInv, NEW t, Build(t)
  PROVE  IInv'
<1> DEFINE c == fetch[t].cfg
           a == Built(c, env.shim, fetch[t].agent.addrs)
<1>1. /\ t \in DOMAIN fetch /\ FetchFits(fetch[t]) /\ env' = env /\ agents' = agents
      /\ unread' = (unread \/ (Https(c, env.shim) /\ c.ca /\ ~Reads))
      /\ GoTo(t, Thread("insert", c, a, NoPeer))
  BY DEF Build, At, IInv
<1>2. PICK f : f = Thread("insert", c, a, NoPeer)
  OBVIOUS
<1>3. f.cfg = c /\ f.phase = "insert" /\ f.agent = a
  BY <1>2 DEF Thread
<1>4. VerifyEffective(c, env.shim) =>
        \/ a.checks = "default" /\ c.pin = NoPin /\ ~c.ca
        \/ a.checks = "default" /\ c.ca /\ unread'
        \/ a.checks = "pin" /\ a.pin = c.pin /\ c.pin # NoPin /\ ~c.ca
        \/ a.checks = "ca" /\ c.pin = NoPin /\ c.ca
        \/ a.checks = "pin+ca" /\ a.pin = c.pin /\ c.pin # NoPin /\ c.ca
  BY <1>1 DEF Built, Agent, VerifyEffective
<1>5. FetchFits(f)'
  BY <1>1, <1>3, <1>4 DEF FetchFits, Suits, Fits
<1>6. (\A u \in DOMAIN fetch : FetchFits(fetch[u]))'
  BY <1>1, <1>2, <1>5, OthersKept DEF IInv
<1>7. QED
  BY <1>1, <1>6, CacheUntouched DEF IInv

\* The least recently used entry goes, the others stay.
LEMMA TailKeeps ==
  ASSUME NEW S, NEW s \in Seq(S), Len(s) > 0, Distinct(s)
  PROVE  /\ Tail(s) \in Seq(S)
         /\ Len(Tail(s)) = Len(s) - 1
         /\ Distinct(Tail(s))
         /\ \A j \in DOMAIN Tail(s) : \E m \in DOMAIN s : Tail(s)[j] = s[m]
<1>1. PICK w : w = Tail(s)
  OBVIOUS
<1>2. s # <<>>
  OBVIOUS
<1>3. w \in Seq(S) /\ Len(w) = Len(s) - 1 /\ \A j \in 1 .. Len(w) : w[j] = s[j + 1]
  BY <1>1, <1>2, HeadTailProperties
<1>4. DOMAIN w = 1 .. Len(w) /\ DOMAIN s = 1 .. Len(s) /\ Len(s) \in Nat /\ Len(w) \in Nat
  BY <1>3
<1>5. \A j \in DOMAIN w : j + 1 \in DOMAIN s /\ w[j] = s[j + 1]
  BY <1>3, <1>4
<1>6. Distinct(w)
  <2> SUFFICES ASSUME NEW i \in DOMAIN w, NEW j \in DOMAIN w, w[i].key = w[j].key
               PROVE  i = j
    BY DEF Distinct
  <2>1. i + 1 = j + 1
    BY <1>5 DEF Distinct
  <2>2. QED
    BY <1>4, <2>1
<1>7. \A j \in DOMAIN w : \E m \in DOMAIN s : w[j] = s[m]
  BY <1>5
<1>8. QED
  BY <1>1, <1>3, <1>6, <1>7

LEMMA InvInsert ==
  ASSUME IInv, NEW t, Insert(t)
  PROVE  IInv'
<1>1. /\ t \in DOMAIN fetch /\ fetch[t].phase = "insert" /\ FetchFits(fetch[t])
      /\ env' = env /\ unread' = unread
      /\ GoTo(t, Thread("ready", fetch[t].cfg, fetch[t].agent, NoPeer))
  BY DEF Insert, At, IInv
<1>2. PICK f : f = Thread("ready", fetch[t].cfg, fetch[t].agent, NoPeer)
  OBVIOUS
<1>3. f.cfg = fetch[t].cfg /\ f.phase = "ready" /\ f.agent = fetch[t].agent
  BY <1>2 DEF Thread
<1>4. Suits(fetch[t].agent, fetch[t].cfg) /\ ~fetch[t].cfg.pinBad
  BY <1>1 DEF FetchFits
<1>5. FetchFits(f)'
  BY <1>1, <1>3, <1>4 DEF FetchFits, Suits, Fits
<1>6. (\A u \in DOMAIN fetch : FetchFits(fetch[u]))'
  BY <1>1, <1>2, <1>5, OthersKept DEF IInv
<1>7. PICK k, e, s :
        /\ k = Key(fetch[t].cfg, env.shim, fetch[t].agent.addrs)
        /\ e = [key |-> k, agent |-> fetch[t].agent]
        /\ s = IF Len(agents) >= MaxAgents THEN Tail(agents) ELSE agents
        /\ agents' = Append(Without(s, k), e)
  BY DEF Insert, InsertAgent
<1>8. e.key = k /\ e.agent = fetch[t].agent
  BY <1>7
<1>9. Fits(e.agent, e.key.verify, e.key.pin, e.key.ca)
  BY <1>4, <1>7, <1>8 DEF Suits, Key
<1>10. /\ IsSequence(s) /\ Distinct(s) /\ Len(s) < MaxAgents
       /\ \A i \in DOMAIN s : Fits(s[i].agent, s[i].key.verify, s[i].key.pin, s[i].key.ca)
  <2>1. PICK S : agents \in Seq(S)
    BY DEF IInv, IsSequence
  <2>2. /\ Len(agents) \in Nat /\ Len(agents) <= MaxAgents /\ Distinct(agents)
        /\ MaxAgents \in Nat /\ MaxAgents > 0
    BY <2>1, LiveFetchAssumption DEF IInv
  <2>3. CASE Len(agents) >= MaxAgents
    <3>1. s = Tail(agents) /\ Len(agents) > 0
      BY <1>7, <2>2, <2>3
    <3>2. /\ s \in Seq(S) /\ Len(s) = Len(agents) - 1 /\ Distinct(s)
          /\ \A j \in DOMAIN s : \E m \in DOMAIN agents : s[j] = agents[m]
      BY <2>1, <2>2, <3>1, TailKeeps
    <3>3. QED
      BY <2>2, <3>2 DEF IsSequence, IInv, CacheFits
  <2>4. CASE ~(Len(agents) >= MaxAgents)
    <3>1. s = agents
      BY <1>7, <2>4
    <3>2. QED
      BY <2>2, <2>4, <3>1 DEF IInv, CacheFits
  <2>5. QED
    BY <2>3, <2>4
<1>11. IsSequence(agents)' /\ Distinct(agents)' /\ (Len(agents) <= MaxAgents)' /\ CacheFits'
  BY <1>1, <1>7, <1>8, <1>9, <1>10, EntryPut
<1>12. QED
  BY <1>6, <1>11 DEF IInv

LEMMA InvSend ==
  ASSUME IInv, NEW t, Send(t)
  PROVE  IInv'
<1>1. /\ t \in DOMAIN fetch /\ fetch[t].phase = "ready" /\ FetchFits(fetch[t])
      /\ env' = env /\ unread' = unread /\ agents' = agents
  BY DEF Send, At, IInv
<1>2. PICK peer \in Peer :
        IF Https(fetch[t].cfg, env.shim) /\ ~Accepts(fetch[t].agent, peer)
          THEN Gone(t)
          ELSE GoTo(t, Thread("sent", fetch[t].cfg, fetch[t].agent, peer))
  BY DEF Send
<1>3. (\A u \in DOMAIN fetch : FetchFits(fetch[u]))'
  <2>1. CASE Gone(t)
    BY <1>1, <2>1, GoneKept DEF IInv
  <2>2. CASE /\ Https(fetch[t].cfg, env.shim) => Accepts(fetch[t].agent, peer)
             /\ GoTo(t, Thread("sent", fetch[t].cfg, fetch[t].agent, peer))
    <3>1. PICK f : f = Thread("sent", fetch[t].cfg, fetch[t].agent, peer)
      OBVIOUS
    <3>2. f.cfg = fetch[t].cfg /\ f.phase = "sent" /\ f.agent = fetch[t].agent /\ f.peer = peer
      BY <3>1 DEF Thread
    <3>3. FetchFits(f)'
      BY <1>1, <2>2, <3>2 DEF FetchFits, Suits, Fits
    <3>4. QED
      BY <1>1, <2>2, <3>1, <3>3, OthersKept DEF IInv
  <2>3. QED
    BY <1>2, <2>1, <2>2
<1>4. QED
  BY <1>1, <1>3, CacheUntouched DEF IInv

LEMMA InvReceive ==
  ASSUME IInv, NEW t, Receive(t)
  PROVE  IInv'
<1>1. Gone(t) /\ env' = env /\ unread' = unread /\ agents' = agents
  BY DEF Receive
<1>2. (\A u \in DOMAIN fetch : FetchFits(fetch[u]))'
  BY <1>1, GoneKept DEF IInv
<1>3. QED
  BY <1>1, <1>2, CacheUntouched DEF IInv

LEMMA InvIdle ==
  ASSUME IInv, UNCHANGED <<env, agents, fetch, unread>>
  PROVE  IInv'
<1>1. (\A u \in DOMAIN fetch : FetchFits(fetch[u]))'
  BY DEF IInv, FetchFits, Suits, Fits
<1>2. QED
  BY <1>1, CacheUntouched DEF IInv

LEMMA InvNext == IInv /\ [Next]_vars => IInv'
<1> SUFFICES ASSUME IInv, [Next]_vars
             PROVE  IInv'
  OBVIOUS
<1>1. CASE Start
  BY <1>1, InvStart
<1>2. ASSUME NEW t \in DOMAIN fetch, Lookup(t)
      PROVE  IInv'
  BY <1>2, InvLookup
<1>3. ASSUME NEW t \in DOMAIN fetch, Build(t)
      PROVE  IInv'
  BY <1>3, InvBuild
<1>4. ASSUME NEW t \in DOMAIN fetch, Insert(t)
      PROVE  IInv'
  BY <1>4, InvInsert
<1>5. ASSUME NEW t \in DOMAIN fetch, Send(t)
      PROVE  IInv'
  BY <1>5, InvSend
<1>6. ASSUME NEW t \in DOMAIN fetch, Receive(t)
      PROVE  IInv'
  BY <1>6, InvReceive
<1>7. ASSUME NEW p \in Payloads, ChangeConfig(p)
      PROVE  IInv'
  BY <1>7, InvIdle DEF ChangeConfig
<1>8. CASE EditBundle
  BY <1>8, InvIdle DEF EditBundle
<1>9. CASE UNCHANGED vars
  BY <1>9, InvIdle DEF vars
<1>10. QED
  BY <1>1, <1>2, <1>3, <1>4, <1>5, <1>6, <1>7, <1>8, <1>9 DEF Next

LEMMA InvHolds == Spec => []IInv
  BY InvInit, InvNext, PTL DEF Spec

-----------------------------------------------------------------------------
(* PINNED_CACHE keeps its cap and one agent a key, whichever threads build *)
(* the same agent at the same time.                                        *)
THEOREM AgentsCapped == Spec => []AgentsBounded
<1>1. IInv => AgentsBounded
  BY DEF IInv, AgentsBounded, Distinct
<1>2. QED
  BY <1>1, InvHolds, PTL

(* Over TLS the credentials go to a device that the captured configuration *)
(* trusts, or, when a bundle could not be read, to one with a certificate  *)
(* of the platform's roots.                                                *)
THEOREM TrustHolds == Spec => []DeviceTrusted
<1>1. IInv => DeviceTrusted
  <2> SUFFICES ASSUME IInv, NEW t \in DOMAIN fetch, fetch[t].phase = "sent",
                      Https(fetch[t].cfg, env.shim)
               PROVE  \/ Trusts(fetch[t].cfg, fetch[t].peer)
                      \/ fetch[t].cfg.ca /\ unread /\ fetch[t].peer.issuer = "system"
    BY DEF DeviceTrusted, Sent, At
  <2> DEFINE c == fetch[t].cfg
             a == fetch[t].agent
             peer == fetch[t].peer
  <2>1. ~c.pinBad /\ Suits(a, c) /\ Accepts(a, peer)
    BY DEF IInv, FetchFits
  <2> HIDE DEF a, peer
  <2>2. CASE ~VerifyEffective(c, env.shim)
    BY <2>1, <2>2 DEF VerifyEffective, Trusts
  <2>3. CASE VerifyEffective(c, env.shim)
    <3>1. /\ a.checks = "default" => peer.issuer = "system"
          /\ a.checks = "pin" => peer.pin = a.pin
          /\ a.checks = "ca" => peer.issuer = "bundle"
          /\ a.checks = "pin+ca" => peer.pin = a.pin /\ peer.issuer = "bundle"
      BY <2>1 DEF Accepts
    <3>2. Trusts(c, peer) \/ (c.ca /\ unread /\ peer.issuer = "system")
      BY <2>1, <2>3, <3>1 DEF Suits, Fits, Trusts
    <3>3. QED
      BY <3>2 DEF peer
  <2>4. QED
    BY <2>2, <2>3 DEF peer
<1>2. QED
  BY <1>1, InvHolds, PTL

-----------------------------------------------------------------------------
(***************************************************************************)
(* What a configuration keeps of the environment it comes from             *)
(***************************************************************************)
KeepsHome(c, home) ==
  /\ c.enabled = home.enabled /\ c.pass = home.pass /\ c.denies = home.denies
  /\ c.hosts = home.hosts /\ c.port = home.port /\ c.user = home.user
  /\ c.custom = home.custom /\ c.ca = home.ca
  /\ c.verify = FALSE => home.verify = FALSE
  /\ c.http = TRUE => home.http = TRUE
  /\ c.allow = TRUE => home.allow = TRUE
  /\ \/ c.pin = home.pin /\ c.pinBad = home.pinBad
     \/ c.pin \in Pins /\ ~c.pinBad

\* The overlay alone, for every environment and every payload
LEMMA OverlayKeepsHome ==
  ASSUME NEW e, ~e.optIn, NEW p
  PROVE  KeepsHome(FromSettings(e, p), FromEnv(e))
<1>1. PICK home, s : home = FromEnv(e) /\ s = FindSettings(p)
  OBVIOUS
<1>2. home.user = UserOrAdmin(e.user)
  <2>1. FromEnv(e).user = UserOrAdmin(e.user)
    BY DEF FromEnv
  <2>2. QED
    BY <1>1, <2>1
<1>3. PICK c : c = Overlay(home, s, e.optIn)
  OBVIOUS
<1>4. /\ c.enabled = home.enabled /\ c.pass = home.pass /\ c.denies = home.denies
      /\ c.hosts = HostsAfter(home, s, e.optIn) /\ c.port = PortAfter(home, s, e.optIn)
      /\ c.user = UserAfter(home, s, e.optIn) /\ c.custom = CustomAfter(home, s, e.optIn)
      /\ c.ca = CaAfter(home, s, e.optIn)
      /\ c.verify = SwitchAfter(home, s, "verify", FALSE, e.optIn)
      /\ c.http = SwitchAfter(home, s, "http", TRUE, e.optIn)
      /\ c.allow = SwitchAfter(home, s, "allow", TRUE, e.optIn)
      /\ c.pin = PinAfter(home, s, e.optIn).pin
      /\ c.pinBad = PinAfter(home, s, e.optIn).bad
  BY <1>3 DEF Overlay
<1>5. c.hosts = home.hosts /\ c.port = home.port /\ c.custom = home.custom /\ c.ca = home.ca
  BY <1>4 DEF HostsAfter, PortAfter, CustomAfter, CaAfter
<1>6. c.user = home.user
  BY <1>2, <1>4 DEF UserAfter, UserOrAdmin
<1>7. c.verify = FALSE => home.verify = FALSE
  BY <1>4 DEF SwitchAfter
<1>8. (c.http = TRUE => home.http = TRUE) /\ (c.allow = TRUE => home.allow = TRUE)
  BY <1>4 DEF SwitchAfter
<1>9. \/ c.pin = home.pin /\ c.pinBad = home.pinBad
      \/ c.pin \in Pins /\ ~c.pinBad
  BY <1>4 DEF PinAfter
<1>10. KeepsHome(c, home)
  BY <1>4, <1>5, <1>6, <1>7, <1>8, <1>9 DEF KeepsHome
<1>11. QED
  BY <1>1, <1>3, <1>10 DEF FromSettings

HomeInv ==
  ~env.optIn =>
    /\ KeepsHome(config, FromEnv(env))
    /\ \A t \in DOMAIN fetch : KeepsHome(fetch[t].cfg, FromEnv(env))

\* A thread that goes on keeps the configuration it captured.
LEMMA HomeThread ==
  ASSUME HomeInv, env' = env, config' = config,
         NEW t, NEW f, GoTo(t, f),
         f.cfg = config \/ (t \in DOMAIN fetch /\ f.cfg = fetch[t].cfg)
  PROVE  HomeInv'
<1> SUFFICES ASSUME ~env.optIn
             PROVE  /\ KeepsHome(config, FromEnv(env))
                    /\ \A u \in DOMAIN fetch' : KeepsHome(fetch'[u].cfg, FromEnv(env))
  BY DEF HomeInv
<1>1. \A u \in DOMAIN fetch' :
        fetch'[u] = f \/ (u \in DOMAIN fetch /\ fetch'[u] = fetch[u])
  BY DEF GoTo
<1>2. QED
  BY <1>1 DEF HomeInv

LEMMA HomeGone ==
  ASSUME HomeInv, env' = env, config' = config, NEW t, Gone(t)
  PROVE  HomeInv'
BY DEF HomeInv, Gone

LEMMA HomeNext == HomeInv /\ [Next]_vars => HomeInv'
<1> SUFFICES ASSUME HomeInv, [Next]_vars
             PROVE  HomeInv'
  OBVIOUS
<1>1. CASE Start
  <2>1. PICK t, f : f = Thread("lookup", config, NoAgent, NoPeer) /\ GoTo(t, f)
    BY <1>1 DEF Start
  <2>2. f.cfg = config /\ env' = env /\ config' = config
    BY <1>1, <2>1 DEF Start, Thread
  <2>3. QED
    BY <2>1, <2>2, HomeThread
<1>2. ASSUME NEW t \in DOMAIN fetch,
             Lookup(t) \/ Build(t) \/ Insert(t) \/ Send(t) \/ Receive(t)
      PROVE  HomeInv'
  <2>1. env' = env /\ config' = config
    BY <1>2 DEF Lookup, Build, Insert, Send, Receive
  <2>2. Gone(t) \/ \E phase, agent, peer : GoTo(t, Thread(phase, fetch[t].cfg, agent, peer))
    <3>1. CASE Lookup(t)
      BY <3>1 DEF Lookup
    <3>2. CASE Build(t)
      BY <3>2 DEF Build
    <3>3. CASE Insert(t)
      BY <3>3 DEF Insert
    <3>4. CASE Send(t)
      BY <3>4 DEF Send
    <3>5. CASE Receive(t)
      BY <3>5 DEF Receive
    <3>6. QED
      BY <1>2, <3>1, <3>2, <3>3, <3>4, <3>5
  <2>3. CASE Gone(t)
    BY <2>1, <2>3, HomeGone
  <2>4. ASSUME NEW phase, NEW agent, NEW peer,
               GoTo(t, Thread(phase, fetch[t].cfg, agent, peer))
        PROVE  HomeInv'
    <3>1. PICK f : f = Thread(phase, fetch[t].cfg, agent, peer)
      OBVIOUS
    <3>2. f.cfg = fetch[t].cfg
      BY <3>1 DEF Thread
    <3>3. QED
      BY <2>1, <2>4, <3>1, <3>2, HomeThread
  <2>5. QED
    BY <2>2, <2>3, <2>4
<1>3. ASSUME NEW p \in Payloads, ChangeConfig(p)
      PROVE  HomeInv'
  <2>1. env' = env /\ fetch' = fetch /\ config' = FromSettings(env, p)
    BY <1>3 DEF ChangeConfig
  <2>2. ~env.optIn => KeepsHome(config', FromEnv(env))
    BY <2>1, OverlayKeepsHome
  <2>3. QED
    BY <2>1, <2>2 DEF HomeInv
<1>4. CASE EditBundle
  BY <1>4 DEF EditBundle, HomeInv
<1>5. CASE UNCHANGED vars
  BY <1>5 DEF vars, HomeInv
<1>6. QED
  BY <1>1, <1>2, <1>3, <1>4, <1>5 DEF Next

(* Without the opt-in no settings of the opened project reach the host,    *)
(* the port, the user, the paths, the deny list or the bundle of the       *)
(* configuration or of a running fetch, turn verification off, turn plain  *)
(* HTTP or private addresses on, or remove a pin.  They may put a pin of    *)
(* their own where the environment has another, a malformed one or none.   *)
THEOREM HomeKept == Spec => []HomeInv
<1>1. Init => HomeInv
  <2>1. ASSUME NEW c PROVE KeepsHome(c, c)
    BY DEF KeepsHome
  <2>2. QED
    BY <2>1 DEF Init, HomeInv
<1>2. QED
  BY <1>1, HomeNext, PTL DEF Spec

-----------------------------------------------------------------------------
(***************************************************************************)
(* The caps of the configuration                                           *)
(***************************************************************************)
LEMMA FirstOfKeeps ==
  ASSUME NEW S, NEW s \in Seq(S), NEW n \in Nat
  PROVE  FirstOf(s, n) \in Seq(S) /\ Len(FirstOf(s, n)) <= n
         /\ (s # <<>> /\ n > 0 => FirstOf(s, n) # <<>>)
<1> DEFINE k == Least(n, Len(s))
<1>1. k \in Nat /\ k <= n /\ k <= Len(s) /\ (n > 0 /\ Len(s) > 0 => k > 0)
  BY DEF Least
<1>2. FirstOf(s, n) = SubSeq(s, 1, k)
  BY DEF FirstOf
<1> HIDE DEF k
<1> DEFINE t == SubSeq(s, 1, k)
<1>3. \A j \in 1 .. k : s[j] \in S
  BY <1>1
<1>4. t \in Seq(S) /\ Len(t) = k
  BY <1>1, <1>3, SubSeqProperties
<1> HIDE DEF t
<1>5. s # <<>> => Len(s) > 0
  OBVIOUS
<1>6. t \in Seq(S) /\ Len(t) <= n /\ (s # <<>> /\ n > 0 => t # <<>>)
  BY <1>1, <1>4, <1>5
<1> QED BY <1>2, <1>6 DEF t

LEMMA CustomCapped ==
  ASSUME NEW raw \in Seq(Resources)
  PROVE  Len(CustomOf(raw)) <= MaxCustom
<1> DEFINE first == FirstOf(raw, MaxCustom)
           keep == {i \in DOMAIN first : first[i].valid}
<1>1. MaxCustom \in Nat
  BY SettingsAssumption
<1>2. first \in Seq(Resources) /\ Len(first) <= MaxCustom
  BY <1>1, FirstOfKeeps
<1>3. CustomOf(raw) = Chosen(first, keep)
  BY DEF CustomOf
<1>4. keep \in SUBSET DOMAIN first
  OBVIOUS
<1> HIDE DEF keep, first
<1>5. Len(Chosen(first, keep)) = Cardinality(keep)
  BY <1>2, <1>4, ChosenKeeps
<1>6. Len(first) \in Nat /\ keep \in SUBSET (1 .. Len(first))
  BY <1>2, <1>4
<1>7. Cardinality(keep) <= Len(first) /\ Cardinality(keep) \in Nat
  BY <1>6, PlacesFinite
<1> QED BY <1>1, <1>2, <1>3, <1>5, <1>6, <1>7

\* parse_deny_prefixes gives prefixes, and no more than its cap.
LEMMA DeniesCapped ==
  ASSUME NEW raw \in Seq(DenyEntries)
  PROVE  /\ DenyList(raw) \subseteq DenyPrefixes
         /\ IsFiniteSet(DenyList(raw)) /\ Cardinality(DenyList(raw)) <= MaxDenies
<1> DEFINE used[i \in 0 .. Len(raw)] == IF i = 0 THEN 0 ELSE used[i - 1] + raw[i].bytes + 1
           parsed == {i \in DOMAIN raw : raw[i].prefix # NoPrefix}
           read == {j \in parsed : used[j] <= MaxDenyBytes /\ Rank(parsed, j) <= MaxDenies}
           f == [i \in read |-> raw[i].prefix]
           g == [i \in read |-> Rank(parsed, i)]
<1>1. DenyList(raw) = {raw[i].prefix : i \in read}
  BY DEF DenyList
<1>2. parsed \subseteq DOMAIN raw /\ read \subseteq parsed
      /\ (\A i \in parsed : raw[i].prefix # NoPrefix)
      /\ \A i \in read : Rank(parsed, i) <= MaxDenies
  OBVIOUS
<1> HIDE DEF used
<1> HIDE DEF read, parsed
<1>3. MaxDenies \in Nat /\ Len(raw) \in Nat /\ DOMAIN raw = 1 .. Len(raw)
  BY SettingsAssumption
<1>4. \A i \in parsed : raw[i].prefix \in DenyPrefixes
  <2>1. \A i \in parsed : raw[i] \in DenyEntries
    BY <1>2
  <2>2. \A x \in DenyEntries : x.prefix \in DenyPrefixes \cup {NoPrefix}
    BY DEF DenyEntries
  <2> QED BY <1>2, <2>1, <2>2
<1>5. \A i \in parsed : Rank(parsed, i) \in 1 .. Cardinality(parsed) /\ Cardinality(parsed) \in Nat
  BY <1>2, <1>3, RankRange
<1>6. \A i, j \in parsed : Rank(parsed, i) = Rank(parsed, j) => i = j
  BY <1>2, <1>3, RankOnto
<1>7. \A i \in read : Rank(parsed, i) \in 1 .. MaxDenies
  BY <1>2, <1>3, <1>5
<1>8. IsFiniteSet(1 .. MaxDenies) /\ Cardinality(1 .. MaxDenies) = MaxDenies
  <2>1. 1 \in Int /\ MaxDenies \in Int
    BY <1>3
  <2>2. /\ IsFiniteSet(1 .. MaxDenies)
        /\ Cardinality(1 .. MaxDenies) = IF 1 > MaxDenies THEN 0 ELSE MaxDenies - 1 + 1
    BY <2>1, FS_Interval, Zenon
  <2> QED BY <1>3, <2>2
<1>9. IsFiniteSet(read) /\ Cardinality(read) <= MaxDenies /\ Cardinality(read) \in Nat
  <2>1. g \in [read -> 1 .. MaxDenies]
    BY <1>7
  <2>2. \A i, j \in read : g[i] = g[j] => i = j
    BY <1>2, <1>6
  <2> HIDE DEF g
  <2>3. g \in Injection(read, 1 .. MaxDenies)
    BY <2>1, <2>2 DEF Injection, IsInjective
  <2>4. IsFiniteSet(read) /\ Cardinality(read) <= Cardinality(1 .. MaxDenies)
    BY <1>8, <2>3, FS_Injection
  <2> QED BY <1>8, <2>4, FS_CardinalityType
<1>10. IsFiniteSet(DenyList(raw)) /\ Cardinality(DenyList(raw)) <= Cardinality(read)
  <2>1. f \in [read -> DenyList(raw)] /\ \A x \in DenyList(raw) : \E i \in read : f[i] = x
    BY <1>1
  <2> HIDE DEF f
  <2>2. f \in Surjection(read, DenyList(raw))
    BY <2>1, Fun_IsSurj
  <2> QED BY <1>9, <2>2, FS_Surjection
<1>11. Cardinality(DenyList(raw)) \in Nat
  BY <1>10, FS_CardinalityType
<1>12. DenyList(raw) \subseteq DenyPrefixes
  BY <1>1, <1>2, <1>4
<1> QED BY <1>3, <1>9, <1>10, <1>11, <1>12

\* A configuration of an environment: typed, within the caps, with hosts that name
\* addresses and the deny list of the environment.
Grounded(c, e) ==
  /\ Configured(c)
  /\ c.hosts \in Seq(Hosts)
  /\ c.denies = DenyList(e.denies)

LEMMA Clamped ==
  ASSUME NEW n \in Nat
  PROVE  Clamp(n, 1, 30) \in 1 .. 30
BY DEF Clamp, Least

LEMMA CapsAreNat ==
  MaxHosts \in Nat /\ MaxCustom \in Nat /\ MaxDenies \in Nat
BY SettingsAssumption

LEMMA EnvGrounded ==
  ASSUME NEW e \in Envs
  PROVE  Grounded(FromEnv(e), e)
<1> DEFINE c == FromEnv(e)
<1>1. e.hosts \in Seq(Hosts) /\ e.custom \in Seq(Resources) /\ e.denies \in Seq(DenyEntries)
  BY InputAssumption DEF IsEnvironment
<1>2. e.port \in Nat /\ e.timeout \in Nat /\ e.pin \in Pins \cup {NoPin, BadPin}
  BY InputAssumption DEF IsEnvironment
<1>3. /\ e.enabled \in BOOLEAN /\ e.pass \in BOOLEAN /\ e.verify \in BOOLEAN
      /\ e.http \in BOOLEAN /\ e.allow \in BOOLEAN /\ e.ca \in BOOLEAN
  BY InputAssumption DEF IsEnvironment
<1>4. c.hosts = FirstOf(e.hosts, MaxHosts) /\ c.custom = CustomOf(e.custom)
  BY DEF FromEnv
<1>5. c.denies = DenyList(e.denies) /\ c.timeout = Clamp(e.timeout, 1, 30)
  BY DEF FromEnv
<1>6. /\ c.enabled = e.enabled /\ c.pass = e.pass /\ c.verify = e.verify /\ c.http = e.http
      /\ c.allow = e.allow /\ c.ca = e.ca
  BY DEF FromEnv
<1>7. c.port \in Ports
  <2>1. 443 \in Ports
    BY SMT DEF Ports
  <2>2. c.port = IF e.port \in Ports THEN e.port ELSE 443
    BY DEF FromEnv
  <2> QED BY <2>1, <2>2
<1>8. c.pin \in Pins \cup {NoPin} /\ c.pinBad \in BOOLEAN
  BY <1>2 DEF FromEnv
<1> HIDE DEF c
<1>9. c.hosts \in Seq(Hosts) /\ Len(c.hosts) <= MaxHosts
  BY <1>1, <1>4, FirstOfKeeps, CapsAreNat
<1>10. Len(c.custom) <= MaxCustom
  BY <1>1, <1>4, CustomCapped
<1>11. Cardinality(c.denies) <= MaxDenies
  BY <1>1, <1>5, DeniesCapped
<1>12. c.timeout \in 1 .. 30
  BY <1>2, <1>5, Clamped
<1>13. {c.enabled, c.pass, c.verify, c.http, c.allow, c.pinBad, c.ca} \subseteq BOOLEAN
  BY <1>3, <1>6, <1>8
<1>14. Configured(c)
  BY <1>7, <1>8, <1>9, <1>10, <1>11, <1>12, <1>13 DEF Configured
<1>15. Grounded(c, e)
  BY <1>5, <1>9, <1>14 DEF Grounded
<1> QED BY <1>15 DEF c

LEMMA OverlayGrounded ==
  ASSUME NEW e \in Envs, NEW c, Grounded(c, e), NEW s, IsSettings(s), NEW ok
  PROVE  Grounded(Overlay(c, s, ok), e)
<1> DEFINE d == Overlay(c, s, ok)
<1>1. /\ c.hosts \in Seq(Hosts) /\ Len(c.hosts) <= MaxHosts /\ Len(c.custom) <= MaxCustom
      /\ Cardinality(c.denies) <= MaxDenies /\ c.denies = DenyList(e.denies)
      /\ c.port \in Ports /\ c.timeout \in 1 .. 30 /\ c.pin \in Pins \cup {NoPin}
      /\ c.enabled \in BOOLEAN /\ c.pass \in BOOLEAN /\ c.verify \in BOOLEAN
      /\ c.http \in BOOLEAN /\ c.allow \in BOOLEAN /\ c.pinBad \in BOOLEAN /\ c.ca \in BOOLEAN
  BY DEF Grounded, Configured
<1>2. /\ Has(s, "hosts") => s.hosts \in Seq(Hosts)
      /\ Has(s, "custom") => s.custom \in Seq(Resources)
      /\ Has(s, "port") => s.port \in Ports
      /\ Has(s, "timeout") => s.timeout \in Nat
      /\ Has(s, "verify") => s["verify"] \in BOOLEAN
      /\ Has(s, "http") => s["http"] \in BOOLEAN
      /\ Has(s, "allow") => s["allow"] \in BOOLEAN
      /\ Has(s, "ca") => s.ca \in BOOLEAN
  BY DEF IsSettings
<1>3. /\ d.enabled = c.enabled /\ d.pass = c.pass /\ d.denies = c.denies
      /\ d.hosts = HostsAfter(c, s, ok) /\ d.port = PortAfter(c, s, ok)
      /\ d.custom = CustomAfter(c, s, ok) /\ d.ca = CaAfter(c, s, ok)
      /\ d.timeout = TimeoutAfter(c, s)
      /\ d.verify = SwitchAfter(c, s, "verify", FALSE, ok)
      /\ d.http = SwitchAfter(c, s, "http", TRUE, ok)
      /\ d.allow = SwitchAfter(c, s, "allow", TRUE, ok)
      /\ d.pin = PinAfter(c, s, ok).pin /\ d.pinBad = PinAfter(c, s, ok).bad
  BY DEF Overlay
<1> HIDE DEF d
<1>4. d.hosts \in Seq(Hosts) /\ Len(d.hosts) <= MaxHosts
  <2>1. Has(s, "hosts") => /\ FirstOf(s.hosts, MaxHosts) \in Seq(Hosts)
                           /\ Len(FirstOf(s.hosts, MaxHosts)) <= MaxHosts
    BY <1>2, FirstOfKeeps, SettingsAssumption
  <2> QED BY <1>1, <1>3, <2>1 DEF HostsAfter
<1>5. Len(d.custom) <= MaxCustom
  BY <1>1, <1>2, <1>3, CustomCapped DEF CustomAfter
<1>6. d.port \in Ports /\ d.ca \in BOOLEAN
  BY <1>1, <1>2, <1>3 DEF PortAfter, CaAfter
<1>7. d.timeout \in 1 .. 30
  BY <1>1, <1>2, <1>3, Clamped DEF TimeoutAfter
<1>8. d.verify \in BOOLEAN /\ d.http \in BOOLEAN /\ d.allow \in BOOLEAN
  <2>1. d.verify \in BOOLEAN
    BY <1>1, <1>2, <1>3 DEF SwitchAfter
  <2>2. d.http \in BOOLEAN
    BY <1>1, <1>2, <1>3 DEF SwitchAfter
  <2>3. d.allow \in BOOLEAN
    BY <1>1, <1>2, <1>3 DEF SwitchAfter
  <2> QED BY <2>1, <2>2, <2>3
<1>9. d.pin \in Pins \cup {NoPin} /\ d.pinBad \in BOOLEAN
  BY <1>1, <1>3 DEF PinAfter
<1>10. Configured(d)
  BY <1>1, <1>3, <1>4, <1>5, <1>6, <1>7, <1>8, <1>9 DEF Configured
<1>11. Grounded(d, e)
  BY <1>1, <1>3, <1>4, <1>10 DEF Grounded
<1> QED BY <1>11 DEF d

LEMMA SettingsGrounded ==
  ASSUME NEW e \in Envs, NEW p \in Payloads
  PROVE  Grounded(FromSettings(e, p), e)
<1>1. IsSettings(FindSettings(p))
  <2>1. IsSettings(p.keys)
    BY InputAssumption
  <2>2. \A k : ~Has(<<>>, k)
    BY DEF Has
  <2>3. IsSettings(<<>>)
    BY <2>2 DEF IsSettings
  <2> QED BY <2>1, <2>3 DEF FindSettings
<1> QED BY <1>1, EnvGrounded, OverlayGrounded DEF FromSettings

-----------------------------------------------------------------------------
(***************************************************************************)
(* Types, and where the addresses of an agent come from.  An agent goes to *)
(* the addresses and the port of its key; from the lookup on, those of a   *)
(* fetch were checked under the configuration it captured.                 *)
(***************************************************************************)
Clean(addrs, c) ==
  /\ addrs # <<>>
  /\ \A i \in DOMAIN addrs :
       addrs[i] \in Addresses /\ ~DeniedIp(addrs[i], c.allow, c.denies)

FetchTyped(f, e) ==
  /\ f.phase \in {"lookup", "build", "insert", "ready", "sent"}
  /\ Grounded(f.cfg, e) /\ IsActive(f.cfg)
  /\ f.phase # "lookup" => Clean(f.agent.addrs, f.cfg) /\ f.agent.port = f.cfg.port

FetchesTyped ==
  /\ DOMAIN fetch \subseteq Fetchers
  /\ \A t \in DOMAIN fetch : FetchTyped(fetch[t], env)

Honest(x) == x.agent.addrs = x.key.addrs /\ x.agent.port = x.key.port

TInv ==
  /\ env \in Envs /\ Grounded(config, env)
  /\ bundle \in {"good", "broken", "unreadable"} /\ bad \in BOOLEAN /\ unread \in BOOLEAN
  /\ \A i \in DOMAIN agents : Honest(agents[i])
  /\ FetchesTyped
  /\ started \in 0 .. MaxStarts /\ changed \in 0 .. MaxChanges /\ edited \in 0 .. MaxEdits

\* What resolve_and_validate_host_with_denies lets through is not denied.
LEMMA DedupClean ==
  ASSUME NEW answer \in Seq(Addresses), NEW c, Resolved(answer, c.allow, c.denies)
  PROVE  Clean(Dedup(answer), c)
<1> DEFINE keep == {i \in DOMAIN answer : i = 1 \/ answer[i] # answer[i - 1]}
           kept == Chosen(answer, keep)
<1>1. Dedup(answer) = kept
  BY DEF Dedup
<1>2. keep \in SUBSET DOMAIN answer /\ 1 \in keep
  <2>1. answer # <<>>
    BY DEF Resolved
  <2>2. 1 \in DOMAIN answer
    BY <2>1
  <2> QED BY <2>2
<1> HIDE DEF keep
<1>3. /\ kept \in Seq(Addresses)
      /\ \A i \in keep : Rank(keep, i) \in 1 .. Len(kept)
      /\ \A m \in 1 .. Len(kept) : \E i \in keep : Rank(keep, i) = m /\ kept[m] = answer[i]
  BY <1>2, ChosenKeeps
<1> HIDE DEF kept
<1>4. DOMAIN kept = 1 .. Len(kept) /\ kept # <<>>
  <2>1. 1 .. Len(kept) # {}
    BY <1>2, <1>3
  <2> QED BY <1>3, <2>1
<1>5. \A i \in DOMAIN answer :
        answer[i] \in Addresses /\ ~DeniedIp(answer[i], c.allow, c.denies)
  BY DEF Resolved
<1>6. \A m \in DOMAIN kept : kept[m] \in Addresses /\ ~DeniedIp(kept[m], c.allow, c.denies)
  BY <1>2, <1>3, <1>4, <1>5
<1> QED BY <1>1, <1>4, <1>6 DEF Clean

LEMMA AnswersTyped ==
  ASSUME NEW c, NEW e, Grounded(c, e), IsActive(c)
  PROVE  AnswersFor(c.hosts[1]) \subseteq Seq(Addresses)
<1> DEFINE h == c.hosts[1]
<1>1. h \in Hosts
  <2>1. c.hosts \in Seq(Hosts) /\ c.hosts # <<>>
    BY DEF Grounded, IsActive
  <2> QED BY <2>1
<1> HIDE DEF h
<1>2. h.form = "literal" => h.addr \in Addresses
  BY <1>1 DEF Hosts
<1>3. h.form = "literal" => <<h.addr>> \in Seq(Addresses)
  BY <1>2
<1>4. Answers \subseteq Seq(Addresses)
  BY InputAssumption
<1> QED BY <1>3, <1>4 DEF AnswersFor, h

\* Where the entries of the cache come from when one is put at its end
LEMMA PutFrom ==
  ASSUME NEW s, IsSequence(s), Distinct(s), NEW e,
         Len(s) < MaxAgents \/ (Len(s) <= MaxAgents /\ Holds(s, e.key)),
         NEW t, t = Append(Without(s, e.key), e)
  PROVE  From(t, s, e)
<1>1. PICK S : s \in Seq(S)
  BY DEF IsSequence
<1>2. MaxAgents \in Nat
  BY LiveFetchAssumption
<1>3. /\ t \in Seq(S \cup {e})
      /\ Len(t) <= MaxAgents
      /\ Distinct(t)
      /\ From(t, s, e)
  BY <1>1, <1>2, PutKeeps
<1> QED BY <1>3

LEMMA LookupFrom ==
  ASSUME IInv, NEW k, Holds(agents, k),
         agents' = Append(Without(agents, k), agents[IndexOf(agents, k)])
  PROVE  \E e : From(agents', agents, e) /\ e.key = k /\ \E i \in DOMAIN agents : e = agents[i]
<1>1. PICK e, t : e = agents[IndexOf(agents, k)] /\ t = agents'
  OBVIOUS
<1>2. IndexOf(agents, k) \in DOMAIN agents /\ e.key = k
  BY <1>1 DEF Holds, IndexOf
<1>3. /\ IsSequence(agents) /\ Distinct(agents) /\ Len(agents) <= MaxAgents
      /\ Holds(agents, e.key) /\ t = Append(Without(agents, e.key), e)
  BY <1>1, <1>2 DEF IInv
<1>4. From(t, agents, e)
  BY <1>3, PutFrom
<1> QED BY <1>1, <1>2, <1>4

LEMMA InsertFrom ==
  ASSUME IInv, NEW k, NEW a, InsertAgent(k, a)
  PROVE  From(agents', agents, [key |-> k, agent |-> a])
<1>1. PICK S : agents \in Seq(S)
  BY DEF IInv, IsSequence
<1>2. /\ Distinct(agents) /\ Len(agents) <= MaxAgents /\ Len(agents) \in Nat
      /\ MaxAgents \in Nat /\ MaxAgents > 0
  BY <1>1, LiveFetchAssumption DEF IInv
<1>3. PICK e, t, s : /\ e = [key |-> k, agent |-> a] /\ t = agents'
                     /\ s = IF Len(agents) >= MaxAgents THEN Tail(agents) ELSE agents
  OBVIOUS
<1>4. t = Append(Without(s, e.key), e)
  BY <1>3 DEF InsertAgent
<1>5. s \in Seq(S) /\ Distinct(s) /\ Len(s) < MaxAgents
      /\ \A j \in DOMAIN s : \E m \in DOMAIN agents : s[j] = agents[m]
  <2>1. CASE Len(agents) >= MaxAgents
    <3>1. s = Tail(agents) /\ Len(agents) > 0
      BY <1>2, <1>3, <2>1
    <3>2. /\ s \in Seq(S) /\ Len(s) = Len(agents) - 1 /\ Distinct(s)
          /\ \A j \in DOMAIN s : \E m \in DOMAIN agents : s[j] = agents[m]
      BY <1>1, <1>2, <3>1, TailKeeps
    <3> QED BY <1>2, <3>2
  <2>2. CASE ~(Len(agents) >= MaxAgents)
    <3>1. s = agents
      BY <1>3, <2>2
    <3> QED BY <1>1, <1>2, <2>2, <3>1
  <2> QED BY <2>1, <2>2
<1>6. IsSequence(s)
  BY <1>5 DEF IsSequence
<1>7. From(t, s, e)
  BY <1>4, <1>5, <1>6, PutFrom
<1> QED BY <1>3, <1>5, <1>7 DEF From

LEMMA HonestFrom ==
  ASSUME NEW e, Honest(e), From(agents', agents, e), \A i \in DOMAIN agents : Honest(agents[i])
  PROVE  \A i \in DOMAIN agents' : Honest(agents'[i])
BY DEF From

\* A thread that moves on
LEMMA TypedGo ==
  ASSUME FetchesTyped, env' = env, NEW t \in Fetchers, NEW f, GoTo(t, f), FetchTyped(f, env)
  PROVE  FetchesTyped'
BY DEF FetchesTyped, GoTo

LEMMA TypedGone ==
  ASSUME FetchesTyped, env' = env, NEW t, Gone(t)
  PROVE  FetchesTyped'
BY DEF FetchesTyped, Gone

LEMMA TypedInit == Init => TInv
<1> SUFFICES ASSUME Init PROVE TInv
  OBVIOUS
<1>1. env \in Envs /\ Grounded(config, env)
  BY EnvGrounded DEF Init
<1>2. bundle \in {"good", "broken", "unreadable"} /\ bad \in BOOLEAN /\ unread \in BOOLEAN
  BY DEF Init
<1>3. DOMAIN agents = {} /\ DOMAIN fetch = {}
  BY DEF Init
<1>4. FetchesTyped
  BY <1>3 DEF FetchesTyped
<1>5. started \in 0 .. MaxStarts /\ changed \in 0 .. MaxChanges /\ edited \in 0 .. MaxEdits
  BY LiveFetchAssumption DEF Init
<1> QED BY <1>1, <1>2, <1>3, <1>4, <1>5 DEF TInv

LEMMA TypedStart == TInv /\ Start => TInv'
<1> SUFFICES ASSUME TInv, Start PROVE TInv'
  OBVIOUS
<1>1. UNCHANGED <<env, config, bundle, bad, agents, unread, changed, edited>> /\ IsActive(config)
  BY DEF Start
<1>2. PICK t, f : t \in Idle /\ f = Thread("lookup", config, NoAgent, NoPeer) /\ GoTo(t, f)
  BY DEF Start
<1>3. f.phase = "lookup" /\ f.cfg = config
  BY <1>2 DEF Thread
<1>4. FetchTyped(f, env) /\ FetchesTyped /\ t \in Fetchers
  BY <1>1, <1>2, <1>3 DEF TInv, FetchTyped, Idle
<1>5. FetchesTyped'
  BY <1>1, <1>2, <1>4, TypedGo
<1>6. started' \in 0 .. MaxStarts
  BY LiveFetchAssumption DEF Start, TInv
<1> QED BY <1>1, <1>5, <1>6 DEF TInv

\* The parts of TInv that a step of a thread leaves alone
LEMMA TypedStep ==
  ASSUME TInv, UNCHANGED <<env, config, bundle, started, changed, edited>>,
         bad' \in BOOLEAN, unread' \in BOOLEAN, FetchesTyped',
         \A i \in DOMAIN agents' : Honest(agents'[i])
  PROVE  TInv'
BY DEF TInv

LEMMA TypedLookup ==
  ASSUME IInv, TInv, NEW t, Lookup(t)
  PROVE  TInv'
<1> DEFINE c == fetch[t].cfg
<1>1. /\ t \in DOMAIN fetch /\ t \in Fetchers /\ FetchTyped(fetch[t], env)
      /\ UNCHANGED <<env, config, bundle, bad, unread, started, changed, edited>>
  BY DEF Lookup, At, TInv, FetchesTyped
<1>2. PICK answer \in AnswersFor(c.hosts[1]) :
        IF Resolved(answer, c.allow, c.denies)
          THEN LET addrs == Dedup(answer)
                   k == Key(c, env.shim, addrs)
               IN  IF Holds(agents, k)
                     THEN LET e == agents[IndexOf(agents, k)] IN
                            /\ agents' = Append(Without(agents, k), e)
                            /\ GoTo(t, Thread("ready", c, e.agent, NoPeer))
                     ELSE /\ GoTo(t, Thread("build", c, Agent("none", NoPin, addrs, c.port), NoPeer))
                          /\ UNCHANGED agents
          ELSE Gone(t) /\ UNCHANGED agents
  BY DEF Lookup
<1>3. Grounded(c, env) /\ IsActive(c)
  BY <1>1 DEF FetchTyped
<1>4. answer \in Seq(Addresses)
  BY <1>3, AnswersTyped
<1>5. CASE Gone(t) /\ UNCHANGED agents
  <2>1. FetchesTyped'
    BY <1>1, <1>5, TypedGone DEF TInv
  <2> QED BY <1>1, <1>5, <2>1, TypedStep DEF TInv
<1> DEFINE addrs == Dedup(answer)
           k == Key(c, env.shim, addrs)
<1>6. k.addrs = addrs /\ k.port = c.port
  BY DEF Key
<1>7. ASSUME Resolved(answer, c.allow, c.denies), Holds(agents, k),
             agents' = Append(Without(agents, k), agents[IndexOf(agents, k)]),
             GoTo(t, Thread("ready", c, agents[IndexOf(agents, k)].agent, NoPeer))
      PROVE  TInv'
  <2>1. Clean(addrs, c)
    BY <1>4, <1>7, DedupClean
  <2> HIDE DEF c, addrs, k
  <2>2. PICK i, e, f : /\ i = IndexOf(agents, k) /\ e = agents[i]
                       /\ f = Thread("ready", c, e.agent, NoPeer)
    OBVIOUS
  <2>3. i \in DOMAIN agents /\ e.key = k
    BY <1>7, <2>2 DEF Holds, IndexOf
  <2>4. e.agent.addrs = addrs /\ e.agent.port = c.port
    BY <1>6, <2>2, <2>3 DEF TInv, Honest
  <2>5. f.phase = "ready" /\ f.cfg = c /\ f.agent = e.agent
    BY <2>2 DEF Thread
  <2>6. FetchTyped(f, env) /\ GoTo(t, f)
    BY <1>3, <1>7, <2>1, <2>2, <2>4, <2>5 DEF FetchTyped
  <2>7. FetchesTyped'
    BY <1>1, <2>6, TypedGo DEF TInv
  <2>8. PICK x : From(agents', agents, x) /\ \E j \in DOMAIN agents : x = agents[j]
    BY <1>7, LookupFrom
  <2>9. \A j \in DOMAIN agents' : Honest(agents'[j])
    BY <2>8, HonestFrom DEF TInv
  <2> QED BY <1>1, <2>7, <2>9, TypedStep DEF TInv
<1>8. ASSUME Resolved(answer, c.allow, c.denies), UNCHANGED agents,
             GoTo(t, Thread("build", c, Agent("none", NoPin, addrs, c.port), NoPeer))
      PROVE  TInv'
  <2>1. Clean(addrs, c)
    BY <1>4, <1>8, DedupClean
  <2> HIDE DEF c, addrs
  <2>2. PICK f : f = Thread("build", c, Agent("none", NoPin, addrs, c.port), NoPeer)
    OBVIOUS
  <2>3. f.phase = "build" /\ f.cfg = c /\ f.agent.addrs = addrs /\ f.agent.port = c.port
    BY <2>2 DEF Thread, Agent
  <2>4. FetchTyped(f, env) /\ GoTo(t, f)
    BY <1>3, <1>8, <2>1, <2>2, <2>3 DEF FetchTyped
  <2>5. FetchesTyped'
    BY <1>1, <2>4, TypedGo DEF TInv
  <2> QED BY <1>1, <1>8, <2>5, TypedStep DEF TInv
<1> QED BY <1>2, <1>5, <1>7, <1>8

LEMMA TypedBuild ==
  ASSUME TInv, NEW t, Build(t)
  PROVE  TInv'
<1> DEFINE c == fetch[t].cfg
           addrs == fetch[t].agent.addrs
<1>1. /\ t \in DOMAIN fetch /\ t \in Fetchers /\ fetch[t].phase = "build"
      /\ FetchTyped(fetch[t], env)
      /\ UNCHANGED <<env, config, bundle, agents, started, changed, edited>>
      /\ GoTo(t, Thread("insert", c, Built(c, env.shim, addrs), NoPeer))
  BY DEF Build, At, TInv, FetchesTyped
<1>2. bad' \in BOOLEAN /\ unread' \in BOOLEAN
  BY DEF Build
<1>3. Grounded(c, env) /\ IsActive(c) /\ Clean(addrs, c)
  BY <1>1 DEF FetchTyped
<1>4. PICK f : f = Thread("insert", c, Built(c, env.shim, addrs), NoPeer)
  OBVIOUS
<1>5. f.phase = "insert" /\ f.cfg = c /\ f.agent.addrs = addrs /\ f.agent.port = c.port
  BY <1>4 DEF Thread, Built, Agent
<1> HIDE DEF c, addrs
<1>6. FetchTyped(f, env) /\ GoTo(t, f)
  BY <1>1, <1>3, <1>4, <1>5 DEF FetchTyped
<1>7. FetchesTyped'
  BY <1>1, <1>6, TypedGo DEF TInv
<1> QED BY <1>1, <1>2, <1>7, TypedStep DEF TInv

LEMMA TypedInsert ==
  ASSUME IInv, TInv, NEW t, Insert(t)
  PROVE  TInv'
<1> DEFINE c == fetch[t].cfg
           a == fetch[t].agent
           k == Key(c, env.shim, a.addrs)
<1>1. /\ t \in DOMAIN fetch /\ t \in Fetchers /\ fetch[t].phase = "insert"
      /\ FetchTyped(fetch[t], env)
      /\ UNCHANGED <<env, config, bundle, bad, unread, started, changed, edited>>
      /\ InsertAgent(k, a) /\ GoTo(t, Thread("ready", c, a, NoPeer))
  BY DEF Insert, At, TInv, FetchesTyped
<1>2. Grounded(c, env) /\ IsActive(c) /\ Clean(a.addrs, c) /\ a.port = c.port
  BY <1>1 DEF FetchTyped
<1>3. k.addrs = a.addrs /\ k.port = c.port
  BY DEF Key
<1>4. PICK f, e : f = Thread("ready", c, a, NoPeer) /\ e = [key |-> k, agent |-> a]
  OBVIOUS
<1>5. f.phase = "ready" /\ f.cfg = c /\ f.agent = a /\ e.key = k /\ e.agent = a
  BY <1>4 DEF Thread
<1> HIDE DEF c, a, k
<1>6. FetchTyped(f, env) /\ GoTo(t, f)
  BY <1>1, <1>2, <1>4, <1>5 DEF FetchTyped
<1>7. FetchesTyped'
  BY <1>1, <1>6, TypedGo DEF TInv
<1>8. Honest(e)
  BY <1>2, <1>3, <1>5 DEF Honest
<1>9. From(agents', agents, e)
  BY <1>1, <1>4, InsertFrom
<1>10. \A i \in DOMAIN agents' : Honest(agents'[i])
  BY <1>8, <1>9, HonestFrom DEF TInv
<1> QED BY <1>1, <1>7, <1>10, TypedStep DEF TInv

LEMMA TypedSend ==
  ASSUME TInv, NEW t, Send(t)
  PROVE  TInv'
<1>1. /\ t \in DOMAIN fetch /\ t \in Fetchers /\ fetch[t].phase = "ready"
      /\ FetchTyped(fetch[t], env)
      /\ UNCHANGED <<env, config, bundle, bad, agents, unread, started, changed, edited>>
  BY DEF Send, At, TInv, FetchesTyped
<1>2. PICK peer : \/ Gone(t)
                  \/ GoTo(t, Thread("sent", fetch[t].cfg, fetch[t].agent, peer))
  BY DEF Send
<1>3. CASE Gone(t)
  <2>1. FetchesTyped'
    BY <1>1, <1>3, TypedGone DEF TInv
  <2> QED BY <1>1, <2>1, TypedStep DEF TInv
<1>4. CASE GoTo(t, Thread("sent", fetch[t].cfg, fetch[t].agent, peer))
  <2>1. PICK f : f = Thread("sent", fetch[t].cfg, fetch[t].agent, peer)
    OBVIOUS
  <2>2. f.phase = "sent" /\ f.cfg = fetch[t].cfg /\ f.agent = fetch[t].agent
    BY <2>1 DEF Thread
  <2>3. FetchTyped(f, env) /\ GoTo(t, f)
    BY <1>1, <1>4, <2>1, <2>2 DEF FetchTyped
  <2>4. FetchesTyped'
    BY <1>1, <2>3, TypedGo DEF TInv
  <2> QED BY <1>1, <2>4, TypedStep DEF TInv
<1> QED BY <1>2, <1>3, <1>4

LEMMA TypedNext == IInv /\ TInv /\ [Next]_vars => TInv'
<1> SUFFICES ASSUME IInv, TInv, [Next]_vars PROVE TInv'
  OBVIOUS
<1>1. CASE Start
  BY <1>1, TypedStart
<1>2. ASSUME NEW t \in DOMAIN fetch, Lookup(t) PROVE TInv'
  BY <1>2, TypedLookup
<1>3. ASSUME NEW t \in DOMAIN fetch, Build(t) PROVE TInv'
  BY <1>3, TypedBuild
<1>4. ASSUME NEW t \in DOMAIN fetch, Insert(t) PROVE TInv'
  BY <1>4, TypedInsert
<1>5. ASSUME NEW t \in DOMAIN fetch, Send(t) PROVE TInv'
  BY <1>5, TypedSend
<1>6. ASSUME NEW t \in DOMAIN fetch, Receive(t) PROVE TInv'
  <2>1. Gone(t) /\ UNCHANGED <<env, config, bundle, bad, agents, unread, started, changed, edited>>
    BY <1>6 DEF Receive
  <2>2. FetchesTyped'
    BY <2>1, TypedGone DEF TInv
  <2> QED BY <2>1, <2>2, TypedStep DEF TInv
<1>7. ASSUME NEW p \in Payloads, ChangeConfig(p) PROVE TInv'
  <2>1. UNCHANGED <<env, bundle, bad, agents, fetch, unread, started, edited>>
        /\ config' = FromSettings(env, p)
    BY <1>7 DEF ChangeConfig
  <2>2. Grounded(config', env)
    BY <2>1, SettingsGrounded DEF TInv
  <2>3. changed' \in 0 .. MaxChanges
    BY <1>7, LiveFetchAssumption DEF ChangeConfig, TInv
  <2>4. FetchesTyped'
    BY <2>1 DEF TInv, FetchesTyped
  <2> QED BY <2>1, <2>2, <2>3, <2>4 DEF TInv
<1>8. CASE EditBundle
  <2>1. UNCHANGED <<env, config, bad, agents, fetch, unread, started, changed>>
        /\ bundle' \in {"good", "broken", "unreadable"}
    BY <1>8 DEF EditBundle
  <2>2. edited' \in 0 .. MaxEdits
    BY <1>8, LiveFetchAssumption DEF EditBundle, TInv
  <2>3. FetchesTyped'
    BY <2>1 DEF TInv, FetchesTyped
  <2> QED BY <2>1, <2>2, <2>3 DEF TInv
<1>9. CASE UNCHANGED vars
  <2>1. UNCHANGED <<env, config, bundle, bad, agents, fetch, unread, started, changed, edited>>
    BY <1>9 DEF vars
  <2>2. FetchesTyped'
    BY <2>1 DEF TInv, FetchesTyped
  <2> QED BY <2>1, <2>2 DEF TInv
<1> QED BY <1>1, <1>2, <1>3, <1>4, <1>5, <1>6, <1>7, <1>8, <1>9 DEF Next

LEMMA TypedHolds == Spec => []TInv
<1>1. Init => IInv /\ TInv
  BY InvInit, TypedInit
<1>2. IInv /\ TInv /\ [Next]_vars => (IInv /\ TInv)'
  BY InvNext, TypedNext
<1> QED BY <1>1, <1>2, PTL DEF Spec

-----------------------------------------------------------------------------
(***************************************************************************)
(* The properties that follow                                              *)
(***************************************************************************)

(* Every variable has its type, with the configurations, the running       *)
(* fetches' and the server's, within the caps that live_config.rs puts on  *)
(* hosts, paths and deny prefixes, for every environment and payload.      *)
THEOREM TypeCorrect == Spec => []TypeOK
<1>1. IInv /\ TInv => TypeOK
  <2> SUFFICES ASSUME IInv, TInv PROVE TypeOK
    OBVIOUS
  <2>1. AgentsBounded
    BY DEF IInv, AgentsBounded, Distinct
  <2>2. Configured(config)
    BY DEF TInv, Grounded
  <2>3. DOMAIN fetch \subseteq Fetchers
    BY DEF TInv, FetchesTyped
  <2>4. \A t \in DOMAIN fetch :
          /\ fetch[t].phase \in {"lookup", "build", "insert", "ready", "sent"}
          /\ Configured(fetch[t].cfg) /\ IsActive(fetch[t].cfg)
    BY DEF TInv, FetchesTyped, FetchTyped, Grounded
  <2> QED BY <2>1, <2>2, <2>3, <2>4 DEF TInv, TypeOK
<1> QED BY <1>1, InvHolds, TypedHolds, PTL

\* What a fetch that has sent was checked for
LEMMA SentClean ==
  ASSUME TInv, NEW t \in DOMAIN fetch, Sent(t)
  PROVE  /\ Grounded(fetch[t].cfg, env) /\ Clean(fetch[t].agent.addrs, fetch[t].cfg)
         /\ fetch[t].agent.port = fetch[t].cfg.port
BY DEF TInv, FetchesTyped, FetchTyped, Sent, At

\* The list of a configuration is made of prefixes and the opt-in is a switch.
LEMMA GroundedPolicy ==
  ASSUME TInv, NEW c, Grounded(c, env)
  PROVE  /\ c.denies = DenyList(env.denies) /\ c.denies \in SUBSET DenyPrefixes
         /\ c.allow \in BOOLEAN
<1>1. env.denies \in Seq(DenyEntries)
  BY InputAssumption DEF TInv, IsEnvironment
<1>2. DenyList(env.denies) \subseteq DenyPrefixes
  BY <1>1, DeniesCapped
<1> QED BY <1>2 DEF Grounded, Configured

(* The credentials go to addresses that the documented ranges allow under  *)
(* the configuration the fetch captured and that no entry of the           *)
(* operator's list covers, whatever the resolver answers and whichever     *)
(* fetch built the agent.                                                  *)
THEOREM AddressesChecked == Spec => []AddressesAllowed
<1>1. TInv => AddressesAllowed
  <2> SUFFICES ASSUME TInv, NEW t \in DOMAIN fetch, Sent(t)
               PROVE  LET c == fetch[t].cfg IN
                        /\ fetch[t].agent.addrs # <<>>
                        /\ \A i \in DOMAIN fetch[t].agent.addrs :
                             ~Documented(fetch[t].agent.addrs[i], c.allow, DenyList(env.denies))
    BY DEF AddressesAllowed
  <2> DEFINE c == fetch[t].cfg
             addrs == fetch[t].agent.addrs
  <2>1. Grounded(c, env) /\ Clean(addrs, c)
    BY SentClean
  <2> HIDE DEF c, addrs
  <2>2. /\ c.denies = DenyList(env.denies) /\ c.denies \in SUBSET DenyPrefixes
        /\ c.allow \in BOOLEAN
    BY <2>1, GroundedPolicy
  <2>3. addrs # <<>>
    BY <2>1 DEF Clean
  <2>4. ASSUME NEW i \in DOMAIN addrs
        PROVE  ~Documented(addrs[i], c.allow, DenyList(env.denies))
    <3>1. addrs[i] \in Addresses /\ ~DeniedIp(addrs[i], c.allow, c.denies)
      BY <2>1, <2>4 DEF Clean
    <3> QED BY <2>2, <3>1, DeniedAsDocumented
  <2> QED BY <2>3, <2>4 DEF c, addrs
<1> QED BY <1>1, TypedHolds, PTL

(* The tests on octets of live_net.rs decide the documented blocks on      *)
(* every edge of every block, under the opt-in and the deny list of any    *)
(* environment.                                                            *)
THEOREM PolicyProved == Spec => []PolicyExact
<1>1. TInv => PolicyExact
  <2> SUFFICES ASSUME TInv, NEW a \in Probes, NEW denies \in ProbeDenies \cup {config.denies}
               PROVE  DeniedIp(a, config.allow, denies)
                        <=> Documented(a, config.allow, denies)
    BY DEF PolicyExact
  <2>1. Grounded(config, env)
    BY DEF TInv
  <2>2. config.denies \in SUBSET DenyPrefixes /\ config.allow \in BOOLEAN
    BY <2>1, GroundedPolicy
  <2>3. denies \in SUBSET DenyPrefixes
    BY <2>2, BlocksArePrefixes
  <2>4. a \in Addresses
    BY ProbesAreAddresses
  <2> QED BY <2>2, <2>3, <2>4, DeniedAsDocumented
<1> QED BY <1>1, TypedHolds, PTL

\* Without the opt-in, what the addresses of a fetch were checked for covers what
\* the environment asks for: private addresses stay closed unless it opens them.
LEMMA HomeAddresses ==
  ASSUME NEW c, NEW home, KeepsHome(c, home), c.allow \in BOOLEAN, home.allow \in BOOLEAN,
         c.denies \in SUBSET DenyPrefixes, NEW a \in Addresses,
         ~DeniedIp(a, c.allow, c.denies)
  PROVE  ~Documented(a, home.allow, {})
<1>1. ~Documented(a, c.allow, c.denies)
  BY DeniedAsDocumented
<1>2. c.allow => home.allow
  BY DEF KeepsHome
<1> QED BY <1>1, <1>2 DEF Documented

\* A malformed pin of the environment leaves none.
LEMMA HomePin ==
  ASSUME NEW e
  PROVE  FromEnv(e).pinBad => FromEnv(e).pin = NoPin
BY DEF FromEnv

\* Without the opt-in, a device that a configuration trusts is one the environment
\* trusts, but for a pin of the project.
LEMMA HomeTrusts ==
  ASSUME NEW c, NEW home, KeepsHome(c, home), NEW peer, Trusts(c, peer),
         c.verify \in BOOLEAN, home.pinBad \in BOOLEAN,
         home.pinBad => home.pin = NoPin
  PROVE  \/ Trusts(home, peer)
         \/ /\ c.pin # home.pin /\ peer.pin = c.pin
            /\ home.ca => peer.issuer = "bundle"
<1>1. c.ca = home.ca /\ (home.ca => peer.issuer = "bundle") /\ ~c.pinBad
  BY DEF KeepsHome, Trusts
<1>2. c.pin # NoPin => peer.pin = c.pin
  BY DEF Trusts
<1>3. CASE c.pin # home.pin
  BY <1>1, <1>2, <1>3, SettingsAssumption DEF KeepsHome
<1>4. CASE c.pin = home.pin
  <2>1. ~home.pinBad
    BY <1>1, <1>4, SettingsAssumption DEF KeepsHome
  <2>2. home.verify => c.verify
    BY DEF KeepsHome
  <2> QED BY <1>1, <1>2, <1>4, <2>1, <2>2 DEF Trusts
<1> QED BY <1>3, <1>4

(* Without the opt-in a project's settings cannot send the credentials     *)
(* to another host, port, user or path than the environment names, over    *)
(* plain HTTP or into a private network.  Over TLS the device is one the   *)
(* environment trusts or one that has a pin of the project, checked beside *)
(* the bundle of the environment; an unread bundle is the exception that   *)
(* DeviceTrusted has.                                                      *)
THEOREM SettingsHome == Spec => []SettingsStayHome
<1>1. IInv /\ TInv /\ HomeInv /\ DeviceTrusted => SettingsStayHome
  <2> SUFFICES ASSUME IInv, TInv, HomeInv, DeviceTrusted,
                      NEW t \in DOMAIN fetch, Sent(t), ~env.optIn
               PROVE  LET c == fetch[t].cfg
                          peer == fetch[t].peer
                          home == FromEnv(env)
                      IN  /\ <<c.hosts, fetch[t].agent.port, c.user, c.custom>> =
                               <<home.hosts, home.port, home.user, home.custom>>
                          /\ Https(home, env.shim) => Https(c, env.shim)
                          /\ \A i \in DOMAIN fetch[t].agent.addrs :
                               ~Documented(fetch[t].agent.addrs[i], home.allow, {})
                          /\ Https(home, env.shim) =>
                               \/ Trusts(home, peer)
                               \/ /\ c.pin # home.pin /\ peer.pin = c.pin
                                  /\ home.ca => peer.issuer = "bundle"
                               \/ home.ca /\ unread /\ peer.issuer = "system"
    BY DEF SettingsStayHome
  <2> DEFINE c == fetch[t].cfg
             a == fetch[t].agent
             peer == fetch[t].peer
             home == FromEnv(env)
  <2>1. KeepsHome(c, home)
    BY DEF HomeInv
  <2>2. Https(c, env.shim) => Trusts(c, peer) \/ (c.ca /\ unread /\ peer.issuer = "system")
    BY DEF DeviceTrusted
  <2>3. Grounded(c, env) /\ Clean(a.addrs, c) /\ a.port = c.port
    BY SentClean
  <2>4. Grounded(home, env)
    BY InputAssumption, EnvGrounded DEF TInv
  <2>5. home.pinBad => home.pin = NoPin
    BY HomePin
  <2> HIDE DEF c, a, peer, home
  <2>6. /\ c.verify \in BOOLEAN /\ c.http \in BOOLEAN /\ c.allow \in BOOLEAN
        /\ home.allow \in BOOLEAN /\ home.pinBad \in BOOLEAN
        /\ c.denies \in SUBSET DenyPrefixes
    BY <2>3, <2>4, GroundedPolicy DEF Grounded, Configured
  <2>7. Https(home, env.shim) => Https(c, env.shim)
    BY <2>1, <2>6 DEF Https, KeepsHome
  <2>8. Https(home, env.shim) =>
          \/ Trusts(home, peer)
          \/ /\ c.pin # home.pin /\ peer.pin = c.pin
             /\ home.ca => peer.issuer = "bundle"
          \/ home.ca /\ unread /\ peer.issuer = "system"
    <3>1. c.ca = home.ca
      BY <2>1 DEF KeepsHome
    <3> QED BY <2>1, <2>2, <2>5, <2>6, <2>7, <3>1, HomeTrusts
  <2>9. ASSUME NEW i \in DOMAIN a.addrs
        PROVE  ~Documented(a.addrs[i], home.allow, {})
    <3>1. a.addrs[i] \in Addresses /\ ~DeniedIp(a.addrs[i], c.allow, c.denies)
      BY <2>3, <2>9 DEF Clean
    <3> QED BY <2>1, <2>6, <3>1, HomeAddresses
  <2>10. <<c.hosts, a.port, c.user, c.custom>> =
           <<home.hosts, home.port, home.user, home.custom>>
    BY <2>1, <2>3 DEF KeepsHome
  <2> QED BY <2>7, <2>8, <2>9, <2>10 DEF c, a, peer, home
<1> QED BY <1>1, InvHolds, TypedHolds, HomeKept, TrustHolds, PTL
=============================================================================
