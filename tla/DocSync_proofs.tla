--------------------------- MODULE DocSync_proofs ---------------------------
(***************************************************************************)
(* Theorems about DocSync, for every set of documents, every alphabet with *)
(* its widths and every cap: positions of the client lead back to their    *)
(* offsets, the stored text is the client's, and the store, the parse      *)
(* cache, its queue and the diagnostics keep their caps and follow it.     *)
(***************************************************************************)
EXTENDS DocSync, Lists_proofs, FiniteSetTheorems, SequenceTheorems, TLAPS

(***************************************************************************)
(* What a text adds up to                                                  *)
(***************************************************************************)
Weights == [Chars -> Nat \ {0}]

\* f has the sums of the first characters of t, up to n of them.
Adds(w, t, n, f) == f = [k \in 0 .. n |-> IF k = 0 THEN 0 ELSE f[k - 1] + w[t[k]]]
Sums(w, t, f) ==
  /\ f[0] = 0
  /\ \A k \in 1 .. Len(t) : f[k] = f[k - 1] + w[t[k]] /\ w[t[k]] \in Nat \ {0}
  /\ \A k \in 0 .. Len(t) : f[k] \in Nat

\* The sums exist, and the total is the last of them.
LEMMA TotalAdds ==
  ASSUME NEW w, NEW t \in Text
  PROVE  \E f : Adds(w, t, Len(t), f) /\ Total(w, t) = f[Len(t)]
<1> DEFINE S == {n \in Nat : \E f : Adds(w, t, n, f)}
<1>1. 0 \in S
  <2>1. Adds(w, t, 0, [k \in 0 .. 0 |-> 0])
    BY DEF Adds
  <2> QED BY <2>1
<1>2. ASSUME NEW n \in Nat, n \in S PROVE n + 1 \in S
  <2>1. PICK f : Adds(w, t, n, f)
    BY <1>2
  <2> DEFINE g == [k \in 0 .. n + 1 |-> IF k = n + 1 THEN f[n] + w[t[n + 1]] ELSE f[k]]
  <2>2. Adds(w, t, n + 1, g)
    BY <2>1 DEF Adds
  <2> QED BY <2>2
<1>3. Len(t) \in Nat
  BY DEF Text
<1>4. Len(t) \in S
  <2> HIDE DEF S
  <2> QED BY <1>1, <1>2, <1>3, Induction
<1> DEFINE sum == CHOOSE f : Adds(w, t, Len(t), f)
<1>5. Adds(w, t, Len(t), sum)
  BY <1>4
<1>6. Total(w, t) = sum[Len(t)]
  BY DEF Total, Adds
<1> QED BY <1>5, <1>6

\* They are natural numbers that grow with every character.
LEMMA AddsType ==
  ASSUME NEW w \in Weights, NEW t \in Text, NEW f, Adds(w, t, Len(t), f)
  PROVE  Sums(w, t, f)
<1>1. Len(t) \in Nat /\ \A k \in 1 .. Len(t) : w[t[k]] \in Nat \ {0}
  BY DEF Text, Weights
<1>2. f[0] = 0 /\ \A k \in 1 .. Len(t) : f[k] = f[k - 1] + w[t[k]]
  BY <1>1 DEF Adds
<1> DEFINE S == {n \in Nat : n <= Len(t) => f[n] \in Nat}
<1>3. 0 \in S
  BY <1>2
<1>4. ASSUME NEW n \in Nat, n \in S PROVE n + 1 \in S
  BY <1>1, <1>2, <1>4
<1>5. Nat \subseteq S
  <2> HIDE DEF S
  <2> QED BY <1>3, <1>4, Induction
<1> QED BY <1>1, <1>2, <1>5 DEF Sums

LEMMA TotalSums ==
  ASSUME NEW w \in Weights, NEW t \in Text
  PROVE  \E f : Sums(w, t, f) /\ Total(w, t) = f[Len(t)]
BY TotalAdds, AddsType

\* The sum of a prefix is a partial sum of the text.
LEMMA PrefixSum ==
  ASSUME NEW w \in Weights, NEW t \in Text, NEW f, Sums(w, t, f), NEW n \in 0 .. Len(t)
  PROVE  Total(w, Prefix(t, n)) = f[n]
<1> DEFINE p == Prefix(t, n)
<1>1. Len(t) \in Nat /\ n \in Nat /\ n <= Len(t)
  BY DEF Text
<1>2. p \in Text /\ Len(p) = n /\ \A k \in 1 .. n : p[k] = t[k]
  BY <1>1 DEF Text, Prefix
<1> HIDE DEF p
<1>3. PICK g : Sums(w, p, g) /\ Total(w, p) = g[n]
  BY <1>2, TotalSums
<1>4. g[0] = 0 /\ \A k \in 1 .. n : g[k] = g[k - 1] + w[t[k]]
  BY <1>2, <1>3 DEF Sums
<1>5. f[0] = 0 /\ \A k \in 1 .. n : f[k] = f[k - 1] + w[t[k]]
  BY <1>1 DEF Sums
<1> DEFINE S == {k \in Nat : k <= n => g[k] = f[k]}
<1>6. 0 \in S
  BY <1>4, <1>5
<1>7. ASSUME NEW k \in Nat, k \in S PROVE k + 1 \in S
  BY <1>1, <1>4, <1>5, <1>7
<1>8. Nat \subseteq S
  <2> HIDE DEF S
  <2> QED BY <1>6, <1>7, Induction
<1> QED BY <1>1, <1>3, <1>8 DEF p

\* A longer prefix has more.
LEMMA SumsGrow ==
  ASSUME NEW w \in Weights, NEW t \in Text, NEW f, Sums(w, t, f),
         NEW i \in 0 .. Len(t), NEW j \in 0 .. Len(t), i < j
  PROVE  f[i] < f[j]
<1>1. Len(t) \in Nat /\ i \in Nat /\ j \in Nat /\ j <= Len(t)
  BY DEF Text
<1> DEFINE S == {n \in Nat : i + n + 1 <= Len(t) => f[i] < f[i + n + 1]}
<1>2. \A k \in 1 .. Len(t) : f[k] = f[k - 1] + w[t[k]] /\ w[t[k]] \in Nat \ {0}
  BY DEF Sums
<1>3. \A k \in 0 .. Len(t) : f[k] \in Nat
  BY DEF Sums
<1>4. \A k \in Nat : k + 1 <= Len(t) => f[k + 1] > f[k]
  <2> SUFFICES ASSUME NEW k \in Nat, k + 1 <= Len(t) PROVE f[k + 1] > f[k]
    OBVIOUS
  <2>1. k + 1 \in 1 .. Len(t) /\ (k + 1) - 1 = k /\ k \in 0 .. Len(t)
    BY <1>1
  <2>2. f[k + 1] = f[k] + w[t[k + 1]] /\ w[t[k + 1]] \in Nat \ {0} /\ f[k] \in Nat
    BY <1>2, <1>3, <2>1
  <2> QED BY <2>2
<1>5. 0 \in S
  BY <1>1, <1>4
<1>6. ASSUME NEW n \in Nat, n \in S PROVE n + 1 \in S
  <2> SUFFICES ASSUME i + (n + 1) + 1 <= Len(t) PROVE f[i] < f[i + (n + 1) + 1]
    OBVIOUS
  <2>1. f[i] < f[i + n + 1]
    BY <1>1, <1>6
  <2>2. i + n + 1 \in Nat /\ (i + n + 1) + 1 = i + (n + 1) + 1
    BY <1>1
  <2>3. f[i + (n + 1) + 1] > f[i + n + 1]
    BY <1>4, <2>2
  <2>4. i \in 0 .. Len(t) /\ i + n + 1 \in 0 .. Len(t) /\ i + (n + 1) + 1 \in 0 .. Len(t)
    BY <1>1
  <2>5. f[i] \in Nat /\ f[i + n + 1] \in Nat /\ f[i + (n + 1) + 1] \in Nat
    BY <1>3, <2>4
  <2> QED BY <2>1, <2>3, <2>5
<1>7. Nat \subseteq S
  <2> HIDE DEF S
  <2> QED BY <1>5, <1>6, Induction
<1>8. j - i - 1 \in Nat /\ i + (j - i - 1) + 1 = j
  BY <1>1
<1> QED BY <1>1, <1>7, <1>8

\* The marks of a ruler along the text
Ruler(w, t, f) ==
  /\ f[0] = 0 /\ f[Len(t)] = Total(w, t)
  /\ \A k \in 0 .. Len(t) : f[k] \in Nat /\ Total(w, Prefix(t, k)) = f[k]
  /\ \A i, j \in 0 .. Len(t) : i < j => f[i] < f[j]

LEMMA RulerOf ==
  ASSUME NEW w \in Weights, NEW t \in Text
  PROVE  \E f : Ruler(w, t, f)
<1>1. PICK f : Sums(w, t, f) /\ Total(w, t) = f[Len(t)]
  BY TotalSums
<1>2. f[0] = 0 /\ \A k \in 0 .. Len(t) : f[k] \in Nat
  BY <1>1 DEF Sums
<1>3. \A k \in 0 .. Len(t) : Total(w, Prefix(t, k)) = f[k]
  BY <1>1, PrefixSum
<1>4. \A i, j \in 0 .. Len(t) : i < j => f[i] < f[j]
  BY <1>1, SumsGrow
<1>5. Ruler(w, t, f)
  BY <1>1, <1>2, <1>3, <1>4 DEF Ruler
<1> QED BY <1>5

\* What two texts add up to
LEMMA ConcatSum ==
  ASSUME NEW w \in Weights, NEW a \in Text, NEW b \in Text
  PROVE  Total(w, a \o b) = Total(w, a) + Total(w, b)
<1> DEFINE t == a \o b
           m == Len(a)
<1>1. /\ t \in Text /\ m \in Nat /\ Len(b) \in Nat /\ Len(t) = m + Len(b)
      /\ Prefix(t, m) = a
      /\ \A k \in 1 .. Len(b) : t[m + k] = b[k]
  BY DEF Text, Prefix
<1> HIDE DEF t, m
<1>2. PICK f : Sums(w, t, f) /\ Total(w, t) = f[Len(t)]
  BY <1>1, TotalSums
<1>3. PICK g : Sums(w, b, g) /\ Total(w, b) = g[Len(b)]
  BY TotalSums
<1>4. f[m] = Total(w, a)
  BY <1>1, <1>2, PrefixSum
<1> DEFINE S == {n \in Nat : n <= Len(b) => f[m + n] = f[m] + g[n]}
<1>5. f[m] \in Nat
  BY <1>1, <1>2 DEF Sums
<1>6. 0 \in S
  BY <1>1, <1>3, <1>5 DEF Sums
<1>7. ASSUME NEW n \in Nat, n \in S PROVE n + 1 \in S
  <2> SUFFICES ASSUME n + 1 <= Len(b) PROVE f[m + (n + 1)] = f[m] + g[n + 1]
    OBVIOUS
  <2>1. f[m + n] = f[m] + g[n]
    BY <1>1, <1>7
  <2>2. n + 1 \in 1 .. Len(b) /\ m + (n + 1) \in 1 .. Len(t) /\ (m + (n + 1)) - 1 = m + n
        /\ (n + 1) - 1 = n
    BY <1>1
  <2>3. f[m + (n + 1)] = f[m + n] + w[t[m + (n + 1)]]
    BY <1>2, <2>2 DEF Sums
  <2>4. g[n + 1] = g[n] + w[b[n + 1]] /\ w[b[n + 1]] \in Nat
    BY <1>3, <2>2 DEF Sums
  <2>5. t[m + (n + 1)] = b[n + 1]
    BY <1>1, <2>2
  <2>6. n \in 0 .. Len(b)
    BY <1>1
  <2>7. g[n] \in Nat
    BY <1>3, <2>6 DEF Sums
  <2> QED BY <1>5, <2>1, <2>3, <2>4, <2>5, <2>7
<1>8. Nat \subseteq S
  <2> HIDE DEF S
  <2> QED BY <1>6, <1>7, Induction
<1> QED BY <1>1, <1>2, <1>3, <1>4, <1>8 DEF t

(***************************************************************************)
(* Offsets and what they measure.  The two conversions of the code undo    *)
(* the measure of a prefix.                                                *)
(***************************************************************************)
\* A set of places that has every earlier place is counted by its last.
LEMMA CountDown ==
  ASSUME NEW n \in Nat, NEW S \in SUBSET (1 .. n),
         \A i \in S : \A j \in 1 .. i : j \in S
  PROVE  S = 1 .. Cardinality(S) /\ Cardinality(S) \in 0 .. n
<1> DEFINE T == {k \in 0 .. n : S \subseteq 1 .. k}
<1>1. T \subseteq Nat /\ n \in T
  OBVIOUS
<1>2. PICK m \in T : \A k \in T : m <= k
  BY <1>1, LeastOf
<1>3. m = 0 \/ m \in S
  <2> SUFFICES ASSUME m # 0, m \notin S PROVE FALSE
    OBVIOUS
  <2>1. m - 1 \in 0 .. n /\ S \subseteq 1 .. m - 1
    BY <1>2
  <2> QED BY <1>2, <2>1
<1>4. S = 1 .. m
  <2>1. S \subseteq 1 .. m /\ m \in Nat
    BY <1>2
  <2>2. 1 .. m \subseteq S
    BY <1>3, <2>1
  <2> QED BY <2>1, <2>2
<1>5. m \in Nat
  BY <1>2
<1> QED BY <1>2, <1>4, <1>5, CountUpTo

LEMMA WeightsOf == Width \in Weights /\ Units \in Weights
BY CharsAssumption DEF Weights

LEMMA FloorUndoes ==
  ASSUME NEW t \in Text, NEW k \in 0 .. Len(t)
  PROVE  Floor(t, Bytes(Prefix(t, k))) = k
<1>1. PICK f : Ruler(Width, t, f)
  BY WeightsOf, RulerOf
<1>2. \A j \in 0 .. Len(t) : Bytes(Prefix(t, j)) = f[j] /\ f[j] \in Nat
  BY <1>1 DEF Ruler, Bytes
<1>3. \A i, j \in 0 .. Len(t) : i < j => f[i] < f[j]
  BY <1>1 DEF Ruler
<1>4. Len(t) \in Nat /\ k \in Nat
  BY DEF Text
<1>5. {j \in 1 .. Len(t) : Bytes(Prefix(t, j)) <= Bytes(Prefix(t, k))} = 1 .. k
  <2>1. ASSUME NEW j \in 1 .. Len(t)
        PROVE  Bytes(Prefix(t, j)) <= Bytes(Prefix(t, k)) <=> j <= k
    <3>1. j \in 0 .. Len(t)
      BY <1>4
    <3>2. /\ Bytes(Prefix(t, j)) = f[j] /\ f[j] \in Nat
          /\ Bytes(Prefix(t, k)) = f[k] /\ f[k] \in Nat
      BY <1>2, <3>1
    <3>3. (j < k => f[j] < f[k]) /\ (k < j => f[k] < f[j])
      BY <1>3, <3>1
    <3>4. j \in Nat
      OBVIOUS
    <3> QED BY <1>4, <3>2, <3>3, <3>4
  <2> QED BY <1>4, <2>1
<1> QED BY <1>4, <1>5, CountUpTo DEF Floor

LEMMA Utf16Undoes ==
  ASSUME NEW t \in Text, NEW k \in 0 .. Len(t)
  PROVE  Utf16ToOffset(t, Utf16(Prefix(t, k))) = k
<1>1. PICK f : Ruler(Units, t, f)
  BY WeightsOf, RulerOf
<1>2. \A j \in 0 .. Len(t) : Utf16(Prefix(t, j)) = f[j] /\ f[j] \in Nat
  BY <1>1 DEF Ruler, Utf16
<1>3. \A i, j \in 0 .. Len(t) : i < j => f[i] < f[j]
  BY <1>1 DEF Ruler
<1>4. Len(t) \in Nat /\ k \in Nat
  BY DEF Text
<1>5. {j \in 1 .. Len(t) : Utf16(Prefix(t, j - 1)) < Utf16(Prefix(t, k))} = 1 .. k
  <2>1. ASSUME NEW j \in 1 .. Len(t)
        PROVE  Utf16(Prefix(t, j - 1)) < Utf16(Prefix(t, k)) <=> j <= k
    <3>1. j - 1 \in 0 .. Len(t)
      BY <1>4
    <3>2. /\ Utf16(Prefix(t, j - 1)) = f[j - 1] /\ f[j - 1] \in Nat
          /\ Utf16(Prefix(t, k)) = f[k] /\ f[k] \in Nat
      BY <1>2, <3>1
    <3>3. (j - 1 < k => f[j - 1] < f[k]) /\ (k < j - 1 => f[k] < f[j - 1])
      BY <1>3, <3>1
    <3>4. j \in Nat
      OBVIOUS
    <3> QED BY <1>4, <3>2, <3>3, <3>4
  <2> QED BY <1>4, <2>1
<1> QED BY <1>4, <1>5, CountUpTo DEF Utf16ToOffset

\* lsp_character_to_byte_offset in either encoding
LEMMA CharacterUndoes ==
  ASSUME NEW t \in Text, NEW k \in 0 .. Len(t), NEW e
  PROVE  CharacterToOffset(t, Measure(Prefix(t, k), e), e) = k
BY FloorUndoes, Utf16Undoes DEF CharacterToOffset, Measure

\* floor_char_boundary gives the longest prefix within the bytes.
LEMMA FloorFits ==
  ASSUME NEW t \in Text, NEW b \in Nat
  PROVE  /\ Bytes(Prefix(t, Floor(t, b))) <= b
         /\ Bytes(t) <= b => Floor(t, b) = Len(t)
<1>1. PICK f : Ruler(Width, t, f)
  BY WeightsOf, RulerOf
<1>2. \A j \in 0 .. Len(t) : Bytes(Prefix(t, j)) = f[j] /\ f[j] \in Nat
  BY <1>1 DEF Ruler, Bytes
<1>3. \A i, j \in 0 .. Len(t) : i < j => f[i] < f[j]
  BY <1>1 DEF Ruler
<1>4. Len(t) \in Nat
  BY DEF Text
<1> DEFINE S == {j \in 1 .. Len(t) : Bytes(Prefix(t, j)) <= b}
<1>5. \A j \in 1 .. Len(t) : j \in S <=> f[j] <= b
  BY <1>2, <1>4
<1>6. \A i \in S : \A j \in 1 .. i : j \in S
  <2> SUFFICES ASSUME NEW i \in S, NEW j \in 1 .. i PROVE j \in S
    OBVIOUS
  <2>1. i \in 1 .. Len(t) /\ j \in 1 .. Len(t) /\ i \in 0 .. Len(t) /\ j \in 0 .. Len(t)
        /\ (j = i \/ j < i)
    BY <1>4
  <2>2. f[i] <= b /\ f[i] \in Nat /\ f[j] \in Nat /\ (j < i => f[j] < f[i])
    BY <1>2, <1>3, <1>5, <2>1
  <2>3. f[j] <= b
    BY <2>1, <2>2
  <2> QED BY <1>5, <2>1, <2>3
<1>7. Floor(t, b) = Cardinality(S)
  BY DEF Floor
<1>8. S \in SUBSET (1 .. Len(t))
  OBVIOUS
<1> HIDE DEF S
<1>9. S = 1 .. Floor(t, b) /\ Floor(t, b) \in 0 .. Len(t)
  BY <1>4, <1>6, <1>7, <1>8, CountDown
<1>10. Bytes(Prefix(t, Floor(t, b))) <= b
  <2>1. CASE Floor(t, b) = 0
    <3>1. Bytes(Prefix(t, 0)) = f[0] /\ f[0] = 0
      BY <1>1, <1>2, <1>4 DEF Ruler
    <3> QED BY <2>1, <3>1
  <2>2. CASE Floor(t, b) # 0
    <3>1. Floor(t, b) \in S /\ Floor(t, b) \in 1 .. Len(t)
      BY <1>4, <1>9, <2>2
    <3> QED BY <3>1 DEF S
  <2> QED BY <2>1, <2>2
<1>11. ASSUME Bytes(t) <= b PROVE Floor(t, b) = Len(t)
  <2>1. CASE Len(t) = 0
    BY <1>9, <2>1
  <2>2. CASE Len(t) # 0
    <3>1. Len(t) \in 1 .. Len(t)
      BY <1>4, <2>2
    <3>2. f[Len(t)] <= b
      BY <1>1, <1>11 DEF Ruler, Bytes
    <3>3. Len(t) \in S
      BY <1>5, <3>1, <3>2
    <3> QED BY <1>4, <1>9, <3>3
  <2> QED BY <2>1, <2>2
<1> QED BY <1>10, <1>11
\* Counting positions of an interval.
LEMMA CountBound ==
  ASSUME NEW m \in Nat, NEW n \in Nat, NEW S \in SUBSET (m + 1 .. n), m <= n
  PROVE  Cardinality(S) \in Nat /\ m + Cardinality(S) <= n
<1>1. IsFiniteSet(m + 1 .. n) /\ Cardinality(m + 1 .. n) = n - m
  <2>1. m + 1 \in Int /\ n \in Int
    OBVIOUS
  <2>2. IsFiniteSet(m + 1 .. n)
        /\ Cardinality(m + 1 .. n) = IF m + 1 > n THEN 0 ELSE n - (m + 1) + 1
    BY <2>1, FS_Interval
  <2> QED BY <2>2
<1>2. IsFiniteSet(S) /\ Cardinality(S) <= n - m
  BY <1>1, FS_Subset
<1>3. Cardinality(S) \in Nat
  BY <1>2, FS_CardinalityType
<1> QED BY <1>2, <1>3

\* A count over the characters of a text is an offset in it.
LEMMA CountIsOffset ==
  ASSUME NEW t \in Text, NEW S \in SUBSET (1 .. Len(t))
  PROVE  Cardinality(S) \in 0 .. Len(t)
<1>1. Len(t) \in Nat
  BY DEF Text
<1>2. S \in SUBSET (0 + 1 .. Len(t))
  OBVIOUS
<1> QED BY <1>1, <1>2, CountBound

\* A piece of a text is a text.
LEMMA SliceType ==
  ASSUME NEW t \in Text, NEW m \in Nat, NEW n \in Nat, n <= Len(t)
  PROVE  SubSeq(t, m + 1, n) \in Text /\ (m <= n => Len(SubSeq(t, m + 1, n)) = n - m)
BY DEF Text

LEMMA PrefixType ==
  ASSUME NEW t \in Text, NEW k \in 0 .. Len(t)
  PROVE  Prefix(t, k) \in Text
BY DEF Text, Prefix

LEMMA TruncateType ==
  ASSUME NEW t \in Text
  PROVE  Truncate(t) \in Text
<1>1. Floor(t, MaxDocSize) \in 0 .. Len(t)
  BY CountIsOffset DEF Floor
<1> QED BY <1>1, PrefixType DEF Truncate

LEMMA LineType ==
  ASSUME NEW t \in Text, NEW l
  PROVE  /\ LineStart(t, l) \in 0 .. Len(t)
         /\ Line(t, l) \in Text
         /\ LineStart(t, l) + Len(Line(t, l)) <= Len(t)
<1>0. Len(t) \in Nat
  BY DEF Text
<1>1. \A k : LineStart(t, k) \in 0 .. Len(t)
  BY CountIsOffset DEF LineStart
<1>2. LineEnd(t, l) \in Int /\ LineEnd(t, l) <= Len(t)
  <2>1. LineStart(t, l + 1) \in 0 .. Len(t)
    BY <1>1
  <2> QED BY <1>0, <2>1 DEF LineEnd
<1> DEFINE s == LineStart(t, l)
           content == {i \in s + 1 .. LineEnd(t, l) : \E j \in i .. LineEnd(t, l) : t[j] # CR}
<1>3. s \in Nat /\ s <= Len(t)
  BY <1>0, <1>1
<1>4. content \in SUBSET (s + 1 .. Len(t))
  BY <1>0, <1>2, <1>3
<1> HIDE DEF s, content
<1>5. Cardinality(content) \in Nat /\ s + Cardinality(content) <= Len(t)
  BY <1>0, <1>3, <1>4, CountBound
<1>6. Line(t, l) = SubSeq(t, s + 1, s + Cardinality(content))
  BY DEF Line, s, content
<1>7. Line(t, l) \in Text /\ Len(Line(t, l)) = Cardinality(content)
  <2>1. s + Cardinality(content) \in Nat /\ s <= s + Cardinality(content)
    BY <1>3, <1>5
  <2>2. SubSeq(t, s + 1, s + Cardinality(content)) \in Text
        /\ Len(SubSeq(t, s + 1, s + Cardinality(content))) = (s + Cardinality(content)) - s
    BY <1>3, <1>5, <2>1, SliceType
  <2> QED BY <1>3, <1>5, <1>6, <2>2
<1> QED BY <1>1, <1>3, <1>5, <1>7 DEF s


(***************************************************************************)
(* Lines.  The table of line starts leads from the line of an offset back  *)
(* to the last line feed before it and on to the next one after it.        *)
(***************************************************************************)
\* The line of an offset never falls, and rises with every line feed.
LEMMA LineOfGrows ==
  ASSUME NEW t, NEW i \in Nat \ {0}, NEW j \in Nat, i <= j
  PROVE  /\ LineOf(t, i) \in Nat /\ LineOf(t, j) \in Nat
         /\ LineOf(t, i) <= LineOf(t, j)
         /\ (\E n \in i .. j - 1 : t[n] = LF) => LineOf(t, i) < LineOf(t, j)
         /\ (\A n \in i .. j - 1 : t[n] # LF) => LineOf(t, i) = LineOf(t, j)
<1> DEFINE A == {n \in 1 .. i - 1 : t[n] = LF}
           B == {n \in 1 .. j - 1 : t[n] = LF}
<1>1. LineOf(t, i) = Cardinality(A) /\ LineOf(t, j) = Cardinality(B)
  BY DEF LineOf
<1>2. i - 1 \in Nat /\ j - 1 \in Nat /\ A \in SUBSET (1 .. i - 1) /\ B \in SUBSET (1 .. j - 1)
  OBVIOUS
<1>3. A \subseteq B
  OBVIOUS
<1>4. (\E n \in i .. j - 1 : t[n] = LF) => A # B
  OBVIOUS
<1>5. (\A n \in i .. j - 1 : t[n] # LF) => A = B
  OBVIOUS
<1> HIDE DEF A, B
<1>6. IsFiniteSet(A) /\ IsFiniteSet(B) /\ Cardinality(A) \in Nat /\ Cardinality(B) \in Nat
  BY <1>2, PlacesFinite
<1>7. Cardinality(A) <= Cardinality(B) /\ (Cardinality(A) = Cardinality(B) => A = B)
  BY <1>3, <1>6, FS_Subset
<1> QED BY <1>1, <1>4, <1>5, <1>6, <1>7

\* Every offset has a line feed, or nothing, before it on its line.
LEMMA StartOf ==
  ASSUME NEW t \in Text, NEW k \in 0 .. Len(t), NEW s \in 0 .. k,
         s = 0 \/ t[s] = LF, \A n \in s + 1 .. k : t[n] # LF
  PROVE  LineStart(t, LineOf(t, k + 1)) = s
<1>1. Len(t) \in Nat /\ k \in Nat /\ s \in Nat /\ k <= Len(t) /\ s <= k
  BY DEF Text
<1>2. ASSUME NEW i \in 1 .. Len(t)
      PROVE  LineOf(t, i) < LineOf(t, k + 1) <=> i <= s
  <2>0. i \in Nat \ {0} /\ k + 1 \in Nat \ {0} /\ (k + 1) - 1 = k
    BY <1>1
  <2>1. CASE i <= s
    <3>1. s \in i .. (k + 1) - 1 /\ t[s] = LF /\ i <= k + 1
      BY <1>1, <2>0, <2>1
    <3> QED BY <2>0, <2>1, <3>1, LineOfGrows
  <2>2. CASE s < i /\ i <= k + 1
    <3>1. \A n \in i .. (k + 1) - 1 : t[n] # LF
      BY <1>1, <2>0, <2>2
    <3>2. LineOf(t, i) = LineOf(t, k + 1) /\ LineOf(t, i) \in Nat
      BY <2>0, <2>2, <3>1, LineOfGrows
    <3> QED BY <1>1, <2>0, <2>2, <3>2
  <2>3. CASE k + 1 < i
    <3>1. LineOf(t, k + 1) <= LineOf(t, i) /\ LineOf(t, i) \in Nat /\ LineOf(t, k + 1) \in Nat
      BY <1>1, <2>0, <2>3, LineOfGrows
    <3> QED BY <1>1, <2>0, <2>3, <3>1
  <2> QED BY <1>1, <2>0, <2>1, <2>2, <2>3
<1>3. {i \in 1 .. Len(t) : LineOf(t, i) < LineOf(t, k + 1)} = 1 .. s
  BY <1>1, <1>2
<1> QED BY <1>1, <1>3, CountUpTo DEF LineStart

\* And a line feed, or the end, after it.
LEMMA EndOf ==
  ASSUME NEW t \in Text, NEW k \in 0 .. Len(t), NEW e \in k .. Len(t),
         e = Len(t) \/ t[e + 1] = LF, \A n \in k + 1 .. e : t[n] # LF
  PROVE  LineEnd(t, LineOf(t, k + 1)) = e
<1> DEFINE l == LineOf(t, k + 1)
<1>1. Len(t) \in Nat /\ k \in Nat /\ e \in Nat /\ k <= e /\ e <= Len(t)
  BY DEF Text
<1>2. k + 1 \in Nat \ {0} /\ e + 1 \in Nat \ {0} /\ k + 1 <= e + 1 /\ (e + 1) - 1 = e
      /\ Len(t) + 1 \in Nat
  BY <1>1
<1>3. l = LineOf(t, e + 1) /\ l \in Nat
  BY <1>2, LineOfGrows
<1> HIDE DEF l
<1>4. CASE e = Len(t)
  <2>1. Lines(t) = l + 1
    BY <1>3, <1>4 DEF Lines
  <2> QED BY <1>3, <1>4, <2>1 DEF LineEnd, l
<1>5. CASE e < Len(t)
  <2>1. t[e + 1] = LF /\ e + 1 \in 0 .. Len(t) /\ e + 1 \in 0 .. e + 1 /\ (e + 1) + 1 = e + 2
        /\ e + 2 \in Nat \ {0} /\ e + 1 + 1 = e + 2
    BY <1>1, <1>5
  <2>2. LineOf(t, e + 2) = l + 1
    <3> DEFINE A == {n \in 1 .. e : t[n] = LF}
    <3>1. LineOf(t, e + 1) = Cardinality(A)
      BY <1>2 DEF LineOf
    <3>2. {n \in 1 .. e + 1 : t[n] = LF} = A \cup {e + 1} /\ e + 1 \notin A
      BY <1>1, <2>1
    <3>3. (e + 2) - 1 = e + 1
      BY <1>1
    <3>4. LineOf(t, e + 2) = Cardinality(A \cup {e + 1})
      BY <3>2, <3>3 DEF LineOf
    <3>5. A \in SUBSET (1 .. e)
      OBVIOUS
    <3> HIDE DEF A
    <3>6. IsFiniteSet(A)
      BY <1>1, <3>5, PlacesFinite
    <3> QED BY <1>3, <3>1, <3>2, <3>4, <3>6, FS_AddElement
  <2>3. LineStart(t, l + 1) = e + 1
    <3>1. \A n \in (e + 1) + 1 .. e + 1 : t[n] # LF
      BY <1>1
    <3>2. LineStart(t, LineOf(t, (e + 1) + 1)) = e + 1
      BY <2>1, <3>1, StartOf
    <3> QED BY <2>1, <2>2, <3>2
  <2>4. l + 1 < Lines(t)
    <3>1. e + 2 <= Len(t) + 1
      BY <1>1, <1>5
    <3>2. LineOf(t, e + 2) <= LineOf(t, Len(t) + 1) /\ LineOf(t, Len(t) + 1) \in Nat
      BY <1>2, <2>1, <3>1, LineOfGrows
    <3> QED BY <1>3, <2>2, <3>2 DEF Lines
  <2> QED BY <1>1, <2>3, <2>4 DEF LineEnd, l
<1> QED BY <1>1, <1>4, <1>5

\* Where the client sees the line of offset k start
StartBefore(t, k) ==
  LET before == {i \in 1 .. k : t[i] = LF}
  IN  IF before = {} THEN 0 ELSE CHOOSE i \in before : \A j \in before : j <= i

LEMMA StartBeforeIs ==
  ASSUME NEW t, NEW k \in Nat
  PROVE  /\ StartBefore(t, k) \in 0 .. k
         /\ StartBefore(t, k) = 0 \/ t[StartBefore(t, k)] = LF
         /\ \A n \in StartBefore(t, k) + 1 .. k : t[n] # LF
<1> DEFINE before == {i \in 1 .. k : t[i] = LF}
           s == CHOOSE i \in before : \A j \in before : j <= i
<1>1. StartBefore(t, k) = IF before = {} THEN 0 ELSE s
  BY DEF StartBefore
<1>2. CASE before = {}
  BY <1>1, <1>2
<1>3. CASE before # {}
  <2> DEFINE T == {k - i : i \in before}
  <2>1. T \subseteq Nat /\ T # {}
    BY <1>3
  <2>2. PICK m \in T : \A n \in T : m <= n
    BY <2>1, LeastOf
  <2>3. PICK i \in before : m = k - i
    BY <2>2
  <2>4. \A j \in before : j <= i
    <3> SUFFICES ASSUME NEW j \in before PROVE j <= i
      OBVIOUS
    <3>1. k - j \in T
      OBVIOUS
    <3>2. k - i <= k - j
      BY <2>2, <2>3, <3>1
    <3> QED BY <3>2
  <2>5. s \in before /\ \A j \in before : j <= s
    BY <2>3, <2>4
  <2>6. StartBefore(t, k) = s
    BY <1>1, <1>3
  <2> HIDE DEF s
  <2>7. s \in 0 .. k /\ t[s] = LF /\ \A n \in s + 1 .. k : t[n] # LF
    BY <2>5
  <2> QED BY <2>6, <2>7
<1> QED BY <1>2, <1>3

LEMMA EndAfter ==
  ASSUME NEW t \in Text, NEW k \in 0 .. Len(t)
  PROVE  \E e \in k .. Len(t) :
           (e = Len(t) \/ t[e + 1] = LF) /\ \A n \in k + 1 .. e : t[n] # LF
<1> DEFINE T == {e \in k .. Len(t) : e = Len(t) \/ t[e + 1] = LF}
<1>1. Len(t) \in Nat /\ k \in Nat /\ k <= Len(t)
  BY DEF Text
<1>2. T \subseteq Nat /\ Len(t) \in T
  BY <1>1
<1>3. PICK e \in T : \A n \in T : e <= n
  BY <1>2, LeastOf
<1>4. \A n \in k + 1 .. e : t[n] # LF
  <2> SUFFICES ASSUME NEW n \in k + 1 .. e, t[n] = LF PROVE FALSE
    OBVIOUS
  <2>1. n \in Nat /\ n - 1 \in k .. Len(t) /\ (n - 1) + 1 = n /\ ~(e <= n - 1)
    BY <1>1
  <2>2. n - 1 \in T
    BY <2>1
  <2> QED BY <1>3, <2>1, <2>2
<1> QED BY <1>3, <1>4

\* The content of a line has every cursor of it: what trim_end_matches takes away
\* lies behind the last one.
LEMMA ContentReaches ==
  ASSUME NEW t \in Text, Paired(t), NEW k \in Cursors(t), NEW l,
         NEW s \in 0 .. k, LineStart(t, l) = s,
         NEW e \in k .. Len(t), LineEnd(t, l) = e, \A n \in s + 1 .. e : t[n] # LF
  PROVE  k - s \in 0 .. Len(Line(t, l)) /\ Prefix(Line(t, l), k - s) = SubSeq(t, s + 1, k)
<1>1. Len(t) \in Nat /\ k \in 0 .. Len(t) /\ s \in Nat /\ k \in Nat /\ e \in Nat
      /\ k <= Len(t) /\ k <= e /\ e <= Len(t) /\ s <= k
  BY DEF Text, Cursors
<1> DEFINE content == {i \in s + 1 .. e : \E j \in i .. e : t[j] # CR}
<1>2. Line(t, l) = SubSeq(t, s + 1, s + Cardinality(content))
  BY DEF Line
<1>3. ASSUME NEW i \in s + 1 .. k, \A j \in i .. e : t[j] = CR PROVE FALSE
  <2>1. t[i] = CR /\ i \in 1 .. Len(t)
    BY <1>1, <1>3
  <2>2. i < Len(t) /\ t[i + 1] = LF
    BY <2>1 DEF Paired
  <2>3. ~(i + 1 \in i .. e)
    BY <1>3, <2>2, CharsAssumption
  <2>4. i = k /\ k = e
    BY <1>1, <2>3
  <2>5. k \in 1 .. Len(t) - 1 /\ t[k] = CR /\ t[k + 1] = LF
    BY <1>1, <2>1, <2>2, <2>4
  <2> QED BY <2>5 DEF Cursors
<1>4. (s + 1 .. k) \subseteq content /\ content \in SUBSET (s + 1 .. Len(t))
      /\ content \in SUBSET (1 .. Len(t))
  BY <1>1, <1>3
<1> HIDE DEF content
<1>5. Cardinality(content) \in Nat /\ s + Cardinality(content) <= Len(t)
  BY <1>1, <1>4, CountBound
<1>6. k - s <= Cardinality(content)
  <2>1. IsFiniteSet(content)
    BY <1>1, <1>4, PlacesFinite
  <2>2. Cardinality(s + 1 .. k) = k - s
    <3>1. s + 1 \in Int /\ k \in Int /\ (s + 1 > k => k - s = 0) /\ k - (s + 1) + 1 = k - s
      BY <1>1
    <3> QED BY <3>1, FS_Interval
  <2>3. Cardinality(s + 1 .. k) <= Cardinality(content)
    BY <1>4, <2>1, FS_Subset
  <2> QED BY <2>2, <2>3
<1> DEFINE c == Cardinality(content)
<1> HIDE DEF c
<1>7. c \in Nat /\ s + c <= Len(t) /\ k - s <= c /\ Line(t, l) = SubSeq(t, s + 1, s + c)
  BY <1>2, <1>5, <1>6 DEF c
<1>8. Len(SubSeq(t, s + 1, s + c)) = c /\ SubSeq(SubSeq(t, s + 1, s + c), 1, k - s) = SubSeq(t, s + 1, k)
  BY <1>1, <1>7 DEF Text
<1> QED BY <1>1, <1>7, <1>8 DEF Prefix

(* A position of the client leads back to the offset it was made of, in    *)
(* either encoding, for every text and every alphabet.                     *)
THEOREM RoundTrip ==
  ASSUME NEW t \in Text, Paired(t), NEW k \in Cursors(t)
  PROVE  PositionToOffset(t, ClientPosition(t, k), enc) = k
<1> DEFINE s == StartBefore(t, k)
           l == LineOf(t, k + 1)
           p == ClientPosition(t, k)
<1>1. Len(t) \in Nat /\ k \in 0 .. Len(t) /\ k \in Nat /\ k <= Len(t)
  BY DEF Text, Cursors
<1>2. p = [line |-> l, character |-> Measure(SubSeq(t, s + 1, k), enc)]
  <2>1. (k + 1) - 1 = k
    BY <1>1
  <2> QED BY <2>1 DEF ClientPosition, StartBefore, LineOf, Measure
<1> HIDE DEF p
<1>3. p.line = l /\ p.character = Measure(SubSeq(t, s + 1, k), enc)
  BY <1>2
<1>4. s \in 0 .. k /\ (s = 0 \/ t[s] = LF) /\ \A n \in s + 1 .. k : t[n] # LF
  BY <1>1, StartBeforeIs
<1> HIDE DEF s
<1>5. LineStart(t, l) = s
  BY <1>1, <1>4, StartOf
<1>6. PICK e \in k .. Len(t) :
        (e = Len(t) \/ t[e + 1] = LF) /\ \A n \in k + 1 .. e : t[n] # LF
  BY <1>1, EndAfter
<1>7. LineEnd(t, l) = e
  BY <1>1, <1>6, EndOf
<1>8. l < Lines(t)
  <2>1. k + 1 \in Nat \ {0} /\ Len(t) + 1 \in Nat /\ k + 1 <= Len(t) + 1
    BY <1>1
  <2>2. LineOf(t, k + 1) <= LineOf(t, Len(t) + 1)
        /\ LineOf(t, k + 1) \in Nat /\ LineOf(t, Len(t) + 1) \in Nat
    BY <2>1, LineOfGrows
  <2> QED BY <2>2 DEF Lines
<1>9. l \in Nat /\ Lines(t) \in Nat
  <2>1. k + 1 \in Nat \ {0} /\ Len(t) + 1 \in Nat /\ k + 1 <= Len(t) + 1
    BY <1>1
  <2> QED BY <2>1, LineOfGrows DEF Lines
<1>10. \A n \in s + 1 .. e : t[n] # LF
  <2> SUFFICES ASSUME NEW n \in s + 1 .. e PROVE t[n] # LF
    OBVIOUS
  <2>1. n \in s + 1 .. k \/ n \in k + 1 .. e
    BY <1>1, <1>4, <1>6
  <2> QED BY <1>4, <1>6, <2>1
<1> HIDE DEF l
<1>11. k - s \in 0 .. Len(Line(t, l)) /\ Prefix(Line(t, l), k - s) = SubSeq(t, s + 1, k)
  BY <1>4, <1>5, <1>6, <1>7, <1>10, ContentReaches
<1>12. Line(t, l) \in Text
  BY LineType
<1>13. CharacterToOffset(Line(t, l), p.character, enc) = k - s
  <2>1. CharacterToOffset(Line(t, l), Measure(Prefix(Line(t, l), k - s), enc), enc) = k - s
    BY <1>11, <1>12, CharacterUndoes
  <2> QED BY <1>3, <1>11, <2>1
<1>14. ~(l >= Lines(t))
  BY <1>8, <1>9
<1>15. PositionToOffset(t, p, enc) = s + (k - s)
  BY <1>3, <1>5, <1>13, <1>14 DEF PositionToOffset
<1> QED BY <1>1, <1>4, <1>15 DEF p

(***************************************************************************)
(* Whatever the client sends, what is stored is a text.                    *)
(***************************************************************************)
LEMMA CharacterType ==
  ASSUME NEW line \in Text, NEW c, NEW e
  PROVE  CharacterToOffset(line, c, e) \in 0 .. Len(line)
<1>1. Floor(line, c) \in 0 .. Len(line)
  BY CountIsOffset DEF Floor
<1>2. Utf16ToOffset(line, c) \in 0 .. Len(line)
  BY CountIsOffset DEF Utf16ToOffset
<1> QED BY <1>1, <1>2 DEF CharacterToOffset

\* Whatever the client sends, a position is refused or lies in the text.
LEMMA PositionType ==
  ASSUME NEW t \in Text, NEW p, NEW e
  PROVE  PositionToOffset(t, p, e) \in (0 .. Len(t)) \cup {Invalid}
<1> DEFINE line == Line(t, p.line)
<1>1. /\ LineStart(t, p.line) \in 0 .. Len(t)
      /\ line \in Text
      /\ LineStart(t, p.line) + Len(line) <= Len(t)
  BY LineType
<1>2. CharacterToOffset(line, p.character, e) \in 0 .. Len(line)
  BY <1>1, CharacterType
<1>3. Len(t) \in Nat /\ Len(line) \in Nat
  BY <1>1 DEF Text
<1> HIDE DEF line
<1>4. LineStart(t, p.line) + CharacterToOffset(line, p.character, e) \in 0 .. Len(t)
  BY <1>1, <1>2, <1>3
<1> QED BY <1>4 DEF PositionToOffset, line

\* An edit fails or leaves a text.
LEMMA EditType ==
  ASSUME NEW t \in Text, NEW range, NEW new \in Text, NEW e
  PROVE  ApplyEdit(t, range, new, e) \in Text \cup {Invalid}
<1> DEFINE i == PositionToOffset(t, range.start, e)
           j == PositionToOffset(t, range.end, e)
<1>1. i \in (0 .. Len(t)) \cup {Invalid} /\ j \in (0 .. Len(t)) \cup {Invalid}
  BY PositionType
<1>2. Len(t) \in Nat
  BY DEF Text
<1>3. ASSUME i # Invalid, j # Invalid
      PROVE  Prefix(t, i) \o new \o SubSeq(t, j + 1, Len(t)) \in Text
  <2>1. i \in 0 .. Len(t) /\ j \in Nat
    BY <1>1, <1>2, <1>3
  <2> HIDE DEF i, j
  <2>2. Prefix(t, i) \in Text
    BY <2>1, PrefixType
  <2>3. SubSeq(t, j + 1, Len(t)) \in Text
    BY <1>2, <2>1, SliceType
  <2> QED BY <2>2, <2>3 DEF Text
<1> HIDE DEF i, j
<1>4. ApplyEdit(t, range, new, e) =
        IF range = Invalid THEN Invalid
        ELSE IF Invalid \in {i, j} \/ (Invalid \notin {i, j} /\ i > j) THEN Invalid
             ELSE Prefix(t, i) \o new \o SubSeq(t, j + 1, Len(t))
  BY DEF ApplyEdit, i, j
<1> QED BY <1>3, <1>4

\* What a change stores is a text.
LEMMA PatchedType ==
  ASSUME TypeOK, NEW u \in Uris, NEW t, NEW c, c.text \in Text
  PROVE  Patched(u, t, c) \in Text
<1> DEFINE new == Truncate(c.text)
           whole == IF u \in DOMAIN docs THEN ApplyEdit(docs[u], EditRange(t, c), new, enc)
                                         ELSE Invalid
<1>1. new \in Text
  BY TruncateType
<1>2. whole \in Text \cup {Invalid}
  <2>1. CASE u \in DOMAIN docs
    <3>1. docs[u] \in Text
      BY <2>1 DEF TypeOK, IsPartialFn
    <3> QED BY <1>1, <2>1, <3>1, EditType
  <2>2. CASE u \notin DOMAIN docs
    BY <2>2
  <2> QED BY <2>1, <2>2
<1>3. whole # Invalid => Truncate(whole) \in Text
  BY <1>2, TruncateType
<1> HIDE DEF new, whole
<1>4. Patched(u, t, c) = IF c.kind = "full" \/ whole = Invalid THEN new ELSE Truncate(whole)
  BY DEF Patched, new, whole
<1> QED BY <1>1, <1>3, <1>4

\* The changes the client sends carry texts and leave it with a text.
LEMMA ChangeType ==
  ASSUME NEW t \in Text, NEW c \in Changes(t)
  PROVE  c.text \in Text /\ Edited(t, c) \in Text
<1>1. Fragments \subseteq Text /\ <<>> \in Text
  BY DocsAssumption DEF Text
<1>2. c.text \in Text
  BY <1>1 DEF Changes
<1>3. CASE c.kind = "edit"
  <2>1. c.from \in 0 .. Len(t) /\ c.to \in 0 .. Len(t)
    BY <1>3 DEF Changes, Cursors
  <2>2. Len(t) \in Nat /\ c.to \in Nat
    BY <2>1 DEF Text
  <2>3. Prefix(t, c.from) \in Text /\ SubSeq(t, c.to + 1, Len(t)) \in Text
    BY <2>1, <2>2, PrefixType, SliceType
  <2> QED BY <1>2, <1>3, <2>3 DEF Edited, Text
<1>4. CASE c.kind # "edit"
  BY <1>2, <1>4 DEF Edited
<1> QED BY <1>2, <1>3, <1>4

\* Removing a BOM leaves a text.
LEMMA StripType ==
  ASSUME NEW t \in Text
  PROVE  StripBom(t) \in Text
<1>1. t # <<>> => Tail(t) \in Text
  BY HeadTailProperties DEF Text
<1> QED BY <1>1 DEF StripBom

(***************************************************************************)
(* The store, the cache and the screen.  A batch leaves the cached parse   *)
(* and the diagnostics of its own document behind until it ends, and the   *)
(* room it was given at its start is still there when it stores a new      *)
(* document: this is what makes the properties inductive.                  *)
(***************************************************************************)
Room == batch # None => batch \in DOMAIN docs \/ Cardinality(DOMAIN docs) < MaxDocs

Shadows ==
  /\ DOMAIN parsed \subseteq DOMAIN docs
  /\ \A u \in DOMAIN parsed : u # batch => parsed[u] = docs[u]
  /\ \A u \in Uris : u # batch => (u \in DOMAIN shown <=> u \in DOMAIN docs)
  /\ \A u \in DOMAIN docs : u # batch => shown[u] = docs[u]

IInv == TypeOK /\ DocsBounded /\ Room /\ Shadows

LEMMA Constants == MaxDocs \in Nat \ {0} /\ None \notin Uris
BY DocsAssumption

\* Storing one document adds at most one to the store.
Counts(u) ==
  /\ MaxDocs \in Nat
  /\ Cardinality(DOMAIN docs) \in Nat
  /\ u \in DOMAIN docs => DOMAIN docs \cup {u} = DOMAIN docs
  /\ u \notin DOMAIN docs => Cardinality(DOMAIN docs \cup {u}) = Cardinality(DOMAIN docs) + 1
  /\ Cardinality(DOMAIN docs \ {u}) \in Nat
  /\ Cardinality(DOMAIN docs \ {u}) <= Cardinality(DOMAIN docs)

LEMMA PutCount ==
  ASSUME TypeOK, NEW u \in Uris
  PROVE  Counts(u)
<1>1. IsFiniteSet(DOMAIN docs)
  BY FS_Subset, DocsAssumption DEF TypeOK, IsPartialFn
<1>2. Cardinality(DOMAIN docs) \in Nat
  BY <1>1, FS_CardinalityType
<1>3. u \notin DOMAIN docs => Cardinality(DOMAIN docs \cup {u}) = Cardinality(DOMAIN docs) + 1
  BY <1>1, FS_AddElement
<1>4. /\ Cardinality(DOMAIN docs \ {u}) \in Nat
      /\ Cardinality(DOMAIN docs \ {u}) <= Cardinality(DOMAIN docs)
  <2>1. (DOMAIN docs \ {u}) \in SUBSET DOMAIN docs
    OBVIOUS
  <2>2. IsFiniteSet(DOMAIN docs \ {u})
        /\ Cardinality(DOMAIN docs \ {u}) <= Cardinality(DOMAIN docs)
    BY <1>1, <2>1, FS_Subset
  <2> QED BY <2>2, FS_CardinalityType
<1> QED BY <1>1, <1>2, <1>3, <1>4, Constants DEF Counts

\* Put and Drop keep partial functions partial functions.
LEMMA MapTypes ==
  ASSUME NEW f, IsPartialFn(f, Uris, Text), NEW u \in Uris, NEW t \in Text
  PROVE  IsPartialFn(Put(f, u, t), Uris, Text) /\ IsPartialFn(Drop(f, u), Uris, Text)
BY DEF IsPartialFn, Put, Drop

LEMMA StoreInit == Init => IInv
<1> SUFFICES ASSUME Init PROVE IInv
  OBVIOUS
<1>1. DOMAIN docs = {} /\ DOMAIN parsed = {} /\ DOMAIN shown = {}
  BY DEF Init
<1>2. TypeOK
  BY <1>1 DEF Init, TypeOK, IsPartialFn
<1>3. DocsBounded
  BY <1>1, FS_EmptySet, DocsAssumption DEF DocsBounded
<1> QED BY <1>1, <1>2, <1>3 DEF IInv, Room, Shadows, Init

LEMMA StoreStep == IInv /\ [Next]_vars => IInv'
<1> SUFFICES ASSUME IInv, [Next]_vars PROVE IInv'
  OBVIOUS
<1>0. /\ TypeOK /\ DocsBounded /\ Room /\ Shadows
      /\ DOMAIN docs \subseteq Uris /\ DOMAIN parsed \subseteq Uris /\ DOMAIN shown \subseteq Uris
  BY DEF IInv, TypeOK, IsPartialFn
<1>1. ASSUME NEW u \in Uris, NEW t \in OpenTexts, DidOpen(u, t) PROVE IInv'
  <2>1. t \in Text /\ batch = None /\ batch' = None
    BY <1>1, DocsAssumption DEF DidOpen
  <2>2. client' \in [Uris -> Text \cup {None}] /\ enc' = enc
    BY <1>0, <1>1, <2>1 DEF DidOpen, TypeOK
  <2>3. partial' \subseteq Uris
    BY <1>0, <1>1 DEF DidOpen, TypeOK
  <2>4. CASE Rejected(u)
    <3>1. UNCHANGED <<docs, parsed, order, shown, enc, batch>>
      BY <1>1, <2>4 DEF DidOpen
    <3> QED BY <1>0, <2>2, <2>3, <3>1 DEF IInv, TypeOK, DocsBounded, Room, Shadows, IsPartialFn
  <2>5. CASE ~Rejected(u)
    <3> DEFINE s == Truncate(StripBom(t))
    <3>1. s \in Text
      BY <2>1, StripType, TruncateType
    <3> HIDE DEF s
    <3>2. docs' = Put(docs, u, s) /\ parsed' = Drop(parsed, u) /\ shown' = Put(shown, u, s)
      <4>1. docs' = Put(docs, u, s) /\ parsed' = Drop(parsed, u) /\ Publish(u)
        BY <1>1, <2>5 DEF DidOpen, Invalidate, s
      <4>2. u \in DOMAIN docs' /\ docs'[u] = s
        BY <4>1 DEF Put
      <4> QED BY <4>1, <4>2 DEF Publish
    <3>3. TypeOK'
      BY <2>1, <2>2, <2>3, <3>1, <3>2, MapTypes, <1>0 DEF TypeOK
    <3>4. DocsBounded'
      <4>1. DOMAIN docs' = DOMAIN docs \cup {u}
        BY <3>2 DEF Put
      <4>c. Counts(u)
        BY <1>0, PutCount
      <4>2. u \in DOMAIN docs \/ Cardinality(DOMAIN docs) < MaxDocs
        BY <2>5, <4>c DEF Counts, Rejected
      <4> QED BY <1>0, <4>1, <4>2, <4>c DEF Counts, DocsBounded
    <3>5. Shadows'
      BY <1>0, <2>1, <3>2, Constants DEF Shadows, Put, Drop
    <3> QED BY <2>1, <3>3, <3>4, <3>5 DEF Room, IInv
  <2> QED BY <2>4, <2>5
<1>2. ASSUME NEW u \in Uris, NEW c \in Changes(client[u]), NEW more \in BOOLEAN,
             DidChange(u, c, more)
      PROVE  IInv'
  <2>0. batch \in {None, u} /\ client[u] \in Text /\ enc' = enc /\ u # None
    BY <1>0, <1>2, Constants DEF DidChange, TypeOK
  <2>1. c.text \in Text /\ Edited(client[u], c) \in Text
    BY <2>0, ChangeType
  <2>2. client' \in [Uris -> Text \cup {None}]
    BY <1>0, <1>2, <2>1 DEF DidChange, TypeOK
  <2>3. partial' \subseteq Uris
    BY <1>0, <1>2 DEF DidChange, TypeOK
  <2>4. CASE batch = None /\ Rejected(u)
    <3>1. UNCHANGED <<docs, parsed, order, shown, enc, batch>>
      BY <1>2, <2>4 DEF DidChange
    <3> QED BY <1>0, <2>2, <2>3, <3>1 DEF IInv, TypeOK, DocsBounded, Room, Shadows, IsPartialFn
  <2>5. CASE ~(batch = None /\ Rejected(u))
    <3>c. Counts(u)
      BY <1>0, PutCount
    <3>1. u \in DOMAIN docs \/ Cardinality(DOMAIN docs) < MaxDocs
      BY <1>0, <2>0, <2>5, <3>c DEF Counts, Rejected, Room
    <3>2. docs' = Stored(u, client[u], c)
      BY <1>2, <2>5 DEF DidChange
    <3>3. Patched(u, client[u], c) \in Text
      BY <1>0, <2>1, PatchedType
    <3>4. /\ IsPartialFn(docs', Uris, Text)
          /\ DOMAIN docs \subseteq DOMAIN docs'
          /\ DOMAIN docs' \subseteq DOMAIN docs \cup {u}
          /\ \A v \in DOMAIN docs' : v # u => docs'[v] = docs[v]
      <4>1. CASE c.kind = "noText"
        BY <1>0, <3>2, <4>1 DEF Stored, TypeOK
      <4>2. CASE c.kind # "noText"
        <5>1. docs' = Put(docs, u, Patched(u, client[u], c))
          BY <3>2, <4>2 DEF Stored
        <5>2. IsPartialFn(docs', Uris, Text)
          BY <3>3, <5>1, MapTypes, <1>0 DEF TypeOK
        <5> QED BY <5>1, <5>2 DEF Put
      <4> QED BY <4>1, <4>2
    <3>5. DocsBounded' /\ (u \in DOMAIN docs' \/ Cardinality(DOMAIN docs') < MaxDocs)
      <4>1. DOMAIN docs' = DOMAIN docs \/ DOMAIN docs' = DOMAIN docs \cup {u}
        BY <3>4
      <4>2. u \in DOMAIN docs' \/ DOMAIN docs' = DOMAIN docs
        BY <4>1
      <4> QED BY <1>0, <3>1, <4>1, <4>2, <3>c DEF Counts, DocsBounded
    <3>6. CASE more
      <4>1. batch' = u /\ parsed' = parsed /\ shown' = shown
        BY <1>2, <2>5, <3>6 DEF DidChange
      <4>2. TypeOK'
        BY <2>0, <2>2, <2>3, <3>4, <4>1, <1>0 DEF TypeOK
      <4>3. Shadows'
        BY <1>0, <2>0, <3>4, <4>1, Constants DEF Shadows
      <4> QED BY <3>5, <4>1, <4>2, <4>3 DEF Room, IInv
    <3>7. CASE ~more
      <4>1. batch' = None /\ parsed' = Drop(parsed, u) /\ Publish(u)
        BY <1>2, <2>5, <3>7 DEF DidChange, Invalidate
      <4>2. shown' = IF u \in DOMAIN docs' THEN Put(shown, u, docs'[u]) ELSE Drop(shown, u)
        BY <4>1 DEF Publish
      <4>3. u \in DOMAIN docs' => docs'[u] \in Text
        BY <3>4 DEF IsPartialFn
      <4>4. TypeOK'
        <5>1. IsPartialFn(parsed', Uris, Text)
          BY <2>1, <4>1, MapTypes, <1>0 DEF TypeOK
        <5>2. IsPartialFn(shown', Uris, Text)
          BY <2>1, <4>2, <4>3, MapTypes, <1>0 DEF TypeOK
        <5> QED BY <2>0, <2>2, <2>3, <3>4, <4>1, <5>1, <5>2, <1>0 DEF TypeOK
      <4>5. Shadows'
        <5>1. /\ DOMAIN parsed' \subseteq DOMAIN docs'
              /\ \A v \in DOMAIN parsed' : parsed'[v] = docs'[v]
          BY <1>0, <2>0, <3>4, <4>1, Constants DEF Shadows, Drop
        <5>2. \A v \in Uris : v \in DOMAIN shown' <=> v \in DOMAIN docs'
          BY <1>0, <2>0, <3>4, <4>2, Constants DEF Shadows, Put, Drop
        <5>3. \A v \in DOMAIN docs' : shown'[v] = docs'[v]
          BY <1>0, <2>0, <3>4, <4>2, <5>2, Constants DEF Shadows, Put, Drop, IsPartialFn
        <5> QED BY <5>1, <5>2, <5>3 DEF Shadows
      <4> QED BY <3>5, <4>1, <4>4, <4>5 DEF Room, IInv
    <3> QED BY <3>6, <3>7
  <2> QED BY <2>4, <2>5
<1>3. ASSUME NEW u \in Uris, DidClose(u) PROVE IInv'
  <2>1. /\ batch = None /\ batch' = None /\ enc' = enc
        /\ docs' = Drop(docs, u) /\ parsed' = Drop(parsed, u) /\ Publish(u)
    BY <1>3 DEF DidClose, Invalidate
  <2>2. shown' = Drop(shown, u)
    BY <2>1 DEF Publish, Drop
  <2>3. TypeOK'
    <3>1. <<>> \in Text
      BY DEF Text
    <3>2. IsPartialFn(docs', Uris, Text) /\ IsPartialFn(parsed', Uris, Text)
          /\ IsPartialFn(shown', Uris, Text)
      BY <2>1, <2>2, <3>1, MapTypes, <1>0 DEF TypeOK
    <3> QED BY <1>0, <1>3, <2>1, <3>2 DEF TypeOK, DidClose
  <2>4. DocsBounded'
    <3>1. DOMAIN docs' = DOMAIN docs \ {u}
      BY <2>1 DEF Drop
    <3>c. Counts(u)
      BY <1>0, PutCount
    <3> QED BY <1>0, <3>1, <3>c DEF Counts, DocsBounded
  <2>5. Shadows'
    BY <1>0, <2>1, <2>2, Constants DEF Shadows, Drop
  <2> QED BY <2>1, <2>3, <2>4, <2>5 DEF Room, IInv
<1>4. ASSUME NEW u \in Uris, Completion(u) PROVE IInv'
  <2>1. /\ UNCHANGED <<client, partial, enc, docs, shown, batch>>
        /\ batch = None /\ u \in DOMAIN docs /\ docs[u] \in Text
    BY <1>0, <1>4 DEF Completion, TypeOK, IsPartialFn
  <2>2. PICK kept : /\ kept = parsed \/ \E v : kept = Drop(parsed, v)
                    /\ parsed' = Put(kept, u, docs[u])
    BY <1>4 DEF Completion, InsertParsed
  <2>3. /\ IsPartialFn(kept, Uris, Text)
        /\ DOMAIN kept \subseteq DOMAIN parsed
        /\ \A v \in DOMAIN kept : kept[v] = parsed[v]
    BY <1>0, <2>2 DEF TypeOK, IsPartialFn, Drop
  <2>4. TypeOK'
    BY <2>1, <2>2, <2>3, MapTypes, <1>0 DEF TypeOK
  <2>5. Shadows'
    BY <1>0, <2>1, <2>2, <2>3, Constants DEF Shadows, Put
  <2> QED BY <2>1, <2>4, <2>5 DEF Room, DocsBounded, IInv
<1>5. CASE UNCHANGED vars
  BY <1>0, <1>5 DEF IInv, vars, TypeOK, DocsBounded, Room, Shadows, IsPartialFn
<1> QED BY <1>1, <1>2, <1>3, <1>4, <1>5 DEF Next

LEMMA StoreInv == Spec => []IInv
<1> QED BY StoreInit, StoreStep, PTL DEF Spec

\* Every variable keeps its type: no edit, however malformed, stores anything
\* but a text.
THEOREM TypeCorrect == Spec => []TypeOK
<1>1. IInv => TypeOK
  BY DEF IInv
<1> QED BY <1>1, StoreInv, PTL

\* The cap on the number of documents holds on every path a document comes in by.
THEOREM DocumentsCapped == Spec => []DocsBounded
<1>1. IInv => DocsBounded
  BY DEF IInv
<1> QED BY <1>1, StoreInv, PTL

\* Between messages the parse cache holds only parses of the stored texts.
THEOREM CacheFollowsStore == Spec => []CacheCurrent
<1>1. IInv => CacheCurrent
  BY DocsAssumption DEF IInv, TypeOK, IsPartialFn, Shadows, CacheCurrent
<1> QED BY <1>1, StoreInv, PTL

\* Between messages the diagnostics on screen are those of the stored texts.
THEOREM ScreenFollowsStore == Spec => []DiagnosticsCurrent
<1>1. IInv => DiagnosticsCurrent
  <2> SUFFICES ASSUME IInv, batch = None PROVE shown = docs
    BY DEF DiagnosticsCurrent
  <2>1. shown \in [DOMAIN shown -> Text] /\ docs \in [DOMAIN docs -> Text]
    BY DEF IInv, TypeOK, IsPartialFn
  <2>2. DOMAIN shown = DOMAIN docs /\ \A u \in DOMAIN docs : shown[u] = docs[u]
    BY DocsAssumption DEF IInv, TypeOK, IsPartialFn, Shadows
  <2> QED BY <2>1, <2>2
<1> QED BY <1>1, StoreInv, PTL

(***************************************************************************)
(* The client's text and the stored one.  What is stored for a document    *)
(* given in full is the client's text; a document refused, cut or changed  *)
(* unreadably stays in partial until a full text comes.                    *)
(***************************************************************************)
LEMMA MeasureType ==
  ASSUME NEW t \in Text
  PROVE  Bytes(t) \in Nat /\ Utf16(t) \in Nat
<1>1. \A w \in Weights : Total(w, t) \in Nat
  <2> SUFFICES ASSUME NEW w \in Weights PROVE Total(w, t) \in Nat
    OBVIOUS
  <2>1. PICK f : Ruler(w, t, f)
    BY RulerOf
  <2>2. Len(t) \in 0 .. Len(t)
    BY DEF Text
  <2> QED BY <2>1, <2>2 DEF Ruler
<1> QED BY <1>1, WeightsOf DEF Bytes, Utf16

\* Truncation keeps the cap, and texts within it.
LEMMA TruncateFits ==
  ASSUME NEW t \in Text
  PROVE  Bytes(Truncate(t)) <= MaxDocSize /\ (Bytes(t) <= MaxDocSize => Truncate(t) = t)
<1>1. MaxDocSize \in Nat
  BY DocsAssumption
<1>2. Prefix(t, Len(t)) = t
  BY DEF Prefix, Text
<1> QED BY <1>1, <1>2, FloorFits DEF Truncate

\* A part of a text has no more bytes than the text.
LEMMA PartFits ==
  ASSUME NEW a \in Text, NEW b \in Text, NEW c \in Text
  PROVE  a \o b \o c \in Text /\ Bytes(b) <= Bytes(a \o b \o c)
<1>1. a \o b \in Text /\ a \o b \o c \in Text
  BY DEF Text
<1>2. Bytes(a \o b) = Bytes(a) + Bytes(b) /\ Bytes((a \o b) \o c) = Bytes(a \o b) + Bytes(c)
  BY <1>1, ConcatSum, WeightsOf DEF Bytes
<1>3. Bytes(a) \in Nat /\ Bytes(b) \in Nat /\ Bytes(c) \in Nat
  BY MeasureType
<1> QED BY <1>1, <1>2, <1>3

\* The range of an edit can be read.
LEMMA RangeReadable ==
  ASSUME NEW t \in Text, NEW c \in Changes(t), c.kind = "edit"
  PROVE  /\ EditRange(t, c) # Invalid
         /\ EditRange(t, c).start = ClientPosition(t, c.from)
         /\ EditRange(t, c).end = ClientPosition(t, c.to)
<1>1. c.from \in Cursors(t) /\ c.to \in Cursors(t)
  BY DEF Changes
<1>2. \A k \in Cursors(t) : ClientPosition(t, k) \in WirePositions
  <2> SUFFICES ASSUME NEW k \in Cursors(t) PROVE ClientPosition(t, k) \in WirePositions
    OBVIOUS
  <2>1. Len(t) \in Nat /\ k \in Nat /\ k <= Len(t)
    BY DEF Text, Cursors
  <2> DEFINE before == {i \in 1 .. k : t[i] = LF}
             s == StartBefore(t, k)
  <2>2. before \in SUBSET (1 .. k)
    OBVIOUS
  <2>3. Cardinality(before) \in Nat
    <3> HIDE DEF before
    <3> QED BY <2>1, <2>2, PlacesFinite
  <2>4. s \in 0 .. k
    BY <2>1, StartBeforeIs
  <2>5. SubSeq(t, s + 1, k) \in Text
    <3> HIDE DEF s
    <3> QED BY <2>1, <2>4, SliceType
  <2>6. Measure(SubSeq(t, s + 1, k), enc) \in Nat
    BY <2>5, MeasureType DEF Measure
  <2>7. ClientPosition(t, k) =
          [line |-> Cardinality(before), character |-> Measure(SubSeq(t, s + 1, k), enc)]
    BY DEF ClientPosition, StartBefore, Measure
  <2> QED BY <2>3, <2>6, <2>7 DEF WirePositions
<1>3. EditRange(t, c) = [start |-> ClientPosition(t, c.from), end |-> ClientPosition(t, c.to)]
  BY DEF EditRange
<1> QED BY <1>1, <1>2, <1>3, InvalidAssumption DEF WireRanges

\* What an edit of the client is to its own text, it is to the stored one.
LEMMA EditFaithful ==
  ASSUME NEW t \in Text, Paired(t), NEW c \in Changes(t), c.kind = "edit"
  PROVE  /\ ApplyEdit(t, EditRange(t, c), c.text, enc) = Edited(t, c)
         /\ Edited(t, c) # Invalid /\ Edited(t, c) \in Text
         /\ Bytes(c.text) <= Bytes(Edited(t, c))
<1>1. c.from \in Cursors(t) /\ c.to \in Cursors(t) /\ c.from <= c.to
      /\ c.text \in Text
  <2>1. c.text \in Text
    BY ChangeType
  <2> QED BY <2>1 DEF Changes
<1>2. Len(t) \in Nat /\ c.from \in 0 .. Len(t) /\ c.to \in Nat /\ c.from \in Nat
  BY <1>1 DEF Text, Cursors
<1> DEFINE a == Prefix(t, c.from)
           b == SubSeq(t, c.to + 1, Len(t))
<1>3. a \in Text /\ b \in Text
  BY <1>2, PrefixType, SliceType
<1>4. Edited(t, c) = a \o c.text \o b
  BY DEF Edited
<1> HIDE DEF a, b
<1>5. Edited(t, c) \in Text /\ Bytes(c.text) <= Bytes(Edited(t, c))
  BY <1>1, <1>3, <1>4, PartFits
<1>6. /\ PositionToOffset(t, EditRange(t, c).start, enc) = c.from
      /\ PositionToOffset(t, EditRange(t, c).end, enc) = c.to
      /\ EditRange(t, c) # Invalid
  BY <1>1, RangeReadable, RoundTrip
<1>7. ApplyEdit(t, EditRange(t, c), c.text, enc) = a \o c.text \o b
  <2>1. Invalid # c.from /\ Invalid # c.to /\ ~(c.from > c.to)
    BY <1>1, <1>2, InvalidAssumption
  <2> QED BY <1>6, <2>1 DEF ApplyEdit, a, b
<1> QED BY <1>4, <1>5, <1>7, InvalidAssumption

\* Line ends that are whole in two texts, or in one, are whole in both together, or
\* in what is left of it.
LEMMA PairedConcat ==
  ASSUME NEW x \in Text, NEW y \in Text, Paired(x), Paired(y)
  PROVE  Paired(x \o y)
<1> SUFFICES ASSUME NEW i \in 1 .. Len(x \o y), (x \o y)[i] = CR
             PROVE  i < Len(x \o y) /\ (x \o y)[i + 1] = LF
  BY DEF Paired
<1>1. /\ Len(x \o y) = Len(x) + Len(y)
      /\ \A j \in 1 .. Len(x) : (x \o y)[j] = x[j]
      /\ \A j \in 1 .. Len(y) : (x \o y)[Len(x) + j] = y[j]
  BY DEF Text
<1>2. Len(x) \in Nat /\ Len(y) \in Nat /\ i \in Nat
  BY <1>1 DEF Text
<1>3. CASE i <= Len(x)
  <2>1. i \in 1 .. Len(x) /\ x[i] = CR
    BY <1>1, <1>2, <1>3
  <2>2. i < Len(x) /\ x[i + 1] = LF
    BY <2>1 DEF Paired
  <2>3. i + 1 \in 1 .. Len(x) /\ i < Len(x) + Len(y)
    BY <1>2, <2>2
  <2> QED BY <1>1, <2>2, <2>3
<1>4. CASE i > Len(x)
  <2>1. PICK j \in 1 .. Len(y) : i = Len(x) + j
    <3>1. i - Len(x) \in 1 .. Len(y) /\ i = Len(x) + (i - Len(x))
      BY <1>1, <1>2, <1>4
    <3> QED BY <3>1
  <2>2. y[j] = CR
    BY <1>1, <2>1
  <2>3. j < Len(y) /\ y[j + 1] = LF
    BY <2>2 DEF Paired
  <2>4. j + 1 \in 1 .. Len(y) /\ i + 1 = Len(x) + (j + 1) /\ i < Len(x) + Len(y)
    BY <1>2, <2>1, <2>3
  <2>5. (x \o y)[i + 1] = y[j + 1]
    BY <1>1, <2>4
  <2> QED BY <1>1, <2>3, <2>4, <2>5
<1> QED BY <1>2, <1>3, <1>4

LEMMA PairedRest ==
  ASSUME NEW t \in Text, Paired(t), NEW m \in 0 .. Len(t)
  PROVE  Paired(SubSeq(t, m + 1, Len(t)))
<1> DEFINE b == SubSeq(t, m + 1, Len(t))
<1>1. Len(t) \in Nat /\ m \in Nat /\ m <= Len(t)
  BY DEF Text
<1>2. Len(b) = Len(t) - m /\ \A i \in 1 .. Len(t) - m : b[i] = t[m + i]
  BY <1>1 DEF Text
<1> HIDE DEF b
<1>3. ASSUME NEW i \in 1 .. Len(b), b[i] = CR
      PROVE  i < Len(b) /\ b[i + 1] = LF
  <2>1. i \in Nat /\ i \in 1 .. Len(t) - m /\ m + i \in 1 .. Len(t)
    BY <1>1, <1>2
  <2>2. t[m + i] = CR
    BY <1>2, <1>3, <2>1
  <2>3. m + i < Len(t) /\ t[(m + i) + 1] = LF
    BY <2>1, <2>2 DEF Paired
  <2>4. i + 1 \in 1 .. Len(t) - m /\ m + (i + 1) = (m + i) + 1 /\ i < Len(t) - m
    BY <1>1, <2>1, <2>3
  <2> QED BY <1>2, <2>3, <2>4
<1>4. Paired(b)
  BY <1>3 DEF Paired
<1> QED BY <1>4 DEF b

\* Edits between line ends keep line ends whole.
LEMMA PairedEdit ==
  ASSUME NEW t \in Text, Paired(t), NEW c \in Changes(t)
  PROVE  Paired(Edited(t, c))
<1>1. Paired(c.text) /\ c.text \in Text
  <2>1. c.text \in Fragments \/ c.text = <<>>
    BY DEF Changes
  <2> QED BY <2>1, ChangeType, DocsAssumption DEF Paired
<1>2. CASE c.kind = "edit"
  <2>1. Len(t) \in Nat /\ c.from \in 0 .. Len(t) /\ c.to \in 0 .. Len(t)
        /\ ~(c.from \in 1 .. Len(t) - 1 /\ t[c.from] = CR /\ t[c.from + 1] = LF)
    BY <1>2 DEF Text, Changes, Cursors
  <2> DEFINE a == Prefix(t, c.from)
             b == SubSeq(t, c.to + 1, Len(t))
             n == c.text
  <2>2. Edited(t, c) = a \o n \o b
    BY <1>2 DEF Edited
  <2>3. a \in Text /\ Len(a) = c.from /\ \A i \in 1 .. c.from : a[i] = t[i]
    BY <2>1 DEF Prefix, Text
  <2>4. b \in Text /\ Len(b) = Len(t) - c.to
        /\ \A i \in 1 .. Len(t) - c.to : b[i] = t[c.to + i]
    BY <2>1 DEF Text
  <2>5. Paired(a)
    <3> SUFFICES ASSUME NEW i \in 1 .. Len(a), a[i] = CR
                 PROVE  i < Len(a) /\ a[i + 1] = LF
      BY DEF Paired
    <3>1. t[i] = CR /\ i \in 1 .. Len(t)
      BY <2>1, <2>3
    <3>2. i < Len(t) /\ t[i + 1] = LF
      BY <3>1 DEF Paired
    <3>3. i # c.from
      BY <2>1, <3>1, <3>2
    <3>4. i < c.from /\ i + 1 \in 1 .. c.from
      BY <2>1, <2>3, <3>3
    <3> QED BY <2>3, <3>2, <3>4
  <2>6. Paired(b)
    BY <2>1, PairedRest
  <2> HIDE DEF a, b, n
  <2>7. a \o n \in Text
    BY <1>1, <2>3 DEF Text, n
  <2>8. Paired(a \o n)
    BY <1>1, <2>3, <2>5, PairedConcat DEF n
  <2> QED BY <2>2, <2>4, <2>6, <2>7, <2>8, PairedConcat
<1>3. CASE c.kind # "edit"
  BY <1>1, <1>3 DEF Edited
<1> QED BY <1>2, <1>3

\* An accepted change makes the stored text what it makes the client's.
LEMMA PatchedFaithful ==
  ASSUME NEW u, NEW t \in Text, Paired(t), NEW c \in Changes(t), c.kind \in {"edit", "full"},
         Bytes(Edited(t, c)) <= MaxDocSize,
         c.kind = "edit" => u \in DOMAIN docs /\ docs[u] = t
  PROVE  Patched(u, t, c) = Edited(t, c)
<1>1. c.text \in Text /\ MaxDocSize \in Nat
  BY ChangeType, DocsAssumption
<1>2. CASE c.kind = "full"
  <2>1. Edited(t, c) = c.text
    BY <1>2 DEF Edited
  <2>2. Truncate(c.text) = c.text
    BY <1>1, <2>1, TruncateFits
  <2> QED BY <1>2, <2>1, <2>2 DEF Patched
<1>3. CASE c.kind = "edit"
  <2>1. /\ ApplyEdit(t, EditRange(t, c), c.text, enc) = Edited(t, c)
        /\ Edited(t, c) # Invalid /\ Edited(t, c) \in Text
        /\ Bytes(c.text) <= Bytes(Edited(t, c))
    BY <1>3, EditFaithful
  <2>2. Bytes(c.text) <= MaxDocSize
    BY <1>1, <2>1, MeasureType
  <2>3. Truncate(c.text) = c.text /\ Truncate(Edited(t, c)) = Edited(t, c)
    BY <1>1, <2>1, <2>2, TruncateFits
  <2> QED BY <1>3, <2>1, <2>3 DEF Patched
<1> QED BY <1>2, <1>3

Follows(u) ==
  /\ client[u] = None => u \notin DOMAIN docs
  /\ client[u] # None => Paired(client[u])
  /\ client[u] # None /\ u \notin partial => u \in DOMAIN docs /\ docs[u] = client[u]

SInv == \A u \in Uris : Follows(u)

\* What leaves a document alone leaves what is known of it.
LEMMA FollowsKept ==
  ASSUME NEW u, Follows(u), client'[u] = client[u],
         u \in partial' <=> u \in partial,
         u \in DOMAIN docs' <=> u \in DOMAIN docs,
         u \in DOMAIN docs => docs'[u] = docs[u]
  PROVE  Follows(u)'
BY DEF Follows

LEMMA FollowsInit == Init => SInv
BY DEF Init, SInv, Follows

LEMMA FollowsOpen ==
  ASSUME TypeOK, SInv, NEW u \in Uris, NEW t \in OpenTexts, DidOpen(u, t)
  PROVE  SInv'
<1>1. client' = [client EXCEPT ![u] = t] /\ client[u] = None /\ Paired(t)
      /\ t \in Text /\ t # None
  BY DocsAssumption DEF DidOpen
<1>2. client'[u] = t /\ \A v \in Uris \ {u} : client'[v] = client[v]
  BY <1>1 DEF TypeOK
<1>3. \A v \in Uris \ {u} : /\ v \in partial' <=> v \in partial
                            /\ v \in DOMAIN docs' <=> v \in DOMAIN docs
                            /\ v \in DOMAIN docs => docs'[v] = docs[v]
  BY DEF DidOpen, Put
<1>4. \A v \in Uris \ {u} : Follows(v)'
  BY <1>2, <1>3, FollowsKept DEF SInv
<1>5. Follows(u)'
  <2>1. CASE Rejected(u)
    <3>1. u \in partial'
      BY <2>1 DEF DidOpen
    <3> QED BY <1>1, <1>2, <3>1 DEF Follows
  <2>2. CASE ~Rejected(u)
    <3>1. u \in DOMAIN docs' /\ (docs'[u] # t => u \in partial')
      BY <2>2 DEF DidOpen, Put
    <3> QED BY <1>1, <1>2, <3>1 DEF Follows
  <2> QED BY <2>1, <2>2
<1> QED BY <1>4, <1>5 DEF SInv

LEMMA FollowsChange ==
  ASSUME TypeOK, SInv, NEW u \in Uris, NEW c \in Changes(client[u]), NEW more \in BOOLEAN,
         DidChange(u, c, more)
  PROVE  SInv'
<1> DEFINE t == client[u]
           new == Edited(t, c)
<1>1. client' = [client EXCEPT ![u] = new] /\ t # None
  BY DEF DidChange
<1>2. t \in Text /\ Paired(t)
  BY <1>1 DEF TypeOK, SInv, Follows
<1>3. new \in Text /\ Paired(new) /\ new # None
  BY <1>2, ChangeType, PairedEdit, DocsAssumption
<1>4. client'[u] = new /\ \A v \in Uris \ {u} : client'[v] = client[v]
  BY <1>1 DEF TypeOK
<1>5. c.kind \in {"edit", "full", "badRange", "noText"}
  BY DEF Changes
<1>6. CASE batch = None /\ Rejected(u)
  <2>1. UNCHANGED <<docs, partial>> /\ u \notin DOMAIN docs
    BY <1>6 DEF DidChange, Rejected
  <2>2. \A v \in Uris \ {u} : Follows(v)'
    BY <1>4, <2>1, FollowsKept DEF SInv
  <2>3. Follows(u)'
    BY <1>1, <1>3, <1>4, <2>1 DEF SInv, Follows
  <2> QED BY <2>2, <2>3 DEF SInv
<1>7. CASE ~(batch = None /\ Rejected(u))
  <2>1. /\ docs' = Stored(u, t, c)
        /\ partial' = IF Bytes(client'[u]) > MaxDocSize \/ c.kind = "badRange"
                        THEN partial \cup {u}
                        ELSE IF c.kind = "full" THEN partial \ {u} ELSE partial
    BY <1>7 DEF DidChange
  <2>2. \A v \in Uris \ {u} : /\ v \in partial' <=> v \in partial
                              /\ v \in DOMAIN docs' <=> v \in DOMAIN docs
                              /\ v \in DOMAIN docs => docs'[v] = docs[v]
    <3>1. \A v \in Uris \ {u} : v \in partial' <=> v \in partial
      BY <2>1
    <3>2. docs' = docs \/ docs' = Put(docs, u, Patched(u, t, c))
      BY <2>1 DEF Stored
    <3> QED BY <3>1, <3>2 DEF Put
  <2>3. \A v \in Uris \ {u} : Follows(v)'
    BY <1>4, <2>2, FollowsKept DEF SInv
  <2>4. ASSUME u \notin partial' PROVE u \in DOMAIN docs' /\ docs'[u] = new
    <3>1. Bytes(new) <= MaxDocSize /\ c.kind # "badRange"
      <4>1. ~(Bytes(new) > MaxDocSize) /\ c.kind # "badRange"
        BY <1>4, <2>1, <2>4
      <4>2. Bytes(new) \in Nat /\ MaxDocSize \in Nat
        BY <1>3, MeasureType, DocsAssumption
      <4> QED BY <4>1, <4>2
    <3>2. c.kind # "full" => u \in DOMAIN docs /\ docs[u] = t
      <4>1. c.kind # "full" => u \notin partial
        BY <2>1, <2>4
      <4> QED BY <1>1, <4>1 DEF SInv, Follows
    <3>3. CASE c.kind = "noText"
      BY <2>1, <3>2, <3>3 DEF Stored, Edited
    <3>4. CASE c.kind \in {"edit", "full"}
      <4>1. Patched(u, t, c) = new
        <5> HIDE DEF t
        <5>1. c \in Changes(t)
          BY DEF t
        <5>2. c.kind = "edit" => u \in DOMAIN docs /\ docs[u] = t
          BY <3>2
        <5> QED BY <1>2, <3>1, <3>4, <5>1, <5>2, PatchedFaithful
      <4>2. docs' = Put(docs, u, new)
        BY <2>1, <3>4, <4>1 DEF Stored
      <4> QED BY <4>2 DEF Put
    <3> QED BY <1>5, <3>1, <3>3, <3>4
  <2>5. Follows(u)'
    BY <1>3, <1>4, <2>4 DEF Follows
  <2> QED BY <2>3, <2>5 DEF SInv
<1> QED BY <1>6, <1>7

LEMMA FollowsClose ==
  ASSUME TypeOK, SInv, NEW u \in Uris, DidClose(u)
  PROVE  SInv'
<1>1. client'[u] = None /\ u \notin DOMAIN docs' /\ \A v \in Uris \ {u} : client'[v] = client[v]
  BY DEF DidClose, Drop, TypeOK
<1>2. \A v \in Uris \ {u} : /\ v \in partial' <=> v \in partial
                            /\ v \in DOMAIN docs' <=> v \in DOMAIN docs
                            /\ v \in DOMAIN docs => docs'[v] = docs[v]
  BY DEF DidClose, Drop
<1>3. \A v \in Uris \ {u} : Follows(v)'
  BY <1>1, <1>2, FollowsKept DEF SInv
<1>4. Follows(u)'
  BY <1>1 DEF Follows
<1> QED BY <1>3, <1>4 DEF SInv

LEMMA FollowsNext == IInv /\ SInv /\ [Next]_vars => SInv'
<1> SUFFICES ASSUME IInv, SInv, [Next]_vars PROVE SInv'
  OBVIOUS
<1>1. TypeOK
  BY DEF IInv
<1>2. ASSUME UNCHANGED <<client, partial, docs>> PROVE SInv'
  BY <1>2 DEF SInv, Follows
<1>3. CASE \E u \in Uris, t \in OpenTexts : DidOpen(u, t)
  BY <1>1, <1>3, FollowsOpen
<1>4. CASE \E u \in Uris : \E c \in Changes(client[u]), more \in BOOLEAN : DidChange(u, c, more)
  BY <1>1, <1>4, FollowsChange
<1>5. CASE \E u \in Uris : DidClose(u)
  BY <1>1, <1>5, FollowsClose
<1>6. CASE \E u \in Uris : Completion(u)
  BY <1>2, <1>6 DEF Completion
<1>7. CASE UNCHANGED vars
  BY <1>2, <1>7 DEF vars
<1> QED BY <1>3, <1>4, <1>5, <1>6, <1>7 DEF Next

(* The server edits the text the client edits: for every alphabet and both *)
(* encodings, patches, batches, malformed changes between good ones and    *)
(* full replacements leave the stored text equal to the client's, for      *)
(* every document given in full.                                           *)
THEOREM TextsAgree == Spec => []Synced
<1>1. Init => IInv /\ SInv
  BY StoreInit, FollowsInit
<1>2. IInv /\ SInv /\ [Next]_vars => (IInv /\ SInv)'
  BY StoreStep, FollowsNext
<1>3. IInv /\ SInv => Synced
  BY DEF IInv, TypeOK, IsPartialFn, SInv, Follows, Synced
<1> QED BY <1>1, <1>2, <1>3, PTL DEF Spec

(***************************************************************************)
(* The caps                                                                *)
(***************************************************************************)
Sizes == \A u \in DOMAIN docs : Bytes(docs[u]) <= MaxDocSize

\* Whatever a change carries, what is stored has been cut to the cap.
LEMMA PatchedFits ==
  ASSUME TypeOK, NEW u \in Uris, NEW t, NEW c, c.text \in Text
  PROVE  Bytes(Patched(u, t, c)) <= MaxDocSize
<1> DEFINE new == Truncate(c.text)
           whole == IF u \in DOMAIN docs THEN ApplyEdit(docs[u], EditRange(t, c), new, enc)
                                         ELSE Invalid
<1>1. new \in Text /\ Bytes(new) <= MaxDocSize
  BY TruncateType, TruncateFits
<1>2. whole \in Text \cup {Invalid}
  <2>1. CASE u \in DOMAIN docs
    <3>1. docs[u] \in Text
      BY <2>1 DEF TypeOK, IsPartialFn
    <3> QED BY <1>1, <2>1, <3>1, EditType
  <2>2. CASE u \notin DOMAIN docs
    BY <2>2
  <2> QED BY <2>1, <2>2
<1>3. whole # Invalid => Bytes(Truncate(whole)) <= MaxDocSize
  BY <1>2, TruncateFits
<1> HIDE DEF new, whole
<1>4. Patched(u, t, c) = IF c.kind = "full" \/ whole = Invalid THEN new ELSE Truncate(whole)
  BY DEF Patched, new, whole
<1> QED BY <1>1, <1>3, <1>4

LEMMA SizesNext == IInv /\ Sizes /\ [Next]_vars => Sizes'
<1> SUFFICES ASSUME IInv, Sizes, [Next]_vars PROVE Sizes'
  OBVIOUS
<1>1. TypeOK
  BY DEF IInv
<1>2. ASSUME NEW u, NEW s, Bytes(s) <= MaxDocSize, docs' = Put(docs, u, s) PROVE Sizes'
  BY <1>2 DEF Sizes, Put
<1>3. ASSUME docs' = docs PROVE Sizes'
  BY <1>3 DEF Sizes
<1>4. ASSUME NEW u \in Uris, NEW t \in OpenTexts, DidOpen(u, t) PROVE Sizes'
  <2>1. StripBom(t) \in Text
    BY StripType, DocsAssumption
  <2>2. Bytes(Truncate(StripBom(t))) <= MaxDocSize
    BY <2>1, TruncateFits
  <2>3. docs' = docs \/ docs' = Put(docs, u, Truncate(StripBom(t)))
    BY <1>4 DEF DidOpen
  <2> QED BY <1>2, <1>3, <2>2, <2>3
<1>5. ASSUME NEW u \in Uris, NEW c \in Changes(client[u]), NEW more \in BOOLEAN,
             DidChange(u, c, more)
      PROVE  Sizes'
  <2>1. client[u] \in Text
    BY <1>1, <1>5 DEF DidChange, TypeOK
  <2>2. c.text \in Text
    BY <2>1, ChangeType
  <2>3. Bytes(Patched(u, client[u], c)) <= MaxDocSize
    BY <1>1, <2>2, PatchedFits
  <2>4. docs' = docs \/ docs' = Put(docs, u, Patched(u, client[u], c))
    BY <1>5 DEF DidChange, Stored
  <2> QED BY <1>2, <1>3, <2>3, <2>4
<1>6. ASSUME NEW u \in Uris, DidClose(u) PROVE Sizes'
  BY <1>6 DEF DidClose, Drop, Sizes
<1>7. ASSUME NEW u \in Uris, Completion(u) PROVE Sizes'
  BY <1>3, <1>7 DEF Completion
<1>8. CASE UNCHANGED vars
  BY <1>3, <1>8 DEF vars
<1> QED BY <1>4, <1>5, <1>6, <1>7, <1>8 DEF Next

\* What a queue must be
LEMMA OrderFrom ==
  ASSUME NEW s \in Seq(Uris), order' = s,
         \A i, j \in 1 .. Len(s) : s[i] = s[j] => i = j,
         {s[i] : i \in 1 .. Len(s)} = DOMAIN parsed'
  PROVE  OrderInSync'
BY DEF OrderInSync

\* Taking a document out of the queue takes it out of the cache.
LEMMA OrderInvalidate ==
  ASSUME OrderInSync, NEW u, Invalidate(u)
  PROVE  OrderInSync'
<1> DEFINE keep == {i \in DOMAIN order : order[i] # u}
<1>1. /\ order \in Seq(Uris) /\ Len(order) \in Nat /\ DOMAIN order = 1 .. Len(order)
      /\ \A i, j \in 1 .. Len(order) : order[i] = order[j] => i = j
      /\ {order[i] : i \in 1 .. Len(order)} = DOMAIN parsed
  BY DEF OrderInSync
<1>2. order' = Chosen(order, keep) /\ parsed' = Drop(parsed, u)
  BY DEF Invalidate
<1>3. /\ keep \in SUBSET DOMAIN order
      /\ \A i \in 1 .. Len(order) : i \in keep <=> order[i] # u
  BY <1>1
<1> HIDE DEF keep
<1> DEFINE s == Chosen(order, keep)
<1>4. /\ s \in Seq(Uris)
      /\ \A i \in keep : Rank(keep, i) \in 1 .. Len(s) /\ s[Rank(keep, i)] = order[i]
      /\ \A m \in 1 .. Len(s) : \E i \in keep : Rank(keep, i) = m /\ s[m] = order[i]
  BY <1>1, <1>3, ChosenKeeps
<1> HIDE DEF s
<1>5. \A m, n \in 1 .. Len(s) : s[m] = s[n] => m = n
  <2> SUFFICES ASSUME NEW m \in 1 .. Len(s), NEW n \in 1 .. Len(s), s[m] = s[n] PROVE m = n
    OBVIOUS
  <2>1. PICK i \in keep : Rank(keep, i) = m /\ s[m] = order[i]
    BY <1>4
  <2>2. PICK j \in keep : Rank(keep, j) = n /\ s[n] = order[j]
    BY <1>4
  <2>3. i = j
    BY <1>1, <1>3, <2>1, <2>2
  <2> QED BY <2>1, <2>2, <2>3
<1>6. {s[m] : m \in 1 .. Len(s)} = DOMAIN parsed \ {u}
  <2>1. ASSUME NEW m \in 1 .. Len(s) PROVE s[m] \in DOMAIN parsed \ {u}
    <3>1. PICK i \in keep : s[m] = order[i]
      BY <1>4
    <3>2. i \in 1 .. Len(order) /\ order[i] # u
      BY <1>1, <1>3
    <3> QED BY <1>1, <3>1, <3>2
  <2>2. ASSUME NEW v \in DOMAIN parsed \ {u} PROVE \E m \in 1 .. Len(s) : s[m] = v
    <3>1. PICK i \in 1 .. Len(order) : order[i] = v
      BY <1>1
    <3>2. i \in keep
      BY <1>3, <3>1
    <3> QED BY <1>4, <3>1, <3>2
  <2> QED BY <2>1, <2>2
<1>7. order' = s /\ DOMAIN parsed' = DOMAIN parsed \ {u}
  BY <1>2 DEF s, Drop
<1> QED BY <1>4, <1>5, <1>6, <1>7 DEF OrderInSync

\* A new document goes to the end of the queue, and the first goes when it is full.
LEMMA OrderInsert ==
  ASSUME TypeOK, OrderInSync, NEW u \in Uris, InsertParsed(u)
  PROVE  OrderInSync'
<1>1. /\ order \in Seq(Uris) /\ Len(order) \in Nat
      /\ \A i, j \in 1 .. Len(order) : order[i] = order[j] => i = j
      /\ {order[i] : i \in 1 .. Len(order)} = DOMAIN parsed
  BY DEF OrderInSync
<1> DEFINE full == u \notin DOMAIN parsed /\ Cardinality(DOMAIN parsed) >= MaxDocs
           alive == {i \in 1 .. Len(order) : order[i] \in DOMAIN parsed}
           drained == IF ~full THEN 0 ELSE IF alive = {} THEN Len(order) ELSE Min(alive)
           kept == IF drained \in alive THEN Drop(parsed, order[drained]) ELSE parsed
<1>2. /\ parsed' = Put(kept, u, docs[u])
      /\ order' = IF u \in DOMAIN parsed THEN order
                  ELSE Append(SubSeq(order, drained + 1, Len(order)), u)
  BY DEF InsertParsed
<1>3. alive = 1 .. Len(order)
  BY <1>1
<1>4. CASE u \in DOMAIN parsed
  <2>1. drained = 0 /\ 0 \notin alive
    BY <1>3, <1>4
  <2>2. kept = parsed
    BY <2>1
  <2> HIDE DEF kept, drained, alive
  <2>3. order' = order /\ DOMAIN parsed' = DOMAIN parsed
    BY <1>2, <1>4, <2>2 DEF Put
  <2> QED BY <1>1, <2>3 DEF OrderInSync
<1>5. CASE u \notin DOMAIN parsed
  <2>1. drained \in 0 .. Len(order)
        /\ DOMAIN kept = DOMAIN parsed \ {order[i] : i \in 1 .. drained}
    <3>1. CASE full
      <4>1. DOMAIN parsed # {}
        <5>1. MaxDocs \in Nat \ {0} /\ Cardinality({}) = 0
          BY DocsAssumption, FS_EmptySet
        <5> QED BY <3>1, <5>1
      <4>2. 1 \in 1 .. Len(order)
        BY <1>1, <4>1
      <4>3. Min(alive) = 1
        <5>1. \A x \in alive : (\A y \in alive : x <= y) <=> x = 1
          BY <1>1, <1>3, <4>2
        <5> QED BY <1>3, <4>2, <5>1 DEF Min
      <4>4. drained = 1 /\ alive # {} /\ drained \in alive
        BY <1>3, <3>1, <4>2, <4>3
      <4>5. DOMAIN kept = DOMAIN parsed \ {order[1]}
        BY <4>4 DEF Drop
      <4>6. {order[i] : i \in 1 .. 1} = {order[1]}
        OBVIOUS
      <4> HIDE DEF drained, kept, alive
      <4> QED BY <1>1, <4>2, <4>4, <4>5, <4>6
    <3>2. CASE ~full
      <4>1. drained = 0 /\ 0 \notin alive
        BY <1>3, <3>2
      <4>2. kept = parsed
        BY <4>1
      <4> HIDE DEF drained, kept, alive
      <4>3. 1 .. drained = {}
        BY <4>1
      <4>4. DOMAIN kept = DOMAIN parsed \ {order[i] : i \in 1 .. drained}
        BY <4>2, <4>3
      <4> QED BY <1>1, <4>1, <4>4
    <3> QED BY <3>1, <3>2
  <2> HIDE DEF kept, drained, alive
  <2> DEFINE rest == SubSeq(order, drained + 1, Len(order))
             s == Append(rest, u)
             n == Len(order) - drained
  <2>2. /\ n \in Nat /\ rest \in Seq(Uris) /\ Len(rest) = n
        /\ \A i \in 1 .. n : rest[i] = order[drained + i]
    BY <1>1, <2>1
  <2> HIDE DEF rest
  <2>3. /\ s \in Seq(Uris) /\ Len(s) = n + 1 /\ s[n + 1] = u
        /\ \A i \in 1 .. n : s[i] = order[drained + i]
    BY <2>2
  <2>4. order' = s /\ DOMAIN parsed' = DOMAIN kept \cup {u}
    BY <1>2, <1>5 DEF rest, Put
  <2>5. \A i \in 1 .. n : drained + i \in 1 .. Len(order) /\ ~(drained + i \in 1 .. drained)
    BY <1>1, <2>1
  <2>6. \A i \in 1 .. Len(order) : i \in 1 .. drained \/ (i - drained \in 1 .. n /\ drained + (i - drained) = i)
    BY <1>1, <2>1
  <2> HIDE DEF s, n
  <2>7. \A i \in 1 .. n : s[i] \in DOMAIN kept /\ s[i] # u
    <3> SUFFICES ASSUME NEW i \in 1 .. n PROVE s[i] \in DOMAIN kept /\ s[i] # u
      OBVIOUS
    <3>1. s[i] = order[drained + i] /\ order[drained + i] \in DOMAIN parsed
      BY <1>1, <2>3, <2>5
    <3>2. order[drained + i] \notin {order[j] : j \in 1 .. drained}
      <4> SUFFICES ASSUME NEW j \in 1 .. drained, order[drained + i] = order[j] PROVE FALSE
        OBVIOUS
      <4>1. j \in 1 .. Len(order)
        BY <1>1, <2>1
      <4> QED BY <1>1, <2>5, <4>1
    <3> QED BY <1>5, <2>1, <3>1, <3>2
  <2>8. \A v \in DOMAIN kept : \E i \in 1 .. n : s[i] = v
    <3> SUFFICES ASSUME NEW v \in DOMAIN kept PROVE \E i \in 1 .. n : s[i] = v
      OBVIOUS
    <3>1. v \in DOMAIN parsed /\ v \notin {order[j] : j \in 1 .. drained}
      BY <2>1
    <3>2. PICK i \in 1 .. Len(order) : order[i] = v
      BY <1>1, <3>1
    <3>3. i - drained \in 1 .. n /\ drained + (i - drained) = i
      BY <2>6, <3>1, <3>2
    <3> QED BY <2>3, <3>2, <3>3
  <2>9. {s[i] : i \in 1 .. Len(s)} = DOMAIN kept \cup {u}
    <3>1. \A i \in 1 .. Len(s) : i \in 1 .. n \/ i = n + 1
      BY <2>2, <2>3
    <3>2. n + 1 \in 1 .. Len(s) /\ \A i \in 1 .. n : i \in 1 .. Len(s)
      BY <2>2, <2>3
    <3> QED BY <2>3, <2>7, <2>8, <3>1, <3>2
  <2>10. \A i, j \in 1 .. Len(s) : s[i] = s[j] => i = j
    <3> SUFFICES ASSUME NEW i \in 1 .. Len(s), NEW j \in 1 .. Len(s), s[i] = s[j] PROVE i = j
      OBVIOUS
    <3>1. (i \in 1 .. n \/ i = n + 1) /\ (j \in 1 .. n \/ j = n + 1)
      BY <2>2, <2>3
    <3>2. CASE i \in 1 .. n /\ j \in 1 .. n
      <4>1. order[drained + i] = order[drained + j]
        BY <2>3, <3>2
      <4>2. drained + i = drained + j
        BY <1>1, <2>5, <3>2, <4>1
      <4> QED BY <2>1, <3>2, <4>2
    <3>3. CASE ~(i \in 1 .. n /\ j \in 1 .. n)
      BY <2>3, <2>7, <3>1, <3>3
    <3> QED BY <3>2, <3>3
  <2>11. {s[i] : i \in 1 .. Len(s)} = DOMAIN parsed'
    BY <2>4, <2>9
  <2> QED BY <2>3, <2>4, <2>10, <2>11, OrderFrom
<1> QED BY <1>4, <1>5

LEMMA OrderNext == IInv /\ OrderInSync /\ [Next]_vars => OrderInSync'
<1> SUFFICES ASSUME IInv, OrderInSync, [Next]_vars PROVE OrderInSync'
  OBVIOUS
<1>1. ASSUME UNCHANGED <<parsed, order>> PROVE OrderInSync'
  BY <1>1 DEF OrderInSync
<1>2. ASSUME NEW u \in Uris, NEW t \in OpenTexts, DidOpen(u, t) PROVE OrderInSync'
  BY <1>1, <1>2, OrderInvalidate DEF DidOpen
<1>3. ASSUME NEW u \in Uris, NEW c, NEW more \in BOOLEAN, DidChange(u, c, more)
      PROVE  OrderInSync'
  BY <1>1, <1>3, OrderInvalidate DEF DidChange
<1>4. ASSUME NEW u \in Uris, DidClose(u) PROVE OrderInSync'
  BY <1>4, OrderInvalidate DEF DidClose
<1>5. ASSUME NEW u \in Uris, Completion(u) PROVE OrderInSync'
  BY <1>5, OrderInsert DEF Completion, IInv
<1>6. CASE UNCHANGED vars
  BY <1>1, <1>6 DEF vars
<1> QED BY <1>2, <1>3, <1>4, <1>5, <1>6 DEF Next

(* The store, each document and the queue of the parse cache stay within   *)
(* their caps on every path a text comes in by, patches included, and the  *)
(* queue holds every cached document once.                                 *)
THEOREM CapsHold == Spec => []StoreBounded
<1>1. Init => IInv /\ Sizes /\ OrderInSync
  <2>1. Init => Sizes /\ OrderInSync
    BY DEF Init, Sizes, OrderInSync
  <2> QED BY <2>1, StoreInit
<1>2. IInv /\ Sizes /\ OrderInSync /\ [Next]_vars => (IInv /\ Sizes /\ OrderInSync)'
  BY StoreStep, SizesNext, OrderNext
<1>3. IInv /\ Sizes /\ OrderInSync => StoreBounded
  BY DEF IInv, Sizes, StoreBounded
<1> QED BY <1>1, <1>2, <1>3, PTL DEF Spec
=============================================================================
