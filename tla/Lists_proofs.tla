---------------------------- MODULE Lists_proofs ----------------------------
(***************************************************************************)
(* Facts about lists that the other proofs cite: induction over a list in  *)
(* a form that quantifies over sets only, and what Chosen returns.         *)
(***************************************************************************)
EXTENDS Lists, Integers, FiniteSetTheorems, FunctionTheorems, SequenceTheorems,
        WellFoundedInduction, TLAPS

\* A set of naturals that is not empty has a least element.
LEMMA LeastOf ==
  ASSUME NEW T, T \subseteq Nat, T # {}
  PROVE  \E m \in T : \A n \in T : m <= n
<1> DEFINE R == OpToRel(<, Nat)
<1>1. IsWellFoundedOn(R, Nat)
  BY NatLessThanWellFounded
<1>2. \A x, y \in Nat : x < y => <<x, y>> \in R
  BY DEF OpToRel
<1> HIDE DEF R
<1>3. PICK m \in T : \A n \in T : <<n, m>> \notin R
  BY <1>1, WFMin
<1>4. ASSUME NEW n \in T PROVE m <= n
  <2>1. n \in Nat /\ m \in Nat /\ ~(n < m)
    BY <1>2, <1>3
  <2> QED BY <2>1
<1> QED BY <1>4

\* A set with 0 and, with each natural, the next one, holds them all.
LEMMA Induction ==
  ASSUME NEW S, 0 \in S, \A n \in Nat : n \in S => n + 1 \in S
  PROVE  Nat \subseteq S
<1> SUFFICES ASSUME Nat \ S # {} PROVE FALSE
  OBVIOUS
<1>1. PICK m \in Nat \ S : \A n \in Nat \ S : m <= n
  BY LeastOf
<1>2. m # 0 /\ m - 1 \in Nat /\ m - 1 \in S
  BY <1>1
<1> QED BY <1>1, <1>2

\* What holds at 0 and goes on up to n holds up to n.
LEMMA UpTo ==
  ASSUME NEW n \in Nat, NEW S, 0 \in S, \A k \in 0 .. n - 1 : k \in S => k + 1 \in S
  PROVE  0 .. n \subseteq S
<1> DEFINE T == {k \in Nat : k <= n => k \in S}
<1>1. 0 \in T
  OBVIOUS
<1>2. ASSUME NEW k \in Nat, k \in T PROVE k + 1 \in T
  <2>1. k + 1 <= n => k \in 0 .. n - 1
    OBVIOUS
  <2> QED BY <1>2, <2>1
<1>3. Nat \subseteq T
  <2> HIDE DEF T
  <2> QED BY <1>1, <1>2, Induction
<1> QED BY <1>3

\* Values that go from the set of their number to that of the next one
LEMMA StaysIn ==
  ASSUME NEW n \in Nat, NEW S, NEW f, f[0] \in S[0],
         \A k \in 1 .. n : f[k - 1] \in S[k - 1] => f[k] \in S[k]
  PROVE  \A k \in 0 .. n : f[k] \in S[k]
<1> DEFINE T == {k \in 0 .. n : f[k] \in S[k]}
<1>1. 0 \in T
  OBVIOUS
<1>2. ASSUME NEW k \in 0 .. n - 1, k \in T PROVE k + 1 \in T
  <2>1. k + 1 \in 1 .. n /\ k + 1 - 1 = k /\ k + 1 \in 0 .. n
    OBVIOUS
  <2> QED BY <1>2, <2>1
<1>3. 0 .. n \subseteq T
  <2> HIDE DEF T
  <2> QED BY <1>1, <1>2, UpTo
<1> QED BY <1>3

\* What grows with every step grows.
LEMMA StepsGrow ==
  ASSUME NEW n \in Nat, NEW f, \A k \in 0 .. n : f[k] \in Nat,
         \A k \in 1 .. n : f[k - 1] < f[k]
  PROVE  \A i, j \in 0 .. n : i < j => f[i] < f[j]
<1> SUFFICES ASSUME NEW i \in 0 .. n PROVE \A j \in 0 .. n : i < j => f[i] < f[j]
  OBVIOUS
<1> DEFINE S == {j \in 0 .. n : i < j => f[i] < f[j]}
<1>1. 0 \in S
  OBVIOUS
<1>2. ASSUME NEW k \in 0 .. n - 1, k \in S PROVE k + 1 \in S
  <2>1. k + 1 \in 1 .. n /\ k + 1 - 1 = k /\ k \in 0 .. n /\ k + 1 \in 0 .. n
    OBVIOUS
  <2>2. f[k] < f[k + 1] /\ f[k] \in Nat /\ f[k + 1] \in Nat /\ f[i] \in Nat
    BY <2>1
  <2>3. i < k + 1 => f[i] <= f[k]
    <3>1. i < k + 1 => i = k \/ i < k
      OBVIOUS
    <3> QED BY <1>2, <2>2, <3>1
  <2> QED BY <2>1, <2>2, <2>3
<1>3. 0 .. n \subseteq S
  <2> HIDE DEF S
  <2> QED BY <1>1, <1>2, UpTo
<1> QED BY <1>3

\* f has the first value and gets every other one from the one before it by a step;
\* the value of number k is in S[k].
Unfolds(f, n, S, start, step) ==
  /\ DOMAIN f = 0 .. n /\ f = [k \in 0 .. n |-> f[k]] /\ f[0] = start
  /\ \A k \in 1 .. n : f[k - 1] \in S[k - 1] /\ f[k] = step[k][f[k - 1]]
  /\ \A k \in 0 .. n : f[k] \in S[k]

\* There is such a function: what a recursive definition over a list needs.
LEMMA Recursion ==
  ASSUME NEW n \in Nat, NEW S, NEW start \in S[0], NEW step,
         \A k \in 1 .. n : \A x \in S[k - 1] : step[k][x] \in S[k]
  PROVE  \E f : Unfolds(f, n, S, start, step)
<1> DEFINE T == {m \in 0 .. n : \E f : Unfolds(f, m, S, start, step)}
<1>1. 0 \in T
  <2> DEFINE f == [k \in 0 .. 0 |-> start]
  <2>1. Unfolds(f, 0, S, start, step)
    BY DEF Unfolds
  <2>2. 0 \in 0 .. n
    OBVIOUS
  <2> QED BY <2>1, <2>2
<1>2. ASSUME NEW m \in 0 .. n - 1, m \in T PROVE m + 1 \in T
  <2>1. PICK f : Unfolds(f, m, S, start, step)
    BY <1>2
  <2>2. /\ DOMAIN f = 0 .. m /\ f[0] = start
        /\ \A k \in 1 .. m : f[k - 1] \in S[k - 1] /\ f[k] = step[k][f[k - 1]]
        /\ \A k \in 0 .. m : f[k] \in S[k]
    BY <2>1 DEF Unfolds
  <2>3. m + 1 \in 1 .. n /\ m \in 0 .. m /\ m + 1 - 1 = m /\ m + 1 \in 0 .. n
    OBVIOUS
  <2>4. step[m + 1][f[m]] \in S[m + 1]
    <3>1. \A x \in S[m] : step[m + 1][x] \in S[m + 1]
      BY <2>3
    <3> QED BY <2>2, <2>3, <3>1
  <2> DEFINE last == step[m + 1][f[m]]
             g == [k \in 0 .. m + 1 |-> IF k = m + 1 THEN last ELSE f[k]]
  <2> HIDE DEF last
  <2>5. /\ DOMAIN g = 0 .. m + 1
        /\ \A k \in 0 .. m : g[k] = f[k]
        /\ g[m + 1] = last
    OBVIOUS
  <2>6. g = [k \in 0 .. m + 1 |-> g[k]]
    OBVIOUS
  <2> HIDE DEF g
  <2>7. g[0] = start
    BY <2>2, <2>5
  <2>8. ASSUME NEW k \in 1 .. m + 1 PROVE g[k - 1] \in S[k - 1] /\ g[k] = step[k][g[k - 1]]
    <3>1. CASE k \in 1 .. m
      <4>1. k - 1 \in 0 .. m /\ k \in 0 .. m
        BY <3>1
      <4> QED BY <2>2, <2>5, <3>1, <4>1
    <3>2. CASE k = m + 1
      BY <2>2, <2>3, <2>5, <3>2 DEF last
    <3> QED BY <3>1, <3>2
  <2>9. ASSUME NEW k \in 0 .. m + 1 PROVE g[k] \in S[k]
    <3>1. CASE k \in 0 .. m
      BY <2>2, <2>5, <3>1
    <3>2. CASE k = m + 1
      BY <2>4, <2>5, <3>2 DEF last
    <3> QED BY <3>1, <3>2
  <2>10. Unfolds(g, m + 1, S, start, step)
    BY <2>5, <2>6, <2>7, <2>8, <2>9 DEF Unfolds
  <2> QED BY <2>3, <2>10
<1>3. n \in T
  <2>1. 0 .. n \subseteq T
    <3> HIDE DEF T
    <3> QED BY <1>1, <1>2, UpTo
  <2> QED BY <2>1
<1> QED BY <1>3

-----------------------------------------------------------------------------
(* Chosen *)

\* How many numbers there are up to k
LEMMA CountUpTo ==
  ASSUME NEW k \in Nat
  PROVE  Cardinality(1 .. k) = k
<1>1. 1 \in Int /\ k \in Int /\ (1 > k => k = 0) /\ k - 1 + 1 = k
  OBVIOUS
<1> QED BY <1>1, FS_Interval

\* The places kept are finitely many.
LEMMA PlacesFinite ==
  ASSUME NEW n \in Nat, NEW keep \in SUBSET (1 .. n)
  PROVE  IsFiniteSet(keep) /\ Cardinality(keep) \in Nat /\ Cardinality(keep) <= n
<1>1. 1 \in Int /\ n \in Int /\ (1 > n => n = 0) /\ n - 1 + 1 = n
  OBVIOUS
<1>2. IsFiniteSet(1 .. n) /\ Cardinality(1 .. n) = n
  BY <1>1, FS_Interval
<1>3. IsFiniteSet(keep) /\ Cardinality(keep) <= Cardinality(1 .. n)
  BY <1>2, FS_Subset
<1> QED BY <1>2, <1>3, FS_CardinalityType

\* The places kept are finitely many, and each has a rank among them.
LEMMA RankRange ==
  ASSUME NEW n \in Nat, NEW keep \in SUBSET (1 .. n), NEW i \in keep
  PROVE  /\ IsFiniteSet(keep) /\ Cardinality(keep) \in Nat
         /\ Rank(keep, i) \in 1 .. Cardinality(keep)
<1> DEFINE upto == {j \in keep : j <= i}
<1>1. IsFiniteSet(keep) /\ Cardinality(keep) \in Nat
  BY PlacesFinite
<1>2. upto \in SUBSET keep /\ i \in upto
  OBVIOUS
<1> HIDE DEF upto
<1>3. IsFiniteSet(upto) /\ Cardinality(upto) \in Nat /\ Cardinality(upto) <= Cardinality(keep)
  BY <1>1, <1>2, FS_Subset, FS_CardinalityType
<1>4. Cardinality(upto) # 0
  BY <1>2, <1>3, FS_EmptySet
<1> QED BY <1>1, <1>3, <1>4 DEF Rank, upto

\* A later place has a greater rank.
LEMMA RankGrows ==
  ASSUME NEW n \in Nat, NEW keep \in SUBSET (1 .. n), NEW i \in keep, NEW j \in keep, i < j
  PROVE  Rank(keep, i) < Rank(keep, j)
<1> DEFINE upto(k) == {m \in keep : m <= k}
<1>1. IsFiniteSet(keep)
  BY RankRange
<1>2. upto(i) \in SUBSET upto(j) /\ j \in upto(j) /\ j \notin upto(i) /\ upto(j) \in SUBSET keep
  <2>1. \A m \in keep : m \in Int
    OBVIOUS
  <2>2. ASSUME NEW m \in keep, m <= i PROVE m <= j
    BY <2>1, <2>2
  <2>3. upto(i) \in SUBSET upto(j)
    BY <2>2
  <2>4. j <= j /\ ~(j <= i)
    BY <2>1
  <2> QED BY <2>3, <2>4
<1> HIDE DEF upto
<1>3. IsFiniteSet(upto(j)) /\ Cardinality(upto(j)) \in Nat
  BY <1>1, <1>2, FS_Subset, FS_CardinalityType
<1>4. /\ Cardinality(upto(i)) <= Cardinality(upto(j)) /\ Cardinality(upto(i)) # Cardinality(upto(j))
      /\ IsFiniteSet(upto(i))
  BY <1>2, <1>3, FS_Subset
<1>5. Cardinality(upto(i)) \in Nat
  BY <1>4, FS_CardinalityType
<1> QED BY <1>3, <1>4, <1>5 DEF Rank, upto

\* Every rank up to the number of places is the rank of exactly one.
LEMMA RankOnto ==
  ASSUME NEW n \in Nat, NEW keep \in SUBSET (1 .. n)
  PROVE  /\ \A i, j \in keep : Rank(keep, i) = Rank(keep, j) => i = j
         /\ \A m \in 1 .. Cardinality(keep) : \E i \in keep : Rank(keep, i) = m
<1> DEFINE f == [i \in keep |-> Rank(keep, i)]
           T == 1 .. Cardinality(keep)
<1>1. IsFiniteSet(keep) /\ Cardinality(keep) \in Nat
  BY PlacesFinite
<1>2. IsFiniteSet(T) /\ Cardinality(T) = Cardinality(keep)
  BY <1>1, FS_Interval
<1>3. f \in [keep -> T]
  <2>1. \A i \in keep : Rank(keep, i) \in T
    BY RankRange
  <2> QED BY <2>1
<1>4. ASSUME NEW i \in keep, NEW j \in keep, Rank(keep, i) = Rank(keep, j) PROVE i = j
  <2>1. i < j \/ j < i \/ i = j
    OBVIOUS
  <2>2. Rank(keep, i) \in 1 .. Cardinality(keep) /\ Rank(keep, j) \in 1 .. Cardinality(keep)
    BY RankRange
  <2>3. Rank(keep, i) \in Int /\ Rank(keep, j) \in Int
    BY <2>2
  <2>4. ASSUME i < j PROVE FALSE
    <3>1. Rank(keep, i) < Rank(keep, j)
      BY <2>4, RankGrows
    <3> QED BY <1>4, <2>3, <3>1
  <2>5. ASSUME j < i PROVE FALSE
    <3>1. Rank(keep, j) < Rank(keep, i)
      BY <2>5, RankGrows
    <3> QED BY <1>4, <2>3, <3>1
  <2> QED BY <2>1, <2>4, <2>5
<1>5. f \in Injection(keep, T)
  <2>1. \A a, b \in keep : f[a] = f[b] => a = b
    BY <1>4
  <2> HIDE DEF f, T
  <2> QED BY <1>3, <2>1, Fun_IsInj
<1>6. f \in Surjection(keep, T)
  <2> HIDE DEF f, T
  <2> QED BY <1>1, <1>2, <1>5, FS_Injection
<1>7. \A m \in T : \E i \in keep : f[i] = m
  <2> HIDE DEF f, T
  <2> QED BY <1>6, Fun_SurjectionProperties
<1> QED BY <1>4, <1>7

\* The places come in order, and each is the one of its rank.
LEMMA NthPlace ==
  ASSUME NEW n \in Nat, NEW keep \in SUBSET (1 .. n)
  PROVE  /\ \A m \in 1 .. Cardinality(keep) : Nth(keep, m) \in keep /\ Rank(keep, Nth(keep, m)) = m
         /\ \A i \in keep : Nth(keep, Rank(keep, i)) = i
         /\ \A m, k \in 1 .. Cardinality(keep) : m < k => Nth(keep, m) < Nth(keep, k)
<1>0. /\ \A i, j \in keep : Rank(keep, i) = Rank(keep, j) => i = j
      /\ \A m \in 1 .. Cardinality(keep) : \E i \in keep : Rank(keep, i) = m
  BY RankOnto
<1>1. \A m \in 1 .. Cardinality(keep) : Nth(keep, m) \in keep /\ Rank(keep, Nth(keep, m)) = m
  BY <1>0 DEF Nth
<1>2. \A i \in keep : Nth(keep, Rank(keep, i)) = i
  BY <1>0 DEF Nth
<1>3. ASSUME NEW m \in 1 .. Cardinality(keep), NEW k \in 1 .. Cardinality(keep), m < k
      PROVE  Nth(keep, m) < Nth(keep, k)
  <2> DEFINE i == Nth(keep, m)
             j == Nth(keep, k)
  <2>1. i \in keep /\ j \in keep /\ Rank(keep, i) = m /\ Rank(keep, j) = k
    BY <1>1
  <2> HIDE DEF i, j
  <2>2. i \in Int /\ j \in Int
    BY <2>1
  <2>3. ASSUME j < i PROVE FALSE
    <3>1. Rank(keep, j) < Rank(keep, i)
      BY <2>1, <2>3, RankGrows
    <3> QED BY <1>3, <2>1, <3>1
  <2>4. i # j
    BY <1>3, <2>1
  <2>5. i < j
    BY <2>2, <2>3, <2>4
  <2> QED BY <2>5 DEF i, j
<1> QED BY <1>1, <1>2, <1>3

\* The last of the places
LEMMA NthLast ==
  ASSUME NEW n \in Nat, NEW keep \in SUBSET (1 .. n), keep # {}
  PROVE  /\ Nth(keep, Cardinality(keep)) \in keep
         /\ \A i \in keep : i <= Nth(keep, Cardinality(keep))
<1> DEFINE c == Cardinality(keep)
<1>1. IsFiniteSet(keep) /\ c \in Nat
  BY PlacesFinite
<1>2. c \in 1 .. c
  BY <1>1, FS_EmptySet
<1>3. /\ \A m \in 1 .. c : Nth(keep, m) \in keep
      /\ \A i \in keep : Nth(keep, Rank(keep, i)) = i
      /\ \A m, k \in 1 .. c : m < k => Nth(keep, m) < Nth(keep, k)
  BY NthPlace
<1> HIDE DEF c
<1>4. ASSUME NEW i \in keep PROVE i <= Nth(keep, c)
  <2>1. Rank(keep, i) \in 1 .. c
    BY RankRange DEF c
  <2>2. Rank(keep, i) = c \/ Rank(keep, i) < c
    BY <1>1, <2>1
  <2>3. i \in Int /\ Nth(keep, c) \in Int
    <3>1. Nth(keep, c) \in keep
      BY <1>2, <1>3
    <3>2. \A m \in keep : m \in Int
      OBVIOUS
    <3> QED BY <3>1, <3>2
  <2>4. CASE Rank(keep, i) = c
    <3>1. Nth(keep, c) = i
      BY <1>3, <2>4
    <3> QED BY <2>3, <3>1
  <2>5. CASE Rank(keep, i) < c
    <3>1. Nth(keep, Rank(keep, i)) < Nth(keep, c)
      BY <1>2, <1>3, <2>1, <2>5
    <3> QED BY <1>3, <2>3, <3>1
  <2> QED BY <2>2, <2>4, <2>5
<1> QED BY <1>2, <1>3, <1>4 DEF c

\* What is chosen is a list of the entries at the places kept, each at its rank.
LEMMA ChosenKeeps ==
  ASSUME NEW S, NEW s \in Seq(S), NEW keep \in SUBSET DOMAIN s
  PROVE  /\ Chosen(s, keep) \in Seq(S)
         /\ IsFiniteSet(keep)
         /\ Len(Chosen(s, keep)) = Cardinality(keep)
         /\ \A i \in keep : /\ Rank(keep, i) \in 1 .. Len(Chosen(s, keep))
                            /\ Chosen(s, keep)[Rank(keep, i)] = s[i]
         /\ \A m \in 1 .. Len(Chosen(s, keep)) :
              \E i \in keep : Rank(keep, i) = m /\ Chosen(s, keep)[m] = s[i]
<1>1. Len(s) \in Nat /\ DOMAIN s = 1 .. Len(s) /\ keep \in SUBSET (1 .. Len(s))
  OBVIOUS
<1>2. IsFiniteSet(keep) /\ Cardinality(keep) \in Nat
  BY <1>1, PlacesFinite
<1> DEFINE at(m) == CHOOSE i \in keep : Rank(keep, i) = m
<1>3. \A m \in 1 .. Cardinality(keep) : at(m) \in keep /\ Rank(keep, at(m)) = m
  BY <1>1, RankOnto
<1>4. \A i \in keep : Rank(keep, i) \in 1 .. Cardinality(keep)
  BY <1>1, RankRange
<1>5. \A i \in keep : at(Rank(keep, i)) = i
  BY <1>1, <1>3, <1>4, RankOnto
<1>6. Chosen(s, keep) = [m \in 1 .. Cardinality(keep) |-> s[at(m)]]
  BY DEF Chosen, Nth
<1> HIDE DEF at
<1>7. Chosen(s, keep) \in Seq(S) /\ Len(Chosen(s, keep)) = Cardinality(keep)
  <2> DEFINE c == [m \in 1 .. Cardinality(keep) |-> s[at(m)]]
  <2>1. c \in [1 .. Cardinality(keep) -> S]
    BY <1>1, <1>3
  <2>2. c \in Seq(S) /\ Len(c) = Cardinality(keep)
    BY <1>2, <2>1
  <2> QED BY <1>6, <2>2
<1>8. \A i \in keep : Chosen(s, keep)[Rank(keep, i)] = s[i]
  BY <1>4, <1>5, <1>6
<1>9. \A m \in 1 .. Cardinality(keep) :
        \E i \in keep : Rank(keep, i) = m /\ Chosen(s, keep)[m] = s[i]
  BY <1>3, <1>6
<1> QED BY <1>2, <1>4, <1>7, <1>8, <1>9

\* A list that grows by an entry that is not chosen, or by one that is.
LEMMA ChosenAppend ==
  ASSUME NEW S, NEW s \in Seq(S), NEW x \in S, NEW keep \in SUBSET DOMAIN s
  PROVE  /\ Chosen(Append(s, x), keep) = Chosen(s, keep)
         /\ Chosen(Append(s, x), keep \cup {Len(s) + 1}) = Append(Chosen(s, keep), x)
<1> DEFINE n == Len(s)
           more == keep \cup {n + 1}
           card == Cardinality(keep)
           grown == Append(s, x)
<1>1. n \in Nat /\ DOMAIN s = 1 .. n /\ keep \in SUBSET (1 .. n)
  OBVIOUS
<1>2. /\ \A i \in 1 .. n : grown[i] = s[i]
      /\ grown[n + 1] = x
  OBVIOUS
<1> HIDE DEF n, grown
<1>3. IsFiniteSet(keep) /\ card \in Nat
  BY <1>1, PlacesFinite
<1>4. n + 1 \notin keep /\ n + 1 \in Nat /\ more \in SUBSET (1 .. n + 1)
  BY <1>1
<1>5. Cardinality(more) = card + 1
  BY <1>3, <1>4, FS_AddElement
<1>6. \A i \in keep : Rank(more, i) = Rank(keep, i)
  <2> SUFFICES ASSUME NEW i \in keep PROVE Rank(more, i) = Rank(keep, i)
    OBVIOUS
  <2>1. {j \in more : j <= i} = {j \in keep : j <= i}
    BY <1>1
  <2> QED BY <2>1 DEF Rank
<1>7. Rank(more, n + 1) = card + 1
  <2>1. {j \in more : j <= n + 1} = more
    BY <1>1
  <2> QED BY <2>1, <1>5 DEF Rank
<1> DEFINE at(m) == CHOOSE i \in keep : Rank(keep, i) = m
           place(m) == CHOOSE i \in more : Rank(more, i) = m
<1>8. \A m \in 1 .. card : at(m) \in keep /\ Rank(keep, at(m)) = m
  <2>1. \A m \in 1 .. Cardinality(keep) : \E i \in keep : Rank(keep, i) = m
    BY <1>1, RankOnto
  <2> QED BY <2>1
<1>9. \A i, j \in more : Rank(more, i) = Rank(more, j) => i = j
  <2> HIDE DEF more
  <2> QED BY <1>4, RankOnto
<1> HIDE DEF more, card
<1>10. \A m \in 1 .. card : place(m) = at(m)
  <2> SUFFICES ASSUME NEW m \in 1 .. card PROVE place(m) = at(m)
    OBVIOUS
  <2>1. at(m) \in more /\ Rank(more, at(m)) = m
    BY <1>6, <1>8 DEF more
  <2>2. \A i \in more : Rank(more, i) = m => i = at(m)
    BY <1>9, <2>1
  <2> HIDE DEF at
  <2> QED BY <2>1, <2>2
<1>11. place(card + 1) = n + 1
  <2>1. n + 1 \in more
    BY DEF more
  <2>2. \A i \in more : Rank(more, i) = card + 1 => i = n + 1
    BY <1>7, <1>9, <2>1
  <2> QED BY <1>7, <2>1, <2>2
<1>12. /\ Chosen(s, keep) = [m \in 1 .. card |-> s[at(m)]]
       /\ Chosen(grown, keep) = [m \in 1 .. card |-> grown[at(m)]]
       /\ Chosen(grown, more) = [m \in 1 .. card + 1 |-> grown[place(m)]]
  BY <1>5 DEF Chosen, Nth, card
<1> HIDE DEF at, place
<1>13. \A m \in 1 .. card : s[at(m)] \in S /\ grown[at(m)] = s[at(m)]
  BY <1>1, <1>2, <1>8
<1>14. Chosen(grown, keep) = Chosen(s, keep)
  BY <1>12, <1>13
<1>15. Chosen(grown, more) = Append(Chosen(s, keep), x)
  <2>1. Chosen(s, keep) \in Seq(S) /\ Len(Chosen(s, keep)) = card
    BY ChosenKeeps DEF card
  <2>2. \A m \in 1 .. card : Chosen(s, keep)[m] = grown[place(m)]
    BY <1>10, <1>12, <1>13
  <2>3. grown[place(card + 1)] = x
    BY <1>2, <1>11
  <2> DEFINE c == Chosen(s, keep)
  <2>4. c \in Seq(S) /\ Len(c) = card /\ \A m \in 1 .. card : c[m] = grown[place(m)]
    BY <2>1, <2>2
  <2> HIDE DEF c
  <2> DEFINE d == [m \in 1 .. card + 1 |-> grown[place(m)]]
  <2>a. \A m \in 1 .. card + 1 : m \in 1 .. card \/ m = card + 1
    BY <1>3 DEF card
  <2>b. /\ Append(c, x) \in Seq(S) /\ Len(Append(c, x)) = card + 1
        /\ \A m \in 1 .. card : Append(c, x)[m] = grown[place(m)]
        /\ Append(c, x)[card + 1] = x
    BY <1>3, <2>4 DEF card
  <2>c. card + 1 \in Nat /\ \A m \in 1 .. card + 1 : d[m] \in S
    BY <1>3, <2>3, <2>4, <2>a, <2>b DEF card
  <2>d. d \in Seq(S) /\ Len(d) = card + 1
    BY <2>c
  <2>e. \A m \in 1 .. card + 1 : Append(c, x)[m] = d[m]
    BY <2>3, <2>a, <2>b
  <2> HIDE DEF d
  <2>5. Append(c, x) = d
    BY <2>b, <2>d, <2>e, SeqEqual
  <2> QED BY <1>12, <2>5 DEF c, d
<1> QED BY <1>14, <1>15 DEF grown, more, n

-----------------------------------------------------------------------------
(* The set of the entries of a list *)

\* It is finite, and when no entry comes twice it has as many members as the list.
LEMMA EntriesCount ==
  ASSUME NEW S, NEW s \in Seq(S)
  PROVE  /\ IsFiniteSet({s[i] : i \in DOMAIN s})
         /\ (\A i, j \in DOMAIN s : s[i] = s[j] => i = j)
              => Cardinality({s[i] : i \in DOMAIN s}) = Len(s)
<1> DEFINE n == Len(s)
           T == {s[i] : i \in 1 .. n}
<1>1. n \in Nat /\ DOMAIN s = 1 .. n /\ s \in [1 .. n -> S]
  OBVIOUS
<1>2. {s[i] : i \in DOMAIN s} = T
  BY <1>1
<1>3. IsFiniteSet(1 .. n) /\ Cardinality(1 .. n) = n
  <2>1. 1 \in Int /\ n \in Int /\ (1 > n => n = 0) /\ n - 1 + 1 = n
    BY <1>1
  <2> QED BY <2>1, FS_Interval
<1>4. s \in [1 .. n -> T] /\ \A x \in T : \E i \in 1 .. n : s[i] = x
  <2>1. s = [i \in 1 .. n |-> s[i]]
    BY <1>1
  <2> QED BY <2>1
<1> HIDE DEF T, n
<1>5. s \in Surjection(1 .. n, T)
  BY <1>4, Fun_IsSurj
<1>6. IsFiniteSet(T) /\ (Cardinality(T) = Cardinality(1 .. n) <=> s \in Injection(1 .. n, T))
  BY <1>3, <1>5, FS_Surjection
<1>7. ASSUME \A i, j \in DOMAIN s : s[i] = s[j] => i = j PROVE Cardinality(T) = n
  <2>1. s \in Injection(1 .. n, T)
    BY <1>1, <1>4, <1>7, Fun_IsInj
  <2> QED BY <1>3, <1>6, <2>1
<1> QED BY <1>2, <1>6, <1>7 DEF n

-----------------------------------------------------------------------------
(* Finite sets in order: R is a set of pairs <<x, y>>, x before y. *)

Orders(R, T) ==
  /\ \A x, y \in T : x # y => <<x, y>> \in R \/ <<y, x>> \in R
  /\ \A x, y, z \in T : <<x, y>> \in R /\ <<y, z>> \in R => <<x, z>> \in R

\* There is a last one.
LEMMA LastSuch ==
  ASSUME NEW T, IsFiniteSet(T), T # {}, NEW R, Orders(R, T)
  PROVE  \E m \in T : \A x \in T : x = m \/ <<x, m>> \in R
<1> DEFINE c == Cardinality(T)
<1>1. c \in Nat /\ c # 0 /\ ExistsBijection(1 .. c, T)
  BY FS_CardinalityType, FS_EmptySet
<1> HIDE DEF c
<1>2. PICK f \in Bijection(1 .. c, T) : TRUE
  BY <1>1 DEF ExistsBijection
<1>3. f \in [1 .. c -> T] /\ \A x \in T : \E i \in 1 .. c : f[i] = x
  <2>1. f \in Surjection(1 .. c, T)
    BY DEF Bijection
  <2>2. f \in [1 .. c -> T]
    BY <2>1 DEF Surjection
  <2>3. \A x \in T : \E i \in 1 .. c : f[i] = x
    BY <2>1 DEF Surjection
  <2> QED BY <2>2, <2>3
<1> DEFINE Tops(i, m) == \A j \in 1 .. m : f[j] = f[i] \/ <<f[j], f[i]>> \in R
           S == {m \in 0 .. c : m # 0 => \E i \in 1 .. m : Tops(i, m)}
<1>4. 0 \in S
  BY <1>1
<1>5. ASSUME NEW m \in 0 .. c - 1, m \in S PROVE m + 1 \in S
  <2>0. m + 1 \in 1 .. c /\ m + 1 \in 0 .. c /\ m + 1 \in 1 .. m + 1
    BY <1>1
  <2>1. \A j \in 1 .. m + 1 : j \in 1 .. m \/ j = m + 1
    BY <1>1
  <2>2. CASE m = 0
    <3>1. Tops(m + 1, m + 1)
      BY <2>1, <2>2
    <3> QED BY <2>0, <3>1
  <2>3. CASE m # 0
    <3>1. PICK i \in 1 .. m : Tops(i, m)
      BY <1>5, <2>3
    <3>2. i \in 1 .. m + 1 /\ f[i] \in T /\ f[m + 1] \in T /\ \A j \in 1 .. m : f[j] \in T
      BY <1>1, <1>3, <2>0
    <3>3. CASE f[m + 1] = f[i] \/ <<f[m + 1], f[i]>> \in R
      <4>1. Tops(i, m + 1)
        BY <2>1, <3>1, <3>3
      <4> QED BY <2>0, <3>2, <4>1
    <3>4. CASE <<f[i], f[m + 1]>> \in R
      <4>1. \A j \in 1 .. m : <<f[j], f[m + 1]>> \in R
        BY <3>1, <3>2, <3>4 DEF Orders
      <4>2. Tops(m + 1, m + 1)
        BY <2>1, <4>1
      <4> QED BY <2>0, <4>2
    <3> QED BY <3>2, <3>3, <3>4 DEF Orders
  <2> QED BY <2>2, <2>3
<1>6. c \in S
  <2>1. 0 .. c \subseteq S
    <3> HIDE DEF S
    <3> QED BY <1>1, <1>4, <1>5, UpTo
  <2>2. c \in 0 .. c
    BY <1>1
  <2> QED BY <2>1, <2>2
<1>7. PICK i \in 1 .. c : Tops(i, c)
  BY <1>1, <1>6
<1>8. f[i] \in T /\ \A x \in T : x = f[i] \/ <<x, f[i]>> \in R
  BY <1>3, <1>7
<1> QED BY <1>8

\* Those with fewer than M before them are at most M.
LEMMA FirstFew ==
  ASSUME NEW T, IsFiniteSet(T), NEW R, Orders(R, T), NEW M \in Nat,
         NEW K, K = {r \in T : Cardinality({s \in T : <<s, r>> \in R}) < M}
  PROVE  IsFiniteSet(K) /\ Cardinality(K) <= M
<1>1. K \in SUBSET T
  OBVIOUS
<1>2. IsFiniteSet(K) /\ Cardinality(K) \in Nat
  BY <1>1, FS_Subset, FS_CardinalityType
<1>3. CASE K = {}
  <2>1. Cardinality({}) = 0
    BY FS_EmptySet
  <2>2. Cardinality(K) = 0
    BY <1>3, <2>1
  <2> QED BY <1>2, <2>2
<1>4. CASE K # {}
  <2>1. Orders(R, K)
    BY <1>1 DEF Orders
  <2>2. PICK m \in K : \A x \in K : x = m \/ <<x, m>> \in R
    BY <1>2, <1>4, <2>1, LastSuch
  <2> DEFINE earlier == {s \in T : <<s, m>> \in R}
  <2>3. earlier \in SUBSET T /\ K \ {m} \in SUBSET earlier
    BY <1>1, <2>2
  <2>4. Cardinality(earlier) < M
    BY <2>2
  <2> HIDE DEF earlier
  <2>5. IsFiniteSet(earlier) /\ Cardinality(earlier) \in Nat
    BY <2>3, FS_Subset, FS_CardinalityType
  <2>6. Cardinality(K \ {m}) <= Cardinality(earlier)
    BY <2>3, <2>5, FS_Subset
  <2>7. Cardinality(K \ {m}) = Cardinality(K) - 1
    BY <1>2, FS_RemoveElement
  <2> QED BY <1>2, <2>4, <2>5, <2>6, <2>7
<1> QED BY <1>2, <1>3, <1>4
=============================================================================
