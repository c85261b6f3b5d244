------------------------- MODULE Navigation_proofs -------------------------
(***************************************************************************)
(* Proofs about Navigation, for every alphabet, every text and every value *)
(* of the caps.                                                            *)
(***************************************************************************)
EXTENDS Navigation, Lists_proofs

-----------------------------------------------------------------------------
(* Lines *)

\* Lines begin and end within the text, and their content is text.
LEMMA LinePlaces ==
  ASSUME NEW t \in Text, NEW l \in Nat
  PROVE  /\ Len(t) \in Nat
         /\ LineStart(t, l) \in 0 .. Len(t)
         /\ Lines(t) \in Nat \ {0}
         /\ LineEnd(t, l) \in Int /\ LineEnd(t, l) <= Len(t)
<1>1. Len(t) \in Nat
  BY DEF Text
<1>2. \A m \in Nat : LineStart(t, m) \in 0 .. Len(t)
  <2> TAKE m \in Nat
  <2>1. {i \in 1 .. Len(t) : LineOf(t, i) < m} \in SUBSET (1 .. Len(t))
    OBVIOUS
  <2> QED BY <1>1, <2>1, PlacesFinite DEF LineStart
<1>3. Lines(t) \in Nat \ {0}
  <2>1. {j \in 1 .. Len(t) + 1 - 1 : t[j] = LF} \in SUBSET (1 .. Len(t) + 1 - 1)
    OBVIOUS
  <2>2. Len(t) + 1 - 1 \in Nat
    BY <1>1
  <2>3. LineOf(t, Len(t) + 1) \in Nat
    BY <2>1, <2>2, PlacesFinite DEF LineOf
  <2> QED BY <2>3 DEF Lines
<1>4. LineEnd(t, l) \in Int /\ LineEnd(t, l) <= Len(t)
  <2>1. l + 1 \in Nat
    OBVIOUS
  <2>2. LineStart(t, l + 1) \in 0 .. Len(t)
    BY <1>2, <2>1
  <2> QED BY <1>1, <2>2 DEF LineEnd
<1> QED BY <1>1, <1>2, <1>3, <1>4

LEMMA LineText ==
  ASSUME NEW t \in Text, NEW l \in Nat
  PROVE  OutLine(t, l) \in Text /\ LineCount(t) \in Nat
<1> DEFINE s == LineStart(t, l)
           e == LineEnd(t, l)
           cut == IF e > s /\ l + 1 < Lines(t) /\ t[e] = CR THEN e - 1 ELSE e
<1>1. s \in 0 .. Len(t) /\ e \in Int /\ e <= Len(t) /\ Len(t) \in Nat
  BY LinePlaces
<1>2. cut \in Int /\ cut <= Len(t)
  BY <1>1
<1>3. OutLine(t, l) = SubSeq(t, s + 1, cut)
  BY DEF OutLine
<1> HIDE DEF s, e, cut
<1>4. \A i \in s + 1 .. cut : t[i] \in Chars
  BY <1>1, <1>2 DEF Text
<1>5. SubSeq(t, s + 1, cut) \in Seq(Chars)
  BY <1>1, <1>2, <1>4, SubSeqProperties
<1>6. LineCount(t) \in Nat
  <2>1. Lines(t) \in Nat \ {0}
    BY LinePlaces
  <2> QED BY <2>1 DEF LineCount
<1> QED BY <1>3, <1>5, <1>6 DEF Text

-----------------------------------------------------------------------------
(* Quotes *)

Strings == {"plain", "double", "single"}
QuoteStates == [in : Strings, escaped : BOOLEAN]
CharKinds == Strings \cup {"escape", "escaped", "quote", "comment"}
Looks == [q : QuoteStates, kind : CharKinds]

\* seen is the run of the scanner over the line from q0.
Scans(line, q0, seen) ==
  /\ seen \in [0 .. Len(line) -> Looks]
  /\ seen[0] = [q |-> q0, kind |-> "plain"]
  /\ \A i \in 1 .. Len(line) : seen[i] = Look(seen[i - 1], line[i])

LEMMA AdvanceType ==
  ASSUME NEW q \in QuoteStates, NEW c
  PROVE  Advance(q, c) \in Looks
<1>1. q.in \in Strings /\ q.escaped \in BOOLEAN /\ q = [in |-> q.in, escaped |-> q.escaped]
  BY DEF QuoteStates
<1>2. CASE q.escaped
  BY <1>1, <1>2 DEF Advance, Looks, CharKinds, Strings, QuoteStates, ResetLine
<1>3. CASE ~q.escaped /\ c = Backslash /\ q.in # "plain"
  BY <1>1, <1>3 DEF Advance, Looks, CharKinds, Strings, QuoteStates
<1>4. CASE ~q.escaped /\ ~(c = Backslash /\ q.in # "plain")
  BY <1>1, <1>4 DEF Advance, Looks, CharKinds, Strings, QuoteStates
<1> QED BY <1>1, <1>2, <1>3, <1>4

LEMMA ScanRuns ==
  ASSUME NEW line \in Text, NEW q0 \in QuoteStates
  PROVE  \E seen : /\ Scans(line, q0, seen)
                   /\ ScanFrom(line, q0) = [q |-> seen[Len(line)].q,
                                            kinds |-> [i \in 1 .. Len(line) |-> seen[i].kind]]
<1> DEFINE n == Len(line)
           start == [q |-> q0, kind |-> "plain"]
           S == [i \in 0 .. n |-> Looks]
           step == [i \in 1 .. n |-> [x \in Looks |-> Look(x, line[i])]]
           Runs(g) == g = [i \in 0 .. n |-> IF i = 0 THEN start ELSE Look(g[i - 1], line[i])]
           seen == CHOOSE g : Runs(g)
<1>1. n \in Nat /\ start \in Looks
  BY DEF Text, Looks, CharKinds, Strings
<1>2. \A x \in Looks : \A c : Look(x, c) \in Looks
  BY AdvanceType DEF Look, Looks
<1>3. \A i \in 0 .. n : S[i] = Looks
  OBVIOUS
<1>4. \A i \in 1 .. n : \A x \in Looks : step[i][x] = Look(x, line[i])
  OBVIOUS
<1>5. ScanFrom(line, q0) = [q |-> seen[n].q, kinds |-> [i \in 1 .. n |-> seen[i].kind]]
  BY DEF ScanFrom
<1> HIDE DEF n, S, start, step, seen
<1>6. \A i \in 1 .. n : i - 1 \in 0 .. n /\ i \in 0 .. n /\ i # 0
  BY <1>1
<1>7. PICK f : Unfolds(f, n, S, start, step)
  <2>1. start \in S[0]
    BY <1>1, <1>3
  <2>2. \A i \in 1 .. n : \A x \in S[i - 1] : step[i][x] \in S[i]
    BY <1>2, <1>3, <1>4, <1>6
  <2> QED BY <1>1, <2>1, <2>2, Recursion
<1>8. /\ f = [i \in 0 .. n |-> f[i]] /\ f[0] = start
      /\ \A i \in 1 .. n : f[i - 1] \in S[i - 1] /\ f[i] = step[i][f[i - 1]]
  BY <1>7 DEF Unfolds
<1>9. Runs(f)
  <2>1. ASSUME NEW i \in 0 .. n PROVE f[i] = IF i = 0 THEN start ELSE Look(f[i - 1], line[i])
    <3>1. CASE i = 0
      BY <1>8, <3>1
    <3>2. CASE i # 0
      <4>1. i \in 1 .. n
        BY <1>1, <3>2
      <4>2. f[i] = step[i][f[i - 1]] /\ f[i - 1] \in Looks
        BY <1>3, <1>6, <1>8, <4>1
      <4> QED BY <1>4, <3>2, <4>1, <4>2
    <3> QED BY <3>1, <3>2
  <2> QED BY <1>8, <2>1
<1>10. Runs(seen)
  <2> HIDE DEF Runs
  <2> QED BY <1>9 DEF seen
<1>11. /\ seen[0] = start /\ seen = [i \in 0 .. n |-> seen[i]]
       /\ \A i \in 1 .. n : seen[i] = Look(seen[i - 1], line[i])
  <2>1. 0 \in 0 .. n
    BY <1>1
  <2>2. \A i \in 0 .. n : seen[i] = IF i = 0 THEN start ELSE Look(seen[i - 1], line[i])
    BY <1>10
  <2>3. seen = [i \in 0 .. n |-> seen[i]]
    BY <1>10
  <2> HIDE DEF Runs
  <2> QED BY <1>6, <2>1, <2>2, <2>3
<1> HIDE DEF Runs
<1>12. \A i \in 0 .. n : seen[i] \in Looks
  <2>1. ASSUME NEW i \in 1 .. n, seen[i - 1] \in S[i - 1] PROVE seen[i] \in S[i]
    <3>1. seen[i] = Look(seen[i - 1], line[i]) /\ seen[i - 1] \in Looks
      BY <1>3, <1>6, <1>11, <2>1
    <3>2. seen[i] \in Looks
      BY <1>2, <3>1
    <3> QED BY <1>3, <1>6, <3>2
  <2>0. seen[0] \in S[0]
    BY <1>1, <1>3, <1>11
  <2>2. \A i \in 0 .. n : seen[i] \in S[i]
    BY <1>1, <2>0, <2>1, StaysIn
  <2> QED BY <1>3, <2>2
<1>13. Scans(line, q0, seen)
  <2>1. seen \in [0 .. n -> Looks]
    BY <1>11, <1>12
  <2> QED BY <1>11, <2>1 DEF Scans, n, start
<1> QED BY <1>5, <1>13 DEF n

\* A string that is open was opened just there, or was open before.
LEMMA AdvanceOpens ==
  ASSUME NEW q \in QuoteStates, NEW c, Advance(q, c).q.in # "plain"
  PROVE  Advance(q, c).kind = "quote" \/ (q.in # "plain" /\ Advance(q, c).kind # "plain")
<1>1. q.in \in Strings /\ q.escaped \in BOOLEAN /\ q = [in |-> q.in, escaped |-> q.escaped]
  BY DEF QuoteStates
<1>2. CASE q.escaped
  BY <1>1, <1>2 DEF Advance, Strings, QuoteStates, ResetLine
<1>3. CASE ~q.escaped /\ c = Backslash /\ q.in # "plain"
  BY <1>1, <1>3 DEF Advance, Strings, QuoteStates
<1>4. CASE ~q.escaped /\ ~(c = Backslash /\ q.in # "plain")
  BY <1>1, <1>4 DEF Advance, Strings, QuoteStates
<1> QED BY <1>1, <1>2, <1>3, <1>4

\* A string that is open after i characters was opened by the last quote among them,
\* and no character after it is plain; or it was open before the line.
LEMMA ScanOpens ==
  ASSUME NEW line \in Text, NEW q0 \in QuoteStates, NEW seen, Scans(line, q0, seen),
         NEW i \in 0 .. Len(line), seen[i].q.in # "plain"
  PROVE  \E m \in 0 .. i : /\ IF m = 0 THEN q0.in # "plain" ELSE seen[m].kind = "quote"
                           /\ \A j \in m + 1 .. i : seen[j].kind \notin {"plain", "quote"}
<1> DEFINE n == Len(line)
           Since(k, m) == /\ IF m = 0 THEN q0.in # "plain" ELSE seen[m].kind = "quote"
                          /\ \A j \in m + 1 .. k : seen[j].kind \notin {"plain", "quote"}
           S == {k \in 0 .. n : seen[k].q.in # "plain" => \E m \in 0 .. k : Since(k, m)}
<1>1. n \in Nat
  BY DEF Text
<1>2. /\ seen[0] = [q |-> q0, kind |-> "plain"]
      /\ \A k \in 0 .. n : seen[k] \in Looks
      /\ \A k \in 1 .. n : seen[k] = Look(seen[k - 1], line[k])
  BY <1>1 DEF Scans
<1>3. 0 \in S
  <2>1. seen[0].q.in # "plain" => Since(0, 0)
    BY <1>2
  <2> QED BY <1>1, <2>1
<1>4. ASSUME NEW k \in 0 .. n - 1, k \in S PROVE k + 1 \in S
  <2>0. k + 1 \in 1 .. n /\ k + 1 - 1 = k /\ k + 1 \in 0 .. n /\ k \in 0 .. n
    BY <1>1
  <2> SUFFICES ASSUME seen[k + 1].q.in # "plain"
               PROVE  \E m \in 0 .. k + 1 : Since(k + 1, m)
    BY <2>0
  <2>1. seen[k + 1] = Look(seen[k], line[k + 1]) /\ seen[k] \in Looks
    BY <1>2, <2>0
  <2>2. seen[k + 1].kind = "quote" \/ (seen[k].q.in # "plain" /\ seen[k + 1].kind # "plain")
    <3>1. CASE seen[k].kind = "comment"
      BY <2>1, <3>1 DEF Look
    <3>2. CASE seen[k].kind # "comment"
      <4>1. seen[k + 1] = Advance(seen[k].q, line[k + 1]) /\ seen[k].q \in QuoteStates
        BY <2>1, <3>2 DEF Look, Looks
      <4> QED BY <4>1, AdvanceOpens
    <3> QED BY <3>1, <3>2
  <2>3. CASE seen[k + 1].kind = "quote"
    <3>1. Since(k + 1, k + 1) /\ k + 1 \in 0 .. k + 1
      BY <2>0, <2>3
    <3> QED BY <3>1
  <2>4. CASE seen[k + 1].kind # "quote"
    <3>1. PICK m \in 0 .. k : Since(k, m)
      BY <1>4, <2>2, <2>4
    <3>2. Since(k + 1, m) /\ m \in 0 .. k + 1
      BY <2>0, <2>2, <2>4, <3>1
    <3> QED BY <3>2
  <2> QED BY <2>3, <2>4
<1>5. 0 .. n \subseteq S
  <2> HIDE DEF S, n
  <2> QED BY <1>1, <1>3, <1>4, UpTo
<1> QED BY <1>5

-----------------------------------------------------------------------------
(* Events *)

EventSet == [kind : {"open", "close", "string"}, line : Nat, at : Nat]
Spots == [line : Nat, at : Nat]
Walks == [q : QuoteStates, opened : Spots, out : Seq(EventSet)]

Ordered(ev) == \A i, j \in DOMAIN ev : i < j => Before(ev[i], ev[j])

\* What the walk over the lines before l has: events in the order of the text, all
\* before the quote of a string that is still open.
WalksTo(l) ==
  {w \in Walks :
     /\ Ordered(w.out)
     /\ \A i \in DOMAIN w.out : /\ w.out[i].line < l
                                /\ w.q.in # "plain" => Before(w.out[i], w.opened)}

LEMMA WalkedKeeps ==
  ASSUME NEW l \in Nat, NEW w \in WalksTo(l), NEW line \in Text
  PROVE  Walked(w, line, l) \in WalksTo(l + 1)
<1> DEFINE n == Len(line)
           q0 == ResetLine(w.q)
<1>1. /\ n \in Nat /\ w \in Walks /\ Ordered(w.out)
      /\ \A i \in DOMAIN w.out : /\ w.out[i].line < l
                                 /\ w.q.in # "plain" => Before(w.out[i], w.opened)
  BY DEF Text, WalksTo
<1>2. /\ w.q \in QuoteStates /\ w.opened \in Spots /\ w.out \in Seq(EventSet)
      /\ q0 \in QuoteStates /\ q0.in = w.q.in
  BY <1>1 DEF Walks, QuoteStates, ResetLine
<1>3. PICK seen : /\ Scans(line, q0, seen)
                  /\ ScanFrom(line, q0) = [q |-> seen[n].q, kinds |-> [i \in 1 .. n |-> seen[i].kind]]
  BY <1>2, ScanRuns
<1> DEFINE braces == {i \in 1 .. n : seen[i].kind = "plain" /\ line[i] \in {OpenBrace, CloseBrace}}
           quotes == {i \in 1 .. n : seen[i].kind = "quote"}
           opened == IF quotes = {} THEN w.opened
                     ELSE [line |-> l, at |-> Nth(quotes, Cardinality(quotes)) - 1]
           count == Cardinality(braces)
           more == [m \in 1 .. count |-> BraceAt(line, l, Nth(braces, m))]
<1>4. Walked(w, line, l) = [q |-> seen[n].q, opened |-> opened, out |-> w.out \o more]
  <2>1. DOMAIN line = 1 .. n
    BY DEF Text
  <2> DEFINE scan == ScanFrom(line, q0)
  <2>2. scan.q = seen[n].q /\ \A i \in 1 .. n : scan.kinds[i] = seen[i].kind
    BY <1>3
  <2> HIDE DEF scan
  <2>3. /\ {i \in DOMAIN line : scan.kinds[i] = "plain" /\ line[i] \in {OpenBrace, CloseBrace}} = braces
        /\ {i \in DOMAIN line : scan.kinds[i] = "quote"} = quotes
    BY <2>1, <2>2
  <2> HIDE DEF braces, quotes, n
  <2> QED BY <2>2, <2>3 DEF Walked, scan
<1>5. seen[n] \in Looks
  BY <1>1, <1>3 DEF Scans
<1>6. braces \in SUBSET (1 .. n) /\ quotes \in SUBSET (1 .. n)
  OBVIOUS
<1> HIDE DEF n, q0
<1>7. /\ count \in Nat
      /\ \A m \in 1 .. count : Nth(braces, m) \in braces
      /\ \A m, k \in 1 .. count : m < k => Nth(braces, m) < Nth(braces, k)
  <2> HIDE DEF braces
  <2> QED BY <1>1, <1>6, NthPlace, PlacesFinite
<1>8. /\ more \in Seq(EventSet) /\ Len(more) = count
      /\ \A m \in 1 .. count : more[m].line = l /\ more[m].at = Nth(braces, m) - 1
  <2>1. \A m \in 1 .. count : Nth(braces, m) - 1 \in Nat
    BY <1>1, <1>7
  <2> HIDE DEF braces
  <2>2. \A m \in 1 .. count : BraceAt(line, l, Nth(braces, m)) \in EventSet
    BY <2>1 DEF BraceAt, EventSet
  <2>3. \A m \in 1 .. count : more[m].line = l /\ more[m].at = Nth(braces, m) - 1
    BY DEF BraceAt
  <2> HIDE DEF count
  <2> QED BY <1>7, <2>2, <2>3
<1> HIDE DEF more
<1> DEFINE out == w.out \o more
           a == Len(w.out)
<1>9. /\ out \in Seq(EventSet) /\ a \in Nat /\ DOMAIN out = 1 .. a + count
      /\ \A i \in 1 .. a : out[i] = w.out[i] /\ i \in DOMAIN w.out
      /\ \A i \in a + 1 .. a + count : out[i] = more[i - a] /\ i - a \in 1 .. count
  <2> HIDE DEF count
  <2> QED BY <1>2, <1>7, <1>8
<1> HIDE DEF out, count
<1>10. \A i \in 1 .. a + count : i \in 1 .. a \/ i \in a + 1 .. a + count
  BY <1>7, <1>9
<1>10a. \A i \in 1 .. a : out[i] \in EventSet /\ out[i].line < l
  <2>1. \A i \in 1 .. a : w.out[i] \in EventSet
    BY <1>2, <1>9
  <2> QED BY <1>1, <1>9, <2>1
<1>10b. \A i \in a + 1 .. a + count : /\ i - a \in 1 .. count /\ Nth(braces, i - a) \in braces
                                      /\ out[i].line = l /\ out[i].at = Nth(braces, i - a) - 1
  <2> HIDE DEF braces
  <2> TAKE i \in a + 1 .. a + count
  <2>1. i - a \in 1 .. count /\ out[i] = more[i - a]
    BY <1>9
  <2> QED BY <1>7, <1>8, <2>1
<1>11. Ordered(out)
  <2> SUFFICES ASSUME NEW i \in 1 .. a + count, NEW j \in 1 .. a + count, i < j
               PROVE  Before(out[i], out[j])
    BY <1>9 DEF Ordered
  <2>1. CASE j \in 1 .. a
    <3>1. i \in 1 .. a
      BY <1>9, <2>1
    <3> QED BY <1>1, <1>9, <2>1, <3>1 DEF Ordered
  <2>2. CASE i \in 1 .. a /\ j \in a + 1 .. a + count
    <3>1. out[i].line < l /\ out[j].line = l
      BY <1>10a, <1>10b, <2>2
    <3> QED BY <3>1 DEF Before
  <2>3. CASE i \in a + 1 .. a + count /\ j \in a + 1 .. a + count
    <3>1. /\ i - a \in 1 .. count /\ j - a \in 1 .. count /\ i - a < j - a
          /\ out[i].line = l /\ out[i].at = Nth(braces, i - a) - 1
          /\ out[j].line = l /\ out[j].at = Nth(braces, j - a) - 1
      <4>1. i - a < j - a
        BY <1>9, <2>3
      <4> QED BY <1>10b, <2>3, <4>1
    <3>2. Nth(braces, i - a) < Nth(braces, j - a)
      BY <1>7, <3>1
    <3>3. Nth(braces, i - a) \in Int /\ Nth(braces, j - a) \in Int
      BY <1>6, <1>7, <3>1
    <3>4. Nth(braces, i - a) - 1 < Nth(braces, j - a) - 1
      <4> HIDE DEF braces
      <4> QED BY <3>2, <3>3
    <3> HIDE DEF braces
    <3> QED BY <3>1, <3>4 DEF Before
  <2> QED BY <1>9, <1>10, <2>1, <2>2, <2>3
<1>12. ASSUME NEW i \in DOMAIN out PROVE out[i].line < l + 1
  <2>1. CASE i \in 1 .. a
    <3>1. out[i] \in EventSet /\ out[i].line < l
      BY <1>10a, <2>1
    <3> QED BY <3>1 DEF EventSet
  <2>2. CASE i \in a + 1 .. a + count
    <3>1. out[i].line = l
      BY <1>10b, <2>2
    <3> QED BY <3>1
  <2> QED BY <1>9, <1>10, <2>1, <2>2
<1>13. opened \in Spots
  <2>1. CASE quotes = {}
    BY <1>2, <2>1
  <2>2. CASE quotes # {}
    <3>1. Nth(quotes, Cardinality(quotes)) \in quotes
      <4> HIDE DEF quotes
      <4> QED BY <1>1, <1>6, <2>2, NthLast
    <3>2. Nth(quotes, Cardinality(quotes)) - 1 \in Nat
      BY <1>1, <3>1
    <3> HIDE DEF quotes
    <3> QED BY <2>2, <3>2 DEF Spots
  <2> QED BY <2>1, <2>2
<1>14. ASSUME seen[n].q.in # "plain", NEW i \in DOMAIN out PROVE Before(out[i], opened)
  <2>1. PICK m \in 0 .. n : /\ IF m = 0 THEN q0.in # "plain" ELSE seen[m].kind = "quote"
                           /\ \A j \in m + 1 .. n : seen[j].kind \notin {"plain", "quote"}
    <3>1. n \in 0 .. n
      BY <1>1
    <3> QED BY <1>2, <1>3, <1>14, <3>1, ScanOpens DEF n
  <2>2. CASE m = 0
    <3>1. braces = {} /\ quotes = {}
      BY <1>1, <2>1, <2>2
    <3>2. count = 0
      BY <3>1, FS_EmptySet DEF count
    <3>3. i \in 1 .. a
      BY <1>9, <3>2
    <3> QED BY <1>1, <1>2, <1>9, <2>1, <2>2, <3>1, <3>3
  <2>3. CASE m # 0
    <3>1. m \in quotes /\ \A j \in quotes \cup braces : j <= m
      BY <1>1, <2>1, <2>3
    <3>2. m \notin braces
      BY <3>1
    <3> DEFINE last == Nth(quotes, Cardinality(quotes))
    <3>3. last \in quotes /\ \A j \in quotes : j <= last
      <4> HIDE DEF quotes
      <4> QED BY <1>1, <1>6, <3>1, NthLast
    <3>4. last = m
      <4>1. m \in Int /\ last \in Int
        BY <1>1, <3>3
      <4> HIDE DEF quotes, last
      <4> QED BY <3>1, <3>3, <4>1
    <3>5. opened = [line |-> l, at |-> m - 1]
      <4> HIDE DEF quotes
      <4> QED BY <3>1, <3>4
    <3> HIDE DEF last
    <3>6. CASE i \in 1 .. a
      <4>1. out[i].line < l
        BY <1>10a, <3>6
      <4> QED BY <3>5, <4>1 DEF Before
    <3>7. CASE i \in a + 1 .. a + count
      <4>1. out[i].line = l /\ out[i].at = Nth(braces, i - a) - 1 /\ Nth(braces, i - a) \in braces
        BY <1>10b, <3>7
      <4>2. Nth(braces, i - a) < m
        <5>1. Nth(braces, i - a) # m /\ Nth(braces, i - a) <= m
          BY <3>1, <3>2, <4>1
        <5>2. Nth(braces, i - a) \in Int /\ m \in Int
          BY <1>1, <4>1
        <5> QED BY <5>1, <5>2
      <4>3. Nth(braces, i - a) - 1 < m - 1
        <5>1. Nth(braces, i - a) \in Int /\ m \in Int
          BY <1>1, <4>1
        <5> QED BY <4>2, <5>1
      <4> HIDE DEF braces, opened
      <4> QED BY <3>5, <4>1, <4>3 DEF Before
    <3> QED BY <1>9, <1>10, <3>6, <3>7
  <2> QED BY <2>2, <2>3
<1> HIDE DEF opened, a
<1>15. Walked(w, line, l) \in Walks
  BY <1>4, <1>5, <1>9, <1>13 DEF Walks, Looks, out
<1> HIDE DEF out
<1> DEFINE r == Walked(w, line, l)
<1>16. r.q = seen[n].q /\ r.opened = opened /\ r.out = out
  BY <1>4 DEF out
<1>17. r \in Walks
  BY <1>15
<1> HIDE DEF r
<1>18. r \in WalksTo(l + 1)
  BY <1>11, <1>12, <1>14, <1>16, <1>17 DEF WalksTo
<1> QED BY <1>18 DEF r

\* What the walk over all lines has
LEMMA WalkRuns ==
  ASSUME NEW t \in Text
  PROVE  \E w \in WalksTo(LineCount(t)) :
           Events(t) = IF w.q.in = "plain" THEN w.out
                       ELSE Append(w.out, [kind |-> "string", line |-> w.opened.line,
                                           at |-> w.opened.at])
<1> DEFINE n == LineCount(t)
           start == [q |-> NoQuote, opened |-> [line |-> 0, at |-> 0], out |-> <<>>]
           S == [i \in 0 .. n |-> WalksTo(i)]
           step == [i \in 1 .. n |-> [x \in WalksTo(i - 1) |-> Walked(x, OutLine(t, i - 1), i - 1)]]
           Runs(g) == g = [i \in 0 .. n |-> IF i = 0 THEN start
                                            ELSE Walked(g[i - 1], OutLine(t, i - 1), i - 1)]
           walked == CHOOSE g : Runs(g)
<1>1. n \in Nat /\ start \in WalksTo(0)
  <2>1. n \in Nat
    BY LineText
  <2>2. start \in WalksTo(0)
    BY DEF WalksTo, Walks, QuoteStates, Strings, NoQuote, Spots, Ordered
  <2> QED BY <2>1, <2>2
<1>2. ASSUME NEW i \in 1 .. n, NEW x \in WalksTo(i - 1)
      PROVE  Walked(x, OutLine(t, i - 1), i - 1) \in WalksTo(i)
  <2>1. i - 1 \in Nat /\ i - 1 + 1 = i
    BY <1>1
  <2>2. OutLine(t, i - 1) \in Text
    BY <2>1, LineText
  <2>3. Walked(x, OutLine(t, i - 1), i - 1) \in WalksTo(i - 1 + 1)
    BY <2>1, <2>2, WalkedKeeps
  <2> QED BY <2>1, <2>3
<1>3. \A i \in 0 .. n : S[i] = WalksTo(i)
  OBVIOUS
<1>4. \A i \in 1 .. n : \A x \in WalksTo(i - 1) : step[i][x] = Walked(x, OutLine(t, i - 1), i - 1)
  OBVIOUS
<1>5. Events(t) = IF walked[n].q.in = "plain" THEN walked[n].out
                  ELSE Append(walked[n].out, [kind |-> "string", line |-> walked[n].opened.line,
                                              at |-> walked[n].opened.at])
  BY DEF Events
<1> HIDE DEF n, S, start, step, walked
<1>6. \A i \in 1 .. n : i - 1 \in 0 .. n /\ i \in 0 .. n /\ i # 0
  BY <1>1
<1>7. PICK f : Unfolds(f, n, S, start, step)
  <2>1. start \in S[0]
    BY <1>1, <1>3
  <2>2. \A i \in 1 .. n : \A x \in S[i - 1] : step[i][x] \in S[i]
    BY <1>2, <1>3, <1>4, <1>6
  <2> QED BY <1>1, <2>1, <2>2, Recursion
<1>8. /\ f = [i \in 0 .. n |-> f[i]] /\ f[0] = start
      /\ \A i \in 1 .. n : f[i - 1] \in S[i - 1] /\ f[i] = step[i][f[i - 1]]
  BY <1>7 DEF Unfolds
<1>9. Runs(f)
  <2>1. ASSUME NEW i \in 0 .. n PROVE f[i] = IF i = 0 THEN start ELSE Walked(f[i - 1], OutLine(t, i - 1), i - 1)
    <3>1. CASE i = 0
      BY <1>8, <3>1
    <3>2. CASE i # 0
      <4>1. i \in 1 .. n
        BY <1>1, <3>2
      <4>2. f[i] = step[i][f[i - 1]] /\ f[i - 1] \in WalksTo(i - 1)
        BY <1>3, <1>6, <1>8, <4>1
      <4> QED BY <1>4, <3>2, <4>1, <4>2
    <3> QED BY <3>1, <3>2
  <2> QED BY <1>8, <2>1
<1>10. Runs(walked)
  <2> HIDE DEF Runs
  <2> QED BY <1>9 DEF walked
<1>11. /\ walked[0] = start /\ walked = [i \in 0 .. n |-> walked[i]]
       /\ \A i \in 1 .. n : walked[i] = Walked(walked[i - 1], OutLine(t, i - 1), i - 1)
  <2>1. 0 \in 0 .. n
    BY <1>1
  <2>2. \A i \in 0 .. n : walked[i] = IF i = 0 THEN start ELSE Walked(walked[i - 1], OutLine(t, i - 1), i - 1)
    BY <1>10
  <2>3. walked = [i \in 0 .. n |-> walked[i]]
    BY <1>10
  <2> HIDE DEF Runs
  <2> QED BY <1>6, <2>1, <2>2, <2>3
<1> HIDE DEF Runs
<1>12. \A i \in 0 .. n : walked[i] \in WalksTo(i)
  <2>1. ASSUME NEW i \in 1 .. n, walked[i - 1] \in S[i - 1] PROVE walked[i] \in S[i]
    <3>1. walked[i] = Walked(walked[i - 1], OutLine(t, i - 1), i - 1) /\ walked[i - 1] \in WalksTo(i - 1)
      BY <1>3, <1>6, <1>11, <2>1
    <3>2. walked[i] \in WalksTo(i)
      BY <1>2, <3>1
    <3> QED BY <1>3, <1>6, <3>2
  <2>0. walked[0] \in S[0]
    BY <1>1, <1>3, <1>11
  <2>2. \A i \in 0 .. n : walked[i] \in S[i]
    BY <1>1, <2>0, <2>1, StaysIn
  <2> QED BY <1>3, <2>2
<1> QED
  <2>1. n \in 0 .. n
    BY <1>1
  <2>2. walked[n] \in WalksTo(n)
    BY <1>12, <2>1
  <2> QED BY <1>5, <2>2 DEF n

\* The events of a text come in its order.
LEMMA EventsOrdered ==
  ASSUME NEW t \in Text
  PROVE  Events(t) \in Seq(EventSet) /\ Ordered(Events(t))
<1>1. PICK w \in WalksTo(LineCount(t)) :
        Events(t) = IF w.q.in = "plain" THEN w.out
                    ELSE Append(w.out, [kind |-> "string", line |-> w.opened.line,
                                        at |-> w.opened.at])
  BY WalkRuns
<1> DEFINE e == [kind |-> "string", line |-> w.opened.line, at |-> w.opened.at]
           out == w.out
<1>2. /\ out \in Seq(EventSet) /\ Ordered(out) /\ w.opened \in Spots
      /\ w.q.in # "plain" => \A i \in DOMAIN out : Before(out[i], w.opened)
  BY DEF WalksTo, Walks
<1>3. CASE w.q.in = "plain"
  BY <1>1, <1>2, <1>3
<1>4. CASE w.q.in # "plain"
  <2>1. e \in EventSet /\ e.line = w.opened.line /\ e.at = w.opened.at
    BY <1>2 DEF EventSet, Spots
  <2>2. \A i \in DOMAIN out : Before(out[i], e)
    BY <1>2, <1>4, <2>1 DEF Before
  <2>3. Events(t) = Append(out, e)
    BY <1>1, <1>4
  <2> HIDE DEF e, out
  <2> DEFINE ev == Append(out, e)
  <2>4. /\ ev \in Seq(EventSet) /\ DOMAIN ev = 1 .. Len(out) + 1 /\ DOMAIN out = 1 .. Len(out)
        /\ Len(out) \in Nat /\ \A i \in 1 .. Len(out) : ev[i] = out[i]
        /\ ev[Len(out) + 1] = e
    BY <1>2, <2>1
  <2> HIDE DEF ev
  <2>5. ASSUME NEW i \in DOMAIN ev, NEW j \in DOMAIN ev, i < j PROVE Before(ev[i], ev[j])
    <3>1. i \in 1 .. Len(out) /\ (j \in 1 .. Len(out) \/ j = Len(out) + 1)
      BY <2>4, <2>5
    <3>2. CASE j \in 1 .. Len(out)
      BY <1>2, <2>4, <2>5, <3>1, <3>2 DEF Ordered
    <3>3. CASE j = Len(out) + 1
      BY <2>2, <2>4, <3>1, <3>3
    <3> QED BY <3>1, <3>2, <3>3
  <2> QED BY <2>3, <2>4, <2>5 DEF Ordered, ev
<1> QED BY <1>3, <1>4

-----------------------------------------------------------------------------
(***************************************************************************)
(* Pairs.  Net counts the braces that open less those that close; a pair   *)
(* by definition (Partners) is an opening brace and the first close where  *)
(* the count from it is zero.  The stack of the code holds the opening     *)
(* braces that have no partner yet, the innermost last.                    *)
(***************************************************************************)
Opening(ev, i, j) == {m \in i .. j : ev[m].kind = "open"}
Closing(ev, i, j) == {m \in i .. j : ev[m].kind = "close"}
Net(ev, i, j) == Cardinality(Opening(ev, i, j)) - Cardinality(Closing(ev, i, j))

Pair(ev, p, q) ==
  /\ p \in DOMAIN ev /\ q \in DOMAIN ev
  /\ p < q /\ ev[p].kind = "open" /\ ev[q].kind = "close"
  /\ Net(ev, p, q) = 0 /\ \A m \in p .. q - 1 : Net(ev, p, m) > 0

LEMMA PartnersArePairs ==
  ASSUME NEW ev
  PROVE  /\ \A p, q : <<p, q>> \in Partners(ev) <=> Pair(ev, p, q)
         /\ \A x \in Partners(ev) : x = <<x[1], x[2]>> /\ Pair(ev, x[1], x[2])
<1> DEFINE D == DOMAIN ev
<1>1. Partners(ev) =
        {x \in D \X D : /\ x[1] < x[2] /\ ev[x[1]].kind = "open" /\ ev[x[2]].kind = "close"
                        /\ Net(ev, x[1], x[2]) = 0
                        /\ \A m \in x[1] .. x[2] - 1 : Net(ev, x[1], m) > 0}
  BY DEF Partners, Net, Opening, Closing
<1>2. \A x \in Partners(ev) : x \in D \X D /\ Pair(ev, x[1], x[2])
  BY <1>1 DEF Pair
<1>3. \A x \in D \X D : Pair(ev, x[1], x[2]) => x \in Partners(ev)
  BY <1>1 DEF Pair
<1>4. \A p, q : Pair(ev, p, q) => <<p, q>> \in D \X D
  BY DEF Pair
<1>5. \A x \in D \X D : x = <<x[1], x[2]>>
  OBVIOUS
<1> HIDE DEF D
<1>6. ASSUME NEW p, NEW q PROVE <<p, q>> \in Partners(ev) <=> Pair(ev, p, q)
  <2>1. <<p, q>>[1] = p /\ <<p, q>>[2] = q
    OBVIOUS
  <2>2. Pair(ev, p, q) => <<p, q>> \in Partners(ev)
    BY <1>3, <1>4, <2>1
  <2>3. <<p, q>> \in Partners(ev) => Pair(ev, p, q)
    BY <1>2, <2>1
  <2> QED BY <2>2, <2>3
<1> QED BY <1>2, <1>5, <1>6

\* Net over one more event
LEMMA NetStep ==
  ASSUME NEW ev, NEW i \in Nat \ {0}, NEW j \in Nat, i <= j + 1
  PROVE  /\ Net(ev, i, j) \in Int
         /\ ev[j + 1].kind = "open" => Net(ev, i, j + 1) = Net(ev, i, j) + 1
         /\ ev[j + 1].kind = "close" => Net(ev, i, j + 1) = Net(ev, i, j) - 1
         /\ ev[j + 1].kind \notin {"open", "close"} => Net(ev, i, j + 1) = Net(ev, i, j)
<1> DEFINE O == Opening(ev, i, j)
           C == Closing(ev, i, j)
<1>1. O \in SUBSET (1 .. j) /\ C \in SUBSET (1 .. j)
  <2>1. \A m \in i .. j : m \in 1 .. j
    OBVIOUS
  <2> QED BY <2>1 DEF Opening, Closing
<1>2. /\ IsFiniteSet(O) /\ Cardinality(O) \in Nat
      /\ IsFiniteSet(C) /\ Cardinality(C) \in Nat
  <2> HIDE DEF O, C
  <2> QED BY <1>1, PlacesFinite
<1>3. i .. j + 1 = (i .. j) \cup {j + 1} /\ j + 1 \notin i .. j
  OBVIOUS
<1>4. /\ ev[j + 1].kind = "open" => Opening(ev, i, j + 1) = O \cup {j + 1}
      /\ ev[j + 1].kind # "open" => Opening(ev, i, j + 1) = O
      /\ j + 1 \notin O
  BY <1>3 DEF Opening
<1>5. /\ ev[j + 1].kind = "close" => Closing(ev, i, j + 1) = C \cup {j + 1}
      /\ ev[j + 1].kind # "close" => Closing(ev, i, j + 1) = C
      /\ j + 1 \notin C
  BY <1>3 DEF Closing
<1>6. /\ Cardinality(O \cup {j + 1}) = Cardinality(O) + 1
      /\ Cardinality(C \cup {j + 1}) = Cardinality(C) + 1
  <2> HIDE DEF O, C
  <2>1. Cardinality(O \cup {j + 1}) = Cardinality(O) + 1
    BY <1>2, <1>4, FS_AddElement
  <2>2. Cardinality(C \cup {j + 1}) = Cardinality(C) + 1
    BY <1>2, <1>5, FS_AddElement
  <2> QED BY <2>1, <2>2
<1>7. Net(ev, i, j) = Cardinality(O) - Cardinality(C)
  BY DEF Net
<1>8. Net(ev, i, j + 1) = Cardinality(Opening(ev, i, j + 1)) - Cardinality(Closing(ev, i, j + 1))
  BY DEF Net
<1> HIDE DEF O, C
<1>9. ASSUME ev[j + 1].kind = "open" PROVE Net(ev, i, j + 1) = Net(ev, i, j) + 1
  <2>1. Opening(ev, i, j + 1) = O \cup {j + 1} /\ Closing(ev, i, j + 1) = C
    BY <1>4, <1>5, <1>9
  <2> QED BY <1>2, <1>6, <1>7, <1>8, <2>1
<1>10. ASSUME ev[j + 1].kind = "close" PROVE Net(ev, i, j + 1) = Net(ev, i, j) - 1
  <2>1. Opening(ev, i, j + 1) = O /\ Closing(ev, i, j + 1) = C \cup {j + 1}
    BY <1>4, <1>5, <1>10
  <2>2. Net(ev, i, j + 1) = Cardinality(O) - (Cardinality(C) + 1)
    BY <1>6, <1>8, <2>1
  <2> QED BY <1>2, <1>7, <2>2
<1>11. ASSUME ev[j + 1].kind \notin {"open", "close"} PROVE Net(ev, i, j + 1) = Net(ev, i, j)
  <2>1. Opening(ev, i, j + 1) = O /\ Closing(ev, i, j + 1) = C
    BY <1>4, <1>5, <1>11
  <2> QED BY <1>7, <1>8, <2>1
<1>12. Net(ev, i, j) \in Int
  BY <1>2, <1>7
<1> QED BY <1>9, <1>10, <1>11, <1>12

\* An opening brace alone
LEMMA NetOne ==
  ASSUME NEW ev, NEW i \in Nat \ {0}, ev[i].kind = "open"
  PROVE  Net(ev, i, i) = 1
<1>1. Opening(ev, i, i) = {i} /\ Closing(ev, i, i) = {}
  BY DEF Opening, Closing
<1>2. Cardinality({i}) = 1 /\ Cardinality({}) = 0
  BY FS_EmptySet, FS_Singleton
<1> QED BY <1>1, <1>2 DEF Net

\* The opening braces up to n that have no partner up to n
Alive(ev, n) ==
  {p \in 1 .. n : ev[p].kind = "open" /\ ~\E q \in p .. n : Pair(ev, p, q)}

\* The pair that ends at a place begins at one that had no partner before.
LEMMA PairEndsAlive ==
  ASSUME NEW ev \in Seq(EventSet), NEW n \in Nat, n + 1 \in DOMAIN ev,
         NEW p, Pair(ev, p, n + 1)
  PROVE  p \in Alive(ev, n) /\ ev[n + 1].kind = "close"
<1>1. /\ p \in 1 .. Len(ev) /\ p < n + 1 /\ ev[p].kind = "open" /\ ev[n + 1].kind = "close"
      /\ \A m \in p .. n : Net(ev, p, m) > 0
  <2>1. n + 1 - 1 = n
    OBVIOUS
  <2> QED BY <2>1 DEF Pair
<1>2. \A m \in p .. n : ~Pair(ev, p, m)
  <2> SUFFICES ASSUME NEW m \in p .. n, Pair(ev, p, m) PROVE FALSE
    OBVIOUS
  <2>1. Net(ev, p, m) = 0
    BY DEF Pair
  <2>2. Net(ev, p, m) > 0
    BY <1>1
  <2> QED BY <2>1, <2>2
<1>3. p \in 1 .. n
  BY <1>1
<1> QED BY <1>1, <1>2, <1>3 DEF Alive

LEMMA AliveStep ==
  ASSUME NEW ev \in Seq(EventSet), NEW n \in Nat, n + 1 \in DOMAIN ev
  PROVE  Alive(ev, n + 1) = {p \in Alive(ev, n) : ~Pair(ev, p, n + 1)}
                              \cup (IF ev[n + 1].kind = "open" THEN {n + 1} ELSE {})
<1>1. 1 .. n + 1 = (1 .. n) \cup {n + 1} /\ n + 1 \notin 1 .. n
  OBVIOUS
<1>2. \A p \in 1 .. n : p .. n + 1 = (p .. n) \cup {n + 1}
  OBVIOUS
<1>3. ~\E q \in n + 1 .. n + 1 : Pair(ev, n + 1, q)
  BY DEF Pair
<1>4. ASSUME NEW p \in 1 .. n
      PROVE  p \in Alive(ev, n + 1) <=> p \in Alive(ev, n) /\ ~Pair(ev, p, n + 1)
  BY <1>1, <1>2 DEF Alive
<1>5. n + 1 \in Alive(ev, n + 1) <=> ev[n + 1].kind = "open"
  BY <1>1, <1>3 DEF Alive
<1>6. Alive(ev, n + 1) \subseteq 1 .. n + 1 /\ Alive(ev, n) \subseteq 1 .. n
  BY DEF Alive
<1> QED BY <1>1, <1>4, <1>5, <1>6

\* idx holds the places of the opening braces without partner among the first n
\* events; from each of them on the count has stayed above zero, and says how deep
\* the brace lies.
Stack(ev, n, idx) ==
  /\ idx \in Seq(1 .. n)
  /\ \A j \in DOMAIN idx : /\ idx[j] \in Alive(ev, n)
                           /\ Net(ev, idx[j], n) = Len(idx) - j + 1
                           /\ \A m \in idx[j] .. n : Net(ev, idx[j], m) > 0
  /\ \A j, k \in DOMAIN idx : j < k => idx[j] < idx[k]
  /\ \A p \in Alive(ev, n) : \E j \in DOMAIN idx : idx[j] = p

LEMMA StackEmpty ==
  ASSUME NEW ev
  PROVE  Stack(ev, 0, <<>>)
<1>1. Alive(ev, 0) = {}
  BY DEF Alive
<1> QED BY <1>1 DEF Stack

\* The stack has as many places as there are braces without partner.
LEMMA StackCounts ==
  ASSUME NEW ev, NEW n \in Nat, NEW idx, Stack(ev, n, idx)
  PROVE  Cardinality(Alive(ev, n)) = Len(idx)
<1>1. idx \in Seq(1 .. n) /\ Alive(ev, n) = {idx[j] : j \in DOMAIN idx}
  BY DEF Stack
<1>2. \A j, k \in DOMAIN idx : idx[j] = idx[k] => j = k
  <2> SUFFICES ASSUME NEW j \in DOMAIN idx, NEW k \in DOMAIN idx, idx[j] = idx[k], j # k
               PROVE  FALSE
    OBVIOUS
  <2>1. j \in Int /\ k \in Int /\ idx[j] \in Int /\ idx[k] \in Int
    BY <1>1
  <2>2. j < k \/ k < j
    BY <2>1
  <2>3. idx[j] < idx[k] \/ idx[k] < idx[j]
    BY <2>2 DEF Stack
  <2> QED BY <2>1, <2>3
<1> QED BY <1>1, <1>2, EntriesCount

\* An event that is no closing brace leaves every place where it is.
LEMMA StackKeeps ==
  ASSUME NEW ev \in Seq(EventSet), NEW n \in Nat, n + 1 \in DOMAIN ev, NEW idx, Stack(ev, n, idx),
         NEW j \in DOMAIN idx
  PROVE  /\ idx[j] \in 1 .. n /\ j \in 1 .. Len(idx) /\ Len(idx) \in Nat
         /\ Net(ev, idx[j], n + 1) \in Int
         /\ ev[n + 1].kind = "open" => Net(ev, idx[j], n + 1) = Len(idx) - j + 2
         /\ ev[n + 1].kind = "close" => Net(ev, idx[j], n + 1) = Len(idx) - j
         /\ ev[n + 1].kind = "string" => Net(ev, idx[j], n + 1) = Len(idx) - j + 1
         /\ Net(ev, idx[j], n + 1) > 0 => \A m \in idx[j] .. n + 1 : Net(ev, idx[j], m) > 0
<1>1. /\ idx \in Seq(1 .. n) /\ Net(ev, idx[j], n) = Len(idx) - j + 1
      /\ \A m \in idx[j] .. n : Net(ev, idx[j], m) > 0
  BY DEF Stack
<1>2. idx[j] \in 1 .. n /\ j \in 1 .. Len(idx) /\ Len(idx) \in Nat
  BY <1>1
<1> DEFINE i == idx[j]
<1>3. i \in Nat \ {0} /\ i <= n + 1 /\ i <= n + 2
  BY <1>2
<1>4. \A m \in i .. n + 1 : m \in i .. n \/ m = n + 1
  BY <1>3
<1> HIDE DEF i
<1>5. /\ ev[n + 1].kind = "open" => Net(ev, i, n + 1) = Net(ev, i, n) + 1
      /\ ev[n + 1].kind = "close" => Net(ev, i, n + 1) = Net(ev, i, n) - 1
      /\ ev[n + 1].kind \notin {"open", "close"} => Net(ev, i, n + 1) = Net(ev, i, n)
  BY <1>3, NetStep
<1>6. Net(ev, i, n + 1) \in Int
  <2>1. n + 1 \in Nat /\ i <= n + 1 + 1
    BY <1>3
  <2> QED BY <1>3, <2>1, NetStep
<1>7. Net(ev, i, n) = Len(idx) - j + 1
  BY <1>1 DEF i
<1>8. /\ ev[n + 1].kind = "open" => Net(ev, i, n + 1) = Len(idx) - j + 2
      /\ ev[n + 1].kind = "close" => Net(ev, i, n + 1) = Len(idx) - j
      /\ ev[n + 1].kind = "string" => Net(ev, i, n + 1) = Len(idx) - j + 1
  <2>1. j \in Int /\ Len(idx) \in Int
    BY <1>2
  <2>2. ev[n + 1].kind = "string" => ev[n + 1].kind \notin {"open", "close"}
    OBVIOUS
  <2>3. ASSUME ev[n + 1].kind = "open" PROVE Net(ev, i, n + 1) = Len(idx) - j + 2
    BY <1>5, <1>7, <2>1, <2>3
  <2>4. ASSUME ev[n + 1].kind = "close" PROVE Net(ev, i, n + 1) = Len(idx) - j
    BY <1>5, <1>7, <2>1, <2>4
  <2>5. ASSUME ev[n + 1].kind = "string" PROVE Net(ev, i, n + 1) = Len(idx) - j + 1
    BY <1>5, <1>7, <2>2, <2>5
  <2> QED BY <2>3, <2>4, <2>5
<1>9. Net(ev, i, n + 1) > 0 => \A m \in i .. n + 1 : Net(ev, i, m) > 0
  BY <1>1, <1>4 DEF i
<1> QED BY <1>2, <1>6, <1>8, <1>9 DEF i

\* An opening brace goes on top.
LEMMA StackOpen ==
  ASSUME NEW ev \in Seq(EventSet), NEW n \in Nat, n + 1 \in DOMAIN ev, NEW idx, Stack(ev, n, idx),
         ev[n + 1].kind = "open"
  PROVE  /\ Stack(ev, n + 1, Append(idx, n + 1))
         /\ \A p : ~Pair(ev, p, n + 1)
<1>1. \A p : ~Pair(ev, p, n + 1)
  <2>1. "open" # "close"
    OBVIOUS
  <2> QED BY <2>1, PairEndsAlive
<1>2. Alive(ev, n + 1) = Alive(ev, n) \cup {n + 1}
  BY <1>1, AliveStep
<1> DEFINE next == Append(idx, n + 1)
           k == Len(idx)
<1>3. /\ idx \in Seq(1 .. n) /\ k \in Nat /\ DOMAIN idx = 1 .. k
      /\ \A p \in Alive(ev, n) : \E j \in DOMAIN idx : idx[j] = p
      /\ \A j, m \in DOMAIN idx : j < m => idx[j] < idx[m]
      /\ \A j \in DOMAIN idx : idx[j] \in Alive(ev, n)
  BY DEF Stack
<1>4. /\ next \in Seq(1 .. n + 1) /\ Len(next) = k + 1 /\ DOMAIN next = 1 .. k + 1
      /\ \A j \in 1 .. k : next[j] = idx[j] /\ idx[j] \in 1 .. n
      /\ next[k + 1] = n + 1
  <2>1. idx \in Seq(1 .. n + 1)
    <3>1. 1 .. n \subseteq 1 .. n + 1
      OBVIOUS
    <3> QED BY <1>3, <3>1, SeqMonotonic
  <2>2. n + 1 \in 1 .. n + 1
    OBVIOUS
  <2>3. next \in Seq(1 .. n + 1) /\ Len(next) = k + 1
    BY <2>1, <2>2
  <2> QED BY <1>3, <2>3
<1> HIDE DEF next, k
<1>5. \A j \in 1 .. k + 1 : j \in 1 .. k \/ j = k + 1
  BY <1>3
<1>6. ASSUME NEW j \in 1 .. k + 1
      PROVE  /\ next[j] \in Alive(ev, n + 1)
             /\ Net(ev, next[j], n + 1) = (k + 1) - j + 1
             /\ \A m \in next[j] .. n + 1 : Net(ev, next[j], m) > 0
  <2>1. CASE j \in 1 .. k
    <3>0. j \in DOMAIN idx /\ next[j] = idx[j]
      BY <1>3, <1>4, <2>1
    <3>1. /\ Net(ev, idx[j], n + 1) = k - j + 2
          /\ Net(ev, idx[j], n + 1) > 0 => \A m \in idx[j] .. n + 1 : Net(ev, idx[j], m) > 0
      BY <3>0, StackKeeps DEF k
    <3>2. k - j + 2 = (k + 1) - j + 1 /\ k - j + 2 > 0
      BY <1>3, <2>1
    <3> QED BY <1>2, <1>3, <3>0, <3>1, <3>2
  <2>2. CASE j = k + 1
    <3>1. Net(ev, n + 1, n + 1) = 1
      BY NetOne
    <3>2. (k + 1) - j + 1 = 1
      BY <1>3, <2>2
    <3>3. \A m \in n + 1 .. n + 1 : m = n + 1
      OBVIOUS
    <3>4. \A m \in n + 1 .. n + 1 : Net(ev, n + 1, m) > 0
      BY <3>1, <3>3
    <3>5. next[j] = n + 1 /\ n + 1 \in Alive(ev, n + 1)
      BY <1>2, <1>4, <2>2
    <3> QED BY <3>1, <3>2, <3>4, <3>5
  <2> QED BY <1>5, <2>1, <2>2
<1>7. ASSUME NEW j \in 1 .. k + 1, NEW m \in 1 .. k + 1, j < m PROVE next[j] < next[m]
  <2>1. j \in 1 .. k
    BY <1>3, <1>7
  <2>2. CASE m \in 1 .. k
    BY <1>3, <1>4, <1>7, <2>1, <2>2
  <2>3. CASE m = k + 1
    <3>1. idx[j] \in 1 .. n
      BY <1>4, <2>1
    <3> QED BY <1>4, <2>1, <2>3, <3>1
  <2> QED BY <1>5, <2>2, <2>3
<1>8. ASSUME NEW p \in Alive(ev, n + 1) PROVE \E j \in 1 .. k + 1 : next[j] = p
  <2>1. CASE p = n + 1
    <3>1. k + 1 \in 1 .. k + 1
      BY <1>3
    <3> QED BY <1>4, <2>1, <3>1
  <2>2. CASE p \in Alive(ev, n)
    <3>1. PICK j \in 1 .. k : idx[j] = p
      BY <1>3, <2>2
    <3>2. j \in 1 .. k + 1
      BY <1>3
    <3> QED BY <1>4, <3>1, <3>2
  <2> QED BY <1>2, <2>1, <2>2
<1>9. Stack(ev, n + 1, next)
  BY <1>4, <1>6, <1>7, <1>8 DEF Stack
<1> QED BY <1>1, <1>9 DEF next

\* A closing brace is the partner of the one on top, which goes.
LEMMA StackClose ==
  ASSUME NEW ev \in Seq(EventSet), NEW n \in Nat, n + 1 \in DOMAIN ev, NEW idx, Stack(ev, n, idx),
         ev[n + 1].kind = "close", idx # <<>>
  PROVE  /\ Stack(ev, n + 1, Front(idx))
         /\ \A p : Pair(ev, p, n + 1) <=> p = Last(idx)
<1> DEFINE next == Front(idx)
           k == Len(idx)
<1>1. /\ idx \in Seq(1 .. n) /\ k \in Nat \ {0} /\ DOMAIN idx = 1 .. k
      /\ \A p \in Alive(ev, n) : \E j \in DOMAIN idx : idx[j] = p
      /\ \A j, m \in DOMAIN idx : j < m => idx[j] < idx[m]
      /\ \A j \in DOMAIN idx : idx[j] \in Alive(ev, n)
  BY DEF Stack
<1>2. /\ next \in Seq(1 .. n + 1) /\ Len(next) = k - 1 /\ DOMAIN next = 1 .. k - 1
      /\ \A j \in 1 .. k - 1 : next[j] = idx[j]
  <2>1. idx \in Seq(1 .. n + 1)
    <3>1. 1 .. n \subseteq 1 .. n + 1
      OBVIOUS
    <3> QED BY <1>1, <3>1, SeqMonotonic
  <2>2. next = [j \in 1 .. k - 1 |-> idx[j]]
    BY DEF Front
  <2>3. k \in Nat /\ k # 0 /\ \A j \in 1 .. k - 1 : idx[j] \in 1 .. n + 1
    BY <1>1, <2>1
  <2> HIDE DEF next, k
  <2>4. next \in Seq(1 .. n + 1) /\ Len(next) = k - 1
    BY <2>2, <2>3
  <2> QED BY <2>2, <2>4
<1> HIDE DEF next, k
<1>3. ASSUME NEW j \in 1 .. k
      PROVE  /\ Net(ev, idx[j], n + 1) = k - j
             /\ Net(ev, idx[j], n + 1) > 0 => \A m \in idx[j] .. n + 1 : Net(ev, idx[j], m) > 0
             /\ idx[j] \in 1 .. n
  <2>1. j \in DOMAIN idx
    BY <1>1
  <2> QED BY <2>1, StackKeeps DEF k
<1>4. Last(idx) = idx[k] /\ k \in 1 .. k
  BY <1>1 DEF Last, k
<1>5. Pair(ev, idx[k], n + 1)
  <2>1. k \in DOMAIN idx
    BY <1>1, <1>4
  <2>2. idx[k] \in Alive(ev, n) /\ \A m \in idx[k] .. n : Net(ev, idx[k], m) > 0
    BY <2>1 DEF Stack
  <2>3. Net(ev, idx[k], n + 1) = 0
    <3>1. Net(ev, idx[k], n + 1) = k - k
      BY <1>3, <1>4
    <3>2. k - k = 0
      BY <1>1
    <3> QED BY <3>1, <3>2
  <2>4. n + 1 - 1 = n /\ idx[k] < n + 1 /\ idx[k] \in DOMAIN ev
    <3>1. idx[k] \in 1 .. n /\ DOMAIN ev = 1 .. Len(ev) /\ Len(ev) \in Nat
      BY <1>3, <1>4
    <3> QED BY <3>1
  <2>5. ev[idx[k]].kind = "open"
    BY <2>2 DEF Alive
  <2> QED BY <2>2, <2>3, <2>4, <2>5 DEF Pair
<1>6. ASSUME NEW p, Pair(ev, p, n + 1) PROVE p = idx[k]
  <2>1. p \in Alive(ev, n)
    BY <1>6, PairEndsAlive
  <2>2. PICK j \in 1 .. k : idx[j] = p
    BY <1>1, <2>1
  <2>3. Net(ev, p, n + 1) = 0
    BY <1>6 DEF Pair
  <2>4. k - j = 0
    BY <1>3, <2>2, <2>3
  <2>5. j = k
    BY <1>1, <2>4
  <2> QED BY <2>2, <2>5
<1>7. Alive(ev, n + 1) = Alive(ev, n) \ {idx[k]}
  <2>1. ev[n + 1].kind # "open"
    OBVIOUS
  <2> QED BY <1>5, <1>6, <2>1, AliveStep
<1>8. \A j \in 1 .. k - 1 : j \in 1 .. k /\ j < k /\ idx[j] # idx[k]
  <2> TAKE j \in 1 .. k - 1
  <2>1. j \in 1 .. k /\ j < k
    BY <1>1
  <2>2. idx[j] < idx[k]
    BY <1>1, <1>4, <2>1
  <2>3. idx[j] \in Int /\ idx[k] \in Int
    <3>1. idx[j] \in 1 .. n /\ idx[k] \in 1 .. n
      BY <1>3, <1>4, <2>1
    <3> QED BY <3>1
  <2> QED BY <2>1, <2>2, <2>3
<1>9. ASSUME NEW j \in 1 .. k - 1
      PROVE  /\ next[j] \in Alive(ev, n + 1)
             /\ Net(ev, next[j], n + 1) = (k - 1) - j + 1
             /\ \A m \in next[j] .. n + 1 : Net(ev, next[j], m) > 0
  <2>1. j \in 1 .. k /\ next[j] = idx[j] /\ idx[j] # idx[k]
    BY <1>2, <1>8
  <2>2. k - j = (k - 1) - j + 1 /\ k - j > 0
    BY <1>1
  <2>3. idx[j] \in Alive(ev, n + 1)
    BY <1>1, <1>7, <2>1
  <2>4. Net(ev, idx[j], n + 1) = k - j
    BY <1>3, <2>1
  <2>5. \A m \in idx[j] .. n + 1 : Net(ev, idx[j], m) > 0
    BY <1>3, <2>1, <2>2, <2>4
  <2> QED BY <2>1, <2>2, <2>3, <2>4, <2>5
<1>10. ASSUME NEW j \in 1 .. k - 1, NEW m \in 1 .. k - 1, j < m PROVE next[j] < next[m]
  BY <1>1, <1>2, <1>8, <1>10
<1>11. ASSUME NEW p \in Alive(ev, n + 1) PROVE \E j \in 1 .. k - 1 : next[j] = p
  <2>1. PICK j \in 1 .. k : idx[j] = p
    BY <1>1, <1>7
  <2>2. j # k
    BY <1>7, <2>1
  <2>3. j \in 1 .. k - 1
    BY <1>1, <2>2
  <2> QED BY <1>2, <2>1, <2>3
<1>12. Stack(ev, n + 1, next)
  BY <1>2, <1>9, <1>10, <1>11 DEF Stack
<1> QED BY <1>4, <1>5, <1>6, <1>12 DEF next

\* A closing brace that finds the stack empty has no partner, nor has a string.
LEMMA StackStays ==
  ASSUME NEW ev \in Seq(EventSet), NEW n \in Nat, n + 1 \in DOMAIN ev, NEW idx, Stack(ev, n, idx),
         ev[n + 1].kind = "string" \/ (ev[n + 1].kind = "close" /\ idx = <<>>)
  PROVE  /\ Stack(ev, n + 1, idx)
         /\ \A p : ~Pair(ev, p, n + 1)
<1>1. /\ idx \in Seq(1 .. n)
      /\ \A p \in Alive(ev, n) : \E j \in DOMAIN idx : idx[j] = p
      /\ \A j, m \in DOMAIN idx : j < m => idx[j] < idx[m]
      /\ \A j \in DOMAIN idx : idx[j] \in Alive(ev, n)
  BY DEF Stack
<1>2. \A p : ~Pair(ev, p, n + 1)
  <2> SUFFICES ASSUME NEW p, Pair(ev, p, n + 1) PROVE FALSE
    OBVIOUS
  <2>1. p \in Alive(ev, n) /\ ev[n + 1].kind = "close"
    BY PairEndsAlive
  <2>2. idx = <<>>
    BY <2>1
  <2>3. PICK j \in DOMAIN idx : idx[j] = p
    BY <1>1, <2>1
  <2> QED BY <2>2, <2>3
<1>3. Alive(ev, n + 1) = Alive(ev, n)
  <2>1. ev[n + 1].kind # "open"
    OBVIOUS
  <2> QED BY <1>2, <2>1, AliveStep
<1>4. idx \in Seq(1 .. n + 1)
  <2>1. 1 .. n \subseteq 1 .. n + 1
    OBVIOUS
  <2> QED BY <1>1, <2>1, SeqMonotonic
<1>5. ASSUME NEW j \in DOMAIN idx
      PROVE  /\ Net(ev, idx[j], n + 1) = Len(idx) - j + 1
             /\ \A m \in idx[j] .. n + 1 : Net(ev, idx[j], m) > 0
  <2>1. ev[n + 1].kind = "string"
    OBVIOUS
  <2>2. /\ Net(ev, idx[j], n + 1) = Len(idx) - j + 1
        /\ j \in 1 .. Len(idx) /\ Len(idx) \in Nat
        /\ Net(ev, idx[j], n + 1) > 0 => \A m \in idx[j] .. n + 1 : Net(ev, idx[j], m) > 0
    BY <2>1, StackKeeps
  <2>3. Len(idx) - j + 1 > 0
    BY <2>2
  <2> QED BY <2>2, <2>3
<1>6. Stack(ev, n + 1, idx)
  BY <1>1, <1>3, <1>4, <1>5 DEF Stack
<1> QED BY <1>2, <1>6

\* There is room on top for another brace exactly where the depth is not exceeded.
LEMMA StackRoom ==
  ASSUME NEW ev \in Seq(EventSet), NEW n \in Nat, n + 1 \in DOMAIN ev, NEW idx,
         Stack(ev, n, idx), ev[n + 1].kind = "open"
  PROVE  Len(idx) < MaxBraceDepth <=> ~Over(ev, n + 1)
<1> DEFINE i == n + 1
<1>1. Stack(ev, i, Append(idx, i))
  BY StackOpen
<1>2. Cardinality(Alive(ev, i)) = Len(Append(idx, i))
  <2>1. i \in Nat
    OBVIOUS
  <2> HIDE DEF i
  <2> QED BY <1>1, <2>1, StackCounts
<1>3. Len(Append(idx, i)) = Len(idx) + 1 /\ Len(idx) \in Nat
  <2>1. idx \in Seq(1 .. n)
    BY DEF Stack
  <2> QED BY <2>1
<1>4. {p \in DOMAIN ev : /\ p <= i /\ ev[p].kind = "open"
                        /\ ~\E q \in p .. i : <<p, q>> \in Partners(ev)} = Alive(ev, i)
  <2>1. \A p : p \in DOMAIN ev /\ p <= i <=> p \in 1 .. i
    <3>1. i \in 1 .. Len(ev) /\ DOMAIN ev = 1 .. Len(ev) /\ Len(ev) \in Nat
      OBVIOUS
    <3> QED BY <3>1
  <2> HIDE DEF i
  <2> QED BY <2>1, PartnersArePairs DEF Alive
<1>5. Over(ev, i) <=> Cardinality(Alive(ev, i)) > MaxBraceDepth
  <2>1. ev[i].kind = "open"
    OBVIOUS
  <2> HIDE DEF i
  <2> QED BY <1>4, <2>1 DEF Over
<1>6. MaxBraceDepth \in Nat
  BY ScriptAssumption
<1> QED BY <1>2, <1>3, <1>5, <1>6

-----------------------------------------------------------------------------
(***************************************************************************)
(* The bounded retainer.  A is the set of the findings so far; those kept  *)
(* are all of them while there is room, and then come before the others.   *)
(***************************************************************************)
Chain(A) == \A x, y \in A : x # y => Before(x, y) \/ Before(y, x)

Recorded(kept, A) ==
  /\ kept \in Seq(EventSet) /\ Len(kept) <= MaxFindings
  /\ \A i, j \in DOMAIN kept : kept[i] = kept[j] => i = j
  /\ IsFiniteSet(A) /\ A \subseteq EventSet /\ ToSet(kept) \subseteq A
  /\ Len(kept) < MaxFindings => ToSet(kept) = A
  /\ \A x \in ToSet(kept), y \in A \ ToSet(kept) : Before(x, y)

LEMMA BeforeOrders ==
  /\ \A x \in EventSet : ~Before(x, x)
  /\ \A x, y \in EventSet : Before(x, y) => ~Before(y, x)
  /\ \A x, y, z \in EventSet : Before(x, y) /\ Before(y, z) => Before(x, z)
<1>1. \A x \in EventSet : x.line \in Nat /\ x.at \in Nat
  BY DEF EventSet
<1> QED BY <1>1 DEF Before

LEMMA LatestEvent ==
  ASSUME NEW A \in SUBSET EventSet, IsFiniteSet(A), A # {}, Chain(A)
  PROVE  \E m \in A : \A x \in A : x = m \/ Before(x, m)
<1> DEFINE R == {p \in EventSet \X EventSet : Before(p[1], p[2])}
<1>1. \A x, y \in EventSet : <<x, y>> \in R <=> Before(x, y)
  OBVIOUS
<1> HIDE DEF R
<1>2. Orders(R, A)
  <2>1. ASSUME NEW x \in A, NEW y \in A, x # y PROVE <<x, y>> \in R \/ <<y, x>> \in R
    BY <1>1, <2>1 DEF Chain
  <2>2. ASSUME NEW x \in A, NEW y \in A, NEW z \in A, <<x, y>> \in R, <<y, z>> \in R
        PROVE  <<x, z>> \in R
    <3>1. Before(x, y) /\ Before(y, z)
      BY <1>1, <2>2
    <3>2. Before(x, z)
      BY <3>1, BeforeOrders
    <3> QED BY <1>1, <3>2
  <2> QED BY <2>1, <2>2 DEF Orders
<1>3. PICK m \in A : \A x \in A : x = m \/ <<x, m>> \in R
  BY <1>2, LastSuch
<1> QED BY <1>1, <1>3

LEMMA RecordedNothing == Recorded(<<>>, {})
<1>1. MaxFindings \in Nat \ {0}
  BY ScriptAssumption
<1>2. ToSet(<<>>) = {} /\ Len(<<>>) = 0 /\ <<>> \in Seq(EventSet)
  BY DEF ToSet
<1> QED BY <1>1, <1>2, FS_EmptySet DEF Recorded

\* A finding more
LEMMA RecordKeeps ==
  ASSUME NEW A, NEW kept, Recorded(kept, A), NEW e \in EventSet, e \notin A, Chain(A \cup {e})
  PROVE  Recorded(Record(kept, e), A \cup {e})
<1> DEFINE B == A \cup {e}
           n == Len(kept)
           K == ToSet(kept)
<1>1. /\ kept \in Seq(EventSet) /\ n \in Nat /\ n <= MaxFindings /\ DOMAIN kept = 1 .. n
      /\ MaxFindings \in Nat \ {0}
      /\ \A i, j \in DOMAIN kept : kept[i] = kept[j] => i = j
      /\ IsFiniteSet(A) /\ A \subseteq EventSet /\ K \subseteq A
      /\ n < MaxFindings => K = A
      /\ \A x \in K, y \in A \ K : Before(x, y)
  BY ScriptAssumption DEF Recorded
<1>2. K = {kept[i] : i \in 1 .. n} /\ \A i \in 1 .. n : kept[i] \in K /\ kept[i] \in EventSet
  BY <1>1 DEF ToSet
<1>3. IsFiniteSet(B) /\ B \subseteq EventSet
  BY <1>1, FS_AddElement
<1> HIDE DEF n, K
<1>4. CASE n < MaxFindings
  <2> DEFINE next == Append(kept, e)
  <2>1. Record(kept, e) = next
    BY <1>4 DEF Record, n
  <2>2. /\ next \in Seq(EventSet) /\ Len(next) = n + 1 /\ DOMAIN next = 1 .. n + 1
        /\ \A i \in 1 .. n : next[i] = kept[i]
        /\ next[n + 1] = e
    BY <1>1 DEF n
  <2> HIDE DEF next
  <2>3. \A i \in 1 .. n + 1 : i \in 1 .. n \/ i = n + 1
    BY <1>1
  <2>4. ToSet(next) = B
    <3>1. ToSet(next) = {next[i] : i \in 1 .. n + 1}
      BY <2>2 DEF ToSet
    <3>2. n + 1 \in 1 .. n + 1 /\ \A i \in 1 .. n : i \in 1 .. n + 1
      BY <1>1
    <3>3. {next[i] : i \in 1 .. n + 1} = {kept[i] : i \in 1 .. n} \cup {e}
      BY <2>2, <2>3, <3>2
    <3> QED BY <1>1, <1>2, <1>4, <3>1, <3>3
  <2>5. ASSUME NEW i \in 1 .. n + 1, NEW j \in 1 .. n + 1, next[i] = next[j] PROVE i = j
    <3>1. \A m \in 1 .. n : next[m] # e
      BY <1>1, <1>2, <2>2
    <3> QED BY <1>1, <2>2, <2>3, <2>5, <3>1
  <2>6. Len(next) <= MaxFindings
    BY <1>1, <1>4, <2>2
  <2>7. Recorded(next, B)
    <3> HIDE DEF B
    <3> QED BY <1>3, <2>2, <2>4, <2>5, <2>6 DEF Recorded
  <2> QED BY <2>1, <2>7
<1>5. CASE n = MaxFindings
  <2> DEFINE Late(i) == \A j \in DOMAIN kept : j = i \/ Before(kept[j], kept[i])
             latest == CHOOSE i \in DOMAIN kept : Late(i)
  <2>1. latest \in 1 .. n /\ Late(latest)
    <3>a. 1 \in 1 .. n
      BY <1>1, <1>5
    <3>1. kept[1] \in K /\ K \in SUBSET EventSet
      BY <1>1, <1>2, <3>a
    <3>2. IsFiniteSet(K) /\ Chain(K)
      BY <1>1, FS_Subset DEF Chain
    <3>3. PICK m \in K : \A x \in K : x = m \/ Before(x, m)
      BY <3>1, <3>2, LatestEvent
    <3>4. PICK i \in 1 .. n : kept[i] = m
      BY <1>2
    <3>5. \A j \in DOMAIN kept : j = i \/ Before(kept[j], kept[i])
      <4>1. \A j \in 1 .. n : kept[j] = kept[i] \/ Before(kept[j], kept[i])
        BY <1>2, <3>3, <3>4
      <4> QED BY <1>1, <3>4, <4>1
    <3>6. i \in DOMAIN kept /\ Late(i)
      BY <1>1, <3>5
    <3> HIDE DEF Late
    <3>7. latest \in DOMAIN kept /\ Late(latest)
      BY <3>6
    <3> QED BY <1>1, <3>7
  <2>2. \A x \in K : x = kept[latest] \/ Before(x, kept[latest])
    <3> SUFFICES ASSUME NEW x \in K PROVE x = kept[latest] \/ Before(x, kept[latest])
      OBVIOUS
    <3>1. PICK j \in 1 .. n : kept[j] = x
      BY <1>2
    <3>2. \A m \in 1 .. n : m = latest \/ Before(kept[m], kept[latest])
      BY <1>1, <2>1
    <3> HIDE DEF latest
    <3> QED BY <3>1, <3>2
  <2>3. Record(kept, e) = IF Before(e, kept[latest]) THEN [kept EXCEPT ![latest] = e] ELSE kept
    <3>1. ~(Len(kept) < MaxFindings)
      BY <1>1, <1>5 DEF n
    <3> QED BY <3>1 DEF Record
  <2> HIDE DEF latest
  <2> DEFINE top == kept[latest]
  <2>4. top \in K /\ top \in A /\ top \in EventSet /\ e # top
    BY <1>1, <1>2, <2>1
  <2>5. CASE Before(e, top)
    <3> DEFINE next == [kept EXCEPT ![latest] = e]
    <3>1. /\ next \in Seq(EventSet) /\ Len(next) = n /\ DOMAIN next = 1 .. n
          /\ next[latest] = e /\ \A i \in 1 .. n : i # latest => next[i] = kept[i]
      BY <1>1, <2>1 DEF n
    <3> HIDE DEF next
    <3>2. ToSet(next) = (K \ {top}) \cup {e}
      <4>1. ToSet(next) = {next[i] : i \in 1 .. n}
        BY <3>1 DEF ToSet
      <4>2. ASSUME NEW x \in ToSet(next) PROVE x \in (K \ {top}) \cup {e}
        <5>1. PICK i \in 1 .. n : next[i] = x
          BY <4>1
        <5>2. CASE i = latest
          BY <3>1, <5>1, <5>2
        <5>3. CASE i # latest
          <6>1. x = kept[i] /\ kept[i] # kept[latest]
            BY <1>1, <2>1, <3>1, <5>1, <5>3
          <6> QED BY <1>2, <6>1
        <5> QED BY <5>2, <5>3
      <4>3. ASSUME NEW x \in (K \ {top}) \cup {e} PROVE x \in ToSet(next)
        <5>1. CASE x = e
          BY <2>1, <3>1, <4>1, <5>1
        <5>2. CASE x \in K \ {top}
          <6>1. PICK i \in 1 .. n : kept[i] = x
            BY <1>2, <5>2
          <6>2. next[i] = x
            BY <3>1, <5>2, <6>1
          <6> QED BY <4>1, <6>2
        <5> QED BY <5>1, <5>2
      <4> QED BY <4>2, <4>3
    <3>3. ASSUME NEW i \in 1 .. n, NEW j \in 1 .. n, next[i] = next[j] PROVE i = j
      <4>1. \A m \in 1 .. n : m # latest => next[m] # e
        BY <1>1, <1>2, <3>1
      <4> QED BY <1>1, <3>1, <3>3, <4>1
    <3>4. ASSUME NEW x \in (K \ {top}) \cup {e}, NEW y \in B \ ((K \ {top}) \cup {e})
          PROVE  Before(x, y)
      <4>1. y = top \/ y \in A \ K
        BY <3>4
      <4>2. Before(x, top) \/ (x \in K /\ y \in A \ K)
        BY <2>2, <2>5
      <4>3. Before(x, top)
        BY <2>2, <2>5
      <4>4. CASE y = top
        BY <4>3, <4>4
      <4>5. CASE y \in A \ K
        <5>1. Before(top, y)
          BY <1>1, <2>4, <4>5
        <5>2. x \in EventSet /\ y \in EventSet
          BY <1>1, <1>3
        <5> QED BY <2>4, <4>3, <5>1, <5>2, BeforeOrders
      <4> QED BY <4>1, <4>4, <4>5
    <3>5. (K \ {top}) \cup {e} \subseteq B
      BY <1>1
    <3>6. Recorded(next, B)
      <4> HIDE DEF B, top
      <4> QED BY <1>1, <1>3, <1>5, <3>1, <3>2, <3>3, <3>4, <3>5 DEF Recorded
    <3> QED BY <2>3, <2>5, <3>6 DEF next
  <2>6. CASE ~Before(e, top)
    <3>1. Before(top, e)
      BY <2>4, <2>6 DEF Chain
    <3>2. \A x \in K : Before(x, e)
      BY <1>1, <2>2, <2>4, <3>1, BeforeOrders
    <3>3. \A x \in K, y \in B \ K : Before(x, y)
      BY <1>1, <3>2
    <3>4. Recorded(kept, B)
      <4>1. K \subseteq B
        BY <1>1
      <4> HIDE DEF B
      <4> QED BY <1>1, <1>3, <1>5, <3>3, <4>1 DEF Recorded, K, n
    <3> QED BY <2>3, <2>6, <3>4
  <2> QED BY <2>5, <2>6
<1>6. n < MaxFindings \/ n = MaxFindings
  BY <1>1
<1> QED BY <1>4, <1>5, <1>6

\* What is kept are the earliest.
LEMMA RecordedEarliest ==
  ASSUME NEW A, NEW kept, Recorded(kept, A), Chain(A)
  PROVE  ToSet(kept) = {e \in A : Cardinality({f \in A : Before(f, e)}) < MaxFindings}
<1> DEFINE n == Len(kept)
           K == ToSet(kept)
           Earlier(e) == {f \in A : Before(f, e)}
<1>1. /\ kept \in Seq(EventSet) /\ n \in Nat /\ n <= MaxFindings
      /\ MaxFindings \in Nat \ {0}
      /\ \A i, j \in DOMAIN kept : kept[i] = kept[j] => i = j
      /\ IsFiniteSet(A) /\ A \subseteq EventSet /\ K \subseteq A
      /\ n < MaxFindings => K = A
      /\ \A x \in K, y \in A \ K : Before(x, y)
  BY ScriptAssumption DEF Recorded
<1>2. Cardinality(K) = n
  BY <1>1, EntriesCount DEF ToSet
<1> HIDE DEF n, K
<1>3. IsFiniteSet(K)
  BY <1>1, FS_Subset
<1>4. \A e : IsFiniteSet(Earlier(e)) /\ Cardinality(Earlier(e)) \in Nat
  <2> TAKE e
  <2>1. Earlier(e) \in SUBSET A
    OBVIOUS
  <2> HIDE DEF Earlier
  <2> QED BY <1>1, <2>1, FS_Subset, FS_CardinalityType
<1>5. ASSUME NEW e \in K PROVE Cardinality(Earlier(e)) < MaxFindings
  <2>1. Earlier(e) \in SUBSET (K \ {e})
    <3> SUFFICES ASSUME NEW f \in A, Before(f, e) PROVE f \in K \ {e}
      OBVIOUS
    <3>1. f \in EventSet /\ e \in EventSet
      BY <1>1
    <3>2. f # e /\ ~Before(e, f)
      BY <3>1, BeforeOrders
    <3> QED BY <1>1, <3>2
  <2>2. IsFiniteSet(K \ {e}) /\ Cardinality(K \ {e}) = n - 1
    BY <1>2, <1>3, FS_RemoveElement
  <2> HIDE DEF Earlier
  <2>3. Cardinality(Earlier(e)) <= n - 1
    BY <2>1, <2>2, FS_Subset
  <2> QED BY <1>1, <1>4, <2>3
<1>6. ASSUME NEW e \in A, e \notin K PROVE ~(Cardinality(Earlier(e)) < MaxFindings)
  <2>1. K \in SUBSET Earlier(e)
    BY <1>1, <1>6
  <2>2. n = MaxFindings
    BY <1>1, <1>6
  <2> HIDE DEF Earlier
  <2>3. Cardinality(K) <= Cardinality(Earlier(e))
    BY <1>4, <2>1, FS_Subset
  <2> QED BY <1>1, <1>2, <1>4, <2>2, <2>3
<1>7. \A e \in A : e \in K <=> Cardinality(Earlier(e)) < MaxFindings
  BY <1>5, <1>6
<1> QED BY <1>1, <1>7 DEF K

-----------------------------------------------------------------------------
(***************************************************************************)
(* The findings.  I is a set of places in the events; Settled are the      *)
(* places up to n that are findings whatever comes after.                  *)
(***************************************************************************)
At(ev, I) == {ev[i] : i \in I}

Settled(ev, n) == {i \in 1 .. n : ev[i].kind # "open" /\ \A p : ~Pair(ev, p, i)}

Matches == [opens : Seq(EventSet), kept : Seq(EventSet), n : Nat, saturated : BOOLEAN]

Notes(acc, A) == Recorded(acc.kept, A) /\ acc.n = Cardinality(A)

\* Events at different places are different, and in an order.
LEMMA AtChain ==
  ASSUME NEW ev \in Seq(EventSet), Ordered(ev), NEW I \in SUBSET DOMAIN ev
  PROVE  /\ Chain(At(ev, I)) /\ At(ev, I) \subseteq EventSet
         /\ \A i \in DOMAIN ev \ I : ev[i] \notin At(ev, I)
<1>1. /\ Len(ev) \in Nat /\ DOMAIN ev = 1 .. Len(ev)
      /\ \A i \in DOMAIN ev : ev[i] \in EventSet /\ i \in Int
  OBVIOUS
<1>2. \A i, j \in DOMAIN ev : i # j => i < j \/ j < i
  BY <1>1
<1>3. \A i, j \in DOMAIN ev : i # j => Before(ev[i], ev[j]) \/ Before(ev[j], ev[i])
  BY <1>2 DEF Ordered
<1>4. \A i, j \in DOMAIN ev : i # j => ev[i] # ev[j]
  BY <1>1, <1>3, BeforeOrders
<1>5. Chain(At(ev, I))
  BY <1>3 DEF At, Chain
<1>6. At(ev, I) \subseteq EventSet
  BY <1>1 DEF At
<1>7. \A i \in DOMAIN ev \ I : ev[i] \notin At(ev, I)
  BY <1>4 DEF At
<1> QED BY <1>5, <1>6, <1>7

\* One finding more is noted.
LEMMA NotedKeeps ==
  ASSUME NEW ev \in Seq(EventSet), Ordered(ev), NEW I \in SUBSET DOMAIN ev,
         NEW i \in DOMAIN ev \ I, NEW acc \in Matches, Notes(acc, At(ev, I))
  PROVE  /\ Noted(acc, ev[i]) \in Matches
         /\ Noted(acc, ev[i]).opens = acc.opens
         /\ Noted(acc, ev[i]).saturated = acc.saturated
         /\ Notes(Noted(acc, ev[i]), At(ev, I \cup {i}))
<1> DEFINE A == At(ev, I)
           e == ev[i]
           next == Noted(acc, e)
<1>1. e \in EventSet /\ e \notin A
  <2>1. e \in EventSet
    OBVIOUS
  <2>2. e \notin A
    <3> HIDE DEF A
    <3> QED BY AtChain DEF A
  <2> QED BY <2>1, <2>2
<1>2. At(ev, I \cup {i}) = A \cup {e}
  BY DEF At
<1>3. Chain(A \cup {e})
  <2>1. I \cup {i} \in SUBSET DOMAIN ev
    OBVIOUS
  <2>2. Chain(At(ev, I \cup {i}))
    BY <2>1, AtChain
  <2> QED BY <1>2, <2>2
<1>4. Recorded(acc.kept, A) /\ acc.n = Cardinality(A)
  BY DEF Notes
<1> HIDE DEF A, e
<1>5. Recorded(Record(acc.kept, e), A \cup {e})
  BY <1>1, <1>3, <1>4, RecordKeeps
<1>6. /\ next.kept = Record(acc.kept, e) /\ next.n = acc.n + 1
      /\ next.opens = acc.opens /\ next.saturated = acc.saturated
      /\ next = [opens |-> next.opens, kept |-> next.kept, n |-> next.n,
                 saturated |-> next.saturated]
  <2> DEFINE k == Record(acc.kept, e)
  <2>1. acc = [opens |-> acc.opens, kept |-> acc.kept, n |-> acc.n, saturated |-> acc.saturated]
    BY DEF Matches
  <2> HIDE DEF k
  <2> DEFINE m == acc.n + 1
             half == [acc EXCEPT !.kept = k]
  <2> HIDE DEF m
  <2>a. half = [opens |-> acc.opens, kept |-> k, n |-> acc.n, saturated |-> acc.saturated]
    BY <2>1
  <2> HIDE DEF half
  <2>b. [half EXCEPT !.n = m]
          = [opens |-> acc.opens, kept |-> k, n |-> m, saturated |-> acc.saturated]
    BY <2>a
  <2>2. [acc EXCEPT !.kept = k, !.n = acc.n + 1]
          = [opens |-> acc.opens, kept |-> k, n |-> acc.n + 1, saturated |-> acc.saturated]
    BY <2>b DEF half, m
  <2>3. next = [opens |-> acc.opens, kept |-> k, n |-> acc.n + 1, saturated |-> acc.saturated]
    BY <2>2 DEF Noted, k
  <2> HIDE DEF next
  <2> QED BY <2>3 DEF k
<1>7. next \in Matches
  <2>1. Record(acc.kept, e) \in Seq(EventSet)
    BY <1>5 DEF Recorded
  <2>2. acc.n \in Nat /\ acc.opens \in Seq(EventSet) /\ acc.saturated \in BOOLEAN
    BY DEF Matches
  <2> HIDE DEF next
  <2> QED BY <1>6, <2>1, <2>2 DEF Matches
<1>8. Cardinality(A \cup {e}) = acc.n + 1
  <2>1. IsFiniteSet(A)
    BY <1>4 DEF Recorded
  <2> QED BY <1>1, <1>4, <2>1, FS_AddElement
<1> HIDE DEF next
<1> QED BY <1>2, <1>5, <1>6, <1>7, <1>8 DEF Notes, e, next

-----------------------------------------------------------------------------
(* The matching of the braces *)

\* sub holds places of opening braces without partner, in order; some may be missing.
Under(ev, n, sub) ==
  /\ sub \in Seq(1 .. n)
  /\ \A j \in DOMAIN sub : sub[j] \in Alive(ev, n)
  /\ \A j, k \in DOMAIN sub : j < k => sub[j] < sub[k]

\* What the diagnostics have after n events: on the stack braces without partner, all
\* of them until the depth was exceeded for the first time; in I the findings that are
\* settled, all of them until then, and no closing brace since.
MatchedAs(ev, n, acc, I, sub, idx) ==
  /\ Stack(ev, n, idx) /\ Under(ev, n, sub)
  /\ acc.opens = [j \in 1 .. Len(sub) |-> ev[sub[j]]]
  /\ I \subseteq Settled(ev, n) /\ Notes(acc, At(ev, I))
  /\ \A i \in I : ev[i].kind = "close" => \A m \in 1 .. i : ~Over(ev, m)
  /\ acc.saturated => \E m \in 1 .. n : Over(ev, m)
  /\ ~acc.saturated => /\ sub = idx /\ I = Settled(ev, n)
                       /\ \A m \in 1 .. n : ~Over(ev, m)

MatchesTo(ev, n) ==
  {acc \in Matches : \E I, sub, idx : MatchedAs(ev, n, acc, I, sub, idx)}

LEMMA SettledStep ==
  ASSUME NEW ev \in Seq(EventSet), NEW n \in Nat, n + 1 \in DOMAIN ev
  PROVE  /\ Settled(ev, n) \in SUBSET DOMAIN ev /\ n + 1 \notin Settled(ev, n)
         /\ ev[n + 1].kind # "open" /\ (\A p : ~Pair(ev, p, n + 1))
              => Settled(ev, n + 1) = Settled(ev, n) \cup {n + 1}
         /\ ev[n + 1].kind = "open" \/ (\E p : Pair(ev, p, n + 1))
              => Settled(ev, n + 1) = Settled(ev, n)
<1> DEFINE Lone(i) == ev[i].kind # "open" /\ \A p : ~Pair(ev, p, i)
<1>1. /\ Settled(ev, n) = {i \in 1 .. n : Lone(i)}
      /\ Settled(ev, n + 1) = {i \in 1 .. n + 1 : Lone(i)}
  BY DEF Settled
<1>2. 1 .. n + 1 = (1 .. n) \cup {n + 1} /\ n + 1 \notin 1 .. n /\ 1 .. n \subseteq DOMAIN ev
  OBVIOUS
<1>3. Lone(n + 1) <=> (ev[n + 1].kind # "open" /\ \A p : ~Pair(ev, p, n + 1))
  OBVIOUS
<1> HIDE DEF Lone
<1>4. Lone(n + 1) => Settled(ev, n + 1) = Settled(ev, n) \cup {n + 1}
  BY <1>1, <1>2
<1>5. ~Lone(n + 1) => Settled(ev, n + 1) = Settled(ev, n)
  BY <1>1, <1>2
<1>6. Settled(ev, n) \in SUBSET DOMAIN ev /\ n + 1 \notin Settled(ev, n)
  BY <1>1, <1>2
<1> QED BY <1>3, <1>4, <1>5, <1>6

LEMMA UnderStack ==
  ASSUME NEW ev, NEW n, NEW idx, Stack(ev, n, idx)
  PROVE  Under(ev, n, idx)
BY DEF Stack, Under

LEMMA UnderStays ==
  ASSUME NEW ev, NEW n \in Nat, NEW sub, Under(ev, n, sub),
         \A j \in DOMAIN sub : sub[j] \in Alive(ev, n + 1)
  PROVE  Under(ev, n + 1, sub)
<1>1. 1 .. n \subseteq 1 .. n + 1
  OBVIOUS
<1>2. sub \in Seq(1 .. n + 1)
  BY <1>1, SeqMonotonic DEF Under
<1> QED BY <1>2 DEF Under

LEMMA UnderOpen ==
  ASSUME NEW ev \in Seq(EventSet), NEW n \in Nat, n + 1 \in DOMAIN ev, NEW sub,
         Under(ev, n, sub), ev[n + 1].kind = "open"
  PROVE  Under(ev, n + 1, sub) /\ Under(ev, n + 1, Append(sub, n + 1))
<1>1. Alive(ev, n + 1) = Alive(ev, n) \cup {n + 1}
  <2>1. "open" # "close"
    OBVIOUS
  <2>2. \A p : ~Pair(ev, p, n + 1)
    BY <2>1, PairEndsAlive
  <2> QED BY <2>2, AliveStep
<1>2. Under(ev, n + 1, sub)
  BY <1>1, UnderStays DEF Under
<1> DEFINE next == Append(sub, n + 1)
           k == Len(sub)
<1>3. /\ sub \in Seq(1 .. n + 1) /\ k \in Nat /\ DOMAIN sub = 1 .. k
      /\ \A j \in 1 .. k : sub[j] \in 1 .. n
      /\ \A j, m \in 1 .. k : j < m => sub[j] < sub[m]
      /\ \A j \in 1 .. k : sub[j] \in Alive(ev, n + 1)
  BY <1>2 DEF Under
<1>4. /\ next \in Seq(1 .. n + 1) /\ DOMAIN next = 1 .. k + 1
      /\ \A j \in 1 .. k : next[j] = sub[j]
      /\ next[k + 1] = n + 1
  <2>1. n + 1 \in 1 .. n + 1
    OBVIOUS
  <2> QED BY <1>3, <2>1
<1> HIDE DEF next, k
<1>5. \A j \in 1 .. k + 1 : j \in 1 .. k \/ j = k + 1
  BY <1>3
<1>6. \A j \in 1 .. k + 1 : next[j] \in Alive(ev, n + 1)
  BY <1>1, <1>3, <1>4, <1>5
<1>7. ASSUME NEW j \in 1 .. k + 1, NEW m \in 1 .. k + 1, j < m PROVE next[j] < next[m]
  <2>1. j \in 1 .. k
    BY <1>3, <1>7
  <2>2. CASE m \in 1 .. k
    BY <1>3, <1>4, <1>7, <2>1, <2>2
  <2>3. CASE m = k + 1
    <3>1. sub[j] \in 1 .. n
      BY <1>3, <2>1
    <3> QED BY <1>4, <2>1, <2>3, <3>1
  <2> QED BY <1>5, <2>2, <2>3
<1>8. Under(ev, n + 1, next)
  BY <1>4, <1>6, <1>7 DEF Under
<1> QED BY <1>2, <1>8 DEF next

\* A closing brace takes the brace on top of all; the others below the top of sub
\* stay without partner.
LEMMA UnderClose ==
  ASSUME NEW ev \in Seq(EventSet), NEW n \in Nat, n + 1 \in DOMAIN ev, NEW idx,
         Stack(ev, n, idx), NEW sub, Under(ev, n, sub),
         ev[n + 1].kind = "close", sub # <<>>
  PROVE  idx # <<>> /\ Under(ev, n + 1, Front(sub))
<1> DEFINE next == Front(sub)
           k == Len(sub)
           t == Len(idx)
<1>1. /\ sub \in Seq(1 .. n) /\ k \in Nat \ {0} /\ DOMAIN sub = 1 .. k
      /\ \A j \in 1 .. k : sub[j] \in Alive(ev, n) /\ sub[j] \in 1 .. n
      /\ \A j, m \in 1 .. k : j < m => sub[j] < sub[m]
  BY DEF Under
<1>2. /\ idx \in Seq(1 .. n) /\ t \in Nat /\ DOMAIN idx = 1 .. t
      /\ \A p \in Alive(ev, n) : \E j \in 1 .. t : idx[j] = p
      /\ \A j, m \in 1 .. t : j < m => idx[j] < idx[m]
      /\ \A j \in 1 .. t : idx[j] \in 1 .. n
  <2>1. /\ idx \in Seq(1 .. n)
        /\ \A p \in Alive(ev, n) : \E j \in DOMAIN idx : idx[j] = p
        /\ \A j, m \in DOMAIN idx : j < m => idx[j] < idx[m]
    BY DEF Stack
  <2>2. t \in Nat /\ DOMAIN idx = 1 .. t /\ \A j \in 1 .. t : idx[j] \in 1 .. n
    BY <2>1
  <2> HIDE DEF t
  <2> QED BY <2>1, <2>2
<1> HIDE DEF next, k, t
<1>3. k \in 1 .. k
  BY <1>1
<1>4. PICK top \in 1 .. t : idx[top] = sub[k]
  BY <1>1, <1>2, <1>3
<1>5. idx # <<>>
  BY <1>4 DEF t
<1>6. Last(idx) = idx[t] /\ t \in 1 .. t
  BY <1>2, <1>4 DEF Last, t
<1>7. \A j \in 1 .. k - 1 : sub[j] < idx[t]
  <2> TAKE j \in 1 .. k - 1
  <2>1. j \in 1 .. k /\ j < k
    BY <1>1
  <2>2. sub[j] < sub[k]
    BY <1>1, <1>3, <2>1
  <2>3. top = t \/ top < t
    BY <1>2, <1>4
  <2>4. idx[top] = idx[t] \/ idx[top] < idx[t]
    BY <1>2, <1>6, <2>3
  <2>5. sub[j] \in Int /\ sub[k] \in Int /\ idx[t] \in Int
    <3>1. sub[j] \in 1 .. n /\ sub[k] \in 1 .. n /\ idx[t] \in 1 .. n
      BY <1>1, <1>2, <1>3, <1>6, <2>1
    <3> QED BY <3>1
  <2> QED BY <1>4, <2>2, <2>4, <2>5
<1>8. \A p : Pair(ev, p, n + 1) <=> p = idx[t]
  <2>1. \A p : Pair(ev, p, n + 1) <=> p = Last(idx)
    BY <1>5, StackClose
  <2> QED BY <1>6, <2>1
<1>9. Alive(ev, n + 1) = Alive(ev, n) \ {idx[t]}
  <2>1. ev[n + 1].kind # "open"
    OBVIOUS
  <2>2. Alive(ev, n + 1) = {p \in Alive(ev, n) : ~Pair(ev, p, n + 1)} \cup {}
    BY <2>1, AliveStep
  <2>3. {p \in Alive(ev, n) : ~Pair(ev, p, n + 1)} = Alive(ev, n) \ {idx[t]}
    BY <1>8
  <2> QED BY <2>2, <2>3
<1>10. \A j \in 1 .. k - 1 : j \in 1 .. k /\ sub[j] \in Alive(ev, n + 1)
  <2> TAKE j \in 1 .. k - 1
  <2>1. j \in 1 .. k
    BY <1>1
  <2>2. sub[j] # idx[t]
    <3>1. sub[j] \in 1 .. n /\ sub[j] < idx[t]
      BY <1>1, <1>7, <2>1
    <3> QED BY <3>1
  <2> QED BY <1>1, <1>9, <2>1, <2>2
<1>11. /\ next \in Seq(1 .. n + 1) /\ DOMAIN next = 1 .. k - 1
       /\ \A j \in 1 .. k - 1 : next[j] = sub[j]
  <2>1. next = [j \in 1 .. k - 1 |-> sub[j]]
    BY DEF Front, next, k
  <2>2. \A j \in 1 .. k - 1 : sub[j] \in 1 .. n + 1
    BY <1>1
  <2>3. k - 1 \in Nat
    BY <1>1
  <2> QED BY <2>1, <2>2, <2>3
<1>12. \A j, m \in 1 .. k - 1 : j < m => next[j] < next[m]
  BY <1>1, <1>10, <1>11
<1>13. Under(ev, n + 1, next)
  BY <1>10, <1>11, <1>12 DEF Under
<1> QED BY <1>5, <1>13 DEF next

LEMMA MatchedKeeps ==
  ASSUME NEW ev \in Seq(EventSet), Ordered(ev), NEW n \in Nat, n + 1 \in DOMAIN ev,
         NEW acc \in MatchesTo(ev, n)
  PROVE  Matched(acc, ev[n + 1]) \in MatchesTo(ev, n + 1)
<1> DEFINE e == ev[n + 1]
<1>1. PICK I, sub, idx : MatchedAs(ev, n, acc, I, sub, idx)
  BY DEF MatchesTo
<1>2. /\ acc \in Matches /\ Notes(acc, At(ev, I))
      /\ acc.opens \in Seq(EventSet) /\ acc.saturated \in BOOLEAN
      /\ acc = [opens |-> acc.opens, kept |-> acc.kept, n |-> acc.n, saturated |-> acc.saturated]
  BY <1>1 DEF MatchesTo, Matches, MatchedAs
<1>3. /\ Stack(ev, n, idx) /\ Under(ev, n, sub)
      /\ acc.opens = [j \in 1 .. Len(sub) |-> ev[sub[j]]]
      /\ I \subseteq Settled(ev, n)
      /\ \A i \in I : ev[i].kind = "close" => \A m \in 1 .. i : ~Over(ev, m)
      /\ acc.saturated => \E m \in 1 .. n : Over(ev, m)
      /\ ~acc.saturated => /\ sub = idx /\ I = Settled(ev, n)
                           /\ \A m \in 1 .. n : ~Over(ev, m)
  BY <1>1 DEF MatchedAs
<1>4. e \in EventSet /\ e.kind \in {"open", "close", "string"}
  <2>1. e \in EventSet
    OBVIOUS
  <2> QED BY <2>1 DEF EventSet
<1>5. /\ Settled(ev, n) \in SUBSET DOMAIN ev /\ n + 1 \notin Settled(ev, n)
      /\ e.kind # "open" /\ (\A p : ~Pair(ev, p, n + 1))
           => Settled(ev, n + 1) = Settled(ev, n) \cup {n + 1}
      /\ e.kind = "open" \/ (\E p : Pair(ev, p, n + 1)) => Settled(ev, n + 1) = Settled(ev, n)
  BY SettledStep
<1>6. Settled(ev, n) \subseteq Settled(ev, n + 1)
  <2>1. Settled(ev, n + 1) = Settled(ev, n) \cup {n + 1} \/ Settled(ev, n + 1) = Settled(ev, n)
    BY <1>5
  <2> QED BY <2>1
<1>7. /\ sub \in Seq(1 .. n) /\ Len(sub) \in Nat /\ DOMAIN sub = 1 .. Len(sub)
      /\ Len(acc.opens) = Len(sub) /\ (acc.opens = <<>> <=> sub = <<>>)
  <2>1. sub \in Seq(1 .. n)
    BY <1>3 DEF Under
  <2> DEFINE a == acc.opens
             k == Len(sub)
  <2>2. k \in Nat /\ DOMAIN sub = 1 .. k /\ (sub = <<>> <=> k = 0)
    BY <2>1
  <2>3. a \in Seq(EventSet) /\ DOMAIN a = 1 .. k
    BY <1>2, <1>3
  <2> HIDE DEF a, k
  <2>4. Len(a) = k /\ (a = <<>> <=> Len(a) = 0)
    BY <2>2, <2>3
  <2> QED BY <2>1, <2>2, <2>4 DEF a, k
<1>8. 1 .. n + 1 = (1 .. n) \cup {n + 1}
  OBVIOUS
<1>9. e.kind # "open" => ~Over(ev, n + 1)
  BY DEF Over
<1>10. CASE e.kind = "open"
  <2> DEFINE more == Append(idx, n + 1)
  <2>1. Stack(ev, n + 1, more) /\ Settled(ev, n + 1) = Settled(ev, n)
    BY <1>3, <1>5, <1>10, StackOpen
  <2>2. Under(ev, n + 1, sub) /\ Under(ev, n + 1, Append(sub, n + 1))
    BY <1>3, <1>10, UnderOpen
  <2>3. ~acc.saturated => (Len(sub) < MaxBraceDepth <=> ~Over(ev, n + 1))
    BY <1>3, <1>10, StackRoom
  <2> HIDE DEF more
  <2>4. CASE Len(acc.opens) < MaxBraceDepth
    <3> DEFINE next == [acc EXCEPT !.opens = Append(@, e)]
               top == Append(sub, n + 1)
    <3>1. Matched(acc, e) = next
      BY <1>10, <2>4 DEF Matched
    <3>2. /\ next \in Matches /\ next.saturated = acc.saturated
          /\ next.opens = Append(acc.opens, e) /\ next.kept = acc.kept /\ next.n = acc.n
      <4> DEFINE a == Append(acc.opens, e)
      <4>1. a \in Seq(EventSet)
        BY <1>2, <1>4
      <4> HIDE DEF a, e
      <4>2. [acc EXCEPT !.opens = a]
              = [opens |-> a, kept |-> acc.kept, n |-> acc.n, saturated |-> acc.saturated]
        BY <1>2
      <4>3. next = [opens |-> a, kept |-> acc.kept, n |-> acc.n, saturated |-> acc.saturated]
        BY <4>2 DEF a
      <4> HIDE DEF next
      <4> QED BY <1>2, <4>1, <4>3 DEF Matches, a
    <3>3. Append(acc.opens, e) = [j \in 1 .. Len(top) |-> ev[top[j]]]
      <4>1. /\ Len(top) = Len(sub) + 1 /\ top[Len(sub) + 1] = n + 1
            /\ \A j \in 1 .. Len(sub) : top[j] = sub[j]
        BY <1>7
      <4> HIDE DEF e, top
      <4> DEFINE a == Append(acc.opens, e)
                 b == [j \in 1 .. Len(sub) + 1 |-> ev[top[j]]]
      <4>2. /\ a \in Seq(EventSet) /\ Len(a) = Len(sub) + 1 /\ a[Len(sub) + 1] = e
            /\ \A j \in 1 .. Len(sub) : a[j] = acc.opens[j]
        <5> DEFINE o == acc.opens
                   k == Len(sub)
        <5>1. o \in Seq(EventSet) /\ Len(o) = k /\ e \in EventSet /\ k \in Nat
          BY <1>2, <1>4, <1>7
        <5> HIDE DEF o, k
        <5>2. /\ Append(o, e) \in Seq(EventSet) /\ Len(Append(o, e)) = k + 1
              /\ Append(o, e)[k + 1] = e /\ \A j \in 1 .. k : Append(o, e)[j] = o[j]
          BY <5>1
        <5> QED BY <5>2 DEF o, k
      <4>3. \A j \in 1 .. Len(sub) : acc.opens[j] = ev[sub[j]]
        BY <1>3
      <4>4. \A j \in 1 .. Len(sub) + 1 : j \in 1 .. Len(sub) \/ j = Len(sub) + 1
        BY <1>7
      <4> HIDE DEF a
      <4>5. \A j \in 1 .. Len(sub) + 1 : a[j] = ev[top[j]]
        BY <4>1, <4>2, <4>3, <4>4 DEF e
      <4>6. a = [j \in 1 .. Len(sub) + 1 |-> a[j]]
        BY <1>7, <4>2
      <4>7. a = b
        BY <4>5, <4>6
      <4> QED BY <4>1, <4>7 DEF a
    <3>4. ~acc.saturated => top = more /\ \A m \in 1 .. n + 1 : ~Over(ev, m)
      BY <1>3, <1>7, <1>8, <2>3, <2>4 DEF more
    <3>5. Under(ev, n + 1, top)
      BY <2>2
    <3> HIDE DEF next, top, e
    <3>6. Notes(next, At(ev, I))
      BY <1>2, <3>2 DEF Notes
    <3>7. MatchedAs(ev, n + 1, next, I, top, more)
      BY <1>3, <1>8, <2>1, <3>2, <3>3, <3>4, <3>5, <3>6 DEF MatchedAs
    <3> QED BY <3>1, <3>2, <3>7 DEF MatchesTo, e
  <2>5. CASE ~(Len(acc.opens) < MaxBraceDepth)
    <3> DEFINE next == [acc EXCEPT !.saturated = TRUE]
    <3>1. Matched(acc, e) = next
      BY <1>10, <2>5 DEF Matched
    <3>2. /\ next \in Matches /\ next.saturated = TRUE
          /\ next.opens = acc.opens /\ next.kept = acc.kept /\ next.n = acc.n
      BY <1>2 DEF Matches
    <3>3. \E m \in 1 .. n + 1 : Over(ev, m)
      BY <1>2, <1>3, <1>7, <1>8, <2>3, <2>5
    <3> HIDE DEF next, e
    <3>4. Notes(next, At(ev, I))
      BY <1>2, <3>2 DEF Notes
    <3>5. MatchedAs(ev, n + 1, next, I, sub, more)
      BY <1>3, <2>1, <2>2, <3>2, <3>3, <3>4 DEF MatchedAs
    <3> QED BY <3>1, <3>2, <3>5 DEF MatchesTo, e
  <2> QED BY <2>4, <2>5
<1>11. CASE e.kind = "close" /\ acc.opens # <<>>
  <2> DEFINE next == [acc EXCEPT !.opens = Front(@)]
             less == Front(sub)
  <2>1. sub # <<>>
    BY <1>7, <1>11
  <2>2. idx # <<>> /\ Under(ev, n + 1, less)
    BY <1>3, <1>11, <2>1, UnderClose
  <2>3. Stack(ev, n + 1, Front(idx)) /\ \A p : Pair(ev, p, n + 1) <=> p = Last(idx)
    BY <1>3, <1>11, <2>2, StackClose
  <2>4. Settled(ev, n + 1) = Settled(ev, n)
    BY <1>5, <2>3
  <2>5. Matched(acc, e) = next
    BY <1>11 DEF Matched
  <2>6. /\ Len(less) = Len(sub) - 1 /\ less = [j \in 1 .. Len(sub) - 1 |-> sub[j]]
        /\ Front(acc.opens) = [j \in 1 .. Len(sub) - 1 |-> acc.opens[j]]
        /\ Front(acc.opens) \in Seq(EventSet)
    BY <1>2, <1>7, <2>1 DEF Front
  <2>7. Front(acc.opens) = [j \in 1 .. Len(less) |-> ev[less[j]]]
    <3>1. \A j \in 1 .. Len(sub) - 1 : acc.opens[j] = ev[sub[j]] /\ less[j] = sub[j]
      <4>1. \A j \in 1 .. Len(sub) - 1 : j \in 1 .. Len(sub)
        BY <1>7
      <4>2. \A j \in 1 .. Len(sub) - 1 : less[j] = sub[j]
        BY <2>6
      <4> HIDE DEF less
      <4> QED BY <1>3, <4>1, <4>2
    <3> HIDE DEF less
    <3> QED BY <2>6, <3>1
  <2>8. /\ next \in Matches /\ next.saturated = acc.saturated /\ next.opens = Front(acc.opens)
        /\ next.kept = acc.kept /\ next.n = acc.n
    BY <1>2, <2>6 DEF Matches
  <2>9. ~acc.saturated => less = Front(idx) /\ \A m \in 1 .. n + 1 : ~Over(ev, m)
    BY <1>3, <1>8, <1>9, <1>11
  <2>10. acc.saturated => \E m \in 1 .. n + 1 : Over(ev, m)
    BY <1>3, <1>8
  <2> DEFINE below == Front(idx)
  <2>11. Stack(ev, n + 1, below) /\ (~acc.saturated => less = below)
    BY <2>3, <2>9
  <2> HIDE DEF next, less, below, e
  <2>12. Notes(next, At(ev, I))
    BY <1>2, <2>8 DEF Notes
  <2>13. MatchedAs(ev, n + 1, next, I, less, below)
    BY <1>3, <2>2, <2>4, <2>7, <2>8, <2>9, <2>10, <2>11, <2>12 DEF MatchedAs
  <2> QED BY <2>5, <2>8, <2>13 DEF MatchesTo, e
<1>12. CASE e.kind = "close" /\ acc.opens = <<>> /\ acc.saturated
  <2>1. Matched(acc, e) = acc
    BY <1>12 DEF Matched
  <2>2. \E more : Stack(ev, n + 1, more)
    <3>1. CASE idx = <<>>
      BY <1>3, <1>12, <3>1, StackStays
    <3>2. CASE idx # <<>>
      BY <1>3, <1>12, <3>2, StackClose
    <3> QED BY <3>1, <3>2
  <2>3. PICK more : Stack(ev, n + 1, more)
    BY <2>2
  <2>4. sub = <<>> /\ Under(ev, n + 1, sub)
    <3>1. sub = <<>>
      BY <1>7, <1>12
    <3>2. DOMAIN sub = {}
      BY <3>1
    <3> QED BY <1>3, <3>1, <3>2, UnderStays
  <2>5. I \subseteq Settled(ev, n + 1) /\ \E m \in 1 .. n + 1 : Over(ev, m)
    BY <1>3, <1>6, <1>8, <1>12
  <2>6. MatchedAs(ev, n + 1, acc, I, sub, more)
    BY <1>2, <1>3, <1>12, <2>3, <2>4, <2>5 DEF MatchedAs
  <2> QED BY <1>2, <2>1, <2>6 DEF MatchesTo
<1>13. CASE e.kind = "string" \/ (e.kind = "close" /\ acc.opens = <<>> /\ ~acc.saturated)
  <2> DEFINE next == Noted(acc, e)
  <2>1. Stack(ev, n + 1, idx) /\ \A p : ~Pair(ev, p, n + 1)
    BY <1>3, <1>7, <1>13, StackStays
  <2>2. Settled(ev, n + 1) = Settled(ev, n) \cup {n + 1}
    BY <1>5, <1>13, <2>1
  <2>3. Matched(acc, e) = next
    BY <1>13 DEF Matched
  <2>4. I \in SUBSET DOMAIN ev /\ n + 1 \in DOMAIN ev \ I
    BY <1>3, <1>5
  <2>5. /\ next \in Matches /\ next.opens = acc.opens /\ next.saturated = acc.saturated
        /\ Notes(next, At(ev, I \cup {n + 1}))
    BY <1>2, <2>4, NotedKeeps
  <2>6. Under(ev, n + 1, sub)
    <3>1. Alive(ev, n + 1) = Alive(ev, n)
      BY <1>13, <2>1, AliveStep
    <3> QED BY <1>3, <3>1, UnderStays DEF Under
  <2>7. ~Over(ev, n + 1)
    BY <1>9, <1>13
  <2>8. /\ acc.saturated => \E m \in 1 .. n + 1 : Over(ev, m)
        /\ ~acc.saturated => \A m \in 1 .. n + 1 : ~Over(ev, m)
    BY <1>3, <1>8, <2>7
  <2>9. ev[n + 1].kind = "close" => \A m \in 1 .. n + 1 : ~Over(ev, m)
    BY <1>13, <2>8
  <2> HIDE DEF next, e
  <2>10. MatchedAs(ev, n + 1, next, I \cup {n + 1}, sub, idx)
    BY <1>3, <2>1, <2>2, <2>5, <2>6, <2>8, <2>9 DEF MatchedAs
  <2> QED BY <2>3, <2>5, <2>10 DEF MatchesTo, e
<1> QED BY <1>2, <1>4, <1>10, <1>11, <1>12, <1>13

\* What the matching of all events has
MatchedAll(ev) ==
  LET matched[n \in 0 .. Len(ev)] ==
        IF n = 0 THEN [opens |-> <<>>, kept |-> <<>>, n |-> 0, saturated |-> FALSE]
                 ELSE Matched(matched[n - 1], ev[n])
  IN  matched[Len(ev)]

\* What the braces left on the stack add
ClosedAll(acc) ==
  LET closed[n \in 0 .. Len(acc.opens)] ==
        IF n = 0 THEN acc
                 ELSE Noted(closed[n - 1], acc.opens[Len(acc.opens) - n + 1])
  IN  closed[Len(acc.opens)]

LEMMA MatchesAll ==
  ASSUME NEW ev \in Seq(EventSet), Ordered(ev)
  PROVE  MatchedAll(ev) \in MatchesTo(ev, Len(ev))
<1> DEFINE n == Len(ev)
           start == [opens |-> <<>>, kept |-> <<>>, n |-> 0, saturated |-> FALSE]
           S == [i \in 0 .. n |-> MatchesTo(ev, i)]
           step == [i \in 1 .. n |-> [x \in MatchesTo(ev, i - 1) |-> Matched(x, ev[i])]]
           Runs(g) == g = [i \in 0 .. n |-> IF i = 0 THEN start ELSE Matched(g[i - 1], ev[i])]
           matched == CHOOSE g : Runs(g)
<1>1. n \in Nat /\ start \in MatchesTo(ev, 0)
  <2>1. n \in Nat
    OBVIOUS
  <2>2. start \in Matches /\ start.kept = <<>> /\ start.n = 0
        /\ start.saturated = FALSE /\ start.opens = <<>>
    BY DEF Matches
  <2> HIDE DEF start
  <2>3. Stack(ev, 0, <<>>) /\ <<>> = [j \in 1 .. Len(<<>>) |-> ev[<<>>[j]]]
    BY StackEmpty
  <2>4. At(ev, Settled(ev, 0)) = {}
    BY DEF At, Settled
  <2>5. Notes(start, At(ev, Settled(ev, 0)))
    BY <2>2, <2>4, RecordedNothing, FS_EmptySet DEF Notes
  <2>6. start \in MatchesTo(ev, 0)
    <3>1. Settled(ev, 0) = {} /\ 1 .. 0 = {}
      BY DEF Settled
    <3>2. MatchedAs(ev, 0, start, {}, <<>>, <<>>)
      BY <2>2, <2>3, <2>5, <3>1, UnderStack DEF MatchedAs
    <3> QED BY <2>2, <3>2 DEF MatchesTo
  <2> QED BY <2>1, <2>6
<1>2. ASSUME NEW i \in 1 .. n, NEW x \in MatchesTo(ev, i - 1)
      PROVE  Matched(x, ev[i]) \in MatchesTo(ev, i)
  <2>1. i - 1 \in Nat /\ i - 1 + 1 = i /\ i \in DOMAIN ev
    OBVIOUS
  <2> DEFINE k == i - 1
  <2>2. k \in Nat /\ k + 1 \in DOMAIN ev /\ x \in MatchesTo(ev, k) /\ k + 1 = i
    BY <2>1
  <2> HIDE DEF k
  <2>3. Matched(x, ev[k + 1]) \in MatchesTo(ev, k + 1)
    BY <2>2, MatchedKeeps
  <2> QED BY <2>2, <2>3
<1>3. \A i \in 0 .. n : S[i] = MatchesTo(ev, i)
  OBVIOUS
<1>4. \A i \in 1 .. n : \A x \in MatchesTo(ev, i - 1) : step[i][x] = Matched(x, ev[i])
  OBVIOUS
<1>5. MatchedAll(ev) = matched[n]
  BY DEF MatchedAll
<1> HIDE DEF n, S, start, step, matched
<1>6. \A i \in 1 .. n : i - 1 \in 0 .. n /\ i \in 0 .. n /\ i # 0
  BY <1>1
<1>7. PICK f : Unfolds(f, n, S, start, step)
  <2>1. start \in S[0]
    BY <1>1, <1>3
  <2>2. \A i \in 1 .. n : \A x \in S[i - 1] : step[i][x] \in S[i]
    BY <1>2, <1>3, <1>4, <1>6
  <2> QED BY <1>1, <2>1, <2>2, Recursion
<1>8. /\ f = [i \in 0 .. n |-> f[i]] /\ f[0] = start
      /\ \A i \in 1 .. n : f[i - 1] \in S[i - 1] /\ f[i] = step[i][f[i - 1]]
  BY <1>7 DEF Unfolds
<1>9. Runs(f)
  <2>1. ASSUME NEW i \in 0 .. n
        PROVE  f[i] = IF i = 0 THEN start ELSE Matched(f[i - 1], ev[i])
    <3>1. CASE i = 0
      BY <1>8, <3>1
    <3>2. CASE i # 0
      <4>1. i \in 1 .. n
        BY <1>1, <3>2
      <4>2. f[i] = step[i][f[i - 1]] /\ f[i - 1] \in MatchesTo(ev, i - 1)
        BY <1>3, <1>6, <1>8, <4>1
      <4> QED BY <1>4, <3>2, <4>1, <4>2
    <3> QED BY <3>1, <3>2
  <2> QED BY <1>8, <2>1
<1>10. Runs(matched)
  <2> HIDE DEF Runs
  <2> QED BY <1>9 DEF matched
<1>11. /\ matched[0] = start
       /\ \A i \in 1 .. n : matched[i] = Matched(matched[i - 1], ev[i])
  <2>1. 0 \in 0 .. n
    BY <1>1
  <2>2. \A i \in 0 .. n : matched[i] = IF i = 0 THEN start ELSE Matched(matched[i - 1], ev[i])
    BY <1>10
  <2> HIDE DEF Runs
  <2> QED BY <1>6, <2>1, <2>2
<1> HIDE DEF Runs
<1>12. \A i \in 0 .. n : matched[i] \in MatchesTo(ev, i)
  <2>1. ASSUME NEW i \in 1 .. n, matched[i - 1] \in S[i - 1] PROVE matched[i] \in S[i]
    <3>1. matched[i] = Matched(matched[i - 1], ev[i]) /\ matched[i - 1] \in MatchesTo(ev, i - 1)
      BY <1>3, <1>6, <1>11, <2>1
    <3>2. matched[i] \in MatchesTo(ev, i)
      BY <1>2, <3>1
    <3> QED BY <1>3, <1>6, <3>2
  <2>0. matched[0] \in S[0]
    BY <1>1, <1>3, <1>11
  <2>2. \A i \in 0 .. n : matched[i] \in S[i]
    BY <1>1, <2>0, <2>1, StaysIn
  <2> QED BY <1>3, <2>2
<1> QED
  <2>1. n \in 0 .. n
    BY <1>1
  <2>2. matched[n] \in MatchesTo(ev, n)
    BY <1>12, <2>1
  <2> QED BY <1>5, <2>2 DEF n

\* The last k entries of idx
Above(idx, k) == {idx[j] : j \in Len(idx) - k + 1 .. Len(idx)}

ClosesTo(ev, I, idx, k) == {x \in Matches : Notes(x, At(ev, I \cup Above(idx, k)))}

LEMMA ClosesAll ==
  ASSUME NEW ev \in Seq(EventSet), Ordered(ev), NEW I \in SUBSET DOMAIN ev,
         NEW idx \in Seq(DOMAIN ev), \A j, k \in DOMAIN idx : j < k => idx[j] < idx[k],
         \A j \in DOMAIN idx : idx[j] \notin I,
         NEW acc \in Matches, Notes(acc, At(ev, I)),
         acc.opens = [j \in 1 .. Len(idx) |-> ev[idx[j]]]
  PROVE  Notes(ClosedAll(acc), At(ev, I \cup {idx[j] : j \in DOMAIN idx}))
<1> DEFINE n == Len(acc.opens)
           start == acc
           S == [i \in 0 .. n |-> ClosesTo(ev, I, idx, i)]
           step == [i \in 1 .. n |-> [x \in ClosesTo(ev, I, idx, i - 1) |->
                                        Noted(x, acc.opens[n - i + 1])]]
           Runs(g) == g = [i \in 0 .. n |-> IF i = 0 THEN start
                                            ELSE Noted(g[i - 1], acc.opens[n - i + 1])]
           closed == CHOOSE g : Runs(g)
<1>0. /\ n \in Nat /\ DOMAIN idx = 1 .. n
      /\ \A i \in 1 .. n : idx[i] \in DOMAIN ev /\ idx[i] \in Int
      /\ \A i \in 1 .. n : acc.opens[i] = ev[idx[i]]
      /\ Len(idx) = n
  <2> DEFINE m == Len(idx)
  <2>1. m \in Nat /\ DOMAIN idx = 1 .. m
    OBVIOUS
  <2>2. \A i \in 1 .. m : idx[i] \in DOMAIN ev
    OBVIOUS
  <2>3. \A i \in DOMAIN ev : i \in Int
    OBVIOUS
  <2> DEFINE a == acc.opens
  <2>4. a \in Seq(EventSet) /\ DOMAIN a = 1 .. m /\ \A i \in 1 .. m : a[i] = ev[idx[i]]
    BY DEF Matches
  <2> HIDE DEF a, m
  <2>5. Len(a) = m
    BY <2>1, <2>4
  <2>6. n = m
    BY <2>5 DEF a
  <2> HIDE DEF n
  <2> QED BY <2>1, <2>2, <2>3, <2>4, <2>6 DEF a, m
<1>1. n \in Nat /\ start \in ClosesTo(ev, I, idx, 0)
  <2>1. Above(idx, 0) = {}
    BY <1>0 DEF Above
  <2>2. I \cup Above(idx, 0) = I
    BY <2>1
  <2> QED BY <1>0, <2>2 DEF ClosesTo
<1>2. ASSUME NEW i \in 1 .. n, NEW x \in ClosesTo(ev, I, idx, i - 1)
      PROVE  Noted(x, acc.opens[n - i + 1]) \in ClosesTo(ev, I, idx, i)
  <2> DEFINE k == n - i + 1
             B == I \cup Above(idx, i - 1)
  <2>1. k \in 1 .. n /\ acc.opens[k] = ev[idx[k]] /\ idx[k] \in DOMAIN ev
    BY <1>0
  <2>2. n - (i - 1) + 1 = k + 1 /\ n - i + 1 = k
    BY <1>0
  <2> HIDE DEF k
  <2>3. Above(idx, i - 1) = {idx[j] : j \in k + 1 .. n} /\ Above(idx, i) = {idx[j] : j \in k .. n}
    <3>1. /\ Above(idx, i - 1) = {idx[j] : j \in Len(idx) - (i - 1) + 1 .. Len(idx)}
          /\ Above(idx, i) = {idx[j] : j \in Len(idx) - i + 1 .. Len(idx)}
      BY Zenon DEF Above
    <3>2. Len(idx) = n
      BY <1>0
    <3> HIDE DEF n
    <3> QED BY <2>2, <3>1, <3>2, Zenon
  <2>4. k .. n = {k} \cup (k + 1 .. n) /\ k + 1 .. n \subseteq 1 .. n /\ k .. n \subseteq 1 .. n
        /\ \A j \in k + 1 .. n : k < j
    BY <1>0, <2>1
  <2>5. I \cup Above(idx, i) = B \cup {idx[k]}
    <3>1. {idx[j] : j \in k .. n} = {idx[k]} \cup {idx[j] : j \in k + 1 .. n}
      <4> DEFINE U == k .. n
                 V == k + 1 .. n
      <4>1. U = {k} \cup V
        BY <2>4
      <4> HIDE DEF U, V
      <4>2. {idx[j] : j \in U} = {idx[k]} \cup {idx[j] : j \in V}
        BY <4>1
      <4> QED BY <4>2 DEF U, V
    <3>2. Above(idx, i) = {idx[k]} \cup Above(idx, i - 1)
      BY <2>3, <3>1, Zenon
    <3> QED BY <3>2
  <2>6. B \in SUBSET DOMAIN ev
    BY <1>0, <2>3, <2>4
  <2>7. idx[k] \notin B
    <3>1. idx[k] \notin I
      BY <1>0, <2>1
    <3>2. \A j \in k + 1 .. n : idx[k] < idx[j] /\ idx[k] \in Int /\ idx[j] \in Int
      BY <1>0, <2>1, <2>4
    <3>3. \A j \in k + 1 .. n : idx[k] # idx[j]
      BY <3>2
    <3> QED BY <2>3, <3>1, <3>3
  <2>8. x \in Matches /\ Notes(x, At(ev, B))
    BY DEF ClosesTo
  <2> HIDE DEF B
  <2>9. idx[k] \in DOMAIN ev \ B
    BY <2>1, <2>7
  <2> DEFINE p == idx[k]
  <2>10. p \in DOMAIN ev \ B
    BY <2>9
  <2> HIDE DEF p
  <2>11. Noted(x, ev[p]) \in Matches /\ Notes(Noted(x, ev[p]), At(ev, B \cup {p}))
    BY <2>6, <2>8, <2>10, NotedKeeps
  <2>12. acc.opens[n - i + 1] = ev[p]
    BY <2>1, <2>2 DEF p
  <2>13. I \cup Above(idx, i) = B \cup {p}
    BY <2>5 DEF p
  <2> QED BY <2>11, <2>12, <2>13 DEF ClosesTo
<1>3. \A i \in 0 .. n : S[i] = ClosesTo(ev, I, idx, i)
  OBVIOUS
<1>4. \A i \in 1 .. n : \A x \in ClosesTo(ev, I, idx, i - 1) :
        step[i][x] = Noted(x, acc.opens[n - i + 1])
  OBVIOUS
<1>5. ClosedAll(acc) = closed[n]
  BY DEF ClosedAll
<1> HIDE DEF n, S, start, step, closed
<1>6. \A i \in 1 .. n : i - 1 \in 0 .. n /\ i \in 0 .. n /\ i # 0
  BY <1>1
<1>7. PICK f : Unfolds(f, n, S, start, step)
  <2>1. start \in S[0]
    BY <1>1, <1>3
  <2>2. ASSUME NEW i \in 1 .. n, NEW x \in S[i - 1] PROVE step[i][x] \in S[i]
    <3>1. x \in ClosesTo(ev, I, idx, i - 1)
      BY <1>3, <1>6
    <3>2. step[i][x] = Noted(x, acc.opens[n - i + 1])
      BY <1>4, <3>1
    <3>3. Noted(x, acc.opens[n - i + 1]) \in ClosesTo(ev, I, idx, i)
      BY <1>2, <3>1
    <3> QED BY <1>3, <1>6, <3>2, <3>3
  <2> QED BY <1>1, <2>1, <2>2, Recursion
<1>8. /\ f = [i \in 0 .. n |-> f[i]] /\ f[0] = start
      /\ \A i \in 1 .. n : f[i - 1] \in S[i - 1] /\ f[i] = step[i][f[i - 1]]
  BY <1>7 DEF Unfolds
<1>9. Runs(f)
  <2>1. ASSUME NEW i \in 0 .. n
        PROVE  f[i] = IF i = 0 THEN start ELSE Noted(f[i - 1], acc.opens[n - i + 1])
    <3>1. CASE i = 0
      BY <1>8, <3>1
    <3>2. CASE i # 0
      <4>1. i \in 1 .. n
        BY <1>1, <3>2
      <4>2. f[i] = step[i][f[i - 1]] /\ f[i - 1] \in ClosesTo(ev, I, idx, i - 1)
        BY <1>3, <1>6, <1>8, <4>1
      <4> QED BY <1>4, <3>2, <4>1, <4>2
    <3> QED BY <3>1, <3>2
  <2> QED BY <1>8, <2>1
<1>10. Runs(closed)
  <2> HIDE DEF Runs
  <2> QED BY <1>9 DEF closed
<1>11. /\ closed[0] = start
       /\ \A i \in 1 .. n : closed[i] = Noted(closed[i - 1], acc.opens[n - i + 1])
  <2>1. 0 \in 0 .. n
    BY <1>1
  <2>2. \A i \in 0 .. n : closed[i] = IF i = 0 THEN start ELSE Noted(closed[i - 1], acc.opens[n - i + 1])
    BY <1>10
  <2> HIDE DEF Runs
  <2> QED BY <1>6, <2>1, <2>2
<1> HIDE DEF Runs
<1>12. \A i \in 0 .. n : closed[i] \in ClosesTo(ev, I, idx, i)
  <2>1. ASSUME NEW i \in 1 .. n, closed[i - 1] \in S[i - 1] PROVE closed[i] \in S[i]
    <3>1. closed[i] = Noted(closed[i - 1], acc.opens[n - i + 1]) /\ closed[i - 1] \in ClosesTo(ev, I, idx, i - 1)
      BY <1>3, <1>6, <1>11, <2>1
    <3>2. closed[i] \in ClosesTo(ev, I, idx, i)
      BY <1>2, <3>1
    <3> QED BY <1>3, <1>6, <3>2
  <2>0. closed[0] \in S[0]
    BY <1>1, <1>3, <1>11
  <2>2. \A i \in 0 .. n : closed[i] \in S[i]
    BY <1>1, <2>0, <2>1, StaysIn
  <2> QED BY <1>3, <2>2
<1> QED
  <2>1. n \in 0 .. n /\ n - n + 1 = 1
    BY <1>1
  <2>2. closed[n] \in ClosesTo(ev, I, idx, n)
    BY <1>12, <2>1
  <2>3. Above(idx, n) = {idx[j] : j \in DOMAIN idx}
    BY <1>0, <2>1 DEF Above
  <2> QED BY <1>5, <2>2, <2>3 DEF ClosesTo

\* The places that have no partner in the whole text
Lonely(ev) == {i \in DOMAIN ev : \A p \in Partners(ev) : p[1] # i /\ p[2] # i}

LEMMA LonelyAre ==
  ASSUME NEW ev \in Seq(EventSet)
  PROVE  Lonely(ev) = Settled(ev, Len(ev)) \cup Alive(ev, Len(ev))
<1> DEFINE n == Len(ev)
<1>1. n \in Nat /\ DOMAIN ev = 1 .. n
  OBVIOUS
<1> HIDE DEF n
<1>2. Lonely(ev) = {i \in 1 .. n : \A p, q : Pair(ev, p, q) => p # i /\ q # i}
  <2>1. /\ \A p, q : <<p, q>> \in Partners(ev) <=> Pair(ev, p, q)
        /\ \A x \in Partners(ev) : x = <<x[1], x[2]>> /\ Pair(ev, x[1], x[2])
    BY PartnersArePairs
  <2>2. \A p, q : <<p, q>>[1] = p /\ <<p, q>>[2] = q
    OBVIOUS
  <2>3. ASSUME NEW i
        PROVE  (\A x \in Partners(ev) : x[1] # i /\ x[2] # i)
                 <=> (\A p, q : Pair(ev, p, q) => p # i /\ q # i)
    <3>1. ASSUME \A x \in Partners(ev) : x[1] # i /\ x[2] # i, NEW p, NEW q, Pair(ev, p, q)
          PROVE  p # i /\ q # i
      BY <2>1, <2>2, <3>1
    <3>2. ASSUME \A p, q : Pair(ev, p, q) => p # i /\ q # i, NEW x \in Partners(ev)
          PROVE  x[1] # i /\ x[2] # i
      BY <2>1, <3>2
    <3> QED BY <3>1, <3>2
  <2> QED BY <1>1, <2>3 DEF Lonely
<1>3. \A p, q : Pair(ev, p, q) => /\ ev[p].kind = "open" /\ ev[q].kind = "close"
                                  /\ p \in 1 .. n /\ q \in p .. n
  BY <1>1 DEF Pair
<1>4. Settled(ev, n) = {i \in 1 .. n : ev[i].kind # "open" /\ \A p : ~Pair(ev, p, i)}
  BY DEF Settled
<1>5. Alive(ev, n) = {i \in 1 .. n : ev[i].kind = "open" /\ ~\E q \in i .. n : Pair(ev, i, q)}
  BY DEF Alive
<1>6. ASSUME NEW i \in 1 .. n
      PROVE  (\A p, q : Pair(ev, p, q) => p # i /\ q # i)
               <=> i \in Settled(ev, n) \cup Alive(ev, n)
  <2>1. CASE ev[i].kind = "open"
    BY <1>3, <1>4, <1>5, <2>1
  <2>2. CASE ev[i].kind # "open"
    BY <1>3, <1>4, <1>5, <2>2
  <2> QED BY <2>1, <2>2
<1>7. Settled(ev, n) \cup Alive(ev, n) \subseteq 1 .. n
  BY <1>4, <1>5
<1>8. Lonely(ev) = Settled(ev, n) \cup Alive(ev, n)
  BY <1>2, <1>6, <1>7
<1> QED BY <1>8 DEF n

\* The diagnostics are the earliest of some findings, and count them: of all where the
\* braces are not too deep, and of closing braces only before the depth is exceeded.
LEMMA FindingsAre ==
  ASSUME NEW ev \in Seq(EventSet), Ordered(ev)
  PROVE  \E J \in SUBSET Lonely(ev) :
           /\ ToSet(FindingsOf(ev).kept) =
                {e \in At(ev, J) : Cardinality({f \in At(ev, J) : Before(f, e)}) < MaxFindings}
           /\ FindingsOf(ev).n = Cardinality(At(ev, J))
           /\ \A i \in J : ev[i].kind = "close" => \A m \in 1 .. i : ~Over(ev, m)
           /\ ~Deep(ev) => J = Lonely(ev)
<1> DEFINE n == Len(ev)
           acc == MatchedAll(ev)
<1>1. n \in Nat /\ DOMAIN ev = 1 .. n
  OBVIOUS
<1>2. FindingsOf(ev) = ClosedAll(acc)
  BY DEF FindingsOf, MatchedAll, ClosedAll
<1>3. acc \in MatchesTo(ev, n)
  BY MatchesAll
<1>4. Lonely(ev) = Settled(ev, n) \cup Alive(ev, n)
  BY LonelyAre
<1> HIDE DEF acc, n
<1>5. PICK I, sub, idx : acc \in Matches /\ MatchedAs(ev, n, acc, I, sub, idx)
  BY <1>3 DEF MatchesTo
<1>6. /\ Stack(ev, n, idx) /\ Under(ev, n, sub)
      /\ acc.opens = [j \in 1 .. Len(sub) |-> ev[sub[j]]]
      /\ I \subseteq Settled(ev, n) /\ Notes(acc, At(ev, I))
      /\ \A i \in I : ev[i].kind = "close" => \A m \in 1 .. i : ~Over(ev, m)
      /\ acc.saturated \in BOOLEAN
      /\ acc.saturated => \E m \in 1 .. n : Over(ev, m)
      /\ ~acc.saturated => sub = idx /\ I = Settled(ev, n)
  BY <1>5 DEF MatchedAs, Matches
<1> DEFINE tops == {sub[j] : j \in DOMAIN sub}
           J == I \cup tops
<1>7. /\ sub \in Seq(1 .. n) /\ \A j \in DOMAIN sub : sub[j] \in Alive(ev, n)
      /\ \A j, k \in DOMAIN sub : j < k => sub[j] < sub[k]
  BY <1>6 DEF Under
<1>8. /\ Settled(ev, n) \subseteq DOMAIN ev
      /\ \A p \in Alive(ev, n) : p \notin Settled(ev, n) /\ ev[p].kind = "open"
  BY <1>1 DEF Settled, Alive
<1>9. tops \subseteq Alive(ev, n)
  BY <1>7
<1>10. J \in SUBSET Lonely(ev) /\ I \in SUBSET DOMAIN ev /\ J \in SUBSET DOMAIN ev
  <2>1. Lonely(ev) \subseteq DOMAIN ev
    BY DEF Lonely
  <2> QED BY <1>4, <1>6, <1>8, <1>9, <2>1
<1>11. Notes(ClosedAll(acc), At(ev, J))
  <2>1. \A j \in DOMAIN sub : sub[j] \notin I
    BY <1>6, <1>7, <1>8
  <2>2. sub \in Seq(DOMAIN ev)
    BY <1>1, <1>7
  <2> QED BY <1>5, <1>6, <1>7, <1>10, <2>1, <2>2, ClosesAll
<1>12. \A i \in J : ev[i].kind = "close" => \A m \in 1 .. i : ~Over(ev, m)
  <2>1. \A i \in tops : ev[i].kind # "close"
    BY <1>8, <1>9
  <2> QED BY <1>6, <2>1
<1>13. ~Deep(ev) => J = Lonely(ev)
  <2> SUFFICES ASSUME ~Deep(ev) PROVE J = Lonely(ev)
    OBVIOUS
  <2>1. ~acc.saturated
    BY <1>1, <1>6 DEF Deep
  <2>2. sub = idx /\ I = Settled(ev, n)
    BY <1>6, <2>1
  <2>3. \A p \in Alive(ev, n) : \E j \in DOMAIN idx : idx[j] = p
    BY <1>6 DEF Stack
  <2>4. tops = Alive(ev, n)
    BY <1>9, <2>2, <2>3
  <2> QED BY <1>4, <2>2, <2>4
<1> HIDE DEF J
<1> DEFINE A == At(ev, J)
<1>14. Chain(A)
  BY <1>10, AtChain
<1> HIDE DEF A
<1>15. Recorded(FindingsOf(ev).kept, A) /\ FindingsOf(ev).n = Cardinality(A)
  BY <1>2, <1>11 DEF Notes, A
<1>16. ToSet(FindingsOf(ev).kept) = {e \in A : Cardinality({f \in A : Before(f, e)}) < MaxFindings}
  BY <1>14, <1>15, RecordedEarliest
<1> QED BY <1>10, <1>12, <1>13, <1>15, <1>16 DEF A

-----------------------------------------------------------------------------
(* The regions that fold *)

RegionSet == [start : Nat, end : Nat, kind : {"none", "region"}]
Folds == [opens : Seq(Nat), out : SUBSET RegionSet]

\* The regions of the pairs that end up to n
PairRegions(ev, n) ==
  {r \in RegionSet : \E p, q : /\ Pair(ev, p, q) /\ q <= n /\ ev[p].line < ev[q].line
                               /\ r = Region(ev[p].line, ev[q].line)}

\* What the folding has after n events: the lines of the braces on the stack, and the
\* regions of the pairs.
FoldsTo(ev, n) ==
  {acc \in Folds :
     /\ IsFiniteSet(acc.out)
     /\ ~Deep(ev) =>
          /\ acc.out = PairRegions(ev, n)
          /\ \E idx : Stack(ev, n, idx) /\ acc.opens = [j \in 1 .. Len(idx) |-> ev[idx[j]].line]}

\* The regions of the pairs that end one event later
LEMMA PairRegionsStep ==
  ASSUME NEW ev \in Seq(EventSet), NEW n \in Nat, n + 1 \in DOMAIN ev
  PROVE  /\ (\A p : ~Pair(ev, p, n + 1)) => PairRegions(ev, n + 1) = PairRegions(ev, n)
         /\ \A p : Pair(ev, p, n + 1) /\ (\A o : Pair(ev, o, n + 1) => o = p) =>
              PairRegions(ev, n + 1) =
                PairRegions(ev, n) \cup (IF ev[p].line < ev[n + 1].line
                                           THEN {Region(ev[p].line, ev[n + 1].line)} ELSE {})
<1> DEFINE i == n + 1
           Made(r, p, q) == ev[p].line < ev[q].line /\ r = Region(ev[p].line, ev[q].line)
<1>1. /\ PairRegions(ev, n) = {r \in RegionSet : \E p, q : Pair(ev, p, q) /\ q <= n /\ Made(r, p, q)}
      /\ PairRegions(ev, i) = {r \in RegionSet : \E p, q : Pair(ev, p, q) /\ q <= i /\ Made(r, p, q)}
  BY DEF PairRegions
<1>2. \A p, q : Pair(ev, p, q) => (q <= i <=> q <= n \/ q = i) /\ ~(i <= n)
  <2>1. \A q \in DOMAIN ev : (q <= i <=> q <= n \/ q = i) /\ ~(i <= n)
    OBVIOUS
  <2> QED BY <2>1 DEF Pair
<1>3. \A p : Pair(ev, p, i) => Region(ev[p].line, ev[i].line) \in RegionSet
  <2>1. \A m \in DOMAIN ev : ev[m].line \in Nat
    <3>1. \A m \in DOMAIN ev : ev[m] \in EventSet
      OBVIOUS
    <3> QED BY <3>1 DEF EventSet
  <2>2. \A p : Pair(ev, p, i) => ev[p].line \in Nat /\ ev[i].line \in Nat
    BY <2>1 DEF Pair
  <2> QED BY <2>2 DEF Region, RegionSet
<1>4. ASSUME \A p : ~Pair(ev, p, i) PROVE PairRegions(ev, i) = PairRegions(ev, n)
  <2>1. \A p, q : Pair(ev, p, q) => (q <= i <=> q <= n)
    BY <1>2, <1>4
  <2> HIDE DEF Made, i
  <2> QED BY <1>1, <2>1
<1>5. ASSUME NEW p, Pair(ev, p, i), \A o : Pair(ev, o, i) => o = p
      PROVE  PairRegions(ev, i) =
                PairRegions(ev, n) \cup (IF ev[p].line < ev[i].line
                                           THEN {Region(ev[p].line, ev[i].line)} ELSE {})
  <2> DEFINE more == IF ev[p].line < ev[i].line THEN {Region(ev[p].line, ev[i].line)} ELSE {}
  <2>1. \A r : r \in more <=> Made(r, p, i)
    OBVIOUS
  <2>2. \A r \in more : r \in RegionSet
    BY <1>3, <1>5
  <2> HIDE DEF more, Made, i
  <2>3. ASSUME NEW r \in PairRegions(ev, i) PROVE r \in PairRegions(ev, n) \cup more
    <3>1. PICK o, q : Pair(ev, o, q) /\ q <= i /\ Made(r, o, q)
      BY <1>1
    <3>2. CASE q = i
      BY <1>5, <2>1, <3>1, <3>2
    <3>3. CASE q <= n
      BY <1>1, <3>1, <3>3
    <3> QED BY <1>2, <3>1, <3>2, <3>3
  <2>4. ASSUME NEW r \in PairRegions(ev, n) PROVE r \in PairRegions(ev, i)
    BY <1>1, <1>2
  <2>5. ASSUME NEW r \in more PROVE r \in PairRegions(ev, i)
    <3>1. i <= i
      BY <1>2, <1>5
    <3> QED BY <1>1, <1>5, <2>1, <2>2, <3>1
  <2>6. PairRegions(ev, i) = PairRegions(ev, n) \cup more
    BY <2>3, <2>4, <2>5
  <2> QED BY <2>6 DEF more
<1> QED BY <1>4, <1>5

LEMMA FoldedKeeps ==
  ASSUME NEW ev \in Seq(EventSet), NEW n \in Nat, n + 1 \in DOMAIN ev, NEW acc \in FoldsTo(ev, n)
  PROVE  Folded(acc, ev[n + 1]) \in FoldsTo(ev, n + 1)
<1> DEFINE e == ev[n + 1]
<1>1. /\ acc.opens \in Seq(Nat) /\ acc.out \in SUBSET RegionSet /\ IsFiniteSet(acc.out)
      /\ acc = [opens |-> acc.opens, out |-> acc.out]
  BY DEF FoldsTo, Folds
<1>2. e.kind \in {"open", "close", "string"} /\ e.line \in Nat
  <2>1. e \in EventSet
    OBVIOUS
  <2> QED BY <2>1 DEF EventSet
<1>3. ASSUME ~Deep(ev)
      PROVE  /\ acc.out = PairRegions(ev, n)
             /\ \E idx : Stack(ev, n, idx) /\ acc.opens = [j \in 1 .. Len(idx) |-> ev[idx[j]].line]
  BY <1>3 DEF FoldsTo
<1>4. ASSUME NEW idx, Stack(ev, n, idx), acc.opens = [j \in 1 .. Len(idx) |-> ev[idx[j]].line]
      PROVE  /\ idx \in Seq(1 .. n) /\ Len(idx) \in Nat /\ DOMAIN idx = 1 .. Len(idx)
             /\ Len(acc.opens) = Len(idx) /\ (acc.opens = <<>> <=> idx = <<>>)
  <2> DEFINE a == acc.opens
  <2>0. idx \in Seq(1 .. n)
    BY <1>4 DEF Stack
  <2>1. a \in Seq(Nat) /\ DOMAIN a = 1 .. Len(idx) /\ Len(idx) \in Nat /\ DOMAIN idx = 1 .. Len(idx)
    BY <1>1, <1>4, <2>0
  <2> HIDE DEF a
  <2>2. Len(a) = Len(idx)
    BY <2>1
  <2>3. (a = <<>> <=> Len(a) = 0) /\ (idx = <<>> <=> Len(idx) = 0)
    BY <2>0, <2>1
  <2> QED BY <2>0, <2>1, <2>2, <2>3 DEF a
<1> HIDE DEF e
<1>5. CASE e.kind = "open" /\ Len(acc.opens) < MaxBraceDepth
  <2> DEFINE a == Append(acc.opens, e.line)
             next == [acc EXCEPT !.opens = a]
  <2>1. Folded(acc, e) = next
    BY <1>5 DEF Folded
  <2>2. a \in Seq(Nat) /\ Len(a) = Len(acc.opens) + 1 /\ a[Len(acc.opens) + 1] = e.line
        /\ \A j \in 1 .. Len(acc.opens) : a[j] = acc.opens[j]
    BY <1>1, <1>2
  <2> HIDE DEF a
  <2>3. next = [opens |-> a, out |-> acc.out]
    BY <1>1
  <2> HIDE DEF next
  <2>4. next \in Folds /\ next.opens = a /\ next.out = acc.out
    BY <1>1, <2>2, <2>3 DEF Folds
  <2>5. ASSUME ~Deep(ev)
        PROVE  /\ next.out = PairRegions(ev, n + 1)
               /\ \E idx : /\ Stack(ev, n + 1, idx)
                           /\ next.opens = [j \in 1 .. Len(idx) |-> ev[idx[j]].line]
    <3>1. PICK idx : Stack(ev, n, idx) /\ acc.opens = [j \in 1 .. Len(idx) |-> ev[idx[j]].line]
      BY <1>3, <2>5
    <3>2. /\ idx \in Seq(1 .. n) /\ Len(idx) \in Nat /\ Len(acc.opens) = Len(idx)
      BY <1>4, <3>1
    <3> DEFINE more == Append(idx, n + 1)
    <3>3. Stack(ev, n + 1, more) /\ \A p : ~Pair(ev, p, n + 1)
      BY <1>5, <3>1, StackOpen DEF e
    <3>4. PairRegions(ev, n + 1) = PairRegions(ev, n)
      BY <3>3, PairRegionsStep
    <3>5. /\ Len(more) = Len(idx) + 1 /\ more[Len(idx) + 1] = n + 1
          /\ \A j \in 1 .. Len(idx) : more[j] = idx[j]
      BY <3>2
    <3> HIDE DEF more
    <3>6. \A j \in 1 .. Len(idx) + 1 : j \in 1 .. Len(idx) \/ j = Len(idx) + 1
      BY <3>2
    <3>7. \A j \in 1 .. Len(idx) : acc.opens[j] = ev[idx[j]].line
      BY <3>1
    <3>8. \A j \in 1 .. Len(idx) + 1 : a[j] = ev[more[j]].line
      BY <2>2, <3>2, <3>5, <3>6, <3>7 DEF e
    <3>9. a = [j \in 1 .. Len(idx) + 1 |-> a[j]]
      BY <2>2, <3>2
    <3>10. a = [j \in 1 .. Len(more) |-> ev[more[j]].line]
      BY <3>5, <3>8, <3>9
    <3> QED BY <1>3, <2>4, <2>5, <3>3, <3>4, <3>10
  <2>6. next \in FoldsTo(ev, n + 1)
    BY <1>1, <2>4, <2>5 DEF FoldsTo
  <2> QED BY <2>1, <2>6 DEF e
<1>6. CASE e.kind = "close" /\ acc.opens # <<>>
  <2> DEFINE a == Front(acc.opens)
             top == Last(acc.opens)
             more == IF top < e.line THEN {Region(top, e.line)} ELSE {}
             next == [opens |-> a, out |-> acc.out \cup more]
             k == Len(acc.opens)
  <2>1. Folded(acc, e) = next
    BY <1>6 DEF Folded
  <2>2. k \in Nat /\ k # 0 /\ a = [j \in 1 .. k - 1 |-> acc.opens[j]] /\ a \in Seq(Nat) /\ top = acc.opens[k]
        /\ top \in Nat
    BY <1>1, <1>6 DEF Front, Last
  <2> HIDE DEF a, top, k
  <2>3. Region(top, e.line) \in RegionSet
    BY <1>2, <2>2 DEF Region, RegionSet
  <2>4. more \in SUBSET RegionSet /\ IsFiniteSet(more)
    BY <2>3, FS_EmptySet, FS_Singleton
  <2> HIDE DEF more
  <2>5. IsFiniteSet(acc.out \cup more) /\ acc.out \cup more \in SUBSET RegionSet
    BY <1>1, <2>4, FS_Union
  <2>6. next \in Folds /\ next.opens = a /\ next.out = acc.out \cup more
    BY <2>2, <2>5 DEF Folds
  <2> HIDE DEF next
  <2>7. ASSUME ~Deep(ev)
        PROVE  /\ next.out = PairRegions(ev, n + 1)
               /\ \E idx : /\ Stack(ev, n + 1, idx)
                           /\ next.opens = [j \in 1 .. Len(idx) |-> ev[idx[j]].line]
    <3>1. PICK idx : Stack(ev, n, idx) /\ acc.opens = [j \in 1 .. Len(idx) |-> ev[idx[j]].line]
      BY <1>3, <2>7
    <3>2. idx \in Seq(1 .. n) /\ Len(idx) = k /\ idx # <<>> /\ DOMAIN idx = 1 .. k
      BY <1>4, <1>6, <3>1 DEF k
    <3> DEFINE less == Front(idx)
               p == Last(idx)
    <3>3. Stack(ev, n + 1, less) /\ \A o : Pair(ev, o, n + 1) <=> o = p
      BY <1>6, <3>1, <3>2, StackClose DEF e
    <3>4. less = [j \in 1 .. k - 1 |-> idx[j]] /\ Len(less) = k - 1 /\ p = idx[k]
      BY <2>2, <3>2 DEF Front, Last
    <3> HIDE DEF less, p
    <3>5. top = ev[p].line
      BY <2>2, <3>1, <3>2, <3>4
    <3>6. PairRegions(ev, n + 1) = PairRegions(ev, n) \cup more
      <4>1. Pair(ev, p, n + 1) /\ \A o : Pair(ev, o, n + 1) => o = p
        BY <3>3
      <4>2. PairRegions(ev, n + 1) =
              PairRegions(ev, n) \cup (IF ev[p].line < ev[n + 1].line
                                         THEN {Region(ev[p].line, ev[n + 1].line)} ELSE {})
        BY <4>1, PairRegionsStep
      <4> QED BY <3>5, <4>2 DEF more, e
    <3>7. \A j \in 1 .. k - 1 : acc.opens[j] = ev[idx[j]].line /\ less[j] = idx[j]
      <4>1. \A j \in 1 .. k - 1 : j \in 1 .. k
        BY <2>2
      <4> QED BY <3>1, <3>2, <3>4, <4>1
    <3>8. a = [j \in 1 .. Len(less) |-> ev[less[j]].line]
      BY <2>2, <3>4, <3>7
    <3> QED BY <1>3, <2>6, <2>7, <3>3, <3>6, <3>8
  <2>8. next \in FoldsTo(ev, n + 1)
    BY <2>5, <2>6, <2>7 DEF FoldsTo
  <2> QED BY <2>1, <2>8 DEF e
<1>7. CASE /\ ~(e.kind = "open" /\ Len(acc.opens) < MaxBraceDepth)
           /\ ~(e.kind = "close" /\ acc.opens # <<>>)
  <2>1. Folded(acc, e) = acc
    BY <1>7 DEF Folded
  <2>2. ASSUME ~Deep(ev)
        PROVE  /\ acc.out = PairRegions(ev, n + 1)
               /\ \E idx : /\ Stack(ev, n + 1, idx)
                           /\ acc.opens = [j \in 1 .. Len(idx) |-> ev[idx[j]].line]
    <3>1. PICK idx : Stack(ev, n, idx) /\ acc.opens = [j \in 1 .. Len(idx) |-> ev[idx[j]].line]
      BY <1>3, <2>2
    <3>2. Len(acc.opens) = Len(idx) /\ (acc.opens = <<>> <=> idx = <<>>)
      BY <1>4, <3>1
    <3>3. e.kind = "open" => Len(idx) < MaxBraceDepth
      BY <1>2, <2>2, <3>1, StackRoom DEF e, Deep
    <3>4. e.kind = "string" \/ (e.kind = "close" /\ idx = <<>>)
      BY <1>2, <1>7, <3>2, <3>3
    <3>5. Stack(ev, n + 1, idx) /\ \A p : ~Pair(ev, p, n + 1)
      BY <3>1, <3>4, StackStays DEF e
    <3>6. PairRegions(ev, n + 1) = PairRegions(ev, n)
      BY <3>5, PairRegionsStep
    <3> QED BY <1>3, <2>2, <3>1, <3>5, <3>6
  <2>3. acc \in FoldsTo(ev, n + 1)
    BY <2>2 DEF FoldsTo
  <2> QED BY <2>1, <2>3 DEF e
<1> QED BY <1>5, <1>6, <1>7 DEF e

\* The regions are finitely many, and those of the pairs on different lines.
LEMMA RegionsAre ==
  ASSUME NEW ev \in Seq(EventSet)
  PROVE  /\ RegionsOf(ev) \in SUBSET RegionSet /\ IsFiniteSet(RegionsOf(ev))
         /\ ~Deep(ev) =>
              RegionsOf(ev) = {[start |-> ev[p[1]].line, end |-> ev[p[2]].line, kind |-> "region"] :
                                 p \in {p \in Partners(ev) : ev[p[1]].line < ev[p[2]].line}}
<1> DEFINE n == Len(ev)
           start == [opens |-> <<>>, out |-> {}]
           S == [i \in 0 .. n |-> FoldsTo(ev, i)]
           step == [i \in 1 .. n |-> [x \in FoldsTo(ev, i - 1) |-> Folded(x, ev[i])]]
           Runs(g) == g = [i \in 0 .. n |-> IF i = 0 THEN start ELSE Folded(g[i - 1], ev[i])]
           folded == CHOOSE g : Runs(g)
<1>1. n \in Nat /\ start \in FoldsTo(ev, 0)
  <2>1. n \in Nat
    OBVIOUS
  <2>2. start \in Folds /\ start.opens = <<>> /\ start.out = {}
    BY DEF Folds
  <2> HIDE DEF start
  <2>3. Stack(ev, 0, <<>>) /\ <<>> = [j \in 1 .. Len(<<>>) |-> ev[<<>>[j]].line]
    BY StackEmpty
  <2>4. PairRegions(ev, 0) = {}
    <3>1. \A q \in DOMAIN ev : ~(q <= 0)
      OBVIOUS
    <3>2. \A p, q : ~(Pair(ev, p, q) /\ q <= 0)
      BY <3>1 DEF Pair
    <3> QED BY <3>2 DEF PairRegions
  <2>5. start \in FoldsTo(ev, 0)
    <3>1. \E idx : Stack(ev, 0, idx) /\ <<>> = [j \in 1 .. Len(idx) |-> ev[idx[j]].line]
      BY <2>3
    <3>2. IsFiniteSet({})
      BY FS_EmptySet
    <3> QED BY <2>2, <2>4, <3>1, <3>2 DEF FoldsTo
  <2> QED BY <2>1, <2>5
<1>2. ASSUME NEW i \in 1 .. n, NEW x \in FoldsTo(ev, i - 1)
      PROVE  Folded(x, ev[i]) \in FoldsTo(ev, i)
  <2>1. i - 1 \in Nat /\ i - 1 + 1 = i /\ i \in DOMAIN ev
    OBVIOUS
  <2> DEFINE k == i - 1
  <2>2. k \in Nat /\ k + 1 \in DOMAIN ev /\ x \in FoldsTo(ev, k) /\ k + 1 = i
    BY <2>1
  <2> HIDE DEF k
  <2>3. Folded(x, ev[k + 1]) \in FoldsTo(ev, k + 1)
    BY <2>2, FoldedKeeps
  <2> QED BY <2>2, <2>3
<1>3. \A i \in 0 .. n : S[i] = FoldsTo(ev, i)
  OBVIOUS
<1>4. \A i \in 1 .. n : \A x \in FoldsTo(ev, i - 1) : step[i][x] = Folded(x, ev[i])
  OBVIOUS
<1>5. RegionsOf(ev) = folded[n].out
  BY DEF RegionsOf
<1> HIDE DEF n, S, start, step, folded
<1>6. \A i \in 1 .. n : i - 1 \in 0 .. n /\ i \in 0 .. n /\ i # 0
  BY <1>1
<1>7. PICK f : Unfolds(f, n, S, start, step)
  <2>1. start \in S[0]
    BY <1>1, <1>3
  <2>2. \A i \in 1 .. n : \A x \in S[i - 1] : step[i][x] \in S[i]
    BY <1>2, <1>3, <1>4, <1>6
  <2> QED BY <1>1, <2>1, <2>2, Recursion
<1>8. /\ f = [i \in 0 .. n |-> f[i]] /\ f[0] = start
      /\ \A i \in 1 .. n : f[i - 1] \in S[i - 1] /\ f[i] = step[i][f[i - 1]]
  BY <1>7 DEF Unfolds
<1>9. Runs(f)
  <2>1. ASSUME NEW i \in 0 .. n
        PROVE  f[i] = IF i = 0 THEN start ELSE Folded(f[i - 1], ev[i])
    <3>1. CASE i = 0
      BY <1>8, <3>1
    <3>2. CASE i # 0
      <4>1. i \in 1 .. n
        BY <1>1, <3>2
      <4>2. f[i] = step[i][f[i - 1]] /\ f[i - 1] \in FoldsTo(ev, i - 1)
        BY <1>3, <1>6, <1>8, <4>1
      <4> QED BY <1>4, <3>2, <4>1, <4>2
    <3> QED BY <3>1, <3>2
  <2> QED BY <1>8, <2>1
<1>10. Runs(folded)
  <2> HIDE DEF Runs
  <2> QED BY <1>9 DEF folded
<1>11. /\ folded[0] = start
       /\ \A i \in 1 .. n : folded[i] = Folded(folded[i - 1], ev[i])
  <2>1. 0 \in 0 .. n
    BY <1>1
  <2>2. \A i \in 0 .. n : folded[i] = IF i = 0 THEN start ELSE Folded(folded[i - 1], ev[i])
    BY <1>10
  <2> HIDE DEF Runs
  <2> QED BY <1>6, <2>1, <2>2
<1> HIDE DEF Runs
<1>12. \A i \in 0 .. n : folded[i] \in FoldsTo(ev, i)
  <2>1. ASSUME NEW i \in 1 .. n, folded[i - 1] \in S[i - 1] PROVE folded[i] \in S[i]
    <3>1. folded[i] = Folded(folded[i - 1], ev[i]) /\ folded[i - 1] \in FoldsTo(ev, i - 1)
      BY <1>3, <1>6, <1>11, <2>1
    <3>2. folded[i] \in FoldsTo(ev, i)
      BY <1>2, <3>1
    <3> QED BY <1>3, <1>6, <3>2
  <2>0. folded[0] \in S[0]
    BY <1>1, <1>3, <1>11
  <2>2. \A i \in 0 .. n : folded[i] \in S[i]
    BY <1>1, <2>0, <2>1, StaysIn
  <2> QED BY <1>3, <2>2
<1> DEFINE acc == folded[n]
<1>13. acc \in FoldsTo(ev, n)
  <2>1. n \in 0 .. n
    BY <1>1
  <2> QED BY <1>12, <2>1
<1>14. RegionsOf(ev) = acc.out
  BY <1>5
<1> HIDE DEF acc
<1>15. RegionsOf(ev) \in SUBSET RegionSet /\ IsFiniteSet(RegionsOf(ev))
  BY <1>13, <1>14 DEF FoldsTo, Folds
<1>16. ASSUME ~Deep(ev)
       PROVE  RegionsOf(ev) =
                {[start |-> ev[p[1]].line, end |-> ev[p[2]].line, kind |-> "region"] :
                   p \in {p \in Partners(ev) : ev[p[1]].line < ev[p[2]].line}}
  <2> DEFINE Wide == {p \in Partners(ev) : ev[p[1]].line < ev[p[2]].line}
             Of(p) == [start |-> ev[p[1]].line, end |-> ev[p[2]].line, kind |-> "region"]
  <2>1. RegionsOf(ev) = PairRegions(ev, n)
    BY <1>13, <1>14, <1>16 DEF FoldsTo
  <2>2. /\ \A p, q : <<p, q>> \in Partners(ev) <=> Pair(ev, p, q)
        /\ \A x \in Partners(ev) : x = <<x[1], x[2]>> /\ Pair(ev, x[1], x[2])
    BY PartnersArePairs
  <2>3. \A p, q : Pair(ev, p, q) => /\ q <= n
                                    /\ Region(ev[p].line, ev[q].line) \in RegionSet
    <3>1. \A m \in DOMAIN ev : ev[m].line \in Nat /\ m <= n
      <4>1. \A m \in DOMAIN ev : ev[m] \in EventSet /\ m <= n
        BY DEF n
      <4> QED BY <4>1 DEF EventSet
    <3>2. \A p, q : Pair(ev, p, q) => ev[p].line \in Nat /\ ev[q].line \in Nat /\ q <= n
      BY <3>1 DEF Pair
    <3> QED BY <3>2 DEF Region, RegionSet
  <2>4. \A p : Of(p) = Region(ev[p[1]].line, ev[p[2]].line)
    BY DEF Region
  <2> HIDE DEF Of
  <2>5. ASSUME NEW r \in PairRegions(ev, n) PROVE \E x \in Wide : r = Of(x)
    <3>1. PICK p, q : Pair(ev, p, q) /\ ev[p].line < ev[q].line /\ r = Region(ev[p].line, ev[q].line)
      BY DEF PairRegions
    <3>2. <<p, q>>[1] = p /\ <<p, q>>[2] = q
      OBVIOUS
    <3>3. <<p, q>> \in Wide
      BY <2>2, <3>1, <3>2
    <3>4. r = Of(<<p, q>>)
      BY <2>4, <3>1, <3>2
    <3> QED BY <3>3, <3>4
  <2>6. ASSUME NEW x \in Wide PROVE Of(x) \in PairRegions(ev, n)
    <3>1. Pair(ev, x[1], x[2]) /\ ev[x[1]].line < ev[x[2]].line
      BY <2>2
    <3>2. Of(x) \in RegionSet /\ Of(x) = Region(ev[x[1]].line, ev[x[2]].line)
      BY <2>3, <2>4, <3>1
    <3> QED BY <2>3, <3>1, <3>2 DEF PairRegions
  <2> HIDE DEF Wide
  <2>7. PairRegions(ev, n) = {Of(x) : x \in Wide}
    BY <2>5, <2>6
  <2> QED BY <2>1, <2>7 DEF Of, Wide
<1> QED BY <1>15, <1>16

-----------------------------------------------------------------------------
(* Logical lines *)

Segments == [start : Nat, len : Nat, line : Nat]
LogicalSet == [text : Text, segments : Seq(Segments)]
Joins == [current : LogicalSet, done : Seq(LogicalSet)]

\* What a line contributes ends within it.
LEMMA BodyEndWithin ==
  ASSUME NEW line \in Text
  PROVE  BodyEnd(line).at \in 0 .. Len(line) /\ BodyEnd(line).on \in BOOLEAN
<1> DEFINE n == Len(line)
           e == EffectiveEnd(line)
           whole == SubSeq(line, 1, e)
           k == TrimEnd(whole)
           content == SubSeq(line, 1, k)
           r == Run(content)
<1>1. n \in Nat /\ DOMAIN line = 1 .. n /\ \A i \in 1 .. n : line[i] \in Chars
  BY DEF Text
<1>2. e \in 0 .. n
  <2> DEFINE kinds == Kinds(line)
  <2>1. NoQuote \in QuoteStates
    BY DEF NoQuote, QuoteStates, Strings
  <2>2. DOMAIN kinds = 1 .. n
    <3>1. PICK seen : ScanFrom(line, NoQuote) =
                        [q |-> seen[n].q, kinds |-> [i \in 1 .. n |-> seen[i].kind]]
      BY <2>1, ScanRuns
    <3> QED BY <3>1 DEF Kinds
  <2>3. e = Cardinality({i \in DOMAIN kinds : kinds[i] # "comment"})
    BY DEF EffectiveEnd
  <2> HIDE DEF kinds, e
  <2>4. {i \in DOMAIN kinds : kinds[i] # "comment"} \in SUBSET (1 .. n)
    BY <2>2
  <2>5. e \in Nat /\ e <= n
    BY <1>1, <2>3, <2>4, PlacesFinite
  <2> QED BY <1>1, <2>5
<1> HIDE DEF e
<1>3. Len(whole) = e /\ DOMAIN whole = 1 .. e /\ e \in Nat
  BY <1>1, <1>2 DEF Text
<1> HIDE DEF whole
<1>4. k \in 0 .. e
  <2> DEFINE solid == {i \in 1 .. e : whole[i] \notin Blank}
  <2>1. k = IF solid = {} THEN 0 ELSE CHOOSE i \in solid : \A j \in solid : j <= i
    BY <1>3 DEF TrimEnd
  <2>2. solid \in SUBSET (1 .. e)
    OBVIOUS
  <2> HIDE DEF k, solid
  <2>3. CASE solid = {}
    BY <1>3, <2>1, <2>3
  <2>4. CASE solid # {}
    <3>1. \E i \in solid : \A j \in solid : j <= i
      BY <1>3, <2>2, <2>4, NthLast
    <3>2. k \in solid
      BY <2>1, <2>4, <3>1
    <3> QED BY <1>3, <2>2, <3>2
  <2> QED BY <2>3, <2>4
<1> HIDE DEF k
<1>5. Len(content) = k /\ DOMAIN content = 1 .. k /\ k \in Nat /\ k <= n
  BY <1>1, <1>2, <1>4 DEF Text
<1> HIDE DEF content
<1>6. r \in Nat /\ r <= k
  <2>1. {i \in DOMAIN content : \A j \in i .. Len(content) : content[j] = Backslash}
          \in SUBSET (1 .. k)
    BY <1>5
  <2> QED BY <1>5, <2>1, PlacesFinite DEF Run
<1>7. BodyEnd(line) = IF r % 2 = 1 THEN [on |-> TRUE, at |-> Len(content) - r]
                      ELSE [on |-> FALSE, at |-> n]
  BY DEF BodyEnd, content, k, whole, e
<1> HIDE DEF r, n
<1>8. CASE r % 2 = 1
  <2>1. k - r \in 0 .. n
    BY <1>1, <1>5, <1>6
  <2> QED BY <1>5, <1>7, <1>8, <2>1 DEF n
<1>9. CASE r % 2 # 1
  <2>1. n \in 0 .. n
    BY <1>1
  <2> QED BY <1>7, <1>9, <2>1 DEF n
<1> QED BY <1>8, <1>9

\* A line that begins within a text is text.
LEMMA PrefixText ==
  ASSUME NEW line \in Text, NEW k \in 0 .. Len(line)
  PROVE  SubSeq(line, 1, k) \in Text
<1>1. Len(line) \in Nat /\ \A i \in 1 .. k : line[i] \in Chars
  BY DEF Text
<1>2. 1 \in Int /\ k \in Int
  BY <1>1
<1>3. SubSeq(line, 1, k) \in Seq(Chars)
  BY <1>1, <1>2, SubSeqProperties
<1> QED BY <1>3 DEF Text

LEMMA PushChunkType ==
  ASSUME NEW ll \in LogicalSet, NEW chunk \in Text, NEW l \in Nat
  PROVE  PushChunk(ll, chunk, l) \in LogicalSet
<1>1. ll.text \in Text /\ ll.segments \in Seq(Segments)
  BY DEF LogicalSet
<1> DEFINE x == ll.text \o chunk
           g == [start |-> Len(ll.text), len |-> Len(chunk), line |-> l]
           more == Append(ll.segments, g)
<1>2. x \in Text /\ Len(ll.text) \in Nat /\ Len(chunk) \in Nat
  BY <1>1 DEF Text
<1>3. g \in Segments
  BY <1>2 DEF Segments
<1> HIDE DEF x, g
<1>4. more \in Seq(Segments)
  BY <1>1, <1>3
<1> HIDE DEF more
<1>5. [text |-> x, segments |-> more] \in LogicalSet
  BY <1>2, <1>4 DEF LogicalSet
<1>6. PushChunk(ll, chunk, l) = IF chunk = <<>> THEN ll ELSE [text |-> x, segments |-> more]
  BY DEF PushChunk, x, g, more
<1> QED BY <1>5, <1>6

LEMMA JoinedType ==
  ASSUME NEW acc \in Joins, NEW line \in Text, NEW l \in Nat
  PROVE  Joined(acc, line, l) \in Joins
<1> DEFINE end == BodyEnd(line)
           chunk == SubSeq(line, 1, end.at)
           ll == PushChunk(acc.current, chunk, l)
<1>1. acc.current \in LogicalSet /\ acc.done \in Seq(LogicalSet)
      /\ acc = [current |-> acc.current, done |-> acc.done]
  BY DEF Joins
<1>2. chunk \in Text
  <2>1. end.at \in 0 .. Len(line)
    BY BodyEndWithin
  <2> HIDE DEF end
  <2> QED BY <2>1, PrefixText
<1> HIDE DEF chunk
<1>3. ll \in LogicalSet
  BY <1>1, <1>2, PushChunkType
<1>4. Joined(acc, line, l) = IF end.on THEN [acc EXCEPT !.current = ll]
                             ELSE [current |-> EmptyLogical, done |-> Append(acc.done, ll)]
  BY DEF Joined, chunk
<1> HIDE DEF end, ll
<1>5. [acc EXCEPT !.current = ll] = [current |-> ll, done |-> acc.done]
  BY <1>1
<1>6. EmptyLogical \in LogicalSet
  BY DEF EmptyLogical, LogicalSet, Text
<1>7. Append(acc.done, ll) \in Seq(LogicalSet)
  BY <1>1, <1>3
<1> QED BY <1>1, <1>3, <1>4, <1>5, <1>6, <1>7 DEF Joins

\* A piece of a text, character by character
LEMMA PieceIs ==
  ASSUME NEW t \in Text, NEW s \in Nat, NEW c \in Int, c <= Len(t)
  PROVE  /\ SubSeq(t, s + 1, c) \in Text
         /\ Len(SubSeq(t, s + 1, c)) = IF s + 1 <= c THEN c - s ELSE 0
         /\ \A k \in 1 .. Len(SubSeq(t, s + 1, c)) : SubSeq(t, s + 1, c)[k] = t[s + k]
<1>1. Len(t) \in Nat
  BY DEF Text
<1>2. \A i \in s + 1 .. c : t[i] \in Chars
  BY <1>1 DEF Text
<1>3. s + 1 \in Int
  OBVIOUS
<1>4. /\ SubSeq(t, s + 1, c) \in Seq(Chars)
      /\ Len(SubSeq(t, s + 1, c)) = IF s + 1 <= c THEN c - (s + 1) + 1 ELSE 0
      /\ \A k \in 1 .. c - (s + 1) + 1 : SubSeq(t, s + 1, c)[k] = t[(s + 1) + k - 1]
  BY <1>2, <1>3, SubSeqProperties
<1>5. c - (s + 1) + 1 = c - s /\ \A k \in Int : (s + 1) + k - 1 = s + k
  OBVIOUS
<1>6. Len(SubSeq(t, s + 1, c)) = IF s + 1 <= c THEN c - s ELSE 0
  BY <1>4, <1>5
<1> HIDE DEF Text
<1>7. ASSUME NEW k \in 1 .. Len(SubSeq(t, s + 1, c)) PROVE SubSeq(t, s + 1, c)[k] = t[s + k]
  <2>1. k \in 1 .. c - s /\ k \in Int
    BY <1>6
  <2> QED BY <1>4, <1>5, <2>1
<1> QED BY <1>4, <1>6, <1>7 DEF Text

\* Two texts, one after the other
LEMMA JoinIs ==
  ASSUME NEW a \in Text, NEW b \in Text
  PROVE  /\ a \o b \in Text /\ Len(a \o b) = Len(a) + Len(b)
         /\ \A k \in 1 .. Len(a) : (a \o b)[k] = a[k]
         /\ \A k \in 1 .. Len(b) : (a \o b)[Len(a) + k] = b[k]
BY DEF Text

\* What line l contributes to its logical line
Body(t, l) == BodyEnd(OutLine(t, l)).at

\* It is within the line.
LEMMA BodyType ==
  ASSUME NEW t \in Text, NEW l \in Nat
  PROVE  Body(t, l) \in Nat /\ Body(t, l) <= Len(OutLine(t, l)) /\ Len(OutLine(t, l)) \in Nat
<1>1. OutLine(t, l) \in Text
  BY LineText
<1>2. Body(t, l) \in 0 .. Len(OutLine(t, l))
  BY <1>1, BodyEndWithin DEF Body
<1>3. Len(OutLine(t, l)) \in Nat
  BY <1>1 DEF Text
<1> QED BY <1>2, <1>3

\* A line starts no earlier than the lines before it.
LEMMA StartsGrow ==
  ASSUME NEW t \in Text, NEW l \in Nat, NEW m \in Nat, l <= m
  PROVE  LineStart(t, l) <= LineStart(t, m)
<1> DEFINE A == {i \in 1 .. Len(t) : LineOf(t, i) < l}
           B == {i \in 1 .. Len(t) : LineOf(t, i) < m}
<1>1. Len(t) \in Nat
  BY DEF Text
<1>2. \A i \in 1 .. Len(t) : LineOf(t, i) \in Nat
  <2> SUFFICES ASSUME NEW i \in 1 .. Len(t) PROVE LineOf(t, i) \in Nat
    OBVIOUS
  <2>1. {j \in 1 .. i - 1 : t[j] = LF} \in SUBSET (1 .. i - 1) /\ i - 1 \in Nat
    OBVIOUS
  <2> QED BY <2>1, PlacesFinite DEF LineOf
<1>3. A \subseteq B
  BY <1>2
<1>4. B \in SUBSET (1 .. Len(t))
  OBVIOUS
<1>5. LineStart(t, l) = Cardinality(A) /\ LineStart(t, m) = Cardinality(B)
  BY DEF LineStart
<1> HIDE DEF A, B
<1>6. IsFiniteSet(B)
  BY <1>1, <1>4, PlacesFinite
<1> QED BY <1>3, <1>5, <1>6, FS_Subset

\* The lines of a text stand apart, and have its characters.
LEMMA LinesApart ==
  ASSUME NEW t \in Text, NEW l \in Nat
  PROVE  /\ LineStart(t, l) \in Nat
         /\ LineStart(t, l) + Len(OutLine(t, l)) <= Len(t)
         /\ \A k \in 1 .. Len(OutLine(t, l)) : t[LineStart(t, l) + k] = OutLine(t, l)[k]
         /\ \A m \in Nat : l < m /\ m < LineCount(t) =>
              LineStart(t, l) + Len(OutLine(t, l)) <= LineStart(t, m)
<1> DEFINE s == LineStart(t, l)
           e == LineEnd(t, l)
           cut == IF e > s /\ l + 1 < Lines(t) /\ t[e] = CR THEN e - 1 ELSE e
           line == OutLine(t, l)
<1>1. s \in 0 .. Len(t) /\ e \in Int /\ e <= Len(t) /\ Len(t) \in Nat
  BY LinePlaces
<1>2. cut \in Int /\ cut <= e
  BY <1>1
<1>3. line = SubSeq(t, s + 1, cut)
  BY DEF OutLine
<1>4. s \in Nat
  BY <1>1
<1>5. e = IF l + 1 < Lines(t) THEN LineStart(t, l + 1) - 1 ELSE Len(t)
  BY DEF LineEnd
<1> HIDE DEF e, cut, s, line
<1>6. /\ Len(line) = IF s + 1 <= cut THEN cut - s ELSE 0
      /\ \A k \in 1 .. Len(line) : line[k] = t[s + k]
  <2>1. cut <= Len(t)
    BY <1>1, <1>2
  <2> QED BY <1>2, <1>3, <1>4, <2>1, PieceIs
<1>7. s + Len(line) <= Len(t) /\ (s + Len(line) = s \/ s + Len(line) <= e) /\ Len(line) \in Nat
  BY <1>1, <1>2, <1>4, <1>6
<1>8. ASSUME NEW m \in Nat, l < m, m < LineCount(t)
      PROVE  s + Len(line) <= LineStart(t, m)
  <2>1. Lines(t) \in Nat /\ LineCount(t) <= Lines(t) /\ LineCount(t) \in Nat
    <3>1. Lines(t) \in Nat \ {0}
      BY LinePlaces
    <3> QED BY <3>1 DEF LineCount
  <2>2. l + 1 < Lines(t) /\ l + 1 \in Nat /\ l + 1 <= m
    BY <1>8, <2>1
  <2>3. LineStart(t, l + 1) <= LineStart(t, m) /\ LineStart(t, l) <= LineStart(t, m)
    BY <1>8, <2>2, StartsGrow
  <2>4. LineStart(t, l + 1) \in 0 .. Len(t) /\ LineStart(t, m) \in 0 .. Len(t)
    BY <2>2, LinePlaces
  <2>5. e = LineStart(t, l + 1) - 1
    BY <1>5, <2>2
  <2> QED BY <1>1, <1>4, <1>7, <2>3, <2>4, <2>5 DEF s
<1> QED BY <1>4, <1>6, <1>7, <1>8 DEF s, line

\* Text x with segments g holds what the lines from lo on and before hi contribute.
Made(t, x, g, lo, hi) ==
  /\ \A i \in DOMAIN g :
       /\ lo <= g[i].line /\ g[i].line < hi
       /\ g[i].len = Body(t, g[i].line) /\ g[i].len # 0 /\ g[i].start + g[i].len <= Len(x)
       /\ \A k \in 1 .. g[i].len : x[g[i].start + k] = OutLine(t, g[i].line)[k]
  /\ \A i, j \in DOMAIN g :
       i < j => g[i].line < g[j].line /\ g[i].start + g[i].len <= g[j].start
  /\ \A k \in 1 .. Len(x) : \E i \in DOMAIN g : g[i].start < k /\ k <= g[i].start + g[i].len
  /\ \A l \in lo .. hi - 1 : Body(t, l) # 0 => \E i \in DOMAIN g : g[i].line = l
Formed(t, ll, lo, hi) ==
  /\ ll \in LogicalSet /\ lo \in Nat /\ hi \in Nat /\ lo <= hi
  /\ Made(t, ll.text, ll.segments, lo, hi)

\* Nothing has been joined from no lines.
LEMMA EmptyFormed ==
  ASSUME NEW t \in Text, NEW l \in Nat
  PROVE  Formed(t, EmptyLogical, l, l)
<1>1. EmptyLogical \in LogicalSet
  BY DEF EmptyLogical, LogicalSet, Text
<1>2. EmptyLogical.text = <<>> /\ EmptyLogical.segments = <<>>
  BY DEF EmptyLogical
<1>3. DOMAIN EmptyLogical.segments = {} /\ 1 .. Len(EmptyLogical.text) = {} /\ l .. l - 1 = {}
  BY <1>2
<1> QED BY <1>1, <1>3 DEF Formed, Made

\* The next line joins it.
LEMMA PushKeeps ==
  ASSUME NEW t \in Text, NEW l \in Nat, NEW ll, NEW lo, Formed(t, ll, lo, l)
  PROVE  Formed(t, PushChunk(ll, SubSeq(OutLine(t, l), 1, Body(t, l)), l), lo, l + 1)
<1> DEFINE line == OutLine(t, l)
           b == Body(t, l)
           chunk == SubSeq(line, 1, b)
           ll2 == PushChunk(ll, chunk, l)
<1>1. b \in Nat /\ b <= Len(line) /\ Len(line) \in Nat
  BY BodyType
<1>2. line \in Text
  BY LineText
<1>3. chunk \in Text /\ Len(chunk) = b /\ \A k \in 1 .. b : chunk[k] = line[k]
  <2> HIDE DEF line, b
  <2>1. b \in 0 .. Len(line)
    BY <1>1
  <2>2. chunk \in Text
    BY <1>2, <2>1, PrefixText
  <2> QED BY <1>1, <1>2, <2>2 DEF Text
<1>4. ll \in LogicalSet /\ lo \in Nat /\ lo <= l
  BY DEF Formed
<1>5. ll2 = IF chunk = <<>> THEN ll
            ELSE [text |-> ll.text \o chunk,
                  segments |-> Append(ll.segments,
                                      [start |-> Len(ll.text), len |-> Len(chunk), line |-> l])]
  BY DEF PushChunk
<1>6. ll2 \in LogicalSet
  <2> HIDE DEF chunk
  <2> QED BY <1>3, <1>4, PushChunkType
<1>7. b = Body(t, l) /\ line = OutLine(t, l)
  OBVIOUS
<1> HIDE DEF ll2, chunk, b, line
<1>8. CASE b = 0
  <2>1. chunk = <<>>
    BY <1>3, <1>8 DEF Text
  <2>2. ll2 = ll
    BY <1>5, <2>1
  <2>3. \A k \in lo .. l + 1 - 1 : k = l \/ k \in lo .. l - 1
    BY <1>4
  <2>4. \A i \in DOMAIN ll.segments : ll.segments[i].line < l + 1
    <3> SUFFICES ASSUME NEW i \in DOMAIN ll.segments PROVE ll.segments[i].line < l + 1
      OBVIOUS
    <3>1. ll.segments[i] \in Segments /\ ll.segments[i].line < l
      BY <1>4 DEF Formed, Made, LogicalSet
    <3> QED BY <3>1 DEF Segments
  <2>5. Formed(t, ll, lo, l + 1)
    <3>1. l + 1 \in Nat /\ lo <= l + 1
      BY <1>4
    <3>2. \A k \in lo .. l + 1 - 1 :
            Body(t, k) # 0 => \E i \in DOMAIN ll.segments : ll.segments[i].line = k
      BY <1>7, <1>8, <2>3 DEF Formed, Made
    <3> QED BY <2>4, <3>1, <3>2 DEF Formed, Made
  <2> QED BY <2>2, <2>5 DEF ll2, chunk, b, line
<1>9. CASE b # 0
  <2> DEFINE g == ll.segments
             n == Len(g)
             new == [start |-> Len(ll.text), len |-> b, line |-> l]
             x == ll.text \o chunk
             more == Append(g, new)
  <2>1. chunk # <<>>
    BY <1>1, <1>3, <1>9
  <2>2. ll2 = [text |-> x, segments |-> more]
    BY <1>3, <1>5, <2>1
  <2>3. g \in Seq(Segments) /\ n \in Nat /\ DOMAIN g = 1 .. n /\ ll.text \in Text
        /\ Len(ll.text) \in Nat
    BY <1>4 DEF LogicalSet, Text
  <2>4. new \in Segments /\ new.start = Len(ll.text) /\ new.len = b /\ new.line = l
    BY <1>1, <2>3 DEF Segments
  <2>5. \A i \in 1 .. n : g[i] \in Segments
    BY <2>3
  <2>6. \A i \in 1 .. n : g[i].start \in Nat /\ g[i].len \in Nat /\ g[i].line \in Nat
    BY <2>5 DEF Segments
  <2>7. /\ Len(x) = Len(ll.text) + b
        /\ \A k \in 1 .. Len(ll.text) : x[k] = ll.text[k]
        /\ \A k \in 1 .. b : x[Len(ll.text) + k] = line[k]
    BY <1>3, <2>3, JoinIs
  <2>8. /\ \A i \in 1 .. n :
             /\ lo <= g[i].line /\ g[i].line < l /\ g[i].len = Body(t, g[i].line) /\ g[i].len # 0
             /\ g[i].start + g[i].len <= Len(ll.text)
             /\ \A k \in 1 .. g[i].len : ll.text[g[i].start + k] = OutLine(t, g[i].line)[k]
        /\ \A i, j \in 1 .. n :
             i < j => g[i].line < g[j].line /\ g[i].start + g[i].len <= g[j].start
        /\ \A k \in 1 .. Len(ll.text) : \E i \in 1 .. n :
             g[i].start < k /\ k <= g[i].start + g[i].len
        /\ \A m \in lo .. l - 1 : Body(t, m) # 0 => \E i \in 1 .. n : g[i].line = m
    BY <2>3 DEF Formed, Made
  <2> HIDE DEF new
  <2>9. /\ DOMAIN more = 1 .. n + 1 /\ more[n + 1] = new
        /\ \A i \in 1 .. n : more[i] = g[i]
    BY <2>3, <2>4
  <2> HIDE DEF more, x, g, n
  <2>10. ll2.text = x /\ ll2.segments = more
    BY <2>2
  <2>11. \A i \in 1 .. n + 1 : i \in 1 .. n \/ i = n + 1
    BY <2>3
  <2>12. ASSUME NEW i \in 1 .. n + 1
         PROVE  /\ lo <= more[i].line /\ more[i].line < l + 1
                /\ more[i].len = Body(t, more[i].line) /\ more[i].len # 0
                /\ more[i].start + more[i].len <= Len(x)
                /\ \A k \in 1 .. more[i].len : x[more[i].start + k] = OutLine(t, more[i].line)[k]
    <3>1. CASE i \in 1 .. n
      <4>1. more[i] = g[i] /\ g[i].start \in Nat /\ g[i].len \in Nat /\ g[i].line \in Nat
        BY <2>6, <2>9, <3>1
      <4>2. /\ lo <= g[i].line /\ g[i].line < l /\ g[i].len = Body(t, g[i].line) /\ g[i].len # 0
            /\ g[i].start + g[i].len <= Len(ll.text)
            /\ \A k \in 1 .. g[i].len : ll.text[g[i].start + k] = OutLine(t, g[i].line)[k]
        BY <2>8, <3>1
      <4>3. \A k \in 1 .. g[i].len : g[i].start + k \in 1 .. Len(ll.text)
        BY <2>3, <4>1, <4>2
      <4>4. \A k \in 1 .. g[i].len : x[g[i].start + k] = OutLine(t, g[i].line)[k]
        BY <2>7, <4>2, <4>3
      <4>5. g[i].line < l + 1 /\ g[i].start + g[i].len <= Len(x)
        BY <1>1, <2>3, <2>7, <4>1, <4>2
      <4> QED BY <4>1, <4>2, <4>4, <4>5
    <3>2. CASE i = n + 1
      <4>1. more[i] = new
        BY <2>9, <3>2
      <4>2. Len(ll.text) + b <= Len(x) /\ l < l + 1
        BY <1>1, <2>3, <2>7
      <4> QED BY <1>4, <1>7, <1>9, <2>4, <2>7, <4>1, <4>2
    <3> QED BY <2>11, <3>1, <3>2
  <2>13. ASSUME NEW i \in 1 .. n + 1, NEW j \in 1 .. n + 1, i < j
         PROVE  more[i].line < more[j].line /\ more[i].start + more[i].len <= more[j].start
    <3>1. i \in 1 .. n
      BY <2>3, <2>13
    <3>2. more[i] = g[i] /\ g[i].line < l /\ g[i].start + g[i].len <= Len(ll.text)
      BY <2>8, <2>9, <3>1
    <3>3. CASE j \in 1 .. n
      <4>1. more[j] = g[j]
        BY <2>9, <3>3
      <4> QED BY <2>8, <2>13, <3>1, <3>2, <3>3, <4>1
    <3>4. CASE j = n + 1
      <4>1. more[j] = new
        BY <2>9, <3>4
      <4> QED BY <2>4, <3>2, <4>1
    <3> QED BY <2>11, <3>3, <3>4
  <2>14. ASSUME NEW k \in 1 .. Len(x)
         PROVE  \E i \in 1 .. n + 1 : more[i].start < k /\ k <= more[i].start + more[i].len
    <3>1. CASE k \in 1 .. Len(ll.text)
      <4>1. PICK i \in 1 .. n : g[i].start < k /\ k <= g[i].start + g[i].len
        BY <2>8, <3>1
      <4>2. i \in 1 .. n + 1 /\ more[i] = g[i]
        BY <2>3, <2>9, <4>1
      <4> QED BY <4>1, <4>2
    <3>2. CASE k \notin 1 .. Len(ll.text)
      <4>1. Len(ll.text) < k /\ k <= Len(ll.text) + b
        BY <1>1, <2>3, <2>7, <3>2
      <4>2. n + 1 \in 1 .. n + 1
        BY <2>3
      <4> QED BY <2>4, <2>9, <4>1, <4>2
    <3> QED BY <3>1, <3>2
  <2>15. ASSUME NEW m \in lo .. l + 1 - 1, Body(t, m) # 0
         PROVE  \E i \in 1 .. n + 1 : more[i].line = m
    <3>1. CASE m = l
      <4>1. n + 1 \in 1 .. n + 1
        BY <2>3
      <4> QED BY <2>4, <2>9, <3>1, <4>1
    <3>2. CASE m # l
      <4>1. m \in lo .. l - 1
        BY <1>4, <3>2
      <4>2. PICK i \in 1 .. n : g[i].line = m
        BY <2>8, <2>15, <4>1
      <4>3. i \in 1 .. n + 1 /\ more[i] = g[i]
        BY <2>3, <2>9, <4>2
      <4> QED BY <4>2, <4>3
    <3> QED BY <3>1, <3>2
  <2>16. lo \in Nat /\ l + 1 \in Nat /\ lo <= l + 1
    BY <1>4
  <2>17. Formed(t, ll2, lo, l + 1)
    <3>1. Made(t, x, more, lo, l + 1)
      BY <2>9, <2>12, <2>13, <2>14, <2>15 DEF Made
    <3> QED BY <1>6, <2>10, <2>16, <3>1 DEF Formed
  <2> QED BY <2>17 DEF ll2, chunk, b, line
<1> QED BY <1>8, <1>9

\* The logical lines ls lie one after the other over the lines of the text; line b[m]
\* is the first one after the m-th.
Laid(t, ls, b) ==
  /\ ls \in Seq(LogicalSet)
  /\ b[0] = 0 /\ \A m \in 0 .. Len(ls) : b[m] \in Nat
  /\ \A m \in 1 .. Len(ls) : b[m - 1] < b[m] /\ Formed(t, ls[m], b[m - 1], b[m])

\* One more is laid behind them.
LEMMA LaidAppend ==
  ASSUME NEW t, NEW ls, NEW b, Laid(t, ls, b), NEW ll, NEW hi,
         b[Len(ls)] < hi, Formed(t, ll, b[Len(ls)], hi)
  PROVE  \E c : Laid(t, Append(ls, ll), c) /\ c[Len(ls) + 1] = hi
<1> DEFINE n == Len(ls)
           c == [m \in 0 .. n + 1 |-> IF m = n + 1 THEN hi ELSE b[m]]
           more == Append(ls, ll)
<1>1. ls \in Seq(LogicalSet) /\ n \in Nat /\ ll \in LogicalSet /\ hi \in Nat
  BY DEF Laid, Formed
<1>2. /\ b[0] = 0 /\ \A m \in 0 .. n : b[m] \in Nat
      /\ \A m \in 1 .. n : b[m - 1] < b[m] /\ Formed(t, ls[m], b[m - 1], b[m])
  BY DEF Laid
<1>3. more \in Seq(LogicalSet) /\ Len(more) = n + 1 /\ more[n + 1] = ll
      /\ \A m \in 1 .. n : more[m] = ls[m]
  BY <1>1
<1>4. c[n + 1] = hi /\ \A m \in 0 .. n : c[m] = b[m]
  BY <1>1
<1> HIDE DEF c, more
<1>5. \A m \in 0 .. n + 1 : c[m] \in Nat
  <2> SUFFICES ASSUME NEW m \in 0 .. n + 1 PROVE c[m] \in Nat
    OBVIOUS
  <2>1. m = n + 1 \/ m \in 0 .. n
    BY <1>1
  <2> QED BY <1>1, <1>2, <1>4, <2>1
<1>6. ASSUME NEW m \in 1 .. n + 1
      PROVE  c[m - 1] < c[m] /\ Formed(t, more[m], c[m - 1], c[m])
  <2>1. m - 1 \in 0 .. n
    BY <1>1
  <2>2. CASE m \in 1 .. n
    <3>1. m \in 0 .. n
      BY <2>2
    <3> QED BY <1>2, <1>3, <1>4, <2>1, <2>2, <3>1
  <2>3. CASE m = n + 1
    <3>1. m - 1 = n
      BY <1>1, <2>3
    <3>2. c[m - 1] = b[n] /\ c[m] = hi /\ more[m] = ll
      BY <1>3, <1>4, <2>1, <2>3, <3>1
    <3> QED BY <3>2
  <2> QED BY <1>1, <2>2, <2>3
<1>7. 0 \in 0 .. n
  BY <1>1
<1>8. Laid(t, more, c)
  BY <1>2, <1>3, <1>4, <1>5, <1>6, <1>7 DEF Laid
<1> QED BY <1>4, <1>8 DEF more

\* What the joiner has made of the lines before n
BuiltTo(t, n) ==
  {acc \in Joins : \E b : Laid(t, acc.done, b) /\ Formed(t, acc.current, b[Len(acc.done)], n)}

\* build_logical_lines, one line
LEMMA JoinedKeeps ==
  ASSUME NEW t \in Text, NEW l \in Nat, NEW acc \in BuiltTo(t, l)
  PROVE  Joined(acc, OutLine(t, l), l) \in BuiltTo(t, l + 1)
<1> DEFINE line == OutLine(t, l)
           on == BodyEnd(line).on
           ll == PushChunk(acc.current, SubSeq(line, 1, Body(t, l)), l)
           next == Joined(acc, line, l)
<1>1. PICK b : Laid(t, acc.done, b) /\ Formed(t, acc.current, b[Len(acc.done)], l)
  BY DEF BuiltTo
<1>2. acc \in Joins
  BY DEF BuiltTo
<1>3. Formed(t, ll, b[Len(acc.done)], l + 1)
  BY <1>1, PushKeeps
<1>4. next = IF on THEN [acc EXCEPT !.current = ll]
             ELSE [current |-> EmptyLogical, done |-> Append(acc.done, ll)]
  BY DEF Joined, Body
<1>5. next \in Joins
  <2>1. OutLine(t, l) \in Text
    BY LineText
  <2> QED BY <1>2, <2>1, JoinedType
<1> HIDE DEF on, ll, next
<1>6. CASE on
  <2>1. next.current = ll /\ next.done = acc.done
    BY <1>2, <1>4, <1>6 DEF Joins
  <2>2. Laid(t, next.done, b) /\ Formed(t, next.current, b[Len(next.done)], l + 1)
    BY <1>1, <1>3, <2>1
  <2>3. next \in BuiltTo(t, l + 1)
    BY <1>5, <2>2 DEF BuiltTo
  <2> QED BY <2>3 DEF next
<1>7. CASE ~on
  <2>1. next.current = EmptyLogical /\ next.done = Append(acc.done, ll)
    BY <1>4, <1>7
  <2>2. b[Len(acc.done)] < l + 1 /\ acc.done \in Seq(LogicalSet)
    <3>1. b[Len(acc.done)] \in Nat /\ b[Len(acc.done)] <= l
      BY <1>1 DEF Formed
    <3>2. acc.done \in Seq(LogicalSet)
      BY <1>1 DEF Laid
    <3> QED BY <3>1, <3>2
  <2>3. PICK c : Laid(t, Append(acc.done, ll), c) /\ c[Len(acc.done) + 1] = l + 1
    <3> DEFINE ls == acc.done
               hi == l + 1
    <3>1. Laid(t, ls, b) /\ Formed(t, ll, b[Len(ls)], hi) /\ b[Len(ls)] < hi
      BY <1>1, <1>3, <2>2
    <3> HIDE DEF ls, hi
    <3>2. \E c : Laid(t, Append(ls, ll), c) /\ c[Len(ls) + 1] = hi
      BY <3>1, LaidAppend
    <3> QED BY <3>2 DEF ls, hi
  <2>4. Len(next.done) = Len(acc.done) + 1
    BY <2>1, <2>2
  <2>5. l + 1 \in Nat
    OBVIOUS
  <2>6. Formed(t, EmptyLogical, l + 1, l + 1)
    BY <2>5, EmptyFormed
  <2>7. Laid(t, next.done, c) /\ Formed(t, next.current, c[Len(next.done)], l + 1)
    BY <2>1, <2>3, <2>4, <2>6
  <2>8. next \in BuiltTo(t, l + 1)
    BY <1>5, <2>7 DEF BuiltTo
  <2> QED BY <2>8 DEF next
<1> QED BY <1>6, <1>7

\* What it returns, with what is still open at the end of the text
LEMMA LogicalLinesBuilt ==
  ASSUME NEW t \in Text
  PROVE  \E acc \in BuiltTo(t, LineCount(t)) :
           LogicalLines(t) = IF acc.current.segments # <<>>
                               THEN Append(acc.done, acc.current) ELSE acc.done
<1> DEFINE n == LineCount(t)
           start == [current |-> EmptyLogical, done |-> <<>>]
           S == [i \in 0 .. n |-> BuiltTo(t, i)]
           step == [i \in 1 .. n |-> [x \in Joins |-> Joined(x, OutLine(t, i - 1), i - 1)]]
           Runs(g) == g = [i \in 0 .. n |-> IF i = 0 THEN start
                                            ELSE Joined(g[i - 1], OutLine(t, i - 1), i - 1)]
           joined == CHOOSE g : Runs(g)
<1>1. n \in Nat /\ start \in BuiltTo(t, 0)
  <2>1. n \in Nat
    BY LineText
  <2>2. EmptyLogical \in LogicalSet
    BY DEF EmptyLogical, LogicalSet, Text
  <2>3. start \in Joins /\ start.done = <<>> /\ start.current = EmptyLogical
    BY <2>2 DEF Joins
  <2> DEFINE b == [m \in 0 .. 0 |-> 0]
  <2>4. b[0] = 0 /\ Len(start.done) = 0
    BY <2>3
  <2>5. Laid(t, <<>>, b)
    BY DEF Laid
  <2> HIDE DEF b
  <2>6. Formed(t, EmptyLogical, 0, 0)
    BY EmptyFormed
  <2>7. Formed(t, start.current, b[Len(start.done)], 0)
    BY <2>3, <2>4, <2>6
  <2> HIDE DEF start
  <2>8. start \in BuiltTo(t, 0)
    BY <2>3, <2>5, <2>7 DEF BuiltTo
  <2> QED BY <2>1, <2>8
<1>2. ASSUME NEW i \in 1 .. n, NEW x \in BuiltTo(t, i - 1)
      PROVE  Joined(x, OutLine(t, i - 1), i - 1) \in BuiltTo(t, i)
  <2>1. i - 1 \in Nat /\ i - 1 + 1 = i
    BY <1>1
  <2>2. Joined(x, OutLine(t, i - 1), i - 1) \in BuiltTo(t, i - 1 + 1)
    BY <2>1, JoinedKeeps
  <2> QED BY <2>1, <2>2
<1>3. \A i \in 0 .. n : S[i] = BuiltTo(t, i)
  OBVIOUS
<1>4. \A i \in 1 .. n : \A x \in BuiltTo(t, i - 1) : step[i][x] = Joined(x, OutLine(t, i - 1), i - 1)
  BY DEF BuiltTo
<1>5. LogicalLines(t) = IF joined[n].current.segments # <<>>
                          THEN Append(joined[n].done, joined[n].current) ELSE joined[n].done
  BY DEF LogicalLines
<1> HIDE DEF n, S, start, step, joined
<1>6. \A i \in 1 .. n : i - 1 \in 0 .. n /\ i \in 0 .. n /\ i # 0
  BY <1>1
<1>7. PICK f : Unfolds(f, n, S, start, step)
  <2>1. start \in S[0]
    BY <1>1, <1>3
  <2>2. \A i \in 1 .. n : \A x \in S[i - 1] : step[i][x] \in S[i]
    BY <1>2, <1>3, <1>4, <1>6
  <2> QED BY <1>1, <2>1, <2>2, Recursion
<1>8. /\ f = [i \in 0 .. n |-> f[i]] /\ f[0] = start
      /\ \A i \in 1 .. n : f[i - 1] \in S[i - 1] /\ f[i] = step[i][f[i - 1]]
  BY <1>7 DEF Unfolds
<1>9. Runs(f)
  <2>1. ASSUME NEW i \in 0 .. n
        PROVE  f[i] = IF i = 0 THEN start ELSE Joined(f[i - 1], OutLine(t, i - 1), i - 1)
    <3>1. CASE i = 0
      BY <1>8, <3>1
    <3>2. CASE i # 0
      <4>1. i \in 1 .. n
        BY <1>1, <3>2
      <4>2. f[i] = step[i][f[i - 1]] /\ f[i - 1] \in BuiltTo(t, i - 1)
        BY <1>3, <1>6, <1>8, <4>1
      <4> QED BY <1>4, <3>2, <4>1, <4>2
    <3> QED BY <3>1, <3>2
  <2> QED BY <1>8, <2>1
<1>10. Runs(joined)
  <2> HIDE DEF Runs
  <2> QED BY <1>9 DEF joined
<1>11. /\ joined[0] = start
       /\ \A i \in 1 .. n : joined[i] = Joined(joined[i - 1], OutLine(t, i - 1), i - 1)
  <2>1. 0 \in 0 .. n
    BY <1>1
  <2>2. \A i \in 0 .. n : joined[i] = IF i = 0 THEN start ELSE Joined(joined[i - 1], OutLine(t, i - 1), i - 1)
    BY <1>10
  <2> HIDE DEF Runs
  <2> QED BY <1>6, <2>1, <2>2
<1> HIDE DEF Runs
<1>12. \A i \in 0 .. n : joined[i] \in BuiltTo(t, i)
  <2>1. ASSUME NEW i \in 1 .. n, joined[i - 1] \in S[i - 1] PROVE joined[i] \in S[i]
    <3>1. joined[i] = Joined(joined[i - 1], OutLine(t, i - 1), i - 1) /\ joined[i - 1] \in BuiltTo(t, i - 1)
      BY <1>3, <1>6, <1>11, <2>1
    <3>2. joined[i] \in BuiltTo(t, i)
      BY <1>2, <3>1
    <3> QED BY <1>3, <1>6, <3>2
  <2>0. joined[0] \in S[0]
    BY <1>1, <1>3, <1>11
  <2>2. \A i \in 0 .. n : joined[i] \in S[i]
    BY <1>1, <2>0, <2>1, StaysIn
  <2> QED BY <1>3, <2>2
<1>13. joined[n] \in BuiltTo(t, n)
  <2>1. n \in 0 .. n
    BY <1>1
  <2> QED BY <1>12, <2>1
<1> QED BY <1>5, <1>13 DEF n

\* build_logical_lines: the logical lines of a text lie one after the other over its
\* lines, and hold what these contribute.
LEMMA LogicalLinesLaid ==
  ASSUME NEW t \in Text
  PROVE  \E b : Laid(t, LogicalLines(t), b) /\ b[Len(LogicalLines(t))] <= LineCount(t)
<1> DEFINE n == LineCount(t)
<1>1. n \in Nat
  BY LineText
<1>2. PICK acc \in BuiltTo(t, n) :
        LogicalLines(t) = IF acc.current.segments # <<>>
                            THEN Append(acc.done, acc.current) ELSE acc.done
  BY LogicalLinesBuilt
<1> HIDE DEF n
<1>3. PICK b : Laid(t, acc.done, b) /\ Formed(t, acc.current, b[Len(acc.done)], n)
  BY DEF BuiltTo
<1>4. b[Len(acc.done)] \in Nat /\ b[Len(acc.done)] <= n /\ acc.done \in Seq(LogicalSet)
  BY <1>3 DEF Formed, Laid
<1>5. CASE acc.current.segments = <<>>
  <2>1. LogicalLines(t) = acc.done
    BY <1>2, <1>5
  <2> QED BY <1>3, <1>4, <2>1 DEF n
<1>6. CASE acc.current.segments # <<>>
  <2> DEFINE g == acc.current.segments
  <2>1. LogicalLines(t) = Append(acc.done, acc.current)
    BY <1>2, <1>6
  <2>2. b[Len(acc.done)] < n
    <3>1. g \in Seq(Segments) /\ Made(t, acc.current.text, g, b[Len(acc.done)], n)
      BY <1>3 DEF Formed, LogicalSet
    <3>2. 1 \in DOMAIN g /\ g[1] \in Segments
      BY <1>6, <3>1
    <3>3. b[Len(acc.done)] <= g[1].line /\ g[1].line < n /\ g[1].line \in Nat
      BY <3>1, <3>2 DEF Made, Segments
    <3> QED BY <1>1, <1>4, <3>3
  <2>3. PICK c : Laid(t, Append(acc.done, acc.current), c) /\ c[Len(acc.done) + 1] = n
    BY <1>3, <2>2, LaidAppend
  <2>4. Len(LogicalLines(t)) = Len(acc.done) + 1
    BY <1>4, <2>1
  <2>5. c[Len(LogicalLines(t))] <= n
    BY <1>1, <2>3, <2>4
  <2> QED BY <2>1, <2>3, <2>5 DEF n
<1> QED BY <1>5, <1>6

\* The ranges of the logical lines are finitely many.
LEMMA ContinuationRangesFinite ==
  ASSUME NEW t \in Text
  PROVE  ContinuationRanges(t) \in SUBSET RegionSet /\ IsFiniteSet(ContinuationRanges(t))
<1> DEFINE logicals == LogicalLines(t)
           all == ToSet(logicals)
           long == {x \in all : FirstLine(x) < LastLine(x)}
           Of(ll) == [start |-> FirstLine(ll), end |-> LastLine(ll), kind |-> "none"]
<1>1. logicals \in Seq(LogicalSet)
  <2>1. PICK b : Laid(t, logicals, b)
    BY LogicalLinesLaid
  <2> QED BY <2>1 DEF Laid
<1>2. ContinuationRanges(t) = {Of(ll) : ll \in long}
  BY DEF ContinuationRanges
<1> HIDE DEF logicals
<1>3. IsFiniteSet(all) /\ all \in SUBSET LogicalSet
  <2>1. IsFiniteSet({logicals[i] : i \in DOMAIN logicals})
    BY <1>1, EntriesCount
  <2> QED BY <1>1, <2>1 DEF ToSet
<1> HIDE DEF all
<1>4. IsFiniteSet(long) /\ long \in SUBSET LogicalSet
  <2>1. long \in SUBSET all
    OBVIOUS
  <2> QED BY <1>3, <2>1, FS_Subset
<1> HIDE DEF long
<1>5. ASSUME NEW ll \in LogicalSet PROVE Of(ll) \in RegionSet
  <2>1. ll.segments \in Seq(Segments)
    BY DEF LogicalSet
  <2> DEFINE g == ll.segments
  <2>2. ASSUME g # <<>> PROVE Head(g).line \in Nat /\ Last(g).line \in Nat
    <3>1. g[1] \in Segments /\ g[Len(g)] \in Segments
      BY <2>1, <2>2
    <3>2. Head(g) = g[1] /\ Last(g) = g[Len(g)]
      BY <2>1, <2>2 DEF Last
    <3> QED BY <3>1, <3>2 DEF Segments
  <2>3. FirstLine(ll) \in Nat /\ LastLine(ll) \in Nat
    BY <2>2 DEF FirstLine, LastLine
  <2> QED BY <2>3 DEF RegionSet
<1> HIDE DEF Of
<1> DEFINE T == {Of(ll) : ll \in long}
           f == [ll \in long |-> Of(ll)]
<1>6. f \in [long -> T] /\ \A x \in T : \E ll \in long : f[ll] = x
  OBVIOUS
<1>7. T \in SUBSET RegionSet
  BY <1>4, <1>5
<1> HIDE DEF T, f
<1>8. f \in Surjection(long, T)
  BY <1>6, Fun_IsSurj
<1>9. IsFiniteSet(T)
  BY <1>4, <1>8, FS_Surjection
<1> QED BY <1>2, <1>7, <1>9 DEF T

\* The folding ranges are within the cap.
LEMMA FoldingRangesFew ==
  ASSUME NEW t \in Text
  PROVE  Cardinality(FoldingRanges(t)) <= MaxFoldings
<1> DEFINE Earlier(a, b) ==
             \/ a.start < b.start
             \/ a.start = b.start /\ a.end > b.end
             \/ a.start = b.start /\ a.end = b.end /\ a.kind = "none" /\ b.kind = "region"
           R == {p \in RegionSet \X RegionSet : Earlier(p[1], p[2])}
           all == BraceRegions(t) \cup ContinuationRanges(t)
           K == {r \in all : Cardinality({s \in all : Earlier(s, r)}) < MaxFoldings}
<1>1. FoldingRanges(t) = K
  BY DEF FoldingRanges
<1>2. IsFiniteSet(all) /\ all \in SUBSET RegionSet
  <2>1. Events(t) \in Seq(EventSet)
    BY EventsOrdered
  <2>2. BraceRegions(t) \in SUBSET RegionSet /\ IsFiniteSet(BraceRegions(t))
    BY <2>1, RegionsAre DEF BraceRegions
  <2>3. ContinuationRanges(t) \in SUBSET RegionSet /\ IsFiniteSet(ContinuationRanges(t))
    BY ContinuationRangesFinite
  <2> QED BY <2>2, <2>3, FS_Union
<1> HIDE DEF all
<1>3. \A a, b \in RegionSet : <<a, b>> \in R <=> Earlier(a, b)
  OBVIOUS
<1> HIDE DEF R
<1>4. \A a \in RegionSet : /\ a.start \in Nat /\ a.end \in Nat /\ a.kind \in {"none", "region"}
                           /\ a = [start |-> a.start, end |-> a.end, kind |-> a.kind]
  BY DEF RegionSet
<1>5. ASSUME NEW a \in RegionSet, NEW b \in RegionSet, a # b PROVE Earlier(a, b) \/ Earlier(b, a)
  <2>1. a.start # b.start \/ a.end # b.end \/ a.kind # b.kind
    BY <1>4, <1>5
  <2>2. a.start < b.start \/ b.start < a.start \/ a.start = b.start
    BY <1>4
  <2>3. a.end > b.end \/ b.end > a.end \/ a.end = b.end
    BY <1>4
  <2>4. a.kind \in {"none", "region"} /\ b.kind \in {"none", "region"}
    BY <1>4
  <2> QED BY <2>1, <2>2, <2>3, <2>4
<1>6. ASSUME NEW a \in RegionSet, NEW b \in RegionSet, NEW c \in RegionSet, Earlier(a, b), Earlier(b, c)
      PROVE  Earlier(a, c)
  <2>1. /\ a.start \in Nat /\ b.start \in Nat /\ c.start \in Nat
        /\ a.end \in Nat /\ b.end \in Nat /\ c.end \in Nat
    BY <1>4
  <2> QED BY <1>6, <2>1
<1> HIDE DEF Earlier
<1>7. Orders(R, all)
  <2>1. ASSUME NEW a \in all, NEW b \in all, a # b PROVE <<a, b>> \in R \/ <<b, a>> \in R
    BY <1>2, <1>3, <1>5, <2>1
  <2>2. ASSUME NEW a \in all, NEW b \in all, NEW c \in all, <<a, b>> \in R, <<b, c>> \in R
        PROVE  <<a, c>> \in R
    <3>1. a \in RegionSet /\ b \in RegionSet /\ c \in RegionSet
      BY <1>2
    <3>2. Earlier(a, b) /\ Earlier(b, c)
      BY <1>3, <2>2, <3>1
    <3> QED BY <1>3, <1>6, <3>1, <3>2
  <2> QED BY <2>1, <2>2 DEF Orders
<1>8. K = {r \in all : Cardinality({s \in all : <<s, r>> \in R}) < MaxFoldings}
  <2>1. \A r \in all : {s \in all : Earlier(s, r)} = {s \in all : <<s, r>> \in R}
    BY <1>2, <1>3
  <2> QED BY <2>1
<1>9. MaxFoldings \in Nat
  BY ScriptAssumption
<1> HIDE DEF K
<1>10. Cardinality(K) <= MaxFoldings
  BY <1>2, <1>7, <1>8, <1>9, FirstFew
<1> QED BY <1>1, <1>10

-----------------------------------------------------------------------------
(* The document *)

\* What the edits of a rename leave is text.
LEMMA AppliedText ==
  ASSUME NEW t \in Text, NEW ranges, NEW new \in Text
  PROVE  Applied(t, ranges, new) \in Text
<1> DEFINE spans == {[from |-> ClientOffset(t, r.start), to |-> ClientOffset(t, r.end)] : r \in ranges}
           Put(out, i) == CASE \E s \in spans : s.from + 1 = i -> out \o new
                            [] \E s \in spans : s.from + 1 < i /\ i <= s.to -> out
                            [] OTHER -> Append(out, t[i])
           n == Len(t)
           start == <<>>
           S == [i \in 0 .. n |-> Text]
           step == [i \in 1 .. n |-> [x \in Text |-> Put(x, i)]]
           Runs(g) == g = [i \in 0 .. n |-> IF i = 0 THEN start ELSE Put(g[i - 1], i)]
           put == CHOOSE g : Runs(g)
<1>5. Applied(t, ranges, new) = put[n]
  BY DEF Applied
<1> HIDE DEF spans
<1>1. n \in Nat /\ start \in Text
  BY DEF Text
<1>2. ASSUME NEW i \in 1 .. n, NEW x \in Text PROVE Put(x, i) \in Text
  <2>1. t[i] \in Chars
    BY DEF Text
  <2>2. x \o new \in Text /\ Append(x, t[i]) \in Text
    BY <2>1 DEF Text
  <2> QED BY <2>2
<1>3. \A i \in 0 .. n : S[i] = Text
  OBVIOUS
<1>4. \A i \in 1 .. n : \A x \in Text : step[i][x] = Put(x, i)
  OBVIOUS
<1> HIDE DEF Put
<1> HIDE DEF n, S, start, step, put
<1>6. \A i \in 1 .. n : i - 1 \in 0 .. n /\ i \in 0 .. n /\ i # 0
  BY <1>1
<1>7. PICK f : Unfolds(f, n, S, start, step)
  <2>1. start \in S[0]
    BY <1>1, <1>3
  <2>2. \A i \in 1 .. n : \A x \in S[i - 1] : step[i][x] \in S[i]
    BY <1>2, <1>3, <1>4, <1>6
  <2> QED BY <1>1, <2>1, <2>2, Recursion
<1>8. /\ f = [i \in 0 .. n |-> f[i]] /\ f[0] = start
      /\ \A i \in 1 .. n : f[i - 1] \in S[i - 1] /\ f[i] = step[i][f[i - 1]]
  BY <1>7 DEF Unfolds
<1>9. Runs(f)
  <2>1. ASSUME NEW i \in 0 .. n
        PROVE  f[i] = IF i = 0 THEN start ELSE Put(f[i - 1], i)
    <3>1. CASE i = 0
      BY <1>8, <3>1
    <3>2. CASE i # 0
      <4>1. i \in 1 .. n
        BY <1>1, <3>2
      <4>2. f[i] = step[i][f[i - 1]] /\ f[i - 1] \in Text
        BY <1>3, <1>6, <1>8, <4>1
      <4> QED BY <1>4, <3>2, <4>1, <4>2
    <3> QED BY <3>1, <3>2
  <2> QED BY <1>8, <2>1
<1>10. Runs(put)
  <2> HIDE DEF Runs
  <2> QED BY <1>9 DEF put
<1>11. /\ put[0] = start
       /\ \A i \in 1 .. n : put[i] = Put(put[i - 1], i)
  <2>1. 0 \in 0 .. n
    BY <1>1
  <2>2. \A i \in 0 .. n : put[i] = IF i = 0 THEN start ELSE Put(put[i - 1], i)
    BY <1>10
  <2> HIDE DEF Runs
  <2> QED BY <1>6, <2>1, <2>2
<1> HIDE DEF Runs
<1>12. \A i \in 0 .. n : put[i] \in Text
  <2>1. ASSUME NEW i \in 1 .. n, put[i - 1] \in S[i - 1] PROVE put[i] \in S[i]
    <3>1. put[i] = Put(put[i - 1], i) /\ put[i - 1] \in Text
      BY <1>3, <1>6, <1>11, <2>1
    <3>2. put[i] \in Text
      BY <1>2, <3>1
    <3> QED BY <1>3, <1>6, <3>2
  <2>0. put[0] \in S[0]
    BY <1>1, <1>3, <1>11
  <2>2. \A i \in 0 .. n : put[i] \in S[i]
    BY <1>1, <2>0, <2>1, StaysIn
  <2> QED BY <1>3, <2>2
<1> QED
  <2>1. n \in 0 .. n
    BY <1>1
  <2> QED BY <1>5, <1>12, <2>1

\* Whatever is asked, the document stays a text.
LEMMA TextStays == Spec => [](text \in Text)
<1>1. Init => text \in Text
  BY DEF Init, Text
<1>2. text \in Text /\ [Next]_vars => (text \in Text)'
  <2> SUFFICES ASSUME text \in Text, [Next]_vars PROVE text' \in Text
    OBVIOUS
  <2>1. ASSUME NEW f \in Typed, Type(f) PROVE text' \in Text
    <3>1. f \in Text
      BY NavigationAssumption
    <3> QED BY <2>1, <3>1 DEF Type, Text
  <2>2. ASSUME Ask PROVE text' \in Text
    <3>1. PICK logicals, index, occ :
            \/ GotoDefinition(logicals, index, occ)
            \/ \E declaration \in BOOLEAN : FindReferences(logicals, index, occ, declaration)
            \/ \E raw \in NewNames : Rename(logicals, index, occ, CleanedNewName(raw))
      BY <2>2 DEF Ask
    <3>2. CASE GotoDefinition(logicals, index, occ)
      BY <3>2 DEF GotoDefinition
    <3>3. ASSUME NEW declaration \in BOOLEAN, FindReferences(logicals, index, occ, declaration)
          PROVE  text' \in Text
      BY <3>3 DEF FindReferences
    <3>4. ASSUME NEW raw \in NewNames, Rename(logicals, index, occ, CleanedNewName(raw))
          PROVE  text' \in Text
      <4> DEFINE new == CleanedNewName(raw)
                 ranges == {WireRange(text, logicals, h) : h \in RenameHits(index, occ)}
                 bare == IF raw # <<>> /\ Head(raw) = Dollar THEN Tail(raw) ELSE raw
      <4>1. new # Invalid /\ text' = Applied(text, ranges, new)
        BY <3>4 DEF Rename
      <4>2. bare \in Text
        <5>1. raw \in Text
          BY NavigationAssumption
        <5> QED BY <5>1 DEF Text
      <4>3. new = bare \/ new = Invalid
        <5>1. new = IF bare # <<>> /\ ToSet(bare) \subseteq Ident THEN bare ELSE Invalid
          BY DEF CleanedNewName
        <5> HIDE DEF new, bare
        <5> QED BY <5>1
      <4> HIDE DEF new, ranges, bare
      <4> QED BY <4>1, <4>2, <4>3, AppliedText
    <3> QED BY <3>1, <3>2, <3>3, <3>4
  <2>3. CASE UNCHANGED vars
    BY <2>3 DEF vars
  <2> QED BY <2>1, <2>2, <2>3 DEF Next
<1> QED BY <1>1, <1>2, PTL DEF Spec

\* parser.rs, walk_structure with record_syntax_finding (diagnostics.rs) and
\* brace_regions (folding.rs): whatever the client has typed and renamed, the syntax
\* diagnostics are the earliest of the braces without partner and the string that the
\* text ends in, and count them all, and the regions that fold are the pairs of braces
\* on different lines, where the depth the code tracks is not exceeded; in every text
\* only braces without partner are reported, and no closing brace after the depth was
\* exceeded; and no more ranges fold than the cap.
THEOREM StructureAgreesAlways == Spec => []StructureAgrees
<1>1. text \in Text => StructureAgrees
  <2> SUFFICES ASSUME text \in Text PROVE StructureAgrees
    OBVIOUS
  <2> DEFINE ev == Events(text)
             pairs == Partners(ev)
             places == {i \in DOMAIN ev : \A p \in pairs : p[1] # i /\ p[2] # i}
             lonely == {ev[i] : i \in places}
             regions == {p \in pairs : ev[p[1]].line < ev[p[2]].line}
             found == Findings(text)
  <2>1. ev \in Seq(EventSet) /\ Ordered(ev)
    BY EventsOrdered
  <2>2. found = FindingsOf(ev) /\ BraceRegions(text) = RegionsOf(ev)
    BY DEF Findings, BraceRegions
  <2> HIDE DEF ev, found
  <2>3. lonely = At(ev, Lonely(ev))
    BY DEF At, Lonely
  <2>4. PICK J \in SUBSET Lonely(ev) :
          /\ ToSet(found.kept) =
               {e \in At(ev, J) : Cardinality({f \in At(ev, J) : Before(f, e)}) < MaxFindings}
          /\ found.n = Cardinality(At(ev, J))
          /\ \A i \in J : ev[i].kind = "close" => \A m \in 1 .. i : ~Over(ev, m)
          /\ ~Deep(ev) => J = Lonely(ev)
    BY <2>1, <2>2, FindingsAre
  <2>5. ASSUME ~Deep(ev)
        PROVE  /\ ToSet(found.kept) = {e \in lonely :
                     Cardinality({f \in lonely : Before(f, e)}) < MaxFindings}
               /\ found.n = Cardinality(lonely)
               /\ BraceRegions(text) =
                    {[start |-> ev[p[1]].line, end |-> ev[p[2]].line, kind |-> "region"] :
                       p \in regions}
    <3>1. RegionsOf(ev) = {[start |-> ev[p[1]].line, end |-> ev[p[2]].line, kind |-> "region"] :
                             p \in regions}
      BY <2>1, <2>5, RegionsAre
    <3>2. At(ev, J) = lonely
      BY <2>3, <2>4, <2>5
    <3> DEFINE A == At(ev, J)
    <3>3. /\ ToSet(found.kept) = {e \in A : Cardinality({f \in A : Before(f, e)}) < MaxFindings}
          /\ found.n = Cardinality(A) /\ A = lonely
      BY <2>4, <3>2
    <3> HIDE DEF A, regions, lonely
    <3> QED BY <2>2, <3>1, <3>3
  <2>6. \A e \in ToSet(found.kept) : \E i \in J : e = ev[i]
    BY <2>4 DEF At
  <2>7. ToSet(found.kept) \subseteq lonely
    <3>1. J \subseteq places
      BY DEF Lonely
    <3> QED BY <2>6, <3>1
  <2>8. ASSUME NEW e \in ToSet(found.kept), NEW i \in DOMAIN ev, e.kind = "close", Over(ev, i)
        PROVE  Before(e, ev[i])
    <3>1. PICK j \in J : e = ev[j]
      BY <2>6
    <3>2. i \in 1 .. Len(ev) /\ j \in 1 .. Len(ev) /\ Len(ev) \in Nat /\ j \in DOMAIN ev
      <4>1. DOMAIN ev = 1 .. Len(ev) /\ Len(ev) \in Nat
        BY <2>1
      <4> QED BY <4>1 DEF Lonely
    <3>3. ~(i \in 1 .. j)
      BY <2>4, <2>8, <3>1
    <3>4. j < i
      BY <3>2, <3>3
    <3> QED BY <2>1, <3>1, <3>2, <3>4 DEF Ordered
  <2>9. Cardinality(FoldingRanges(text)) <= MaxFoldings
    BY FoldingRangesFew
  <2>10. \A e \in {Events(text)} : e = ev
    BY DEF ev
  <2>11. \A x \in {Findings(text)} : x = found
    BY DEF found
  <2> QED BY <2>5, <2>7, <2>8, <2>9, <2>10, <2>11 DEF StructureAgrees
<1> QED BY <1>1, TextStays, PTL

-----------------------------------------------------------------------------
(* Measures: DocSync_proofs has these facts for its own variables *)

Weights == [Chars -> Nat \ {0}]

\* f has the sums of the first characters of t, up to n of them.
Adds(w, t, n, f) == f = [k \in 0 .. n |-> IF k = 0 THEN 0 ELSE f[k - 1] + w[t[k]]]
Sums(w, t, f) ==
  /\ f[0] = 0
  /\ \A k \in 1 .. Len(t) : f[k] = f[k - 1] + w[t[k]] /\ w[t[k]] \in Nat \ {0}
  /\ \A k \in 0 .. Len(t) : f[k] \in Nat

\* The sums exist, and the total is the last of them.
LEMMA TotalAdds ==
  ASSUME NEW w, NEW t \in Text
  PROVE  \E f : Adds(w, t, Len(t), f) /\ Total(w, t) = f[Len(t)]
<1> DEFINE S == {n \in Nat : \E f : Adds(w, t, n, f)}
<1>1. 0 \in S
  <2>1. Adds(w, t, 0, [k \in 0 .. 0 |-> 0])
    BY DEF Adds
  <2> QED BY <2>1
<1>2. ASSUME NEW n \in Nat, n \in S PROVE n + 1 \in S
  <2>1. PICK f : Adds(w, t, n, f)
    BY <1>2
  <2> DEFINE g == [k \in 0 .. n + 1 |-> IF k = n + 1 THEN f[n] + w[t[n + 1]] ELSE f[k]]
  <2>2. Adds(w, t, n + 1, g)
    BY <2>1 DEF Adds
  <2> QED BY <2>2
<1>3. Len(t) \in Nat
  BY DEF Text
<1>4. Len(t) \in S
  <2> HIDE DEF S
  <2> QED BY <1>1, <1>2, <1>3, Induction
<1> DEFINE sum == CHOOSE f : Adds(w, t, Len(t), f)
<1>5. Adds(w, t, Len(t), sum)
  BY <1>4
<1>6. Total(w, t) = sum[Len(t)]
  BY DEF Total, Adds
<1> QED BY <1>5, <1>6

\* They are natural numbers that grow with every character.
LEMMA AddsType ==
  ASSUME NEW w \in Weights, NEW t \in Text, NEW f, Adds(w, t, Len(t), f)
  PROVE  Sums(w, t, f)
<1>1. Len(t) \in Nat /\ \A k \in 1 .. Len(t) : w[t[k]] \in Nat \ {0}
  BY DEF Text, Weights
<1>2. f[0] = 0 /\ \A k \in 1 .. Len(t) : f[k] = f[k - 1] + w[t[k]]
  BY <1>1 DEF Adds
<1> DEFINE S == {n \in Nat : n <= Len(t) => f[n] \in Nat}
<1>3. 0 \in S
  BY <1>2
<1>4. ASSUME NEW n \in Nat, n \in S PROVE n + 1 \in S
  BY <1>1, <1>2, <1>4
<1>5. Nat \subseteq S
  <2> HIDE DEF S
  <2> QED BY <1>3, <1>4, Induction
<1> QED BY <1>1, <1>2, <1>5 DEF Sums

\* Both at once
LEMMA TotalSums ==
  ASSUME NEW w \in Weights, NEW t \in Text
  PROVE  \E f : Sums(w, t, f) /\ Total(w, t) = f[Len(t)]
BY TotalAdds, AddsType

\* The sum of a prefix is a partial sum of the text.
LEMMA PrefixSum ==
  ASSUME NEW w \in Weights, NEW t \in Text, NEW f, Sums(w, t, f), NEW n \in 0 .. Len(t)
  PROVE  Total(w, Prefix(t, n)) = f[n]
<1> DEFINE p == Prefix(t, n)
<1>1. Len(t) \in Nat /\ n \in Nat /\ n <= Len(t)
  BY DEF Text
<1>2. p \in Text /\ Len(p) = n /\ \A k \in 1 .. n : p[k] = t[k]
  BY <1>1 DEF Text, Prefix
<1> HIDE DEF p
<1>3. PICK g : Sums(w, p, g) /\ Total(w, p) = g[n]
  BY <1>2, TotalSums
<1>4. g[0] = 0 /\ \A k \in 1 .. n : g[k] = g[k - 1] + w[t[k]]
  BY <1>2, <1>3 DEF Sums
<1>5. f[0] = 0 /\ \A k \in 1 .. n : f[k] = f[k - 1] + w[t[k]]
  BY <1>1 DEF Sums
<1> DEFINE S == {k \in Nat : k <= n => g[k] = f[k]}
<1>6. 0 \in S
  BY <1>4, <1>5
<1>7. ASSUME NEW k \in Nat, k \in S PROVE k + 1 \in S
  BY <1>1, <1>4, <1>5, <1>7
<1>8. Nat \subseteq S
  <2> HIDE DEF S
  <2> QED BY <1>6, <1>7, Induction
<1> QED BY <1>1, <1>3, <1>8 DEF p

\* What the prefixes of a text add up to grows with their length.
LEMMA PrefixesGrow ==
  ASSUME NEW w \in Weights, NEW t \in Text
  PROVE  /\ \A k \in 0 .. Len(t) : Total(w, Prefix(t, k)) \in Nat
         /\ \A i, j \in 0 .. Len(t) : i < j => Total(w, Prefix(t, i)) < Total(w, Prefix(t, j))
<1>1. PICK f : Sums(w, t, f) /\ Total(w, t) = f[Len(t)]
  BY TotalSums
<1>2. /\ \A k \in 0 .. Len(t) : f[k] \in Nat
      /\ \A k \in 1 .. Len(t) : f[k] = f[k - 1] + w[t[k]] /\ w[t[k]] \in Nat \ {0}
  BY <1>1 DEF Sums
<1>3. \A k \in 0 .. Len(t) : Total(w, Prefix(t, k)) = f[k]
  BY <1>1, PrefixSum
<1>4. Len(t) \in Nat
  BY DEF Text
<1>5. \A k \in 1 .. Len(t) : f[k - 1] < f[k]
  <2> SUFFICES ASSUME NEW k \in 1 .. Len(t) PROVE f[k - 1] < f[k]
    OBVIOUS
  <2>1. k - 1 \in 0 .. Len(t)
    BY <1>4
  <2>2. f[k - 1] \in Nat /\ f[k] = f[k - 1] + w[t[k]] /\ w[t[k]] \in Nat \ {0}
    BY <1>2, <2>1
  <2> QED BY <2>2
<1>6. \A i, j \in 0 .. Len(t) : i < j => f[i] < f[j]
  BY <1>2, <1>4, <1>5, StepsGrow
<1> QED BY <1>2, <1>3, <1>6

\* floor_char_boundary finds the character that the bytes of a prefix end with.
LEMMA FloorUndoes ==
  ASSUME NEW t \in Text, NEW k \in 0 .. Len(t)
  PROVE  Floor(t, Bytes(Prefix(t, k))) = k
<1>1. Width \in Weights
  BY CharsAssumption DEF Weights
<1>2. /\ \A j \in 0 .. Len(t) : Bytes(Prefix(t, j)) \in Nat
      /\ \A i, j \in 0 .. Len(t) : i < j => Bytes(Prefix(t, i)) < Bytes(Prefix(t, j))
  BY <1>1, PrefixesGrow DEF Bytes
<1>3. Len(t) \in Nat /\ k \in Nat
  BY DEF Text
<1>4. {j \in 1 .. Len(t) : Bytes(Prefix(t, j)) <= Bytes(Prefix(t, k))} = 1 .. k
  <2>1. ASSUME NEW j \in 1 .. Len(t)
        PROVE  Bytes(Prefix(t, j)) <= Bytes(Prefix(t, k)) <=> j <= k
    <3>1. j \in 0 .. Len(t) /\ j \in Nat
      BY <1>3
    <3>2. /\ Bytes(Prefix(t, j)) \in Nat /\ Bytes(Prefix(t, k)) \in Nat
          /\ j < k => Bytes(Prefix(t, j)) < Bytes(Prefix(t, k))
          /\ k < j => Bytes(Prefix(t, k)) < Bytes(Prefix(t, j))
      BY <1>2, <3>1
    <3>3. j < k \/ j = k \/ k < j
      BY <1>3, <3>1
    <3> QED BY <1>3, <3>1, <3>2, <3>3
  <2> QED BY <1>3, <2>1
<1> QED BY <1>3, <1>4, CountUpTo DEF Floor

\* utf16_to_byte_offset does with its code units.
LEMMA Utf16Undoes ==
  ASSUME NEW t \in Text, NEW k \in 0 .. Len(t)
  PROVE  Utf16ToOffset(t, Utf16(Prefix(t, k))) = k
<1>1. Units \in Weights
  BY CharsAssumption DEF Weights
<1>2. /\ \A j \in 0 .. Len(t) : Utf16(Prefix(t, j)) \in Nat
      /\ \A i, j \in 0 .. Len(t) : i < j => Utf16(Prefix(t, i)) < Utf16(Prefix(t, j))
  BY <1>1, PrefixesGrow DEF Utf16
<1>3. Len(t) \in Nat /\ k \in Nat
  BY DEF Text
<1>4. {j \in 1 .. Len(t) : Utf16(Prefix(t, j - 1)) < Utf16(Prefix(t, k))} = 1 .. k
  <2>1. ASSUME NEW j \in 1 .. Len(t)
        PROVE  Utf16(Prefix(t, j - 1)) < Utf16(Prefix(t, k)) <=> j <= k
    <3> DEFINE i == j - 1
    <3>1. i \in 0 .. Len(t) /\ i \in Nat /\ (j <= k <=> i < k)
      BY <1>3
    <3> HIDE DEF i
    <3>2. /\ Utf16(Prefix(t, i)) \in Nat /\ Utf16(Prefix(t, k)) \in Nat
          /\ i < k => Utf16(Prefix(t, i)) < Utf16(Prefix(t, k))
          /\ k < i => Utf16(Prefix(t, k)) < Utf16(Prefix(t, i))
      BY <1>2, <3>1
    <3>3. i < k \/ i = k \/ k < i
      BY <1>3, <3>1
    <3>4. Utf16(Prefix(t, i)) < Utf16(Prefix(t, k)) <=> j <= k
      BY <1>3, <3>1, <3>2, <3>3
    <3> QED BY <3>4 DEF i
  <2> QED BY <1>3, <2>1
<1> QED BY <1>3, <1>4, CountUpTo DEF Utf16ToOffset

\* lsp_character_to_byte_offset undoes the measure of a prefix, in either encoding.
LEMMA CharacterUndoes ==
  ASSUME NEW t \in Text, NEW k \in 0 .. Len(t), NEW e
  PROVE  CharacterToOffset(t, Measure(Prefix(t, k), e), e) = k
BY FloorUndoes, Utf16Undoes DEF CharacterToOffset, Measure

\* A position that was sent is the client's offset that it was made of.
LEMMA ClientReads ==
  ASSUME NEW t \in Text, NEW l \in Nat, NEW k \in 0 .. Len(OutLine(t, l))
  PROVE  /\ ClientOffset(t, ToWire(t, l, k, enc)) = LineStart(t, l) + k
         /\ CharacterToOffset(OutLine(t, l), ToWire(t, l, k, enc).character, enc) = k
         /\ ToWire(t, l, k, enc).line = l
<1> DEFINE line == OutLine(t, l)
           p == ToWire(t, l, k, enc)
<1>1. line \in Text
  BY LineText
<1>2. p = [line |-> l, character |-> Measure(Prefix(line, k), enc)]
  BY DEF ToWire
<1>3. \A m \in 0 .. Len(line) : CharacterToOffset(line, Measure(Prefix(line, m), enc), enc) = m
  <2> HIDE DEF line
  <2> QED BY <1>1, CharacterUndoes
<1>4. \A m \in 0 .. Len(line) : ToWire(t, l, m, enc) = [line |-> l, character |-> Measure(Prefix(line, m), enc)]
  BY DEF ToWire
<1>5. ClientOffset(t, p) =
        LineStart(t, p.line) +
          (CHOOSE m \in 0 .. Len(OutLine(t, p.line)) : ToWire(t, p.line, m, enc) = p)
  BY DEF ClientOffset
<1> HIDE DEF p
<1>6. p.line = l /\ p.character = Measure(Prefix(line, k), enc)
  BY <1>2
<1>7. (CHOOSE m \in 0 .. Len(line) : ToWire(t, l, m, enc) = p) = k
  <2>1. ToWire(t, l, k, enc) = p
    BY DEF p
  <2>2. ASSUME NEW m \in 0 .. Len(line), ToWire(t, l, m, enc) = p PROVE m = k
    <3>1. Measure(Prefix(line, m), enc) = Measure(Prefix(line, k), enc)
      <4>1. ToWire(t, l, m, enc).character = Measure(Prefix(line, m), enc)
        BY <1>4
      <4> QED BY <1>6, <2>2, <4>1
    <3> QED BY <1>3, <3>1
  <2> HIDE DEF line
  <2> QED BY <2>1, <2>2 DEF line
<1>8. CharacterToOffset(line, p.character, enc) = k
  BY <1>3, <1>6
<1>9. ClientOffset(t, p) = LineStart(t, l) + k
  BY <1>5, <1>6, <1>7
<1> QED BY <1>6, <1>8, <1>9 DEF p

-----------------------------------------------------------------------------
(* From a logical line to the text and back *)

\* The segments of a logical line, one by one and two by two
LEMMA SegmentsLie ==
  ASSUME NEW t \in Text, NEW ll, NEW lo, NEW hi, Formed(t, ll, lo, hi)
  PROVE  /\ ll.segments \in Seq(Segments) /\ ll.text \in Text
         /\ Len(ll.segments) \in Nat /\ DOMAIN ll.segments = 1 .. Len(ll.segments)
         /\ Len(ll.text) \in Nat /\ lo \in Nat /\ hi \in Nat
         /\ \A i \in DOMAIN ll.segments :
              /\ ll.segments[i].start \in Nat /\ ll.segments[i].len \in Nat \ {0}
              /\ ll.segments[i].line \in Nat
              /\ lo <= ll.segments[i].line /\ ll.segments[i].line < hi
              /\ ll.segments[i].len = Body(t, ll.segments[i].line)
              /\ ll.segments[i].start + ll.segments[i].len <= Len(ll.text)
         /\ \A i, j \in DOMAIN ll.segments :
              i < j => /\ ll.segments[i].line < ll.segments[j].line
                       /\ ll.segments[i].start + ll.segments[i].len <= ll.segments[j].start
                       /\ ll.segments[i].start < ll.segments[j].start
<1> DEFINE g == ll.segments
<1>1. g \in Seq(Segments) /\ ll.text \in Text /\ lo \in Nat /\ hi \in Nat
      /\ Made(t, ll.text, g, lo, hi)
  BY DEF Formed, LogicalSet
<1> HIDE DEF g
<1>2. Len(g) \in Nat /\ DOMAIN g = 1 .. Len(g) /\ Len(ll.text) \in Nat
  BY <1>1 DEF Text
<1>3. ASSUME NEW i \in DOMAIN g
      PROVE  /\ g[i].start \in Nat /\ g[i].len \in Nat \ {0} /\ g[i].line \in Nat
             /\ lo <= g[i].line /\ g[i].line < hi /\ g[i].len = Body(t, g[i].line)
             /\ g[i].start + g[i].len <= Len(ll.text)
  <2>1. g[i] \in Segments
    BY <1>1
  <2> QED BY <1>1, <2>1 DEF Made, Segments
<1>4. ASSUME NEW i \in DOMAIN g, NEW j \in DOMAIN g, i < j
      PROVE  /\ g[i].line < g[j].line /\ g[i].start + g[i].len <= g[j].start
             /\ g[i].start < g[j].start
  <2>1. g[i].line < g[j].line /\ g[i].start + g[i].len <= g[j].start
    BY <1>1, <1>4 DEF Made
  <2>2. g[i].start \in Nat /\ g[i].len \in Nat \ {0} /\ g[j].start \in Nat
    BY <1>3
  <2> QED BY <2>1, <2>2
<1> QED BY <1>1, <1>2, <1>3, <1>4 DEF g

\* Segment i of the logical line ll has its character k.
Has(ll, i, k) == ll.segments[i].start < k /\ k <= ll.segments[i].start + ll.segments[i].len

\* There is one, and only one.
LEMMA SegmentOf ==
  ASSUME NEW t \in Text, NEW ll, NEW lo, NEW hi, Formed(t, ll, lo, hi),
         NEW k \in 1 .. Len(ll.text)
  PROVE  /\ \E i \in DOMAIN ll.segments : Has(ll, i, k)
         /\ \A i, j \in DOMAIN ll.segments : Has(ll, i, k) /\ Has(ll, j, k) => i = j
<1>1. \E i \in DOMAIN ll.segments : Has(ll, i, k)
  BY DEF Formed, Made, Has
<1>2. ASSUME NEW i \in DOMAIN ll.segments, NEW j \in DOMAIN ll.segments,
             Has(ll, i, k), Has(ll, j, k), i < j
      PROVE  FALSE
  <2>1. ll.segments[i].start + ll.segments[i].len <= ll.segments[j].start
    BY <1>2, SegmentsLie
  <2>2. ll.segments[i].start \in Nat /\ ll.segments[i].len \in Nat /\ ll.segments[j].start \in Nat
    BY SegmentsLie
  <2>3. ll.segments[j].start < k /\ k <= ll.segments[i].start + ll.segments[i].len /\ k \in Nat
    BY <1>2 DEF Has
  <2> QED BY <2>1, <2>2, <2>3
<1>3. ASSUME NEW i \in DOMAIN ll.segments, NEW j \in DOMAIN ll.segments,
             Has(ll, i, k), Has(ll, j, k)
      PROVE  i = j
  <2>1. i \in Nat /\ j \in Nat
    BY SegmentsLie
  <2>2. ~(i < j) /\ ~(j < i)
    BY <1>2, <1>3
  <2> QED BY <2>1, <2>2
<1> QED BY <1>1, <1>3

\* LogicalLine::map_range: a beginning is mapped with the character after it, an end
\* with the one before.
LEMMA MapPosAt ==
  ASSUME NEW t \in Text, NEW ll, NEW lo, NEW hi, Formed(t, ll, lo, hi),
         NEW k \in 1 .. Len(ll.text), NEW i \in DOMAIN ll.segments, Has(ll, i, k)
  PROVE  /\ MapPos(ll, k - 1, TRUE)
              = [line |-> ll.segments[i].line, at |-> k - 1 - ll.segments[i].start]
         /\ MapPos(ll, k, FALSE)
              = [line |-> ll.segments[i].line, at |-> k - ll.segments[i].start]
<1> DEFINE g == ll.segments
           n == Len(g)
           first == {j \in DOMAIN g : g[j].start < k - 1 \/ (TRUE /\ g[j].start = k - 1)}
           second == {j \in DOMAIN g : g[j].start < k \/ (FALSE /\ g[j].start = k)}
<1>1. /\ n \in Nat /\ DOMAIN g = 1 .. n
      /\ \A j \in 1 .. n : g[j].start \in Nat /\ g[j].len \in Nat
      /\ \A j, m \in 1 .. n : j < m => g[j].start < g[m].start /\ g[j].start + g[j].len <= g[m].start
  BY SegmentsLie
<1>2. i \in 1 .. n /\ g[i].start < k /\ k <= g[i].start + g[i].len /\ k \in Nat
  BY <1>1 DEF Has
<1>3. MapPos(ll, k - 1, TRUE) = IF first = {} THEN [line |-> 0, at |-> 0]
        ELSE [line |-> g[Cardinality(first)].line, at |-> k - 1 - g[Cardinality(first)].start]
  BY DEF MapPos
<1>4. MapPos(ll, k, FALSE) = IF second = {} THEN [line |-> 0, at |-> 0]
        ELSE [line |-> g[Cardinality(second)].line, at |-> k - g[Cardinality(second)].start]
  BY DEF MapPos
<1>5. \A j \in 1 .. n : g[j].start < k <=> j <= i
  <2> HIDE DEF n, g
  <2> SUFFICES ASSUME NEW j \in 1 .. n PROVE g[j].start < k <=> j <= i
    OBVIOUS
  <2>1. g[j].start \in Nat /\ g[i].start \in Nat /\ g[i].len \in Nat /\ j \in Nat /\ i \in Nat
    BY <1>1, <1>2
  <2>2. (j < i => g[j].start < g[i].start) /\ (i < j => g[i].start + g[i].len <= g[j].start)
    BY <1>1, <1>2
  <2>3. j < i \/ j = i \/ i < j
    BY <2>1
  <2> QED BY <1>2, <2>1, <2>2, <2>3
<1>6. \A j \in 1 .. n : (g[j].start < k - 1 \/ g[j].start = k - 1) <=> g[j].start < k
  <2> HIDE DEF n, g
  <2> QED BY <1>1, <1>2
<1> HIDE DEF g, n
<1>7. first = 1 .. i /\ second = 1 .. i
  <2>1. \A j : j \in 1 .. i <=> j \in 1 .. n /\ j <= i
    BY <1>1, <1>2
  <2>2. \A j : j \in first <=> j \in 1 .. n /\ g[j].start < k
    BY <1>1, <1>6
  <2>3. \A j : j \in second <=> j \in 1 .. n /\ g[j].start < k
    BY <1>1
  <2> HIDE DEF first, second
  <2> QED BY <1>5, <2>1, <2>2, <2>3
<1> HIDE DEF first, second
<1>8. Cardinality(first) = i /\ Cardinality(second) = i /\ first # {} /\ second # {}
  <2>1. i \in Nat /\ 1 .. i # {}
    BY <1>1, <1>2
  <2> QED BY <1>7, <2>1, CountUpTo
<1> QED BY <1>3, <1>4, <1>8 DEF g

\* P[k] is the place in the text of character k of the logical line ll.
Placed(t, ll, P) ==
  /\ \A k \in 1 .. Len(ll.text) : P[k] \in Held(t) /\ P[k] \in Nat /\ t[P[k]] = ll.text[k]
  /\ \A a, b \in 1 .. Len(ll.text) : a < b => P[a] < P[b]
  /\ \A a, b \in 1 .. Len(ll.text) : \A x \in Held(t) :
       P[a] <= x /\ x <= P[b] => \E k \in 1 .. Len(ll.text) : P[k] = x
  /\ \A k \in 1 .. Len(ll.text) : \A i \in DOMAIN ll.segments :
       Has(ll, i, k) => P[k] = LineStart(t, ll.segments[i].line) + (k - ll.segments[i].start)

\* Every logical line has such places.
LEMMA PlacesOf ==
  ASSUME NEW t \in Text, NEW ll, NEW lo, NEW hi, Formed(t, ll, lo, hi), hi <= LineCount(t)
  PROVE  \E P : Placed(t, ll, P)
<1> DEFINE g == ll.segments
           n == Len(ll.text)
           seg == [k \in 1 .. n |-> CHOOSE i \in DOMAIN g : Has(ll, i, k)]
           P == [k \in 1 .. n |-> LineStart(t, g[seg[k]].line) + (k - g[seg[k]].start)]
           S(l) == LineStart(t, l)
           L(l) == Len(OutLine(t, l))
<1>1. /\ n \in Nat /\ hi \in Nat /\ lo \in Nat /\ LineCount(t) \in Nat
      /\ \A i \in DOMAIN g : /\ g[i].start \in Nat /\ g[i].len \in Nat \ {0} /\ g[i].line \in Nat
                             /\ lo <= g[i].line /\ g[i].line < hi
                             /\ g[i].len = Body(t, g[i].line) /\ g[i].start + g[i].len <= n
      /\ \A i, j \in DOMAIN g :
           i < j => g[i].line < g[j].line /\ g[i].start + g[i].len <= g[j].start
      /\ DOMAIN g \in SUBSET Nat
  <2>1. DOMAIN g \in SUBSET Nat
    BY SegmentsLie
  <2>2. LineCount(t) \in Nat
    BY LineText
  <2> QED BY <2>1, <2>2, SegmentsLie
<1>2. \A k \in 1 .. n : seg[k] \in DOMAIN g /\ Has(ll, seg[k], k)
  BY SegmentOf
<1>3. \A k \in 1 .. n : \A i \in DOMAIN g : Has(ll, i, k) => seg[k] = i
  <2> HIDE DEF seg, g
  <2> QED BY <1>2, SegmentOf DEF g
<1>4. \A k \in 1 .. n : P[k] = S(g[seg[k]].line) + (k - g[seg[k]].start)
  OBVIOUS
<1> HIDE DEF seg, P
<1>5. \A l \in Nat : /\ S(l) \in Nat /\ L(l) \in Nat /\ Body(t, l) \in Nat /\ Body(t, l) <= L(l)
                     /\ S(l) + L(l) <= Len(t)
                     /\ \A k \in 1 .. L(l) : t[S(l) + k] = OutLine(t, l)[k]
                     /\ \A m \in Nat : l < m /\ m < LineCount(t) => S(l) + L(l) <= S(m)
  BY LinesApart, BodyType
<1>6. Held(t) = {x \in DOMAIN t : \E l \in 0 .. LineCount(t) - 1 : S(l) < x /\ x <= S(l) + Body(t, l)}
  BY DEF Held, Body
<1>7. DOMAIN t = 1 .. Len(t) /\ Len(t) \in Nat
  BY DEF Text
<1>8. /\ \A i \in DOMAIN g : \A k \in 1 .. g[i].len :
           ll.text[g[i].start + k] = OutLine(t, g[i].line)[k]
      /\ \A l \in lo .. hi - 1 : Body(t, l) # 0 => \E i \in DOMAIN g : g[i].line = l
  BY DEF Formed, Made
<1> HIDE DEF S, L
<1> HIDE DEF g, n
\* Where a character is within its segment and on its line
<1>9. ASSUME NEW k \in 1 .. n
      PROVE  \E i \in DOMAIN g, j \in Nat :
               /\ j \in 1 .. g[i].len /\ seg[k] = i /\ k = g[i].start + j /\ P[k] = S(g[i].line) + j
               /\ g[i].line \in 0 .. LineCount(t) - 1 /\ g[i].line \in Nat
               /\ j <= Body(t, g[i].line) /\ j \in Nat /\ g[i].start \in Nat
  <2> DEFINE i == seg[k]
             j == k - g[i].start
  <2>1. i \in DOMAIN g /\ g[i].start < k /\ k <= g[i].start + g[i].len
    BY <1>2 DEF Has, g
  <2>2. /\ g[i].start \in Nat /\ g[i].len \in Nat /\ g[i].line \in Nat /\ g[i].line < hi
        /\ g[i].len = Body(t, g[i].line)
    BY <1>1, <2>1
  <2>3. P[k] = S(g[i].line) + j
    BY <1>4
  <2> HIDE DEF i
  <2>4. j \in 1 .. g[i].len /\ k = g[i].start + j
    BY <1>1, <2>1, <2>2
  <2>5. g[i].line \in 0 .. LineCount(t) - 1
    BY <1>1, <2>2
  <2>6. seg[k] = i
    BY DEF i
  <2> HIDE DEF j
  <2>7. j <= Body(t, g[i].line) /\ j \in Nat
    BY <2>2, <2>4
  <2> QED BY <2>1, <2>2, <2>3, <2>4, <2>5, <2>6, <2>7
<1>10. ASSUME NEW k \in 1 .. n
       PROVE  P[k] \in Held(t) /\ P[k] \in Nat /\ t[P[k]] = ll.text[k]
  <2>1. PICK i \in DOMAIN g, j \in Nat :
               /\ j \in 1 .. g[i].len /\ k = g[i].start + j /\ P[k] = S(g[i].line) + j
               /\ g[i].line \in 0 .. LineCount(t) - 1 /\ g[i].line \in Nat
               /\ j <= Body(t, g[i].line) /\ j \in Nat
    BY <1>9
  <2> DEFINE l == g[i].line
  <2>2. /\ S(l) \in Nat /\ L(l) \in Nat /\ Body(t, l) <= L(l) /\ Body(t, l) \in Nat
        /\ S(l) + L(l) <= Len(t) /\ \A m \in 1 .. L(l) : t[S(l) + m] = OutLine(t, l)[m]
    BY <1>5, <2>1
  <2>3. ll.text[g[i].start + j] = OutLine(t, l)[j]
    BY <1>8, <2>1
  <2>4. j >= 1
    BY <2>1
  <2> HIDE DEF l
  <2>5. P[k] = S(l) + j /\ j <= Body(t, l) /\ j \in Nat /\ l \in 0 .. LineCount(t) - 1
    BY <2>1 DEF l
  <2>6. j \in 1 .. L(l) /\ P[k] \in DOMAIN t /\ P[k] \in Nat
    BY <1>7, <2>2, <2>4, <2>5
  <2>7. t[P[k]] = OutLine(t, l)[j]
    BY <2>2, <2>5, <2>6
  <2>8. S(l) < P[k] /\ P[k] <= S(l) + Body(t, l)
    BY <2>2, <2>4, <2>5
  <2>9. P[k] \in Held(t)
    BY <1>6, <2>5, <2>6, <2>8
  <2> QED BY <2>1, <2>3, <2>6, <2>7, <2>9
<1>11. ASSUME NEW a \in 1 .. n, NEW b \in 1 .. n, a < b PROVE P[a] < P[b]
  <2>1. PICK i \in DOMAIN g, j \in Nat :
               /\ j \in 1 .. g[i].len /\ a = g[i].start + j /\ P[a] = S(g[i].line) + j
               /\ g[i].line \in 0 .. LineCount(t) - 1 /\ g[i].line \in Nat
               /\ j <= Body(t, g[i].line) /\ j \in Nat /\ g[i].start \in Nat
    BY <1>9
  <2>2. PICK c \in DOMAIN g, d \in Nat :
               /\ d \in 1 .. g[c].len /\ b = g[c].start + d /\ P[b] = S(g[c].line) + d
               /\ g[c].line \in 0 .. LineCount(t) - 1 /\ g[c].line \in Nat
               /\ d <= Body(t, g[c].line) /\ d \in Nat /\ g[c].start \in Nat
    BY <1>9
  <2>3. j >= 1 /\ j <= g[i].len /\ d >= 1 /\ d <= g[c].len /\ g[i].len \in Nat /\ g[c].len \in Nat
    BY <1>1, <2>1, <2>2
  <2>4. i \in Nat /\ c \in Nat
    BY <1>1
  <2>5. S(g[i].line) \in Nat /\ S(g[c].line) \in Nat
    BY <1>5, <2>1, <2>2
  <2>6. CASE i = c
    BY <1>11, <2>1, <2>2, <2>5, <2>6
  <2>7. CASE i < c
    <3>1. g[i].line < g[c].line /\ g[c].line < LineCount(t)
      BY <1>1, <2>2, <2>7
    <3>2. /\ S(g[i].line) + L(g[i].line) <= S(g[c].line) /\ L(g[i].line) \in Nat
          /\ Body(t, g[i].line) <= L(g[i].line) /\ Body(t, g[i].line) \in Nat
      BY <1>5, <2>1, <2>2, <3>1
    <3> QED BY <2>1, <2>2, <2>3, <2>5, <3>2
  <2>8. CASE c < i
    <3>1. g[c].start + g[c].len <= g[i].start
      BY <1>1, <2>8
    <3> QED BY <1>11, <2>1, <2>2, <2>3, <3>1
  <2> QED BY <2>4, <2>6, <2>7, <2>8
<1>12. ASSUME NEW a \in 1 .. n, NEW b \in 1 .. n, NEW x \in Held(t), P[a] <= x, x <= P[b]
       PROVE  \E k \in 1 .. n : P[k] = x
  <2>1. PICK i \in DOMAIN g, j \in Nat :
               /\ j \in 1 .. g[i].len /\ a = g[i].start + j /\ P[a] = S(g[i].line) + j
               /\ g[i].line \in 0 .. LineCount(t) - 1 /\ g[i].line \in Nat
               /\ j <= Body(t, g[i].line) /\ j \in Nat /\ g[i].start \in Nat
    BY <1>9
  <2>2. PICK c \in DOMAIN g, d \in Nat :
               /\ d \in 1 .. g[c].len /\ b = g[c].start + d /\ P[b] = S(g[c].line) + d
               /\ g[c].line \in 0 .. LineCount(t) - 1 /\ g[c].line \in Nat
               /\ d <= Body(t, g[c].line) /\ d \in Nat /\ g[c].start \in Nat
    BY <1>9
  <2>3. PICK l \in 0 .. LineCount(t) - 1 : S(l) < x /\ x <= S(l) + Body(t, l)
    BY <1>6
  <2>4. x \in Nat /\ l \in Nat /\ l < LineCount(t)
    BY <1>1, <1>6, <1>7
  <2>5. /\ S(l) \in Nat /\ L(l) \in Nat /\ Body(t, l) \in Nat /\ Body(t, l) <= L(l)
        /\ S(g[i].line) \in Nat /\ S(g[c].line) \in Nat
    BY <1>5, <2>1, <2>2, <2>4
  <2>6. j >= 1 /\ d >= 1 /\ lo <= g[i].line /\ g[c].line < hi
    BY <1>1, <2>1, <2>2
  <2>7. ~(l < g[i].line)
    <3> SUFFICES ASSUME l < g[i].line PROVE FALSE
      OBVIOUS
    <3>1. g[i].line < LineCount(t)
      BY <1>1, <2>1
    <3>2. S(l) + L(l) <= S(g[i].line)
      BY <1>5, <2>1, <2>4, <3>1
    <3> QED BY <1>12, <2>1, <2>3, <2>4, <2>5, <2>6, <3>2
  <2>8. ~(g[c].line < l)
    <3> SUFFICES ASSUME g[c].line < l PROVE FALSE
      OBVIOUS
    <3>1. /\ S(g[c].line) + L(g[c].line) <= S(l) /\ L(g[c].line) \in Nat
          /\ Body(t, g[c].line) <= L(g[c].line) /\ Body(t, g[c].line) \in Nat
      BY <1>5, <2>2, <2>4
    <3> QED BY <1>12, <2>2, <2>3, <2>4, <2>5, <2>6, <3>1
  <2>9. l \in lo .. hi - 1
    BY <1>1, <2>1, <2>2, <2>4, <2>6, <2>7, <2>8
  <2>10. Body(t, l) # 0
    BY <2>3, <2>4, <2>5
  <2>11. PICK m \in DOMAIN g : g[m].line = l
    BY <1>8, <2>9, <2>10
  <2> DEFINE y == x - S(l)
             k == g[m].start + y
  <2>12. g[m].start \in Nat /\ g[m].len = Body(t, l) /\ g[m].start + g[m].len <= n
    BY <1>1, <2>11
  <2>13. y \in 1 .. Body(t, l) /\ S(l) + y = x
    BY <2>3, <2>4, <2>5
  <2> HIDE DEF y
  <2>14. k \in 1 .. n /\ g[m].start < k /\ k <= g[m].start + g[m].len /\ k - g[m].start = y
    BY <1>1, <2>5, <2>12, <2>13
  <2> HIDE DEF k
  <2>15. Has(ll, m, k)
    BY <2>14 DEF Has, g
  <2>16. seg[k] = m
    BY <1>3, <2>14, <2>15
  <2>17. P[k] = S(l) + y
    BY <1>4, <2>11, <2>14, <2>16
  <2> QED BY <2>13, <2>14, <2>17
<1>13. ASSUME NEW k \in 1 .. n, NEW i \in DOMAIN g, Has(ll, i, k)
       PROVE  P[k] = LineStart(t, g[i].line) + (k - g[i].start)
  <2>1. seg[k] = i
    BY <1>3, <1>13
  <2> QED BY <1>4, <2>1 DEF S
<1>14. Placed(t, ll, P)
  BY <1>10, <1>11, <1>12, <1>13 DEF Placed, n, g
<1> QED BY <1>14

\* P gives places up to n in order, from a + 1 on up to b.
Ascends(P, a, b, n) ==
  /\ \A k \in a + 1 .. b : P[k] \in 1 .. n
  /\ \A j, k \in a + 1 .. b : j < k => P[j] < P[k]
Along(s, P, a, b) == [m \in 1 .. b - a |-> s[P[a + m]]]

\* What is chosen at such places
LEMMA ChosenAlong ==
  ASSUME NEW n \in Nat, NEW a \in Nat, NEW b \in Nat, a <= b, NEW P, Ascends(P, a, b, n),
         NEW keep, keep = {P[k] : k \in a + 1 .. b}, NEW s
  PROVE  Chosen(s, keep) = Along(s, P, a, b)
<1> DEFINE c == b - a
           q == [m \in 1 .. c |-> P[a + m]]
<1>1. c \in Nat /\ \A m \in 1 .. c : a + m \in a + 1 .. b
  OBVIOUS
<1>2. \A k \in a + 1 .. b : k - a \in 1 .. c /\ a + (k - a) = k
  OBVIOUS
<1>3. \A m \in 1 .. c : q[m] = P[a + m] /\ q[m] \in 1 .. n
  BY <1>1 DEF Ascends
<1>4. ASSUME NEW i \in 1 .. c, NEW j \in 1 .. c, i < j PROVE q[i] < q[j]
  <2>1. a + i \in a + 1 .. b /\ a + j \in a + 1 .. b /\ a + i < a + j
    BY <1>4
  <2>2. P[a + i] < P[a + j]
    BY <2>1 DEF Ascends
  <2> QED BY <1>3, <2>2
<1>5. keep = {q[m] : m \in 1 .. c}
  <2>1. ASSUME NEW x \in keep PROVE x \in {q[m] : m \in 1 .. c}
    <3>1. PICK k \in a + 1 .. b : x = P[k]
      OBVIOUS
    <3>2. k - a \in 1 .. c /\ q[k - a] = P[k]
      BY <1>2, <1>3
    <3> QED BY <3>1, <3>2
  <2>2. ASSUME NEW m \in 1 .. c PROVE q[m] \in keep
    BY <1>1, <1>3
  <2> QED BY <2>1, <2>2
<1> HIDE DEF c, q
<1>6. ASSUME NEW m \in 0 .. c PROVE Cardinality({q[i] : i \in 1 .. m}) = m
  <2> DEFINE first == [i \in 1 .. m |-> q[i]]
  <2>1. m \in Nat /\ \A i \in 1 .. m : i \in 1 .. c /\ q[i] \in Nat
    BY <1>1, <1>3
  <2>2. first \in Seq(Nat) /\ Len(first) = m /\ DOMAIN first = 1 .. m
        /\ \A i \in 1 .. m : first[i] = q[i]
    BY <2>1
  <2> HIDE DEF first
  <2>3. ASSUME NEW i \in DOMAIN first, NEW j \in DOMAIN first, first[i] = first[j] PROVE i = j
    <3>1. i \in 1 .. c /\ j \in 1 .. c /\ q[i] = q[j] /\ q[i] \in Nat /\ i \in Nat /\ j \in Nat
      BY <2>1, <2>2, <2>3
    <3>2. ~(i < j) /\ ~(j < i)
      BY <1>4, <3>1
    <3> QED BY <3>1, <3>2
  <2>4. Cardinality({first[i] : i \in DOMAIN first}) = m
    BY <2>2, <2>3, EntriesCount
  <2>5. {first[i] : i \in DOMAIN first} = {q[i] : i \in 1 .. m}
    BY <2>2
  <2> QED BY <2>4, <2>5
<1>7. keep \in SUBSET (1 .. n)
  BY <1>3, <1>5
<1>8. Cardinality(keep) = c
  BY <1>1, <1>5, <1>6
<1>9. ASSUME NEW m \in 1 .. c PROVE Nth(keep, m) = q[m]
  <2>1. {j \in keep : j <= q[m]} = {q[i] : i \in 1 .. m}
    <3>1. ASSUME NEW i \in 1 .. c PROVE q[i] <= q[m] <=> i <= m
      <4>1. q[i] \in Nat /\ q[m] \in Nat /\ i \in Nat /\ m \in Nat
        BY <1>3
      <4>2. (i < m => q[i] < q[m]) /\ (m < i => q[m] < q[i]) /\ (i < m \/ i = m \/ m < i)
        BY <1>4, <4>1
      <4> QED BY <4>1, <4>2
    <3>2. \A i \in Nat : i \in 1 .. m <=> i \in 1 .. c /\ i <= m
      BY <1>1
    <3>3. \A i \in 1 .. m : i \in Nat
      OBVIOUS
    <3>4. \A i \in 1 .. c : i \in Nat
      OBVIOUS
    <3> QED BY <1>5, <3>1, <3>2, <3>3, <3>4
  <2>2. Rank(keep, q[m]) = m
    <3>1. m \in 0 .. c
      BY <1>1
    <3> QED BY <1>6, <2>1, <3>1 DEF Rank
  <2>3. q[m] \in keep
    BY <1>5
  <2>4. Nth(keep, Rank(keep, q[m])) = q[m]
    BY <1>7, <2>3, NthPlace
  <2> QED BY <2>2, <2>4
<1>10. Chosen(s, keep) = [m \in 1 .. c |-> s[q[m]]]
  BY <1>8, <1>9 DEF Chosen
<1> QED BY <1>3, <1>10 DEF c, Along

\* The text between two places of a logical line, but for what no line contributes
HeldAs(t, ll, P, from, to) ==
  /\ {P[from + 1], P[to]} \subseteq Held(t)
  /\ Chosen(t, (P[from + 1] .. P[to]) \cap Held(t)) = SubSeq(ll.text, from + 1, to)

\* Between the places of two of its characters, the text holds the characters
\* between them and nothing else that contributes.
LEMMA HeldText ==
  ASSUME NEW t \in Text, NEW ll \in LogicalSet, NEW P, Placed(t, ll, P),
         NEW from \in Nat, NEW to \in Nat, from < to, to <= Len(ll.text)
  PROVE  HeldAs(t, ll, P, from, to)
<1> DEFINE n == Len(ll.text)
           keep == (P[from + 1] .. P[to]) \cap Held(t)
           x == SubSeq(ll.text, from + 1, to)
<1>1. ll.text \in Text /\ n \in Nat /\ Len(t) \in Nat /\ DOMAIN t = 1 .. Len(t)
  BY DEF LogicalSet, Text
<1>2. /\ \A k \in 1 .. n : P[k] \in Held(t) /\ P[k] \in Nat /\ t[P[k]] = ll.text[k]
      /\ \A a, b \in 1 .. n : a < b => P[a] < P[b]
      /\ \A a, b \in 1 .. n : \A y \in Held(t) :
           P[a] <= y /\ y <= P[b] => \E k \in 1 .. n : P[k] = y
  BY DEF Placed
<1>3. Held(t) \subseteq 1 .. Len(t)
  BY <1>1 DEF Held
<1>4. \A k \in from + 1 .. to : k \in 1 .. n /\ k \in Nat
  BY <1>1
<1>5. from + 1 \in from + 1 .. to /\ to \in from + 1 .. to
  OBVIOUS
<1> HIDE DEF n
<1>6. ASSUME NEW a \in 1 .. n, NEW b \in 1 .. n PROVE P[a] <= P[b] <=> a <= b
  <2>1. P[a] \in Nat /\ P[b] \in Nat /\ a \in Nat /\ b \in Nat
    BY <1>2
  <2>2. (a < b => P[a] < P[b]) /\ (b < a => P[b] < P[a]) /\ (a < b \/ a = b \/ b < a)
    BY <1>2, <2>1
  <2> QED BY <2>1, <2>2
<1>7. keep = {P[k] : k \in from + 1 .. to}
  <2>1. ASSUME NEW y \in keep PROVE y \in {P[k] : k \in from + 1 .. to}
    <3>1. y \in Held(t) /\ P[from + 1] <= y /\ y <= P[to]
      OBVIOUS
    <3>2. PICK k \in 1 .. n : P[k] = y
      BY <1>2, <1>4, <1>5, <3>1
    <3>3. from + 1 <= k /\ k <= to
      BY <1>4, <1>5, <1>6, <3>1, <3>2
    <3>4. k \in from + 1 .. to
      BY <3>3
    <3> QED BY <3>2, <3>4
  <2>2. ASSUME NEW k \in from + 1 .. to PROVE P[k] \in keep
    <3>1. k \in 1 .. n /\ from + 1 \in 1 .. n /\ to \in 1 .. n /\ from + 1 <= k /\ k <= to
      BY <1>4, <1>5
    <3>2. P[from + 1] <= P[k] /\ P[k] <= P[to] /\ P[k] \in Held(t)
      BY <1>2, <1>6, <3>1
    <3>3. P[from + 1] \in Nat /\ P[to] \in Nat /\ P[k] \in Nat
      BY <1>2, <3>1
    <3> QED BY <3>2, <3>3
  <2> QED BY <2>1, <2>2
<1> HIDE DEF keep
<1>8. Chosen(t, keep) = [m \in 1 .. to - from |-> t[P[from + m]]]
  <2>1. \A k \in from + 1 .. to : P[k] \in 1 .. Len(t)
    BY <1>2, <1>3, <1>4
  <2>2. \A j, k \in from + 1 .. to : j < k => P[j] < P[k]
    BY <1>2, <1>4
  <2>3. from <= to
    OBVIOUS
  <2> DEFINE N == Len(t)
  <2>4. N \in Nat /\ \A k \in from + 1 .. to : P[k] \in 1 .. N
    BY <1>1, <2>1
  <2> HIDE DEF N, x
  <2>5. Ascends(P, from, to, N)
    BY <2>2, <2>4 DEF Ascends
  <2>6. Chosen(t, keep) = Along(t, P, from, to)
    BY <1>7, <2>3, <2>4, <2>5, ChosenAlong
  <2> QED BY <2>6 DEF Along
<1>9. \A m \in 1 .. to - from : from + m \in 1 .. n
  <2>1. \A m \in 1 .. to - from : from + m \in from + 1 .. to
    OBVIOUS
  <2> QED BY <1>4, <2>1
<1>10. x = [m \in 1 .. to - from |-> ll.text[from + m]]
  <2>1. to \in Int /\ to <= Len(ll.text)
    OBVIOUS
  <2>2. x \in Text /\ Len(x) = to - from /\ \A m \in 1 .. Len(x) : x[m] = ll.text[from + m]
    <3>1. Len(x) = IF from + 1 <= to THEN to - from ELSE 0
      BY <1>1, <2>1, PieceIs
    <3>2. x \in Text /\ \A m \in 1 .. Len(x) : x[m] = ll.text[from + m]
      BY <1>1, <2>1, PieceIs
    <3> QED BY <3>1, <3>2
  <2> HIDE DEF x
  <2>3. DOMAIN x = 1 .. to - from /\ x = [m \in DOMAIN x |-> x[m]]
    BY <2>2 DEF Text
  <2> QED BY <2>2, <2>3
<1>11. Chosen(t, keep) = x
  <2>1. \A m \in 1 .. to - from : t[P[from + m]] = ll.text[from + m]
    BY <1>2, <1>9
  <2> QED BY <1>8, <1>10, <2>1
<1>12. {P[from + 1], P[to]} \subseteq Held(t)
  BY <1>2, <1>4, <1>5
<1> QED BY <1>11, <1>12 DEF keep, HeldAs

\* A line that contributes to a logical line is found there: covering_logical_line_index
\* and logical_offset_from_physical.
LEMMA CoveringFinds ==
  ASSUME NEW t \in Text, NEW ls, NEW b, Laid(t, ls, b),
         NEW n \in DOMAIN ls, NEW i \in DOMAIN ls[n].segments
  PROVE  Covering(ls, ls[n].segments[i].line) = n
<1> DEFINE line == ls[n].segments[i].line
           found == {m \in DOMAIN ls : FirstLine(ls[m]) <= line /\ line <= LastLine(ls[m])}
           N == Len(ls)
<1>1. N \in Nat /\ DOMAIN ls = 1 .. N /\ n \in 1 .. N /\ n \in Nat
  BY DEF Laid
<1>2. /\ b[0] = 0 /\ \A m \in 0 .. N : b[m] \in Nat
      /\ \A m \in 1 .. N : b[m - 1] < b[m] /\ Formed(t, ls[m], b[m - 1], b[m])
  BY DEF Laid
<1>3. \A j, m \in 0 .. N : j < m => b[j] < b[m]
  BY <1>1, <1>2, StepsGrow
<1>4. ASSUME NEW m \in 1 .. N
      PROVE  IF ls[m].segments = <<>> THEN FirstLine(ls[m]) = 0 /\ LastLine(ls[m]) = 0
             ELSE /\ FirstLine(ls[m]) \in Nat /\ LastLine(ls[m]) \in Nat
                  /\ b[m - 1] <= FirstLine(ls[m]) /\ LastLine(ls[m]) < b[m]
                  /\ \A j \in DOMAIN ls[m].segments :
                       /\ FirstLine(ls[m]) <= ls[m].segments[j].line
                       /\ ls[m].segments[j].line <= LastLine(ls[m])
  <2> DEFINE g == ls[m].segments
  <2>1. Formed(t, ls[m], b[m - 1], b[m])
    BY <1>2
  <2>2. /\ g \in Seq(Segments) /\ Len(g) \in Nat /\ DOMAIN g = 1 .. Len(g)
        /\ \A j \in DOMAIN g : g[j].line \in Nat /\ b[m - 1] <= g[j].line /\ g[j].line < b[m]
        /\ \A j, k \in DOMAIN g : j < k => g[j].line < g[k].line
    BY <2>1, SegmentsLie
  <2>3. CASE g = <<>>
    BY <2>3 DEF FirstLine, LastLine
  <2>4. CASE g # <<>>
    <3>1. FirstLine(ls[m]) = Head(g).line /\ LastLine(ls[m]) = Last(g).line
      BY <2>4 DEF FirstLine, LastLine
    <3> HIDE DEF g
    <3>2. Head(g) = g[1] /\ Last(g) = g[Len(g)] /\ 1 \in DOMAIN g /\ Len(g) \in DOMAIN g
      BY <2>2, <2>4 DEF Last
    <3>3. ASSUME NEW j \in DOMAIN g PROVE g[1].line <= g[j].line /\ g[j].line <= g[Len(g)].line
      <4>1. (j = 1 \/ 1 < j) /\ (j = Len(g) \/ j < Len(g))
        BY <2>2
      <4> QED BY <2>2, <3>2, <4>1
    <3>4. /\ FirstLine(ls[m]) \in Nat /\ LastLine(ls[m]) \in Nat
          /\ b[m - 1] <= FirstLine(ls[m]) /\ LastLine(ls[m]) < b[m]
      BY <2>2, <3>1, <3>2
    <3>5. \A j \in DOMAIN g : FirstLine(ls[m]) <= g[j].line /\ g[j].line <= LastLine(ls[m])
      BY <3>1, <3>2, <3>3
    <3> QED BY <2>4, <3>4, <3>5 DEF g
  <2> QED BY <2>3, <2>4
<1>5. ls[n].segments # <<>>
  OBVIOUS
<1>6. line \in Nat /\ b[n - 1] <= line /\ line < b[n]
  <2>1. Formed(t, ls[n], b[n - 1], b[n])
    BY <1>1, <1>2
  <2> QED BY <2>1, SegmentsLie
<1>7. n \in found
  <2>1. FirstLine(ls[n]) <= line /\ line <= LastLine(ls[n])
    BY <1>1, <1>4, <1>5
  <2> QED BY <2>1
<1>8. Covering(ls, line) = IF found = {} THEN 0 ELSE CHOOSE m \in found : \A j \in found : m <= j
  BY DEF Covering
<1>9. \A m \in found : m \in 1 .. N /\ FirstLine(ls[m]) <= line /\ line <= LastLine(ls[m])
  BY <1>1
<1> HIDE DEF line, found, N
<1>10. ASSUME NEW m \in found PROVE n <= m
  <2>1. m \in 1 .. N /\ FirstLine(ls[m]) <= line /\ line <= LastLine(ls[m]) /\ m \in Nat
    BY <1>9
  <2>2. CASE ls[m].segments = <<>>
    <3>1. line = 0
      BY <1>4, <1>6, <2>1, <2>2
    <3>2. n - 1 \in 0 .. N /\ b[n - 1] \in Nat
      BY <1>1, <1>2
    <3>3. ~(0 < n - 1)
      <4>1. 0 < n - 1 => 0 < b[n - 1]
        BY <1>1, <1>2, <1>3, <3>2
      <4> QED BY <1>6, <3>1, <3>2, <4>1
    <3> QED BY <1>1, <2>1, <3>3
  <2>3. CASE ls[m].segments # <<>>
    <3>1. FirstLine(ls[m]) \in Nat /\ LastLine(ls[m]) \in Nat /\ LastLine(ls[m]) < b[m]
      BY <1>4, <2>1, <2>3
    <3>2. n - 1 \in 0 .. N /\ m \in 0 .. N /\ b[n - 1] \in Nat /\ b[m] \in Nat
      BY <1>1, <1>2, <2>1
    <3>3. b[n - 1] < b[m]
      BY <1>6, <2>1, <3>1, <3>2
    <3>4. ~(m < n - 1) /\ m # n - 1
      <4>1. m < n - 1 => b[m] < b[n - 1]
        BY <1>3, <3>2
      <4> QED BY <3>2, <3>3, <4>1
    <3> QED BY <1>1, <2>1, <3>4
  <2> QED BY <2>2, <2>3
<1>11. (CHOOSE m \in found : \A j \in found : m <= j) = n
  <2>1. ASSUME NEW m \in found, \A j \in found : m <= j PROVE m = n
    <3>1. m <= n /\ n <= m /\ m \in Nat /\ n \in Nat
      BY <1>1, <1>7, <1>9, <1>10, <2>1
    <3> QED BY <3>1
  <2> QED BY <1>7, <1>10, <2>1
<1> QED BY <1>7, <1>8, <1>11 DEF line

\* logical_offset_from_physical undoes that within a segment.
LEMMA OffsetFinds ==
  ASSUME NEW t \in Text, NEW ll, NEW lo, NEW hi, Formed(t, ll, lo, hi),
         NEW i \in DOMAIN ll.segments, NEW k \in 0 .. ll.segments[i].len
  PROVE  LogicalOffset(ll, ll.segments[i].line, k) = ll.segments[i].start + k
<1> DEFINE g == ll.segments
           found == {j \in DOMAIN g : g[j].line = g[i].line}
<1>1. /\ DOMAIN g \in SUBSET Nat
      /\ \A j \in DOMAIN g : g[j].line \in Nat /\ g[j].len \in Nat
      /\ \A j, m \in DOMAIN g : j < m => g[j].line < g[m].line
  BY SegmentsLie
<1>2. LogicalOffset(ll, g[i].line, k) =
        IF found = {} THEN Invalid
        ELSE LET seg == g[CHOOSE j \in found : TRUE] IN seg.start + (IF k < seg.len THEN k ELSE seg.len)
  BY DEF LogicalOffset
<1>3. found = {i}
  <2> HIDE DEF g
  <2>1. ASSUME NEW j \in DOMAIN g, g[j].line = g[i].line PROVE j = i
    <3>1. i \in DOMAIN g
      BY DEF g
    <3>2. i \in Nat /\ j \in Nat /\ g[i].line \in Nat
      BY <1>1, <3>1
    <3>3. ~(i < j) /\ ~(j < i)
      BY <1>1, <2>1, <3>1, <3>2
    <3> QED BY <3>2, <3>3
  <2>2. i \in DOMAIN g
    BY DEF g
  <2> QED BY <2>1, <2>2
<1>4. (IF k < g[i].len THEN k ELSE g[i].len) = k
  BY <1>1
<1> HIDE DEF found, g
<1>5. found # {} /\ (CHOOSE j \in found : TRUE) = i
  BY <1>3
<1> QED BY <1>2, <1>4, <1>5 DEF g

-----------------------------------------------------------------------------
(* The index *)

HitSet == [name : Text, decl : BOOLEAN, line : Nat, from : Nat, to : Nat]

\* The hit h is a whole name in the text s: after a dollar, or a declared one.
Spells(s, h) ==
  /\ h.from < h.to /\ h.to <= Len(s) /\ h.name = SubSeq(s, h.from + 1, h.to)
  /\ \A i \in h.from + 1 .. h.to : s[i] \in Ident
  /\ h.to = Len(s) \/ s[h.to + 1] \notin Ident
  /\ h.from = 0 \/ s[h.from] \notin Ident
  /\ IF h.decl THEN h.from = 0 \/ s[h.from] \in Blank
               ELSE h.from # 0 /\ s[h.from] = Dollar

\* A name ends where its characters do.
LEMMA NameEndIs ==
  ASSUME NEW s \in Text, NEW k \in Nat, k < Len(s), s[k + 1] \in Ident
  PROVE  /\ NameEnd(s, k) \in k + 1 .. Len(s)
         /\ \A i \in k + 1 .. NameEnd(s, k) : s[i] \in Ident
         /\ NameEnd(s, k) = Len(s) \/ s[NameEnd(s, k) + 1] \notin Ident
<1> DEFINE n == Len(s)
           Ends(e) == (\A i \in k + 1 .. e : s[i] \in Ident) /\ (e = n \/ s[e + 1] \notin Ident)
           T == {e \in k .. n : e = n \/ s[e + 1] \notin Ident}
<1>1. n \in Nat
  BY DEF Text
<1>2. T \subseteq Nat /\ n \in T
  BY <1>1
<1>3. PICK e \in T : \A m \in T : e <= m
  BY <1>2, LeastOf
<1>4. \A i \in k + 1 .. e : s[i] \in Ident
  <2> SUFFICES ASSUME NEW i \in k + 1 .. e, s[i] \notin Ident PROVE FALSE
    OBVIOUS
  <2>1. i - 1 \in k .. n /\ (i - 1) + 1 = i /\ ~(e <= i - 1)
    BY <1>1
  <2>2. i - 1 \in T
    BY <2>1
  <2> QED BY <1>3, <2>1, <2>2
<1>5. e \in k .. n /\ Ends(e)
  BY <1>4
<1>6. NameEnd(s, k) = CHOOSE m \in k .. n : Ends(m)
  BY DEF NameEnd
<1> HIDE DEF n, T
<1>7. NameEnd(s, k) \in k .. n /\ Ends(NameEnd(s, k))
  <2> HIDE DEF Ends
  <2> QED BY <1>5, <1>6
<1> HIDE DEF Ends
<1>8. NameEnd(s, k) # k
  <2>1. k # n
    BY DEF n
  <2> QED BY <1>7, <2>1 DEF Ends
<1> QED BY <1>1, <1>7, <1>8 DEF Ends, n

\* What begins with a character of a name, behind what may stand there, is a whole name.
LEMMA HitSpells ==
  ASSUME NEW s \in Text, NEW k \in Nat, k < Len(s), s[k + 1] \in Ident,
         NEW decl \in BOOLEAN, NEW line \in Nat,
         IF decl THEN k = 0 \/ s[k] \in Blank ELSE k # 0 /\ s[k] = Dollar
  PROVE  /\ Hit(s, decl, line, k) \in HitSet /\ Spells(s, Hit(s, decl, line, k))
         /\ Hit(s, decl, line, k).decl = decl /\ Hit(s, decl, line, k).line = line
<1> DEFINE e == NameEnd(s, k)
           h == Hit(s, decl, line, k)
           x == SubSeq(s, k + 1, e)
<1>1. /\ e \in k + 1 .. Len(s) /\ \A i \in k + 1 .. e : s[i] \in Ident
      /\ e = Len(s) \/ s[e + 1] \notin Ident
  BY NameEndIs
<1>2. h = [name |-> x, decl |-> decl, line |-> line, from |-> k, to |-> e]
  BY DEF Hit
<1> HIDE DEF e, h
<1>3. Len(s) \in Nat
  BY DEF Text
<1>4. x \in Text
  BY <1>1, <1>3, PieceIs
<1>5. k = 0 \/ s[k] \notin Ident
  BY NavigationAssumption
<1> HIDE DEF x
<1>6. h.name = x /\ h.decl = decl /\ h.line = line /\ h.from = k /\ h.to = e
  BY <1>2
<1>7. e \in Nat /\ k < e /\ e <= Len(s)
  BY <1>1, <1>3
<1>8. h \in HitSet
  BY <1>2, <1>4, <1>7 DEF HitSet
<1>9. Spells(s, h)
  BY <1>1, <1>5, <1>6, <1>7 DEF Spells, x
<1> QED BY <1>6, <1>8, <1>9 DEF h

\* push_usages
LEMMA UsagesAre ==
  ASSUME NEW s \in Text, NEW line \in Nat
  PROVE  /\ Usages(s, line) \in Seq(HitSet)
         /\ \A i \in DOMAIN Usages(s, line) :
              /\ Spells(s, Usages(s, line)[i]) /\ Usages(s, line)[i].line = line
              /\ ~Usages(s, line)[i].decl
<1> DEFINE kinds == Kinds(s)
           Starts(i) == /\ s[i] = Dollar /\ kinds[i] \in {"plain", "double"}
                        /\ ~(i > 1 /\ s[i - 1] = Dollar)
                        /\ i < Len(s) /\ s[i + 1] \in Ident
           starts == {i \in DOMAIN s : Starts(i)}
           c == Cardinality(starts)
           u == Usages(s, line)
<1>1. u = [n \in 1 .. c |-> Hit(s, FALSE, line, Nth(starts, n))]
  BY DEF Usages, UsagesBy
<1>2. Len(s) \in Nat /\ DOMAIN s = 1 .. Len(s)
  BY DEF Text
<1>3. \A i \in starts : i \in 1 .. Len(s) /\ s[i] = Dollar /\ i < Len(s) /\ s[i + 1] \in Ident
  BY <1>2
<1>4. starts \in SUBSET (1 .. Len(s))
  BY <1>2
<1> HIDE DEF starts, u
<1>5. c \in Nat /\ \A n \in 1 .. c : Nth(starts, n) \in starts
  BY <1>2, <1>4, PlacesFinite, NthPlace
<1> HIDE DEF c
<1>6. ASSUME NEW n \in 1 .. c
      PROVE  /\ Hit(s, FALSE, line, Nth(starts, n)) \in HitSet
             /\ Spells(s, Hit(s, FALSE, line, Nth(starts, n)))
             /\ ~Hit(s, FALSE, line, Nth(starts, n)).decl
             /\ Hit(s, FALSE, line, Nth(starts, n)).line = line
  <2> DEFINE i == Nth(starts, n)
  <2>1. i \in Nat /\ i # 0 /\ s[i] = Dollar /\ i < Len(s) /\ s[i + 1] \in Ident
    BY <1>3, <1>5
  <2> HIDE DEF i
  <2>2. /\ Hit(s, FALSE, line, i) \in HitSet /\ Spells(s, Hit(s, FALSE, line, i))
        /\ Hit(s, FALSE, line, i).decl = FALSE /\ Hit(s, FALSE, line, i).line = line
    BY <2>1, HitSpells
  <2> QED BY <2>2 DEF i
<1> DEFINE at(m) == Hit(s, FALSE, line, Nth(starts, m))
<1>7. u = [m \in 1 .. c |-> at(m)] /\ \A m \in 1 .. c : at(m) \in HitSet
  BY <1>1, <1>6
<1>8. \A m \in 1 .. c : Spells(s, at(m)) /\ at(m).line = line /\ ~at(m).decl
  BY <1>6
<1> HIDE DEF at
<1>9. u \in Seq(HitSet) /\ DOMAIN u = 1 .. c /\ \A m \in 1 .. c : u[m] = at(m)
  BY <1>5, <1>7
<1>10. \A m \in DOMAIN u : Spells(s, u[m]) /\ u[m].line = line /\ ~u[m].decl
  BY <1>8, <1>9
<1> QED BY <1>9, <1>10 DEF u

\* A token begins with a character that stands at the beginning of the line or after
\* white space.
LEMMA TokenStarts ==
  ASSUME NEW s \in Text, NEW n \in DOMAIN Tokens(s)
  PROVE  /\ Tokens(s)[n].from \in Nat /\ Tokens(s)[n].from < Len(s)
         /\ Head(Tokens(s)[n].text) = s[Tokens(s)[n].from + 1]
         /\ Tokens(s)[n].from = 0 \/ s[Tokens(s)[n].from] \in Blank
<1> DEFINE kinds == Kinds(s)
           solid == Solid(s, kinds)
           starts == {i \in solid : i - 1 \notin solid}
           i == Nth(starts, n)
           Ends(j) == j + 1 \notin solid /\ i .. j \subseteq solid
           to == CHOOSE j \in i .. Len(s) : Ends(j)
           m == Len(s)
<1>1. m \in Nat /\ DOMAIN s = 1 .. m
  BY DEF Text
<1>2. solid = {j \in 1 .. m : kinds[j] # "comment" /\ ~(kinds[j] = "plain" /\ s[j] \in Blank)}
  BY <1>1 DEF Solid
<1>3. Tokens(s) = [k \in 1 .. Cardinality(starts) |-> Token(s, solid, Nth(starts, k))]
  BY DEF Tokens
<1> HIDE DEF solid
<1>4. starts \in SUBSET (1 .. m)
  BY <1>2
<1>5. n \in 1 .. Cardinality(starts)
  BY <1>3
<1>6. i \in starts
  <2> HIDE DEF starts
  <2> QED BY <1>1, <1>4, <1>5, NthPlace
<1>7. Token(s, solid, i) = [from |-> i - 1, to |-> to, text |-> SubSeq(s, i, to)]
  BY DEF Token
<1>8. Tokens(s)[n] = Token(s, solid, i)
  BY <1>3, <1>5
<1>9. i \in solid /\ i - 1 \notin solid /\ i \in 1 .. m /\ i \in Nat /\ i # 0
  BY <1>4, <1>6
<1> HIDE DEF starts, i
<1>10. to \in i .. m
  <2> DEFINE T == {j \in i .. m : j + 1 \notin solid}
  <2>1. T \subseteq Nat /\ m \in T
    BY <1>1, <1>2, <1>9
  <2>2. PICK j \in T : \A k \in T : j <= k
    BY <2>1, LeastOf
  <2>3. ASSUME NEW k \in i .. j PROVE k \in solid
    <3>1. CASE k = i
      BY <1>9, <3>1
    <3>2. CASE k # i
      <4>1. k - 1 \in i .. m /\ (k - 1) + 1 = k /\ ~(j <= k - 1)
        BY <1>1, <1>9, <3>2
      <4>2. k - 1 \notin T
        BY <2>2, <4>1
      <4> QED BY <4>1, <4>2
    <3> QED BY <3>1, <3>2
  <2>4. j \in i .. m /\ Ends(j)
    BY <2>3
  <2> HIDE DEF Ends, T
  <2> QED BY <2>4
<1> HIDE DEF to
<1>11. Head(SubSeq(s, i, to)) = s[i]
  <2>1. (i - 1) + 1 = i /\ i - 1 \in Nat /\ to \in Int /\ to <= Len(s) /\ i <= to
    BY <1>1, <1>9, <1>10
  <2>2. /\ SubSeq(s, i, to) \in Text /\ Len(SubSeq(s, i, to)) = to - (i - 1)
        /\ \A k \in 1 .. Len(SubSeq(s, i, to)) : SubSeq(s, i, to)[k] = s[(i - 1) + k]
    <3>1. /\ SubSeq(s, (i - 1) + 1, to) \in Text
          /\ Len(SubSeq(s, (i - 1) + 1, to)) = IF (i - 1) + 1 <= to THEN to - (i - 1) ELSE 0
          /\ \A k \in 1 .. Len(SubSeq(s, (i - 1) + 1, to)) : SubSeq(s, (i - 1) + 1, to)[k] = s[(i - 1) + k]
      BY <2>1, PieceIs
    <3> QED BY <2>1, <3>1
  <2>3. 1 \in 1 .. Len(SubSeq(s, i, to))
    BY <1>9, <1>10, <2>2
  <2>4. Head(SubSeq(s, i, to)) = SubSeq(s, i, to)[1]
    BY <2>2, <2>3 DEF Text
  <2> QED BY <2>1, <2>2, <2>3, <2>4
<1>12. i - 1 = 0 \/ s[i - 1] \in Blank
  <2> SUFFICES ASSUME i - 1 # 0 PROVE s[i - 1] \in Blank
    OBVIOUS
  <2>1. i - 1 \in 1 .. m
    BY <1>9
  <2>2. kinds[i - 1] = "comment" \/ (kinds[i - 1] = "plain" /\ s[i - 1] \in Blank)
    BY <1>2, <1>9, <2>1
  <2>3. kinds[i] # "comment"
    BY <1>2, <1>9
  <2>4. kinds[i - 1] = "comment" => kinds[i] = "comment"
    <3>1. NoQuote \in QuoteStates
      BY DEF NoQuote, QuoteStates, Strings
    <3>2. PICK seen : /\ Scans(s, NoQuote, seen)
                      /\ ScanFrom(s, NoQuote) = [q |-> seen[m].q, kinds |-> [j \in 1 .. m |-> seen[j].kind]]
      BY <3>1, ScanRuns
    <3>3. kinds = [j \in 1 .. m |-> seen[j].kind]
      BY <3>2 DEF Kinds
    <3> HIDE DEF kinds
    <3>4. seen[i] = Look(seen[i - 1], s[i])
      BY <1>9, <3>2 DEF Scans
    <3>5. kinds[i - 1] = seen[i - 1].kind /\ kinds[i] = seen[i].kind
      BY <1>9, <2>1, <3>3
    <3> QED BY <3>4, <3>5 DEF Look
  <2> QED BY <2>2, <2>3, <2>4
<1>13. Tokens(s)[n].from = i - 1 /\ Tokens(s)[n].text = SubSeq(s, i, to)
  <2> DEFINE tok == Tokens(s)[n]
             x == SubSeq(s, i, to)
  <2>1. tok = [from |-> i - 1, to |-> to, text |-> x]
    BY <1>7, <1>8
  <2> HIDE DEF tok, x, m, kinds
  <2>2. tok.from = i - 1 /\ tok.text = x
    BY <2>1
  <2> QED BY <2>2 DEF tok, x
<1>14. (i - 1) + 1 = i /\ i - 1 \in Nat /\ i - 1 < m
  BY <1>1, <1>9
<1> QED BY <1>11, <1>12, <1>13, <1>14

\* declared_variable: at most one
LEMMA DeclaredAre ==
  ASSUME NEW s \in Text, NEW line \in Nat
  PROVE  /\ Declared(s, line) \in Seq(HitSet) /\ Len(Declared(s, line)) <= 1
         /\ \A i \in DOMAIN Declared(s, line) :
              /\ Spells(s, Declared(s, line)[i]) /\ Declared(s, line)[i].line = line
              /\ Declared(s, line)[i].decl
<1> DEFINE tokens == Tokens(s)
           commands == {n \in DOMAIN tokens : tokens[n].text = <<Declare>>}
           n == CHOOSE m \in commands : \A j \in commands : m <= j
           d == Declared(s, line)
           x == tokens[n + 1]
           h == Hit(s, TRUE, line, x.from)
<1>1. d = IF commands = {} THEN <<>>
          ELSE IF /\ n = 1 \/ Separator(tokens[n - 1].text)
                  /\ n < Len(tokens) /\ Head(x.text) \in Ident
                 THEN <<h>> ELSE <<>>
  BY DEF Declared, DeclaredBy
<1>2. DOMAIN tokens = 1 .. Len(tokens) /\ Len(tokens) \in Nat
  <2> DEFINE solid == Solid(s, Kinds(s))
             starts == {i \in solid : i - 1 \notin solid}
  <2>1. tokens = [k \in 1 .. Cardinality(starts) |-> Token(s, solid, Nth(starts, k))]
    BY DEF Tokens
  <2>2. starts \in SUBSET (1 .. Len(s)) /\ Len(s) \in Nat
    BY DEF Solid, Text
  <2> HIDE DEF starts, solid, tokens
  <2>3. Cardinality(starts) \in Nat
    BY <2>2, PlacesFinite
  <2> QED BY <2>1, <2>3
<1>3. commands # {} => n \in commands /\ n \in DOMAIN tokens
  <2> SUFFICES ASSUME commands # {} PROVE n \in commands /\ n \in DOMAIN tokens
    OBVIOUS
  <2>1. commands \subseteq Nat
    BY <1>2
  <2>2. \E m \in commands : \A j \in commands : m <= j
    BY <2>1, LeastOf
  <2> QED BY <2>2
<1> HIDE DEF commands, n, d, h
<1>4. CASE d = <<>>
  BY <1>4 DEF d
<1>5. CASE d # <<>>
  <2>1. /\ n \in DOMAIN tokens /\ n < Len(tokens) /\ Head(x.text) \in Ident /\ d = <<h>>
    BY <1>1, <1>3, <1>5
  <2>2. n + 1 \in DOMAIN tokens
    BY <1>2, <2>1
  <2>3. /\ x.from \in Nat /\ x.from < Len(s) /\ Head(x.text) = s[x.from + 1]
        /\ x.from = 0 \/ s[x.from] \in Blank
    BY <2>2, TokenStarts
  <2> DEFINE k == x.from
  <2>4. k \in Nat /\ k < Len(s) /\ s[k + 1] \in Ident /\ (k = 0 \/ s[k] \in Blank)
    BY <2>1, <2>3
  <2>5. h = Hit(s, TRUE, line, k)
    BY DEF h
  <2> HIDE DEF k, x
  <2>6. h \in HitSet /\ Spells(s, h) /\ h.line = line /\ h.decl = TRUE
    BY <2>4, <2>5, HitSpells
  <2>7. <<h>> \in Seq(HitSet) /\ Len(<<h>>) = 1 /\ DOMAIN <<h>> = {1} /\ <<h>>[1] = h
    BY <2>6
  <2>8. d \in Seq(HitSet) /\ Len(d) <= 1 /\ \A i \in DOMAIN d : Spells(s, d[i]) /\ d[i].line = line /\ d[i].decl
    BY <2>1, <2>6, <2>7
  <2> QED BY <2>8 DEF d
<1> QED BY <1>4, <1>5

\* The hits ix are whole names of the first n logical lines; no two declarations are
\* on one line, and they come in the order of their lines.
Indexed(ls, n, ix) ==
  /\ ix \in Seq(HitSet)
  /\ \A i \in DOMAIN ix : ix[i].line \in 1 .. n /\ Spells(ls[ix[i].line].text, ix[i])
  /\ \A i, j \in DOMAIN ix : i < j /\ ix[i].decl /\ ix[j].decl => ix[i].line < ix[j].line

\* The hits of line n
OfLine(ls, n, hits) ==
  /\ hits \in Seq(HitSet)
  /\ \A i \in DOMAIN hits : hits[i].line = n /\ Spells(ls[n].text, hits[i])

\* Hits of a later line are added, one declaration or any usages.
LEMMA HitsJoin ==
  ASSUME NEW ls, NEW n \in Nat \ {0}, NEW m \in Nat, m <= n, NEW ix, Indexed(ls, m, ix),
         NEW hits, OfLine(ls, n, hits),
         (m < n /\ Len(hits) <= 1) \/ (\A i \in DOMAIN hits : ~hits[i].decl)
  PROVE  Indexed(ls, n, ix \o hits)
<1> DEFINE all == ix \o hits
           a == Len(ix)
           c == Len(hits)
<1>1. ix \in Seq(HitSet) /\ hits \in Seq(HitSet) /\ a \in Nat /\ c \in Nat
      /\ DOMAIN ix = 1 .. a /\ DOMAIN hits = 1 .. c
  BY DEF Indexed, OfLine
<1>0. a \in Nat /\ c \in Nat
  BY <1>1
<1>2. /\ all \in Seq(HitSet) /\ DOMAIN all = 1 .. a + c
      /\ \A i \in 1 .. a : all[i] = ix[i]
      /\ \A i \in a + 1 .. a + c : all[i] = hits[i - a]
  BY <1>1
<1>3. /\ \A i \in 1 .. a : ix[i].line \in 1 .. m /\ Spells(ls[ix[i].line].text, ix[i])
      /\ \A i, j \in 1 .. a : i < j /\ ix[i].decl /\ ix[j].decl => ix[i].line < ix[j].line
      /\ \A i \in 1 .. c : hits[i].line = n /\ Spells(ls[n].text, hits[i])
  BY <1>1 DEF Indexed, OfLine
<1>4. (m < n /\ c <= 1) \/ (\A i \in 1 .. c : ~hits[i].decl)
  BY <1>1
<1> HIDE DEF all, a, c
<1>5. ASSUME NEW i \in 1 .. a + c
      PROVE  all[i].line \in 1 .. n /\ Spells(ls[all[i].line].text, all[i])
  <2>1. CASE i \in 1 .. a
    <3>1. ix[i].line \in 1 .. m /\ Spells(ls[ix[i].line].text, ix[i]) /\ all[i] = ix[i]
      BY <1>2, <1>3, <2>1
    <3>2. ix[i].line \in 1 .. n
      BY <3>1
    <3> QED BY <3>1, <3>2
  <2>2. CASE i \in a + 1 .. a + c
    <3>0. i - a \in 1 .. c
      BY <1>0, <2>2
    <3>1. i - a \in 1 .. c /\ all[i] = hits[i - a]
      BY <1>2, <2>2, <3>0
    <3>2. hits[i - a].line = n /\ Spells(ls[n].text, hits[i - a])
      BY <1>3, <3>1
    <3> QED BY <3>1, <3>2
  <2> QED BY <1>1, <2>1, <2>2
<1>6. ASSUME NEW i \in 1 .. a + c, NEW j \in 1 .. a + c, i < j, all[i].decl, all[j].decl
      PROVE  all[i].line < all[j].line
  <2>1. CASE j \in 1 .. a
    <3>1. i \in 1 .. a
      BY <1>1, <1>6, <2>1
    <3>2. all[i] = ix[i] /\ all[j] = ix[j]
      BY <1>2, <2>1, <3>1
    <3> QED BY <1>3, <1>6, <2>1, <3>1, <3>2
  <2>2. CASE j \in a + 1 .. a + c
    <3>0. j - a \in 1 .. c
      BY <1>0, <2>2
    <3>1. j - a \in 1 .. c /\ all[j] = hits[j - a]
      BY <1>2, <2>2, <3>0
    <3>2. m < n /\ c <= 1 /\ all[j].line = n
      BY <1>3, <1>4, <1>6, <3>1
    <3>3. i \in 1 .. a
      BY <1>1, <1>6, <2>2, <3>1, <3>2
    <3>4. ix[i].line \in 1 .. m /\ all[i] = ix[i]
      BY <1>2, <1>3, <3>3
    <3> QED BY <3>2, <3>4
  <2> QED BY <1>1, <2>1, <2>2
<1> QED BY <1>2, <1>5, <1>6 DEF Indexed, all

\* build_variable_index, one line
LEMMA IndexStep ==
  ASSUME NEW ls \in Seq(LogicalSet), NEW n \in 1 .. Len(ls), NEW ix, Indexed(ls, n - 1, ix)
  PROVE  Indexed(ls, n, ix \o Declared(ls[n].text, n) \o Usages(ls[n].text, n))
<1> DEFINE s == ls[n].text
           d == Declared(s, n)
           u == Usages(s, n)
<1>1. s \in Text /\ n \in Nat \ {0} /\ n - 1 \in Nat /\ n - 1 < n /\ n \in Nat
  <2>1. ls[n] \in LogicalSet
    OBVIOUS
  <2>2. Len(ls) \in Nat
    OBVIOUS
  <2>3. s \in Text
    BY <2>1 DEF LogicalSet
  <2> HIDE DEF s
  <2> QED BY <2>2, <2>3
<1>2. OfLine(ls, n, d) /\ Len(d) <= 1
  <2>1. d \in Seq(HitSet) /\ Len(d) <= 1
        /\ \A i \in DOMAIN d : Spells(s, d[i]) /\ d[i].line = n
    BY <1>1, DeclaredAre
  <2> HIDE DEF d
  <2> QED BY <2>1 DEF OfLine
<1>3. OfLine(ls, n, u) /\ \A i \in DOMAIN u : ~u[i].decl
  <2>1. u \in Seq(HitSet)
        /\ \A i \in DOMAIN u : Spells(s, u[i]) /\ u[i].line = n /\ ~u[i].decl
    BY <1>1, UsagesAre
  <2> HIDE DEF u
  <2> QED BY <2>1 DEF OfLine
<1> HIDE DEF d, u, s
<1>4. Indexed(ls, n, ix \o d)
  BY <1>1, <1>2, HitsJoin
<1>5. Indexed(ls, n, (ix \o d) \o u)
  BY <1>1, <1>3, <1>4, HitsJoin
<1> QED BY <1>5 DEF d, u, s

IndexedTo(ls, n) == {ix \in Seq(HitSet) : Indexed(ls, n, ix)}

\* build_variable_index: whole names of the logical lines
LEMMA IndexIs ==
  ASSUME NEW ls \in Seq(LogicalSet)
  PROVE  Indexed(ls, Len(ls), Index(ls))
<1> DEFINE n == Len(ls)
           start == <<>>
           More(x, i) == x \o Declared(ls[i].text, i) \o Usages(ls[i].text, i)
           S == [i \in 0 .. n |-> IndexedTo(ls, i)]
           step == [i \in 1 .. n |-> [x \in Seq(HitSet) |-> More(x, i)]]
           Runs(g) == g = [i \in 0 .. n |-> IF i = 0 THEN start ELSE More(g[i - 1], i)]
           index == CHOOSE g : Runs(g)
<1>1. n \in Nat /\ start \in IndexedTo(ls, 0)
  <2>1. start \in Seq(HitSet) /\ DOMAIN start = {}
    OBVIOUS
  <2> HIDE DEF start
  <2> QED BY <2>1 DEF IndexedTo, Indexed
<1>2. ASSUME NEW i \in 1 .. n, NEW x \in IndexedTo(ls, i - 1)
      PROVE  More(x, i) \in IndexedTo(ls, i)
  <2>1. Indexed(ls, i - 1, x)
    BY DEF IndexedTo
  <2>2. Indexed(ls, i, More(x, i))
    BY <2>1, IndexStep
  <2> HIDE DEF More
  <2> QED BY <2>2 DEF IndexedTo, Indexed
<1>3. \A i \in 0 .. n : S[i] = IndexedTo(ls, i)
  OBVIOUS
<1>4. \A i \in 1 .. n : \A x \in IndexedTo(ls, i - 1) : step[i][x] = More(x, i)
  <2> HIDE DEF More
  <2> QED BY DEF IndexedTo
<1>5. Index(ls) = index[n]
  BY DEF Index
<1> HIDE DEF More
<1> HIDE DEF n, S, start, step, index
<1>6. \A i \in 1 .. n : i - 1 \in 0 .. n /\ i \in 0 .. n /\ i # 0
  BY <1>1
<1>7. PICK f : Unfolds(f, n, S, start, step)
  <2>1. start \in S[0]
    BY <1>1, <1>3
  <2>2. \A i \in 1 .. n : \A x \in S[i - 1] : step[i][x] \in S[i]
    BY <1>2, <1>3, <1>4, <1>6
  <2> QED BY <1>1, <2>1, <2>2, Recursion
<1>8. /\ f = [i \in 0 .. n |-> f[i]] /\ f[0] = start
      /\ \A i \in 1 .. n : f[i - 1] \in S[i - 1] /\ f[i] = step[i][f[i - 1]]
  BY <1>7 DEF Unfolds
<1>9. Runs(f)
  <2>1. ASSUME NEW i \in 0 .. n
        PROVE  f[i] = IF i = 0 THEN start ELSE More(f[i - 1], i)
    <3>1. CASE i = 0
      BY <1>8, <3>1
    <3>2. CASE i # 0
      <4>1. i \in 1 .. n
        BY <1>1, <3>2
      <4>2. f[i] = step[i][f[i - 1]] /\ f[i - 1] \in IndexedTo(ls, i - 1)
        BY <1>3, <1>6, <1>8, <4>1
      <4> QED BY <1>4, <3>2, <4>1, <4>2
    <3> QED BY <3>1, <3>2
  <2> QED BY <1>8, <2>1
<1>10. Runs(index)
  <2> HIDE DEF Runs
  <2> QED BY <1>9 DEF index
<1>11. /\ index[0] = start
       /\ \A i \in 1 .. n : index[i] = More(index[i - 1], i)
  <2>1. 0 \in 0 .. n
    BY <1>1
  <2>2. \A i \in 0 .. n : index[i] = IF i = 0 THEN start ELSE More(index[i - 1], i)
    BY <1>10
  <2> HIDE DEF Runs
  <2> QED BY <1>6, <2>1, <2>2
<1> HIDE DEF Runs
<1>12. \A i \in 0 .. n : index[i] \in IndexedTo(ls, i)
  <2>1. ASSUME NEW i \in 1 .. n, index[i - 1] \in S[i - 1] PROVE index[i] \in S[i]
    <3>1. index[i] = More(index[i - 1], i) /\ index[i - 1] \in IndexedTo(ls, i - 1)
      BY <1>3, <1>6, <1>11, <2>1
    <3>2. index[i] \in IndexedTo(ls, i)
      BY <1>2, <3>1
    <3> QED BY <1>3, <1>6, <3>2
  <2>0. index[0] \in S[0]
    BY <1>1, <1>3, <1>11
  <2>2. \A i \in 0 .. n : index[i] \in S[i]
    BY <1>1, <2>0, <2>1, StaysIn
  <2> QED BY <1>3, <2>2
<1>13. index[n] \in IndexedTo(ls, n)
  <2>1. n \in 0 .. n
    BY <1>1
  <2> QED BY <1>12, <2>1
<1>14. Indexed(ls, n, index[n])
  BY <1>13 DEF IndexedTo
<1> QED BY <1>5, <1>14 DEF n

\* choose_definition asked on a declaration
OwnDefinition(ix, h, at) ==
  Definition(ix, [name |-> h.name, line |-> h.line, at |-> at]) = h

\* A declaration is its own definition.
LEMMA DefinitionIs ==
  ASSUME NEW ls, NEW n \in Nat, NEW ix, Indexed(ls, n, ix),
         NEW i \in DOMAIN ix, ix[i].decl, NEW at \in Nat, ix[i].from <= at
  PROVE  OwnDefinition(ix, ix[i], at)
<1> DEFINE occ == [name |-> ix[i].name, line |-> ix[i].line, at |-> at]
           decls == {j \in DOMAIN ix : ix[j].decl /\ ix[j].name = occ.name}
           before == {j \in decls : \/ ix[j].line < occ.line
                                    \/ ix[j].line = occ.line /\ ix[j].from <= occ.at}
<1>1. occ.name = ix[i].name /\ occ.line = ix[i].line /\ occ.at = at
  OBVIOUS
<1> HIDE DEF occ
<1>2. Definition(ix, occ) =
        CASE before # {}                  -> ix[CHOOSE k \in before : \A j \in before : j <= k]
          [] before = {} /\ decls # {}    -> ix[CHOOSE k \in decls : \A j \in decls : k <= j]
          [] OTHER                        -> Invalid
  BY DEF Definition
<1>3. DOMAIN ix \in SUBSET Nat
  BY DEF Indexed
<1>4. \A j \in DOMAIN ix : ix[j].line \in Nat
  BY DEF Indexed, HitSet
<1>5. \A j, k \in DOMAIN ix : j < k /\ ix[j].decl /\ ix[k].decl => ix[j].line < ix[k].line
  BY DEF Indexed
<1>6. i \in before
  BY <1>1
<1>7. ASSUME NEW j \in before PROVE j <= i
  <2> SUFFICES ASSUME ~(j <= i) PROVE FALSE
    OBVIOUS
  <2>1. j \in DOMAIN ix /\ ix[j].decl /\ ix[j].line <= ix[i].line
    BY <1>1, <1>4
  <2>2. i < j
    BY <1>3, <2>1
  <2>3. ix[i].line < ix[j].line
    BY <1>5, <2>1, <2>2
  <2> QED BY <1>4, <2>1, <2>3
<1>8. before \subseteq Nat
  BY <1>3
<1> HIDE DEF before, decls
<1>9. (CHOOSE k \in before : \A j \in before : j <= k) = i
  <2>1. ASSUME NEW k \in before, \A j \in before : j <= k PROVE k = i
    <3>1. k <= i /\ i <= k /\ i \in Nat /\ k \in Nat
      BY <1>6, <1>7, <1>8, <2>1
    <3> QED BY <3>1
  <2> QED BY <1>6, <1>7, <2>1
<1>10. Definition(ix, occ) = ix[i]
  BY <1>2, <1>6, <1>9
<1> QED BY <1>10 DEF occ, OwnDefinition

\* What choose_definition finds is a declaration of the name.
LEMMA DefinitionAmong ==
  ASSUME NEW ls, NEW n \in Nat, NEW ix, Indexed(ls, n, ix), NEW occ,
         Definition(ix, occ) # Invalid
  PROVE  \E i \in DOMAIN ix :
           Definition(ix, occ) = ix[i] /\ ix[i].decl /\ ix[i].name = occ.name
<1> DEFINE decls == {j \in DOMAIN ix : ix[j].decl /\ ix[j].name = occ.name}
           before == {j \in decls : \/ ix[j].line < occ.line
                                    \/ ix[j].line = occ.line /\ ix[j].from <= occ.at}
           last == CHOOSE k \in before : \A j \in before : j <= k
           first == CHOOSE k \in decls : \A j \in decls : k <= j
<1>1. Definition(ix, occ) =
        CASE before # {}                  -> ix[last]
          [] before = {} /\ decls # {}    -> ix[first]
          [] OTHER                        -> Invalid
  BY DEF Definition
<1>2. ix \in Seq(HitSet)
  BY DEF Indexed
<1>3. DOMAIN ix = 1 .. Len(ix) /\ Len(ix) \in Nat
  BY <1>2
<1>4. decls \subseteq DOMAIN ix /\ before \subseteq decls
      /\ \A j \in decls : j \in DOMAIN ix /\ ix[j].decl /\ ix[j].name = occ.name
  OBVIOUS
<1> HIDE DEF decls, before
<1>5. CASE before # {}
  <2>1. before \in SUBSET (1 .. Len(ix))
    BY <1>3, <1>4
  <2>2. \E k \in before : \A j \in before : j <= k
    BY <1>3, <1>5, <2>1, NthLast
  <2>3. last \in before
    BY <2>2
  <2> HIDE DEF last
  <2> QED BY <1>1, <1>4, <1>5, <2>3
<1>6. CASE before = {} /\ decls # {}
  <2>1. decls \subseteq Nat
    BY <1>3, <1>4
  <2>2. \E k \in decls : \A j \in decls : k <= j
    BY <1>6, <2>1, LeastOf
  <2>3. first \in decls
    BY <2>2
  <2> HIDE DEF first
  <2> QED BY <1>1, <1>4, <1>6, <2>3
<1>7. before # {} \/ (before = {} /\ decls # {})
  BY <1>1
<1> QED BY <1>5, <1>6, <1>7

-----------------------------------------------------------------------------
(* What is sent and what is asked *)

\* word_at: the run of word characters that a place in it belongs to
LEMMA WordIs ==
  ASSUME NEW s \in Text, NEW f \in Nat, NEW e \in Nat, f < e, e <= Len(s),
         \A i \in f + 1 .. e : s[i] \in Ident \cup Joiners,
         f = 0 \/ s[f] \notin Ident \cup Joiners,
         e = Len(s) \/ s[e + 1] \notin Ident \cup Joiners,
         NEW k \in f .. e
  PROVE  WordAt(s, k) = SubSeq(s, f + 1, e)
<1> DEFINE Part(i) == s[i] \in Ident \cup Joiners
           n == Len(s)
           Left(i) == (\A j \in i + 1 .. k : Part(j)) /\ (i = 0 \/ ~Part(i))
           Right(i) == (\A j \in k + 1 .. i : Part(j)) /\ (i = n \/ ~Part(i + 1))
           from == CHOOSE i \in 0 .. k : Left(i)
           to == CHOOSE i \in k .. n : Right(i)
<1>1. WordAt(s, k) = SubSeq(s, from + 1, to)
  BY DEF WordAt
<1>2. n \in Nat
  BY DEF Text
<1>3. k \in Nat /\ f <= k /\ k <= e /\ e <= n
  OBVIOUS
<1>4. (\A i \in f + 1 .. e : Part(i)) /\ (f = 0 \/ ~Part(f)) /\ (e = n \/ ~Part(e + 1))
  OBVIOUS
<1> HIDE DEF Part, n
<1>5. from = f
  <2>1. f \in 0 .. k /\ Left(f)
    BY <1>3, <1>4
  <2>2. ASSUME NEW i \in 0 .. k, Left(i) PROVE i = f
    <3>1. i \in Nat
      BY <1>3
    <3>2. ~(f < i)
      <4> SUFFICES ASSUME f < i PROVE FALSE
        OBVIOUS
      <4>1. i # 0 /\ i \in f + 1 .. e
        BY <1>3, <3>1
      <4> QED BY <1>4, <2>2, <4>1
    <3>3. ~(i < f)
      <4> SUFFICES ASSUME i < f PROVE FALSE
        OBVIOUS
      <4>1. f # 0 /\ f \in i + 1 .. k
        BY <1>3, <3>1
      <4> QED BY <1>4, <2>2, <4>1
    <3> QED BY <3>1, <3>2, <3>3
  <2> HIDE DEF Left
  <2> QED BY <2>1, <2>2
<1>6. to = e
  <2>1. e \in k .. n /\ Right(e)
    <3>1. \A j \in k + 1 .. e : j \in f + 1 .. e
      BY <1>3
    <3>2. e \in k .. n
      BY <1>2, <1>3
    <3> QED BY <1>4, <3>1, <3>2
  <2>2. ASSUME NEW i \in k .. n, Right(i) PROVE i = e
    <3>1. i \in Nat
      BY <1>2, <1>3
    <3>2. ~(e < i)
      <4> SUFFICES ASSUME e < i PROVE FALSE
        OBVIOUS
      <4>1. e # n /\ e + 1 \in k + 1 .. i
        BY <1>2, <1>3, <3>1
      <4> QED BY <1>4, <2>2, <4>1
    <3>3. ~(i < e)
      <4> SUFFICES ASSUME i < e PROVE FALSE
        OBVIOUS
      <4>1. i # n /\ i + 1 \in f + 1 .. e
        BY <1>2, <1>3, <3>1
      <4> QED BY <1>4, <2>2, <4>1
    <3> QED BY <3>1, <3>2, <3>3
  <2> HIDE DEF Right
  <2> QED BY <2>1, <2>2
<1> HIDE DEF from, to
<1> QED BY <1>1, <1>5, <1>6

\* hover's word at either end of a name that stands alone is the name.
LEMMA HitWord ==
  ASSUME NEW s \in Text, NEW h \in HitSet, Spells(s, h), Alone(s, h), NEW k \in {h.from, h.to}
  PROVE  WordAt(s, k) = h.name
<1>1. h.from \in Nat /\ h.to \in Nat
  BY DEF HitSet
<1>2. /\ h.from < h.to /\ h.to <= Len(s) /\ h.name = SubSeq(s, h.from + 1, h.to)
      /\ \A i \in h.from + 1 .. h.to : s[i] \in Ident \cup Joiners
      /\ h.from = 0 \/ s[h.from] \notin Ident \cup Joiners
      /\ h.to = Len(s) \/ s[h.to + 1] \notin Ident \cup Joiners
  BY DEF Spells, Alone
<1>3. k \in h.from .. h.to
  BY <1>1, <1>2
<1> QED BY <1>1, <1>2, <1>3, WordIs

\* A place of segment i of logical line n, as it is sent: the client and the server
\* both read it back.
LEMMA PlaceRead ==
  ASSUME NEW t \in Text, NEW ls, NEW b, Laid(t, ls, b), b[Len(ls)] <= LineCount(t),
         NEW n \in DOMAIN ls, NEW i \in DOMAIN ls[n].segments,
         NEW k \in 0 .. ls[n].segments[i].len,
         NEW p, p = ToWire(t, ls[n].segments[i].line, k, enc)
  PROVE  /\ p.line < LineCount(t) /\ ls[n].segments[i].start + k \in Nat
         /\ ClientOffset(t, p) = LineStart(t, ls[n].segments[i].line) + k
         /\ Covering(ls, p.line) = n
         /\ LogicalOffset(ls[n], p.line,
                          CharacterToOffset(OutLine(t, p.line), p.character, enc))
              = ls[n].segments[i].start + k
<1> DEFINE l == ls[n].segments[i].line
           len == ls[n].segments[i].len
           c == ls[n].segments[i].start + k
           N == Len(ls)
<1>1. N \in Nat /\ n \in 1 .. N /\ DOMAIN ls = 1 .. N
  BY DEF Laid
<1>2. /\ \A m \in 0 .. N : b[m] \in Nat
      /\ \A m \in 1 .. N : b[m - 1] < b[m] /\ Formed(t, ls[m], b[m - 1], b[m])
  BY DEF Laid
<1>3. Formed(t, ls[n], b[n - 1], b[n])
  BY <1>1, <1>2
<1>4. /\ l \in Nat /\ len \in Nat /\ len = Body(t, l) /\ l < b[n]
      /\ ls[n].segments[i].start \in Nat
  BY <1>3, SegmentsLie
<1>5. b[n] \in Nat /\ b[N] \in Nat /\ b[n] <= b[N]
  <2>1. n \in 0 .. N /\ N \in 0 .. N /\ (n < N \/ n = N)
    BY <1>1
  <2>2. n < N => b[n] < b[N]
    BY <1>1, <1>2, <2>1, StepsGrow
  <2> QED BY <1>2, <2>1, <2>2
<1>6. LineCount(t) \in Nat
  BY LineText
<1>7. l < LineCount(t)
  BY <1>4, <1>5, <1>6
<1>8. k \in 0 .. Len(OutLine(t, l)) /\ k \in Nat
  <2>1. Body(t, l) \in Nat /\ Body(t, l) <= Len(OutLine(t, l)) /\ Len(OutLine(t, l)) \in Nat
    BY <1>4, BodyType
  <2>2. k \in Nat /\ k <= len
    BY <1>4
  <2> QED BY <1>4, <2>1, <2>2
<1>9. /\ ClientOffset(t, p) = LineStart(t, l) + k
      /\ CharacterToOffset(OutLine(t, l), p.character, enc) = k
      /\ p.line = l
  BY <1>4, <1>8, ClientReads
<1>10. Covering(ls, p.line) = n
  BY <1>9, CoveringFinds
<1>11. LogicalOffset(ls[n], l, k) = c
  BY <1>3, OffsetFinds
<1>12. LogicalOffset(ls[n], p.line, CharacterToOffset(OutLine(t, p.line), p.character, enc)) = c
  BY <1>9, <1>11
<1>13. c \in Nat
  BY <1>4, <1>8
<1> QED BY <1>7, <1>9, <1>10, <1>12, <1>13

\* What is asked at the place p, that of number c in logical line n
AskedAs(t, ls, index, p, n, c) ==
  Occurrence(t, ls, index, p) = HitAt(index, WordAt(ls[n].text, c), n, c)

\* resolve_cursor_occurrence asks the index at that place.
LEMMA PlaceAsked ==
  ASSUME NEW t \in Text, NEW ls, NEW b, Laid(t, ls, b), b[Len(ls)] <= LineCount(t),
         NEW n \in DOMAIN ls, NEW i \in DOMAIN ls[n].segments,
         NEW k \in 0 .. ls[n].segments[i].len, NEW index,
         NEW p, p = ToWire(t, ls[n].segments[i].line, k, enc),
         NEW c, c = ls[n].segments[i].start + k
  PROVE  AskedAs(t, ls, index, p, n, c)
<1> DEFINE line == IF p.line < LineCount(t) THEN OutLine(t, p.line) ELSE <<>>
           In(m, cursor) == IF cursor = Invalid THEN Invalid
                            ELSE HitAt(index, WordAt(ls[m].text, cursor), m, cursor)
           On(m) == IF m = 0 THEN Invalid
                    ELSE In(m, LogicalOffset(ls[m], p.line,
                                             CharacterToOffset(line, p.character, enc)))
<1>1. Occurrence(t, ls, index, p) = On(Covering(ls, p.line))
  BY DEF Occurrence
<1>2. /\ p.line < LineCount(t) /\ c \in Nat /\ Covering(ls, p.line) = n
      /\ LogicalOffset(ls[n], p.line, CharacterToOffset(OutLine(t, p.line), p.character, enc)) = c
  BY PlaceRead
<1>3. line = OutLine(t, p.line)
  BY <1>2
<1>4. c # Invalid
  BY <1>2, InvalidAssumption
<1>5. n # 0
  BY DEF Laid
<1> HIDE DEF line
<1>6. In(n, c) = HitAt(index, WordAt(ls[n].text, c), n, c)
  BY <1>4
<1>7. On(n) = In(n, c)
  <2> HIDE DEF In
  <2> QED BY <1>2, <1>3, <1>5
<1> HIDE DEF In, On
<1> QED BY <1>1, <1>2, <1>6, <1>7 DEF AskedAs

\* A hit that is a name of the logical lines, and the range it is sent as: it begins in
\* segment i and ends in segment j.
SentAs(t, ls, h, i, j) ==
  LET g == ls[h.line].segments IN
    /\ i \in DOMAIN g /\ j \in DOMAIN g
    /\ Has(ls[h.line], i, h.from + 1) /\ Has(ls[h.line], j, h.to)
    /\ h.from - g[i].start \in 0 .. g[i].len /\ h.to - g[j].start \in 0 .. g[j].len
    /\ WireRange(t, ls, h) = [start |-> ToWire(t, g[i].line, h.from - g[i].start, enc),
                              end   |-> ToWire(t, g[j].line, h.to - g[j].start, enc)]

\* Every name has such segments.
LEMMA HitRange ==
  ASSUME NEW t \in Text, NEW ls, NEW b, Laid(t, ls, b),
         NEW h \in HitSet, h.line \in DOMAIN ls, Spells(ls[h.line].text, h)
  PROVE  \E i, j : SentAs(t, ls, h, i, j)
<1> DEFINE n == h.line
           ll == ls[n]
           g == ll.segments
<1>1. Formed(t, ll, b[n - 1], b[n])
  BY DEF Laid
<1>2. h.from \in Nat /\ h.to \in Nat /\ h.from < h.to /\ h.to <= Len(ll.text)
  BY DEF HitSet, Spells
<1>3. /\ Len(ll.text) \in Nat
      /\ \A i \in DOMAIN g : g[i].start \in Nat /\ g[i].len \in Nat
  BY <1>1, SegmentsLie
<1>4. h.from + 1 \in 1 .. Len(ll.text) /\ h.to \in 1 .. Len(ll.text)
  BY <1>2, <1>3
<1> HIDE DEF n
<1>5. PICK i \in DOMAIN g : Has(ll, i, h.from + 1)
  BY <1>1, <1>4, SegmentOf
<1>6. PICK j \in DOMAIN g : Has(ll, j, h.to)
  BY <1>1, <1>4, SegmentOf
<1>7. MapPos(ll, h.from, TRUE) = [line |-> g[i].line, at |-> h.from - g[i].start]
  <2>1. MapPos(ll, (h.from + 1) - 1, TRUE)
          = [line |-> g[i].line, at |-> (h.from + 1) - 1 - g[i].start]
    BY <1>1, <1>4, <1>5, MapPosAt
  <2>2. (h.from + 1) - 1 = h.from
    BY <1>2
  <2> QED BY <2>1, <2>2
<1>8. MapPos(ll, h.to, FALSE) = [line |-> g[j].line, at |-> h.to - g[j].start]
  BY <1>1, <1>4, <1>6, MapPosAt
<1>9. MapRange(ll, h.from, h.to) = [start |-> MapPos(ll, h.from, TRUE), end |-> MapPos(ll, h.to, FALSE)]
  <2>1. (h.from < h.to) = TRUE
    BY <1>2
  <2> QED BY <2>1 DEF MapRange
<1>10. h.from - g[i].start \in 0 .. g[i].len /\ h.to - g[j].start \in 0 .. g[j].len
  <2>1. g[i].start < h.from + 1 /\ h.from + 1 <= g[i].start + g[i].len
    BY <1>5 DEF Has
  <2>2. g[j].start < h.to /\ h.to <= g[j].start + g[j].len
    BY <1>6 DEF Has
  <2>3. g[i].start \in Nat /\ g[i].len \in Nat /\ g[j].start \in Nat /\ g[j].len \in Nat
    BY <1>3, <1>5, <1>6
  <2> HIDE DEF g
  <2> QED BY <1>2, <2>1, <2>2, <2>3
<1> DEFINE a == MapPos(ll, h.from, TRUE)
           z == MapPos(ll, h.to, FALSE)
<1>11. WireRange(t, ls, h) = [start |-> ToWire(t, a.line, a.at, enc), end |-> ToWire(t, z.line, z.at, enc)]
  BY <1>9 DEF WireRange, n
<1>12. /\ a.line = g[i].line /\ a.at = h.from - g[i].start
       /\ z.line = g[j].line /\ z.at = h.to - g[j].start
  <2> DEFINE x == h.from - g[i].start
             y == h.to - g[j].start
             c == g[i].line
             d == g[j].line
  <2>1. a = [line |-> c, at |-> x] /\ z = [line |-> d, at |-> y]
    BY <1>7, <1>8
  <2> HIDE DEF a, z, x, y, c, d
  <2>2. a.line = c /\ a.at = x /\ z.line = d /\ z.at = y
    BY <2>1
  <2> QED BY <2>2 DEF x, y, c, d
<1> HIDE DEF a, z
<1>13. WireRange(t, ls, h) = [start |-> ToWire(t, g[i].line, h.from - g[i].start, enc),
                              end   |-> ToWire(t, g[j].line, h.to - g[j].start, enc)]
  BY <1>11, <1>12
<1>14. SentAs(t, ls, h, i, j)
  BY <1>5, <1>6, <1>10, <1>13 DEF SentAs, n
<1> QED BY <1>14

\* The text after offset from and up to offset to holds the name of the hit.
HoldsName(t, h, from, to) ==
  /\ {from + 1, to} \subseteq Held(t)
  /\ Chosen(t, (from + 1 .. to) \cap Held(t)) = h.name

\* The range that a name is sent as holds it.
LEMMA RangeHolds ==
  ASSUME NEW t \in Text, NEW ls, NEW b, Laid(t, ls, b), b[Len(ls)] <= LineCount(t),
         NEW h \in HitSet, h.line \in DOMAIN ls, Spells(ls[h.line].text, h),
         NEW r, r = WireRange(t, ls, h),
         NEW from, from = ClientOffset(t, r.start), NEW to, to = ClientOffset(t, r.end)
  PROVE  HoldsName(t, h, from, to)
<1> DEFINE n == h.line
           ll == ls[n]
           g == ll.segments
<1>1. /\ Formed(t, ll, b[n - 1], b[n]) /\ b[n] <= LineCount(t) /\ ll \in LogicalSet
  <2> DEFINE N == Len(ls)
  <2>1. N \in Nat /\ n \in 1 .. N
    BY DEF Laid
  <2>2. /\ \A m \in 0 .. N : b[m] \in Nat
        /\ \A m \in 1 .. N : b[m - 1] < b[m] /\ Formed(t, ls[m], b[m - 1], b[m])
    BY DEF Laid
  <2>3. n \in 0 .. N /\ N \in 0 .. N /\ (n < N \/ n = N)
    BY <2>1
  <2>4. n < N => b[n] < b[N]
    BY <2>1, <2>2, <2>3, StepsGrow
  <2>5. b[n] \in Nat /\ b[N] \in Nat
    BY <2>2, <2>3
  <2>6. LineCount(t) \in Nat
    BY LineText
  <2>7. b[n] <= LineCount(t)
    BY <2>3, <2>4, <2>5, <2>6
  <2>8. Formed(t, ll, b[n - 1], b[n])
    BY <2>1, <2>2
  <2> QED BY <2>7, <2>8 DEF Formed
<1>2. PICK P : Placed(t, ll, P)
  BY <1>1, PlacesOf
<1>3. PICK i, j : SentAs(t, ls, h, i, j)
  BY HitRange
<1>4. /\ i \in DOMAIN g /\ j \in DOMAIN g
      /\ Has(ll, i, h.from + 1) /\ Has(ll, j, h.to)
      /\ h.from - g[i].start \in 0 .. g[i].len /\ h.to - g[j].start \in 0 .. g[j].len
      /\ r.start = ToWire(t, g[i].line, h.from - g[i].start, enc)
      /\ r.end = ToWire(t, g[j].line, h.to - g[j].start, enc)
  BY <1>3 DEF SentAs
<1>5. /\ from = LineStart(t, g[i].line) + (h.from - g[i].start)
      /\ to = LineStart(t, g[j].line) + (h.to - g[j].start)
  <2> DEFINE x == h.from - g[i].start
             y == h.to - g[j].start
  <2>1. x \in 0 .. g[i].len /\ r.start = ToWire(t, g[i].line, x, enc)
    BY <1>4
  <2>2. y \in 0 .. g[j].len /\ r.end = ToWire(t, g[j].line, y, enc)
    BY <1>4
  <2> HIDE DEF x, y
  <2>3. ClientOffset(t, r.start) = LineStart(t, g[i].line) + x
    BY <1>4, <2>1, PlaceRead
  <2>4. ClientOffset(t, r.end) = LineStart(t, g[j].line) + y
    BY <1>4, <2>2, PlaceRead
  <2> QED BY <2>3, <2>4 DEF x, y
<1>6. h.from \in Nat /\ h.to \in Nat /\ h.from < h.to /\ h.to <= Len(ll.text)
      /\ h.name = SubSeq(ll.text, h.from + 1, h.to)
  BY DEF HitSet, Spells
<1>7. /\ Len(ll.text) \in Nat
      /\ \A m \in DOMAIN g : g[m].start \in Nat /\ g[m].len \in Nat /\ g[m].line \in Nat
  BY <1>1, SegmentsLie
<1>8. h.from + 1 \in 1 .. Len(ll.text) /\ h.to \in 1 .. Len(ll.text)
  BY <1>6, <1>7
<1>9. /\ P[h.from + 1] = LineStart(t, g[i].line) + ((h.from + 1) - g[i].start)
      /\ P[h.to] = LineStart(t, g[j].line) + (h.to - g[j].start)
  BY <1>2, <1>4, <1>8 DEF Placed
<1>10. LineStart(t, g[i].line) \in Nat
  BY <1>4, <1>7, LinesApart
<1>11. P[h.from + 1] = from + 1 /\ P[h.to] = to
  <2>1. g[i].start \in Nat
    BY <1>4, <1>7
  <2> HIDE DEF g
  <2> QED BY <1>5, <1>6, <1>9, <1>10, <2>1
<1>12. /\ {P[h.from + 1], P[h.to]} \subseteq Held(t)
       /\ Chosen(t, (P[h.from + 1] .. P[h.to]) \cap Held(t)) = SubSeq(ll.text, h.from + 1, h.to)
  <2> DEFINE f == h.from
             e == h.to
  <2>1. ll \in LogicalSet /\ f \in Nat /\ e \in Nat /\ f < e /\ e <= Len(ll.text)
    BY <1>1, <1>6
  <2> HIDE DEF ll, f, e
  <2>2. HeldAs(t, ll, P, f, e)
    BY <1>2, <2>1, HeldText
  <2> QED BY <2>2 DEF f, e, HeldAs
<1> QED BY <1>6, <1>11, <1>12 DEF HoldsName

\* The names of a text's logical lines
NameOf(ls, h) == h \in HitSet /\ h.line \in DOMAIN ls /\ Spells(ls[h.line].text, h)

\* Asked at the position p, the server finds the name h at one of its ends.
FoundAt(t, ls, index, h, p) ==
  \E at \in {h.from, h.to} :
    /\ Occurrence(t, ls, index, p) = [name |-> h.name, line |-> h.line, at |-> at]
    /\ Occurrence(t, ls, index, p) # Invalid

\* So it is with a name that stands alone, asked at either end of its range.
LEMMA HitAsked ==
  ASSUME NEW t \in Text, NEW ls, NEW b, Laid(t, ls, b), b[Len(ls)] <= LineCount(t),
         NEW index, NEW h \in ToSet(index), NameOf(ls, h), Alone(ls[h.line].text, h),
         NEW r, r = WireRange(t, ls, h), NEW p \in {r.start, r.end}
  PROVE  FoundAt(t, ls, index, h, p)
<1> DEFINE n == h.line
           g == ls[n].segments
           s == ls[n].text
<1>1. h \in HitSet /\ n \in DOMAIN ls /\ Spells(s, h)
  BY DEF NameOf
<1>2. PICK i, j : SentAs(t, ls, h, i, j)
  BY <1>1, HitRange
<1>3. /\ i \in DOMAIN g /\ j \in DOMAIN g
      /\ h.from - g[i].start \in 0 .. g[i].len /\ h.to - g[j].start \in 0 .. g[j].len
      /\ r.start = ToWire(t, g[i].line, h.from - g[i].start, enc)
      /\ r.end = ToWire(t, g[j].line, h.to - g[j].start, enc)
  BY <1>2 DEF SentAs
<1>4. h.from \in Nat /\ h.to \in Nat /\ n \in Nat /\ h.name \in Text /\ h.from < h.to
  BY <1>1 DEF HitSet, Spells
<1>5. Formed(t, ls[n], b[n - 1], b[n]) /\ s \in Text
  <2>1. Formed(t, ls[n], b[n - 1], b[n])
    BY <1>1 DEF Laid
  <2> QED BY <2>1 DEF Formed, LogicalSet
<1>6. g[i].start \in Nat /\ g[j].start \in Nat
  BY <1>3, <1>5, SegmentsLie
<1>7. ASSUME NEW c \in {h.from, h.to}
      PROVE  /\ HitAt(index, WordAt(s, c), n, c) = [name |-> h.name, line |-> n, at |-> c]
             /\ HitAt(index, WordAt(s, c), n, c) # Invalid
  <2>1. WordAt(s, c) = h.name
    BY <1>1, <1>5, HitWord
  <2>2. h.from <= c /\ c <= h.to /\ c \in Nat
    BY <1>4
  <2>3. HitAt(index, h.name, n, c) = [name |-> h.name, line |-> n, at |-> c]
    BY <2>2 DEF HitAt
  <2>4. [name |-> h.name, line |-> n, at |-> c] \in Occurrences
    BY <1>4, <2>2 DEF Occurrences
  <2> QED BY <2>1, <2>3, <2>4, OccurrenceAssumption
<1>8. CASE p = r.start
  <2> DEFINE k == h.from - g[i].start
  <2>1. k \in 0 .. g[i].len /\ p = ToWire(t, g[i].line, k, enc) /\ g[i].start + k = h.from
    BY <1>3, <1>4, <1>6, <1>8
  <2> HIDE DEF k
  <2>2. AskedAs(t, ls, index, p, n, h.from)
    BY <1>1, <1>3, <2>1, PlaceAsked
  <2>3. Occurrence(t, ls, index, p) = HitAt(index, WordAt(s, h.from), n, h.from)
    BY <2>2 DEF AskedAs
  <2> QED BY <1>7, <2>3 DEF FoundAt
<1>9. CASE p = r.end
  <2> DEFINE k == h.to - g[j].start
  <2>1. k \in 0 .. g[j].len /\ p = ToWire(t, g[j].line, k, enc) /\ g[j].start + k = h.to
    BY <1>3, <1>4, <1>6, <1>9
  <2> HIDE DEF k
  <2>2. AskedAs(t, ls, index, p, n, h.to)
    BY <1>1, <1>3, <2>1, PlaceAsked
  <2>3. Occurrence(t, ls, index, p) = HitAt(index, WordAt(s, h.to), n, h.to)
    BY <2>2 DEF AskedAs
  <2> QED BY <1>7, <2>3 DEF FoundAt
<1> QED BY <1>8, <1>9

\* Where the ends of a range are read back
LEMMA EndsRead ==
  ASSUME NEW t \in Text, NEW ls, NEW b, Laid(t, ls, b), b[Len(ls)] <= LineCount(t),
         NEW h, NameOf(ls, h), NEW r, r = WireRange(t, ls, h)
  PROVE  /\ Covering(ls, r.start.line) = h.line
         /\ LogicalOffset(ls[h.line], r.start.line,
                          CharacterToOffset(OutLine(t, r.start.line), r.start.character, enc))
              = h.from
         /\ LogicalOffset(ls[h.line], r.end.line,
                          CharacterToOffset(OutLine(t, r.end.line), r.end.character, enc))
              = h.to
<1> DEFINE n == h.line
           g == ls[n].segments
<1>1. h \in HitSet /\ n \in DOMAIN ls /\ Spells(ls[n].text, h)
  BY DEF NameOf
<1>2. PICK i, j : SentAs(t, ls, h, i, j)
  BY <1>1, HitRange
<1>3. /\ i \in DOMAIN g /\ j \in DOMAIN g
      /\ h.from - g[i].start \in 0 .. g[i].len /\ h.to - g[j].start \in 0 .. g[j].len
      /\ r.start = ToWire(t, g[i].line, h.from - g[i].start, enc)
      /\ r.end = ToWire(t, g[j].line, h.to - g[j].start, enc)
  BY <1>2 DEF SentAs
<1>4. h.from \in Nat /\ h.to \in Nat
  BY <1>1 DEF HitSet
<1>5. g[i].start \in Nat /\ g[j].start \in Nat
  <2>1. Formed(t, ls[n], b[n - 1], b[n])
    BY <1>1 DEF Laid
  <2> QED BY <1>3, <2>1, SegmentsLie
<1> DEFINE x == h.from - g[i].start
           y == h.to - g[j].start
<1>6. x \in 0 .. g[i].len /\ r.start = ToWire(t, g[i].line, x, enc) /\ g[i].start + x = h.from
  BY <1>3, <1>4, <1>5
<1>7. y \in 0 .. g[j].len /\ r.end = ToWire(t, g[j].line, y, enc) /\ g[j].start + y = h.to
  BY <1>3, <1>4, <1>5
<1> HIDE DEF x, y
<1>8. /\ Covering(ls, r.start.line) = n
      /\ LogicalOffset(ls[n], r.start.line,
                       CharacterToOffset(OutLine(t, r.start.line), r.start.character, enc))
           = g[i].start + x
  BY <1>1, <1>3, <1>6, PlaceRead
<1>9. LogicalOffset(ls[n], r.end.line,
                    CharacterToOffset(OutLine(t, r.end.line), r.end.character, enc))
        = g[j].start + y
  BY <1>1, <1>3, <1>7, PlaceRead
<1> QED BY <1>6, <1>7, <1>8, <1>9

\* Two names are not sent as the same range.
LEMMA SameRange ==
  ASSUME NEW t \in Text, NEW ls, NEW b, Laid(t, ls, b), b[Len(ls)] <= LineCount(t),
         NEW h, NameOf(ls, h), NEW k, NameOf(ls, k), WireRange(t, ls, h) = WireRange(t, ls, k)
  PROVE  h = k
<1>1. h.line = k.line
  BY EndsRead
<1>2. h.from = k.from /\ h.to = k.to
  <2> DEFINE r == WireRange(t, ls, h)
             a == LogicalOffset(ls[h.line], r.start.line,
                    CharacterToOffset(OutLine(t, r.start.line), r.start.character, enc))
             z == LogicalOffset(ls[h.line], r.end.line,
                    CharacterToOffset(OutLine(t, r.end.line), r.end.character, enc))
  <2>1. a = h.from /\ z = h.to
    BY EndsRead
  <2>2. r = WireRange(t, ls, k) /\ ls[h.line] = ls[k.line]
    BY <1>1
  <2> HIDE DEF r
  <2>3. a = k.from /\ z = k.to
    BY <2>2, EndsRead
  <2> QED BY <2>1, <2>3
<1>3. h.name = k.name
  BY <1>1, <1>2 DEF NameOf, Spells
<1>4. h.decl = k.decl
  <2> DEFINE s == ls[h.line].text
  <2>1. h.decl \in BOOLEAN /\ k.decl \in BOOLEAN /\ Spells(s, h) /\ Spells(s, k)
    BY <1>1 DEF NameOf, HitSet
  <2>2. /\ IF h.decl THEN h.from = 0 \/ s[h.from] \in Blank ELSE h.from # 0 /\ s[h.from] = Dollar
        /\ IF k.decl THEN h.from = 0 \/ s[h.from] \in Blank ELSE h.from # 0 /\ s[h.from] = Dollar
    BY <1>2, <2>1 DEF Spells
  <2> HIDE DEF s
  <2> QED BY <2>1, <2>2, NavigationAssumption
<1> QED BY <1>1, <1>2, <1>3, <1>4 DEF NameOf, HitSet

\* The hits of the index
LEMMA IndexNames ==
  ASSUME NEW t \in Text
  PROVE  \A h \in ToSet(Index(LogicalLines(t))) : NameOf(LogicalLines(t), h)
<1> DEFINE ls == LogicalLines(t)
           ix == Index(ls)
<1>1. PICK b : Laid(t, ls, b)
  BY LogicalLinesLaid
<1> HIDE DEF ls
<1>2. ls \in Seq(LogicalSet)
  BY <1>1 DEF Laid
<1>3. Indexed(ls, Len(ls), ix)
  BY <1>2, IndexIs
<1> HIDE DEF ix
<1>4. ASSUME NEW i \in DOMAIN ix PROVE NameOf(ls, ix[i])
  <2>1. ix[i] \in HitSet /\ ix[i].line \in 1 .. Len(ls) /\ Spells(ls[ix[i].line].text, ix[i])
    BY <1>3 DEF Indexed
  <2> QED BY <1>2, <2>1 DEF NameOf
<1> QED BY <1>4 DEF ToSet, ls, ix

-----------------------------------------------------------------------------
(* The answers *)

\* collect_references: the hits of the name
LEMMA ReferencesAre ==
  ASSUME NEW ix \in Seq(HitSet), NEW name, NEW decl,
         decl = Invalid \/ (decl \in ToSet(ix) /\ decl.name = name)
  PROVE  \A h \in ToSet(References(ix, name, decl)) : h \in ToSet(ix) /\ h.name = name
<1> DEFINE G == {h \in ToSet(ix) : h.name = name}
           keep == {i \in DOMAIN ix : ~ix[i].decl /\ ix[i].name = name}
           usages == Chosen(ix, keep)
           all == IF decl = Invalid THEN usages ELSE <<decl>> \o usages
           m == IF Len(all) < MaxReferences THEN Len(all) ELSE MaxReferences
<1>1. References(ix, name, decl) = SubSeq(all, 1, m)
  BY DEF References
<1>2. usages \in Seq(G)
  <2>1. keep \in SUBSET DOMAIN ix /\ \A i \in keep : ix[i] \in G
    BY DEF ToSet
  <2> HIDE DEF keep, G
  <2>2. /\ usages \in Seq(HitSet)
        /\ \A k \in 1 .. Len(usages) : \E i \in keep : usages[k] = ix[i]
    BY <2>1, ChosenKeeps
  <2> HIDE DEF usages
  <2>3. \A k \in 1 .. Len(usages) : usages[k] \in G
    BY <2>1, <2>2
  <2> QED BY <2>2, <2>3
<1>3. decl # Invalid => decl \in G
  OBVIOUS
<1> HIDE DEF usages, G, m
<1>4. all \in Seq(G)
  <2>1. CASE decl = Invalid
    BY <1>2, <2>1
  <2>2. CASE decl # Invalid
    <3>1. <<decl>> \in Seq(G)
      BY <1>3, <2>2
    <3> QED BY <1>2, <2>2, <3>1
  <2> QED BY <2>1, <2>2
<1>5. m \in Nat /\ m <= Len(all)
  BY <1>4, NavigationAssumption DEF m
<1> HIDE DEF all
<1>6. SubSeq(all, 1, m) \in Seq(G)
  BY <1>4, <1>5
<1>7. \A h \in ToSet(SubSeq(all, 1, m)) : h \in G
  <2> DEFINE x == SubSeq(all, 1, m)
  <2>1. x \in Seq(G)
    BY <1>6
  <2> HIDE DEF x
  <2>2. \A k \in DOMAIN x : x[k] \in G
    BY <2>1
  <2>3. \A h \in ToSet(x) : h \in G
    BY <2>2 DEF ToSet
  <2> QED BY <2>3 DEF x
<1> QED BY <1>1, <1>7 DEF G

\* The hits of the text
Hits == ToSet(Index(LogicalLines(text)))

\* The ranges of an answer are those of names of the text that is there.
AnswerSent ==
  answer.kind \in {"definition", "references"} =>
    \A r \in answer.ranges : \E h \in Hits :
      /\ WireRange(text, LogicalLines(text), h) = r /\ h.name = answer.name
      /\ answer.kind = "definition" => h.decl

\* A range of the answer, and what the client and the server make of it
RangeResolves(ls, held, index, r) ==
  /\ \A from \in {ClientOffset(text, r.start)}, to \in {ClientOffset(text, r.end)} :
       /\ {from + 1, to} \subseteq held
       /\ Chosen(text, (from + 1 .. to) \cap held) = answer.name
  /\ \A h \in ToSet(index) :
       WireRange(text, ls, h) = r /\ Alone(ls[h.line].text, h) =>
         \A p \in {r.start, r.end} :
           \E occ \in {Occurrence(text, ls, index, p)} \ {Invalid} :
             /\ occ.name = answer.name
             /\ answer.kind = "definition" => Definition(index, occ) = h

\* Such an answer resolves.
LEMMA SentResolves ==
  ASSUME text \in Text, AnswerSent
  PROVE  AnswersResolve
<1> SUFFICES ASSUME answer.kind \in {"definition", "references"},
                    NEW logicals \in {LogicalLines(text)}, NEW held \in {Held(text)},
                    NEW index \in {Index(logicals)}, NEW r \in answer.ranges
             PROVE  RangeResolves(logicals, held, index, r)
  BY Zenon DEF AnswersResolve, RangeResolves
<1> DEFINE ls == LogicalLines(text)
           ix == Index(ls)
<1>1. PICK b : Laid(text, ls, b) /\ b[Len(ls)] <= LineCount(text)
  BY LogicalLinesLaid
<1>2. PICK h \in ToSet(ix) :
        /\ WireRange(text, ls, h) = r /\ h.name = answer.name
        /\ answer.kind = "definition" => h.decl
  BY DEF AnswerSent, Hits
<1>3. \A k \in ToSet(ix) : NameOf(ls, k)
  BY IndexNames
<1>4. Indexed(ls, Len(ls), ix) /\ Len(ls) \in Nat
  <2>1. ls \in Seq(LogicalSet)
    BY <1>1 DEF Laid
  <2> HIDE DEF ls
  <2> QED BY <2>1, IndexIs
<1> HIDE DEF ls, ix
<1>5. h \in HitSet /\ h.line \in DOMAIN ls /\ Spells(ls[h.line].text, h)
  BY <1>2, <1>3 DEF NameOf
<1>6. ASSUME NEW from, from = ClientOffset(text, r.start), NEW to, to = ClientOffset(text, r.end)
      PROVE  /\ {from + 1, to} \subseteq Held(text)
             /\ Chosen(text, (from + 1 .. to) \cap Held(text)) = answer.name
  <2>1. HoldsName(text, h, from, to)
    BY <1>1, <1>2, <1>5, <1>6, RangeHolds
  <2> QED BY <1>2, <2>1 DEF HoldsName
<1>7. ASSUME NEW k \in ToSet(ix), WireRange(text, ls, k) = r, Alone(ls[k.line].text, k),
             NEW p \in {r.start, r.end}
      PROVE  \E occ \in {Occurrence(text, ls, ix, p)} \ {Invalid} :
               /\ occ.name = answer.name
               /\ answer.kind = "definition" => Definition(ix, occ) = k
  <2>1. k = h
    BY <1>1, <1>2, <1>3, <1>7, SameRange
  <2> DEFINE occ == Occurrence(text, ls, ix, p)
  <2>0. FoundAt(text, ls, ix, k, p)
    BY <1>1, <1>3, <1>7, HitAsked
  <2>2. PICK at \in {k.from, k.to} : /\ occ = [name |-> k.name, line |-> k.line, at |-> at]
                                     /\ occ # Invalid
    BY <2>0 DEF FoundAt
  <2>3. at \in Nat /\ k.from <= at
    <3>1. k.from \in Nat /\ k.to \in Nat /\ k.from < k.to
      BY <1>5, <2>1 DEF HitSet, Spells
    <3> QED BY <2>2, <3>1
  <2> HIDE DEF occ
  <2>4. occ.name = answer.name
    BY <1>2, <2>1, <2>2
  <2>5. ASSUME answer.kind = "definition" PROVE Definition(ix, occ) = k
    <3>1. k.decl
      BY <1>2, <2>1, <2>5
    <3>2. PICK i \in DOMAIN ix : ix[i] = k
      BY <1>7 DEF ToSet
    <3>3. OwnDefinition(ix, ix[i], at)
      BY <1>4, <2>3, <3>1, <3>2, DefinitionIs
    <3> QED BY <2>2, <3>2, <3>3 DEF OwnDefinition
  <2>6. occ \in {occ} \ {Invalid}
    BY <2>2
  <2> QED BY <2>4, <2>5, <2>6 DEF occ
<1>8. RangeResolves(ls, Held(text), ix, r)
  BY <1>6, <1>7 DEF RangeResolves
<1>9. logicals = ls /\ held = Held(text) /\ index = ix
  BY DEF ls, ix
<1> QED BY <1>8, <1>9

\* A request answers with names of the text.
LEMMA AskSends ==
  ASSUME text \in Text, Ask
  PROVE  AnswerSent'
<1> DEFINE ls == LogicalLines(text)
           ix == Index(ls)
<1>1. PICK occ :
        \/ GotoDefinition(ls, ix, occ)
        \/ \E declaration \in BOOLEAN : FindReferences(ls, ix, occ, declaration)
        \/ \E raw \in NewNames : Rename(ls, ix, occ, CleanedNewName(raw))
  BY DEF Ask
<1>2. Indexed(ls, Len(ls), ix) /\ Len(ls) \in Nat
  <2>1. PICK b : Laid(text, ls, b)
    BY LogicalLinesLaid
  <2>2. ls \in Seq(LogicalSet)
    BY <2>1 DEF Laid
  <2> HIDE DEF ls
  <2> QED BY <2>2, IndexIs
<1>3. UNCHANGED <<text, enc>> =>
        /\ Hits' = ToSet(ix)
        /\ \A h : WireRange(text, LogicalLines(text), h)' = WireRange(text, ls, h)
  BY DEF Hits, WireRange
<1>4. \A o : Definition(ix, o) # Invalid =>
        /\ Definition(ix, o) \in ToSet(ix) /\ Definition(ix, o).decl
        /\ Definition(ix, o).name = o.name
  <2> SUFFICES ASSUME NEW o, Definition(ix, o) # Invalid
               PROVE  /\ Definition(ix, o) \in ToSet(ix) /\ Definition(ix, o).decl
                      /\ Definition(ix, o).name = o.name
    OBVIOUS
  <2> HIDE DEF ls, ix
  <2>1. PICK i \in DOMAIN ix : Definition(ix, o) = ix[i] /\ ix[i].decl /\ ix[i].name = o.name
    BY <1>2, DefinitionAmong
  <2> QED BY <2>1 DEF ToSet
<1> HIDE DEF ls, ix
<1>5. CASE GotoDefinition(ls, ix, occ)
  <2> DEFINE d == Definition(ix, occ)
  <2>1. /\ d # Invalid /\ UNCHANGED <<text, enc>>
        /\ answer' = [kind |-> "definition", name |-> occ.name, ranges |-> {WireRange(text, ls, d)}]
    BY <1>5 DEF GotoDefinition
  <2>2. d \in Hits' /\ d.decl /\ d.name = occ.name
    BY <1>3, <1>4, <2>1
  <2>3. \A h : WireRange(text, LogicalLines(text), h)' = WireRange(text, ls, h)
    BY <1>3, <2>1
  <2> HIDE DEF d
  <2>4. answer'.name = occ.name /\ answer'.ranges = {WireRange(text, ls, d)}
    BY <2>1
  <2>5. ASSUME NEW r \in answer'.ranges
        PROVE  \E h \in Hits' : /\ WireRange(text, LogicalLines(text), h)' = r
                                /\ h.name = answer'.name /\ h.decl
    BY <2>2, <2>3, <2>4
  <2> QED BY <2>5 DEF AnswerSent
<1>6. ASSUME NEW declaration \in BOOLEAN, FindReferences(ls, ix, occ, declaration)
      PROVE  AnswerSent'
  <2> DEFINE d == IF declaration THEN Definition(ix, occ) ELSE Invalid
             hits == ToSet(References(ix, occ.name, d))
  <2>1. /\ UNCHANGED <<text, enc>>
        /\ answer' = [kind |-> "references", name |-> occ.name,
                      ranges |-> {WireRange(text, ls, h) : h \in hits}]
    BY <1>6 DEF FindReferences
  <2>2. d = Invalid \/ (d \in ToSet(ix) /\ d.name = occ.name)
    BY <1>4
  <2>3. ix \in Seq(HitSet)
    BY <1>2 DEF Indexed
  <2> HIDE DEF d
  <2>4. \A h \in hits : h \in ToSet(ix) /\ h.name = occ.name
    BY <2>2, <2>3, ReferencesAre
  <2>5. Hits' = ToSet(ix) /\ \A h : WireRange(text, LogicalLines(text), h)' = WireRange(text, ls, h)
    BY <1>3, <2>1
  <2> HIDE DEF hits
  <2>6. /\ answer'.name = occ.name /\ answer'.ranges = {WireRange(text, ls, h) : h \in hits}
        /\ answer'.kind = "references"
    BY <2>1
  <2>7. ASSUME NEW r \in answer'.ranges
        PROVE  \E h \in Hits' : /\ WireRange(text, LogicalLines(text), h)' = r
                                /\ h.name = answer'.name
    BY <2>4, <2>5, <2>6
  <2> QED BY <2>6, <2>7 DEF AnswerSent
<1>7. ASSUME NEW raw \in NewNames, Rename(ls, ix, occ, CleanedNewName(raw))
      PROVE  AnswerSent'
  <2>1. answer'.kind = "rename"
    BY <1>7 DEF Rename
  <2> QED BY <2>1 DEF AnswerSent
<1> QED BY <1>1, <1>5, <1>6, <1>7

\* resolve_cursor_occurrence against navigation_location_value (server_proto.rs):
\* whatever the client has typed and renamed, every range of an answer about a
\* definition or references holds the name, over the line ends that the name goes on
\* over; asked at either end of the range of a name that stands alone the server finds
\* that name, and a definition is its own definition.
THEOREM AnswersResolveAlways == Spec => []AnswersResolve
<1>1. Init => AnswerSent
  BY DEF Init, NoAnswer, AnswerSent
<1>2. text \in Text /\ AnswerSent /\ [Next]_vars => AnswerSent'
  <2> SUFFICES ASSUME text \in Text, AnswerSent, [Next]_vars PROVE AnswerSent'
    OBVIOUS
  <2>1. ASSUME NEW f \in Typed, Type(f) PROVE AnswerSent'
    <3>1. answer' = NoAnswer
      BY <2>1 DEF Type
    <3> QED BY <3>1 DEF AnswerSent, NoAnswer
  <2>2. CASE Ask
    BY <2>2, AskSends
  <2>3. CASE UNCHANGED vars
    <3>1. UNCHANGED <<text, enc, answer>>
      BY <2>3 DEF vars
    <3> QED BY <3>1 DEF AnswerSent, Hits, WireRange
  <2> QED BY <2>1, <2>2, <2>3 DEF Next
<1>3. text \in Text /\ AnswerSent => AnswersResolve
  BY SentResolves
<1> QED BY <1>1, <1>2, <1>3, TextStays, PTL DEF Spec
=============================================================================
