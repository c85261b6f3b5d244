------------------------------- MODULE Script -------------------------------
(***************************************************************************)
(* What the language server makes of the text of a script (parser.rs,      *)
(* diagnostics.rs, folding.rs): quotes and comments, tokens, physical      *)
(* lines joined to logical ones at a trailing backslash with the map back  *)
(* to positions, and the walk over the braces that the syntax diagnostics  *)
(* and the folding ranges share.                                           *)
(*                                                                         *)
(* Lines are numbered from 0 and offsets count the characters before, as   *)
(* in Encoding.                                                            *)
(*                                                                         *)
(* Definitions whose names start with Bad are plausible slips in the code  *)
(* of the definition that follows; no specification uses them.             *)
(***************************************************************************)
EXTENDS Encoding, Lists

CONSTANTS
  DoubleQuote, SingleQuote, Backslash, Hash, OpenBrace, CloseBrace,
  Blank,            \* the white space within a line
  MaxBraceDepth,    \* MAX_BRACE_DEPTH
  MaxFindings,      \* MAX_SYNTAX_DIAGNOSTICS
  MaxFoldings       \* MAX_FOLDING_RANGES

ASSUME ScriptAssumption ==
  /\ {DoubleQuote, SingleQuote, Backslash, Hash, OpenBrace, CloseBrace} \cup Blank
       \subseteq Chars \ {LF}
  /\ {MaxBraceDepth, MaxFindings, MaxFoldings} \subseteq Nat \ {0}

\* str::lines: no line after the last line feed
LineCount(t) == Lines(t) - (IF OutLine(t, Lines(t) - 1) = <<>> THEN 1 ELSE 0)
DocLines(t) == [i \in 1 .. LineCount(t) |-> OutLine(t, i - 1)]

-----------------------------------------------------------------------------
(***************************************************************************)
(* QuoteState.  "in" is the string a character stands in, and every        *)
(* character is of a kind: "escape" and "escaped" within a string, "quote" *)
(* for one that opens or closes it, "comment" from an unquoted # to the    *)
(* end of the line, else the string it stands in, or "plain".              *)
(***************************************************************************)
NoQuote == [in |-> "plain", escaped |-> FALSE]
ResetLine(q) == [q EXCEPT !.escaped = FALSE]

\* QuoteState::advance_byte
Advance(q, c) ==
  CASE q.escaped                                  -> [q |-> ResetLine(q), kind |-> "escaped"]
    [] ~q.escaped /\ c = Backslash /\ q.in # "plain" ->
         [q |-> [q EXCEPT !.escaped = TRUE], kind |-> "escape"]
    [] ~q.escaped /\ c = DoubleQuote /\ q.in # "single" ->
         [q |-> [q EXCEPT !.in = IF @ = "plain" THEN "double" ELSE "plain"], kind |-> "quote"]
    [] ~q.escaped /\ c = SingleQuote /\ q.in # "double" ->
         [q |-> [q EXCEPT !.in = IF @ = "plain" THEN "single" ELSE "plain"], kind |-> "quote"]
    [] ~q.escaped /\ c = Hash /\ q.in = "plain"   -> [q |-> q, kind |-> "comment"]
    [] OTHER                                      -> [q |-> q, kind |-> q.in]

\* The loop of every scanner: after a # that starts a comment nothing is looked at.
Look(seen, c) == IF seen.kind = "comment" THEN seen ELSE Advance(seen.q, c)
ScanFrom(line, q0) ==
  LET seen[i \in 0 .. Len(line)] ==
        IF i = 0 THEN [q |-> q0, kind |-> "plain"] ELSE Look(seen[i - 1], line[i])
  IN  [q |-> seen[Len(line)].q, kinds |-> [i \in 1 .. Len(line) |-> seen[i].kind]]
Kinds(line) == ScanFrom(line, NoQuote).kinds

\* effective_content_end: what precedes the comment; every line starts afresh.
EffectiveEnd(line) ==
  LET Of(kinds) == Cardinality({i \in DOMAIN kinds : kinds[i] # "comment"})
  IN  Of(Kinds(line))

\* tokenize_with_spans, with scan_token: the maximal runs of what is neither plain
\* white space nor comment, in order
Solid(line, kinds) ==
  {i \in DOMAIN line : kinds[i] # "comment" /\ ~(kinds[i] = "plain" /\ line[i] \in Blank)}
Token(line, solid, i) ==
  LET to == CHOOSE j \in i .. Len(line) : j + 1 \notin solid /\ i .. j \subseteq solid
  IN  [from |-> i - 1, to |-> to, text |-> SubSeq(line, i, to)]
Tokens(line) ==
  LET Of(solid) == LET starts == {i \in solid : i - 1 \notin solid}
                   IN  [n \in 1 .. Cardinality(starts) |-> Token(line, solid, Nth(starts, n))]
  IN  Of(Solid(line, Kinds(line)))

-----------------------------------------------------------------------------
(* Logical lines *)

\* The end of the content without the white space after it, and the run of
\* backslashes that ends there
TrimEnd(s) == LET solid == {i \in DOMAIN s : s[i] \notin Blank} IN
                IF solid = {} THEN 0 ELSE CHOOSE i \in solid : \A j \in solid : j <= i
Run(s) == Cardinality({i \in DOMAIN s : \A j \in i .. Len(s) : s[j] = Backslash})

\* continuation_body_end: whether a line goes on in the next one, and the end of
\* what it contributes
BodyEnd(line) ==
  LET Of(content) == IF Run(content) % 2 = 1
                       THEN [on |-> TRUE, at |-> Len(content) - Run(content)]
                       ELSE [on |-> FALSE, at |-> Len(line)]
  IN  Of(SubSeq(line, 1, TrimEnd(SubSeq(line, 1, EffectiveEnd(line)))))

EmptyLogical == [text |-> <<>>, segments |-> <<>>]

\* LogicalLine::push_chunk
PushChunk(ll, chunk, line) ==
  IF chunk = <<>> THEN ll
  ELSE [text |-> ll.text \o chunk,
        segments |-> Append(ll.segments,
                            [start |-> Len(ll.text), len |-> Len(chunk), line |-> line])]

\* build_logical_lines: line l joins what was read before it.
Joined(acc, line, l) ==
  LET Push(end) ==
        LET ll == PushChunk(acc.current, SubSeq(line, 1, end.at), l) IN
          IF end.on THEN [acc EXCEPT !.current = ll]
                    ELSE [current |-> EmptyLogical, done |-> Append(acc.done, ll)]
  IN  Push(BodyEnd(line))
LogicalLines(t) ==
  LET joined[n \in 0 .. LineCount(t)] ==
        IF n = 0 THEN [current |-> EmptyLogical, done |-> <<>>]
                 ELSE Joined(joined[n - 1], OutLine(t, n - 1), n - 1)
      Close(acc) == IF acc.current.segments # <<>> THEN Append(acc.done, acc.current)
                                                   ELSE acc.done
  IN  Close(joined[LineCount(t)])

\* first_physical_line, last_physical_line: an empty one is on line 0.
FirstLine(ll) == IF ll.segments = <<>> THEN 0 ELSE Head(ll.segments).line
LastLine(ll) == IF ll.segments = <<>> THEN 0 ELSE Last(ll.segments).line

\* covering_logical_line_index; 0 is None.
Covering(logicals, line) ==
  LET found == {i \in DOMAIN logicals :
                  FirstLine(logicals[i]) <= line /\ line <= LastLine(logicals[i])}
  IN  IF found = {} THEN 0 ELSE CHOOSE i \in found : \A j \in found : i <= j

\* LogicalLine::map_pos_with_bias
MapPos(ll, k, next) ==
  LET before == {i \in DOMAIN ll.segments :
                   ll.segments[i].start < k \/ (next /\ ll.segments[i].start = k)}
  IN  IF before = {} THEN [line |-> 0, at |-> 0]
      ELSE LET seg == ll.segments[Cardinality(before)] IN
             [line |-> seg.line, at |-> k - seg.start]

\* Both ends lean forward.
BadMapRange(ll, from, to) ==
  [start |-> MapPos(ll, from, from < to), end |-> MapPos(ll, to, TRUE)]

\* LogicalLine::map_range
MapRange(ll, from, to) ==
  [start |-> MapPos(ll, from, from < to), end |-> MapPos(ll, to, FALSE)]

\* logical_offset_from_physical: a cursor past the body stands at its end.
LogicalOffset(ll, line, k) ==
  LET found == {i \in DOMAIN ll.segments : ll.segments[i].line = line} IN
    IF found = {} THEN Invalid
    ELSE LET seg == ll.segments[CHOOSE i \in found : TRUE] IN seg.start + (IF k < seg.len THEN k ELSE seg.len)

-----------------------------------------------------------------------------
(***************************************************************************)
(* Structure.  An event is [kind, line, at] with kind "open", "close" or,  *)
(* for a string that the text ends in, "string".                           *)
(***************************************************************************)

\* walk_structure: strings go on over line ends, comments and escapes do not.
BraceAt(line, l, i) ==
  [kind |-> IF line[i] = OpenBrace THEN "open" ELSE "close", line |-> l, at |-> i - 1]
Walked(acc, line, l) ==
  LET Note(scan) ==
        LET braces == {i \in DOMAIN line : scan.kinds[i] = "plain"
                                             /\ line[i] \in {OpenBrace, CloseBrace}}
            quotes == {i \in DOMAIN line : scan.kinds[i] = "quote"}
        IN  [q |-> scan.q,
             opened |-> IF quotes = {} THEN acc.opened
                        ELSE [line |-> l, at |-> Nth(quotes, Cardinality(quotes)) - 1],
             out |-> acc.out \o [m \in 1 .. Cardinality(braces) |->
                                   BraceAt(line, l, Nth(braces, m))]]
  IN  Note(ScanFrom(line, ResetLine(acc.q)))
Events(t) ==
  LET walked[n \in 0 .. LineCount(t)] ==
        IF n = 0 THEN [q |-> NoQuote, opened |-> [line |-> 0, at |-> 0], out |-> <<>>]
                 ELSE Walked(walked[n - 1], OutLine(t, n - 1), n - 1)
      Close(acc) == IF acc.q.in = "plain" THEN acc.out
                    ELSE Append(acc.out, [kind |-> "string", line |-> acc.opened.line,
                                          at |-> acc.opened.at])
  IN  Close(walked[LineCount(t)])

Before(a, b) == a.line < b.line \/ (a.line = b.line /\ a.at < b.at)

\* What comes after the cap is dropped as it comes.
BadRecord(kept, e) == IF Len(kept) < MaxFindings THEN Append(kept, e) ELSE kept

\* record_syntax_finding: past the cap an earlier finding takes the place of the
\* latest one that is kept.
Record(kept, e) ==
  IF Len(kept) < MaxFindings THEN Append(kept, e)
  ELSE LET latest == CHOOSE i \in DOMAIN kept :
                       \A j \in DOMAIN kept : j = i \/ Before(kept[j], kept[i])
       IN  IF Before(e, kept[latest]) THEN [kept EXCEPT ![latest] = e] ELSE kept

\* syntax_diagnostics: in "kept" the findings, in "n" how many there were
Noted(acc, e) == [acc EXCEPT !.kept = Record(@, e), !.n = @ + 1]

\* That the stack has overflowed is forgotten.
BadMatched(acc, e) ==
  CASE e.kind = "open" ->
         IF Len(acc.opens) < MaxBraceDepth THEN [acc EXCEPT !.opens = Append(@, e)] ELSE acc
    [] e.kind = "close" /\ acc.opens # <<>> -> [acc EXCEPT !.opens = Front(@)]
    [] OTHER -> Noted(acc, e)

\* A brace past the depth is dropped, and closing braces are no longer reported.
Matched(acc, e) ==
  CASE e.kind = "open" ->
         IF Len(acc.opens) < MaxBraceDepth
           THEN [acc EXCEPT !.opens = Append(@, e)]
           ELSE [acc EXCEPT !.saturated = TRUE]
    [] e.kind = "close" /\ acc.opens # <<>> -> [acc EXCEPT !.opens = Front(@)]
    [] e.kind = "close" /\ acc.opens = <<>> -> IF acc.saturated THEN acc ELSE Noted(acc, e)
    [] OTHER -> Noted(acc, e)
FindingsOf(ev) ==
  LET matched[n \in 0 .. Len(ev)] ==
        IF n = 0 THEN [opens |-> <<>>, kept |-> <<>>, n |-> 0, saturated |-> FALSE]
                 ELSE Matched(matched[n - 1], ev[n])
      Close(acc) ==
        LET closed[n \in 0 .. Len(acc.opens)] ==
              IF n = 0 THEN acc
                       ELSE Noted(closed[n - 1], acc.opens[Len(acc.opens) - n + 1])
        IN  closed[Len(acc.opens)]
  IN  Close(matched[Len(ev)])
Findings(t) == FindingsOf(Events(t))

\* brace_regions
Region(from, to) == [start |-> from, end |-> to, kind |-> "region"]
Folded(acc, e) ==
  CASE e.kind = "open" /\ Len(acc.opens) < MaxBraceDepth ->
         [acc EXCEPT !.opens = Append(@, e.line)]
    [] e.kind = "close" /\ acc.opens # <<>> ->
         [opens |-> Front(acc.opens),
          out |-> acc.out \cup (IF Last(acc.opens) < e.line
                                  THEN {Region(Last(acc.opens), e.line)} ELSE {})]
    [] OTHER -> acc
RegionsOf(ev) ==
  LET folded[n \in 0 .. Len(ev)] ==
        IF n = 0 THEN [opens |-> <<>>, out |-> {}] ELSE Folded(folded[n - 1], ev[n])
  IN  folded[Len(ev)].out
BraceRegions(t) == RegionsOf(Events(t))

\* continuation_ranges
ContinuationRanges(t) ==
  {[start |-> FirstLine(ll), end |-> LastLine(ll), kind |-> "none"] :
     ll \in {x \in ToSet(LogicalLines(t)) : FirstLine(x) < LastLine(x)}}

\* compute_folding_ranges: by start, the longer first; the first MAX_FOLDING_RANGES
FoldingRanges(t) ==
  LET Earlier(a, b) ==
        \/ a.start < b.start
        \/ a.start = b.start /\ a.end > b.end
        \/ a.start = b.start /\ a.end = b.end /\ a.kind = "none" /\ b.kind = "region"
      Kept(all) == {r \in all : Cardinality({s \in all : Earlier(s, r)}) < MaxFoldings}
  IN  Kept(BraceRegions(t) \cup ContinuationRanges(t))
=============================================================================
