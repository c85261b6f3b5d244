------------------------------ MODULE Encoding ------------------------------
(***************************************************************************)
(* Position arithmetic of the language server (encoding.rs): line and      *)
(* character of the wire, in the negotiated encoding, against offsets in   *)
(* the text, and the patch an incremental change applies.                  *)
(*                                                                         *)
(* A text is a sequence of characters.  The code keeps byte offsets, but   *)
(* every one it computes is a character boundary, so an offset is written  *)
(* here as the number of characters before it; Bytes and Utf16 measure     *)
(* what the code measures.  A word that is never taken apart may stand as  *)
(* one character of its whole width.                                       *)
(*                                                                         *)
(* Definitions whose names start with Bad are plausible slips in the code  *)
(* of the definition that follows; no specification uses them.             *)
(***************************************************************************)
EXTENDS Naturals, Sequences, FiniteSets, SequencesExt

CONSTANTS
  Chars,      \* the characters of a text
  Width,      \* bytes of a character in UTF-8
  Units,      \* code units of a character in UTF-16
  LF, CR,     \* '\n' and '\r'
  BOM,        \* U+FEFF
  Invalid     \* the result of a conversion that fails: EditError

ASSUME CharsAssumption ==
  /\ {LF, CR, BOM} \subseteq Chars /\ LF # CR
  /\ Width \in [Chars -> Nat \ {0}]
  /\ Units \in [Chars -> Nat \ {0}]

Text == Seq(Chars)
Encodings == {"utf-8", "utf-16"}
WirePositions == [line : Nat, character : Nat]
WireRanges == [start : WirePositions, end : WirePositions]

ASSUME InvalidAssumption == Invalid \notin Nat /\ Invalid \notin Text /\ Invalid \notin WireRanges

Prefix(t, k) == SubSeq(t, 1, k)

\* The characters of t, each counted as w says
Total(w, t) ==
  LET sum[k \in 0 .. Len(t)] == IF k = 0 THEN 0 ELSE sum[k - 1] + w[t[k]]
  IN  sum[Len(t)]
Bytes(t) == Total(Width, t)
Utf16(t) == Total(Units, t)

\* floor_char_boundary: the last boundary at or before byte b
Floor(t, b) == Cardinality({k \in 1 .. Len(t) : Bytes(Prefix(t, k)) <= b})

\* utf16_to_byte_offset: the first boundary at or after u code units, clamped
Utf16ToOffset(t, u) == Cardinality({k \in 1 .. Len(t) : Utf16(Prefix(t, k - 1)) < u})

\* Code units are taken for bytes.
BadCharacterToOffset(line, character, enc) == Floor(line, character)

\* lsp_character_to_byte_offset
CharacterToOffset(line, character, enc) ==
  IF enc = "utf-8" THEN Floor(line, character) ELSE Utf16ToOffset(line, character)

\* line_starts: there is a line before every line feed and one after the last
LineOf(t, i) == Cardinality({j \in 1 .. i - 1 : t[j] = LF})
Lines(t) == LineOf(t, Len(t) + 1) + 1
LineStart(t, l) == Cardinality({i \in 1 .. Len(t) : LineOf(t, i) < l})
LineEnd(t, l) == IF l + 1 < Lines(t) THEN LineStart(t, l + 1) - 1 ELSE Len(t)

\* The content of a line, trim_end_matches('\r')
Line(t, l) ==
  LET s == LineStart(t, l)
      content == {i \in s + 1 .. LineEnd(t, l) : \E j \in i .. LineEnd(t, l) : t[j] # CR}
  IN SubSeq(t, s + 1, s + Cardinality(content))

\* lsp_position_to_offset
PositionToOffset(t, p, enc) ==
  IF p.line >= Lines(t) THEN Invalid
  ELSE LineStart(t, p.line) + CharacterToOffset(Line(t, p.line), p.character, enc)

\* apply_incremental_edit; a range with a missing field is Invalid
ApplyEdit(t, range, new, enc) ==
  IF range = Invalid THEN Invalid
  ELSE LET i == PositionToOffset(t, range.start, enc)
           j == PositionToOffset(t, range.end, enc)
       IN IF Invalid \in {i, j} \/ (Invalid \notin {i, j} /\ i > j) THEN Invalid
          ELSE Prefix(t, i) \o new \o SubSeq(t, j + 1, Len(t))

\* strip_bom_prefix
StripBom(t) == IF t # <<>> /\ Head(t) = BOM THEN Tail(t) ELSE t

\* A line as str::lines splits it: a carriage return goes only with its line
\* feed, and a stray one at the end of the text stays.
OutLine(t, l) ==
  LET Cut(s, e) == SubSeq(t, s + 1, IF e > s /\ l + 1 < Lines(t) /\ t[e] = CR THEN e - 1 ELSE e)
  IN  Cut(LineStart(t, l), LineEnd(t, l))

\* byte_offset_to_utf16_units, for UTF-16
Measure(s, enc) == IF enc = "utf-8" THEN Bytes(s) ELSE Utf16(s)

\* convert_position: the position the server sends for the offset k of line l
ToWire(t, l, k, enc) ==
  [line |-> l, character |-> Measure(Prefix(OutLine(t, l), k), enc)]
=============================================================================
