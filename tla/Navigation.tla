----------------------------- MODULE Navigation -----------------------------
(***************************************************************************)
(* The script variables of an open document: go to definition, find        *)
(* references and rename (navigation.rs, rename.rs, the adapters in        *)
(* server_proto.rs and the handlers in server.rs), for a client that       *)
(* types, asks at any position and applies the edits of a rename to its    *)
(* text.  The store has the client's text: DocSync is about that.          *)
(*                                                                         *)
(* Definitions whose names start with Bad are plausible slips in the code  *)
(* of the definition that follows; no specification uses them.             *)
(***************************************************************************)
EXTENDS Script

CONSTANTS
  Ident,         \* the characters of a name
  Dollar, Semicolon,
  Declare,       \* the command :local or :global
  Joiners,       \* / and -, which belong to a word of the hover rules
  MaxReferences, \* MAX_REFERENCES
  Typed,         \* what the client types at once
  NewNames,      \* the new names it asks for
  MaxTyped       \* bound: insertions

ASSUME NavigationAssumption ==
  /\ Ident \cup Joiners \cup {Dollar, Semicolon, Declare} \subseteq Chars \ {LF, CR}
  /\ Typed \cup NewNames \subseteq Text
  /\ Ident \cap (Blank \cup {Dollar}) = {} /\ Dollar \notin Blank
  /\ MaxReferences \in Nat \ {0} /\ MaxTyped \in Nat

\* What hit_at_cursor finds: a name, the logical line and the offset asked about
Occurrences == [name : Text, line : Nat, at : Nat]

ASSUME OccurrenceAssumption == Invalid \notin Occurrences

VARIABLES
  text,    \* the document, at the client and in Server::docs
  enc,     \* Server::position_encoding
  answer,  \* the last answer; of kind "none" since the text was typed
  typed    \* counter of the bound

vars == <<text, enc, answer, typed>>

-----------------------------------------------------------------------------
(***************************************************************************)
(* The index: hits [name, decl, line, from, to] in logical coordinates.    *)
(***************************************************************************)

\* The end of the run of name characters after offset k
NameEnd(s, k) ==
  CHOOSE e \in k .. Len(s) :
    (\A i \in k + 1 .. e : s[i] \in Ident) /\ (e = Len(s) \/ s[e + 1] \notin Ident)
Hit(s, decl, line, k) ==
  [name |-> SubSeq(s, k + 1, NameEnd(s, k)), decl |-> decl, line |-> line,
   from |-> k, to |-> NameEnd(s, k)]

\* is_leading_separator
Separator(token) == token \in {<<OpenBrace>>, <<CloseBrace>>} \/ Last(token) = Semicolon

\* declared_variable: the first command of the line, when it leads a statement
DeclaredBy(s, line, tokens) ==
  LET commands == {n \in DOMAIN tokens : tokens[n].text = <<Declare>>}
  IN  IF commands = {} THEN <<>>
      ELSE LET n == CHOOSE m \in commands : \A j \in commands : m <= j
           IN  IF /\ n = 1 \/ Separator(tokens[n - 1].text)
                  /\ n < Len(tokens) /\ Head(tokens[n + 1].text) \in Ident
                 THEN <<Hit(s, TRUE, line, tokens[n + 1].from)>>
                 ELSE <<>>
Declared(s, line) == DeclaredBy(s, line, Tokens(s))

\* push_usages: a single dollar before a name, outside '...' and comments
UsagesBy(s, line, kinds) ==
  LET Starts(i) == /\ s[i] = Dollar /\ kinds[i] \in {"plain", "double"}
                   /\ ~(i > 1 /\ s[i - 1] = Dollar)
                   /\ i < Len(s) /\ s[i + 1] \in Ident
      starts == {i \in DOMAIN s : Starts(i)}
  IN  [n \in 1 .. Cardinality(starts) |-> Hit(s, FALSE, line, Nth(starts, n))]
Usages(s, line) == UsagesBy(s, line, Kinds(s))

\* build_variable_index
Index(logicals) ==
  LET index[n \in 0 .. Len(logicals)] ==
        IF n = 0 THEN <<>>
        ELSE index[n - 1] \o Declared(logicals[n].text, n) \o Usages(logicals[n].text, n)
  IN  index[Len(logicals)]

\* word_at, with the rules of hover
WordAt(s, k) ==
  LET Part(i) == s[i] \in Ident \cup Joiners
      from == CHOOSE i \in 0 .. k : (\A j \in i + 1 .. k : Part(j)) /\ (i = 0 \/ ~Part(i))
      to == CHOOSE i \in k .. Len(s) : (\A j \in k + 1 .. i : Part(j))
                                         /\ (i = Len(s) \/ ~Part(i + 1))
  IN  SubSeq(s, from + 1, to)

\* hit_at_cursor; Invalid is None.
HitAt(index, word, n, cursor) ==
  IF \E h \in ToSet(index) : h.name = word /\ h.line = n /\ h.from <= cursor /\ cursor <= h.to
    THEN [name |-> word, line |-> n, at |-> cursor]
    ELSE Invalid

\* resolve_cursor_occurrence
Occurrence(t, logicals, index, p) ==
  LET line == IF p.line < LineCount(t) THEN OutLine(t, p.line) ELSE <<>>
      In(n, cursor) == IF cursor = Invalid THEN Invalid
                       ELSE HitAt(index, WordAt(logicals[n].text, cursor), n, cursor)
      On(n) == IF n = 0 THEN Invalid
               ELSE In(n, LogicalOffset(logicals[n], p.line,
                                        CharacterToOffset(line, p.character, enc)))
  IN  On(Covering(logicals, p.line))

\* choose_definition: the last declaration that begins at or before the request,
\* else the first; Invalid is None.
Definition(index, occ) ==
  LET decls == {i \in DOMAIN index : index[i].decl /\ index[i].name = occ.name}
      before == {i \in decls : \/ index[i].line < occ.line
                               \/ index[i].line = occ.line /\ index[i].from <= occ.at}
  IN  CASE before # {}                  -> index[CHOOSE i \in before : \A j \in before : j <= i]
        [] before = {} /\ decls # {}    -> index[CHOOSE i \in decls : \A j \in decls : i <= j]
        [] OTHER                        -> Invalid

\* collect_references: the declaration first
References(index, name, declaration) ==
  LET usages == Chosen(index, {i \in DOMAIN index : ~index[i].decl /\ index[i].name = name})
      Capped(all) == SubSeq(all, 1, IF Len(all) < MaxReferences THEN Len(all) ELSE MaxReferences)
  IN  Capped(IF declaration = Invalid THEN usages ELSE <<declaration>> \o usages)

\* navigation_location_value: the range sent for a hit
WireRange(t, logicals, h) ==
  LET Wire(r) == [start |-> ToWire(t, r.start.line, r.start.at, enc),
                  end   |-> ToWire(t, r.end.line, r.end.at, enc)]
  IN  Wire(MapRange(logicals[h.line], h.from, h.to))

\* cleaned_new_name: one dollar before it is tolerated; Invalid is None.
CleanedNewName(raw) ==
  LET bare == IF raw # <<>> /\ Head(raw) = Dollar THEN Tail(raw) ELSE raw IN
    IF bare # <<>> /\ ToSet(bare) \subseteq Ident THEN bare ELSE Invalid

\* The usages of references are renamed.
BadRenameHits(index, occ) == {h \in ToSet(index) : ~h.decl /\ h.name = occ.name}

\* rename_result: every declaration and every usage of the name
RenameHits(index, occ) == {h \in ToSet(index) : h.name = occ.name}

-----------------------------------------------------------------------------
(* The client, which is not part of this repository *)

\* The positions in its text
Positions(t) ==
  UNION {{ToWire(t, l, k, enc) : k \in 0 .. Len(OutLine(t, l))} : l \in 0 .. Lines(t) - 1}

\* The offset in its text of a position
ClientOffset(t, p) ==
  LineStart(t, p.line) +
    (CHOOSE k \in 0 .. Len(OutLine(t, p.line)) : ToWire(t, p.line, k, enc) = p)

\* All edits of an answer, applied to the text they were made for
Applied(t, ranges, new) ==
  LET Replaced(spans) ==
        LET Put(out, i) == CASE \E s \in spans : s.from + 1 = i -> out \o new
                             [] \E s \in spans : s.from + 1 < i /\ i <= s.to -> out
                             [] OTHER -> Append(out, t[i])
            put[n \in 0 .. Len(t)] == IF n = 0 THEN <<>> ELSE Put(put[n - 1], n)
        IN  put[Len(t)]
  IN  Replaced({[from |-> ClientOffset(t, r.start), to |-> ClientOffset(t, r.end)] :
                  r \in ranges})

-----------------------------------------------------------------------------
(* The steps *)

NoAnswer == [kind |-> "none"]

Type(f) ==
  /\ typed < MaxTyped
  /\ text' = text \o f
  /\ typed' = typed + 1
  /\ answer' = NoAnswer
  /\ UNCHANGED enc

\* textDocument/definition: goto_definition_result
GotoDefinition(logicals, index, occ) ==
  /\ Definition(index, occ) # Invalid
  /\ answer' = [kind |-> "definition", name |-> occ.name,
                ranges |-> {WireRange(text, logicals, Definition(index, occ))}]
  /\ UNCHANGED <<text, enc, typed>>

\* textDocument/references: references_result
FindReferences(logicals, index, occ, includeDeclaration) ==
  LET decl == IF includeDeclaration THEN Definition(index, occ) ELSE Invalid IN
    /\ answer' = [kind |-> "references", name |-> occ.name,
                  ranges |-> {WireRange(text, logicals, h) :
                                h \in ToSet(References(index, occ.name, decl))}]
    /\ UNCHANGED <<text, enc, typed>>

\* textDocument/rename: rename_result, and the client applies the edits.
Rename(logicals, index, occ, new) ==
  LET ranges == {WireRange(text, logicals, h) : h \in RenameHits(index, occ)} IN
    /\ new # Invalid
    /\ text' = Applied(text, ranges, new)
    /\ answer' = [kind |-> "rename", before |-> text, old |-> occ.name, new |-> new]
    /\ UNCHANGED <<enc, typed>>

\* A request at a position: nothing there is answered with null.
Ask ==
  /\ answer = NoAnswer    \* bound: the client types between two requests
  /\ \E logicals \in {LogicalLines(text)} : \E index \in {Index(logicals)} :
       \E occ \in {Occurrence(text, logicals, index, p) : p \in Positions(text)} \ {Invalid} :
         \/ GotoDefinition(logicals, index, occ)
         \/ \E declaration \in BOOLEAN : FindReferences(logicals, index, occ, declaration)
         \/ \E raw \in NewNames : Rename(logicals, index, occ, CleanedNewName(raw))

Init == text = <<>> /\ enc \in Encodings /\ answer = NoAnswer /\ typed = 0

Next == Ask \/ \E f \in Typed : Type(f)

Spec == Init /\ [][Next]_vars

-----------------------------------------------------------------------------
(* Properties *)

\* A name that no / or - makes part of a longer word
Alone(s, h) ==
  /\ h.from = 0 \/ s[h.from] \notin Joiners
  /\ h.to = Len(s) \/ s[h.to + 1] \notin Joiners

\* What the lines of a text contribute to its logical lines, by place
Held(t) ==
  {i \in DOMAIN t : \E l \in 0 .. LineCount(t) - 1 :
     LineStart(t, l) < i /\ i <= LineStart(t, l) + BodyEnd(OutLine(t, l)).at}

\* server_proto.rs, resolve_cursor_occurrence against navigation_location_value:
\* the text in a range that was sent is the name, but for the line ends it goes on
\* over with what stands between the backslash and the line end; it begins and ends
\* with a character of the name, and asked again at either end the server finds the
\* same name; a definition is its own definition.
AnswersResolve ==
  answer.kind \in {"definition", "references"} =>
    \A logicals \in {LogicalLines(text)}, held \in {Held(text)} :
    \A index \in {Index(logicals)}, r \in answer.ranges :
      /\ \A from \in {ClientOffset(text, r.start)}, to \in {ClientOffset(text, r.end)} :
           /\ {from + 1, to} \subseteq held
           /\ Chosen(text, (from + 1 .. to) \cap held) = answer.name
      /\ \A h \in ToSet(index) :
           WireRange(text, logicals, h) = r /\ Alone(logicals[h.line].text, h) =>
             \A p \in {r.start, r.end} :
               \E occ \in {Occurrence(text, logicals, index, p)} \ {Invalid} :
                 /\ occ.name = answer.name
                 /\ answer.kind = "definition" => Definition(index, occ) = h

\* The occurrences of a document in order, under a renaming of one variable
Named(index, old, new) ==
  [i \in DOMAIN index |->
     [name |-> IF index[i].name = old THEN new ELSE index[i].name, decl |-> index[i].decl]]
Names(index) == {h.name : h \in ToSet(index)}

\* An occurrence of the name goes on over a line end.
Split(logicals, index, name) ==
  \E h \in ToSet(index) :
    /\ h.name = name
    /\ LET r == MapRange(logicals[h.line], h.from, h.to) IN r.start.line # r.end.line

KindsOf(ev) == [i \in DOMAIN ev |-> ev[i].kind]

\* rename.rs: a rename of a name that goes on over no line end changes every
\* occurrence the server knows of, and neither the other variables nor the structure
\* of the script; with a name that was free, renaming back gives the text there was.
RenameFaithful ==
  answer.kind = "rename" =>
    \A was \in {LogicalLines(answer.before)}, now \in {LogicalLines(text)} :
      \A old \in {Index(was)}, new \in {Index(now)} :
        \/ Split(was, old, answer.old)
        \/ /\ Named(new, answer.old, answer.new) = Named(old, answer.old, answer.new)
           /\ answer.old # answer.new => answer.old \notin Names(new)
           /\ KindsOf(Events(text)) = KindsOf(Events(answer.before))
           /\ answer.new \notin Names(old) =>
                LET back == RenameHits(new, [name |-> answer.new]) IN
                  Applied(text, {WireRange(text, now, h) : h \in back}, answer.old)
                    = answer.before

\* The findings of a text by definition: braces that have no partner, and the
\* string it ends in.
Partners(ev) ==
  LET Net(i, j) == Cardinality({m \in i .. j : ev[m].kind = "open"})
                     - Cardinality({m \in i .. j : ev[m].kind = "close"})
  IN  {p \in (DOMAIN ev) \X (DOMAIN ev) :
         /\ p[1] < p[2] /\ ev[p[1]].kind = "open" /\ ev[p[2]].kind = "close"
         /\ Net(p[1], p[2]) = 0 /\ \A m \in p[1] .. p[2] - 1 : Net(p[1], m) > 0}

\* A place where the braces are deeper than the code tracks
Over(ev, i) ==
  /\ ev[i].kind = "open"
  /\ Cardinality({p \in DOMAIN ev : /\ p <= i /\ ev[p].kind = "open"
                                    /\ ~\E q \in p .. i : <<p, q>> \in Partners(ev)})
       > MaxBraceDepth
Deep(ev) == \E i \in DOMAIN ev : Over(ev, i)

\* diagnostics.rs, syntax_diagnostics and brace_regions: within the depth the code
\* tracks, the syntax diagnostics are the earliest findings of the text, and the
\* regions that fold are the pairs of braces on different lines.  In a text of any
\* depth no brace that has a partner is reported, nor any closing brace after a
\* place where the depth was exceeded ("silence beats false positives").
StructureAgrees ==
  /\ \A ev \in {Events(text)} : \A pairs \in {Partners(ev)}, found \in {Findings(text)} :
       LET lonely == {ev[i] : i \in {i \in DOMAIN ev :
                        \A p \in pairs : p[1] # i /\ p[2] # i}}
           regions == {p \in pairs : ev[p[1]].line < ev[p[2]].line}
       IN  /\ ~Deep(ev) =>
                /\ ToSet(found.kept) = {e \in lonely :
                     Cardinality({f \in lonely : Before(f, e)}) < MaxFindings}
                /\ found.n = Cardinality(lonely)
                /\ BraceRegions(text) =
                     {[start |-> ev[p[1]].line, end |-> ev[p[2]].line, kind |-> "region"] :
                        p \in regions}
           /\ ToSet(found.kept) \subseteq lonely
           /\ \A e \in ToSet(found.kept), i \in DOMAIN ev :
                e.kind = "close" /\ Over(ev, i) => Before(e, ev[i])
  /\ Cardinality(FoldingRanges(text)) <= MaxFoldings
=============================================================================
