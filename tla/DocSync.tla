------------------------------ MODULE DocSync ------------------------------
(***************************************************************************)
(* The document store of the language server (server.rs), the parse cache  *)
(* that shadows it (parser.rs) and the diagnostics published from it,      *)
(* against the text the client edits.                                      *)
(*                                                                         *)
(* The server handles one message at a time.  A didChange carries a batch  *)
(* of changes that apply one after the other: DidChange is one of them,    *)
(* with the end of the handler when it is the last.                        *)
(*                                                                         *)
(* Definitions whose names start with Bad are plausible slips in the code  *)
(* of the definition that follows; no specification uses them.             *)
(***************************************************************************)
EXTENDS Encoding, Lists

CONSTANTS
  Uris,         \* valid file URIs
  MaxDocs,      \* MAX_DOCS
  MaxDocSize,   \* MAX_DOC_SIZE, in bytes
  OpenTexts,    \* the texts of the files the client opens
  Fragments,    \* the texts it inserts
  MaxText,      \* bound on the client's texts together, in characters
  None          \* no text, no URI

\* A carriage return is part of a line end.  LSP takes one on its own for a line
\* end, which the server does not; clients that normalise line ends send none.
Paired(t) == \A i \in 1 .. Len(t) : t[i] = CR => i < Len(t) /\ t[i + 1] = LF

ASSUME DocsAssumption ==
  /\ IsFiniteSet(Uris) /\ None \notin Uris /\ None \notin Text
  /\ MaxDocs \in Nat \ {0} /\ MaxDocSize \in Nat
  /\ OpenTexts \subseteq Text /\ Fragments \subseteq Text
  /\ \A t \in OpenTexts \cup Fragments : Paired(t)

VARIABLES
  client,    \* the client's text of each document it has open, else None
  partial,   \* the open documents the server was not given in full
  enc,       \* Server::position_encoding
  docs,      \* Server::docs, a function on the tracked URIs
  parsed,    \* ParseCache::entries: the text each entry was parsed from
  order,     \* ParseCache::order, oldest first
  shown,     \* the texts of the last diagnostics published, where not cleared
  batch      \* the document whose batch of changes is being handled, or None

vars == <<client, partial, enc, docs, parsed, order, shown, batch>>
clientVars == <<client, partial>>

-----------------------------------------------------------------------------
IsPartialFn(f, S, T) == DOMAIN f \subseteq S /\ f \in [DOMAIN f -> T]

TypeOK ==
  /\ client \in [Uris -> Text \cup {None}]
  /\ partial \subseteq Uris
  /\ enc \in Encodings
  /\ IsPartialFn(docs, Uris, Text)
  /\ IsPartialFn(parsed, Uris, Text)
  /\ IsPartialFn(shown, Uris, Text)
  /\ batch \in Uris \cup {None}

-----------------------------------------------------------------------------
(* The client, which is not part of this repository *)

\* Where the client says that offset k of its text t is.
ClientPosition(t, k) ==
  LET before == {i \in 1 .. k : t[i] = LF}
      start == IF before = {} THEN 0 ELSE CHOOSE i \in before : \A j \in before : j <= i
      line == SubSeq(t, start + 1, k)
  IN [line |-> Cardinality(before),
      character |-> IF enc = "utf-8" THEN Bytes(line) ELSE Utf16(line)]

\* No position lies between the two characters of a line end.
Cursors(t) == {k \in 0 .. Len(t) : ~(k \in 1 .. Len(t) - 1 /\ t[k] = CR /\ t[k + 1] = LF)}

\* The changes the client may send when its text is t.  One without a text, or
\* with a range the server cannot read, is a slip of the client.
Changes(t) ==
  {c \in [kind : {"edit"}, from : Cursors(t), to : Cursors(t), text : Fragments] : c.from <= c.to}
  \cup [kind : {"full", "badRange"}, from : {0}, to : {0}, text : Fragments]
  \cup [kind : {"noText"}, from : {0}, to : {0}, text : {<<>>}]

\* What the change makes of the client's own text.
Edited(t, c) ==
  CASE c.kind = "edit" -> Prefix(t, c.from) \o c.text \o SubSeq(t, c.to + 1, Len(t))
    [] c.kind = "full" -> c.text
    [] OTHER -> t

Within == MapThenSumSet(LAMBDA u : IF client'[u] = None THEN 0 ELSE Len(client'[u]), Uris) <= MaxText

\* The range of the message.
EditRange(t, c) ==
  IF c.kind = "edit" THEN [start |-> ClientPosition(t, c.from), end |-> ClientPosition(t, c.to)]
  ELSE Invalid

-----------------------------------------------------------------------------
(* The document store *)

Put(f, u, t) == [v \in DOMAIN f \cup {u} |-> IF v = u THEN t ELSE f[v]]
Drop(f, u) == [v \in DOMAIN f \ {u} |-> f[v]]

Truncate(t) == Prefix(t, Floor(t, MaxDocSize))

\* One document too many.
BadRejected(u) == u \notin DOMAIN docs /\ Cardinality(DOMAIN docs) > MaxDocs

\* A new document when the store is full.
Rejected(u) == u \notin DOMAIN docs /\ Cardinality(DOMAIN docs) >= MaxDocs

\* A range that does not fit stores the failure.
BadPatched(u, t, c) ==
  LET new == Truncate(c.text)
      whole == IF u \in DOMAIN docs THEN ApplyEdit(docs[u], EditRange(t, c), new, enc) ELSE new
  IN IF c.kind = "full" \/ whole = Invalid THEN whole ELSE Truncate(whole)

\* The text stored for u after the change c, sent when the client's text was t:
\* a range that does not fit, or a missing document, leaves the fragment as the
\* whole document.
Patched(u, t, c) ==
  LET new == Truncate(c.text)
      whole == IF u \in DOMAIN docs THEN ApplyEdit(docs[u], EditRange(t, c), new, enc) ELSE Invalid
  IN IF c.kind = "full" \/ whole = Invalid THEN new ELSE Truncate(whole)

Stored(u, t, c) == IF c.kind = "noText" THEN docs ELSE Put(docs, u, Patched(u, t, c))

-----------------------------------------------------------------------------
(* The parse cache *)

Invalidate(u) ==
  /\ parsed' = Drop(parsed, u)
  /\ order' = Chosen(order, {i \in DOMAIN order : order[i] # u})

\* insert_with_hash, whose loop drains the queue up to the first entry alive
InsertParsed(u) ==
  LET full == u \notin DOMAIN parsed /\ Cardinality(DOMAIN parsed) >= MaxDocs
      alive == {i \in 1 .. Len(order) : order[i] \in DOMAIN parsed}
      drained == IF ~full THEN 0 ELSE IF alive = {} THEN Len(order) ELSE Min(alive)
      kept == IF drained \in alive THEN Drop(parsed, order[drained]) ELSE parsed
  IN /\ parsed' = Put(kept, u, docs[u])
     /\ order' = IF u \in DOMAIN parsed THEN order
                 ELSE Append(SubSeq(order, drained + 1, Len(order)), u)

\* The diagnostics of what is stored now, or none.
Publish(u) ==
  shown' = IF u \in DOMAIN docs' THEN Put(shown, u, docs'[u]) ELSE Drop(shown, u)

-----------------------------------------------------------------------------
(* The handlers *)

DidOpen(u, t) ==
  /\ batch = None
  /\ client[u] = None
  /\ client' = [client EXCEPT ![u] = t]
  /\ Within
  /\ IF Rejected(u)
       THEN UNCHANGED <<docs, parsed, order, shown>> /\ partial' = partial \cup {u}
       ELSE /\ docs' = Put(docs, u, Truncate(StripBom(t)))
            /\ Invalidate(u)
            /\ Publish(u)
            /\ partial' = IF docs'[u] = t THEN partial ELSE partial \cup {u}
  /\ UNCHANGED <<enc, batch>>

\* A change without a text ends the handler at once.
BadDidChange(u, c, more) ==
  /\ batch \in {None, u}
  /\ client[u] # None
  /\ client' = [client EXCEPT ![u] = Edited(@, c)]
  /\ Within
  /\ IF c.kind = "noText" \/ (batch = None /\ Rejected(u))
       THEN batch' = None /\ UNCHANGED <<docs, parsed, order, shown, partial>>
       ELSE /\ docs' = Stored(u, client[u], c)
            /\ IF more
                 THEN batch' = u /\ UNCHANGED <<parsed, order, shown>>
                 ELSE batch' = None /\ Invalidate(u) /\ Publish(u)
            /\ partial' = IF Bytes(client'[u]) > MaxDocSize \/ c.kind = "badRange"
                            THEN partial \cup {u}
                            ELSE IF c.kind = "full" THEN partial \ {u} ELSE partial
  /\ UNCHANGED enc

\* The change c of a batch; more says whether others follow in it.
DidChange(u, c, more) ==
  /\ batch \in {None, u}
  /\ client[u] # None
  /\ client' = [client EXCEPT ![u] = Edited(@, c)]
  /\ Within
  /\ IF batch = None /\ Rejected(u)
       THEN UNCHANGED <<docs, parsed, order, shown, batch, partial>>
       ELSE /\ docs' = Stored(u, client[u], c)
            /\ IF more
                 THEN batch' = u /\ UNCHANGED <<parsed, order, shown>>
                 ELSE batch' = None /\ Invalidate(u) /\ Publish(u)
            /\ partial' = IF Bytes(client'[u]) > MaxDocSize \/ c.kind = "badRange"
                            THEN partial \cup {u}
                            ELSE IF c.kind = "full" THEN partial \ {u} ELSE partial
  /\ UNCHANGED enc

\* The parse outlives its document.
BadDidClose(u) ==
  /\ batch = None
  /\ client[u] # None
  /\ client' = [client EXCEPT ![u] = None]
  /\ partial' = partial \ {u}
  /\ docs' = Drop(docs, u)
  /\ Publish(u)
  /\ UNCHANGED <<parsed, order, enc, batch>>

DidClose(u) ==
  /\ batch = None
  /\ client[u] # None
  /\ client' = [client EXCEPT ![u] = None]
  /\ partial' = partial \ {u}
  /\ docs' = Drop(docs, u)
  /\ Invalidate(u)
  /\ Publish(u)
  /\ UNCHANGED <<enc, batch>>

\* textDocument/completion, as far as it changes the parse cache: lookup_or_insert.
\* Equal length and hash stand for equal texts.
Completion(u) ==
  /\ batch = None
  /\ u \in DOMAIN docs
  /\ ~(u \in DOMAIN parsed /\ parsed[u] = docs[u])
  /\ InsertParsed(u)
  /\ UNCHANGED <<client, partial, enc, docs, shown, batch>>

Init ==
  /\ client = [u \in Uris |-> None]
  /\ partial = {}
  /\ enc \in Encodings
  /\ docs = <<>>
  /\ parsed = <<>>
  /\ order = <<>>
  /\ shown = <<>>
  /\ batch = None

Next ==
  \E u \in Uris :
    \/ \E t \in OpenTexts : DidOpen(u, t)
    \/ client[u] # None /\ \E c \in Changes(client[u]), more \in BOOLEAN : DidChange(u, c, more)
    \/ DidClose(u)
    \/ Completion(u)

Spec == Init /\ [][Next]_vars

-----------------------------------------------------------------------------
(* Properties *)

\* The server edits the text the client edits: patches computed against byte
\* offsets in either encoding, batches, malformed changes between good ones and
\* full replacements keep the two equal, for every document that was accepted in
\* full and has not outgrown the cap since.
Synced == \A u \in DOMAIN docs \ partial : docs[u] = client[u]

\* The store never holds more documents than its cap.
DocsBounded == Cardinality(DOMAIN docs) <= MaxDocs

\* The queue that drives eviction holds every cached document once.
OrderInSync ==
  /\ order \in Seq(Uris)
  /\ \A i, j \in 1 .. Len(order) : order[i] = order[j] => i = j
  /\ {order[i] : i \in 1 .. Len(order)} = DOMAIN parsed

\* "MAX_DOCS applies to every new URI", in whichever way a document comes in; no
\* document outgrows its cap, also by way of a patch; and neither does the queue of
\* the parse cache.
StoreBounded ==
  /\ DocsBounded
  /\ \A u \in DOMAIN docs : Bytes(docs[u]) <= MaxDocSize
  /\ OrderInSync

\* Between messages every cached parse is of the text stored now, and there is
\* none of a document that is gone: the cache cannot outgrow the store.
CacheCurrent ==
  batch = None => \A u \in DOMAIN parsed : u \in DOMAIN docs /\ parsed[u] = docs[u]

\* Between messages the diagnostics on screen are of the stored text, whatever
\* changes of a batch were skipped, and a closed document has none.
DiagnosticsCurrent == batch = None => shown = docs

\* "so a BOM can never shift positions" (encoding.rs, strip_bom_prefix): a
\* document opened with a BOM is edited like the one without.
BomShiftsNothing ==
  \A u \in DOMAIN docs :
    client[u] # StripBom(client[u]) => docs[u] = StripBom(client[u])
=============================================================================
