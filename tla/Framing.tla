------------------------------ MODULE Framing ------------------------------
(***************************************************************************)
(* The server loop (Server::run, server.rs) and the frame reader it calls  *)
(* (read_message, framing.rs) on the bytes of one connection.              *)
(*                                                                         *)
(* The client writes frames until it closes the stream, maybe in the       *)
(* middle of one.  Reading blocks until there are bytes enough or the      *)
(* stream is closed.  A byte is a symbol; the text "Content-Length: n" is  *)
(* a single one.                                                           *)
(*                                                                         *)
(* Definitions whose names start with Bad are plausible slips in the code  *)
(* of the definition that follows; no specification uses them.             *)
(***************************************************************************)
EXTENDS Integers, Sequences, SequencesExt, FiniteSets, Lists

CONSTANTS
  Bytes,           \* the symbols
  NL,              \* the newline
  Spaces,          \* white space other than the newline
  Lead, Trail,     \* the two bytes of a wide character
  LengthOf,        \* what each length header claims; Malformed for no number
  Malformed,
  KindOf,          \* the kind of message a body that starts with a byte is
  MaxHeaderSize,   \* MAX_HEADER_SIZE
  MaxMessageSize,  \* MAX_MESSAGE_SIZE
  Frames,          \* the frames a client writes: [head |-> ..., body |-> ...]
  MaxFrames,       \* bound on their number
  Running          \* no outcome yet

Kinds == {"request", "notification", "shutdown", "exit", "garbage"}
Causes == {"eof", "io", "protocol", "write", "exit 0", "exit 1"}
Outcomes == Causes \cup {Running}

ASSUME FramingAssumption ==
  /\ {NL, Lead, Trail} \cup Spaces \cup DOMAIN LengthOf \subseteq Bytes
  /\ Lead # NL /\ Trail # NL /\ Lead # Trail /\ NL \notin Spaces \cup DOMAIN LengthOf
  /\ LengthOf \in [DOMAIN LengthOf -> Nat \cup {Malformed}] /\ Malformed \notin Nat
  /\ KindOf \in [Bytes -> Kinds]
  /\ MaxHeaderSize \in Nat \ {0} /\ MaxMessageSize \in Nat \ {0} /\ MaxFrames \in Nat
  /\ Frames \subseteq [head : Seq(Bytes), body : Seq(Bytes)]
  /\ Running \notin Causes

VARIABLES
  sent,      \* the frames the client wrote, the last one maybe in part
  starts,    \* where each begins in the stream, less one
  stream,    \* their bytes
  closed,    \* the client writes no more
  pos,       \* the bytes read
  pc,        \* "line", "headers" (read), "message" (to handle), "ended"
  header,    \* header_buf
  bytes,     \* header_bytes; header_too_large once it passes the cap
  content,   \* line_has_content
  message,   \* the body read
  shutdown,  \* Server::shutdown_received
  handled,   \* the messages handled so far
  replies,   \* the messages answered so far
  outcome    \* why the process ended

vars == <<sent, starts, stream, closed, pos, pc, header, bytes, content, message, shutdown,
          handled, replies, outcome>>
input == <<sent, starts, stream, closed>>
reading == <<header, bytes, content, message, outcome>>
served == <<shutdown, handled, replies>>

InputType ==
  /\ sent \in Seq(Frames) /\ starts \in Seq(Nat) /\ Len(starts) = Len(sent)
  /\ stream \in Seq(Bytes) /\ closed \in BOOLEAN

ReaderType ==
  /\ pos \in 0 .. Len(stream)
  /\ pc \in {"line", "headers", "message", "ended"}
  /\ header \in Seq(Bytes) /\ bytes \in Nat /\ content \in BOOLEAN
  /\ message \in Seq(Bytes)
  /\ pc = "message" => message # <<>>
  /\ outcome \in Outcomes

ServedType ==
  /\ shutdown \in BOOLEAN
  /\ handled \in Seq(Seq(Bytes)) /\ replies \in Seq(Seq(Bytes))

TypeOK == InputType /\ ReaderType /\ ServedType

-----------------------------------------------------------------------------
(* Header text *)

IsBlank(s) == \A i \in 1 .. Len(s) : s[i] \in Spaces \cup {NL}

ValidUtf8(s) ==
  \A i \in 1 .. Len(s) :
    /\ s[i] = Lead => i < Len(s) /\ s[i + 1] = Trail
    /\ s[i] = Trail => i > 1 /\ s[i - 1] = Lead

\* The places of s where a line starts with a length header, and those of them
\* where nothing but white space follows on the line and a number is claimed.
LengthHeaders(s) ==
  {i \in 1 .. Len(s) :
     /\ s[i] \in DOMAIN LengthOf
     /\ \A j \in 1 .. i - 1 : s[j] \notin Spaces =>
          \E k \in j .. i - 1 : s[k] = NL}

WellFormed(s, i) ==
  /\ LengthOf[s[i]] # Malformed
  /\ \A j \in i + 1 .. Len(s) : s[j] \notin Spaces =>
       \E k \in i + 1 .. j : s[k] = NL

\* One duplicate or one malformed header rejects the block.
ContentLength(s) ==
  LET found == LengthHeaders(s) IN
    IF \E i \in found : WellFormed(s, i) /\ found = {i}
      THEN LengthOf[s[CHOOSE i \in found : TRUE]]
      ELSE Malformed

\* The whole lines of a block of headers that fit the cap
Within(head) ==
  LET ends == {0} \cup {i \in 1 .. Len(head) : head[i] = NL /\ i <= MaxHeaderSize}
  IN  SubSeq(head, 1, CHOOSE i \in ends : \A j \in ends : j <= i)

\* A line of nothing but white space ends at place i.
BlankLine(head, i) ==
  /\ head[i] = NL
  /\ \A j \in 1 .. i - 1 : head[j] \notin Spaces => \E k \in j .. i - 1 : head[k] = NL

\* A client frames what it writes: the head ends with its first blank line and does
\* not start inside a character, and a length it gives is that of the body, be it
\* read whole or as far as the cap allows.  A head may give none, or two; but where
\* it says that nothing follows, nothing does.
ASSUME FramesAssumption ==
  \A f \in Frames :
    /\ {i \in 1 .. Len(f.head) : BlankLine(f.head, i)} = {Len(f.head)}
    /\ f.head[1] # Trail
    /\ ContentLength(Within(f.head)) \in {Malformed, Len(f.body)}
    /\ \A n \in 1 .. Len(f.head) : ContentLength(SubSeq(f.head, 1, n)) = 0 => f.body = <<>>

-----------------------------------------------------------------------------
(* The loop *)

TooLarge == bytes > MaxHeaderSize

NextFrame ==
  /\ pc' = "line" /\ header' = <<>> /\ bytes' = 0 /\ content' = FALSE
  /\ message' = <<>>
  /\ UNCHANGED outcome

End(why) ==
  /\ pc' = "ended" /\ outcome' = why
  /\ message' = <<>>
  /\ UNCHANGED <<header, bytes, content>>

BadBudget == IF bytes < MaxHeaderSize THEN MaxHeaderSize - bytes ELSE 1
Budget == IF TooLarge THEN 1 ELSE MaxHeaderSize - bytes + 1

\* What read_until takes: up to a newline, the budget or the end.
ChunkEnds(e) ==
  /\ e \in pos + 1 .. Len(stream) /\ e - pos <= Budget
  /\ \A i \in pos + 1 .. e - 1 : stream[i] # NL
  /\ stream[e] = NL \/ e - pos = Budget \/ (closed /\ e = Len(stream))

Init ==
  /\ sent = <<>> /\ starts = <<>> /\ stream = <<>> /\ closed = FALSE
  /\ pos = 0 /\ pc = "line" /\ header = <<>> /\ bytes = 0 /\ content = FALSE
  /\ message = <<>>
  /\ shutdown = FALSE /\ handled = <<>> /\ replies = <<>> /\ outcome = Running

\* The client writes a frame, or the start of one and no more.
Write(f) ==
  LET whole == f.head \o f.body IN
    /\ ~closed /\ pc # "ended" /\ Len(sent) < MaxFrames
    /\ sent' = Append(sent, f) /\ starts' = Append(starts, Len(stream))
    /\ \E n \in 1 .. Len(whole) :
         /\ stream' = stream \o SubSeq(whole, 1, n)
         /\ closed' = (n < Len(whole))
    /\ UNCHANGED <<pos, pc, reading, served>>

Close ==
  /\ ~closed /\ pc # "ended" /\ closed' = TRUE
  /\ UNCHANGED <<sent, starts, stream, pos, pc, reading, served>>

BadEndOfStream ==
  /\ pc = "line" /\ closed /\ pos = Len(stream) /\ bytes = 0
  /\ End("eof")
  /\ UNCHANGED <<input, pos, served>>
EndOfStream ==
  /\ pc = "line" /\ closed /\ pos = Len(stream)
  /\ IF bytes = 0 /\ ~content
       THEN End("eof")
       ELSE pc' = "headers" /\ UNCHANGED reading
  /\ UNCHANGED <<input, pos, served>>

\* A chunk that is not text ends the process, in the middle of a character too.
HeaderNotText ==
  /\ pc = "line"
  /\ \E e \in pos + 1 .. Len(stream) :
       /\ ChunkEnds(e) /\ ~ValidUtf8(SubSeq(stream, pos + 1, e))
       /\ pos' = e
  /\ End("io")
  /\ UNCHANGED <<input, served>>

BadBlank(chunk) == Last(chunk) = NL /\ IsBlank(chunk)
Blank(chunk) == Last(chunk) = NL /\ IsBlank(chunk) /\ ~content

\* A chunk past the cap is dropped, and so is all that follows to the blank line.
HeaderChunk ==
  /\ pc = "line"
  /\ \E e \in pos + 1 .. Len(stream) :
       LET chunk == SubSeq(stream, pos + 1, e) IN
         /\ ChunkEnds(e) /\ ValidUtf8(chunk)
         /\ pos' = e
         /\ bytes' = bytes + Len(chunk)
         /\ header' = IF bytes' > MaxHeaderSize THEN header ELSE header \o chunk
         /\ content' = (stream[e] # NL /\ (content \/ ~IsBlank(chunk)))
         /\ pc' = IF Blank(chunk) THEN "headers" ELSE "line"
  /\ UNCHANGED <<input, message, served, outcome>>

NoLength ==
  /\ pc = "headers" /\ ContentLength(header) = Malformed
  /\ End("protocol")
  /\ UNCHANGED <<input, pos, served>>

BadSkipped(n) == TooLarge \/ n > MaxMessageSize
Skipped(n) == TooLarge \/ n = 0 \/ n > MaxMessageSize

\* Of an oversized block with a length, and of an oversized body, all is dropped.
Skip ==
  /\ pc = "headers"
  /\ LET n == ContentLength(header) IN
       /\ n # Malformed /\ Skipped(n) /\ pos + n <= Len(stream)
       /\ pos' = pos + n
  /\ NextFrame
  /\ UNCHANGED <<input, served>>

Body ==
  /\ pc = "headers"
  /\ LET n == ContentLength(header) IN
       /\ n # Malformed /\ ~Skipped(n) /\ pos + n <= Len(stream)
       /\ message' = SubSeq(stream, pos + 1, pos + n)
       /\ pos' = pos + n
  /\ pc' = "message"
  /\ UNCHANGED <<input, header, bytes, content, served, outcome>>

BodyCut ==
  /\ pc = "headers"
  /\ LET n == ContentLength(header) IN n # Malformed /\ closed /\ pos + n > Len(stream)
  /\ pos' = Len(stream)
  /\ End("io")
  /\ UNCHANGED <<input, served>>

-----------------------------------------------------------------------------
(* Messages *)

Handling(kinds) ==
  /\ pc = "message" /\ KindOf[message[1]] \in kinds
  /\ handled' = Append(handled, message)
  /\ UNCHANGED <<input, pos>>

\* write_response: a failure ends the loop.
Answer ==
  \/ replies' = Append(replies, message) /\ NextFrame
  \/ UNCHANGED replies /\ End("write")

BadRequest == Handling({"request"}) /\ UNCHANGED <<shutdown, replies>> /\ NextFrame
Request == Handling({"request"}) /\ UNCHANGED shutdown /\ Answer

\* The body is not JSON: the stream is still in step, and the loop goes on.
NotJson == Handling({"garbage"}) /\ UNCHANGED shutdown /\ Answer

Notification ==
  Handling({"notification"}) /\ UNCHANGED <<shutdown, replies>> /\ NextFrame

BadShutdown == Handling({"shutdown"}) /\ UNCHANGED shutdown /\ Answer
Shutdown == Handling({"shutdown"}) /\ shutdown' = TRUE /\ Answer

Exit ==
  /\ Handling({"exit"}) /\ UNCHANGED <<shutdown, replies>>
  /\ End(IF shutdown THEN "exit 0" ELSE "exit 1")

Server ==
  \/ EndOfStream \/ HeaderNotText \/ HeaderChunk
  \/ NoLength \/ Skip \/ Body \/ BodyCut
  \/ Request \/ NotJson \/ Notification \/ Shutdown \/ Exit

Next == Server \/ Close \/ \E f \in Frames : Write(f)

\* The client owes nothing; the server goes on when what it waits for is there.
Spec == Init /\ [][Next]_vars /\ WF_vars(Server)

-----------------------------------------------------------------------------
(* Properties *)

\* Between frames, and when the stream ended well: nothing of a frame is read.
AtBoundary == (pc = "line" /\ bytes = 0) \/ outcome = "eof"

Deliverable(f) == Len(f.head) <= MaxHeaderSize /\ Len(f.body) \in 1 .. MaxMessageSize
Bodies(fs) ==
  LET good == Chosen(fs, {i \in DOMAIN fs : Deliverable(fs[i])})
  IN  [i \in DOMAIN good |-> good[i].body]

\* The reader never falls out of step with the client: each read of a frame
\* starts where the client started one, whatever was skipped before, and the
\* messages handled by then are those of the frames before it that fit both
\* caps, all of them, once and in order.  No body byte is read as a header.
InStep ==
  AtBoundary =>
    \E k \in 0 .. Len(sent) :
      /\ pos = IF k = Len(sent) THEN Len(stream) ELSE starts[k + 1]
      /\ handled = Bodies(SubSeq(sent, 1, k))

Asks(m) == KindOf[m[1]] \in {"request", "shutdown", "garbage"}

\* How many of the first n messages of ms ask for an answer, and that rs has those
\* of ms that do, in their order, and nothing else
Asking(ms, n) == Cardinality({i \in 1 .. n : Asks(ms[i])})
InAnswer(ms, rs) ==
  /\ Len(rs) = Asking(ms, Len(ms))
  /\ \A i \in 1 .. Len(ms) : Asks(ms[i]) => rs[Asking(ms, i)] = ms[i]

\* Whatever asks for an answer has had one before the next frame is read, in the
\* order of arrival: "requests (messages carrying an id) must always receive a
\* response" (server_proto.rs, invalid_params_response).
Answered == pc = "line" => InAnswer(handled, replies)

\* The header text kept is bounded by its cap, and is never cut inside a line by
\* it: "half-trusted header text" would be a length with digits missing.  Only the
\* end of the stream may cut a line short.
WholeLines ==
  /\ Len(header) <= MaxHeaderSize
  /\ header # <<>> => Last(header) = NL \/ (closed /\ pos = Len(stream))

\* The exit status says whether a shutdown came before the exit.
ToldToStop(ms) == \E i \in 1 .. Len(ms) : KindOf[ms[i][1]] = "shutdown"
ExitTells == outcome \in {"exit 0", "exit 1"} => (outcome = "exit 0" <=> ToldToStop(handled))

\* The process gives the stream up as unusable only inside a frame whose block of
\* headers is cut by the end of the stream, or holds no unique, well formed length
\* on a line within the cap; its exit status says whether a shutdown came before the exit.
\* A read fails where the stream ends or is no text, or at a wide character in a
\* block of headers past the cap: there each piece read must be text by itself.
EndsForCause ==
  /\ outcome = "protocol" =>
       \E k \in 1 .. Len(sent) :
         /\ starts[k] < pos /\ pos <= starts[k] + Len(sent[k].head)
         /\ \/ closed /\ pos = Len(stream)
            \/ ContentLength(Within(sent[k].head)) = Malformed
  /\ outcome = "io" =>
       \/ closed /\ pos = Len(stream)
       \/ ~ValidUtf8(stream)
       \/ \E k \in 1 .. Len(sent) :
            /\ starts[k] < pos /\ pos <= starts[k] + Len(sent[k].head)
            /\ Len(sent[k].head) > MaxHeaderSize
            /\ \E i \in 1 .. Len(sent[k].head) : sent[k].head[i] = Lead
  /\ ExitTells

\* Whatever the client wrote, the process ends once the stream has: no frame makes
\* it wait for more.
Ends == closed ~> pc = "ended"
=============================================================================
