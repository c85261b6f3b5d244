--------------------------- MODULE Framing_proofs ---------------------------
(***************************************************************************)
(* Theorems about Framing for every stream of frames and all caps: the     *)
(* type invariant, that no line of headers is kept in part, that each      *)
(* message has its answer, that every frame is read where it starts and    *)
(* that the stream is given up only for a cause.                           *)
(***************************************************************************)
EXTENDS Framing, Lists_proofs, TLAPS

\* A block of headers that gives a length gives a natural number.
LEMMA ContentLengthType ==
  ASSUME NEW s \in Seq(Bytes)
  PROVE  ContentLength(s) \in Nat \cup {Malformed}
<1> DEFINE found == LengthHeaders(s)
<1>1. CASE \E i \in found : WellFormed(s, i) /\ found = {i}
  <2>1. PICK i \in found : found = {i}
    BY <1>1
  <2>2. (CHOOSE j \in found : TRUE) = i
    BY <2>1
  <2>3. s[i] \in DOMAIN LengthOf
    BY <2>1 DEF LengthHeaders
  <2>4. ContentLength(s) = LengthOf[s[i]]
    BY <1>1, <2>2 DEF ContentLength
  <2> QED BY <2>3, <2>4, FramingAssumption
<1>2. CASE ~ \E i \in found : WellFormed(s, i) /\ found = {i}
  BY <1>2 DEF ContentLength
<1> QED BY <1>1, <1>2

\* The budget of a read is positive, and one more than the room left in the cap
\* while there is any.
LEMMA BudgetType ==
  ASSUME TypeOK
  PROVE  Budget \in Nat \ {0} /\ (~TooLarge => Budget = MaxHeaderSize - bytes + 1)
BY FramingAssumption DEF TypeOK, ReaderType, Budget, TooLarge

-----------------------------------------------------------------------------
(* The type invariant *)

LEMMA InitTypeOK == Init => TypeOK
<1> SUFFICES ASSUME Init PROVE TypeOK
  OBVIOUS
<1>1. sent \in Seq(Frames) /\ starts \in Seq(Nat) /\ Len(starts) = Len(sent)
  BY DEF Init
<1>2. stream \in Seq(Bytes) /\ header \in Seq(Bytes) /\ message \in Seq(Bytes)
  BY DEF Init
<1>3. handled \in Seq(Seq(Bytes)) /\ replies \in Seq(Seq(Bytes))
  BY DEF Init
<1>4. pos \in 0 .. Len(stream)
  BY DEF Init
<1>5. InputType
  BY <1>1, <1>2 DEF Init, InputType
<1>6. bytes \in Nat /\ content \in BOOLEAN /\ pc = "line" /\ outcome \in Outcomes
  BY DEF Init, Outcomes, Causes
<1>7. ReaderType
  BY <1>2, <1>4, <1>6 DEF ReaderType
<1>8. ServedType
  BY <1>3 DEF Init, ServedType
<1> QED BY <1>5, <1>7, <1>8 DEF TypeOK

\* What an action leaves alone keeps its type.
LEMMA InputKept == InputType /\ UNCHANGED input => InputType'
BY DEF InputType, input

LEMMA ServedKept == ServedType /\ UNCHANGED served => ServedType'
BY DEF ServedType, served

LEMMA WriteTypeOK ==
  ASSUME TypeOK, NEW f \in Frames, Write(f)
  PROVE  TypeOK'
<1> DEFINE whole == f.head \o f.body
<1>1. f.head \in Seq(Bytes) /\ f.body \in Seq(Bytes)
  BY FramingAssumption
<1>2. whole \in Seq(Bytes)
  BY <1>1
<1> HIDE DEF whole
<1>3. PICK n \in 1 .. Len(whole) :
        stream' = stream \o SubSeq(whole, 1, n) /\ closed' = (n < Len(whole))
  BY DEF Write, whole
<1>4. SubSeq(whole, 1, n) \in Seq(Bytes)
  BY <1>2
<1>5. stream \in Seq(Bytes) /\ Len(stream) \in Nat
  BY DEF TypeOK, InputType
<1>6. stream' \in Seq(Bytes) /\ Len(stream') >= Len(stream)
  BY <1>3, <1>4, <1>5
<1>7. sent' \in Seq(Frames) /\ starts' \in Seq(Nat) /\ Len(starts') = Len(sent')
  BY <1>5 DEF TypeOK, InputType, Write
<1>8. InputType'
  BY <1>3, <1>6, <1>7 DEF InputType
<1>9. pos \in 0 .. Len(stream) /\ pos' = pos
  BY DEF TypeOK, ReaderType, Write
<1>10. pos' \in 0 .. Len(stream')
  BY <1>5, <1>6, <1>9
<1>11. ReaderType'
  BY <1>10 DEF TypeOK, ReaderType, Write, reading
<1>12. ServedType'
  BY ServedKept DEF TypeOK, Write
<1> QED BY <1>8, <1>11, <1>12 DEF TypeOK

LEMMA ChunkTypeOK ==
  ASSUME TypeOK, HeaderChunk
  PROVE  TypeOK'
<1>1. PICK e \in pos + 1 .. Len(stream) :
        LET chunk == SubSeq(stream, pos + 1, e) IN
          /\ pos' = e /\ bytes' = bytes + Len(chunk)
          /\ header' = IF bytes' > MaxHeaderSize THEN header ELSE header \o chunk
          /\ content' = (stream[e] # NL /\ (content \/ ~IsBlank(chunk)))
          /\ pc' = IF Blank(chunk) THEN "headers" ELSE "line"
  BY DEF HeaderChunk
<1>2. stream \in Seq(Bytes) /\ Len(stream) \in Nat /\ pos \in Nat
  BY DEF TypeOK, InputType, ReaderType
<1>3. SubSeq(stream, pos + 1, e) \in Seq(Bytes)
  BY <1>1, <1>2
<1>4. header' \in Seq(Bytes) /\ bytes' \in Nat /\ content' \in BOOLEAN
  BY <1>1, <1>3 DEF TypeOK, ReaderType
<1>5. pos' \in 0 .. Len(stream) /\ pc' \in {"line", "headers"}
  BY <1>1, <1>2
<1>6. UNCHANGED <<input, message, served, outcome>>
  BY DEF HeaderChunk
<1>7. ReaderType'
  BY <1>4, <1>5, <1>6 DEF TypeOK, ReaderType, input
<1> QED BY <1>6, <1>7, InputKept, ServedKept DEF TypeOK

LEMMA BodyTypeOK ==
  ASSUME TypeOK, Body
  PROVE  TypeOK'
<1> DEFINE n == ContentLength(header)
<1>1. /\ n # Malformed /\ ~Skipped(n) /\ pos + n <= Len(stream)
      /\ message' = SubSeq(stream, pos + 1, pos + n) /\ pos' = pos + n
      /\ pc' = "message"
      /\ UNCHANGED <<input, header, bytes, content, served, outcome>>
  BY DEF Body
<1>2. n \in Nat
  BY <1>1, ContentLengthType DEF TypeOK, ReaderType
<1>3. n # 0
  BY <1>1 DEF Skipped
<1>4. stream \in Seq(Bytes) /\ Len(stream) \in Nat /\ pos \in Nat
  BY DEF TypeOK, InputType, ReaderType
<1> HIDE DEF n
<1>5. SubSeq(stream, pos + 1, pos + n) \in Seq(Bytes) /\ Len(SubSeq(stream, pos + 1, pos + n)) = n
  BY <1>1, <1>2, <1>4
<1>6. message' \in Seq(Bytes) /\ message' # <<>>
  BY <1>1, <1>2, <1>3, <1>5
<1>7. pos' \in 0 .. Len(stream)
  BY <1>1, <1>2, <1>4
<1>8. ReaderType'
  BY <1>1, <1>6, <1>7 DEF TypeOK, ReaderType, input
<1> QED BY <1>1, <1>8, InputKept, ServedKept DEF TypeOK

\* The next frame is read from any place of the stream.
LEMMA NextFrameType ==
  ASSUME ReaderType, NextFrame, UNCHANGED input, pos' \in 0 .. Len(stream)
  PROVE  ReaderType'
<1>1. header' \in Seq(Bytes) /\ message' \in Seq(Bytes)
  BY DEF NextFrame
<1>2. pc' = "line" /\ bytes' \in Nat /\ content' \in BOOLEAN /\ outcome' \in Outcomes
  BY DEF ReaderType, NextFrame
<1>3. stream' = stream
  BY DEF input
<1> QED BY <1>1, <1>2, <1>3 DEF ReaderType

LEMMA SkipTypeOK ==
  ASSUME TypeOK, Skip
  PROVE  TypeOK'
<1>1. ContentLength(header) \in Nat
  BY ContentLengthType DEF TypeOK, ReaderType, Skip
<1>2. Len(stream) \in Nat /\ pos \in Nat
  BY DEF TypeOK, InputType, ReaderType
<1>3. pos' \in 0 .. Len(stream) /\ UNCHANGED <<input, served>>
  BY <1>1, <1>2 DEF Skip
<1>4. ReaderType'
  BY <1>3, NextFrameType DEF TypeOK, Skip
<1> QED BY <1>3, <1>4, InputKept, ServedKept DEF TypeOK

\* The process ends at any place of the stream.
LEMMA EndType ==
  ASSUME InputType, ReaderType, NEW why \in Outcomes, End(why), UNCHANGED input,
         pos' \in 0 .. Len(stream)
  PROVE  ReaderType'
BY DEF ReaderType, End, input

\* The actions that stop reading.
LEMMA StopTypeOK ==
  ASSUME TypeOK, EndOfStream \/ HeaderNotText \/ NoLength \/ BodyCut
  PROVE  TypeOK'
<1>1. Len(stream) \in Nat /\ pos \in 0 .. Len(stream)
  BY DEF TypeOK, InputType, ReaderType
<1>2. UNCHANGED <<input, served>>
  BY DEF EndOfStream, HeaderNotText, NoLength, BodyCut
<1>3. pos' \in 0 .. Len(stream)
  BY <1>1 DEF EndOfStream, HeaderNotText, NoLength, BodyCut
<1>4. ReaderType'
  <2>1. CASE EndOfStream /\ ~End("eof")
    BY <2>1, <1>2, <1>3 DEF TypeOK, ReaderType, EndOfStream, reading, input
  <2>2. CASE \E why \in Outcomes : End(why)
    BY <2>2, <1>2, <1>3, EndType DEF TypeOK
  <2> QED BY <2>1, <2>2 DEF EndOfStream, HeaderNotText, NoLength, BodyCut, Outcomes, Causes
<1> QED BY <1>2, <1>4, InputKept, ServedKept DEF TypeOK

LEMMA CloseTypeOK ==
  ASSUME TypeOK, Close
  PROVE  TypeOK'
<1>1. InputType'
  BY DEF TypeOK, InputType, Close
<1>2. ReaderType'
  BY DEF TypeOK, ReaderType, Close, reading
<1> QED BY <1>1, <1>2, ServedKept DEF TypeOK, Close

\* The handlers: each records the message, and reads the next frame or ends.
LEMMA HandleTypeOK ==
  ASSUME TypeOK, Request \/ NotJson \/ Notification \/ Shutdown \/ Exit
  PROVE  TypeOK'
<1>1. UNCHANGED <<input, pos>> /\ handled' = Append(handled, message)
  BY DEF Request, NotJson, Notification, Shutdown, Exit, Handling
<1>2. NextFrame \/ \E why \in Outcomes : End(why)
  BY DEF Request, NotJson, Notification, Shutdown, Exit, Answer, Outcomes, Causes
<1>3. pos' \in 0 .. Len(stream)
  BY <1>1 DEF TypeOK, ReaderType
<1>4. ReaderType'
  BY <1>1, <1>2, <1>3, EndType, NextFrameType DEF TypeOK
<1>5. replies' = replies \/ replies' = Append(replies, message)
  BY DEF Request, NotJson, Notification, Shutdown, Exit, Answer
<1>6. shutdown' \in BOOLEAN
  BY DEF TypeOK, ServedType, Request, NotJson, Notification, Shutdown, Exit
<1>7. message \in Seq(Bytes)
  BY DEF TypeOK, ReaderType
<1>8. handled' \in Seq(Seq(Bytes)) /\ replies' \in Seq(Seq(Bytes))
  <2> DEFINE Message == Seq(Bytes)
  <2>1. handled \in Seq(Message) /\ replies \in Seq(Message) /\ message \in Message
    BY <1>7 DEF TypeOK, ServedType
  <2> HIDE DEF Message
  <2>2. handled' \in Seq(Message) /\ replies' \in Seq(Message)
    BY <2>1, <1>1, <1>5
  <2> QED BY <2>2 DEF Message
<1>9. ServedType'
  BY <1>6, <1>8 DEF ServedType
<1> QED BY <1>1, <1>4, <1>9, InputKept DEF TypeOK

LEMMA NextTypeOK == TypeOK /\ [Next]_vars => TypeOK'
<1> SUFFICES ASSUME TypeOK, [Next]_vars PROVE TypeOK'
  OBVIOUS
<1>1. CASE UNCHANGED vars
  BY <1>1 DEF TypeOK, InputType, ReaderType, ServedType, vars
<1>2. CASE Next
  BY <1>2, WriteTypeOK, ChunkTypeOK, BodyTypeOK, SkipTypeOK, StopTypeOK, CloseTypeOK,
     HandleTypeOK DEF Next, Server
<1> QED BY <1>1, <1>2

\* Every variable keeps its type on every stream: no read goes past the end of the
\* stream, and no empty body is handed to the dispatcher.
THEOREM TypeCorrect == Spec => []TypeOK
<1> QED BY InitTypeOK, NextTypeOK, PTL DEF Spec

-----------------------------------------------------------------------------
(* No line in part *)

\* What the reader keeps: while the cap is not passed all it has read of the block,
\* and a last line without its end only where the stream ends.
IInv == TypeOK /\ WholeLines /\ (~TooLarge => Len(header) = bytes)

LEMMA InitLines == Init => WholeLines /\ (~TooLarge => Len(header) = bytes)
BY FramingAssumption DEF Init, WholeLines

LEMMA NextFrameLines ==
  ASSUME NextFrame
  PROVE  WholeLines' /\ (~TooLarge => Len(header) = bytes)'
BY FramingAssumption DEF NextFrame, WholeLines, TooLarge

\* A chunk within the cap was not cut by the budget.
LEMMA ChunkLines ==
  ASSUME IInv, HeaderChunk
  PROVE  WholeLines' /\ (~TooLarge => Len(header) = bytes)'
<1>1. PICK e \in pos + 1 .. Len(stream) :
        LET chunk == SubSeq(stream, pos + 1, e) IN
          /\ ChunkEnds(e)
          /\ pos' = e /\ bytes' = bytes + Len(chunk)
          /\ header' = IF bytes' > MaxHeaderSize THEN header ELSE header \o chunk
  BY DEF HeaderChunk
<1> DEFINE chunk == SubSeq(stream, pos + 1, e)
<1>2. stream \in Seq(Bytes) /\ Len(stream) \in Nat /\ pos \in Nat /\ e \in Nat
  BY <1>1 DEF IInv, TypeOK, InputType, ReaderType
<1>3. /\ chunk \in Seq(Bytes) /\ Len(chunk) = e - pos /\ Len(chunk) > 0
      /\ chunk[Len(chunk)] = stream[e]
  BY <1>1, <1>2
<1>4. header \in Seq(Bytes) /\ bytes \in Nat /\ MaxHeaderSize \in Nat
  BY FramingAssumption DEF IInv, TypeOK, ReaderType
<1>5. UNCHANGED <<stream, closed>>
  BY DEF HeaderChunk, input
<1> HIDE DEF chunk
<1>6. CASE bytes' > MaxHeaderSize
  <2>1. header' = header
    BY <1>1, <1>6
  <2>2. ASSUME header # <<>> PROVE Last(header) = NL
    BY <2>2, <1>1, <1>2 DEF IInv, WholeLines
  <2> QED BY <2>1, <2>2, <1>6, <1>4 DEF IInv, WholeLines, TooLarge
<1>7. CASE ~(bytes' > MaxHeaderSize)
  <2>1. header' = header \o chunk /\ bytes' = bytes + Len(chunk)
    BY <1>1, <1>7 DEF chunk
  <2>2. ~TooLarge /\ Len(header) = bytes /\ Budget = MaxHeaderSize - bytes + 1
    BY <2>1, <1>3, <1>4, <1>7 DEF TooLarge, IInv, Budget
  <2>a. Len(header \o chunk) = Len(header) + Len(chunk)
    BY <1>3, <1>4
  <2>3. Len(header') = bytes' /\ Len(header') <= MaxHeaderSize
    BY <2>a, <2>1, <2>2, <1>2, <1>3, <1>4, <1>7
  <2>4. e - pos # Budget
    BY <2>1, <2>2, <1>2, <1>3, <1>4, <1>7
  <2>5. stream[e] = NL \/ (closed /\ e = Len(stream))
    BY <1>1, <2>4 DEF ChunkEnds
  <2>6. Last(header') = stream[e]
    BY <2>1, <1>3, <1>4 DEF Last
  <2> QED BY <2>3, <2>5, <2>6, <1>1, <1>5 DEF WholeLines, TooLarge
<1> QED BY <1>6, <1>7

\* The rest leaves the header alone, and moves on only from a whole one or at the end.
LEMMA NextLines ==
  ASSUME IInv, [Next]_vars
  PROVE  WholeLines' /\ (~TooLarge => Len(header) = bytes)'
<1>1. CASE NextFrame
  BY <1>1, NextFrameLines
<1>2. CASE HeaderChunk
  BY <1>2, ChunkLines
<1>3. ASSUME UNCHANGED <<header, bytes>>,
             closed => closed' /\ Len(stream') = Len(stream),
             header # <<>> /\ Last(header) # NL =>
               closed' /\ pos' = Len(stream')
      PROVE  WholeLines' /\ (~TooLarge => Len(header) = bytes)'
  BY <1>3 DEF IInv, WholeLines, TooLarge
<1>4. ASSUME header # <<>>, Last(header) # NL
      PROVE  closed /\ pos = Len(stream)
  BY <1>4 DEF IInv, WholeLines
<1>5. CASE UNCHANGED vars
  BY <1>3, <1>4, <1>5 DEF vars
<1>6. CASE Close
  BY <1>3, <1>4, <1>6 DEF Close, reading
<1>7. ASSUME NEW f \in Frames, Write(f)
      PROVE  WholeLines' /\ (~TooLarge => Len(header) = bytes)'
  BY <1>3, <1>4, <1>7 DEF Write, reading
<1>8. CASE EndOfStream \/ NoLength
  BY <1>3, <1>4, <1>8 DEF EndOfStream, NoLength, End, reading, input
<1>9. CASE HeaderNotText
  <2>1. pos < Len(stream)
    BY <1>9 DEF IInv, TypeOK, InputType, ReaderType, HeaderNotText
  <2> QED BY <1>3, <1>4, <1>9, <2>1 DEF HeaderNotText, End, input
<1>10. CASE BodyCut
  BY <1>3, <1>4, <1>10 DEF BodyCut, End, input
<1>11. CASE Body
  <2>1. ContentLength(header) \in Nat \ {0} /\ pos + ContentLength(header) <= Len(stream)
    BY <1>11, ContentLengthType DEF IInv, TypeOK, ReaderType, Body, Skipped
  <2>2. pos \in Nat /\ Len(stream) \in Nat
    BY DEF IInv, TypeOK, InputType, ReaderType
  <2>3. pos # Len(stream)
    BY <2>1, <2>2
  <2> QED BY <1>3, <1>4, <1>11, <2>3 DEF Body, input
<1>12. CASE Skip \/ Notification
  BY <1>1, <1>12 DEF Skip, Notification
<1>13. CASE Request \/ NotJson \/ Shutdown \/ Exit
  BY <1>1, <1>3, <1>4, <1>13 DEF Request, NotJson, Shutdown, Exit, Answer, Handling, End, input
<1> QED BY <1>2, <1>5, <1>6, <1>7, <1>8, <1>9, <1>10, <1>11, <1>12, <1>13 DEF Next, Server

\* Whatever the caps and the stream, the header text kept fits its cap and holds no
\* line in part, so no length is read with digits missing: the budget of a read is
\* one byte more than the room left, and a chunk that uses it all is dropped.
THEOREM NoLineInPart == Spec => []WholeLines
<1>1. Init => IInv
  BY InitTypeOK, InitLines DEF IInv
<1>2. IInv /\ [Next]_vars => IInv'
  BY NextTypeOK, NextLines DEF IInv
<1>3. IInv => WholeLines
  BY DEF IInv
<1> QED BY <1>1, <1>2, <1>3, PTL DEF Spec

-----------------------------------------------------------------------------
(* Answers *)

\* A message more is counted if it asks for an answer.
LEMMA AskingAppend ==
  ASSUME NEW S, NEW ms \in Seq(S), NEW m \in S
  PROVE  /\ \A i \in 0 .. Len(ms) : Asking(Append(ms, m), i) = Asking(ms, i)
         /\ Asking(Append(ms, m), Len(ms) + 1) = Asking(ms, Len(ms)) + (IF Asks(m) THEN 1 ELSE 0)
<1> DEFINE more == Append(ms, m)
           these(s, n) == {i \in 1 .. n : Asks(s[i])}
<1>1. \A i \in 1 .. Len(ms) : more[i] = ms[i]
  OBVIOUS
<1>2. more[Len(ms) + 1] = m /\ Len(ms) \in Nat
  OBVIOUS
<1> HIDE DEF more
<1>3. \A i \in 0 .. Len(ms) : these(more, i) = these(ms, i)
  BY <1>1, <1>2
<1>4. IsFiniteSet(these(ms, Len(ms)))
  <2>1. IsFiniteSet(1 .. Len(ms))
    BY <1>2, FS_Interval
  <2>2. these(ms, Len(ms)) \in SUBSET (1 .. Len(ms))
    OBVIOUS
  <2> HIDE DEF these
  <2> QED BY <2>1, <2>2, FS_Subset
<1>5. CASE Asks(m)
  <2>1. these(more, Len(ms) + 1) = these(ms, Len(ms)) \cup {Len(ms) + 1}
    BY <1>1, <1>2, <1>5
  <2>2. Len(ms) + 1 \notin these(ms, Len(ms))
    BY <1>2
  <2> HIDE DEF these
  <2>3. Cardinality(these(more, Len(ms) + 1)) = Cardinality(these(ms, Len(ms))) + 1
    BY <1>4, <2>1, <2>2, FS_AddElement
  <2> QED BY <1>3, <1>5, <2>3 DEF Asking, more, these
<1>6. CASE ~Asks(m)
  <2>1. these(more, Len(ms) + 1) = these(ms, Len(ms))
    BY <1>1, <1>2, <1>6
  <2> HIDE DEF these
  <2>2. Cardinality(these(ms, Len(ms))) \in Nat
    BY <1>4, FS_CardinalityType
  <2>3. Cardinality(these(more, Len(ms) + 1)) = Cardinality(these(ms, Len(ms))) + 0
    BY <2>1, <2>2
  <2> QED BY <1>3, <1>6, <2>3 DEF Asking, more, these
<1> QED BY <1>5, <1>6

\* The place of an answer is one there is.
LEMMA AskingRange ==
  ASSUME NEW S, NEW ms \in Seq(S), NEW i \in 1 .. Len(ms), Asks(ms[i])
  PROVE  Asking(ms, i) \in 1 .. Asking(ms, Len(ms))
<1> DEFINE these(n) == {j \in 1 .. n : Asks(ms[j])}
<1>1. Len(ms) \in Nat /\ i \in these(i) /\ these(i) \subseteq these(Len(ms))
  OBVIOUS
<1>2. IsFiniteSet(these(Len(ms))) /\ IsFiniteSet(these(i))
  <2>1. IsFiniteSet(1 .. Len(ms))
    BY <1>1, FS_Interval
  <2>2. these(Len(ms)) \in SUBSET (1 .. Len(ms)) /\ these(i) \in SUBSET (1 .. Len(ms))
    BY <1>1
  <2> HIDE DEF these
  <2> QED BY <2>1, <2>2, FS_Subset
<1> HIDE DEF these
<1>3. /\ Cardinality(these(i)) \in Nat /\ Cardinality(these(Len(ms))) \in Nat
      /\ Cardinality(these(i)) <= Cardinality(these(Len(ms)))
  BY <1>1, <1>2, FS_CardinalityType, FS_Subset
<1>4. Cardinality(these(i)) # 0
  BY <1>1, <1>2, FS_EmptySet
<1> QED BY <1>3, <1>4 DEF Asking, these

\* A message that asks and its answer, or one that does not, keep the two in step.
LEMMA AnswerKept ==
  ASSUME NEW S, NEW ms \in Seq(S), NEW rs \in Seq(S), NEW m \in S, NEW after,
         InAnswer(ms, rs), after = IF Asks(m) THEN Append(rs, m) ELSE rs
  PROVE  InAnswer(Append(ms, m), after)
<1> DEFINE more == Append(ms, m)
<1>1. /\ Len(more) = Len(ms) + 1 /\ Len(ms) \in Nat /\ more[Len(ms) + 1] = m
      /\ \A i \in 1 .. Len(ms) : more[i] = ms[i]
  OBVIOUS
<1>2. /\ Asking(more, Len(more)) = Asking(ms, Len(ms)) + (IF Asks(m) THEN 1 ELSE 0)
      /\ \A i \in 1 .. Len(ms) : Asking(more, i) = Asking(ms, i)
  BY <1>1, AskingAppend
<1>3. Len(rs) = Asking(ms, Len(ms)) /\ Len(rs) \in Nat
  BY DEF InAnswer
<1>4. Len(after) = Asking(more, Len(more))
  BY <1>2, <1>3
<1>5. ASSUME NEW i \in 1 .. Len(ms), Asks(ms[i])
      PROVE  after[Asking(ms, i)] = ms[i]
  <2>1. Asking(ms, i) \in 1 .. Len(rs)
    BY <1>3, <1>5, AskingRange
  <2>2. rs[Asking(ms, i)] = ms[i]
    BY <1>5 DEF InAnswer
  <2> QED BY <2>1, <2>2
<1>6. ASSUME Asks(m) PROVE after[Asking(more, Len(more))] = m
  BY <1>2, <1>3, <1>6
<1> HIDE DEF more
<1>7. \A i \in 1 .. Len(more) : Asks(more[i]) => after[Asking(more, i)] = more[i]
  <2> SUFFICES ASSUME NEW i \in 1 .. Len(more), Asks(more[i])
               PROVE  after[Asking(more, i)] = more[i]
    OBVIOUS
  <2>1. CASE i \in 1 .. Len(ms)
    BY <1>1, <1>2, <1>5, <2>1
  <2>2. CASE i = Len(more)
    BY <1>1, <1>6, <2>2
  <2>3. i \in 1 .. Len(ms) \/ i = Len(more)
    BY <1>1
  <2> QED BY <2>1, <2>2, <2>3
<1> QED BY <1>4, <1>7 DEF InAnswer, more

\* Until the process ends, what was handled and what was answered are in step, and
\* the flag of the server says whether a shutdown was among it.
Served ==
  /\ pc # "ended" => InAnswer(handled, replies) /\ (shutdown <=> ToldToStop(handled))
  /\ pc # "ended" => outcome = Running
  /\ ExitTells

LEMMA InitServed == Init => Served
<1> SUFFICES ASSUME Init PROVE Served
  OBVIOUS
<1>1. {i \in 1 .. Len(handled) : Asks(handled[i])} = {}
  BY DEF Init
<1>2. Asking(handled, Len(handled)) = 0
  BY <1>1, FS_EmptySet DEF Asking
<1>3. handled = <<>> /\ replies = <<>> /\ Len(<<>>) = 0 /\ 1 .. 0 = {}
  BY DEF Init
<1>4. InAnswer(handled, replies)
  BY <1>2, <1>3 DEF InAnswer
<1>5. ~ToldToStop(handled) /\ shutdown = FALSE
  BY <1>3 DEF Init, ToldToStop
<1>6. outcome = Running /\ outcome \notin {"exit 0", "exit 1"}
  BY FramingAssumption DEF Init, Causes
<1> QED BY <1>4, <1>5, <1>6 DEF Served, ExitTells

\* The handlers
LEMMA HandlersServed ==
  ASSUME TypeOK, Served, Request \/ NotJson \/ Notification \/ Shutdown \/ Exit
  PROVE  Served'
<1> DEFINE Message == Seq(Bytes)
<1>1. /\ pc = "message" /\ outcome = Running /\ message \in Message
      /\ handled \in Seq(Message) /\ replies \in Seq(Message)
      /\ handled' = Append(handled, message)
      /\ InAnswer(handled, replies) /\ (shutdown <=> ToldToStop(handled))
  BY DEF TypeOK, ReaderType, ServedType, Served, Request, NotJson, Notification, Shutdown, Exit,
         Handling
<1> HIDE DEF Message
<1>2. ToldToStop(handled') <=> ToldToStop(handled) \/ KindOf[message[1]] = "shutdown"
  BY <1>1 DEF ToldToStop
<1>3. ASSUME replies' = IF Asks(message) THEN Append(replies, message) ELSE replies
      PROVE  InAnswer(handled', replies')
  BY <1>1, <1>3, AnswerKept
<1>4. CASE Request \/ NotJson
  <2>1. Asks(message) /\ KindOf[message[1]] # "shutdown" /\ shutdown' = shutdown /\ Answer
    BY <1>4 DEF Request, NotJson, Handling, Asks
  <2> QED BY <1>1, <1>2, <1>3, <2>1 DEF Answer, NextFrame, End, Served, ExitTells
<1>5. CASE Notification
  <2>1. ~Asks(message) /\ KindOf[message[1]] # "shutdown"
    BY <1>5 DEF Notification, Handling, Asks
  <2> QED BY <1>1, <1>2, <1>3, <1>5, <2>1 DEF Notification, NextFrame, Served, ExitTells
<1>6. CASE Shutdown
  <2>1. Asks(message) /\ KindOf[message[1]] = "shutdown" /\ shutdown' = TRUE /\ Answer
    BY <1>6 DEF Shutdown, Handling, Asks
  <2>2. ToldToStop(handled') <=> shutdown'
    BY <1>2, <2>1
  <2>3. CASE replies' = Append(replies, message) /\ NextFrame
    <3>1. InAnswer(handled', replies')
      BY <1>3, <2>1, <2>3
    <3>2. outcome' = Running /\ outcome' \notin {"exit 0", "exit 1"}
      BY <1>1, <2>3, FramingAssumption DEF NextFrame, Causes
    <3> QED BY <2>2, <3>1, <3>2 DEF Served, ExitTells
  <2>4. CASE UNCHANGED replies /\ End("write")
    BY <1>1, <2>4 DEF End, Served, ExitTells
  <2> QED BY <2>1, <2>3, <2>4 DEF Answer
<1>7. CASE Exit
  <2>1. KindOf[message[1]] # "shutdown"
    BY <1>7 DEF Exit, Handling
  <2> QED BY <1>1, <1>2, <1>7, <2>1 DEF Exit, End, Served, ExitTells
<1> QED BY <1>4, <1>5, <1>6, <1>7

LEMMA NextServed ==
  ASSUME TypeOK, Served, [Next]_vars
  PROVE  Served'
<1>1. ASSUME UNCHANGED served, pc' # "ended" => pc # "ended" /\ outcome' = outcome,
             pc' = "ended" => outcome' \in {outcome, "eof", "io", "protocol"}
      PROVE  Served'
  BY <1>1 DEF Served, served, ExitTells
<1>2. CASE UNCHANGED vars
  BY <1>2 DEF Served, vars, ExitTells
<1>3. CASE Close \/ \E f \in Frames : Write(f)
  BY <1>1, <1>3 DEF Close, Write, reading
<1>4. CASE EndOfStream \/ HeaderNotText \/ HeaderChunk \/ NoLength \/ Skip \/ Body \/ BodyCut
  BY <1>1, <1>4 DEF EndOfStream, HeaderNotText, HeaderChunk, NoLength, Skip, Body, BodyCut, End,
     NextFrame, reading
<1> QED BY <1>2, <1>3, <1>4, HandlersServed DEF Next, Server

LEMMA ServedAlways == Spec => []Served
<1>1. Init => TypeOK /\ Served
  BY InitTypeOK, InitServed
<1>2. TypeOK /\ Served /\ [Next]_vars => (TypeOK /\ Served)'
  BY NextTypeOK, NextServed
<1> QED BY <1>1, <1>2, PTL DEF Spec

\* Whatever the client sends, each message that asks for an answer has had exactly
\* one when the next frame is read, in the order of arrival, and no other message
\* has.
THEOREM EachAnswered == Spec => []Answered
<1>1. Served => Answered
  BY DEF Served, Answered
<1> QED BY <1>1, ServedAlways, PTL

\* Whatever messages come between, the exit status is 0 exactly when a shutdown was
\* handled before the exit.
THEOREM ExitStatus == Spec => []ExitTells
<1>1. Served => ExitTells
  BY DEF Served
<1> QED BY <1>1, ServedAlways, PTL

-----------------------------------------------------------------------------
(* In step *)

\* Where the k-th frame starts, less one, or where the next one will
Start(k) == IF k = Len(sent) + 1 THEN Len(stream) ELSE starts[k]

\* The stream is the frames one after the other, the last one maybe in part.
Written ==
  \A k \in 1 .. Len(sent) :
    LET whole == sent[k].head \o sent[k].body
        there == Start(k + 1) - starts[k]
    IN /\ starts[k] < Start(k + 1) /\ Start(k + 1) <= Len(stream)
       /\ there <= Len(whole)
       /\ there = Len(whole) \/ (k = Len(sent) /\ closed)
       /\ \A i \in 1 .. there : stream[starts[k] + i] = whole[i]

\* The line that the first n bytes of a head end in holds more than white space.
Filled(head, n) == \E j \in 1 .. n : head[j] \notin Spaces /\ \A i \in j .. n : head[i] # NL

\* What is kept of the first n bytes of a head
Kept(head, n) == IF n <= MaxHeaderSize THEN SubSeq(head, 1, n) ELSE Within(head)

\* Where the reader may be in the k-th frame
Between(k) == pc = "line" /\ bytes = 0 /\ header = <<>> /\ ~content /\ pos = Start(k)

InHead(k) ==
  LET head == sent[k].head IN
    /\ k <= Len(sent) /\ pc = "line" /\ bytes \in 1 .. Len(head) - 1
    /\ pos = starts[k] + bytes /\ header = Kept(head, bytes)
    /\ content <=> Filled(head, bytes)
    /\ head[bytes] # Lead

HeadRead(k) ==
  LET head == sent[k].head IN
    /\ k <= Len(sent) /\ pc = "headers" /\ bytes \in 1 .. Len(head)
    /\ pos = starts[k] + bytes /\ header = Kept(head, bytes)
    /\ bytes = Len(head) \/ (closed /\ pos = Len(stream))

BodyRead(k) ==
  /\ k <= Len(sent) /\ pc = "message"
  /\ Deliverable(sent[k]) /\ message = sent[k].body /\ pos = Start(k + 1)

Over(k) == pc = "ended" /\ (outcome = "eof" => pos = Start(k))

\* The reader is at the k-th frame, and those before it that fit the caps were handled.
Reading(k) ==
  /\ Between(k) \/ InHead(k) \/ HeadRead(k) \/ BodyRead(k) \/ Over(k)
  /\ handled = Bodies(SubSeq(sent, 1, k - 1))

FInv == IInv /\ Served /\ Written /\ \E k \in 1 .. Len(sent) + 1 : Reading(k)

\* One frame more is one body more, or none.
LEMMA BodiesGrow ==
  ASSUME NEW fs \in Seq(Frames), NEW f \in Frames
  PROVE  Bodies(Append(fs, f)) = IF Deliverable(f) THEN Append(Bodies(fs), f.body) ELSE Bodies(fs)
<1> DEFINE n == Len(fs)
           more == Append(fs, f)
           good(s) == {i \in DOMAIN s : Deliverable(s[i])}
           old == Chosen(fs, good(fs))
<1>1. n \in Nat /\ DOMAIN fs = 1 .. n /\ DOMAIN more = 1 .. n + 1
  OBVIOUS
<1>2. (\A i \in 1 .. n : more[i] = fs[i]) /\ more[n + 1] = f
  OBVIOUS
<1>3. good(fs) \in SUBSET DOMAIN fs
  OBVIOUS
<1>4. /\ Chosen(more, good(fs)) = old
      /\ Chosen(more, good(fs) \cup {n + 1}) = Append(old, f)
  <2> HIDE DEF good
  <2> QED BY <1>3, ChosenAppend
<1>5. old \in Seq(Frames)
  <2> HIDE DEF good
  <2> QED BY <1>3, ChosenKeeps
<1>6. Bodies(more) = [i \in DOMAIN Chosen(more, good(more)) |-> Chosen(more, good(more))[i].body]
  BY DEF Bodies
<1>7. Bodies(fs) = [i \in DOMAIN old |-> old[i].body]
  BY DEF Bodies
<1> HIDE DEF more, old
<1>8. CASE Deliverable(f)
  <2>1. good(more) = good(fs) \cup {n + 1}
    BY <1>1, <1>2, <1>8
  <2> HIDE DEF good
  <2>2. Bodies(more) = [i \in DOMAIN Append(old, f) |-> Append(old, f)[i].body]
    BY <1>4, <1>6, <2>1
  <2>3. [i \in DOMAIN Append(old, f) |-> Append(old, f)[i].body]
          = Append([i \in DOMAIN old |-> old[i].body], f.body)
    <3> DEFINE B == Seq(Bytes)
               c == [i \in DOMAIN old |-> old[i].body]
               d == [i \in DOMAIN Append(old, f) |-> Append(old, f)[i].body]
               m == Len(old)
    <3>1. /\ m \in Nat /\ DOMAIN old = 1 .. m /\ DOMAIN Append(old, f) = 1 .. m + 1
          /\ \A i \in 1 .. m : old[i] \in Frames /\ Append(old, f)[i] = old[i]
          /\ Append(old, f)[m + 1] = f
      BY <1>5
    <3>2. \A g \in Frames : g.body \in B
      BY FramingAssumption
    <3>3. \A i \in 1 .. m + 1 : i \in 1 .. m \/ i = m + 1
      BY <3>1
    <3> HIDE DEF m, B
    <3>4. c \in [1 .. m -> B] /\ d \in [1 .. m + 1 -> B]
      BY <3>1, <3>2, <3>3
    <3>5. c \in Seq(B) /\ Len(c) = m /\ d \in Seq(B) /\ Len(d) = m + 1
      BY <3>1, <3>4
    <3>6. d[m + 1] = f.body /\ (\A i \in 1 .. m : d[i] = c[i]) /\ f.body \in B
      BY <3>1, <3>2
    <3> HIDE DEF c, d
    <3>7. Append(c, f.body) \in Seq(B) /\ Len(Append(c, f.body)) = m + 1
          /\ (\A i \in 1 .. m : Append(c, f.body)[i] = c[i]) /\ Append(c, f.body)[m + 1] = f.body
      BY <3>5, <3>6
    <3>8. d = Append(c, f.body)
      BY <3>3, <3>5, <3>6, <3>7, SeqEqual
    <3> QED BY <3>8 DEF c, d
  <2> QED BY <1>7, <1>8, <2>2, <2>3 DEF more
<1>9. CASE ~Deliverable(f)
  <2>1. good(more) = good(fs)
    BY <1>1, <1>2, <1>9
  <2> HIDE DEF good
  <2> QED BY <1>4, <1>6, <1>7, <1>9, <2>1 DEF more
<1> QED BY <1>8, <1>9

\* So the bodies of one frame more.
LEMMA BodiesNext ==
  ASSUME TypeOK, NEW k \in 1 .. Len(sent), handled = Bodies(SubSeq(sent, 1, k - 1))
  PROVE  Bodies(SubSeq(sent, 1, k))
           = IF Deliverable(sent[k]) THEN Append(handled, sent[k].body) ELSE handled
<1>1. sent \in Seq(Frames) /\ sent[k] \in Frames /\ Len(sent) \in Nat
  BY DEF TypeOK, InputType
<1>2. SubSeq(sent, 1, k - 1) \in Seq(Frames)
  BY <1>1
<1>3. SubSeq(sent, 1, k) = Append(SubSeq(sent, 1, k - 1), sent[k])
  <2>1. /\ SubSeq(sent, 1, k) \in Seq(Frames) /\ Len(SubSeq(sent, 1, k)) = k
        /\ Len(SubSeq(sent, 1, k - 1)) = k - 1
        /\ \A i \in 1 .. k : SubSeq(sent, 1, k)[i] = sent[i]
        /\ \A i \in 1 .. k - 1 : SubSeq(sent, 1, k - 1)[i] = sent[i]
    BY <1>1
  <2> DEFINE a == SubSeq(sent, 1, k)
             b == SubSeq(sent, 1, k - 1)
  <2>2. a \in Seq(Frames) /\ Len(a) = k /\ b \in Seq(Frames) /\ Len(b) = k - 1
        /\ (\A i \in 1 .. k : a[i] = sent[i]) /\ \A i \in 1 .. k - 1 : b[i] = sent[i]
    BY <1>2, <2>1
  <2> HIDE DEF a, b
  <2>3. /\ Append(b, sent[k]) \in Seq(Frames) /\ Len(Append(b, sent[k])) = k
        /\ \A i \in 1 .. k : Append(b, sent[k])[i] = a[i]
    BY <1>1, <2>2
  <2>4. a = Append(b, sent[k])
    BY <2>2, <2>3, SeqEqual
  <2> QED BY <2>4 DEF a, b
<1> QED BY <1>1, <1>2, <1>3, BodiesGrow

\* What a client's frame looks like
LEMMA FrameShape ==
  ASSUME NEW f \in Frames
  PROVE  /\ f.head \in Seq(Bytes) /\ f.body \in Seq(Bytes)
         /\ Len(f.head) \in Nat \ {0} /\ Len(f.body) \in Nat
         /\ \A i \in 1 .. Len(f.head) : BlankLine(f.head, i) <=> i = Len(f.head)
         /\ f.head[Len(f.head)] = NL
         /\ f.head[1] # Trail
<1>1. f.head \in Seq(Bytes) /\ f.body \in Seq(Bytes)
  BY FramingAssumption
<1>2. {i \in 1 .. Len(f.head) : BlankLine(f.head, i)} = {Len(f.head)} /\ f.head[1] # Trail
  BY FramesAssumption
<1>3. Len(f.head) \in 1 .. Len(f.head) /\ BlankLine(f.head, Len(f.head))
  BY <1>2
<1>4. \A i \in 1 .. Len(f.head) : BlankLine(f.head, i) <=> i = Len(f.head)
  BY <1>2
<1>5. Len(f.head) \in Nat /\ Len(f.body) \in Nat
  BY <1>1
<1> QED BY <1>1, <1>2, <1>3, <1>4, <1>5 DEF BlankLine

\* A piece of a head that holds no newline but at its end
LEMMA PieceOf ==
  ASSUME NEW h \in Seq(Bytes), NEW n \in Nat, NEW m \in n + 1 .. Len(h),
         \A i \in n + 1 .. m - 1 : h[i] # NL
  PROVE  LET chunk == SubSeq(h, n + 1, m) IN
         /\ Filled(h, m) <=> h[m] # NL /\ (Filled(h, n) \/ ~IsBlank(chunk))
         /\ BlankLine(h, m) <=> Last(chunk) = NL /\ IsBlank(chunk) /\ ~Filled(h, n)
<1> DEFINE chunk == SubSeq(h, n + 1, m)
<1>1. m \in Nat /\ Len(h) \in Nat /\ n < m /\ NL \notin Spaces
  BY FramingAssumption
<1>2. /\ chunk \in Seq(Bytes) /\ Len(chunk) = m - n
      /\ \A i \in 1 .. m - n : chunk[i] = h[n + i]
      /\ Last(chunk) = h[m]
  BY <1>1 DEF Last
<1>3. \A j \in n + 1 .. m : j - n \in 1 .. m - n /\ n + (j - n) = j
  BY <1>1
<1>4. \A i \in 1 .. m - n : n + i \in n + 1 .. m
  BY <1>1
<1> HIDE DEF chunk
<1>5. IsBlank(chunk) <=> \A j \in n + 1 .. m : h[j] \in Spaces \cup {NL}
  <2>1. IsBlank(chunk) <=> \A i \in 1 .. m - n : h[n + i] \in Spaces \cup {NL}
    BY <1>1, <1>2 DEF IsBlank
  <2> QED BY <1>3, <1>4, <2>1
<1>6. ASSUME h[m] # NL
      PROVE  Filled(h, m) <=> Filled(h, n) \/ ~IsBlank(chunk)
  <2>1. \A i \in n + 1 .. m : h[i] # NL
    BY <1>1, <1>6
  <2>2. ASSUME Filled(h, m) PROVE Filled(h, n) \/ ~IsBlank(chunk)
    <3>1. PICK j \in 1 .. m : h[j] \notin Spaces /\ \A i \in j .. m : h[i] # NL
      BY <2>2 DEF Filled
    <3>2. CASE j <= n
      BY <1>1, <3>1, <3>2 DEF Filled
    <3>3. CASE j > n
      BY <1>1, <1>5, <2>1, <3>1, <3>3
    <3> QED BY <1>1, <3>1, <3>2, <3>3
  <2>3. ASSUME Filled(h, n) PROVE Filled(h, m)
    <3>1. PICK j \in 1 .. n : h[j] \notin Spaces /\ \A i \in j .. n : h[i] # NL
      BY <2>3 DEF Filled
    <3>2. \A i \in j .. m : h[i] # NL
      BY <1>1, <2>1, <3>1
    <3>3. j \in 1 .. m
      BY <1>1, <3>1
    <3> QED BY <3>1, <3>2, <3>3 DEF Filled
  <2>4. ASSUME ~IsBlank(chunk) PROVE Filled(h, m)
    <3>1. PICK j \in n + 1 .. m : h[j] \notin Spaces
      BY <1>5, <2>4
    <3>2. j \in 1 .. m /\ \A i \in j .. m : i \in n + 1 .. m
      BY <1>1, <3>1
    <3> QED BY <2>1, <3>1, <3>2 DEF Filled
  <2> QED BY <2>2, <2>3, <2>4
<1>7. ASSUME h[m] = NL PROVE ~Filled(h, m)
  BY <1>1, <1>7 DEF Filled
<1>8. ASSUME h[m] = NL, IsBlank(chunk), ~Filled(h, n) PROVE BlankLine(h, m)
  <2> SUFFICES ASSUME NEW j \in 1 .. m - 1, h[j] \notin Spaces
               PROVE  \E k \in j .. m - 1 : h[k] = NL
    BY <1>8 DEF BlankLine
  <2>1. CASE j <= n
    <3>1. \E k \in j .. n : h[k] = NL
      BY <1>1, <1>8, <2>1 DEF Filled
    <3> QED BY <1>1, <2>1, <3>1
  <2>2. CASE j > n
    <3>1. h[j] \in Spaces \cup {NL}
      BY <1>1, <1>5, <1>8, <2>2
    <3> QED BY <1>1, <3>1
  <2> QED BY <1>1, <2>1, <2>2
<1>9. ASSUME BlankLine(h, m) PROVE h[m] = NL /\ IsBlank(chunk) /\ ~Filled(h, n)
  <2>1. \A j \in 1 .. m - 1 : h[j] \notin Spaces => \E k \in j .. m - 1 : h[k] = NL
    BY <1>9 DEF BlankLine
  <2>2. h[m] = NL
    BY <1>9 DEF BlankLine
  <2>3. ASSUME NEW j \in n + 1 .. m PROVE h[j] \in Spaces \cup {NL}
    <3>1. CASE j = m
      BY <2>2, <3>1
    <3>2. CASE j # m
      <4>1. j \in 1 .. m - 1 /\ \A k \in j .. m - 1 : k \in n + 1 .. m - 1
        BY <1>1, <3>2
      <4> QED BY <2>1, <4>1
    <3> QED BY <3>1, <3>2
  <2>4. ~Filled(h, n)
    <3> SUFFICES ASSUME NEW j \in 1 .. n, h[j] \notin Spaces, \A i \in j .. n : h[i] # NL
                 PROVE  FALSE
      BY DEF Filled
    <3>1. j \in 1 .. m - 1 /\ \A k \in j .. m - 1 : k \in j .. n \/ k \in n + 1 .. m - 1
      BY <1>1
    <3> QED BY <2>1, <3>1
  <2> QED BY <1>5, <2>2, <2>3, <2>4
<1>10. (Filled(h, m) <=> h[m] # NL /\ (Filled(h, n) \/ ~IsBlank(chunk)))
       /\ (BlankLine(h, m) <=> Last(chunk) = NL /\ IsBlank(chunk) /\ ~Filled(h, n))
  BY <1>2, <1>6, <1>7, <1>8, <1>9
<1> QED BY <1>10 DEF chunk

\* The last line end within the cap is where what is kept ends.
LEMMA WithinIs ==
  ASSUME NEW h \in Seq(Bytes), NEW m \in 0 .. Len(h), m <= MaxHeaderSize, m = 0 \/ h[m] = NL,
         \A i \in m + 1 .. Len(h) : h[i] = NL => i > MaxHeaderSize
  PROVE  Within(h) = SubSeq(h, 1, m)
<1> DEFINE ends == {0} \cup {i \in 1 .. Len(h) : h[i] = NL /\ i <= MaxHeaderSize}
<1>1. MaxHeaderSize \in Nat /\ Len(h) \in Nat /\ m \in Nat
  BY FramingAssumption
<1>2. m \in ends /\ \A j \in ends : j <= m
  BY <1>1
<1>3. \A i \in ends : (\A j \in ends : j <= i) => i = m
  BY <1>1, <1>2
<1> HIDE DEF ends
<1>4. (CHOOSE i \in ends : \A j \in ends : j <= i) = m
  BY <1>2, <1>3
<1> QED BY <1>4 DEF Within, ends

\* A head within the cap is kept whole.
LEMMA WithinAll ==
  ASSUME NEW f \in Frames
  PROVE  Kept(f.head, Len(f.head)) = Within(f.head)
<1>1. f.head \in Seq(Bytes) /\ Len(f.head) \in Nat \ {0} /\ f.head[Len(f.head)] = NL
  BY FrameShape
<1>2. ASSUME Len(f.head) <= MaxHeaderSize
      PROVE  Within(f.head) = SubSeq(f.head, 1, Len(f.head))
  <2>1. Len(f.head) \in 0 .. Len(f.head)
    BY <1>1
  <2>2. \A i \in Len(f.head) + 1 .. Len(f.head) : FALSE
    BY <1>1
  <2> QED BY <1>1, <1>2, <2>1, <2>2, WithinIs
<1> QED BY <1>2 DEF Kept

\* A piece of a list, and two lists in one
LEMMA Piece ==
  ASSUME NEW S, NEW s \in Seq(S), NEW n \in Nat, NEW m \in Nat, n <= m, m <= Len(s)
  PROVE  /\ SubSeq(s, n + 1, m) \in Seq(S) /\ Len(SubSeq(s, n + 1, m)) = m - n
         /\ \A i \in 1 .. m - n : SubSeq(s, n + 1, m)[i] = s[n + i]
OBVIOUS

LEMMA Joined ==
  ASSUME NEW S, NEW s \in Seq(S), NEW t \in Seq(S)
  PROVE  /\ s \o t \in Seq(S) /\ Len(s \o t) = Len(s) + Len(t)
         /\ \A i \in 1 .. Len(s) : (s \o t)[i] = s[i]
         /\ \A i \in 1 .. Len(t) : (s \o t)[Len(s) + i] = t[i]
OBVIOUS

LEMMA FrameWhole ==
  ASSUME NEW f \in Frames
  PROVE  LET whole == f.head \o f.body IN
         /\ whole \in Seq(Bytes) /\ Len(whole) = Len(f.head) + Len(f.body)
         /\ \A i \in 1 .. Len(f.head) : whole[i] = f.head[i]
         /\ \A i \in 1 .. Len(f.body) : whole[Len(f.head) + i] = f.body[i]
<1> DEFINE p == f.head
           q == f.body
<1>1. p \in Seq(Bytes) /\ q \in Seq(Bytes)
  BY FrameShape
<1> HIDE DEF p, q
<1>2. /\ p \o q \in Seq(Bytes) /\ Len(p \o q) = Len(p) + Len(q)
      /\ \A i \in 1 .. Len(p) : (p \o q)[i] = p[i]
      /\ \A i \in 1 .. Len(q) : (p \o q)[Len(p) + i] = q[i]
  BY <1>1, Joined
<1> QED BY <1>2 DEF p, q

\* Where a frame lies in the stream, and that what is read of it is what was written
LEMMA OnWire ==
  ASSUME TypeOK, Written, NEW k \in 1 .. Len(sent)
  PROVE  LET f == sent[k]
             all == Len(f.head) + Len(f.body)
         IN /\ f \in Frames /\ starts[k] \in Nat /\ Start(k) = starts[k]
            /\ Start(k + 1) \in Nat /\ starts[k] < Start(k + 1)
            /\ Start(k + 1) <= Len(stream) /\ Start(k + 1) <= starts[k] + all
            /\ Start(k + 1) < starts[k] + all => closed /\ Start(k + 1) = Len(stream)
            /\ \A i \in 1 .. Len(f.head) :
                 starts[k] + i <= Len(stream) => stream[starts[k] + i] = f.head[i]
            /\ starts[k] + all <= Len(stream) =>
                 SubSeq(stream, starts[k] + Len(f.head) + 1, starts[k] + all) = f.body
<1> DEFINE f == sent[k]
           whole == f.head \o f.body
           hd == Len(f.head)
           bd == Len(f.body)
           next == Start(k + 1)
           at == starts[k]
<1>1. /\ sent \in Seq(Frames) /\ starts \in Seq(Nat) /\ Len(starts) = Len(sent)
      /\ stream \in Seq(Bytes) /\ Len(stream) \in Nat /\ Len(sent) \in Nat
  BY DEF TypeOK, InputType
<1>2. f \in Frames /\ at \in Nat /\ Start(k) = at /\ next \in Nat
  BY <1>1 DEF Start
<1>3. f.head \in Seq(Bytes) /\ f.body \in Seq(Bytes) /\ hd \in Nat /\ bd \in Nat
  BY <1>2, FrameShape
<1>4. /\ whole \in Seq(Bytes) /\ Len(whole) = hd + bd
      /\ \A i \in 1 .. hd : whole[i] = f.head[i]
      /\ \A i \in 1 .. bd : whole[hd + i] = f.body[i]
  BY <1>2, FrameWhole
<1>5. /\ at < next /\ next <= Len(stream) /\ next - at <= Len(whole)
      /\ next - at = Len(whole) \/ (k = Len(sent) /\ closed)
      /\ \A i \in 1 .. next - at : stream[at + i] = whole[i]
  BY DEF Written
<1>6. k = Len(sent) => next = Len(stream)
  BY <1>1 DEF Start
<1> HIDE DEF whole, hd, bd, next, at, f
<1>7. next <= at + (hd + bd) /\ (next < at + (hd + bd) => closed /\ next = Len(stream))
  BY <1>2, <1>3, <1>4, <1>5, <1>6
<1>8. \A i \in 1 .. hd + bd : at + i <= Len(stream) => i \in 1 .. next - at
  BY <1>1, <1>2, <1>3, <1>7
<1>9. \A i \in 1 .. hd : at + i <= Len(stream) => stream[at + i] = f.head[i]
  <2>1. \A i \in 1 .. hd : i \in 1 .. hd + bd
    BY <1>3
  <2> QED BY <1>4, <1>5, <1>8, <2>1
<1>10. ASSUME at + (hd + bd) <= Len(stream)
       PROVE  SubSeq(stream, at + hd + 1, at + (hd + bd)) = f.body
  <2> DEFINE part == SubSeq(stream, at + hd + 1, at + (hd + bd))
  <2>1. /\ part \in Seq(Bytes) /\ Len(part) = bd
        /\ \A i \in 1 .. bd : part[i] = stream[at + hd + i]
    BY <1>1, <1>2, <1>3, <1>10
  <2>2. \A i \in 1 .. bd : hd + i \in 1 .. hd + bd /\ at + (hd + i) <= Len(stream)
                           /\ at + (hd + i) = at + hd + i
    BY <1>1, <1>2, <1>3, <1>10
  <2>3. \A i \in 1 .. bd : part[i] = f.body[i]
    BY <1>4, <1>5, <1>8, <2>1, <2>2
  <2> HIDE DEF part
  <2>4. part = f.body
    BY <1>3, <2>1, <2>3, SeqEqual DEF bd
  <2> QED BY <2>4 DEF part
<1>11. /\ f \in Frames /\ at \in Nat /\ Start(k) = at /\ next \in Nat /\ at < next
       /\ next <= Len(stream) /\ next <= at + (hd + bd)
       /\ (next < at + (hd + bd) => closed /\ next = Len(stream))
       /\ (\A i \in 1 .. hd : at + i <= Len(stream) => stream[at + i] = f.head[i])
       /\ (at + (hd + bd) <= Len(stream) =>
             SubSeq(stream, at + hd + 1, at + (hd + bd)) = f.body)
  BY <1>2, <1>5, <1>7, <1>9, <1>10
<1> QED BY <1>11 DEF f, at, next, hd, bd

\* A piece read of the k-th frame lies in its head, and ends it only with its blank line.
LEMMA PieceInHead ==
  ASSUME FInv, NEW k \in 1 .. Len(sent) + 1, Between(k) \/ InHead(k),
         NEW e \in pos + 1 .. Len(stream), ChunkEnds(e)
  PROVE  LET head == sent[k].head
             m == bytes + (e - pos)
         IN /\ k <= Len(sent) /\ head \in Seq(Bytes) /\ pos = starts[k] + bytes /\ starts[k] \in Nat
            /\ bytes \in 0 .. Len(head) - 1 /\ m \in bytes + 1 .. Len(head)
            /\ e = starts[k] + m
            /\ \A i \in bytes + 1 .. m - 1 : head[i] # NL
            /\ stream[e] = head[m]
            /\ SubSeq(stream, pos + 1, e) = SubSeq(head, bytes + 1, m)
            /\ content <=> Filled(head, bytes)
            /\ head[m] = NL \/ e - pos = Budget \/ (closed /\ e = Len(stream))
<1> DEFINE h == sent[k].head
           at == starts[k]
           m == bytes + (e - pos)
<1>1. /\ TypeOK /\ Written /\ stream \in Seq(Bytes) /\ Len(stream) \in Nat /\ Len(sent) \in Nat
      /\ pos \in Nat /\ bytes \in Nat /\ e \in Nat /\ pos < e /\ e <= Len(stream)
  BY DEF FInv, IInv, TypeOK, InputType, ReaderType
<1>2. k <= Len(sent)
  <2>1. CASE Between(k)
    <3>1. pos = Start(k) /\ pos # Len(stream)
      BY <1>1, <2>1 DEF Between
    <3> QED BY <1>1, <3>1 DEF Start
  <2> QED BY <2>1 DEF InHead
<1>3. k \in 1 .. Len(sent)
  BY <1>1, <1>2
<1>4. /\ sent[k] \in Frames /\ at \in Nat /\ Start(k) = at
      /\ \A i \in 1 .. Len(h) : at + i <= Len(stream) => stream[at + i] = h[i]
  BY <1>1, <1>3, OnWire
<1>5. /\ h \in Seq(Bytes) /\ Len(h) \in Nat \ {0} /\ h[Len(h)] = NL
  BY <1>4, FrameShape
<1>6. pos = at + bytes /\ bytes \in 0 .. Len(h) - 1 /\ (content <=> Filled(h, bytes))
  <2>1. CASE Between(k)
    <3>1. ~Filled(h, 0)
      BY DEF Filled
    <3> QED BY <1>4, <1>5, <2>1, <3>1 DEF Between, TypeOK, ReaderType
  <2>2. CASE InHead(k)
    BY <1>5, <2>2 DEF InHead
  <2> QED BY <2>1, <2>2
<1> HIDE DEF h, at
<1>7. m \in Nat /\ m > bytes /\ e = at + m
  <2>1. bytes \in Nat /\ at \in Nat /\ pos = at + bytes /\ e \in Nat /\ pos < e
    BY <1>1, <1>4, <1>6
  <2> QED BY <2>1
<1> HIDE DEF m
<1>8. \A i \in pos + 1 .. e - 1 : stream[i] # NL
  BY DEF ChunkEnds
<1>9. m <= Len(h)
  <2> SUFFICES ASSUME m > Len(h) PROVE FALSE
    BY <1>5, <1>7
  <2>1. at + Len(h) \in pos + 1 .. e - 1 /\ at + Len(h) <= Len(stream) /\ Len(h) \in 1 .. Len(h)
    BY <1>1, <1>4, <1>5, <1>6, <1>7
  <2>2. stream[at + Len(h)] = NL
    BY <1>4, <1>5, <2>1 DEF h
  <2> QED BY <1>8, <2>1, <2>2
<1>10. \A i \in 1 .. m : stream[at + i] = h[i]
  <2>1. \A i \in 1 .. m : i \in 1 .. Len(h) /\ at + i <= Len(stream)
    BY <1>1, <1>4, <1>5, <1>7, <1>9
  <2> QED BY <1>4, <2>1 DEF h
<1>11. \A i \in bytes + 1 .. m - 1 : h[i] # NL
  <2>1. \A i \in bytes + 1 .. m - 1 : at + i \in pos + 1 .. e - 1 /\ i \in 1 .. m
    BY <1>1, <1>4, <1>6, <1>7
  <2> QED BY <1>8, <1>10, <2>1
<1>12. m \in 1 .. m /\ m \in bytes + 1 .. Len(h)
  BY <1>1, <1>5, <1>7, <1>9
<1>13. stream[e] = h[m]
  BY <1>7, <1>10, <1>12
<1>14. SubSeq(stream, pos + 1, e) = SubSeq(h, bytes + 1, m)
  <2> DEFINE a == SubSeq(stream, pos + 1, e)
             b == SubSeq(h, bytes + 1, m)
  <2>1. /\ a \in Seq(Bytes) /\ Len(a) = e - pos /\ \A i \in 1 .. e - pos : a[i] = stream[pos + i]
    BY <1>1
  <2>2. /\ b \in Seq(Bytes) /\ Len(b) = m - bytes /\ \A i \in 1 .. m - bytes : b[i] = h[bytes + i]
    <3>1. bytes <= m /\ bytes \in Nat /\ m \in Nat /\ m <= Len(h) /\ h \in Seq(Bytes)
      BY <1>5, <1>6, <1>7, <1>9
    <3> HIDE DEF b
    <3>2. b = SubSeq(h, bytes + 1, m)
      BY DEF b
    <3> QED BY <3>1, <3>2, Piece, Zenon
  <2>3. e - pos = m - bytes /\ \A i \in 1 .. e - pos :
          bytes + i \in 1 .. m /\ at + (bytes + i) = pos + i
    BY <1>1, <1>4, <1>6, <1>7
  <2>4. \A i \in 1 .. e - pos : a[i] = b[i]
    BY <1>10, <2>1, <2>2, <2>3
  <2> HIDE DEF a, b
  <2>5. a = b
    BY <2>1, <2>2, <2>3, <2>4, SeqEqual
  <2> QED BY <2>5 DEF a, b
<1>15. h[m] = NL \/ e - pos = Budget \/ (closed /\ e = Len(stream))
  BY <1>13 DEF ChunkEnds
<1>16. /\ k <= Len(sent) /\ h \in Seq(Bytes) /\ pos = at + bytes /\ at \in Nat
       /\ bytes \in 0 .. Len(h) - 1 /\ m \in bytes + 1 .. Len(h)
       /\ e = at + m
       /\ (\A i \in bytes + 1 .. m - 1 : h[i] # NL)
       /\ stream[e] = h[m]
       /\ SubSeq(stream, pos + 1, e) = SubSeq(h, bytes + 1, m)
       /\ (content <=> Filled(h, bytes))
       /\ (h[m] = NL \/ e - pos = Budget \/ (closed /\ e = Len(stream)))
  BY <1>2, <1>4, <1>5, <1>6, <1>7, <1>11, <1>12, <1>13, <1>14, <1>15
<1> QED BY <1>16 DEF h, at, m

\* What the client wrote stays, and it writes at the end only.
LEMMA StartKept ==
  ASSUME UNCHANGED <<sent, starts, stream>>, NEW k
  PROVE  Start(k)' = Start(k)
BY DEF Start

LEMMA WrittenKept ==
  ASSUME Written, UNCHANGED <<sent, starts, stream>>, closed => closed'
  PROVE  Written'
BY DEF Written, Start

LEMMA WriteWritten ==
  ASSUME TypeOK, Written, NEW g \in Frames, Write(g)
  PROVE  /\ Written'
         /\ \A k \in 1 .. Len(sent) + 1 : k \in 1 .. Len(sent') + 1 /\ Start(k)' = Start(k)
         /\ \A k \in 1 .. Len(sent) : sent'[k] = sent[k] /\ starts'[k] = starts[k]
         /\ \A k \in 1 .. Len(sent) + 1 : SubSeq(sent', 1, k - 1) = SubSeq(sent, 1, k - 1)
<1> DEFINE whole == g.head \o g.body
<1>a. PICK N \in Nat : N = Len(sent)
  BY DEF TypeOK, InputType
<1>b. PICK L \in Nat : L = Len(stream)
  BY DEF TypeOK, InputType
<1>1. /\ sent \in Seq(Frames) /\ starts \in Seq(Nat) /\ Len(starts) = N /\ Len(sent) = N
      /\ stream \in Seq(Bytes) /\ Len(stream) = L /\ N \in Nat /\ L \in Nat
  BY <1>a, <1>b DEF TypeOK, InputType
<1>2. whole \in Seq(Bytes) /\ Len(whole) \in Nat
  <2>1. whole \in Seq(Bytes)
    BY FrameWhole
  <2> HIDE DEF whole
  <2> QED BY <2>1
<1>3. /\ ~closed /\ sent' = Append(sent, g) /\ starts' = Append(starts, L)
  BY <1>1 DEF Write
<1>4. PICK n \in 1 .. Len(whole) :
        stream' = stream \o SubSeq(whole, 1, n) /\ closed' = (n < Len(whole))
  BY DEF Write
<1>w. g.head \o g.body = whole
  OBVIOUS
<1> HIDE DEF whole
<1>5. n \in Nat /\ n > 0 /\ n <= Len(whole)
  BY <1>2
<1> DEFINE part == SubSeq(whole, 1, n)
<1>6. part \in Seq(Bytes) /\ Len(part) = n /\ \A i \in 1 .. n : part[i] = whole[i]
  <2>1. /\ SubSeq(whole, 0 + 1, n) \in Seq(Bytes) /\ Len(SubSeq(whole, 0 + 1, n)) = n - 0
        /\ \A i \in 1 .. n - 0 : SubSeq(whole, 0 + 1, n)[i] = whole[0 + i]
    BY <1>2, <1>5, Piece
  <2> QED BY <2>1, <1>5
<1> HIDE DEF part
<1>7. /\ stream' \in Seq(Bytes) /\ Len(stream') = L + n
      /\ \A i \in 1 .. L : stream'[i] = stream[i]
      /\ \A i \in 1 .. n : stream'[L + i] = whole[i]
  <2> DEFINE p == stream
  <2>1. p \in Seq(Bytes) /\ Len(p) = L
    BY <1>1
  <2> HIDE DEF p
  <2>2. /\ p \o part \in Seq(Bytes) /\ Len(p \o part) = Len(p) + Len(part)
        /\ \A i \in 1 .. Len(p) : (p \o part)[i] = p[i]
        /\ \A i \in 1 .. Len(part) : (p \o part)[Len(p) + i] = part[i]
    <3>1. part \in Seq(Bytes)
      BY <1>6
    <3> QED BY <2>1, <3>1
  <2> QED BY <1>4, <1>6, <2>1, <2>2 DEF part, p
<1>8. /\ Len(sent') = N + 1 /\ sent'[N + 1] = g /\ starts'[N + 1] = L
      /\ \A k \in 1 .. N : sent'[k] = sent[k] /\ starts'[k] = starts[k]
  <2>1. /\ Len(Append(sent, g)) = N + 1 /\ Append(sent, g)[N + 1] = g
        /\ \A k \in 1 .. N : Append(sent, g)[k] = sent[k]
    BY <1>1
  <2>2. /\ Append(starts, L)[N + 1] = L
        /\ \A k \in 1 .. N : Append(starts, L)[k] = starts[k]
    BY <1>1
  <2> QED BY <1>3, <2>1, <2>2, Zenon
<1>9. \A k \in 1 .. N + 1 : k \in 1 .. Len(sent') + 1 /\ Start(k)' = Start(k)
  <2> SUFFICES ASSUME NEW k \in 1 .. N + 1
               PROVE  k \in 1 .. Len(sent') + 1 /\ Start(k)' = Start(k)
    OBVIOUS
  <2>1. CASE k = N + 1
    BY <1>1, <1>8, <2>1 DEF Start
  <2>2. CASE k # N + 1
    BY <1>1, <1>8, <2>2 DEF Start
  <2> QED BY <2>1, <2>2
<1>10. \A k \in Nat : k = N + 2 => Start(k)' = L + n
  BY <1>1, <1>7, <1>8 DEF Start
<1>11. ASSUME NEW k \in 1 .. N + 1
       PROVE  LET all == sent'[k].head \o sent'[k].body
                  there == Start(k + 1)' - starts'[k]
              IN /\ starts'[k] < Start(k + 1)' /\ Start(k + 1)' <= Len(stream')
                 /\ there <= Len(all)
                 /\ there = Len(all) \/ (k = Len(sent') /\ closed')
                 /\ \A i \in 1 .. there : stream'[starts'[k] + i] = all[i]
  <2>1. CASE k = N + 1
    <3>1. /\ sent'[k].head \o sent'[k].body = whole /\ starts'[k] = L
          /\ Start(k + 1)' = L + n /\ L + n - L = n /\ k = Len(sent')
      <4>1. k + 1 \in Nat /\ k + 1 = N + 2 /\ L + n - L = n
        BY <1>1, <1>5, <2>1
      <4>2. Start(k + 1)' = L + n
        BY <1>10, <4>1
      <4> QED BY <1>8, <1>w, <2>1, <4>1, <4>2
    <3>2. n = Len(whole) \/ closed'
      <4>1. n = Len(whole) \/ n < Len(whole)
        BY <1>2, <1>5
      <4> QED BY <1>4, <4>1, Zenon
    <3>3. L < L + n /\ L + n <= Len(stream')
      BY <1>1, <1>5, <1>7
    <3>4. LET there == n IN
            /\ L < L + n /\ L + n <= Len(stream') /\ there <= Len(whole)
            /\ there = Len(whole) \/ (k = Len(sent') /\ closed')
            /\ \A i \in 1 .. there : stream'[L + i] = whole[i]
      BY <1>5, <1>7, <3>1, <3>2, <3>3
    <3>5. L < Start(k + 1)' /\ Start(k + 1)' <= Len(stream') /\ Start(k + 1)' - L = n
      BY <3>1, <3>4
    <3> QED BY <3>1, <3>4, <3>5
  <2>2. CASE k # N + 1
    <3> DEFINE all == sent[k].head \o sent[k].body
               there == Start(k + 1) - starts[k]
    <3>1. k \in 1 .. N /\ k + 1 \in 1 .. N + 1
      BY <1>1, <2>2
    <3>2. /\ sent'[k] = sent[k] /\ starts'[k] = starts[k] /\ Start(k + 1)' = Start(k + 1)
      BY <1>8, <1>9, <3>1
    <3>3. /\ starts[k] < Start(k + 1) /\ Start(k + 1) <= L
          /\ there = Len(all) /\ \A i \in 1 .. there : stream[starts[k] + i] = all[i]
      <4>1. /\ starts[k] < Start(k + 1) /\ Start(k + 1) <= Len(stream)
            /\ there = Len(all) \/ (k = Len(sent) /\ closed)
            /\ \A i \in 1 .. there : stream[starts[k] + i] = all[i]
        BY <1>1, <3>1 DEF Written
      <4> HIDE DEF all, there
      <4> QED BY <1>1, <1>3, <4>1
    <3>4. starts[k] \in Nat /\ Start(k + 1) \in Nat
      BY <1>1, <3>1 DEF Start
    <3>5. \A i \in 1 .. Start(k + 1) - starts[k] : starts[k] + i \in 1 .. L
      <4> DEFINE m == Start(k + 1)
                 a == starts[k]
      <4>1. m \in Nat /\ a \in Nat /\ a < m /\ m <= L
        BY <3>3, <3>4
      <4> HIDE DEF m, a
      <4>2. \A i \in 1 .. m - a : a + i \in 1 .. L
        BY <1>1, <4>1
      <4> QED BY <4>2 DEF m, a
    <3>6. Start(k + 1) <= Len(stream')
      BY <1>1, <1>5, <1>7, <3>3, <3>4
    <3>7. \A i \in 1 .. there : stream'[starts[k] + i] = all[i]
      BY <1>7, <3>3, <3>5
    <3>8. there \in Int
      BY <3>4
    <3> HIDE DEF all, there
    <3>9. there <= Len(all)
      BY <3>3, <3>8
    <3> QED BY <3>2, <3>3, <3>6, <3>7, <3>9 DEF all, there
  <2> QED BY <2>1, <2>2
<1>12. Written'
  BY <1>8, <1>11 DEF Written
<1>13. ASSUME NEW k \in 1 .. N + 1
       PROVE  SubSeq(sent', 1, k - 1) = SubSeq(sent, 1, k - 1)
  <2> DEFINE a == SubSeq(sent', 1, k - 1)
             b == SubSeq(sent, 1, k - 1)
  <2>1. sent' \in Seq(Frames)
    BY <1>1, <1>3
  <2>2. a \in Seq(Frames) /\ Len(a) = k - 1 /\ \A i \in 1 .. k - 1 : a[i] = sent'[i]
    BY <1>1, <1>8, <2>1
  <2>3. b \in Seq(Frames) /\ Len(b) = k - 1 /\ \A i \in 1 .. k - 1 : b[i] = sent[i]
    BY <1>1
  <2>4. \A i \in 1 .. k - 1 : i \in 1 .. N
    BY <1>1
  <2>5. \A i \in 1 .. k - 1 : a[i] = b[i]
    BY <1>8, <2>2, <2>3, <2>4
  <2> HIDE DEF a, b
  <2>6. a = b
    BY <2>2, <2>3, <2>5, SeqEqual
  <2> QED BY <2>6 DEF a, b
<1> QED BY <1>1, <1>8, <1>9, <1>12, <1>13

\* What is kept grows with a piece that fits the cap, and with none after it.
LEMMA KeptGrows ==
  ASSUME NEW h \in Seq(Bytes), NEW n \in Nat, NEW m \in n + 1 .. Len(h), NEW old,
         old = IF n = 0 THEN <<>> ELSE Kept(h, n),
         n = 0 \/ n > MaxHeaderSize \/ h[n] = NL,
         \A i \in n + 1 .. m - 1 : h[i] # NL
  PROVE  (IF m > MaxHeaderSize THEN old ELSE old \o SubSeq(h, n + 1, m)) = Kept(h, m)
<1>1. /\ m \in Nat /\ Len(h) \in Nat /\ n < m /\ m <= Len(h) /\ MaxHeaderSize \in Nat
      /\ 1 \in Int
  BY FramingAssumption
<1>2. ASSUME n <= MaxHeaderSize PROVE old = SubSeq(h, 1, n)
  <2>1. CASE n = 0
    <3>1. SubSeq(h, 1, 0) = <<>>
      OBVIOUS
    <3> QED BY <2>1, <3>1
  <2>2. CASE n # 0
    BY <1>2, <2>2 DEF Kept
  <2> QED BY <2>1, <2>2
<1>3. CASE m <= MaxHeaderSize
  <2>1. old = SubSeq(h, 1, n) /\ ~(m > MaxHeaderSize)
    BY <1>1, <1>2, <1>3
  <2>2. SubSeq(h, 1, n) \o SubSeq(h, n + 1, m) = SubSeq(h, 1, m)
    <3>1. 1 \in 1 .. Len(h) + 1 /\ n \in 1 - 1 .. Len(h) /\ m \in n .. Len(h)
      BY <1>1
    <3> QED BY <3>1, ConcatAdjacentSubSeq
  <2>3. Kept(h, m) = SubSeq(h, 1, m)
    BY <1>3 DEF Kept
  <2> QED BY <2>1, <2>2, <2>3
<1>4. CASE m > MaxHeaderSize /\ n > MaxHeaderSize
  <2>1. n # 0 /\ ~(m <= MaxHeaderSize) /\ ~(n <= MaxHeaderSize)
    BY <1>1, <1>4
  <2>2. Kept(h, n) = Within(h) /\ Kept(h, m) = Within(h)
    BY <2>1 DEF Kept
  <2>3. old = Kept(h, m)
    BY <2>1, <2>2
  <2> QED BY <1>4, <2>3
<1>5. CASE m > MaxHeaderSize /\ n <= MaxHeaderSize
  <2>1. old = SubSeq(h, 1, n) /\ ~(m <= MaxHeaderSize)
    BY <1>1, <1>2, <1>5
  <2>2. \A i \in n + 1 .. Len(h) : h[i] = NL => i > MaxHeaderSize
    BY <1>1, <1>5
  <2>3. n \in 0 .. Len(h) /\ (n = 0 \/ h[n] = NL)
    BY <1>1, <1>5
  <2>4. Within(h) = SubSeq(h, 1, n)
    BY <1>5, <2>2, <2>3, WithinIs
  <2>5. Kept(h, m) = Within(h)
    BY <2>1 DEF Kept
  <2> QED BY <1>5, <2>1, <2>4, <2>5
<1>6. \/ m <= MaxHeaderSize
      \/ m > MaxHeaderSize /\ n > MaxHeaderSize
      \/ m > MaxHeaderSize /\ n <= MaxHeaderSize
  BY <1>1
<1> QED BY <1>3, <1>4, <1>5, <1>6

\* A piece takes the reader on in the head of its frame, or to the end of it.
LEMMA ChunkReading ==
  ASSUME FInv, HeaderChunk, NEW k \in 1 .. Len(sent) + 1, Reading(k)
  PROVE  Reading(k)'
<1>1. PICK e \in pos + 1 .. Len(stream) :
        LET chunk == SubSeq(stream, pos + 1, e) IN
          /\ ChunkEnds(e) /\ ValidUtf8(chunk)
          /\ pos' = e
          /\ bytes' = bytes + Len(chunk)
          /\ header' = IF bytes' > MaxHeaderSize THEN header ELSE header \o chunk
          /\ content' = (stream[e] # NL /\ (content \/ ~IsBlank(chunk)))
          /\ pc' = IF Blank(chunk) THEN "headers" ELSE "line"
  BY DEF HeaderChunk
<1>2. /\ UNCHANGED <<sent, starts, stream, closed, handled>> /\ pc = "line"
  BY DEF HeaderChunk, input, served
<1>3. Between(k) \/ InHead(k)
  BY <1>2 DEF Reading, HeadRead, BodyRead, Over
<1> DEFINE h == sent[k].head
           m == bytes + (e - pos)
           chunk == SubSeq(stream, pos + 1, e)
<1>4. /\ k <= Len(sent) /\ h \in Seq(Bytes) /\ pos = starts[k] + bytes /\ starts[k] \in Nat
      /\ bytes \in 0 .. Len(h) - 1 /\ m \in bytes + 1 .. Len(h)
      /\ e = starts[k] + m
      /\ \A i \in bytes + 1 .. m - 1 : h[i] # NL
      /\ stream[e] = h[m]
      /\ chunk = SubSeq(h, bytes + 1, m)
      /\ content <=> Filled(h, bytes)
  BY <1>1, <1>3, PieceInHead
<1>5. /\ stream \in Seq(Bytes) /\ Len(stream) \in Nat /\ pos \in Nat /\ e \in Nat /\ bytes \in Nat
      /\ pos < e /\ e <= Len(stream) /\ content \in BOOLEAN /\ Len(sent) \in Nat
  BY <1>1 DEF FInv, IInv, TypeOK, InputType, ReaderType
<1>6. sent[k] \in Frames
  BY <1>4, <1>5 DEF FInv, IInv, TypeOK, InputType
<1>7. chunk \in Seq(Bytes) /\ Len(chunk) = e - pos /\ chunk[e - pos] = stream[e]
  BY <1>5
<1>8. bytes' = m
  BY <1>1, <1>7
<1>9. /\ Filled(h, m) <=> h[m] # NL /\ (Filled(h, bytes) \/ ~IsBlank(chunk))
      /\ BlankLine(h, m) <=> Last(chunk) = NL /\ IsBlank(chunk) /\ ~Filled(h, bytes)
  <2> DEFINE n == bytes
  <2>1. n \in Nat /\ h \in Seq(Bytes) /\ m \in n + 1 .. Len(h) /\ \A i \in n + 1 .. m - 1 : h[i] # NL
    BY <1>4, <1>5
  <2> HIDE DEF n, m, h
  <2>2. LET piece == SubSeq(h, n + 1, m) IN
        /\ Filled(h, m) <=> h[m] # NL /\ (Filled(h, n) \/ ~IsBlank(piece))
        /\ BlankLine(h, m) <=> Last(piece) = NL /\ IsBlank(piece) /\ ~Filled(h, n)
    BY <2>1, PieceOf
  <2> QED BY <1>4, <2>2 DEF n
<1>10. header = IF bytes = 0 THEN <<>> ELSE Kept(h, bytes)
  BY <1>3, <1>5 DEF Between, InHead
<1>11. header' = Kept(h, m)
  <2>1. bytes = 0 \/ bytes > MaxHeaderSize \/ h[bytes] = NL
    <3> SUFFICES ASSUME bytes # 0, bytes <= MaxHeaderSize PROVE h[bytes] = NL
      BY <1>5, FramingAssumption
    <3>1. header = SubSeq(h, 1, bytes) /\ Len(h) \in Nat /\ bytes <= Len(h)
      <4> HIDE DEF h, m
      <4>1. Len(h) \in Nat
        BY <1>4
      <4>2. bytes <= Len(h)
        BY <1>4, <1>5, <4>1
      <4> QED BY <1>10, <4>1, <4>2 DEF Kept
    <3>2. header # <<>> /\ Last(header) = h[bytes]
      <4>1. Len(SubSeq(h, 1, bytes)) = bytes /\ SubSeq(h, 1, bytes)[bytes] = h[bytes]
        BY <1>4, <1>5, <3>1
      <4> QED BY <1>5, <3>1, <4>1 DEF Last
    <3>3. pos # Len(stream)
      BY <1>5
    <3> QED BY <3>2, <3>3 DEF FInv, IInv, WholeLines
  <2> DEFINE n == bytes
             old == header
  <2>2. /\ n \in Nat /\ h \in Seq(Bytes) /\ m \in n + 1 .. Len(h)
        /\ old = (IF n = 0 THEN <<>> ELSE Kept(h, n))
        /\ n = 0 \/ n > MaxHeaderSize \/ h[n] = NL
        /\ \A i \in n + 1 .. m - 1 : h[i] # NL
    BY <1>4, <1>5, <1>10, <2>1
  <2> HIDE DEF n, m, h, old
  <2>3. (IF m > MaxHeaderSize THEN old ELSE old \o SubSeq(h, n + 1, m)) = Kept(h, m)
    BY <2>2, KeptGrows
  <2> QED BY <1>1, <1>4, <1>8, <2>3 DEF n, old
<1>12. content' <=> Filled(h, m)
  BY <1>1, <1>4, <1>9
<1>13. h[m] # Lead
  <2>1. e - pos \in 1 .. Len(chunk) /\ ~(e - pos < Len(chunk))
    BY <1>5, <1>7
  <2>2. \A i \in 1 .. Len(chunk) : chunk[i] = Lead => i < Len(chunk)
    BY <1>1 DEF ValidUtf8
  <2> QED BY <1>4, <1>7, <2>1, <2>2
<1>14. BlankLine(h, m) <=> m = Len(h)
  <2>1. /\ \A i \in 1 .. Len(sent[k].head) : BlankLine(sent[k].head, i) <=> i = Len(sent[k].head)
        /\ Len(sent[k].head) \in Nat
    BY <1>6, FrameShape
  <2>2. m \in 1 .. Len(h)
    <3>1. Len(h) \in Nat
      BY <2>1
    <3> HIDE DEF h, m
    <3> QED BY <1>4, <1>5, <3>1
  <2> QED BY <2>1, <2>2
<1>15. Blank(chunk) <=> m = Len(h)
  BY <1>4, <1>9, <1>14 DEF Blank
<1> HIDE DEF chunk
<1>16. /\ k <= Len(sent') /\ sent'[k].head = h /\ starts'[k] = starts[k] /\ handled' = handled
       /\ SubSeq(sent', 1, k - 1) = SubSeq(sent, 1, k - 1)
       /\ pos' = starts[k] + m
  BY <1>1, <1>2, <1>4
<1>17. m \in 1 .. Len(h) /\ (m # Len(h) => m \in 1 .. Len(h) - 1) /\ Len(h) \in Nat
  <2> HIDE DEF m, h
  <2>1. Len(h) \in Nat
    BY <1>4
  <2> QED BY <1>4, <1>5, <2>1
<1> HIDE DEF m, h
<1>18. CASE m = Len(h)
  <2>1. pc' = "headers"
    BY <1>1, <1>15, <1>18 DEF chunk
  <2>2. HeadRead(k)'
    BY <1>8, <1>11, <1>16, <1>17, <1>18, <2>1 DEF HeadRead
  <2> QED BY <1>16, <2>2 DEF Reading
<1>19. CASE m # Len(h)
  <2>1. pc' = "line"
    BY <1>1, <1>15, <1>19 DEF chunk
  <2>2. InHead(k)'
    BY <1>8, <1>11, <1>12, <1>13, <1>16, <1>17, <1>19, <2>1 DEF InHead
  <2> QED BY <1>16, <2>2 DEF Reading
<1> QED BY <1>18, <1>19

\* Where a length is honoured it is that of the body, or it says that nothing follows
\* in a block cut by the end of the stream: either way the next frame starts behind it.
LEMMA LengthTrue ==
  ASSUME FInv, NEW k \in 1 .. Len(sent), HeadRead(k), ContentLength(header) # Malformed,
         pos + ContentLength(header) <= Len(stream)
  PROVE  LET n == ContentLength(header) IN
         /\ n \in Nat /\ pos + n = Start(k + 1)
         /\ n = 0 => ~Deliverable(sent[k])
         /\ TooLarge => ~Deliverable(sent[k])
         /\ n # 0 => /\ n = Len(sent[k].body)
                     /\ SubSeq(stream, pos + 1, pos + n) = sent[k].body
                     /\ ~TooLarge => Len(sent[k].head) <= MaxHeaderSize
<1> DEFINE f == sent[k]
           h == f.head
           b == f.body
           n == ContentLength(header)
           at == starts[k]
           next == Start(k + 1)
<1>1. TypeOK /\ Written /\ Len(stream) \in Nat /\ header \in Seq(Bytes)
  BY DEF FInv, IInv, TypeOK, InputType, ReaderType
<1>2. n \in Nat
  BY <1>1, ContentLengthType
<1>3. /\ f \in Frames /\ at \in Nat /\ next \in Nat /\ at < next /\ next <= Len(stream)
      /\ next <= at + (Len(h) + Len(b))
      /\ next < at + (Len(h) + Len(b)) => closed /\ next = Len(stream)
      /\ at + (Len(h) + Len(b)) <= Len(stream) =>
           SubSeq(stream, at + Len(h) + 1, at + (Len(h) + Len(b))) = b
  BY <1>1, OnWire
<1>4. h \in Seq(Bytes) /\ b \in Seq(Bytes) /\ Len(h) \in Nat \ {0} /\ Len(b) \in Nat
  BY <1>3, FrameShape
<1>5. /\ bytes \in 1 .. Len(h) /\ pos = at + bytes /\ header = Kept(h, bytes)
      /\ bytes = Len(h) \/ (closed /\ pos = Len(stream))
      /\ n # Malformed /\ pos + n <= Len(stream)
  BY DEF HeadRead
<1>6. TooLarge => ~Deliverable(f)
  <2>1. MaxHeaderSize \in Nat
    BY FramingAssumption
  <2>2. bytes > MaxHeaderSize => ~(Len(h) <= MaxHeaderSize)
    <3> HIDE DEF h
    <3> QED BY <1>4, <1>5, <2>1
  <2> QED BY <2>2 DEF TooLarge, Deliverable
<1>7. CASE bytes = Len(h)
  <2>1. n = Len(b)
    <3>1. header = Within(h)
      BY <1>3, <1>5, <1>7, WithinAll
    <3>2. n \in {Malformed, Len(b)}
      BY <1>3, <3>1, FramesAssumption
    <3> QED BY <1>5, <3>2
  <2>2. ~TooLarge => Len(h) <= MaxHeaderSize
    <3>1. MaxHeaderSize \in Nat
      BY FramingAssumption
    <3> HIDE DEF h
    <3> QED BY <1>4, <1>7, <3>1 DEF TooLarge
  <2>3. n = 0 => ~Deliverable(f)
    <3>1. ~(0 \in 1 .. MaxMessageSize)
      OBVIOUS
    <3> QED BY <2>1, <3>1 DEF Deliverable
  <2> DEFINE hd == Len(h)
             bd == Len(b)
  <2>4. /\ hd \in Nat /\ bd \in Nat /\ at \in Nat /\ next \in Nat /\ n = bd /\ pos = at + hd
        /\ pos + n <= Len(stream) /\ next <= Len(stream) /\ next <= at + (hd + bd)
        /\ next < at + (hd + bd) => closed /\ next = Len(stream)
        /\ at + (hd + bd) <= Len(stream) => SubSeq(stream, at + hd + 1, at + (hd + bd)) = b
    BY <1>3, <1>4, <1>5, <1>7, <2>1
  <2> HIDE DEF hd, bd, at, next, n, b, f, h
  <2>5. pos + n = at + (hd + bd) /\ pos + n = next /\ pos + 1 = at + hd + 1
    BY <1>1, <2>4
  <2>6. SubSeq(stream, pos + 1, pos + n) = b
    <3>1. at + (hd + bd) <= Len(stream)
      BY <2>4, <2>5
    <3>2. SubSeq(stream, at + hd + 1, at + (hd + bd)) = b
      BY <2>4, <3>1
    <3> QED BY <2>5, <3>2
  <2>7. /\ n \in Nat /\ pos + n = next
        /\ (n = 0 => ~Deliverable(f))
        /\ (TooLarge => ~Deliverable(f))
        /\ (n # 0 => /\ n = Len(b) /\ SubSeq(stream, pos + 1, pos + n) = b
                     /\ (~TooLarge => Len(h) <= MaxHeaderSize))
    BY <1>2, <1>6, <2>1, <2>2, <2>3, <2>5, <2>6
  <2> QED BY <2>7 DEF n, next, f, b, h
<1>8. CASE bytes # Len(h)
  <2>1. pos = Len(stream) /\ n = 0
    <3> HIDE DEF n
    <3> QED BY <1>1, <1>2, <1>5, <1>8
  <2>2. pos + n = next
    <3> DEFINE hd == Len(h)
               bd == Len(b)
    <3>1. /\ hd \in Nat /\ bd \in Nat /\ at \in Nat /\ next \in Nat /\ next <= Len(stream)
          /\ next < at + (hd + bd) => next = Len(stream)
          /\ next <= at + (hd + bd)
          /\ bytes \in 1 .. hd /\ bytes # hd /\ Len(stream) = at + bytes /\ pos = Len(stream)
      BY <1>3, <1>4, <1>5, <1>8, <2>1
    <3> HIDE DEF hd, bd, at, next, n
    <3>2. next = Len(stream)
      BY <1>1, <3>1
    <3> QED BY <1>1, <2>1, <3>1, <3>2
  <2>3. ~TooLarge => ~Deliverable(f)
    <3> SUFFICES ASSUME ~TooLarge PROVE b = <<>>
      <4>1. ~(Len(<<>>) \in 1 .. MaxMessageSize)
        OBVIOUS
      <4> QED BY <4>1 DEF Deliverable
    <3>1. header = SubSeq(h, 1, bytes)
      <4>1. bytes \in Nat /\ MaxHeaderSize \in Nat
        BY FramingAssumption DEF FInv, IInv, TypeOK, ReaderType
      <4>2. bytes <= MaxHeaderSize
        BY <4>1 DEF TooLarge
      <4> QED BY <1>5, <4>2 DEF Kept
    <3>2. ContentLength(SubSeq(h, 1, bytes)) = 0
      BY <2>1, <3>1
    <3> QED BY <1>3, <1>5, <3>2, FramesAssumption
  <2>4. /\ n \in Nat /\ pos + n = next
        /\ (n = 0 => ~Deliverable(f))
        /\ (TooLarge => ~Deliverable(f))
        /\ n = 0
    BY <1>2, <1>6, <2>1, <2>2, <2>3
  <2> QED BY <2>4
<1> QED BY <1>7, <1>8

\* From the end of a frame, done with what is due to it, the next one is read.
LEMMA NextReading ==
  ASSUME FInv, NEW k \in 1 .. Len(sent), handled = Bodies(SubSeq(sent, 1, k - 1)),
         UNCHANGED input, NextFrame, pos' = Start(k + 1),
         handled' = IF Deliverable(sent[k]) THEN Append(handled, sent[k].body) ELSE handled
  PROVE  Reading(k + 1)' /\ k + 1 \in 1 .. Len(sent') + 1
<1>1. TypeOK /\ Len(sent) \in Nat
  BY DEF FInv, IInv, TypeOK, InputType
<1>2. handled' = Bodies(SubSeq(sent, 1, k))
  BY <1>1, BodiesNext
<1>3. UNCHANGED <<sent, starts, stream>>
  BY DEF input
<1>4. k + 1 - 1 = k /\ k + 1 \in 1 .. Len(sent) + 1
  BY <1>1
<1>5. PICK j : j = k + 1
  OBVIOUS
<1>6. pos' = Start(j)'
  BY <1>3, <1>5 DEF Start
<1>7. Between(j)'
  BY <1>6 DEF Between, NextFrame
<1>8. handled' = Bodies(SubSeq(sent', 1, j - 1))
  <2>1. j - 1 = k
    BY <1>1, <1>5
  <2>2. SubSeq(sent', 1, j - 1) = SubSeq(sent, 1, k)
    BY <1>3, <2>1
  <2> QED BY <1>2, <2>2
<1>9. Reading(j)'
  BY <1>7, <1>8 DEF Reading
<1> QED BY <1>3, <1>4, <1>5, <1>9

LEMMA SkipReading ==
  ASSUME FInv, NEW k \in 1 .. Len(sent) + 1, Reading(k), Skip
  PROVE  \E j \in 1 .. Len(sent') + 1 : Reading(j)'
<1>1. pc = "headers" /\ NextFrame /\ UNCHANGED <<input, served>>
  BY DEF Skip
<1>2. HeadRead(k) /\ handled = Bodies(SubSeq(sent, 1, k - 1))
  BY <1>1 DEF Reading, Between, InHead, BodyRead, Over
<1>3. k \in 1 .. Len(sent)
  BY <1>2 DEF HeadRead, FInv, IInv, TypeOK, InputType
<1> DEFINE n == ContentLength(header)
<1>4. n # Malformed /\ Skipped(n) /\ pos + n <= Len(stream) /\ pos' = pos + n
  BY DEF Skip
<1>5. /\ n \in Nat /\ pos + n = Start(k + 1)
      /\ n = 0 => ~Deliverable(sent[k])
      /\ TooLarge => ~Deliverable(sent[k])
      /\ n # 0 => n = Len(sent[k].body)
  BY <1>2, <1>3, <1>4, LengthTrue
<1> HIDE DEF n
<1>6. ~Deliverable(sent[k])
  <2> SUFFICES ASSUME ~TooLarge, n # 0 PROVE ~Deliverable(sent[k])
    BY <1>5
  <2>1. n > MaxMessageSize /\ n = Len(sent[k].body) /\ MaxMessageSize \in Nat
    BY <1>4, <1>5, FramingAssumption DEF Skipped
  <2>2. ~(n \in 1 .. MaxMessageSize)
    BY <1>5, <2>1
  <2> QED BY <2>1, <2>2 DEF Deliverable
<1>7. handled' = handled
  BY <1>1 DEF served
<1>8. Reading(k + 1)' /\ k + 1 \in 1 .. Len(sent') + 1
  BY <1>1, <1>2, <1>3, <1>4, <1>5, <1>6, <1>7, NextReading
<1> QED BY <1>8

LEMMA BodyReading ==
  ASSUME FInv, NEW k \in 1 .. Len(sent) + 1, Reading(k), Body
  PROVE  Reading(k)'
<1>1. pc = "headers" /\ UNCHANGED <<sent, starts, stream, handled>> /\ pc' = "message"
  BY DEF Body, input, served
<1>2. HeadRead(k) /\ handled = Bodies(SubSeq(sent, 1, k - 1))
  BY <1>1 DEF Reading, Between, InHead, BodyRead, Over
<1>3. k \in 1 .. Len(sent) /\ k <= Len(sent)
  BY <1>2 DEF HeadRead, FInv, IInv, TypeOK, InputType
<1> DEFINE n == ContentLength(header)
<1>4. /\ n # Malformed /\ ~Skipped(n) /\ pos + n <= Len(stream) /\ pos' = pos + n
      /\ message' = SubSeq(stream, pos + 1, pos + n)
  BY DEF Body
<1>5. /\ n \in Nat /\ pos + n = Start(k + 1)
      /\ n # 0 => /\ n = Len(sent[k].body)
                  /\ SubSeq(stream, pos + 1, pos + n) = sent[k].body
                  /\ ~TooLarge => Len(sent[k].head) <= MaxHeaderSize
  BY <1>2, <1>3, <1>4, LengthTrue
<1> HIDE DEF n
<1>6. n # 0 /\ ~TooLarge /\ n \in 1 .. MaxMessageSize
  BY <1>4, <1>5, FramingAssumption DEF Skipped
<1>7. Deliverable(sent[k]) /\ message' = sent[k].body
  BY <1>4, <1>5, <1>6 DEF Deliverable
<1>8. pos' = Start(k + 1)'
  BY <1>1, <1>4, <1>5 DEF Start
<1>9. BodyRead(k)'
  BY <1>1, <1>3, <1>7, <1>8 DEF BodyRead
<1> QED BY <1>1, <1>2, <1>9 DEF Reading

\* A handler is done with the frame, and reads the next one or ends.
LEMMA HandleReading ==
  ASSUME FInv, NEW k \in 1 .. Len(sent) + 1, Reading(k),
         Request \/ NotJson \/ Notification \/ Shutdown \/ Exit
  PROVE  \E j \in 1 .. Len(sent') + 1 : Reading(j)'
<1>1. /\ pc = "message" /\ handled' = Append(handled, message) /\ UNCHANGED <<input, pos>>
      /\ NextFrame \/ \E why \in Causes \ {"eof"} : End(why)
  BY DEF Request, NotJson, Notification, Shutdown, Exit, Handling, Answer, Causes
<1>2. BodyRead(k) /\ handled = Bodies(SubSeq(sent, 1, k - 1))
  BY <1>1 DEF Reading, Between, InHead, HeadRead, Over
<1>3. k \in 1 .. Len(sent) /\ Len(sent) \in Nat /\ TypeOK
  BY <1>2 DEF BodyRead, FInv, IInv, TypeOK, InputType
<1>4. handled' = IF Deliverable(sent[k]) THEN Append(handled, sent[k].body) ELSE handled
  BY <1>1, <1>2 DEF BodyRead
<1>5. CASE NextFrame
  <2>1. pos' = Start(k + 1)
    BY <1>1, <1>2 DEF BodyRead
  <2>2. Reading(k + 1)' /\ k + 1 \in 1 .. Len(sent') + 1
    BY <1>1, <1>2, <1>3, <1>4, <1>5, <2>1, NextReading
  <2> QED BY <2>2
<1>6. CASE \E why \in Causes \ {"eof"} : End(why)
  <2>1. handled' = Bodies(SubSeq(sent, 1, k))
    BY <1>2, <1>3, <1>4, BodiesNext
  <2>2. k + 1 - 1 = k /\ k + 1 \in 1 .. Len(sent) + 1 /\ sent' = sent
    BY <1>1, <1>3 DEF input
  <2>3. Over(k + 1)'
    BY <1>6 DEF Over, End
  <2>4. Reading(k + 1)'
    BY <2>1, <2>2, <2>3 DEF Reading
  <2> QED BY <2>2, <2>4
<1> QED BY <1>1, <1>5, <1>6

\* What stops reading stops at the frame it is at.
LEMMA StopReading ==
  ASSUME FInv, NEW k \in 1 .. Len(sent) + 1, Reading(k),
         EndOfStream \/ HeaderNotText \/ NoLength \/ BodyCut
  PROVE  Reading(k)'
<1>1. UNCHANGED <<sent, starts, stream, closed, handled>>
  BY DEF EndOfStream, HeaderNotText, NoLength, BodyCut, input, served
<1>2. handled' = Bodies(SubSeq(sent', 1, k - 1))
  BY <1>1 DEF Reading
<1>3. CASE HeaderNotText \/ NoLength \/ BodyCut
  <2>1. Over(k)'
    BY <1>3 DEF HeaderNotText, NoLength, BodyCut, End, Over
  <2> QED BY <1>1, <1>2, <2>1 DEF Reading
<1>4. CASE EndOfStream
  <2>1. Between(k) \/ InHead(k)
    BY <1>4 DEF EndOfStream, Reading, HeadRead, BodyRead, Over
  <2>2. CASE Between(k)
    <3>1. End("eof") /\ pos' = pos /\ pos = Start(k)
      BY <1>4, <2>2 DEF EndOfStream, Between
    <3>2. Over(k)'
      BY <1>1, <3>1 DEF Over, End, Start
    <3> QED BY <1>1, <1>2, <3>2 DEF Reading
  <2>3. CASE InHead(k)
    <3>1. /\ pc' = "headers" /\ UNCHANGED <<reading, pos>> /\ closed /\ pos = Len(stream)
      BY <1>4, <2>3 DEF EndOfStream, InHead
    <3> DEFINE hd == Len(sent[k].head)
    <3>2. bytes \in 1 .. hd
      <4>1. hd \in Nat
        BY <2>3, FrameShape DEF InHead, FInv, IInv, TypeOK, InputType
      <4>2. bytes \in 1 .. hd - 1
        BY <2>3 DEF InHead
      <4> HIDE DEF hd
      <4> QED BY <4>1, <4>2
    <3>3. HeadRead(k)
            \/ (/\ k <= Len(sent) /\ bytes \in 1 .. hd /\ pos = starts[k] + bytes
                /\ header = Kept(sent[k].head, bytes))
      BY <2>3, <3>2 DEF InHead
    <3>4. HeadRead(k)'
      BY <1>1, <2>3, <3>1, <3>2 DEF InHead, HeadRead, reading
    <3> QED BY <1>1, <1>2, <3>4 DEF Reading
  <2> QED BY <2>1, <2>2, <2>3
<1> QED BY <1>3, <1>4

\* What the client does leaves the reader where it is.
LEMMA CloseReading ==
  ASSUME FInv, NEW k \in 1 .. Len(sent) + 1, Reading(k), Close
  PROVE  Reading(k)'
<1>1. /\ UNCHANGED <<sent, starts, stream, pos, pc, header, bytes, content, message, outcome,
                     handled>>
      /\ closed'
  BY DEF Close, reading, served
<1>2. UNCHANGED <<sent, starts, stream>>
  BY <1>1
<1>3. /\ Between(k) => Between(k)'
      /\ InHead(k) => InHead(k)'
      /\ BodyRead(k) => BodyRead(k)'
      /\ Over(k) => Over(k)'
  BY <1>1 DEF Between, InHead, BodyRead, Over, Start
<1>4. HeadRead(k) => HeadRead(k)'
  BY <1>1 DEF HeadRead
<1> QED BY <1>1, <1>3, <1>4 DEF Reading

LEMMA WriteReading ==
  ASSUME FInv, NEW g \in Frames, Write(g), NEW k \in 1 .. Len(sent) + 1, Reading(k)
  PROVE  k \in 1 .. Len(sent') + 1 /\ Reading(k)'
<1>1. /\ ~closed /\ pc # "ended"
      /\ UNCHANGED <<pos, pc, header, bytes, content, message, outcome, handled>>
  BY DEF Write, reading, served
<1>2. /\ \A j \in 1 .. Len(sent) + 1 : j \in 1 .. Len(sent') + 1 /\ Start(j)' = Start(j)
      /\ \A j \in 1 .. Len(sent) : sent'[j] = sent[j] /\ starts'[j] = starts[j]
      /\ \A j \in 1 .. Len(sent) + 1 : SubSeq(sent', 1, j - 1) = SubSeq(sent, 1, j - 1)
  BY WriteWritten DEF FInv, IInv
<1>3. k \in 1 .. Len(sent') + 1 /\ Start(k)' = Start(k)
      /\ SubSeq(sent', 1, k - 1) = SubSeq(sent, 1, k - 1)
  BY <1>2
<1>4. /\ Len(sent) \in Nat /\ Len(sent') = Len(sent) + 1
  BY DEF FInv, IInv, TypeOK, InputType, Write
<1>5. ASSUME k <= Len(sent)
      PROVE  /\ k <= Len(sent') /\ sent'[k] = sent[k] /\ starts'[k] = starts[k]
             /\ Start(k + 1)' = Start(k + 1)
  <2>1. k \in 1 .. Len(sent) /\ k + 1 \in 1 .. Len(sent) + 1 /\ k <= Len(sent')
    BY <1>4, <1>5
  <2> QED BY <1>2, <2>1
<1>6. handled' = Bodies(SubSeq(sent', 1, k - 1))
  BY <1>1, <1>3 DEF Reading
<1>7. CASE Between(k)
  <2>1. Between(k)'
    BY <1>1, <1>3, <1>7 DEF Between
  <2> QED BY <1>3, <1>6, <2>1 DEF Reading
<1>8. CASE InHead(k)
  <2>1. k <= Len(sent)
    BY <1>8 DEF InHead
  <2>2. InHead(k)'
    BY <1>1, <1>5, <1>8, <2>1 DEF InHead
  <2> QED BY <1>3, <1>6, <2>2 DEF Reading
<1>9. CASE HeadRead(k)
  <2>1. k <= Len(sent) /\ bytes = Len(sent[k].head)
    BY <1>1, <1>9 DEF HeadRead
  <2>2. HeadRead(k)'
    BY <1>1, <1>5, <1>9, <2>1 DEF HeadRead
  <2> QED BY <1>3, <1>6, <2>2 DEF Reading
<1>10. CASE BodyRead(k)
  <2>1. k <= Len(sent)
    BY <1>10 DEF BodyRead
  <2>2. BodyRead(k)'
    BY <1>1, <1>5, <1>10, <2>1 DEF BodyRead
  <2> QED BY <1>3, <1>6, <2>2 DEF Reading
<1> QED BY <1>1, <1>7, <1>8, <1>9, <1>10 DEF Reading, Over

LEMMA InitReading == Init => Written /\ \E k \in 1 .. Len(sent) + 1 : Reading(k)
<1> SUFFICES ASSUME Init PROVE Written /\ Reading(1) /\ 1 \in 1 .. Len(sent) + 1
  OBVIOUS
<1>1. sent = <<>> /\ Len(sent) = 0 /\ stream = <<>> /\ Len(stream) = 0
  BY DEF Init
<1>2. Written
  BY <1>1 DEF Written
<1>3. Between(1)
  BY <1>1 DEF Init, Between, Start
<1>4. Bodies(SubSeq(sent, 1, 0)) = <<>>
  <2>1. SubSeq(sent, 1, 0) = <<>>
    BY <1>1
  <2>2. {i \in DOMAIN <<>> : Deliverable(<<>>[i])} = {}
    OBVIOUS
  <2>3. Chosen(<<>>, {}) \in Seq(Frames) /\ Len(Chosen(<<>>, {})) = 0
    <3>1. <<>> \in Seq(Frames) /\ {} \in SUBSET DOMAIN <<>>
      OBVIOUS
    <3>2. Chosen(<<>>, {}) \in Seq(Frames) /\ Len(Chosen(<<>>, {})) = Cardinality({})
      BY <3>1, ChosenKeeps
    <3> QED BY <3>2, FS_EmptySet
  <2> DEFINE none == Chosen(<<>>, {})
  <2>4. Bodies(<<>>) = [i \in DOMAIN none |-> none[i].body]
    BY <2>2 DEF Bodies
  <2>5. none = <<>> /\ DOMAIN none = {}
    BY <2>3
  <2> HIDE DEF none
  <2>6. [i \in DOMAIN none |-> none[i].body] = <<>>
    BY <2>5
  <2> QED BY <2>1, <2>4, <2>6
<1>5. handled = Bodies(SubSeq(sent, 1, 1 - 1))
  BY <1>4 DEF Init
<1> QED BY <1>1, <1>2, <1>3, <1>5 DEF Reading

LEMMA NextReadingAll ==
  ASSUME FInv, [Next]_vars
  PROVE  Written' /\ \E k \in 1 .. Len(sent') + 1 : Reading(k)'
<1>1. PICK k \in 1 .. Len(sent) + 1 : Reading(k)
  BY DEF FInv
<1>2. TypeOK /\ Written
  BY DEF FInv, IInv
<1>3. ASSUME Reading(k)', sent' = sent
      PROVE  \E j \in 1 .. Len(sent') + 1 : Reading(j)'
  BY <1>3
<1>4. ASSUME NEW g \in Frames, Write(g)
      PROVE  Written' /\ \E j \in 1 .. Len(sent') + 1 : Reading(j)'
  BY <1>1, <1>2, <1>4, WriteWritten, WriteReading
<1>5. CASE Close
  <2>1. UNCHANGED <<sent, starts, stream>> /\ closed'
    BY <1>5 DEF Close
  <2> QED BY <1>1, <1>2, <1>3, <1>5, <2>1, CloseReading, WrittenKept
<1>6. CASE Server
  <2>1. UNCHANGED <<sent, starts, stream, closed>>
    BY <1>6 DEF Server, EndOfStream, HeaderNotText, HeaderChunk, NoLength, Skip, Body, BodyCut,
         Request, NotJson, Notification, Shutdown, Exit, Handling, input
  <2>2. Written'
    BY <1>2, <2>1, WrittenKept
  <2>3. CASE EndOfStream \/ HeaderNotText \/ NoLength \/ BodyCut
    BY <1>1, <1>3, <2>1, <2>2, <2>3, StopReading
  <2>4. CASE HeaderChunk
    BY <1>1, <1>3, <2>1, <2>2, <2>4, ChunkReading
  <2>5. CASE Body
    BY <1>1, <1>3, <2>1, <2>2, <2>5, BodyReading
  <2>6. CASE Skip
    BY <1>1, <2>2, <2>6, SkipReading
  <2>7. CASE Request \/ NotJson \/ Notification \/ Shutdown \/ Exit
    BY <1>1, <2>2, <2>7, HandleReading
  <2> QED BY <1>6, <2>3, <2>4, <2>5, <2>6, <2>7 DEF Server
<1>7. CASE UNCHANGED vars
  <2>1. UNCHANGED <<sent, starts, stream, closed, pos, pc, header, bytes, content, message,
                    handled, outcome>>
    BY <1>7 DEF vars
  <2>2. Written'
    BY <1>2, <2>1, WrittenKept
  <2>3. /\ Between(k) => Between(k)'
        /\ InHead(k) => InHead(k)'
        /\ HeadRead(k) => HeadRead(k)'
        /\ BodyRead(k) => BodyRead(k)'
        /\ Over(k) => Over(k)'
    BY <2>1 DEF Between, InHead, HeadRead, BodyRead, Over, Start
  <2>4. Reading(k)'
    BY <1>1, <2>1, <2>3 DEF Reading
  <2> QED BY <1>3, <2>1, <2>2, <2>4
<1> QED BY <1>4, <1>5, <1>6, <1>7 DEF Next

LEMMA FInvAlways == Spec => []FInv
<1>1. Init => FInv
  BY InitTypeOK, InitLines, InitServed, InitReading DEF FInv, IInv
<1>2. FInv /\ [Next]_vars => FInv'
  BY NextTypeOK, NextLines, NextServed, NextReadingAll DEF FInv, IInv
<1> QED BY <1>1, <1>2, PTL DEF Spec

\* Whatever frames a client writes, whatever their sizes against the caps and wherever
\* the stream is cut: between frames the reader stands where the client started one,
\* and what was handled by then is the bodies of the frames before it that fit, all of
\* them, once and in order.  What makes this inductive is Reading: inside a frame the
\* reader has taken the first bytes of its head, knows whether the line they end in
\* holds text, and keeps the whole lines among them that fit.
THEOREM AlwaysInStep == Spec => []InStep
<1>1. FInv => InStep
  <2> SUFFICES ASSUME FInv, AtBoundary
               PROVE  \E k \in 0 .. Len(sent) :
                        /\ pos = IF k = Len(sent) THEN Len(stream) ELSE starts[k + 1]
                        /\ handled = Bodies(SubSeq(sent, 1, k))
    BY DEF InStep
  <2>1. PICK j \in 1 .. Len(sent) + 1 : Reading(j)
    BY DEF FInv
  <2>2. Len(sent) \in Nat
    BY DEF FInv, IInv, TypeOK, InputType
  <2>3. pos = Start(j)
    <3>1. CASE pc = "line" /\ bytes = 0
      BY <2>1, <3>1 DEF Reading, Between, InHead, HeadRead, BodyRead, Over
    <3>2. CASE outcome = "eof"
      <4>1. outcome # Running
        BY <3>2, FramingAssumption DEF Causes
      <4>2. pc = "ended"
        BY <4>1 DEF FInv, Served
      <4> QED BY <2>1, <3>2, <4>2 DEF Reading, Between, InHead, HeadRead, BodyRead, Over
    <3> QED BY <3>1, <3>2 DEF AtBoundary
  <2>4. PICK k \in 0 .. Len(sent) : k = j - 1 /\ j = k + 1
    BY <2>1, <2>2
  <2>5. handled = Bodies(SubSeq(sent, 1, k))
    BY <2>1, <2>4 DEF Reading
  <2>6. pos = IF k = Len(sent) THEN Len(stream) ELSE starts[k + 1]
    BY <2>2, <2>3, <2>4 DEF Start
  <2> QED BY <2>5, <2>6
<1> QED BY <1>1, FInvAlways, PTL

-----------------------------------------------------------------------------
(* Why the process ends *)

\* A chunk that is no text is so by itself only at the cut of a wide character.
LEMMA ChunkNotText ==
  ASSUME FInv, NEW k \in 1 .. Len(sent) + 1, Between(k) \/ InHead(k),
         NEW e \in pos + 1 .. Len(stream), ChunkEnds(e),
         ~ValidUtf8(SubSeq(stream, pos + 1, e))
  PROVE  \/ closed /\ e = Len(stream)
         \/ ~ValidUtf8(stream)
         \/ /\ k \in 1 .. Len(sent) /\ starts[k] < e /\ e <= starts[k] + Len(sent[k].head)
            /\ Len(sent[k].head) > MaxHeaderSize
            /\ \E i \in 1 .. Len(sent[k].head) : sent[k].head[i] = Lead
<1> DEFINE h == sent[k].head
           at == starts[k]
           m == bytes + (e - pos)
           chunk == SubSeq(stream, pos + 1, e)
<1>1. /\ k <= Len(sent) /\ h \in Seq(Bytes) /\ pos = at + bytes /\ at \in Nat
      /\ bytes \in 0 .. Len(h) - 1 /\ m \in bytes + 1 .. Len(h)
      /\ e = at + m /\ stream[e] = h[m]
      /\ chunk = SubSeq(h, bytes + 1, m)
      /\ h[m] = NL \/ e - pos = Budget \/ (closed /\ e = Len(stream))
  BY PieceInHead
<1>2. /\ stream \in Seq(Bytes) /\ Len(stream) \in Nat /\ pos \in Nat /\ e \in Nat /\ bytes \in Nat
      /\ pos < e /\ e <= Len(stream) /\ Len(sent) \in Nat /\ TypeOK
  BY DEF FInv, IInv, TypeOK, InputType, ReaderType
<1>3. k \in 1 .. Len(sent) /\ sent[k] \in Frames
  BY <1>1, <1>2 DEF TypeOK, InputType
<1>4. Len(h) \in Nat \ {0} /\ h[1] # Trail
  BY <1>3, FrameShape
<1>a. /\ m \in 1 .. Len(h) /\ at < e /\ e <= at + Len(h) /\ at + bytes <= Len(stream)
      /\ bytes # 0 => bytes \in 1 .. Len(h)
  <2> DEFINE hd == Len(h)
             place == at
             to == m
  <2>1. /\ hd \in Nat /\ place \in Nat /\ pos = place + bytes /\ e = place + to
        /\ bytes \in 0 .. hd - 1 /\ to \in bytes + 1 .. hd
    BY <1>1, <1>4
  <2> HIDE DEF hd, place, to
  <2>2. /\ to \in 1 .. hd /\ place < e /\ e <= place + hd /\ place + bytes <= Len(stream)
        /\ bytes # 0 => bytes \in 1 .. hd
    BY <1>2, <2>1
  <2> QED BY <2>2 DEF hd, place, to
<1>5. /\ Len(chunk) = e - pos
      /\ \A i \in 1 .. e - pos : chunk[i] = stream[pos + i]
  BY <1>2
<1>6. bytes # 0 => h[bytes] # Lead /\ stream[pos] = h[bytes]
  <2> SUFFICES ASSUME bytes # 0 PROVE h[bytes] # Lead /\ stream[pos] = h[bytes]
    OBVIOUS
  <2>1. InHead(k)
    BY DEF Between
  <2>2. \A i \in 1 .. Len(h) : at + i <= Len(stream) => stream[at + i] = h[i]
    BY <1>2, <1>3, OnWire DEF FInv
  <2>3. bytes \in 1 .. Len(h) /\ at + bytes <= Len(stream)
    BY <1>a
  <2> QED BY <1>1, <2>1, <2>2, <2>3 DEF InHead
<1>7. PICK i \in 1 .. e - pos :
        \/ chunk[i] = Lead /\ ~(i < e - pos /\ chunk[i + 1] = Trail)
        \/ chunk[i] = Trail /\ ~(i > 1 /\ chunk[i - 1] = Lead)
  BY <1>5 DEF ValidUtf8
<1> DEFINE p == pos + i
<1>8. p \in 1 .. Len(stream) /\ chunk[i] = stream[p]
  BY <1>2, <1>5, <1>7
<1> HIDE DEF chunk
<1>9. CASE chunk[i] = Lead /\ ~(i < e - pos /\ chunk[i + 1] = Trail)
  <2>1. CASE i < e - pos
    <3>1. chunk[i + 1] = stream[p + 1]
      BY <1>2, <1>5, <2>1
    <3>2. ~(p < Len(stream) /\ stream[p + 1] = Trail)
      BY <1>9, <2>1, <3>1
    <3> QED BY <1>8, <1>9, <3>2 DEF ValidUtf8
  <2>2. CASE ~(i < e - pos)
    <3>1. i = e - pos /\ p = e
      BY <1>2, <1>7, <2>2
    <3>2. h[m] = Lead /\ Lead # NL
      BY <1>1, <1>8, <1>9, <3>1, FramingAssumption
    <3>3. CASE e - pos = Budget
      <4>1. m \in 1 .. Len(h) /\ at < e /\ e <= at + Len(h)
        BY <1>a
      <4>2. Len(h) > MaxHeaderSize
        <5>1. MaxHeaderSize \in Nat
          BY FramingAssumption
        <5>2. m > MaxHeaderSize
          BY <1>2, <3>3, <5>1 DEF Budget, TooLarge
        <5>3. m <= Len(h) /\ m \in Nat /\ Len(h) \in Nat
          BY <1>4, <4>1
        <5> HIDE DEF h, m
        <5> QED BY <5>1, <5>2, <5>3
      <4> QED BY <1>3, <3>2, <4>1, <4>2
    <3> QED BY <1>1, <3>2, <3>3
  <2> QED BY <2>1, <2>2
<1>10. CASE chunk[i] = Trail /\ ~(i > 1 /\ chunk[i - 1] = Lead)
  <2>1. CASE i > 1
    <3>1. chunk[i - 1] = stream[p - 1]
      <4>1. i - 1 \in 1 .. e - pos /\ pos + (i - 1) = p - 1
        BY <1>2, <1>7, <2>1
      <4> QED BY <1>5, <4>1
    <3>2. ~(p > 1 /\ stream[p - 1] = Lead)
      BY <1>10, <2>1, <3>1
    <3> QED BY <1>8, <1>10, <3>2 DEF ValidUtf8
  <2>2. CASE ~(i > 1)
    <3>1. i = 1 /\ p = pos + 1 /\ p - 1 = pos
      BY <1>2, <1>7, <2>2
    <3>2. CASE bytes = 0
      <4>1. stream[p] = h[1]
        <5>1. chunk[1] = h[1]
          <6>1. 0 + 1 <= m /\ m <= Len(h) /\ m \in Nat
            <7> HIDE DEF h, m
            <7> QED BY <1>1, <1>2, <1>4, <3>2
          <6>2. SubSeq(h, 0 + 1, m)[1] = h[1]
            <7> HIDE DEF h, m
            <7> QED BY <1>1, <6>1
          <6> QED BY <1>1, <3>2, <6>2
        <5> QED BY <1>8, <3>1, <5>1
      <4> QED BY <1>4, <1>8, <1>10, <4>1
    <3>3. CASE bytes # 0
      <4>1. stream[p - 1] # Lead
        BY <1>6, <3>1, <3>3
      <4> QED BY <1>8, <1>10, <4>1 DEF ValidUtf8
    <3> QED BY <3>2, <3>3
  <2> QED BY <2>1, <2>2
<1> QED BY <1>7, <1>9, <1>10

\* The two ways of giving the stream up
ProtocolCause ==
  outcome = "protocol" =>
    \E k \in 1 .. Len(sent) :
      /\ starts[k] < pos /\ pos <= starts[k] + Len(sent[k].head)
      /\ \/ closed /\ pos = Len(stream)
         \/ ContentLength(Within(sent[k].head)) = Malformed
ReadCause ==
  outcome = "io" =>
    \/ closed /\ pos = Len(stream)
    \/ ~ValidUtf8(stream)
    \/ \E k \in 1 .. Len(sent) :
         /\ starts[k] < pos /\ pos <= starts[k] + Len(sent[k].head)
         /\ Len(sent[k].head) > MaxHeaderSize
         /\ \E i \in 1 .. Len(sent[k].head) : sent[k].head[i] = Lead

LEMMA NextCause ==
  ASSUME FInv, ProtocolCause, ReadCause, [Next]_vars
  PROVE  ProtocolCause' /\ ReadCause'
<1>1. outcome \notin {"protocol", "io"} \/ pc = "ended"
  BY FramingAssumption DEF FInv, Served, Causes
<1>2. CASE outcome' \notin {"protocol", "io"}
  BY <1>2 DEF ProtocolCause, ReadCause
<1>3. CASE UNCHANGED vars
  <2>1. UNCHANGED <<sent, starts, stream, closed, pos, outcome>>
    BY <1>3 DEF vars
  <2> QED BY <2>1 DEF ProtocolCause, ReadCause
<1>4. CASE (Close \/ \E g \in Frames : Write(g)) /\ outcome' \in {"protocol", "io"}
  BY <1>1, <1>4 DEF Close, Write, reading
<1>5. PICK k \in 1 .. Len(sent) + 1 : Reading(k)
  BY DEF FInv
<1>6. Len(sent) \in Nat /\ Len(stream) \in Nat /\ TypeOK
  BY DEF FInv, IInv, TypeOK, InputType
<1>7. CASE HeaderNotText
  <2>1. /\ pc = "line" /\ outcome' = "io" /\ UNCHANGED <<sent, starts, stream, closed>>
    BY <1>7 DEF HeaderNotText, End, input
  <2>2. Between(k) \/ InHead(k)
    BY <1>5, <2>1 DEF Reading, HeadRead, BodyRead, Over
  <2>3. PICK e \in pos + 1 .. Len(stream) :
          ChunkEnds(e) /\ ~ValidUtf8(SubSeq(stream, pos + 1, e)) /\ pos' = e
    BY <1>7 DEF HeaderNotText
  <2>4. \/ closed /\ e = Len(stream)
        \/ ~ValidUtf8(stream)
        \/ /\ k \in 1 .. Len(sent) /\ starts[k] < e /\ e <= starts[k] + Len(sent[k].head)
           /\ Len(sent[k].head) > MaxHeaderSize
           /\ \E i \in 1 .. Len(sent[k].head) : sent[k].head[i] = Lead
    BY <2>2, <2>3, ChunkNotText
  <2> QED BY <2>1, <2>3, <2>4 DEF ProtocolCause, ReadCause
<1>8. CASE NoLength
  <2>1. /\ pc = "headers" /\ outcome' = "protocol" /\ ContentLength(header) = Malformed
        /\ UNCHANGED <<sent, starts, stream, closed, pos>>
    BY <1>8 DEF NoLength, End, input
  <2>2. HeadRead(k)
    BY <1>5, <2>1 DEF Reading, Between, InHead, BodyRead, Over
  <2>3. k \in 1 .. Len(sent)
    BY <1>6, <2>2 DEF HeadRead
  <2>4. sent[k] \in Frames /\ starts[k] \in Nat
    BY <1>6, <2>3 DEF TypeOK, InputType
  <2> DEFINE hd == Len(sent[k].head)
             at == starts[k]
  <2>5. hd \in Nat /\ bytes \in 1 .. hd /\ pos = at + bytes
    BY <2>2, <2>4, FrameShape DEF HeadRead
  <2>6. at < pos /\ pos <= at + hd
    <3> HIDE DEF at, hd
    <3>1. at \in Nat
      BY <2>4 DEF at
    <3> QED BY <2>5, <3>1
  <2>7. (closed /\ pos = Len(stream)) \/ ContentLength(Within(sent[k].head)) = Malformed
    BY <2>1, <2>2, <2>4, WithinAll DEF HeadRead
  <2> QED BY <2>1, <2>3, <2>6, <2>7 DEF ProtocolCause, ReadCause
<1>9. CASE BodyCut
  <2>1. closed' /\ pos' = Len(stream') /\ outcome' = "io"
    BY <1>9 DEF BodyCut, End, input
  <2> QED BY <2>1 DEF ProtocolCause, ReadCause
<1>10. CASE Server /\ ~HeaderNotText /\ ~NoLength /\ ~BodyCut
  <2>1. pc # "ended"
    BY <1>10 DEF Server, EndOfStream, HeaderChunk, Skip, Body, Request, NotJson, Notification,
         Shutdown, Exit, Handling
  <2>2. outcome' = outcome \/ outcome' \in {"eof", "write", "exit 0", "exit 1"}
    BY <1>10 DEF Server, EndOfStream, HeaderChunk, Skip, Body, Request, NotJson, Notification,
         Shutdown, Exit, Answer, NextFrame, End, reading
  <2> QED BY <1>1, <1>2, <2>1, <2>2
<1> QED BY <1>2, <1>3, <1>4, <1>7, <1>8, <1>9, <1>10 DEF Next

\* Whatever frames a client writes and wherever the stream is cut, the process gives
\* the stream up as broken only in a block of headers that is cut or gives no unique
\* length within the cap, a read fails only for the reasons there are, and the exit
\* status tells of a shutdown.
THEOREM EndsOnlyForCause == Spec => []EndsForCause
<1>1. Init => ProtocolCause /\ ReadCause
  BY FramingAssumption DEF Init, ProtocolCause, ReadCause, Causes
<1>2. FInv /\ ProtocolCause /\ ReadCause /\ [Next]_vars => (ProtocolCause /\ ReadCause)'
  BY NextCause
<1>3. FInv /\ ProtocolCause /\ ReadCause => EndsForCause
  BY DEF FInv, Served, ProtocolCause, ReadCause, EndsForCause
<1> QED BY <1>1, <1>2, <1>3, FInvAlways, PTL DEF Spec
=============================================================================
