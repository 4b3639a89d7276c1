------------------------- MODULE ModbusFramesProofs -------------------------
(***************************************************************************)
(* Proofs about ModbusFrames for every number of transactions, every       *)
(* lateness of an answer below it and every number of requests: the types, *)
(* that a request ends by its own answer, and that a kept connection is    *)
(* left at the start of a frame.                                           *)
(***************************************************************************)
EXTENDS ModbusFrames, SequenceTheorems, TLAPS

-----------------------------------------------------------------------------
(* Frames and the bytes on the line. *)

LEMMA SizeFacts ==
  ASSUME mode \in {"tcp", "rtu"}, NEW o \in Op, NEW kind \in Kind
  PROVE  /\ Size(o, kind) \in 5..12
         /\ mode = "tcp" => Size(o, kind) \in 9..12
         /\ mode = "rtu" => Size(o, kind) = IF kind \in {"illegal", "exception"} THEN 5
                                            ELSE IF o = "read" THEN 7 ELSE 8
BY DEF Size, Op, Kind

LEMMA ModeFacts ==
  ASSUME TypeOK
  PROVE  mode \in {"tcp", "rtu"} /\ LateBy \in Int /\ TxSpace \in Nat \ {0}
                                 /\ LateBy < TxSpace /\ 1 <= LateBy /\ MaxRequests \in Nat
<1>1. mode \in {"tcp", "rtu"}
  BY ModeAssumption DEF ModeAssumption, TypeOK
<1>2. TxSpace \in Nat /\ LateBy \in 1..(TxSpace - 1) /\ MaxRequests \in Nat
  BY NumbersAssumption DEF NumbersAssumption
<1>3. QED BY <1>1, <1>2

\* The bytes on their way to the reader, arrived or not.
Line == stream \o coming

LEMMA LineType ==
  ASSUME TypeOK
  PROVE  /\ Line \in Seq(ByteType)
         /\ Len(stream) \in Nat /\ Len(coming) \in Nat
         /\ Len(Line) = Len(stream) + Len(coming)
         /\ \A j \in 1..Len(Line) :
              Line[j] = IF j <= Len(stream) THEN stream[j] ELSE coming[j - Len(stream)]
<1>1. stream \in Seq(ByteType) /\ coming \in Seq(ByteType)
  BY DEF TypeOK
<1>2. QED BY <1>1, ConcatProperties, LenProperties DEF Line

\* What is known of each byte.
LEMMA LineBytes ==
  ASSUME TypeOK
  PROVE  /\ Len(Line) \in Nat
         /\ \A j \in 1..Len(Line) : Line[j].of \in 1..sent /\ Line[j].op \in Op
                                    /\ Line[j].kind \in Kind /\ Line[j].pos \in Nat
<1>1. Len(Line) \in Nat
  BY LineType
<1>2. \A j \in 1..Len(Line) : Line[j] \in ByteType
  BY LineType, ElementOfSeq
<1>3. \A b \in ByteType : b.of \in 1..sent /\ b.op \in Op /\ b.kind \in Kind /\ b.pos \in Nat
  BY DEF ByteType
<1>4. QED BY <1>1, <1>2, <1>3

\* The first byte that arrived is the first on the line.
LEMMA FirstFacts ==
  ASSUME TypeOK, Len(stream) > 0
  PROVE  /\ First = Line[1] /\ Len(Line) > 0 /\ Len(stream) <= Len(Line)
         /\ First.of \in 1..sent /\ First.op \in Op /\ First.kind \in Kind /\ First.pos \in Nat
<1>1. Len(stream) \in Nat /\ Len(coming) \in Nat /\ Len(Line) = Len(stream) + Len(coming)
  BY LineType
<1>2. 1 \in 1..Len(Line)
  BY <1>1
<1>3. First = Line[1]
  BY <1>1, <1>2, LineType DEF First
<1>4. QED BY <1>1, <1>2, <1>3, LineBytes

\* The reader takes n bytes from the front.
LEMMA TakeLine ==
  ASSUME TypeOK, NEW n \in Nat, Take(n), coming' = coming
  PROVE  /\ stream' \in Seq(ByteType)
         /\ n <= Len(stream) /\ n <= Len(Line)
         /\ Len(Line') = Len(Line) - n
         /\ \A j \in 1..Len(Line') : Line'[j] = Line[n + j]
<1>1. /\ stream \in Seq(ByteType) /\ coming \in Seq(ByteType)
      /\ Len(stream) \in Nat /\ Len(coming) \in Nat
      /\ Len(Line) = Len(stream) + Len(coming)
  BY LineType DEF TypeOK
<1>2. Len(stream) >= n /\ stream' = SubSeq(stream, n + 1, Len(stream))
  BY DEF Take
<1>3. \A i \in (n + 1)..Len(stream) : stream[i] \in ByteType
  BY <1>1, ElementOfSeq
<1>4. /\ stream' \in Seq(ByteType)
      /\ Len(stream') = (IF n + 1 <= Len(stream) THEN Len(stream) - (n + 1) + 1 ELSE 0)
      /\ \A i \in 1..(Len(stream) - (n + 1) + 1) : stream'[i] = stream[(n + 1) + i - 1]
  BY <1>1, <1>2, <1>3, SubSeqProperties
<1>5. Len(stream') = Len(stream) - n /\ \A i \in 1..Len(stream') : stream'[i] = stream[n + i]
  BY <1>1, <1>2, <1>4
<1>6. /\ Len(Line') = Len(stream') + Len(coming)
      /\ \A j \in 1..(Len(stream') + Len(coming)) :
           Line'[j] = IF j <= Len(stream') THEN stream'[j] ELSE coming[j - Len(stream')]
  BY <1>1, <1>4, ConcatProperties DEF Line
<1>7. ASSUME NEW j \in 1..Len(Line') PROVE Line'[j] = Line[n + j]
  <2>1. n + j \in 1..Len(Line)
    BY <1>1, <1>2, <1>5, <1>6
  <2>2. Line[n + j] = IF n + j <= Len(stream) THEN stream[n + j] ELSE coming[n + j - Len(stream)]
    BY <2>1, LineType
  <2>3. CASE j <= Len(stream')
    BY <1>1, <1>5, <1>6, <2>2, <2>3
  <2>4. CASE ~(j <= Len(stream'))
    <3>1. j - Len(stream') = n + j - Len(stream)
      BY <1>1, <1>5
    <3>2. Line'[j] = coming[j - Len(stream')]
      BY <1>6, <2>4
    <3>3. ~(n + j <= Len(stream))
      BY <1>1, <1>5, <2>4
    <3>4. QED BY <2>2, <3>1, <3>2, <3>3
  <2>5. QED BY <2>3, <2>4
<1>8. QED BY <1>1, <1>2, <1>4, <1>5, <1>6, <1>7

LEMMA FrameType ==
  ASSUME TypeOK, NEW r \in owed, NEW kind \in Kind
  PROVE  /\ Frame(r, kind) \in Seq(ByteType)
         /\ Len(Frame(r, kind)) = Size(r.op, kind)
         /\ \A j \in 1..Size(r.op, kind) :
              Frame(r, kind)[j] = [of |-> r.no, op |-> r.op, kind |-> kind, pos |-> j,
                                   last |-> j = Size(r.op, kind)]
<1> DEFINE s == Size(r.op, kind)
<1>1. r.no \in 1..sent /\ r.op \in Op
  BY DEF TypeOK
<1>2. s \in Nat
  BY <1>1, ModeFacts, SizeFacts
<1>3. \A j \in 1..s : [of |-> r.no, op |-> r.op, kind |-> kind, pos |-> j, last |-> j = s] \in ByteType
  BY <1>1, <1>2 DEF ByteType
<1>4. Frame(r, kind)
        = [j \in 1..s |-> [of |-> r.no, op |-> r.op, kind |-> kind, pos |-> j, last |-> j = s]]
  BY DEF Frame
<1> HIDE DEF s
<1>5. Frame(r, kind) \in Seq(ByteType) /\ Len(Frame(r, kind)) = s
  BY <1>2, <1>3, <1>4
<1>6. QED BY <1>4, <1>5 DEF s

\* An answer is put behind what is on the line.
LEMMA AnswerLine ==
  ASSUME TypeOK, NEW r \in owed, NEW kind \in Kind, NEW n \in {2, Size(r.op, kind)},
         Answer(r, kind, n)
  PROVE  /\ stream' \in Seq(ByteType) /\ coming' \in Seq(ByteType)
         /\ Len(Line') = Len(Line) + Size(r.op, kind)
         /\ \A j \in 1..Len(Line) : Line'[j] = Line[j]
         /\ \A j \in 1..Size(r.op, kind) :
              /\ Line'[Len(Line) + j].of = r.no /\ Line'[Len(Line) + j].op = r.op
              /\ Line'[Len(Line) + j].kind = kind /\ Line'[Len(Line) + j].pos = j
<1> DEFINE f == Frame(r, kind)
<1>1. /\ stream' = stream \o SubSeq(f, 1, n)
      /\ coming = <<>> /\ coming' = SubSeq(f, n + 1, Len(f))
  BY DEF Answer
<1>2. f \in Seq(ByteType) /\ Len(f) = Size(r.op, kind) /\ stream \in Seq(ByteType)
  BY FrameType DEF TypeOK
<1>3. Size(r.op, kind) \in 5..12 /\ n \in 1..Len(f)
  <2>1. r.op \in Op
    BY DEF TypeOK
  <2>2. QED BY <1>2, <2>1, ModeFacts, SizeFacts
<1>4. \A j \in 1..Size(r.op, kind) : f[j].of = r.no /\ f[j].op = r.op /\ f[j].kind = kind /\ f[j].pos = j
  <2>1. TAKE j \in 1..Size(r.op, kind)
  <2>2. f[j] = [of |-> r.no, op |-> r.op, kind |-> kind, pos |-> j, last |-> j = Size(r.op, kind)]
    BY FrameType
  <2> HIDE DEF f
  <2>3. QED BY <2>2
<1> HIDE DEF f
<1>5. SubSeq(f, 1, n) \in Seq(ByteType) /\ SubSeq(f, n + 1, Len(f)) \in Seq(ByteType)
  <2>1. \A i \in 1..Len(f) : f[i] \in ByteType
    BY <1>2, ElementOfSeq
  <2>2. QED BY <1>2, <1>3, <2>1, SubSeqProperties
<1>6. stream' \in Seq(ByteType) /\ coming' \in Seq(ByteType)
  BY <1>1, <1>2, <1>5, ConcatProperties
<1>7. Line = stream
  BY <1>1, <1>2, ConcatEmptySeq DEF Line
<1>8. Line' = stream \o f
  <2>1. (stream \o SubSeq(f, 1, n)) \o SubSeq(f, n + 1, Len(f))
          = stream \o (SubSeq(f, 1, n) \o SubSeq(f, n + 1, Len(f)))
    <3>1. \A a, b, c \in Seq(ByteType) : (a \o b) \o c = a \o (b \o c)
      BY ConcatAssociative
    <3>2. QED BY <1>2, <1>5, <3>1
  <2>2. SubSeq(f, 1, n) \o SubSeq(f, n + 1, Len(f)) = SubSeq(f, 1, Len(f))
    BY <1>2, <1>3, ConcatAdjacentSubSeq
  <2>3. SubSeq(f, 1, Len(f)) = f
    BY <1>2, SubSeqFull
  <2>4. QED BY <1>1, <2>1, <2>2, <2>3 DEF Line
<1>9. /\ Len(Line') = Len(Line) + Len(f)
      /\ \A i \in 1..(Len(Line) + Len(f)) :
           Line'[i] = IF i <= Len(Line) THEN Line[i] ELSE f[i - Len(Line)]
      /\ Len(Line) \in Nat
  BY <1>2, <1>7, <1>8, ConcatProperties, LenProperties
<1>10. \A j \in 1..Len(f) : Line'[Len(Line) + j] = f[j]
  BY <1>2, <1>3, <1>9
<1>11. QED BY <1>2, <1>3, <1>4, <1>6, <1>9, <1>10

LEMMA ArriveLine ==
  ASSUME TypeOK, Arrive
  PROVE  stream' \in Seq(ByteType) /\ Line' = Line
<1>1. stream \in Seq(ByteType) /\ coming \in Seq(ByteType)
  BY DEF TypeOK
<1>2. stream' = stream \o coming /\ coming' = <<>>
  BY DEF Arrive
<1>3. stream' \in Seq(ByteType)
  BY <1>1, <1>2, ConcatProperties
<1>4. QED BY <1>2, <1>3, ConcatEmptySeq DEF Line

LEMMA CloseLine ==
  ASSUME Close
  PROVE  Len(Line') = 0
BY DEF Close, Line

-----------------------------------------------------------------------------
(* Type correctness. *)

\* The end of a read leaves the counters, the line and what is owed; the three forms of it.
LEMMA FailType ==
  ASSUME TypeOK, Fail
  PROVE  TypeOK'
<1>1. /\ stream' = <<>> /\ coming' = <<>> /\ open' = FALSE /\ phase' = "idle" /\ outcome' = Failed
      /\ UNCHANGED <<mode, sent, op, owed, clean>>
  BY DEF Fail, Close
<1>2. stream' \in Seq(ByteType') /\ coming' \in Seq(ByteType')
  BY <1>1
<1>3. outcome' \in [result : {"none", "ok", "illegal", "error"}, of : Nat, kind : Kind]
  BY <1>1 DEF Failed, Kind
<1>4. QED BY <1>1, <1>2, <1>3 DEF TypeOK, ByteType, Phase

LEMMA EndType ==
  ASSUME TypeOK, NEW n \in Nat, Take(n), Len(stream) > 0,
         NEW result \in {"ok", "illegal"}, End(result, First)
  PROVE  TypeOK'
<1>1. /\ outcome' = [result |-> result, of |-> First.of, kind |-> First.kind] /\ phase' = "idle"
      /\ UNCHANGED <<mode, open, sent, op, coming, owed, clean>>
  BY DEF End
<1>2. outcome' \in [result : {"none", "ok", "illegal", "error"}, of : Nat, kind : Kind]
  <2>1. First.of \in Nat /\ First.kind \in Kind
    BY FirstFacts DEF TypeOK
  <2>2. QED BY <1>1, <2>1
<1>3. stream' \in Seq(ByteType)
  BY <1>1, TakeLine
<1>4. ByteType' = ByteType
  BY <1>1 DEF ByteType
<1>5. QED BY <1>1, <1>2, <1>3, <1>4 DEF TypeOK, Phase

LEMMA GotoType ==
  ASSUME TypeOK, NEW n \in Nat, Take(n), NEW p \in Phase, Goto(p)
  PROVE  TypeOK'
<1>1. phase' = p /\ UNCHANGED <<mode, open, sent, op, coming, owed, clean, outcome>>
  BY DEF Goto
<1>2. stream' \in Seq(ByteType)
  BY <1>1, TakeLine
<1>3. ByteType' = ByteType
  BY <1>1 DEF ByteType
<1>4. QED BY <1>1, <1>2, <1>3 DEF TypeOK

LEMMA BodySizeType ==
  ASSUME TypeOK, mode = "tcp", Len(stream) > 0
  PROVE  BodySize \in 2..5 /\ BodySize = Size(First.op, First.kind) - 7
<1>1. First.op \in Op /\ First.kind \in Kind
  BY FirstFacts
<1>2. Size(First.op, First.kind) \in 9..12
  BY <1>1, SizeFacts
<1>3. QED BY <1>2 DEF BodySize

LEMMA Nonempty ==
  ASSUME TypeOK, stream # <<>>
  PROVE  Len(stream) > 0
BY EmptySeq DEF TypeOK

LEMMA ReadType ==
  ASSUME TypeOK, Read
  PROVE  TypeOK'
<1>1. CASE HeaderTCP BY <1>1, FailType, GotoType DEF HeaderTCP, Phase
<1>2. CASE BodyTCP
  <2>1. mode = "tcp" /\ Len(stream) > 0
    BY <1>2, Nonempty DEF BodyTCP
  <2>2. BodySize \in Nat
    BY <2>1, BodySizeType
  <2>3. QED BY <1>2, <2>1, <2>2, FailType, GotoType, EndType DEF BodyTCP, Phase
<1>3. CASE HeaderRTU BY <1>3, FailType, GotoType DEF HeaderRTU, Phase
<1>4. CASE BodyRTU BY <1>4, FailType, EndType, Nonempty DEF BodyRTU
<1>5. CASE ExceptionRTU
  <2>1. Take(3) => Len(stream) > 0
    BY LineType DEF Take
  <2>2. QED BY <1>5, <2>1, FailType, EndType DEF ExceptionRTU
<1>6. CASE WriteRTU
  <2>1. Take(8) => Len(stream) > 0
    BY LineType DEF Take
  <2>2. QED BY <1>6, <2>1, FailType, EndType DEF WriteRTU
<1>7. QED BY <1>1, <1>2, <1>3, <1>4, <1>5, <1>6 DEF Read

LEMMA RequestType ==
  ASSUME TypeOK, NEW o \in Op, Request(o)
  PROVE  TypeOK'
<1>1. /\ sent < MaxRequests /\ sent' = sent + 1 /\ op' = o /\ UNCHANGED mode
      /\ clean' \in BOOLEAN
  BY DEF Request
<1>2. sent \in Nat /\ sent' \in 0..MaxRequests /\ 1..sent \subseteq 1..sent'
  BY <1>1, ModeFacts DEF TypeOK
<1>3. ByteType \subseteq ByteType'
  BY <1>2 DEF ByteType
<1>4. stream' \in Seq(ByteType') /\ coming' \in Seq(ByteType')
  <2>1. stream \in Seq(ByteType') /\ coming \in Seq(ByteType')
    BY <1>3, SeqMonotonic DEF TypeOK
  <2>2. (stream' = stream /\ coming' = coming) \/ (stream' = <<>> /\ coming' = <<>>)
    BY DEF Request, Close
  <2>3. <<>> \in Seq(ByteType')
    BY EmptySeq
  <2>4. QED BY <2>1, <2>2, <2>3
<1>5. owed' \subseteq [no : 1..sent', op : Op]
  <2>1. owed \subseteq [no : 1..sent', op : Op]
    BY <1>2 DEF TypeOK
  <2>2. [no |-> sent + 1, op |-> o] \in [no : 1..sent', op : Op]
    BY <1>1, <1>2
  <2>3. owed' = owed \/ owed' = owed \cup {[no |-> sent + 1, op |-> o]}
    BY DEF Request
  <2>4. QED BY <2>1, <2>2, <2>3
<1>6. open' \in BOOLEAN /\ phase' \in Phase
  BY DEF Request, Close, Phase, TypeOK
<1>7. outcome' \in [result : {"none", "ok", "illegal", "error"}, of : Nat, kind : Kind]
  <2>1. outcome' = Pending \/ outcome' = Failed
    BY DEF Request
  <2>2. QED BY <2>1 DEF Pending, Failed, Kind
<1>8. QED BY <1>1, <1>2, <1>4, <1>5, <1>6, <1>7 DEF TypeOK

LEMMA TypeStep == TypeOK /\ [Next]_vars => TypeOK'
<1>1. SUFFICES ASSUME TypeOK, [Next]_vars PROVE TypeOK'
  OBVIOUS
<1>2. CASE Dial
  BY <1>1, <1>2 DEF Dial, TypeOK, reader, ByteType
<1>3. CASE \E o \in Op : Request(o)
  BY <1>1, <1>3, RequestType
<1>4. ASSUME NEW r \in owed, NEW kind \in Kind, NEW n \in {2, Size(r.op, kind)}, Answer(r, kind, n)
      PROVE  TypeOK'
  <2>1. stream' \in Seq(ByteType) /\ coming' \in Seq(ByteType)
    BY <1>1, <1>4, AnswerLine
  <2>2. /\ UNCHANGED <<mode, open, sent, op, phase, outcome>> /\ owed' = owed \ {r}
        /\ clean' \in BOOLEAN
    BY <1>4 DEF Answer, reader
  <2>3. ByteType' = ByteType
    BY <2>2 DEF ByteType
  <2>4. QED BY <1>1, <2>1, <2>2, <2>3 DEF TypeOK
<1>5. CASE Arrive
  <2>1. stream' \in Seq(ByteType) /\ coming' \in Seq(ByteType)
    BY <1>1, <1>5, ArriveLine DEF Arrive
  <2>2. UNCHANGED <<mode, open, sent, op, phase, outcome, owed, clean>>
    BY <1>5 DEF Arrive, reader
  <2>3. ByteType' = ByteType
    BY <2>2 DEF ByteType
  <2>4. QED BY <1>1, <2>1, <2>2, <2>3 DEF TypeOK
<1>6. CASE Read
  BY <1>1, <1>6, ReadType
<1>7. CASE Timeout
  BY <1>1, <1>7, FailType DEF Timeout
<1>8. CASE UNCHANGED vars
  BY <1>1, <1>8 DEF TypeOK, vars, reader, line, ByteType
<1>9. QED BY <1>1, <1>2, <1>3, <1>4, <1>5, <1>6, <1>7, <1>8 DEF Next

LEMMA TypeInit == Init => TypeOK
<1>1. SUFFICES ASSUME Init PROVE TypeOK
  OBVIOUS
<1>2. stream \in Seq(ByteType) /\ coming \in Seq(ByteType) /\ sent \in 0..MaxRequests
  BY <1>1, NumbersAssumption DEF Init, NumbersAssumption
<1>3. outcome \in [result : {"none", "ok", "illegal", "error"}, of : Nat, kind : Kind]
  BY <1>1 DEF Init, Pending, Kind
<1>4. QED BY <1>1, <1>2, <1>3 DEF Init, TypeOK, Op, Phase

\* Every variable keeps its type: each byte on the line and each request still owed is of a request that was sent.
THEOREM TypeCorrect == Spec => []TypeOK
BY TypeInit, TypeStep, PTL DEF Spec
-----------------------------------------------------------------------------
(* The invariant. *)

\* Whole frames one after another, of the first of which a part may have been read.
Chain(q) ==
  /\ \A j \in 1..Len(q) : q[j].pos \in 1..Size(q[j].op, q[j].kind)
  /\ \A j, k \in 1..Len(q) :
       q[j].pos + (k - j) \in 1..Size(q[j].op, q[j].kind) =>
         /\ q[k].pos = q[j].pos + (k - j)
         /\ q[k].of = q[j].of /\ q[k].op = q[j].op /\ q[k].kind = q[j].kind
  /\ \A j \in 1..(Len(q) - 1) : q[j].pos = Size(q[j].op, q[j].kind) => q[j + 1].pos = 1
  /\ Len(q) > 0 => q[Len(q)].pos = Size(q[Len(q)].op, q[Len(q)].kind)

\* The rest of the answer to the last request, from position n on.
Own(q, n, kinds) ==
  \E kind \in kinds :
    /\ Len(q) = Size(op, kind) - n + 1
    /\ \A j \in 1..Len(q) : q[j].of = sent /\ q[j].op = op /\ q[j].kind = kind /\ q[j].pos = n + j - 1

ClosedInv ==
  ~open => /\ Len(Line) = 0 /\ phase = "idle"
           /\ outcome.result = "error" \/ (outcome.result = "none" /\ sent = 0)

\* Where the reader of Modbus TCP stands: before a frame, or behind its header.
TcpPlace ==
  /\ phase \in {"idle", "header", "body"}
  /\ phase = "body" => Len(Line) > 0
  /\ Len(Line) > 0 => Line[1].pos = IF phase = "body" THEN 8 ELSE 1

\* No byte is so old that its number has come round again; what follows the answer to the last request is younger.
Fresh ==
  /\ \A j \in 1..Len(Line) : Line[j].of > sent - LateBy - (IF phase = "idle" THEN 0 ELSE 1)
  /\ \A j, k \in 1..Len(Line) : j < k /\ Line[j].of = sent => Line[k].of > sent - LateBy

OwedInv == \A r \in owed : r.no = sent => r.op = op

\* Without a late answer the line holds the answer to the last request, once, or nothing; behind a damaged answer that
\* was taken for an exception, one byte of it.
CleanPlace ==
  /\ phase = "idle" => Len(Line) = IF Misread THEN 1 ELSE 0
  /\ phase = "header" => Len(Line) = 0 \/ Own(Line, 1, Kind)
  /\ phase = "body" /\ mode = "tcp" => Own(Line, 8, Kind)
  /\ phase = "body" /\ mode = "rtu" => op = "read" /\ Own(Line, 4, {"good", "damaged"})
  /\ phase = "exception" => mode = "rtu" /\ op = "read" /\ Own(Line, 4, {"illegal", "exception", "damaged"})
  /\ Len(Line) > 0 => \A r \in owed : r.no # sent
  /\ phase = "idle" /\ open => \A r \in owed : r.no = sent => outcome.result = "error"

FrameInv ==
  /\ Chain(Line)
  /\ ClosedInv
  /\ mode = "tcp" => TcpPlace /\ Fresh
  /\ OwedInv
  /\ clean => CleanPlace
  /\ OwnAnswer

-----------------------------------------------------------------------------
(* What the steps do to the line. *)

\* Numbers less than t apart that agree modulo t are equal.
LEMMA ModEq ==
  ASSUME NEW t \in Nat \ {0}, NEW a \in Nat, NEW b \in Nat, a <= b, b - a < t, a % t = b % t
  PROVE  a = b
<1>1. \A x \in Nat : \E p \in Int : x = t * p + (x % t)
  <2>1. \A x \in Nat : x \div t \in Int /\ x = t * (x \div t) + (x % t)
    OBVIOUS
  <2>2. QED BY <2>1
<1>2. PICK p \in Int : a = t * p + (a % t)
  BY <1>1
<1>3. PICK q \in Int : b = t * q + (b % t)
  BY <1>1
<1>4. b - a = t * (q - p)
  BY <1>2, <1>3
<1>5. \A d \in Int : d >= 1 => t * d >= t
  OBVIOUS
<1>6. \A d \in Int : d <= -1 => t * d <= -t
  OBVIOUS
<1>7. q - p = 0
  BY <1>4, <1>5, <1>6
<1>8. QED BY <1>4, <1>7

\* The first n bytes of the line are gone.
Dropped(n) ==
  /\ n \in Nat /\ n <= Len(Line)
  /\ Len(Line') = Len(Line) - n
  /\ \A j \in 1..Len(Line') : Line'[j] = Line[n + j]

LEMMA ChainDropped ==
  ASSUME TypeOK, Chain(Line), NEW n, Dropped(n), mode' = mode
  PROVE  Chain(Line)'
<1>1. \A o, k : Size(o, k)' = Size(o, k)
  BY DEF Size
<1>2. Len(Line) \in Nat /\ n \in Nat /\ n <= Len(Line) /\ Len(Line') = Len(Line) - n
  BY LineBytes DEF Dropped
<1>3. \A j \in 1..Len(Line') : n + j \in 1..Len(Line) /\ Line'[j] = Line[n + j]
  BY <1>2 DEF Dropped
<1>4. \A j \in 1..Len(Line') : Line'[j].pos \in 1..Size(Line'[j].op, Line'[j].kind)
  BY <1>3 DEF Chain
<1>5. ASSUME NEW j \in 1..Len(Line'), NEW k \in 1..Len(Line'),
             Line'[j].pos + (k - j) \in 1..Size(Line'[j].op, Line'[j].kind)
      PROVE  /\ Line'[k].pos = Line'[j].pos + (k - j)
             /\ Line'[k].of = Line'[j].of /\ Line'[k].op = Line'[j].op
             /\ Line'[k].kind = Line'[j].kind
  <2>1. PICK a \in 1..Len(Line), b \in 1..Len(Line) : a = n + j /\ b = n + k
    BY <1>3
  <2>2. b - a = k - j
    BY <1>2, <2>1
  <2>3. Line[a].pos + (b - a) \in 1..Size(Line[a].op, Line[a].kind)
    BY <1>3, <1>5, <2>1, <2>2
  <2>4. /\ Line[b].pos = Line[a].pos + (b - a)
        /\ Line[b].of = Line[a].of /\ Line[b].op = Line[a].op /\ Line[b].kind = Line[a].kind
    BY <2>3 DEF Chain
  <2>5. QED BY <1>3, <2>1, <2>2, <2>4
<1>6. ASSUME NEW j \in 1..(Len(Line') - 1), Line'[j].pos = Size(Line'[j].op, Line'[j].kind)
      PROVE  Line'[j + 1].pos = 1
  <2>1. /\ j \in 1..Len(Line') /\ j + 1 \in 1..Len(Line')
        /\ n + j \in 1..(Len(Line) - 1) /\ n + (j + 1) = (n + j) + 1
    BY <1>2
  <2>2. QED BY <1>3, <1>6, <2>1 DEF Chain
<1>7. ASSUME Len(Line') > 0
      PROVE  Line'[Len(Line')].pos = Size(Line'[Len(Line')].op, Line'[Len(Line')].kind)
  <2>1. Len(Line') \in 1..Len(Line') /\ n + Len(Line') = Len(Line) /\ Len(Line) > 0
    BY <1>2, <1>7
  <2>2. Line'[Len(Line')] = Line[Len(Line)]
    BY <1>3, <2>1
  <2>3. QED BY <2>1, <2>2 DEF Chain
<1>8. QED BY <1>1, <1>4, <1>5, <1>6, <1>7 DEF Chain

LEMMA ChainEmpty ==
  ASSUME Len(Line') = 0
  PROVE  Chain(Line)'
BY DEF Chain

\* A whole frame of length s is put behind the line.
Appended(r, kind, s) ==
  /\ s = Size(r.op, kind)
  /\ Len(Line') = Len(Line) + s
  /\ \A j \in 1..Len(Line) : Line'[j] = Line[j]
  /\ \A j \in 1..s : /\ Line'[Len(Line) + j].of = r.no /\ Line'[Len(Line) + j].op = r.op
                     /\ Line'[Len(Line) + j].kind = kind /\ Line'[Len(Line) + j].pos = j

LEMMA ChainAppended ==
  ASSUME TypeOK, Chain(Line), NEW r \in owed, NEW kind \in Kind, NEW s, Appended(r, kind, s),
         mode' = mode
  PROVE  Chain(Line)'
<1> DEFINE n == Len(Line)
           size(q, j) == Size(q[j].op, q[j].kind)
<1>1. \A o, k : Size(o, k)' = Size(o, k)
  BY DEF Size
<1>2. /\ s \in 5..12 /\ n \in Nat
      /\ \A j \in 1..n : Line[j].pos \in Nat /\ size(Line, j) \in Nat
  <2>1. r.op \in Op
    BY DEF TypeOK
  <2>2. s \in 5..12
    BY <2>1, ModeFacts, SizeFacts DEF Appended
  <2>3. n \in Nat /\ \A j \in 1..n : Line[j].op \in Op /\ Line[j].kind \in Kind /\ Line[j].pos \in Nat
    BY LineBytes
  <2>4. \A o \in Op, k \in Kind : Size(o, k) \in Nat
    BY ModeFacts, SizeFacts
  <2>5. QED BY <2>2, <2>3, <2>4
<1>3. /\ Len(Line') = n + s
      /\ \A j \in 1..n : Line'[j] = Line[j] /\ size(Line', j) = size(Line, j)
      /\ \A j \in (n + 1)..(n + s) : Line'[j].of = r.no /\ Line'[j].op = r.op
                                     /\ Line'[j].kind = kind /\ Line'[j].pos = j - n
                                     /\ size(Line', j) = s
  <2>1. ASSUME NEW j \in (n + 1)..(n + s) PROVE j - n \in 1..s /\ n + (j - n) = j
    BY <1>2
  <2>2. QED BY <2>1 DEF Appended
<1>4. \A j \in 1..(n + s) : j \in 1..n \/ j \in (n + 1)..(n + s)
  BY <1>2
<1>5. \A j \in 1..n : Line[j].pos \in 1..size(Line, j)
  BY DEF Chain
<1>6. n > 0 => Line[n].pos = size(Line, n)
  BY DEF Chain
<1>7. \A j, k \in 1..n : Line[j].pos + (k - j) \in 1..size(Line, j) =>
        /\ Line[k].pos = Line[j].pos + (k - j)
        /\ Line[k].of = Line[j].of /\ Line[k].op = Line[j].op /\ Line[k].kind = Line[j].kind
  BY DEF Chain
<1>8. \A j \in 1..(n - 1) : Line[j].pos = size(Line, j) => Line[j + 1].pos = 1
  BY DEF Chain
\* No frame of the line goes on behind its end.
<1>9. ASSUME NEW j \in 1..n PROVE Line[j].pos + (n - j) >= size(Line, j)
  <2>1. n \in 1..n /\ n > 0
    BY <1>2
  <2>2. CASE Line[j].pos + (n - j) \in 1..size(Line, j)
    <3>1. Line[n].pos = Line[j].pos + (n - j) /\ size(Line, n) = size(Line, j)
      BY <1>7, <2>1, <2>2
    <3>2. QED BY <1>2, <1>6, <2>1, <3>1
  <2>3. CASE Line[j].pos + (n - j) \notin 1..size(Line, j)
    <3>1. Line[j].pos + (n - j) >= 1
      BY <1>2, <1>5
    <3>2. QED BY <1>2, <2>3, <3>1
  <2>4. QED BY <2>2, <2>3
<1> HIDE DEF n, size
<1>10. \A j \in 1..(n + s) : Line'[j].pos \in 1..size(Line', j)
  <2>1. \A j \in (n + 1)..(n + s) : j - n \in 1..s
    BY <1>2
  <2>2. QED BY <1>3, <1>4, <1>5, <2>1
<1>11. ASSUME NEW j \in 1..(n + s), NEW k \in 1..(n + s),
              Line'[j].pos + (k - j) \in 1..size(Line', j)
       PROVE  /\ Line'[k].pos = Line'[j].pos + (k - j)
              /\ Line'[k].of = Line'[j].of /\ Line'[k].op = Line'[j].op
              /\ Line'[k].kind = Line'[j].kind
  <2>1. CASE j \in 1..n /\ k \in 1..n
    BY <1>3, <1>7, <1>11, <2>1
  <2>2. CASE j \in 1..n /\ k \in (n + 1)..(n + s)
    <3>1. Line[j].pos + (k - j) \in 1..size(Line, j)
      BY <1>3, <1>11, <2>2
    <3>2. Line[j].pos + (n - j) >= size(Line, j) /\ Line[j].pos \in Nat /\ size(Line, j) \in Nat
      BY <1>2, <1>9, <2>2
    <3>3. QED BY <1>2, <2>2, <3>1, <3>2
  <2>3. CASE j \in (n + 1)..(n + s) /\ k \in 1..n
    <3>1. (j - n) + (k - j) \in 1..s
      BY <1>3, <1>11, <2>3
    <3>2. QED BY <1>2, <2>3, <3>1
  <2>4. CASE j \in (n + 1)..(n + s) /\ k \in (n + 1)..(n + s)
    <3>1. k - n = (j - n) + (k - j)
      BY <1>2, <2>4
    <3>2. QED BY <1>3, <2>4, <3>1
  <2>5. QED BY <1>4, <2>1, <2>2, <2>3, <2>4
<1>12. ASSUME NEW j \in 1..(n + s - 1), Line'[j].pos = size(Line', j)
       PROVE  Line'[j + 1].pos = 1
  <2>1. CASE j \in 1..(n - 1)
    <3>1. j \in 1..n /\ j + 1 \in 1..n
      BY <1>2, <2>1
    <3>2. QED BY <1>3, <1>8, <1>12, <2>1, <3>1
  <2>2. CASE j = n
    <3>1. j + 1 \in (n + 1)..(n + s) /\ (j + 1) - n = 1
      BY <1>2, <2>2
    <3>2. QED BY <1>3, <3>1
  <2>3. CASE j \in (n + 1)..(n + s - 1)
    <3>1. j \in (n + 1)..(n + s) /\ j - n # s
      BY <1>2, <2>3
    <3>2. QED BY <1>3, <1>12, <3>1
  <2>4. QED BY <1>2, <2>1, <2>2, <2>3
<1>13. Line'[n + s].pos = size(Line', n + s)
  <2>1. n + s \in (n + 1)..(n + s) /\ (n + s) - n = s
    BY <1>2
  <2>2. QED BY <1>3, <2>1
<1>14. Len(Line') = n + s /\ Len(Line') - 1 = n + s - 1
  BY <1>2, <1>3
<1>15. QED BY <1>1, <1>10, <1>11, <1>12, <1>13, <1>14 DEF Chain, size

\* A frame of which the first byte is there is there as a whole, and another one follows it.
LEMMA ChainAt ==
  ASSUME TypeOK, Chain(Line), Len(Line) > 0, NEW n \in Nat,
         Line[1].pos + n <= Size(Line[1].op, Line[1].kind)
  PROVE  n + 1 \in 1..Len(Line) /\ Line[n + 1].pos = Line[1].pos + n
<1> DEFINE L == Len(Line)
           s == Size(Line[1].op, Line[1].kind)
<1>1. L \in Nat \ {0} /\ 1 \in 1..L /\ L \in 1..L
  BY LineBytes
<1>2. Line[1].pos \in 1..s /\ s \in Nat
  <2>1. Line[1].op \in Op /\ Line[1].kind \in Kind
    BY <1>1, LineBytes
  <2>2. s \in Nat
    BY <2>1, ModeFacts, SizeFacts
  <2>3. QED BY <1>1, <2>2 DEF Chain
<1>3. \A k \in 1..L : Line[1].pos + (k - 1) \in 1..s =>
        /\ Line[k].pos = Line[1].pos + (k - 1)
        /\ Line[k].op = Line[1].op /\ Line[k].kind = Line[1].kind
  BY <1>1 DEF Chain
<1>4. Line[L].pos = Size(Line[L].op, Line[L].kind)
  BY DEF Chain
<1> HIDE DEF L, s
<1>5. n + 1 <= L
  <2>1. SUFFICES ASSUME n + 1 > L PROVE FALSE
    BY <1>1
  <2>2. Line[1].pos + (L - 1) \in 1..s /\ Line[1].pos + (L - 1) < s
    BY <1>1, <1>2, <2>1 DEF s
  <2>3. Line[L].pos = Line[1].pos + (L - 1) /\ Size(Line[L].op, Line[L].kind) = s
    BY <1>1, <1>3, <2>2 DEF s
  <2>4. Line[1].pos + (L - 1) = s
    BY <1>4, <2>3
  <2>5. QED BY <1>1, <1>2, <2>2, <2>4
<1>6. n + 1 \in 1..L /\ (n + 1) - 1 = n
  BY <1>1, <1>5
<1>7. Line[1].pos + n \in 1..s
  BY <1>2 DEF s
<1>8. QED BY <1>3, <1>6, <1>7 DEF L

LEMMA ChainNext ==
  ASSUME TypeOK, Chain(Line), NEW n \in Nat \ {0}, n < Len(Line),
         Line[1].pos + n = Size(Line[1].op, Line[1].kind) + 1
  PROVE  Line[n + 1].pos = 1
<1>1. Len(Line) \in Nat /\ Len(Line) > 0 /\ 1 \in 1..Len(Line) /\ n \in 1..(Len(Line) - 1)
  BY LineBytes
<1>2. Line[1].op \in Op /\ Line[1].kind \in Kind /\ Line[1].pos \in Nat
  BY <1>1, LineBytes
<1>3. Size(Line[1].op, Line[1].kind) \in Nat
  BY <1>2, ModeFacts, SizeFacts
<1>4. n - 1 \in Nat /\ (n - 1) + 1 = n /\ Line[1].pos + (n - 1) = Size(Line[1].op, Line[1].kind)
  BY <1>2, <1>3
<1>5. Line[n].pos = Size(Line[1].op, Line[1].kind)
  <2>1. Line[(n - 1) + 1].pos = Line[1].pos + (n - 1)
    BY <1>1, <1>3, <1>4, ChainAt
  <2>2. QED BY <1>4, <2>1
<1>6. Line[n].op = Line[1].op /\ Line[n].kind = Line[1].kind
  <2>1. n \in 1..Len(Line) /\ Line[1].pos + (n - 1) \in 1..Size(Line[1].op, Line[1].kind)
    <3>1. Line[1].pos \in 1..Size(Line[1].op, Line[1].kind)
      BY <1>1 DEF Chain
    <3>2. QED BY <1>1, <1>3, <1>4, <3>1
  <2>2. QED BY <1>1, <2>1 DEF Chain
<1>7. QED BY <1>1, <1>5, <1>6 DEF Chain

LEMMA OwnDropped ==
  ASSUME TypeOK, NEW kinds \in SUBSET Kind, NEW m \in Nat, Own(Line, m, kinds), NEW n, Dropped(n),
         UNCHANGED <<mode, op, sent>>
  PROVE  Own(Line, m + n, kinds)'
<1>1. PICK kind \in kinds :
        /\ Len(Line) = Size(op, kind) - m + 1
        /\ \A j \in 1..Len(Line) : Line[j].of = sent /\ Line[j].op = op /\ Line[j].kind = kind
                                   /\ Line[j].pos = m + j - 1
  BY DEF Own
<1>2. Size(op, kind) \in Nat /\ Len(Line) \in Nat /\ n \in Nat /\ n <= Len(Line)
  <2>1. op \in Op /\ kind \in Kind
    BY DEF TypeOK
  <2>2. Size(op, kind) \in Nat
    BY <2>1, ModeFacts, SizeFacts
  <2>3. QED BY <2>2, LineBytes DEF Dropped
<1>3. Len(Line') = Size(op, kind) - (m + n) + 1
  BY <1>1, <1>2 DEF Dropped
<1>4. \A j \in 1..Len(Line') : n + j \in 1..Len(Line) /\ m + (n + j) - 1 = m + n + j - 1
  BY <1>2 DEF Dropped
<1>5. \A j \in 1..Len(Line') : Line'[j].of = sent /\ Line'[j].op = op /\ Line'[j].kind = kind
                               /\ Line'[j].pos = m + n + j - 1
  BY <1>1, <1>4 DEF Dropped
<1>6. Size(op, kind)' = Size(op, kind)
  BY DEF Size
<1>7. QED BY <1>3, <1>5, <1>6 DEF Own

\* The line of a whole own answer is its length long.
LEMMA OwnFacts ==
  ASSUME TypeOK, NEW kinds \in SUBSET Kind, NEW m \in 1..8, Own(Line, m, kinds),
         \A kind \in kinds : m <= Size(op, kind)
  PROVE  /\ Len(Line) > 0 /\ Line[1].of = sent /\ Line[1].op = op
         /\ Line[1].kind \in kinds /\ Line[1].pos = m
         /\ Len(Line) = Size(op, Line[1].kind) - m + 1
         /\ Own(Line, m, {Line[1].kind})
<1>1. PICK kind \in kinds :
        /\ Len(Line) = Size(op, kind) - m + 1
        /\ \A j \in 1..Len(Line) : Line[j].of = sent /\ Line[j].op = op /\ Line[j].kind = kind
                                   /\ Line[j].pos = m + j - 1
  BY DEF Own
<1>2. Size(op, kind) \in Nat /\ Len(Line) \in Nat
  <2>1. op \in Op
    BY DEF TypeOK
  <2>2. QED BY <2>1, ModeFacts, SizeFacts, LineBytes
<1>3. Len(Line) > 0 /\ 1 \in 1..Len(Line) /\ m + 1 - 1 = m
  BY <1>1, <1>2
<1>4. QED BY <1>1, <1>3 DEF Own

\* A step of the reader that takes bytes: the line is shorter, and nothing new is on it.
LEMMA FreshDropped ==
  ASSUME TypeOK, Fresh, NEW n, Dropped(n), sent' = sent, phase # "idle", phase' # "idle"
  PROVE  Fresh'
<1>1. Len(Line) \in Nat /\ n \in Nat /\ n <= Len(Line) /\ Len(Line') = Len(Line) - n
  BY LineBytes DEF Dropped
<1>2. \A j \in 1..Len(Line') : n + j \in 1..Len(Line) /\ Line'[j] = Line[n + j]
  BY <1>1 DEF Dropped
<1>3. \A j \in 1..Len(Line') : Line'[j].of > sent - LateBy - 1
  BY <1>2 DEF Fresh
<1>4. ASSUME NEW j \in 1..Len(Line'), NEW k \in 1..Len(Line'), j < k, Line'[j].of = sent
      PROVE  Line'[k].of > sent - LateBy
  <2>1. n + j < n + k
    BY <1>1, <1>4
  <2>2. QED BY <1>2, <1>4, <2>1 DEF Fresh
<1>5. QED BY <1>3, <1>4 DEF Fresh

\* The request is answered by its own answer: what is left is young enough for the next request.
LEMMA FreshEnd ==
  ASSUME TypeOK, Fresh, NEW n \in Nat \ {0}, Dropped(n), sent' = sent,
         Len(Line) > 0, Line[1].of = sent, phase' = "idle"
  PROVE  Fresh'
<1>1. Len(Line) \in Nat /\ n <= Len(Line) /\ Len(Line') = Len(Line) - n
  BY LineBytes DEF Dropped
<1>2. \A j \in 1..Len(Line') : n + j \in 1..Len(Line) /\ 1 < n + j /\ Line'[j] = Line[n + j]
  BY <1>1 DEF Dropped
<1>3. 1 \in 1..Len(Line)
  BY <1>1
<1>4. \A j \in 1..Len(Line') : Line'[j].of > sent - LateBy
  BY <1>2, <1>3 DEF Fresh
<1>5. sent \in Nat /\ LateBy \in Int /\ sent - LateBy - 0 = sent - LateBy
  BY ModeFacts DEF TypeOK
<1>6. QED BY <1>4, <1>5 DEF Fresh

-----------------------------------------------------------------------------
(* The invariant is kept by the line and by the callers. *)

LEMMA FailStep ==
  ASSUME TypeOK, FrameInv, Fail
  PROVE  FrameInv'
<1>1. /\ open' = FALSE /\ phase' = "idle" /\ outcome' = Failed /\ Len(Line') = 0
      /\ UNCHANGED <<mode, sent, op, owed, clean>>
  BY CloseLine DEF Fail, Close
<1>2. Chain(Line)'
  BY <1>1, ChainEmpty
<1>3. ClosedInv'
  BY <1>1 DEF ClosedInv, Failed
<1>4. TcpPlace' /\ Fresh'
  BY <1>1 DEF TcpPlace, Fresh
<1>5. OwedInv' /\ OwnAnswer'
  BY <1>1 DEF FrameInv, OwedInv, OwnAnswer, Failed
<1>6. CleanPlace'
  BY <1>1 DEF CleanPlace, Misread, Failed
<1>7. QED BY <1>2, <1>3, <1>4, <1>5, <1>6 DEF FrameInv

LEMMA DialStep ==
  ASSUME TypeOK, FrameInv, Dial
  PROVE  FrameInv'
<1>1. /\ phase = "idle" /\ ~open /\ open' = TRUE
      /\ UNCHANGED <<mode, sent, op, phase, outcome, stream, coming, owed>>
  BY DEF Dial, reader
<1>2. Line' = Line
  BY <1>1 DEF Line
<1>3. /\ Len(Line) = 0
      /\ outcome.result = "error" \/ (outcome.result = "none" /\ sent = 0)
  BY <1>1 DEF FrameInv, ClosedInv
<1>4. Chain(Line)'
  BY <1>2, <1>3, ChainEmpty
<1>5. TcpPlace' /\ Fresh'
  BY <1>1, <1>2, <1>3 DEF TcpPlace, Fresh
<1>6. OwedInv' /\ OwnAnswer' /\ ClosedInv'
  BY <1>1, <1>3 DEF FrameInv, OwedInv, OwnAnswer, ClosedInv
<1>7. CleanPlace'
  <2>1. \A r \in owed : r.no \in 1..sent
    BY DEF TypeOK
  <2>2. \A r \in owed : outcome.result = "error"
    BY <1>3, <2>1
  <2>3. QED BY <1>1, <1>2, <1>3, <2>2 DEF CleanPlace, Misread
<1>8. QED BY <1>4, <1>5, <1>6, <1>7 DEF FrameInv

LEMMA RequestStep ==
  ASSUME TypeOK, FrameInv, NEW o \in Op, Request(o)
  PROVE  FrameInv'
<1>1. /\ phase = "idle" /\ open /\ sent' = sent + 1 /\ op' = o
      /\ owed' = owed \/ owed' = owed \cup {[no |-> sent + 1, op |-> o]}
      /\ clean' = (clean /\ ~Misread) /\ UNCHANGED mode
  BY DEF Request
<1>2. sent \in Nat /\ LateBy \in Int
  BY ModeFacts DEF TypeOK
<1>3. OwedInv'
  <2>1. \A r \in owed : r.no # sent + 1
    BY <1>2 DEF TypeOK
  <2>2. QED BY <1>1, <2>1 DEF OwedInv
<1>4. CASE phase' = "header" /\ outcome' = Pending /\ UNCHANGED <<open, stream, coming>>
  <2>1. Line' = Line
    BY <1>4 DEF Line
  <2>2. Chain(Line)'
    <3>1. Dropped(0)
      BY <2>1, LineBytes DEF Dropped
    <3>2. QED BY <1>1, <3>1, ChainDropped DEF FrameInv
  <2>3. ClosedInv' /\ OwnAnswer'
    BY <1>1, <1>4 DEF ClosedInv, OwnAnswer, Pending
  <2>4. mode = "tcp" => TcpPlace' /\ Fresh'
    <3>1. SUFFICES ASSUME mode = "tcp" PROVE TcpPlace' /\ Fresh'
      OBVIOUS
    <3>2. TcpPlace'
      BY <1>1, <1>4, <2>1, <3>1 DEF FrameInv, TcpPlace
    <3>3. \A j \in 1..Len(Line) : Line[j].of > sent - LateBy /\ Line[j].of \in 1..sent
      BY <1>1, <1>2, <3>1, LineBytes DEF FrameInv, Fresh
    <3>4. \A j \in 1..Len(Line) : Line[j].of > sent' - LateBy - 1 /\ Line[j].of # sent'
      BY <1>1, <1>2, <3>3
    <3>5. Fresh'
      BY <1>4, <2>1, <3>4 DEF Fresh
    <3>6. QED BY <3>2, <3>5
  <2>5. clean' => CleanPlace'
    <3>1. SUFFICES ASSUME clean' PROVE CleanPlace'
      OBVIOUS
    <3>2. CleanPlace /\ ~Misread
      BY <1>1, <3>1 DEF FrameInv
    <3>3. Len(Line) = 0
      BY <1>1, <3>2 DEF CleanPlace
    <3>4. QED BY <1>4, <2>1, <3>3 DEF CleanPlace
  <2>6. QED BY <1>1, <1>3, <2>2, <2>3, <2>4, <2>5 DEF FrameInv
<1>5. CASE phase' = "idle" /\ outcome' = Failed /\ Close
  <2>1. Len(Line') = 0 /\ open' = FALSE
    BY <1>5, CloseLine DEF Close
  <2>2. Chain(Line)'
    BY <2>1, ChainEmpty
  <2>3. ClosedInv' /\ OwnAnswer'
    BY <1>5, <2>1 DEF ClosedInv, OwnAnswer, Failed
  <2>4. TcpPlace' /\ Fresh' /\ CleanPlace'
    BY <1>5, <2>1 DEF TcpPlace, Fresh, CleanPlace, Misread, Failed
  <2>5. QED BY <1>3, <2>2, <2>3, <2>4 DEF FrameInv
<1>6. QED BY <1>4, <1>5 DEF Request

LEMMA ArriveStep ==
  ASSUME TypeOK, FrameInv, Arrive
  PROVE  FrameInv'
<1>1. Line' = Line /\ UNCHANGED <<mode, open, sent, op, phase, outcome, owed, clean>>
  BY ArriveLine DEF Arrive, reader
<1>2. Chain(Line)'
  <2>1. Dropped(0)
    BY <1>1, LineBytes DEF Dropped
  <2>2. QED BY <1>1, <2>1, ChainDropped DEF FrameInv
<1>3. \A o, k : Size(o, k)' = Size(o, k)
  BY <1>1 DEF Size
<1>4. ClosedInv' /\ OwedInv' /\ OwnAnswer'
  BY <1>1 DEF FrameInv, ClosedInv, OwedInv, OwnAnswer, Reliable
<1>5. mode = "tcp" => TcpPlace' /\ Fresh'
  BY <1>1 DEF FrameInv, TcpPlace, Fresh
<1>6. clean => CleanPlace'
  BY <1>1, <1>3 DEF FrameInv, CleanPlace, Own, Misread
<1>7. QED BY <1>1, <1>2, <1>4, <1>5, <1>6 DEF FrameInv

LEMMA AnswerStep ==
  ASSUME TypeOK, FrameInv, NEW r \in owed, NEW kind \in Kind, NEW n \in {2, Size(r.op, kind)},
         Answer(r, kind, n)
  PROVE  FrameInv'
<1> DEFINE s == Size(r.op, kind)
<1>1. /\ open /\ r.no > sent - LateBy /\ owed' = owed \ {r}
      /\ clean' = (clean /\ r.no = sent /\ phase # "idle")
      /\ UNCHANGED <<mode, open, sent, op, phase, outcome>>
  BY DEF Answer, reader
<1>2. Appended(r, kind, s)
  BY AnswerLine DEF Appended
<1>3. Len(Line) \in Nat /\ s \in 5..12 /\ r.op \in Op /\ r.no \in 1..sent
  <2>1. r.op \in Op /\ r.no \in 1..sent
    BY DEF TypeOK
  <2>2. QED BY <2>1, LineBytes, ModeFacts, SizeFacts
<1>4. Chain(Line)'
  BY <1>1, <1>2, ChainAppended DEF FrameInv
<1> HIDE DEF s
<1>5. /\ Len(Line') = Len(Line) + s
      /\ \A j \in 1..Len(Line) : Line'[j] = Line[j]
      /\ \A j \in 1..s : /\ Line'[Len(Line) + j].of = r.no /\ Line'[Len(Line) + j].op = r.op
                         /\ Line'[Len(Line) + j].kind = kind /\ Line'[Len(Line) + j].pos = j
  BY <1>2 DEF Appended
<1>6. ClosedInv' /\ OwedInv'
  BY <1>1 DEF FrameInv, ClosedInv, OwedInv
<1>7. OwnAnswer'
  BY <1>1 DEF FrameInv, OwnAnswer, Reliable
<1>8. ASSUME mode = "tcp" PROVE TcpPlace' /\ Fresh'
  <2>1. TcpPlace /\ Fresh
    BY <1>8 DEF FrameInv
  <2>2. TcpPlace'
    <3>1. CASE Len(Line) > 0
      <4>1. 1 \in 1..Len(Line) /\ Len(Line') > 0
        BY <1>3, <1>5, <3>1
      <4>2. Line'[1] = Line[1]
        BY <1>5, <4>1
      <4>3. QED BY <1>1, <2>1, <3>1, <4>1, <4>2 DEF TcpPlace
    <3>2. CASE ~(Len(Line) > 0)
      <4>1. Len(Line) = 0 /\ 1 \in 1..s /\ Len(Line) + 1 = 1
        BY <1>3, <3>2
      <4>2. Line'[1].pos = 1
        BY <1>5, <4>1
      <4>3. QED BY <1>1, <2>1, <3>2, <4>2 DEF TcpPlace
    <3>3. QED BY <3>1, <3>2
  <2>3. \A j \in 1..Len(Line') : j \in 1..Len(Line) \/ Line'[j].of = r.no
    <3>1. \A j \in 1..Len(Line') : j \in 1..Len(Line) \/ (j - Len(Line) \in 1..s /\ Len(Line) + (j - Len(Line)) = j)
      BY <1>3, <1>5
    <3>2. QED BY <1>5, <3>1
  <2>4. sent \in Nat /\ LateBy \in Int
    BY ModeFacts DEF TypeOK
  <2>5. \A j \in 1..Len(Line') : Line'[j].of > sent - LateBy - (IF phase = "idle" THEN 0 ELSE 1)
    <3>1. r.no > sent - LateBy - (IF phase = "idle" THEN 0 ELSE 1)
      BY <1>1, <1>3, <2>4
    <3>2. QED BY <1>5, <2>1, <2>3, <3>1 DEF Fresh
  <2>6. ASSUME NEW j \in 1..Len(Line'), NEW k \in 1..Len(Line'), j < k, Line'[j].of = sent
        PROVE  Line'[k].of > sent - LateBy
    <3>1. CASE k \in 1..Len(Line)
      <4>1. j \in 1..Len(Line)
        BY <1>3, <2>6, <3>1
      <4>2. QED BY <1>5, <2>1, <2>6, <3>1, <4>1 DEF Fresh
    <3>2. CASE Line'[k].of = r.no
      BY <1>1, <3>2
    <3>3. QED BY <2>3, <3>1, <3>2
  <2>7. Fresh'
    BY <1>1, <2>5, <2>6 DEF Fresh
  <2>8. QED BY <2>2, <2>7
<1>9. ASSUME clean' PROVE CleanPlace'
  <2>1. clean /\ r.no = sent /\ phase # "idle" /\ r.op = op
    BY <1>1, <1>9 DEF FrameInv, OwedInv
  <2>2. CleanPlace
    BY <2>1 DEF FrameInv
  <2>3. Len(Line) = 0
    BY <1>3, <2>1, <2>2 DEF CleanPlace
  <2>4. phase = "header"
    <3>1. op \in Op /\ mode \in {"tcp", "rtu"}
      BY ModeFacts DEF TypeOK
    <3>2. ~(phase = "body" /\ mode = "tcp")
      <4>1. SUFFICES ASSUME phase = "body", mode = "tcp" PROVE FALSE
        OBVIOUS
      <4>2. \A k \in Kind : 8 <= Size(op, k)
        BY <3>1, <4>1, SizeFacts
      <4>3. QED BY <2>2, <2>3, <4>1, <4>2, OwnFacts DEF CleanPlace
    <3>3. ~(phase = "body" /\ mode = "rtu")
      <4>1. SUFFICES ASSUME phase = "body", mode = "rtu" PROVE FALSE
        OBVIOUS
      <4>2. \A k \in {"good", "damaged"} : k \in Kind /\ 4 <= Size(op, k)
        BY <3>1, <4>1, SizeFacts DEF Kind
      <4>3. QED BY <2>2, <2>3, <4>1, <4>2, OwnFacts DEF CleanPlace
    <3>4. phase # "exception"
      <4>1. SUFFICES ASSUME phase = "exception" PROVE FALSE
        OBVIOUS
      <4>2. \A k \in {"illegal", "exception", "damaged"} : k \in Kind /\ 4 <= Size(op, k)
        BY <3>1, SizeFacts DEF Kind
      <4>3. QED BY <2>2, <2>3, <4>1, <4>2, OwnFacts DEF CleanPlace
    <3>5. QED BY <2>1, <3>1, <3>2, <3>3, <3>4 DEF TypeOK, Phase
  <2>5. Own(Line, 1, Kind)'
    <3>1. Size(op, kind)' = s
      BY <1>1, <2>1 DEF Size, s
    <3>2. Len(Line') = s - 1 + 1
      BY <1>3, <1>5, <2>3
    <3>3. \A j \in 1..Len(Line') : j \in 1..s /\ Len(Line) + j = j /\ 1 + j - 1 = j
      BY <1>3, <1>5, <2>3
    <3>4. QED BY <1>1, <1>5, <2>1, <3>1, <3>2, <3>3 DEF Own
  <2>6. \A q \in owed' : q.no # sent
    <3>1. \A q \in owed : q.no = sent => q = r
      <4>1. \A q \in owed : q \in [no : 1..sent, op : Op]
        BY DEF TypeOK
      <4>2. QED BY <2>1, <4>1 DEF FrameInv, OwedInv
    <3>2. QED BY <1>1, <3>1
  <2>7. QED BY <1>1, <2>4, <2>5, <2>6 DEF CleanPlace
<1>10. QED BY <1>1, <1>4, <1>6, <1>7, <1>8, <1>9 DEF FrameInv

-----------------------------------------------------------------------------
(* The invariant is kept by the reader. *)

LEMMA TakeDropped ==
  ASSUME TypeOK, NEW n \in Nat, Take(n), coming' = coming
  PROVE  Dropped(n) /\ n <= Len(stream) /\ (n > 0 => Len(stream) > 0)
<1>1. n <= Len(stream) /\ Dropped(n)
  BY TakeLine DEF Dropped
<1>2. Len(stream) \in Nat
  BY LineType
<1>3. QED BY <1>1, <1>2

\* The reader goes on with the same request.
LEMMA GotoKept ==
  ASSUME TypeOK, FrameInv, NEW n \in Nat, Take(n), NEW p \in Phase \ {"idle"}, Goto(p), phase # "idle"
  PROVE  /\ Chain(Line)' /\ ClosedInv' /\ OwedInv' /\ OwnAnswer'
         /\ mode = "tcp" => Fresh'
         /\ phase' = p /\ UNCHANGED <<mode, open, sent, op, owed, clean, outcome>>
         /\ Dropped(n)
<1>1. phase' = p /\ UNCHANGED <<mode, open, sent, op, coming, owed, clean, outcome>>
  BY DEF Goto
<1>2. Dropped(n)
  BY <1>1, TakeDropped
<1>3. Chain(Line)'
  BY <1>1, <1>2, ChainDropped DEF FrameInv
<1>4. open
  BY DEF FrameInv, ClosedInv
<1>5. ClosedInv' /\ OwedInv' /\ OwnAnswer'
  BY <1>1, <1>4 DEF FrameInv, ClosedInv, OwedInv, OwnAnswer, Reliable
<1>6. mode = "tcp" => Fresh'
  BY <1>1, <1>2, FreshDropped DEF FrameInv
<1>7. QED BY <1>1, <1>2, <1>3, <1>5, <1>6

\* The request ends and the connection stays.
LEMMA EndKept ==
  ASSUME TypeOK, FrameInv, NEW n \in Nat \ {0}, Take(n), NEW result \in {"ok", "illegal"},
         End(result, First), phase # "idle"
  PROVE  /\ Chain(Line)' /\ ClosedInv' /\ OwedInv'
         /\ Len(Line) > 0
         /\ First = Line[1]
         /\ phase' = "idle" /\ UNCHANGED <<mode, open, sent, op, owed, clean>>
         /\ outcome' = [result |-> result, of |-> First.of, kind |-> First.kind]
         /\ Dropped(n)
<1>1. /\ phase' = "idle" /\ outcome' = [result |-> result, of |-> First.of, kind |-> First.kind]
      /\ UNCHANGED <<mode, open, sent, op, coming, owed, clean>>
  BY DEF End
<1>2. Dropped(n) /\ Len(stream) > 0
  BY <1>1, TakeDropped
<1>3. First = Line[1] /\ Len(Line) > 0
  BY <1>2, FirstFacts
<1>4. Chain(Line)'
  BY <1>1, <1>2, ChainDropped DEF FrameInv
<1>5. open
  BY DEF FrameInv, ClosedInv
<1>6. ClosedInv' /\ OwedInv'
  BY <1>1, <1>5 DEF FrameInv, ClosedInv, OwedInv
<1>7. QED BY <1>1, <1>2, <1>3, <1>4, <1>6

LEMMA HeaderTCPStep ==
  ASSUME TypeOK, FrameInv, HeaderTCP
  PROVE  FrameInv'
<1>1. mode = "tcp" /\ phase = "header"
  BY DEF HeaderTCP
<1>2. CASE Take(7) /\ AtStart /\ Goto("body")
  <2>1. /\ Chain(Line)' /\ ClosedInv' /\ OwedInv' /\ OwnAnswer' /\ Fresh'
        /\ phase' = "body" /\ UNCHANGED <<mode, open, sent, op, owed, clean, outcome>>
        /\ Dropped(7)
    BY <1>1, <1>2, GotoKept DEF Phase
  <2>2. Len(stream) > 0
    BY <1>2, LineType DEF Take
  <2>3. Line[1].pos = 1 /\ Len(Line) > 0 /\ Line[1].op \in Op /\ Line[1].kind \in Kind
    BY <1>2, <2>2, FirstFacts DEF AtStart
  <2>4. Size(Line[1].op, Line[1].kind) \in 9..12
    BY <1>1, <2>3, SizeFacts
  <2>5. 7 + 1 \in 1..Len(Line) /\ Line[7 + 1].pos = Line[1].pos + 7
    <3>1. Line[1].pos + 7 <= Size(Line[1].op, Line[1].kind) /\ 7 \in Nat
      BY <2>3, <2>4
    <3>2. Chain(Line)
      BY DEF FrameInv
    <3>3. QED BY <2>3, <3>1, <3>2, ChainAt
  <2>6. Len(Line') > 0 /\ Line'[1].pos = 8
    <3>1. Len(Line') = Len(Line) - 7 /\ \A j \in 1..Len(Line') : Line'[j] = Line[7 + j]
      BY <2>1 DEF Dropped
    <3>2. Len(Line) \in Nat /\ 1 \in 1..Len(Line')
      BY <2>5, <3>1, LineBytes
    <3>3. QED BY <2>3, <2>5, <3>1, <3>2
  <2>7. TcpPlace'
    BY <2>1, <2>6 DEF TcpPlace
  <2>8. clean => CleanPlace'
    <3>1. SUFFICES ASSUME clean PROVE CleanPlace'
      OBVIOUS
    <3>2. CleanPlace
      BY <3>1 DEF FrameInv
    <3>3. Own(Line, 1, Kind)
      BY <1>1, <2>3, <3>2 DEF CleanPlace
    <3>4. Own(Line, 1 + 7, Kind)'
      BY <2>1, <3>3, OwnDropped
    <3>5. \A r \in owed : r.no # sent
      BY <2>3, <3>2 DEF CleanPlace
    <3>6. QED BY <1>1, <2>1, <3>4, <3>5 DEF CleanPlace
  <2>9. QED BY <2>1, <2>7, <2>8 DEF FrameInv
<1>3. QED BY <1>2, FailStep DEF HeaderTCP

LEMMA MineFacts ==
  ASSUME TypeOK, FrameInv, mode = "tcp", phase = "body", Len(stream) > 0
  PROVE  Mine <=> First.of = sent
<1>1. First = Line[1] /\ 1 \in 1..Len(Line) /\ First.of \in 1..sent
  BY FirstFacts, LineBytes
<1>2. TxSpace \in Nat \ {0} /\ LateBy < TxSpace /\ LateBy \in Int /\ sent \in Nat
  BY ModeFacts DEF TypeOK
<1>3. First.of > sent - LateBy - 1
  BY <1>1 DEF FrameInv, Fresh
<1>4. First.of <= sent /\ sent - First.of < TxSpace /\ First.of \in Nat
  BY <1>1, <1>2, <1>3
<1>5. First.of % TxSpace = sent % TxSpace => First.of = sent
  BY <1>2, <1>4, ModEq
<1>6. QED BY <1>5 DEF Mine

\* Behind its header the reader knows the length of the frame, and the rest of it is what it takes.
LEMMA BodyDropped ==
  ASSUME TypeOK, FrameInv, mode = "tcp", phase = "body", Len(stream) > 0, Dropped(BodySize),
         UNCHANGED <<mode, op, sent>>
  PROVE  /\ Len(Line') > 0 => Line'[1].pos = 1
         /\ clean => Own(Line, 8, Kind) /\ First.of = sent /\ Len(Line') = 0
<1>1. /\ First = Line[1] /\ Len(Line) > 0 /\ First.op \in Op /\ First.kind \in Kind
  BY FirstFacts
<1>2. BodySize \in 2..5 /\ BodySize = Size(First.op, First.kind) - 7
  BY BodySizeType
<1>3. Size(First.op, First.kind) \in 9..12
  BY <1>1, SizeFacts
<1>4. Line[1].pos = 8
  BY <1>1 DEF FrameInv, TcpPlace
<1>5. PICK n \in 2..5 : n = BodySize
  BY <1>2
<1>6. Len(Line') = Len(Line) - n /\ \A j \in 1..Len(Line') : Line'[j] = Line[n + j]
  BY <1>5 DEF Dropped
<1>7. ASSUME Len(Line') > 0 PROVE Line'[1].pos = 1
  <2>1. Len(Line) \in Nat /\ n < Len(Line) /\ 1 \in 1..Len(Line')
    BY <1>6, <1>7, LineBytes
  <2>2. Line[1].pos + n = Size(Line[1].op, Line[1].kind) + 1
    BY <1>1, <1>2, <1>3, <1>4, <1>5
  <2>3. Line[n + 1].pos = 1
    BY <2>1, <2>2, ChainNext DEF FrameInv
  <2>4. QED BY <1>6, <2>1, <2>3
<1>8. ASSUME clean PROVE Own(Line, 8, Kind) /\ First.of = sent /\ Len(Line') = 0
  <2>1. Own(Line, 8, Kind)
    BY <1>8 DEF FrameInv, CleanPlace
  <2>2. \A k \in Kind : 8 <= Size(op, k)
    <3>1. op \in Op
      BY DEF TypeOK
    <3>2. QED BY <3>1, SizeFacts
  <2>3. Line[1].of = sent /\ Line[1].op = op /\ Len(Line) = Size(op, Line[1].kind) - 8 + 1
    BY <2>1, <2>2, OwnFacts
  <2>4. Len(Line) = Size(First.op, First.kind) - 8 + 1
    BY <1>1, <2>3
  <2>5. Len(Line') = 0
    BY <1>2, <1>3, <1>5, <1>6, <2>4
  <2>6. QED BY <1>1, <2>1, <2>3, <2>5
<1>9. QED BY <1>7, <1>8

LEMMA BodyEnds ==
  ASSUME TypeOK, FrameInv, mode = "tcp", phase = "body", Take(BodySize), Mine, Len(stream) > 0,
         NEW result \in {"ok", "illegal"}, End(result, First),
         First.kind \in {"damaged", IF result = "ok" THEN "good" ELSE "illegal"}
  PROVE  FrameInv'
<1>1. BodySize \in Nat \ {0}
  BY BodySizeType
<1>2. /\ Chain(Line)' /\ ClosedInv' /\ OwedInv'
      /\ Len(Line) > 0 /\ First = Line[1]
      /\ phase' = "idle" /\ UNCHANGED <<mode, open, sent, op, owed, clean>>
      /\ outcome' = [result |-> result, of |-> First.of, kind |-> First.kind]
      /\ Dropped(BodySize)
  BY <1>1, EndKept
<1>3. /\ Len(Line') > 0 => Line'[1].pos = 1
      /\ clean => Len(Line') = 0
  BY <1>2, BodyDropped
<1>4. First.of = sent
  BY MineFacts
<1>5. TcpPlace'
  BY <1>2, <1>3 DEF TcpPlace
<1>6. Fresh'
  BY <1>1, <1>2, <1>4, FreshEnd DEF FrameInv
<1>7. OwnAnswer'
  BY <1>2, <1>4 DEF OwnAnswer
<1>8. clean => CleanPlace'
  <2>1. clean => \A r \in owed : r.no # sent
    BY <1>2 DEF FrameInv, CleanPlace
  <2>2. QED BY <1>2, <1>3, <2>1 DEF CleanPlace, Misread
<1>9. QED BY <1>2, <1>5, <1>6, <1>7, <1>8 DEF FrameInv

LEMMA BodyTCPStep ==
  ASSUME TypeOK, FrameInv, BodyTCP
  PROVE  FrameInv'
<1>1. mode = "tcp" /\ phase = "body" /\ Len(stream) > 0
  BY Nonempty DEF BodyTCP
<1>2. BodySize \in Nat
  BY <1>1, BodySizeType
<1>3. CASE Take(BodySize) /\ (~Mine \/ First.kind = "damaged") /\ Goto("header")
  <2>1. /\ Chain(Line)' /\ ClosedInv' /\ OwedInv' /\ OwnAnswer' /\ Fresh'
        /\ phase' = "header" /\ UNCHANGED <<mode, open, sent, op, owed, clean, outcome>>
        /\ Dropped(BodySize)
    BY <1>1, <1>2, <1>3, GotoKept DEF Phase
  <2>2. /\ Len(Line') > 0 => Line'[1].pos = 1
        /\ clean => Len(Line') = 0
    BY <1>1, <2>1, BodyDropped
  <2>3. clean => CleanPlace'
    BY <2>1, <2>2 DEF CleanPlace
  <2>4. TcpPlace'
    BY <2>1, <2>2 DEF TcpPlace
  <2>5. QED BY <2>1, <2>3, <2>4 DEF FrameInv
<1>4. CASE Take(BodySize) /\ Mine /\ First.kind \in {"good", "damaged"} /\ End("ok", First)
  BY <1>1, <1>4, BodyEnds
<1>5. CASE /\ Take(BodySize) /\ Mine /\ First.kind \in {"illegal", "damaged"} /\ op = "read"
           /\ End("illegal", First)
  BY <1>1, <1>5, BodyEnds
<1>6. QED BY <1>3, <1>4, <1>5, FailStep DEF BodyTCP

\* The end of an RTU frame: without late answers nothing is left of it, or one byte of a damaged answer.
LEMMA RtuEnds ==
  ASSUME TypeOK, FrameInv, mode = "rtu", phase # "idle", NEW n \in Nat \ {0}, Take(n),
         NEW result \in {"ok", "illegal"}, End(result, First),
         clean => /\ Len(Line) = n + (IF result = "ok" THEN 0 ELSE 1) /\ Line[1].of = sent
                  /\ result = "ok" =>
                       Line[1].kind = "good" \/ (Line[1].kind = "damaged" /\ op = "write")
                  /\ result = "illegal" => Line[1].kind = "damaged"
  PROVE  FrameInv'
<1>1. /\ Chain(Line)' /\ ClosedInv' /\ OwedInv'
      /\ Len(Line) > 0 /\ First = Line[1]
      /\ phase' = "idle" /\ UNCHANGED <<mode, open, sent, op, owed, clean>>
      /\ outcome' = [result |-> result, of |-> First.of, kind |-> First.kind]
      /\ Dropped(n)
  BY EndKept
<1>2. clean => Len(Line') = IF result = "ok" THEN 0 ELSE 1
  BY <1>1, LineBytes DEF Dropped
<1>3. OwnAnswer'
  BY <1>1 DEF OwnAnswer, Reliable
<1>4. clean => CleanPlace'
  <2>1. clean => \A r \in owed : r.no # sent
    BY <1>1 DEF FrameInv, CleanPlace
  <2>2. clean => (Misread' <=> result = "illegal")
    BY <1>1 DEF Misread
  <2>3. QED BY <1>1, <1>2, <2>1, <2>2 DEF CleanPlace
<1>5. QED BY <1>1, <1>3, <1>4 DEF FrameInv

LEMMA HeaderRTUStep ==
  ASSUME TypeOK, FrameInv, HeaderRTU
  PROVE  FrameInv'
<1>1. mode = "rtu" /\ phase = "header" /\ op = "read"
  BY DEF HeaderRTU
<1>2. ASSUME NEW p \in {"exception", "body"}, NEW kinds \in SUBSET Kind, Take(3), Goto(p),
             First.pos = 1 => First.kind \in kinds,
             kinds = IF p = "body" THEN {"good", "damaged"} ELSE {"illegal", "exception", "damaged"}
      PROVE  FrameInv'
  <2>1. /\ Chain(Line)' /\ ClosedInv' /\ OwedInv' /\ OwnAnswer'
        /\ phase' = p /\ UNCHANGED <<mode, open, sent, op, owed, clean, outcome>>
        /\ Dropped(3)
    BY <1>1, <1>2, GotoKept DEF Phase
  <2>2. Len(stream) > 0
    BY <1>2, LineType DEF Take
  <2>3. First = Line[1] /\ Len(Line) > 0
    BY <2>2, FirstFacts
  <2>4. ASSUME clean PROVE CleanPlace'
    <3>1. CleanPlace
      BY <2>4 DEF FrameInv
    <3>2. Own(Line, 1, Kind) /\ \A r \in owed : r.no # sent
      BY <1>1, <2>3, <3>1 DEF CleanPlace
    <3>3. \A k \in Kind : 1 <= Size(op, k)
      <4>1. op \in Op
        BY DEF TypeOK
      <4>2. QED BY <4>1, ModeFacts, SizeFacts
    <3>4. Line[1].pos = 1 /\ Own(Line, 1, {Line[1].kind})
      <4>1. 1 \in 1..8 /\ Kind \in SUBSET Kind
        OBVIOUS
      <4>2. QED BY <3>2, <3>3, <4>1, OwnFacts
    <3>5. Own(Line, 1, kinds)
      BY <1>2, <2>3, <3>4 DEF Own
    <3>6. Own(Line, 1 + 3, kinds)'
      BY <2>1, <3>5, OwnDropped
    <3>7. QED BY <1>1, <1>2, <2>1, <3>2, <3>6 DEF CleanPlace
  <2>5. QED BY <1>1, <2>1, <2>4 DEF FrameInv
<1>3. CASE Take(3) /\ (First.kind # "good" \/ ~AtStart) /\ Goto("exception")
  <2>1. First.pos = 1 => First.kind \in {"illegal", "exception", "damaged"}
    <3>1. Len(stream) > 0
      BY <1>3, LineType DEF Take
    <3>2. First.kind \in Kind
      BY <3>1, FirstFacts
    <3>3. QED BY <1>3, <3>2 DEF AtStart, Kind
  <2>2. {"illegal", "exception", "damaged"} \in SUBSET Kind
    BY DEF Kind
  <2>3. QED BY <1>2, <1>3, <2>1, <2>2
<1>4. CASE /\ Take(3) /\ AtStart /\ First.kind \in {"good", "damaged"} /\ First.op = "read"
           /\ Goto("body")
  BY <1>2, <1>4 DEF Kind
<1>5. QED BY <1>3, <1>4, FailStep DEF HeaderRTU

LEMMA BodyRTUStep ==
  ASSUME TypeOK, FrameInv, BodyRTU
  PROVE  FrameInv'
<1>1. mode = "rtu" /\ phase = "body"
  BY DEF BodyRTU
<1>2. CASE Take(4) /\ First.kind = "good" /\ End("ok", First)
  <2>1. Len(Line) > 0 /\ First = Line[1]
    BY <1>1, <1>2, EndKept
  <2>2. ASSUME clean PROVE Len(Line) = 4 /\ Line[1].of = sent
    <3>1. op = "read" /\ Own(Line, 4, {"good", "damaged"})
      BY <1>1, <2>2 DEF FrameInv, CleanPlace
    <3>2. \A k \in {"good", "damaged"} : k \in Kind /\ Size(op, k) = 7
      BY <1>1, <3>1, SizeFacts DEF Kind, Op
    <3>3. /\ Line[1].of = sent /\ Line[1].kind \in {"good", "damaged"}
          /\ Len(Line) = Size(op, Line[1].kind) - 4 + 1
      BY <3>1, <3>2, OwnFacts
    <3>4. QED BY <3>2, <3>3
  <2>3. /\ phase # "idle" /\ 4 \in Nat \ {0} /\ Line[1].kind = "good" /\ "ok" \in {"ok", "illegal"}
    BY <1>1, <1>2, <2>1
  <2>4. clean => /\ Len(Line) = 4 + (IF "ok" = "ok" THEN 0 ELSE 1) /\ Line[1].of = sent
                 /\ "ok" = "ok" =>
                      Line[1].kind = "good" \/ (Line[1].kind = "damaged" /\ op = "write")
                 /\ "ok" = "illegal" => Line[1].kind = "damaged"
    BY <2>2, <2>3
  <2>5. QED BY <1>1, <1>2, <2>3, <2>4, RtuEnds
<1>3. QED BY <1>2, FailStep DEF BodyRTU

LEMMA ExceptionRTUStep ==
  ASSUME TypeOK, FrameInv, ExceptionRTU
  PROVE  FrameInv'
<1>1. mode = "rtu" /\ phase = "exception"
  BY DEF ExceptionRTU
<1>2. CASE Take(3) /\ End("illegal", First)
  <2>1. Dropped(3)
    BY <1>1, <1>2, EndKept
  <2>2. ASSUME clean
        PROVE  Len(Line) = 3 + 1 /\ Line[1].of = sent /\ Line[1].kind = "damaged"
    <3>1. op = "read" /\ Own(Line, 4, {"illegal", "exception", "damaged"})
      BY <1>1, <2>2 DEF FrameInv, CleanPlace
    <3>2. \A k \in {"illegal", "exception", "damaged"} :
            k \in Kind /\ Size(op, k) = IF k = "damaged" THEN 7 ELSE 5
      BY <1>1, <3>1, SizeFacts DEF Kind, Op
    <3>3. /\ Line[1].of = sent /\ Line[1].kind \in {"illegal", "exception", "damaged"}
          /\ Len(Line) = Size(op, Line[1].kind) - 4 + 1
      BY <3>1, <3>2, OwnFacts
    <3>4. 3 <= Len(Line)
      BY <2>1 DEF Dropped
    <3>5. Line[1].kind = "damaged"
      BY <3>2, <3>3, <3>4
    <3>6. QED BY <3>2, <3>3, <3>5
  <2>3. phase # "idle" /\ 3 \in Nat \ {0} /\ "illegal" \in {"ok", "illegal"}
    BY <1>1
  <2>4. clean => /\ Len(Line) = 3 + (IF "illegal" = "ok" THEN 0 ELSE 1) /\ Line[1].of = sent
                 /\ "illegal" = "ok" =>
                      Line[1].kind = "good" \/ (Line[1].kind = "damaged" /\ op = "write")
                 /\ "illegal" = "illegal" => Line[1].kind = "damaged"
    BY <2>2
  <2>5. QED BY <1>1, <1>2, <2>3, <2>4, RtuEnds
<1>3. QED BY <1>2, FailStep DEF ExceptionRTU

LEMMA WriteRTUStep ==
  ASSUME TypeOK, FrameInv, WriteRTU
  PROVE  FrameInv'
<1>1. mode = "rtu" /\ phase = "header" /\ op = "write"
  BY DEF WriteRTU
<1>2. CASE Take(8) /\ ~(AtStart /\ First.kind \in {"illegal", "exception"}) /\ End("ok", First)
  <2>1. Len(Line) > 0 /\ First = Line[1] /\ Dropped(8)
    BY <1>1, <1>2, EndKept
  <2>2. ASSUME clean
        PROVE  Len(Line) = 8 /\ Line[1].of = sent /\ Line[1].kind \in {"good", "damaged"}
    <3>1. Own(Line, 1, Kind)
      BY <1>1, <2>1, <2>2 DEF FrameInv, CleanPlace
    <3>2. \A k \in Kind : 1 <= Size(op, k)
                          /\ Size(op, k) = IF k \in {"illegal", "exception"} THEN 5 ELSE 8
      BY <1>1, SizeFacts DEF Op
    <3>3. /\ Line[1].of = sent /\ Line[1].kind \in Kind
          /\ Len(Line) = Size(op, Line[1].kind) - 1 + 1
      BY <3>1, <3>2, OwnFacts
    <3>4. Len(Line) \in Nat /\ 8 <= Len(Line)
      BY <2>1, LineBytes DEF Dropped
    <3>5. Line[1].kind \notin {"illegal", "exception"}
      BY <3>2, <3>3, <3>4
    <3>6. QED BY <3>2, <3>3, <3>5 DEF Kind
  <2>3. /\ mode = "rtu" /\ phase # "idle" /\ 8 \in Nat \ {0} /\ "ok" \in {"ok", "illegal"}
        /\ Take(8) /\ End("ok", First)
    BY <1>1, <1>2
  <2>4. clean => /\ Len(Line) = 8 + (IF "ok" = "ok" THEN 0 ELSE 1) /\ Line[1].of = sent
                 /\ "ok" = "ok" =>
                      Line[1].kind = "good" \/ (Line[1].kind = "damaged" /\ op = "write")
                 /\ "ok" = "illegal" => Line[1].kind = "damaged"
    BY <1>1, <2>2
  <2>5. QED BY <2>3, <2>4, RtuEnds
<1>3. QED BY <1>2, FailStep DEF WriteRTU

LEMMA FrameStep == TypeOK /\ FrameInv /\ [Next]_vars => FrameInv'
<1>1. SUFFICES ASSUME TypeOK, FrameInv, [Next]_vars PROVE FrameInv'
  OBVIOUS
<1>2. CASE Dial BY <1>1, <1>2, DialStep
<1>3. CASE \E o \in Op : Request(o) BY <1>1, <1>3, RequestStep
<1>4. CASE \E r \in owed, kind \in Kind : \E n \in {2, Size(r.op, kind)} : Answer(r, kind, n)
  BY <1>1, <1>4, AnswerStep
<1>5. CASE Arrive BY <1>1, <1>5, ArriveStep
<1>6. CASE Read
  BY <1>1, <1>6, HeaderTCPStep, BodyTCPStep, HeaderRTUStep, BodyRTUStep, ExceptionRTUStep,
     WriteRTUStep
  DEF Read
<1>7. CASE Timeout BY <1>1, <1>7, FailStep DEF Timeout
<1>8. CASE UNCHANGED vars
  <2>1. UNCHANGED <<mode, open, sent, op, phase, outcome, stream, coming, owed, clean>>
    BY <1>8 DEF vars, reader, line
  <2>2. Line' = Line
    BY <2>1 DEF Line
  <2>3. \A o, k : Size(o, k)' = Size(o, k)
    BY <2>1 DEF Size
  <2>4. Chain(Line)'
    BY <1>1, <2>2, <2>3 DEF FrameInv, Chain
  <2>5. ClosedInv' = ClosedInv /\ Fresh' = Fresh /\ OwedInv' = OwedInv
    BY <2>1, <2>2 DEF ClosedInv, Fresh, OwedInv
  <2>6. OwnAnswer' = OwnAnswer
    BY <2>1 DEF OwnAnswer, Reliable
  <2>7. TcpPlace' = TcpPlace
    BY <2>1, <2>2 DEF TcpPlace
  <2>8. CleanPlace' = CleanPlace
    BY <2>1, <2>2, <2>3 DEF CleanPlace, Own, Misread
  <2>9. QED BY <1>1, <2>1, <2>4, <2>5, <2>6, <2>7, <2>8 DEF FrameInv
<1>9. QED BY <1>1, <1>2, <1>3, <1>4, <1>5, <1>6, <1>7, <1>8 DEF Next

LEMMA FrameInit == Init => FrameInv
<1>1. SUFFICES ASSUME Init PROVE FrameInv
  OBVIOUS
<1>2. Len(Line) = 0
  BY <1>1 DEF Init, Line
<1>3. Chain(Line)
  BY <1>2 DEF Chain
<1>4. QED BY <1>1, <1>2, <1>3
      DEF Init, FrameInv, ClosedInv, TcpPlace, Fresh, OwedInv, CleanPlace, OwnAnswer, Pending, Misread

\* The bytes on the line are whole frames but for the part that was read, young enough to be told apart.
THEOREM FramesCorrect == Spec => []FrameInv
BY FrameInit, FrameStep, TypeCorrect, PTL DEF Spec

\* Whatever timed out, was retried or came late: a request ends well, or with its register called illegal, only by
\* its own answer, for every number of transactions and every lateness below it (TCP), and on a line without late
\* answers (RTU).  That answer said so, or it was damaged where the code does not check it.
THEOREM AnswersOwn == Spec => []OwnAnswer
<1>1. FrameInv => OwnAnswer
  BY DEF FrameInv
<1>2. QED BY <1>1, FramesCorrect, PTL

\* A connection the broker keeps is left between two frames (TCP), and without late answers it is left empty but for
\* the byte behind a damaged RTU answer that was taken for an exception.
THEOREM ConnectionClean == Spec => []CleanBetween
<1>1. TypeOK /\ FrameInv => CleanBetween
  <2>1. SUFFICES ASSUME TypeOK, FrameInv, phase = "idle", open
                 PROVE  /\ mode = "tcp" /\ stream # <<>> => AtStart
                        /\ clean => /\ Len(stream) + Len(coming) = IF Misread THEN 1 ELSE 0
                                    /\ \A r \in owed : r.no = sent => outcome.result = "error"
    BY DEF CleanBetween
  <2>2. Len(Line) = Len(stream) + Len(coming)
    BY <2>1, LineType
  <2>3. clean => Len(stream) + Len(coming) = IF Misread THEN 1 ELSE 0
    BY <2>1, <2>2 DEF FrameInv, CleanPlace
  <2>4. ASSUME mode = "tcp", stream # <<>> PROVE AtStart
    <3>1. Len(stream) > 0
      BY <2>1, <2>4, Nonempty
    <3>2. First = Line[1] /\ Len(Line) > 0
      BY <2>1, <3>1, FirstFacts
    <3>3. QED BY <2>1, <2>4, <3>2 DEF FrameInv, TcpPlace, AtStart
  <2>5. clean => \A r \in owed : r.no = sent => outcome.result = "error"
    BY <2>1 DEF FrameInv, CleanPlace
  <2>6. QED BY <2>3, <2>4, <2>5
<1>2. QED BY <1>1, TypeCorrect, FramesCorrect, PTL
=============================================================================
