---------------------------- MODULE ModbusFrames ----------------------------
(***************************************************************************)
(* internal/modbus: one request after another on the broker's connection,  *)
(* as Modbus TCP (tcp.go) or as RTU frames through a serial gateway        *)
(* (rtu.go), with what the broker does about the outcome: it closes the    *)
(* connection on every error but the exception 0x02 of a read.             *)
(*                                                                         *)
(* The connection is a stream of bytes.  A byte is the answer it belongs   *)
(* to and its position there; the reader takes bytes by number, and what   *)
(* it makes of them depends on where it starts.  A frame has the length of *)
(* the answer for one register.  The inverter, or a gateway in front of    *)
(* it, may answer a request late, on the connection of a later one.  A     *)
(* damaged answer has the bytes of a good one, of which any may be wrong.  *)
(* A length, checksum or number that fits another by chance is left out.   *)
(***************************************************************************)
EXTENDS Integers, Sequences

CONSTANTS
  Mode,         \* of {"tcp", "rtu"}: Config.UseRTU
  TxSpace,      \* number of transaction numbers, 65536
  LateBy,       \* an answer is to one of the last LateBy requests
  MaxRequests   \* bound on the requests sent

ASSUME ModeAssumption == Mode \subseteq {"tcp", "rtu"}
ASSUME NumbersAssumption ==
  /\ TxSpace \in Nat /\ LateBy \in 1..(TxSpace - 1) /\ MaxRequests \in Nat

VARIABLES
  mode,      \* which of the two framings
  open,      \* the broker has a connection
  sent,      \* number of the last request
  op,        \* what it asks for
  phase,     \* where its reader is
  stream,    \* bytes that arrived and were not read
  coming,    \* bytes of the last answer still under way
  owed,      \* requests not yet answered
  clean,     \* no late answer, and no rest of a damaged one, came before the last request on this connection
  outcome    \* how the last request ended, and the answer that ended it

reader == <<sent, op, phase, outcome>>
line == <<stream, coming, owed, clean>>
vars == <<mode, open, reader, line>>

Op == {"read", "write"}
Kind == {"good", "illegal", "exception", "damaged"}   \* illegal is the exception 0x02
Phase == {"idle", "header", "body", "exception"}

Pending == [result |-> "none", of |-> 0, kind |-> "good"]
Failed == [result |-> "error", of |-> 0, kind |-> "good"]

\* Bytes of an answer.
Size(o, kind) ==
  IF mode = "tcp"
  THEN IF kind \in {"illegal", "exception"} THEN 9 ELSE IF o = "read" THEN 11 ELSE 12
  ELSE IF kind \in {"illegal", "exception"} THEN 5 ELSE IF o = "read" THEN 7 ELSE 8

Frame(r, kind) ==
  [j \in 1..Size(r.op, kind) |-> [of |-> r.no, op |-> r.op, kind |-> kind, pos |-> j, last |-> j = Size(r.op, kind)]]

Init ==
  /\ mode \in Mode
  /\ open = FALSE
  /\ sent = 0
  /\ op = "read"
  /\ phase = "idle"
  /\ stream = <<>>
  /\ coming = <<>>
  /\ owed = {}
  /\ clean = TRUE
  /\ outcome = Pending

-----------------------------------------------------------------------------
(* The broker and the line. *)

\* A damaged answer was taken for the exception 0x02 and the connection kept: the rest of it is still to be read.
Misread == mode = "rtu" /\ outcome.result = "illegal" /\ outcome.kind = "damaged"

Close == open' = FALSE /\ stream' = <<>> /\ coming' = <<>>

Dial ==
  /\ phase = "idle" /\ ~open
  /\ open' = TRUE /\ clean' = TRUE
  /\ UNCHANGED <<mode, reader, stream, coming, owed>>

\* Mutant: the next request has the number of the last.
Request_SameNumber(o) ==
  /\ phase = "idle" /\ open /\ sent < MaxRequests
  /\ op' = o
  /\ phase' = "header" /\ outcome' = Pending
  /\ owed' = owed \cup {[no |-> sent + 1, op |-> o]}
  /\ UNCHANGED <<mode, open, sent, stream, coming, clean>>

\* Writing the request may fail after the inverter has it, or before.
Request(o) ==
  /\ phase = "idle" /\ open /\ sent < MaxRequests
  /\ sent' = sent + 1
  /\ op' = o
  /\ \/ /\ phase' = "header" /\ outcome' = Pending
        /\ owed' = owed \cup {[no |-> sent + 1, op |-> o]}
        /\ UNCHANGED <<open, stream, coming>>
     \/ /\ phase' = "idle" /\ outcome' = Failed
        /\ owed' \in {owed, owed \cup {[no |-> sent + 1, op |-> o]}}
        /\ Close
  /\ clean' = (clean /\ ~Misread)
  /\ UNCHANGED mode

\* The answer to a request begins to arrive; its first n bytes are there.
Answer(r, kind, n) ==
  /\ open /\ coming = <<>>
  /\ r.no > sent - LateBy
  /\ LET f == Frame(r, kind)
     IN  /\ stream' = stream \o SubSeq(f, 1, n)
         /\ coming' = SubSeq(f, n + 1, Len(f))
  /\ owed' = owed \ {r}
  /\ clean' = (clean /\ r.no = sent /\ phase # "idle")
  /\ UNCHANGED <<mode, open, reader>>

Arrive ==
  /\ coming # <<>>
  /\ stream' = stream \o coming
  /\ coming' = <<>>
  /\ UNCHANGED <<mode, open, reader, owed, clean>>

-----------------------------------------------------------------------------
(* The reader. *)

\* ReadFull of n bytes.
Take(n) == Len(stream) >= n /\ stream' = SubSeq(stream, n + 1, Len(stream))
First == stream[1]
AtStart == First.pos = 1

\* An error the broker does not tell from a broken line: handleError.
Fail ==
  /\ phase' = "idle" /\ outcome' = Failed
  /\ Close
  /\ UNCHANGED <<mode, sent, op, owed, clean>>

\* The request ends and the connection stays.
End(result, b) ==
  /\ phase' = "idle"
  /\ outcome' = [result |-> result, of |-> b.of, kind |-> b.kind]
  /\ UNCHANGED <<mode, open, sent, op, coming, owed, clean>>

Goto(p) == phase' = p /\ UNCHANGED <<mode, open, sent, op, coming, owed, clean, outcome>>

\* The 7 bytes of the MBAP header; a length that makes no sense is an error.
HeaderTCP ==
  /\ mode = "tcp" /\ phase = "header"
  /\ \/ /\ Take(7) /\ AtStart
        /\ Goto("body")
     \/ /\ Len(stream) >= 7 /\ (First.kind = "damaged" \/ ~AtStart)
        /\ Fail

\* Mutant: an answer of any transaction is taken.
Mine_Any == TRUE

BodySize == Size(First.op, First.kind) - 7
Mine == First.of % TxSpace = sent % TxSpace

\* The rest of the frame.  A stale one is skipped, and one whose number is damaged.  Of the rest only the exception
\* bit is looked at: there is no checksum, and no byte but the length of the data of a read.  An exception 0x02 ends
\* a read and no write without an error.
BodyTCP ==
  /\ mode = "tcp" /\ phase = "body" /\ stream # <<>>
  /\ \/ Take(BodySize) /\ (~Mine \/ First.kind = "damaged") /\ Goto("header")
     \/ Take(BodySize) /\ Mine /\ First.kind \in {"good", "damaged"} /\ End("ok", First)
     \/ Take(BodySize) /\ Mine /\ First.kind \in {"illegal", "damaged"} /\ op = "read" /\ End("illegal", First)
     \/ /\ Len(stream) >= BodySize
        /\ Mine /\ First.kind # "good" /\ ~(First.kind = "illegal" /\ op = "read")
        /\ Fail

\* The first 3 bytes of the answer to a read: slave, function and length, or the exception's code.  The bit of an
\* exception is looked at before anything was checked.
HeaderRTU ==
  /\ mode = "rtu" /\ phase = "header" /\ op = "read"
  /\ \/ /\ Take(3) /\ (First.kind # "good" \/ ~AtStart)
        /\ Goto("exception")
     \/ /\ Take(3) /\ AtStart /\ First.kind \in {"good", "damaged"} /\ First.op = "read"
        /\ Goto("body")
     \/ /\ Len(stream) >= 3
        /\ (First.kind = "damaged" \/ First.op = "write" \/ ~AtStart)
        /\ Fail

\* The data and the checksum.
BodyRTU ==
  /\ mode = "rtu" /\ phase = "body" /\ stream # <<>>
  /\ \/ Take(4) /\ First.kind = "good" /\ End("ok", First)
     \/ Len(stream) >= 4 /\ First.kind # "good" /\ Fail

\* 3 more bytes of an exception, of which 2 are left: the code it reports is a byte of the checksum, or of the data
\* of a damaged answer.  The checksum of an exception is not looked at.
ExceptionRTU ==
  /\ mode = "rtu" /\ phase = "exception"
  /\ \/ Take(3) /\ End("illegal", First)
     \/ Len(stream) >= 3 /\ Fail

\* The answer to a write, 8 bytes of which the second alone is looked at.
WriteRTU ==
  /\ mode = "rtu" /\ phase = "header" /\ op = "write"
  /\ \/ Take(8) /\ ~(AtStart /\ First.kind \in {"illegal", "exception"}) /\ End("ok", First)
     \/ Len(stream) >= 8 /\ ~(AtStart /\ First.kind = "good") /\ Fail

Needed ==
  CASE mode = "tcp" /\ phase = "header" -> 7
    [] mode = "tcp" /\ phase = "body"   -> IF stream = <<>> THEN 1 ELSE BodySize
    [] mode = "rtu" /\ phase = "header" -> IF op = "read" THEN 3 ELSE 8
    [] mode = "rtu" /\ phase = "body"   -> 4
    [] OTHER                            -> 3

\* Mutant: the connection survives a timeout.
Timeout_Kept ==
  /\ phase # "idle" /\ Len(stream) < Needed
  /\ phase' = "idle" /\ outcome' = Failed
  /\ UNCHANGED <<mode, open, sent, op, line>>

\* Mutant: the deadline is set for the header alone.
Timeout_Header ==
  /\ phase = "header" /\ Len(stream) < Needed
  /\ Fail

\* The deadline passes while the reader waits.  (Bytes that come as it passes are as good as bytes that come after.)
Timeout ==
  /\ phase # "idle" /\ Len(stream) < Needed
  /\ Fail

Read == HeaderTCP \/ BodyTCP \/ HeaderRTU \/ BodyRTU \/ ExceptionRTU \/ WriteRTU

Next ==
  \/ Dial
  \/ \E o \in Op : Request(o)
  \/ \E r \in owed, kind \in Kind : \E n \in {2, Size(r.op, kind)} : Answer(r, kind, n)
  \/ Arrive
  \/ Read
  \/ Timeout

\* Every read has a deadline, and bytes that are there are read.
Spec == Init /\ [][Next]_vars /\ WF_vars(Read) /\ WF_vars(Timeout)

-----------------------------------------------------------------------------
(* Properties. *)

ByteType == [of : 1..sent, op : Op, kind : Kind, pos : Nat, last : BOOLEAN]

TypeOK ==
  /\ mode \in Mode
  /\ open \in BOOLEAN
  /\ sent \in 0..MaxRequests
  /\ op \in Op
  /\ phase \in Phase
  /\ stream \in Seq(ByteType)
  /\ coming \in Seq(ByteType)
  /\ owed \subseteq [no : 1..sent, op : Op]
  /\ clean \in BOOLEAN
  /\ outcome \in [result : {"none", "ok", "illegal", "error"}, of : Nat, kind : Kind]

\* TCP tells late answers apart; RTU relies on a line without them, and without the rest of a damaged one.
Reliable == mode = "tcp" \/ clean

\* A request ends by its own answer and no other: a value is never another register's, and a register is called
\* illegal, and not read again, only if the inverter said so of this request, whatever timed out, was retried or
\* came late before.  A damaged answer may pass for either with TCP, which has no checksum of its own; with RTU the
\* data of a read are those that were sent, but the end of a write and an exception are taken without a check.
OwnAnswer ==
  outcome.result \in {"ok", "illegal"} /\ Reliable =>
    /\ outcome.of = sent
    /\ \/ outcome.kind = IF outcome.result = "ok" THEN "good" ELSE "illegal"
       \/ outcome.kind = "damaged" /\ (mode = "rtu" => op = "write" \/ outcome.result = "illegal")

\* Between two requests the next byte of a kept connection begins a frame (TCP).  Without late answers there is none:
\* the next request starts from an empty line, and unless the last one failed its answer is not still to come.  In one
\* case the code leaves a byte there: when it took a damaged RTU answer to a read for the exception 0x02.
CleanBetween ==
  phase = "idle" /\ open =>
    /\ mode = "tcp" /\ stream # <<>> => AtStart
    /\ clean => /\ Len(stream) + Len(coming) = IF Misread THEN 1 ELSE 0
                /\ \A r \in owed : r.no = sent => outcome.result = "error"

\* The broker gets an answer to every request, if only an error: its goroutine is not held by a silent inverter.
RequestsEnd == phase # "idle" ~> phase = "idle"

\* An exception 0x02 that arrived ends its read as such.
IllegalIsFinal ==
  [][phase # "idle" /\ phase' = "idle" /\ op = "read" /\ clean
       /\ (\E j \in DOMAIN stream : stream[j].of = sent /\ stream[j].kind = "illegal" /\ stream[j].last)
     => outcome'.result = "illegal"]_vars
=============================================================================
