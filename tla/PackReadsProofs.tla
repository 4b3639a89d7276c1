--------------------------- MODULE PackReadsProofs ---------------------------
(***************************************************************************)
(* Proofs about PackReads for every set of clients, packs and readers and  *)
(* every capacity of the channels.                                         *)
(***************************************************************************)
EXTENDS PackReads, TLAPS

Waits == {"writing", "rewriting", "reading"}
Result == [kind : {"section_schema", "register_value", "section_complete"}, pack : Pack \cup {Nothing},
           of : Pack \cup {Nothing}, overtaken : BOOLEAN]
Command == [pack : Pack \cup {Nothing}, by : Reader \cup {Nothing}]
Answer == [result : {"none", "ok", "error"}, of : Pack \cup {Nothing}]

HubType ==
  /\ subscribers \subseteq Client
  /\ connected \in BOOLEAN
  /\ selected \in [pack : Pack \cup {Nothing}, client : Client \cup {Nothing}]
  /\ readCancel \in Reader \cup {Nothing}
  /\ reading \in BOOLEAN

ResultsType == results \in Seq(Result) /\ Len(results) <= ResultCap

ReaderType ==
  /\ pc \in [Reader -> Place]
  /\ pack \in [Reader -> Pack \cup {Nothing}]
  /\ owner \in [Reader -> Client \cup {Nothing}]
  /\ cancelled \in [Reader -> BOOLEAN]
  /\ overtaken \in [Reader -> BOOLEAN]

BrokerType ==
  /\ queue \in Seq(Command)
  /\ Len(queue) <= QueueCap
  /\ query \in Pack \cup {Nothing}

PageType == requests \in 0..MaxRequests /\ view \in [Client -> Pack \cup {Nothing}]

ReplyType == answer \in [Reader -> Answer] /\ refused \in [Reader -> Nat]

\* A reader has one command in the queue, and waits for it, still without an answer.
OneCommand == \A i, j \in DOMAIN queue : queue[i].by # Nothing /\ queue[i].by = queue[j].by => i = j

Waiting ==
  \A i \in DOMAIN queue, r \in Reader :
    queue[i].by = r => /\ pc[r] \in Waits
                       /\ answer[r].result = "none"
                       /\ queue[i].pack # Nothing => pc[r] # "reading"

\* A reader that asks for something holds no earlier answer.
AnswerTaken ==
  \A r \in Reader : pc[r] \in Calls \cup {"none", "pause", "settle", "schema"} => answer[r].result = "none"

\* How many writes may have been refused to a reader at a place.
Allowed(place, result) ==
  IF place \in {"none", "write"} \/ (place = "writing" /\ result = "none") THEN 0
  ELSE IF place \in {"writing", "pause", "rewrite"} \/ (place = "rewriting" /\ result = "none") THEN 1
  ELSE 2

Refusals == \A r \in Reader : refused[r] <= Allowed(pc[r], answer[r].result)

TypeInv == HubType /\ ResultsType /\ ReaderType /\ BrokerType /\ PageType /\ ReplyType
CallInv == OneCommand /\ Waiting /\ AnswerTaken /\ Refusals
IInv    == TypeInv /\ CallInv

LEMMA PlacesAre ==
  Place = {"none", "pause", "settle", "schema", "publish", "complete", "fail", "exit",
           "write", "rewrite", "read", "writing", "rewriting", "reading"}
<1>1. {Wait(call) : call \in Calls} = Waits
  BY DEF Wait, Calls, Waits
<1>2. QED BY <1>1 DEF Place, Calls, Waits

LEMMA IInvGives == IInv => TypeOK
<1> SUFFICES ASSUME IInv PROVE TypeOK
  OBVIOUS
<1>1. \A r \in Reader : refused[r] \in 0..2
  BY DEF IInv, TypeInv, CallInv, ReplyType, Refusals, Allowed
<1>2. refused \in [Reader -> 0..2]
  BY <1>1 DEF IInv, TypeInv, ReplyType
<1>3. QED
  BY <1>2 DEF IInv, TypeInv, TypeOK, HubType, ResultsType, ReaderType, BrokerType, PageType, ReplyType,
              Result, Command, Answer

LEMMA IInvInit == Init => IInv
<1> SUFFICES ASSUME Init PROVE IInv
  OBVIOUS
<1>1. HubType
  BY DEF Init, HubType, NoSelection
<1>2. ResultsType /\ BrokerType
  BY SizesAssumption DEF SizesAssumption, Init, ResultsType, BrokerType
<1>3. ReaderType
  BY PlacesAre DEF Init, ReaderType
<1>4. PageType /\ ReplyType
  BY SizesAssumption DEF SizesAssumption, Init, PageType, ReplyType, Answer, NoAnswer
<1>5. OneCommand /\ Waiting
  BY DEF Init, OneCommand, Waiting
<1>6. AnswerTaken /\ Refusals
  BY DEF Init, AnswerTaken, Refusals, Allowed, NoAnswer
<1>7. QED BY <1>1, <1>2, <1>3, <1>4, <1>5, <1>6 DEF IInv, TypeInv, CallInv

-----------------------------------------------------------------------------
(* The reading goroutines. *)

LEMMA WaitIs ==
  ASSUME NEW call \in Calls
  PROVE  /\ Wait(call) \in Waits
         /\ Wait(call) = "writing" <=> call = "write"
         /\ Wait(call) = "rewriting" <=> call = "rewrite"
         /\ Wait(call) = "reading" <=> call = "read"
BY DEF Wait, Calls, Waits

\* The move of a reader keeps the types of the readers.
LEMMA MoveType ==
  ASSUME ReaderType, NEW r \in Reader, NEW p \in Place, Goto(r, p), UNCHANGED <<pack, owner, cancelled>>,
         overtaken' \in [Reader -> BOOLEAN]
  PROVE  ReaderType' /\ pc'[r] = p /\ \A q \in Reader \ {r} : pc'[q] = pc[q]
BY DEF ReaderType, Goto

\* A reader moves on that waits for nothing, or whose wait is over.
LEMMA MoveCalls ==
  ASSUME IInv, NEW r \in Reader, NEW p \in Place \ Waits,
         pc'[r] = p, \A q \in Reader \ {r} : pc'[q] = pc[q] /\ answer'[q] = answer[q],
         pc[r] \notin Waits \/ answer[r].result # "none",
         UNCHANGED <<queue, refused>>,
         p \in Calls \cup {"none", "pause", "settle", "schema"} => answer'[r].result = "none",
         refused[r] <= Allowed(p, answer'[r].result)
  PROVE  CallInv'
<1>1. OneCommand'
  BY DEF IInv, CallInv, OneCommand
<1>2. Waiting'
  <2>1. \A i \in DOMAIN queue : queue[i].by # r
    BY DEF IInv, CallInv, Waiting
  <2>2. QED BY <2>1 DEF IInv, CallInv, Waiting
<1>3. AnswerTaken'
  BY DEF IInv, CallInv, AnswerTaken
<1>4. Refusals'
  BY DEF IInv, CallInv, Refusals
<1>5. QED BY <1>1, <1>2, <1>3, <1>4 DEF CallInv

\* What is left unchanged keeps its type.
LEMMA HubKept     == HubType /\ UNCHANGED <<subscribers, connected, selected, readCancel, reading>> => HubType'
BY DEF HubType
LEMMA ResultsKept == ResultsType /\ UNCHANGED results => ResultsType'
BY DEF ResultsType
LEMMA BrokerKept  == BrokerType /\ UNCHANGED <<queue, query>> => BrokerType'
BY DEF BrokerType
LEMMA PageKept    == PageType /\ UNCHANGED <<requests, view>> => PageType'
BY DEF PageType
LEMMA ReplyKept   == ReplyType /\ UNCHANGED <<answer, refused>> => ReplyType'
BY DEF ReplyType

LEMMA InvParts ==
  IInv => /\ HubType /\ ResultsType /\ ReaderType /\ BrokerType /\ PageType /\ ReplyType
          /\ OneCommand /\ Waiting /\ AnswerTaken /\ Refusals
BY DEF IInv, TypeInv, CallInv

\* A step that changes nothing but the place of a reader that waits for no answer.
LEMMA PlainMove ==
  ASSUME IInv, NEW r \in Reader, NEW p \in Place \ Waits, Goto(r, p), pc[r] \notin Waits,
         UNCHANGED <<hubVars, sectionVars, results, pack, owner, answer, refused, overtaken, cancelled,
                     brokerVars, requests, view>>,
         p \in Calls \cup {"none", "pause", "settle", "schema"} => answer[r].result = "none",
         refused[r] <= Allowed(p, answer[r].result)
  PROVE  IInv'
<1>1. UNCHANGED <<subscribers, connected, selected, readCancel, reading, results, pack, owner, answer, refused,
                  overtaken, cancelled, queue, query, requests, view>>
  BY DEF hubVars, sectionVars, brokerVars
<1>2. overtaken' \in [Reader -> BOOLEAN]
  BY <1>1, InvParts DEF ReaderType
<1>3. ReaderType' /\ pc'[r] = p /\ \A q \in Reader \ {r} : pc'[q] = pc[q]
  BY <1>1, <1>2, InvParts, MoveType
<1>4. CallInv'
  BY <1>1, <1>3, MoveCalls
<1>5. QED BY <1>1, <1>3, <1>4, InvParts, HubKept, ResultsKept, BrokerKept, PageKept, ReplyKept DEF IInv, TypeInv

\* A command in the queue: the only one of its reader, which waits for its answer.
LEMMA AskKeeps ==
  ASSUME IInv, NEW r \in Reader, Ask(r)
  PROVE  IInv'
<1>0. UNCHANGED <<subscribers, connected, selected, readCancel, reading, results, pack, owner, answer, refused,
                  cancelled, query, requests, view>> /\ pc[r] \in Calls
  BY DEF Ask, hubVars, sectionVars
<1>1. CASE /\ Len(queue) < QueueCap
           /\ queue' = Append(queue, [pack |-> IF pc[r] = "read" THEN Nothing ELSE pack[r], by |-> r])
           /\ Goto(r, Wait(pc[r]))
           /\ overtaken' = [q \in Reader |-> overtaken[q] \/ (cancelled[r] /\ pc[r] # "read" /\ pc[q] # "none")]
  <2> DEFINE c == [pack |-> IF pc[r] = "read" THEN Nothing ELSE pack[r], by |-> r]
             p == Wait(pc[r])
  <2>1. c \in Command /\ c.by = r /\ (c.pack # Nothing => pc[r] # "read")
    BY InvParts DEF Command, ReaderType
  <2>2. p \in Waits /\ (p = "reading" <=> pc[r] = "read") /\ (p = "writing" <=> pc[r] = "write")
        /\ (p = "rewriting" <=> pc[r] = "rewrite")
    BY <1>0, WaitIs
  <2>3. overtaken' \in [Reader -> BOOLEAN]
    BY <1>1
  <2>4. ReaderType' /\ pc'[r] = p /\ \A q \in Reader \ {r} : pc'[q] = pc[q]
    <3>1. p \in Place
      BY <2>2, PlacesAre DEF Waits
    <3>2. Goto(r, p) BY <1>1
    <3> HIDE DEF p
    <3>3. QED BY <1>0, <2>3, <3>1, <3>2, InvParts, MoveType
  <2> HIDE DEF c, p
  <2>5. queue \in Seq(Command) /\ queue' = Append(queue, c)
    BY <1>1, InvParts DEF BrokerType, c
  <2>6. /\ queue' \in Seq(Command) /\ Len(queue') = Len(queue) + 1
        /\ DOMAIN queue' = 1..(Len(queue) + 1) /\ DOMAIN queue = 1..Len(queue)
        /\ queue'[Len(queue) + 1] = c
        /\ \A i \in DOMAIN queue : queue'[i] = queue[i]
    BY <2>1, <2>5
  <2>7. BrokerType'
    BY <1>0, <1>1, <2>6, SizesAssumption, InvParts DEF SizesAssumption, BrokerType
  <2>8. \A i \in DOMAIN queue : queue[i].by # r
    BY <1>0, InvParts DEF Waiting, Waits, Calls
  <2>9. answer[r].result = "none" /\ answer' = answer
    BY <1>0, InvParts DEF AnswerTaken
  <2>10. OneCommand'
    <3> SUFFICES ASSUME NEW i \in DOMAIN queue', NEW j \in DOMAIN queue', queue'[i].by # Nothing,
                        queue'[i].by = queue'[j].by
                 PROVE  i = j
      BY DEF OneCommand
    <3>1. CASE i \in DOMAIN queue /\ j \in DOMAIN queue
      BY <2>6, <3>1, InvParts DEF OneCommand
    <3>2. CASE i \notin DOMAIN queue \/ j \notin DOMAIN queue
      <4>1. (i \notin DOMAIN queue => i = Len(queue) + 1) /\ (j \notin DOMAIN queue => j = Len(queue) + 1)
        BY <2>5, <2>6
      <4>2. QED BY <2>1, <2>6, <2>8, <3>2, <4>1
    <3>3. QED BY <3>1, <3>2
  <2>11. Waiting'
    <3> SUFFICES ASSUME NEW i \in DOMAIN queue', NEW q \in Reader, queue'[i].by = q
                 PROVE  /\ pc'[q] \in Waits
                        /\ answer'[q].result = "none"
                        /\ queue'[i].pack # Nothing => pc'[q] # "reading"
      BY DEF Waiting
    <3>1. CASE i \in DOMAIN queue
      <4>1. q # r /\ queue'[i] = queue[i]
        BY <2>6, <2>8, <3>1
      <4>2. QED BY <2>4, <2>9, <3>1, <4>1, InvParts DEF Waiting
    <3>2. CASE i \notin DOMAIN queue
      <4>1. i = Len(queue) + 1
        BY <2>5, <2>6, <3>2
      <4>2. QED BY <2>1, <2>2, <2>4, <2>6, <2>9, <4>1
    <3>3. QED BY <3>1, <3>2
  <2>12. AnswerTaken'
    BY <2>2, <2>4, <2>9, InvParts DEF AnswerTaken
  <2>13. Refusals'
    <3>1. refused[r] <= Allowed(p, "none")
      BY <1>0, <2>2, <2>9, InvParts DEF Refusals, Allowed, Calls, Waits, ReplyType
    <3>2. QED BY <1>0, <2>4, <2>9, <3>1, InvParts DEF Refusals
  <2>14. QED
    BY <1>0, <2>4, <2>7, <2>10, <2>11, <2>12, <2>13, InvParts, HubKept, ResultsKept, PageKept, ReplyKept
       DEF IInv, TypeInv, CallInv
<1>2. CASE cancelled[r] /\ Goto(r, OnError(r, pc[r])) /\ UNCHANGED <<queue, overtaken>>
  <2> DEFINE p == OnError(r, pc[r])
  <2>1. p \in {"exit", "fail"} /\ (p = "fail" => pc[r] = "rewrite")
    BY <1>0, <1>2 DEF OnError, Calls
  <2>2. p \in Place \ Waits /\ pc[r] \notin Waits
    BY <1>0, <2>1, PlacesAre DEF Waits, Calls
  <2>3. refused[r] <= Allowed(p, answer[r].result)
    BY <1>0, <2>1, InvParts DEF Refusals, Allowed, Calls, ReplyType
  <2>4. UNCHANGED <<hubVars, sectionVars, results, pack, owner, answer, refused, overtaken, cancelled,
                    brokerVars, requests, view>>
    BY <1>0, <1>2 DEF hubVars, sectionVars, brokerVars
  <2>5. Goto(r, p) BY <1>2
  <2>6. p \notin Calls \cup {"none", "pause", "settle", "schema"}
    BY <2>1 DEF Calls
  <2> HIDE DEF p
  <2>7. QED BY <2>2, <2>3, <2>4, <2>5, <2>6, PlainMove
<1>3. QED BY <1>1, <1>2 DEF Ask

\* A call given up leaves no command of its reader in the queue, and no answer.
LEMMA GiveUpKeeps ==
  ASSUME IInv, NEW r \in Reader, GiveUp(r)
  PROVE  IInv'
<1>0. UNCHANGED <<subscribers, connected, selected, readCancel, reading, results, pack, owner, refused, overtaken,
                  cancelled, query, requests, view>>
  BY DEF GiveUp, hubVars, sectionVars
<1>1. PICK call \in Calls : /\ pc[r] = Wait(call) /\ cancelled[r] /\ Goto(r, OnError(r, call))
                            /\ queue' = Orphaned(r) /\ answer' = [answer EXCEPT ![r] = NoAnswer]
  BY DEF GiveUp
<1> DEFINE p == OnError(r, call)
<1>2. p \in {"exit", "fail"} /\ (p = "fail" => pc[r] = "rewriting")
  BY <1>1 DEF OnError, Wait, Calls
<1>3. p \in Place /\ p \notin Waits \cup Calls \cup {"none", "pause", "settle", "schema"}
  BY <1>2, PlacesAre DEF Waits, Calls
<1>4. Goto(r, p) BY <1>1
<1> HIDE DEF p
<1>5. ReaderType' /\ pc'[r] = p /\ \A q \in Reader \ {r} : pc'[q] = pc[q]
  <2>1. overtaken' \in [Reader -> BOOLEAN]
    BY <1>0, InvParts DEF ReaderType
  <2>2. QED BY <1>0, <1>3, <1>4, <2>1, InvParts, MoveType
<1>6. answer' \in [Reader -> Answer] /\ answer'[r].result = "none" /\ \A q \in Reader \ {r} : answer'[q] = answer[q]
  BY <1>1, InvParts DEF ReplyType, Answer, NoAnswer
<1>7. /\ queue' \in Seq(Command) /\ Len(queue') = Len(queue) /\ DOMAIN queue' = DOMAIN queue
      /\ \A i \in DOMAIN queue : queue'[i] = IF queue[i].by = r THEN [queue[i] EXCEPT !.by = Nothing] ELSE queue[i]
  <2>1. queue \in Seq(Command)
    BY InvParts DEF BrokerType
  <2>2. \A c \in Command : [c EXCEPT !.by = Nothing] \in Command
    BY DEF Command
  <2>3. queue' = [i \in 1..Len(queue) |-> IF queue[i].by = r THEN [queue[i] EXCEPT !.by = Nothing] ELSE queue[i]]
    BY <1>1, <2>1 DEF Orphaned
  <2>4. QED BY <2>1, <2>2, <2>3
<1>8. \A i \in DOMAIN queue : /\ queue'[i].pack = queue[i].pack
                              /\ queue'[i].by = IF queue[i].by = r THEN Nothing ELSE queue[i].by
  <2>1. \A c \in Command : [c EXCEPT !.by = Nothing].pack = c.pack /\ [c EXCEPT !.by = Nothing].by = Nothing
    BY DEF Command
  <2>2. \A i \in DOMAIN queue : queue[i] \in Command
    BY InvParts DEF BrokerType
  <2>3. QED BY <1>7, <2>1, <2>2
<1>9. Nothing \notin Reader
  BY NamesAssumption DEF NamesAssumption
<1>10. BrokerType'
  BY <1>0, <1>7, InvParts DEF BrokerType
<1>11. OneCommand'
  BY <1>7, <1>8, InvParts DEF OneCommand
<1>12. Waiting'
  BY <1>5, <1>6, <1>7, <1>8, <1>9, InvParts DEF Waiting
<1>13. AnswerTaken'
  BY <1>5, <1>6, InvParts DEF AnswerTaken
<1>14. Refusals'
  <2>1. refused[r] <= Allowed(p, "none")
    BY <1>1, <1>2, InvParts DEF Refusals, Allowed, ReplyType
  <2>2. QED BY <1>0, <1>5, <1>6, <2>1, InvParts DEF Refusals
<1>15. ReplyType'
  BY <1>0, <1>6, InvParts DEF ReplyType
<1>16. QED
  BY <1>0, <1>5, <1>10, <1>11, <1>12, <1>13, <1>14, <1>15, InvParts, HubKept, ResultsKept, PageKept
     DEF IInv, TypeInv, CallInv

\* The answer is taken, unless it is a value to be sent.
LEMMA ReturnKeeps ==
  ASSUME IInv, NEW r \in Reader, Return(r)
  PROVE  IInv'
<1>0. UNCHANGED <<subscribers, connected, selected, readCancel, reading, results, pack, owner, refused, overtaken,
                  cancelled, queue, query, requests, view>>
  BY DEF Return, hubVars, sectionVars, brokerVars
<1>1. PICK call \in Calls :
        /\ pc[r] = Wait(call) /\ answer[r].result # "none"
        /\ Goto(r, IF answer[r].result = "error" THEN OnError(r, call)
                   ELSE IF call # "read" THEN "settle"
                   ELSE IF cancelled[r] THEN "exit" ELSE "publish")
        /\ answer' = [answer EXCEPT ![r] = IF call = "read" THEN @ ELSE NoAnswer]
  BY DEF Return
<1> DEFINE p == IF answer[r].result = "error" THEN OnError(r, call)
                ELSE IF call # "read" THEN "settle"
                ELSE IF cancelled[r] THEN "exit" ELSE "publish"
<1>2. p \in {"exit", "fail", "pause", "publish", "settle"} /\ (p = "pause" => call = "write")
      /\ (p = "settle" => call # "read")
  BY <1>1 DEF OnError, Calls
<1>3. p \in Place \ Waits /\ (p \in Calls \cup {"none", "pause", "settle", "schema"} => p \in {"pause", "settle"})
  BY <1>2, PlacesAre DEF Waits, Calls
<1>4. Goto(r, p) BY <1>1
<1> HIDE DEF p
<1>5. ReaderType' /\ pc'[r] = p /\ \A q \in Reader \ {r} : pc'[q] = pc[q]
  <2>1. overtaken' \in [Reader -> BOOLEAN]
    BY <1>0, InvParts DEF ReaderType
  <2>2. QED BY <1>0, <1>3, <1>4, <2>1, InvParts, MoveType
<1>6. /\ answer' \in [Reader -> Answer] /\ \A q \in Reader \ {r} : answer'[q] = answer[q]
      /\ call # "read" => answer'[r].result = "none"
  BY <1>1, InvParts DEF ReplyType, Answer, NoAnswer
<1>7. refused[r] <= Allowed(p, answer'[r].result)
  BY <1>1, <1>2, InvParts, WaitIs DEF Refusals, Allowed, ReplyType, Waits
<1>8. p \in Calls \cup {"none", "pause", "settle", "schema"} => answer'[r].result = "none"
  BY <1>2, <1>3, <1>6
<1>9. CallInv'
  BY <1>0, <1>1, <1>3, <1>5, <1>6, <1>7, <1>8, MoveCalls
<1>10. ReplyType'
  BY <1>0, <1>6, InvParts DEF ReplyType
<1>11. QED
  BY <1>0, <1>5, <1>9, <1>10, InvParts, HubKept, ResultsKept, BrokerKept, PageKept DEF IInv, TypeInv

LEMMA PauseKeeps ==
  ASSUME IInv, NEW r \in Reader, Pause(r) \/ Settle(r)
  PROVE  IInv'
<1>1. PICK p \in {"rewrite", "exit", "schema"} :
        Goto(r, p) /\ (p = "rewrite" => pc[r] = "pause") /\ (p = "schema" => pc[r] = "settle")
  BY DEF Pause, Settle
<1>2. pc[r] \in {"pause", "settle"}
  BY DEF Pause, Settle
<1>3. UNCHANGED <<hubVars, sectionVars, results, pack, owner, answer, refused, overtaken, cancelled,
                  brokerVars, requests, view>>
  BY DEF Pause, Settle
<1>4. p \in Place \ Waits /\ pc[r] \notin Waits
  BY <1>2, PlacesAre DEF Waits
<1>5. answer[r].result = "none"
  BY <1>2, InvParts DEF AnswerTaken
<1>6. refused[r] <= Allowed(p, answer[r].result)
  BY <1>1, <1>2, InvParts DEF Refusals, Allowed, ReplyType
<1>7. QED BY <1>1, <1>3, <1>4, <1>5, <1>6, PlainMove

\* What is sent to the hub fits and has its type.
LEMMA SendKeeps ==
  ASSUME IInv, NEW r \in Reader, Schema(r) \/ Publish(r) \/ Complete(r)
  PROVE  IInv'
<1>0. UNCHANGED <<subscribers, connected, selected, readCancel, reading, pack, owner, refused, overtaken,
                  cancelled, queue, query, requests, view>>
  BY DEF Schema, Publish, Complete, hubVars, sectionVars, brokerVars
<1>1. PICK p \in {"exit", "read", "complete"} : Goto(r, p) /\ (p = "read" => pc[r] = "schema")
  BY DEF Schema, Publish, Complete
<1>2. p \in Place \ Waits /\ pc[r] \in {"schema", "publish", "complete"} /\ pc[r] \notin Waits
  BY PlacesAre DEF Schema, Publish, Complete, Waits
<1>3. answer' \in [Reader -> Answer] /\ (\A q \in Reader \ {r} : answer'[q] = answer[q])
      /\ (p = "read" => answer'[r].result = "none")
  <2>1. CASE UNCHANGED answer
    BY <1>1, <2>1, InvParts DEF ReplyType, AnswerTaken
  <2>2. CASE answer' = [answer EXCEPT ![r] = NoAnswer]
    BY <2>2, InvParts DEF ReplyType, Answer, NoAnswer
  <2>3. QED BY <2>1, <2>2 DEF Schema, Publish, Complete
<1>4. refused[r] <= Allowed(p, answer'[r].result)
  <2>1. refused[r] <= 2
    BY <1>2, InvParts DEF Refusals, Allowed, ReplyType
  <2>2. CASE p # "read" \/ p = "read"
    BY <2>1 DEF Allowed
  <2>3. QED BY <2>2
<1>5. ReaderType' /\ pc'[r] = p /\ \A q \in Reader \ {r} : pc'[q] = pc[q]
  <2>1. overtaken' \in [Reader -> BOOLEAN]
    BY <1>0, InvParts DEF ReaderType
  <2>2. QED BY <1>0, <1>1, <1>2, <2>1, InvParts, MoveType
<1>6. ResultsType'
  <2>1. PICK kind \in {"section_schema", "register_value", "section_complete"}, of \in Pack \cup {Nothing} :
          Send(r, kind, of)
    <3>1. answer[r].of \in Pack \cup {Nothing}
      BY InvParts DEF ReplyType, Answer
    <3>2. QED BY <3>1 DEF Schema, Publish, Complete
  <2> DEFINE m == [kind |-> kind, pack |-> pack[r], of |-> of, overtaken |-> overtaken[r]]
  <2>2. m \in Result
    BY InvParts DEF Result, ReaderType
  <2>3. Len(results) < ResultCap /\ results' = Append(results, m) /\ results \in Seq(Result)
    BY <2>1, InvParts DEF Send, ResultsType
  <2> HIDE DEF m
  <2>4. QED BY <2>2, <2>3, SizesAssumption DEF SizesAssumption, ResultsType
<1>7. p \in Calls \cup {"none", "pause", "settle", "schema"} => answer'[r].result = "none"
  BY <1>3 DEF Calls
<1>8. CallInv'
  BY <1>0, <1>2, <1>3, <1>4, <1>5, <1>7, MoveCalls
<1>9. ReplyType'
  BY <1>0, <1>3, InvParts DEF ReplyType
<1>10. QED BY <1>0, <1>5, <1>6, <1>8, <1>9, InvParts, HubKept, BrokerKept, PageKept DEF IInv, TypeInv

LEMMA FailKeeps ==
  ASSUME IInv, NEW r \in Reader, Fail(r)
  PROVE  IInv'
<1>0. UNCHANGED <<subscribers, connected, selected, readCancel, reading, results, pack, owner, answer, refused,
                  overtaken, cancelled, queue, query, requests>>
  BY DEF Fail, hubVars, sectionVars, brokerVars
<1>1. pc[r] = "fail" /\ Goto(r, "exit") /\ view' = [view EXCEPT ![owner[r]] = Nothing]
  BY DEF Fail
<1>2. "exit" \in Place \ Waits /\ "exit" \notin Calls /\ "fail" \notin Waits
  BY PlacesAre DEF Waits, Calls
<1>3. PageType'
  BY <1>0, <1>1, InvParts DEF PageType
<1>4. ReaderType' /\ pc'[r] = "exit" /\ \A q \in Reader \ {r} : pc'[q] = pc[q]
  <2>1. overtaken' \in [Reader -> BOOLEAN]
    BY <1>0, InvParts DEF ReaderType
  <2>2. QED BY <1>0, <1>1, <1>2, <2>1, InvParts, MoveType
<1>5. refused[r] <= Allowed("exit", answer'[r].result)
  BY <1>0, <1>1, InvParts DEF Refusals, Allowed, ReplyType
<1>6. CallInv'
  BY <1>0, <1>1, <1>2, <1>4, <1>5, MoveCalls
<1>7. QED BY <1>0, <1>3, <1>4, <1>6, InvParts, HubKept, ResultsKept, BrokerKept, ReplyKept DEF IInv, TypeInv

LEMMA ExitKeeps ==
  ASSUME IInv, NEW r \in Reader, Exit(r)
  PROVE  IInv'
<1>0. UNCHANGED <<subscribers, connected, selected, results, queue, query, requests, view>>
  BY DEF Exit, hubVars, brokerVars
<1>1. pc[r] = "exit" /\ pc' = [pc EXCEPT ![r] = "none"] /\ "none" \in Place
  BY PlacesAre DEF Exit, Goto
<1>2. pc' \in [Reader -> Place] /\ pc'[r] = "none" /\ \A q \in Reader \ {r} : pc'[q] = pc[q]
  BY <1>1, InvParts DEF ReaderType
<1>3. /\ answer' \in [Reader -> Answer] /\ answer'[r].result = "none"
      /\ \A q \in Reader \ {r} : answer'[q] = answer[q]
  BY InvParts DEF Exit, ReplyType, Answer, NoAnswer
<1>4. refused' \in [Reader -> Nat] /\ refused'[r] = 0 /\ \A q \in Reader \ {r} : refused'[q] = refused[q]
  BY InvParts DEF Exit, ReplyType
<1>5. ReaderType'
  <2>1. pack' \in [Reader -> Pack \cup {Nothing}] /\ owner' \in [Reader -> Client \cup {Nothing}]
    BY InvParts DEF Exit, ReaderType
  <2>2. cancelled' \in [Reader -> BOOLEAN] /\ overtaken' \in [Reader -> BOOLEAN]
    BY InvParts DEF Exit, ReaderType
  <2>3. QED BY <1>2, <2>1, <2>2 DEF ReaderType
<1>6. HubType'
  <2>1. readCancel' \in Reader \cup {Nothing} /\ reading' \in BOOLEAN
    BY InvParts DEF Exit, HubType
  <2>2. QED BY <1>0, <2>1, InvParts DEF HubType
<1>7. \A i \in DOMAIN queue : queue[i].by # r
  BY <1>1, InvParts DEF Waiting, Waits
<1>8. OneCommand' /\ Waiting' /\ AnswerTaken'
  BY <1>0, <1>2, <1>3, <1>7, InvParts DEF OneCommand, Waiting, AnswerTaken
<1>9. Refusals'
  <2>1. 0 <= Allowed("none", "none")
    BY DEF Allowed
  <2>2. QED BY <1>2, <1>3, <1>4, <2>1, InvParts DEF Refusals
<1>10. QED
  BY <1>0, <1>3, <1>4, <1>5, <1>6, <1>8, <1>9, InvParts, ResultsKept, BrokerKept, PageKept
     DEF IInv, TypeInv, CallInv, ReplyType

LEMMA ReaderStepKeeps ==
  ASSUME IInv, NEW r \in Reader, ReaderStep(r)
  PROVE  IInv'
BY AskKeeps, GiveUpKeeps, ReturnKeeps, PauseKeeps, SendKeeps, FailKeeps, ExitKeeps DEF ReaderStep

-----------------------------------------------------------------------------
(* The broker and the hub. *)

\* The oldest command is answered to the reader that waits for it, if there still is one: nobody else's.
LEMMA ExecuteKeeps ==
  ASSUME IInv, Execute
  PROVE  IInv'
<1>0. UNCHANGED <<subscribers, connected, selected, readCancel, reading, results, pc, pack, owner, overtaken,
                  cancelled, requests, view>>
  BY DEF Execute, hubVars, sectionVars
<1> DEFINE c == Head(queue)
<1>1. queue \in Seq(Command) /\ queue # <<>> /\ queue' = Tail(queue)
  BY InvParts DEF Execute, BrokerType
<1>2. /\ c \in Command /\ c = queue[1] /\ 1 \in DOMAIN queue
      /\ queue' \in Seq(Command) /\ Len(queue') = Len(queue) - 1
      /\ \A i \in DOMAIN queue' : i + 1 \in DOMAIN queue /\ i + 1 # 1 /\ queue'[i] = queue[i + 1]
  BY <1>1
<1>3. PICK ok \in BOOLEAN :
        /\ query' \in IF c.pack = Nothing THEN {query} ELSE IF ok THEN {c.pack} ELSE {query, c.pack}
        /\ IF c.by = Nothing THEN UNCHANGED <<answer, refused>>
           ELSE /\ answer' = [answer EXCEPT ![c.by] =
                                [result |-> IF ok THEN "ok" ELSE "error",
                                 of |-> IF ok /\ c.pack = Nothing /\ pack[c.by] # Nothing THEN query ELSE Nothing]]
                /\ refused' = [refused EXCEPT ![c.by] = IF ok \/ c.pack = Nothing THEN @ ELSE @ + 1]
  BY DEF Execute
<1> HIDE DEF c
<1>4. BrokerType'
  <2>1. query' \in Pack \cup {Nothing}
    BY <1>2, <1>3, InvParts DEF BrokerType, Command
  <2>2. QED BY <1>2, <2>1, InvParts, SizesAssumption DEF SizesAssumption, BrokerType
<1>5. ReaderType'
  BY <1>0, InvParts DEF ReaderType
<1>6. OneCommand'
  <2> SUFFICES ASSUME NEW i \in DOMAIN queue', NEW j \in DOMAIN queue', queue'[i].by # Nothing,
                      queue'[i].by = queue'[j].by
               PROVE  i = j
    BY DEF OneCommand
  <2>1. i + 1 = j + 1
    BY <1>2, InvParts DEF OneCommand
  <2>2. i \in Nat /\ j \in Nat
    BY <1>2
  <2>3. QED BY <2>1, <2>2
<1>7. CASE c.by = Nothing
  <2>1. UNCHANGED <<answer, refused>>
    BY <1>3, <1>7
  <2>2. Waiting' /\ AnswerTaken' /\ Refusals'
    BY <1>0, <1>2, <2>1, InvParts DEF Waiting, AnswerTaken, Refusals
  <2>3. QED
    BY <1>0, <1>4, <1>5, <1>6, <2>1, <2>2, InvParts, HubKept, ResultsKept, PageKept, ReplyKept
       DEF IInv, TypeInv, CallInv
<1>8. CASE c.by # Nothing
  <2> DEFINE r == c.by
             a == [result |-> IF ok THEN "ok" ELSE "error",
                   of |-> IF ok /\ c.pack = Nothing /\ pack[r] # Nothing THEN query ELSE Nothing]
  <2>1. r \in Reader
    BY <1>2, <1>8 DEF Command
  <2>2. pc[r] \in Waits /\ answer[r].result = "none" /\ (c.pack # Nothing => pc[r] # "reading")
    BY <1>2, <2>1, InvParts DEF Waiting
  <2>3. a \in Answer /\ a.result # "none"
    BY InvParts DEF Answer, BrokerType
  <2>4. answer' = [answer EXCEPT ![r] = a]
    BY <1>3, <1>8
  <2>5. refused' = [refused EXCEPT ![r] = IF ok \/ c.pack = Nothing THEN @ ELSE @ + 1]
    BY <1>3, <1>8
  <2> HIDE DEF r, a
  <2>6. answer' \in [Reader -> Answer] /\ answer'[r] = a /\ \A q \in Reader \ {r} : answer'[q] = answer[q]
    BY <2>1, <2>3, <2>4, InvParts DEF ReplyType
  <2>7. /\ refused' \in [Reader -> Nat] /\ \A q \in Reader \ {r} : refused'[q] = refused[q]
        /\ refused'[r] = refused[r] \/ (c.pack # Nothing /\ refused'[r] = refused[r] + 1)
    BY <2>1, <2>5, InvParts DEF ReplyType
  <2>8. \A i \in DOMAIN queue' : queue'[i].by # r
    <3> SUFFICES ASSUME NEW i \in DOMAIN queue', queue'[i].by = r PROVE FALSE
      OBVIOUS
    <3>1. r # Nothing /\ queue[1].by = r
      BY <1>2, <1>8 DEF r
    <3>2. i + 1 = 1
      BY <1>2, <3>1, InvParts DEF OneCommand
    <3>3. QED BY <1>2, <3>2
  <2>9. Waiting'
    BY <1>0, <1>2, <2>6, <2>8, InvParts DEF Waiting
  <2>10. AnswerTaken'
    BY <1>0, <2>2, <2>6, InvParts DEF AnswerTaken, Waits, Calls
  <2>11. Refusals'
    <3>1. refused'[r] <= Allowed(pc[r], a.result)
      BY <2>1, <2>2, <2>3, <2>7, InvParts DEF Refusals, Allowed, Waits, ReplyType
    <3>2. QED BY <1>0, <2>6, <2>7, <3>1, InvParts DEF Refusals
  <2>12. QED
    BY <1>0, <1>4, <1>5, <1>6, <2>6, <2>7, <2>9, <2>10, <2>11, InvParts, HubKept, ResultsKept, PageKept
       DEF IInv, TypeInv, CallInv, ReplyType
<1>9. QED BY <1>7, <1>8

\* What a handler of the hub may do to the reads: cancel the one in progress, start another in a free slot.
LEMMA StartReadKeeps ==
  ASSUME IInv, NEW p \in Pack \cup {Nothing}, NEW c \in Client \cup {Nothing}, StartRead(p, c), UNCHANGED queue
  PROVE  /\ readCancel' \in Reader \cup {Nothing} /\ reading' \in BOOLEAN
         /\ ReaderType' /\ ReplyType' /\ CallInv'
<1>1. PICK r \in Reader :
        /\ pc[r] = "none" /\ cancelled' = Cancelled /\ readCancel' = r /\ reading' = TRUE
        /\ Goto(r, IF p = Nothing THEN "read" ELSE "write")
        /\ pack' = [pack EXCEPT ![r] = p] /\ owner' = [owner EXCEPT ![r] = c]
        /\ UNCHANGED <<answer, refused, overtaken>>
  BY DEF StartRead
<1>2. PICK place \in {"read", "write"} : pc' = [pc EXCEPT ![r] = place]
  BY <1>1 DEF Goto
<1>3. place \in Place \ Waits /\ "none" \notin Waits
  BY PlacesAre DEF Waits
<1>4. pc' \in [Reader -> Place] /\ pc'[r] = place /\ \A q \in Reader \ {r} : pc'[q] = pc[q]
  BY <1>2, <1>3, InvParts DEF ReaderType
<1>5. pack' \in [Reader -> Pack \cup {Nothing}] /\ owner' \in [Reader -> Client \cup {Nothing}]
  BY <1>1, InvParts DEF ReaderType
<1>6. cancelled' \in [Reader -> BOOLEAN]
  <2>1. cancelled \in [Reader -> BOOLEAN]
    BY InvParts DEF ReaderType
  <2>2. QED BY <1>1, <2>1 DEF Cancelled
<1>7. ReaderType'
  BY <1>1, <1>4, <1>5, <1>6, InvParts DEF ReaderType
<1>8. answer[r].result = "none" /\ refused[r] <= 0
  BY <1>1, InvParts DEF AnswerTaken, Refusals, Allowed
<1>9. refused[r] <= Allowed(place, answer'[r].result)
  BY <1>1, <1>8, InvParts DEF Allowed, ReplyType
<1>10. CallInv'
  BY <1>1, <1>3, <1>4, <1>8, <1>9, MoveCalls
<1>11. QED BY <1>1, <1>7, <1>10, InvParts, ReplyKept

LEMMA OthersKeep ==
  ASSUME IInv, CancelRead \/ NoChange, UNCHANGED queue
  PROVE  /\ readCancel' \in Reader \cup {Nothing} /\ reading' \in BOOLEAN
         /\ ReaderType' /\ ReplyType' /\ CallInv'
<1>1. UNCHANGED <<reading, pc, pack, owner, answer, refused, overtaken>>
  BY DEF CancelRead, NoChange, readerVars, sectionVars
<1>2. CallInv'
  BY <1>1, InvParts DEF CallInv, OneCommand, Waiting, AnswerTaken, Refusals
<1>3. cancelled' \in [Reader -> BOOLEAN]
  <2>1. cancelled \in [Reader -> BOOLEAN]
    BY InvParts DEF ReaderType
  <2>2. CASE CancelRead BY <2>1, <2>2 DEF CancelRead, Cancelled
  <2>3. CASE NoChange BY <2>1, <2>3 DEF NoChange
  <2>4. QED BY <2>2, <2>3
<1>4. readCancel' \in Reader \cup {Nothing}
  BY InvParts DEF CancelRead, NoChange, sectionVars, HubType
<1>5. QED BY <1>1, <1>2, <1>3, <1>4, InvParts, ReplyKept DEF ReaderType, HubType

\* The request of a client, by what it does to the reads.
LEMMA RequestIs ==
  ASSUME Request
  PROVE  /\ UNCHANGED <<results, queue, query>>
         /\ requests < MaxRequests /\ requests' = requests + 1
         /\ \/ CancelRead \/ NoChange
            \/ \E p \in Pack \cup {Nothing}, c \in Client \cup {Nothing} : StartRead(p, c)
            \/ StartRead(selected.pack, selected.client)
<1>1. requests < MaxRequests /\ requests' = requests + 1
  BY DEF Request
<1>2. ASSUME NEW c \in Client, Subscribe(c) \/ Leave(c)
      PROVE  /\ UNCHANGED <<results, queue, query>>
             /\ CancelRead \/ NoChange \/ StartRead(Nothing, Nothing)
  BY <1>2 DEF Subscribe, Leave, brokerVars
<1>3. ASSUME NEW c \in Client, NEW p \in Pack, SelectPack(c, p)
      PROVE  UNCHANGED <<results, queue, query>> /\ StartRead(p, c)
  BY <1>3 DEF SelectPack, brokerVars
<1>4. ASSUME ReadCycle
      PROVE  UNCHANGED <<results, queue, query>> /\ StartRead(selected.pack, selected.client)
  BY <1>4 DEF ReadCycle, brokerVars
<1>5. ASSUME Refresh \/ Disconnect
      PROVE  UNCHANGED <<results, queue, query>> /\ (StartRead(Nothing, Nothing) \/ CancelRead)
  BY <1>5 DEF Refresh, Disconnect, brokerVars
<1>6. QED BY <1>1, <1>2, <1>3, <1>4, <1>5 DEF Request

\* The rest of the hub's state after a request.
LEMMA RequestHub ==
  ASSUME HubType, PageType, Request
  PROVE  /\ subscribers' \subseteq Client /\ connected' \in BOOLEAN
         /\ selected' \in [pack : Pack \cup {Nothing}, client : Client \cup {Nothing}]
         /\ view' \in [Client -> Pack \cup {Nothing}]
<1> USE DEF HubType, PageType
<1>1. ASSUME NEW c \in Client, Subscribe(c)
      PROVE  /\ subscribers' \subseteq Client /\ UNCHANGED connected /\ selected' = NoSelection
             /\ view' \in [Client -> Pack \cup {Nothing}]
  BY <1>1 DEF Subscribe
<1>2. ASSUME NEW c \in Client, Leave(c)
      PROVE  /\ subscribers' \subseteq Client /\ UNCHANGED connected /\ selected' = NoSelection
             /\ view' \in [Client -> Pack \cup {Nothing}]
  BY <1>2 DEF Leave
<1>3. ASSUME NEW c \in Client, NEW p \in Pack, SelectPack(c, p)
      PROVE  /\ UNCHANGED <<subscribers, connected>> /\ selected' = [pack |-> p, client |-> c]
             /\ view' \in [Client -> Pack \cup {Nothing}]
  BY <1>3 DEF SelectPack
<1>4. ASSUME ReadCycle \/ Refresh PROVE UNCHANGED <<subscribers, connected, selected, view>>
  BY <1>4 DEF ReadCycle, Refresh, hubVars
<1>5. ASSUME Disconnect PROVE UNCHANGED <<subscribers, selected, view>> /\ connected' \in {FALSE, connected}
  BY <1>5 DEF Disconnect
<1>6. NoSelection \in [pack : Pack \cup {Nothing}, client : Client \cup {Nothing}]
  BY DEF NoSelection
<1>7. CASE \E c \in Client : Subscribe(c) \/ Leave(c)
  BY <1>1, <1>2, <1>6, <1>7
<1>8. CASE \E c \in Client, p \in Pack : SelectPack(c, p)
  BY <1>3, <1>8
<1>9. CASE ReadCycle \/ Refresh
  BY <1>4, <1>9
<1>10. CASE Disconnect
  <2>1. connected' \in BOOLEAN
    BY <1>5, <1>10
  <2>2. QED BY <1>5, <1>10, <2>1
<1>11. QED BY <1>7, <1>8, <1>9, <1>10 DEF Request

LEMMA IInvStep == IInv /\ [Next]_vars => IInv'
<1> SUFFICES ASSUME IInv, [Next]_vars PROVE IInv'
  OBVIOUS
<1>1. ASSUME NEW r \in Reader, ReaderStep(r) PROVE IInv'
  BY <1>1, ReaderStepKeeps
<1>2. CASE Execute
  BY <1>2, ExecuteKeeps
<1>3. CASE Request
  <2>1. UNCHANGED <<results, queue, query>> /\ requests < MaxRequests /\ requests' = requests + 1
    BY <1>3, RequestIs
  <2>2. selected.pack \in Pack \cup {Nothing} /\ selected.client \in Client \cup {Nothing}
    BY InvParts DEF HubType
  <2>3. /\ readCancel' \in Reader \cup {Nothing} /\ reading' \in BOOLEAN
        /\ ReaderType' /\ ReplyType' /\ CallInv'
    <3>1. CASE CancelRead \/ NoChange BY <2>1, <3>1, OthersKeep
    <3>2. ASSUME NEW p \in Pack \cup {Nothing}, NEW c \in Client \cup {Nothing}, StartRead(p, c)
          PROVE  /\ readCancel' \in Reader \cup {Nothing} /\ reading' \in BOOLEAN
                 /\ ReaderType' /\ ReplyType' /\ CallInv'
      BY <2>1, <3>2, StartReadKeeps
    <3>3. QED BY <1>3, <2>2, <3>1, <3>2, RequestIs
  <2>4. PageType'
    BY <1>3, <2>1, InvParts, RequestHub, SizesAssumption DEF SizesAssumption, PageType
  <2>5. HubType'
    BY <1>3, <2>3, InvParts, RequestHub DEF HubType
  <2>6. QED BY <2>1, <2>3, <2>4, <2>5, InvParts, ResultsKept, BrokerKept DEF IInv, TypeInv
<1>4. CASE HandleConnected
  <2>1. UNCHANGED <<subscribers, selected, results, queue, query, requests, view>> /\ NoChange /\ connected' = TRUE
    BY <1>4 DEF HandleConnected, brokerVars
  <2>2. QED BY <2>1, InvParts, OthersKeep, ResultsKept, BrokerKept, PageKept DEF IInv, TypeInv, HubType
<1>5. CASE HandleResult
  <2>1. UNCHANGED <<subscribers, connected, selected, queue, query, requests>> /\ NoChange
    BY <1>5 DEF HandleResult, hubVars, brokerVars
  <2>2. results \in Seq(Result) /\ results # <<>> /\ results' = Tail(results)
    BY <1>5, InvParts DEF HandleResult, ResultsType
  <2>3. results' \in Seq(Result) /\ Len(results') = Len(results) - 1 /\ Head(results) \in Result
    BY <2>2
  <2>4. ResultsType'
    BY <2>3, InvParts, SizesAssumption DEF SizesAssumption, ResultsType
  <2>5. view' \in [Client -> Pack \cup {Nothing}]
    <3>1. Head(results).pack \in Pack \cup {Nothing}
      BY <2>3 DEF Result
    <3>2. view \in [Client -> Pack \cup {Nothing}]
      BY InvParts DEF PageType
    <3>3. view' = view \/ view' = [c \in Client |-> IF c \in subscribers THEN Head(results).pack ELSE view[c]]
      BY <1>5 DEF HandleResult
    <3>4. QED BY <3>1, <3>2, <3>3
  <2>6. PageType'
    BY <2>1, <2>5, InvParts DEF PageType
  <2>7. QED BY <2>1, <2>4, <2>6, InvParts, OthersKeep, BrokerKept DEF IInv, TypeInv, HubType
<1>6. CASE UNCHANGED vars
  <2>1. UNCHANGED <<subscribers, connected, selected, results, queue, query, requests, view>> /\ NoChange
    BY <1>6 DEF vars, hubVars, brokerVars, NoChange
  <2>2. QED BY <2>1, InvParts, OthersKeep, ResultsKept, BrokerKept, PageKept DEF IInv, TypeInv, HubType
<1>7. QED BY <1>1, <1>2, <1>3, <1>4, <1>5, <1>6 DEF Next

LEMMA IInvCorrect == Spec => []IInv
BY IInvInit, IInvStep, PTL DEF Spec

\* Every variable keeps its type; the channels keep to their capacities, and no reader has its selection refused
\* more than twice: each command is answered to the reader that waits for it, once.
THEOREM TypeCorrect == Spec => []TypeOK
BY IInvCorrect, IInvGives, PTL

-----------------------------------------------------------------------------
(* The read that goes on is the selection's.                                *)

\* What the hub's section knows of a read, whichever it is: the one that is not cancelled is the one it can stop.
OneLive == \A r \in Reader : Live(r) => readCancel = r

SelectionInv == OneLive /\ ReadIsSelected

\* A reader's own steps start nothing and change no selection.
LEMMA ReaderStepSelected ==
  ASSUME IInv, SelectionInv, NEW r \in Reader, ReaderStep(r)
  PROVE  SelectionInv'
<1>0. pc \in [Reader -> Place] /\ pack \in [Reader -> Pack \cup {Nothing}]
      /\ owner \in [Reader -> Client \cup {Nothing}] /\ cancelled \in [Reader -> BOOLEAN]
  BY InvParts DEF ReaderType
<1>1. CASE Exit(r)
  <2>1. /\ selected' = selected /\ readCancel' = (IF readCancel = r THEN Nothing ELSE readCancel)
        /\ pc' = [pc EXCEPT ![r] = "none"] /\ pack' = [pack EXCEPT ![r] = Nothing]
        /\ owner' = [owner EXCEPT ![r] = Nothing] /\ cancelled' = [cancelled EXCEPT ![r] = FALSE]
    BY <1>1 DEF Exit, Goto, hubVars
  <2>2. ~Live(r)'
    BY <1>0, <2>1 DEF Live
  <2>3. \A q \in Reader \ {r} : pc'[q] = pc[q] /\ pack'[q] = pack[q] /\ owner'[q] = owner[q]
    BY <1>0, <2>1
  <2>4. \A q \in Reader \ {r} : cancelled'[q] = cancelled[q]
    BY <1>0, <2>1
  <2>5. \A q \in Reader : Live(q)' => q # r /\ Live(q)
    BY <2>2, <2>3, <2>4 DEF Live
  <2>6. \A q \in Reader : Live(q)' => readCancel' = q
    BY <2>1, <2>5 DEF SelectionInv, OneLive
  <2>7. QED BY <2>1, <2>3, <2>5, <2>6 DEF SelectionInv, OneLive, ReadIsSelected
<1>2. CASE ~Exit(r)
  <2>1. UNCHANGED <<selected, readCancel, pack, owner, cancelled>>
    BY <1>2 DEF ReaderStep, Ask, GiveUp, Return, Pause, Settle, Schema, Publish, Complete, Fail, hubVars, sectionVars
  <2>2. \E p : Goto(r, p)
    BY <1>2 DEF ReaderStep, Ask, GiveUp, Return, Pause, Settle, Schema, Publish, Complete, Fail
  <2>3. pc[r] # "none"
    BY <1>2, WaitIs DEF ReaderStep, Ask, GiveUp, Return, Pause, Settle, Schema, Publish, Complete, Fail, Calls, Waits
  <2>4. \A q \in Reader : Live(q)' => Live(q)
    BY <1>0, <2>1, <2>2, <2>3 DEF Live, Goto
  <2>5. QED BY <2>1, <2>4 DEF SelectionInv, OneLive, ReadIsSelected
<1>3. QED BY <1>1, <1>2

\* A new read is the only one that goes on.
LEMMA StartReadLive ==
  ASSUME IInv, OneLive, NEW p, NEW c, StartRead(p, c)
  PROVE  \E r \in Reader : /\ readCancel' = r /\ pack'[r] = p /\ owner'[r] = c
                           /\ \A q \in Reader : Live(q)' => q = r
<1>0. pc \in [Reader -> Place] /\ pack \in [Reader -> Pack \cup {Nothing}]
      /\ owner \in [Reader -> Client \cup {Nothing}] /\ cancelled \in [Reader -> BOOLEAN]
  BY InvParts DEF ReaderType
<1>1. PICK r \in Reader :
        /\ pc[r] = "none" /\ cancelled' = Cancelled /\ readCancel' = r
        /\ Goto(r, IF p = Nothing THEN "read" ELSE "write")
        /\ pack' = [pack EXCEPT ![r] = p] /\ owner' = [owner EXCEPT ![r] = c]
  BY DEF StartRead
<1>2. \A q \in Reader \ {r} : pc'[q] = pc[q]
  BY <1>0, <1>1 DEF Goto
<1>3. ASSUME NEW q \in Reader, Live(q)', q # r PROVE FALSE
  <2>1. pc[q] # "none" /\ ~cancelled'[q]
    BY <1>2, <1>3 DEF Live
  <2>2. ~cancelled[q] /\ readCancel # q
    BY <1>1, <2>1 DEF Cancelled
  <2>3. QED BY <2>1, <2>2 DEF OneLive, Live
<1>4. pack'[r] = p /\ owner'[r] = c
  BY <1>0, <1>1
<1>5. QED BY <1>1, <1>3, <1>4

\* Once the read in progress is cancelled none goes on.
LEMMA CancelReadLive ==
  ASSUME OneLive, CancelRead
  PROVE  \A q \in Reader : ~Live(q)'
BY DEF CancelRead, Cancelled, OneLive, Live, readerVars

LEMMA NoChangeLive ==
  ASSUME NoChange
  PROVE  UNCHANGED <<readCancel, pack, owner>> /\ \A q \in Reader : Live(q)' <=> Live(q)
BY DEF NoChange, Live, sectionVars, readerVars

LEMMA RequestSelected ==
  ASSUME IInv, SelectionInv, Request
  PROVE  SelectionInv'
<1>0. OneLive /\ ReadIsSelected
  BY DEF SelectionInv
<1>1. ASSUME NEW p, NEW c, StartRead(p, c),
             p # Nothing => selected' \in {NoSelection, [pack |-> p, client |-> c]}
      PROVE  SelectionInv'
  <2>1. PICK r \in Reader : /\ readCancel' = r /\ pack'[r] = p /\ owner'[r] = c
                            /\ \A q \in Reader : Live(q)' => q = r
    BY <1>0, <1>1, StartReadLive
  <2>2. QED BY <1>1, <2>1 DEF SelectionInv, OneLive, ReadIsSelected
<1>2. ASSUME CancelRead PROVE SelectionInv'
  BY <1>0, <1>2, CancelReadLive DEF SelectionInv, OneLive, ReadIsSelected
<1>3. ASSUME NoChange, selected' = NoSelection PROVE SelectionInv'
  BY <1>0, <1>3, NoChangeLive DEF SelectionInv, OneLive, ReadIsSelected
<1>4. ASSUME NEW c \in Client, Subscribe(c) \/ Leave(c) PROVE SelectionInv'
  BY <1>1, <1>2, <1>3, <1>4 DEF Subscribe, Leave
<1>5. ASSUME NEW c \in Client, NEW p \in Pack, SelectPack(c, p) PROVE SelectionInv'
  BY <1>1, <1>5 DEF SelectPack
<1>6. ASSUME ReadCycle PROVE SelectionInv'
  <2>1. StartRead(selected.pack, selected.client) /\ selected' = selected
    BY <1>6 DEF ReadCycle, hubVars
  <2>2. selected = [pack |-> selected.pack, client |-> selected.client]
    BY InvParts DEF HubType
  <2>3. QED BY <1>1, <2>1, <2>2
<1>7. ASSUME Refresh PROVE SelectionInv'
  BY <1>1, <1>7 DEF Refresh
<1>8. ASSUME Disconnect PROVE SelectionInv'
  BY <1>2, <1>8 DEF Disconnect
<1>9. QED BY <1>4, <1>5, <1>6, <1>7, <1>8 DEF Request

LEMMA SelectionStep == IInv /\ SelectionInv /\ [Next]_vars => SelectionInv'
<1> SUFFICES ASSUME IInv, SelectionInv, [Next]_vars PROVE SelectionInv'
  OBVIOUS
<1>1. ASSUME NEW r \in Reader, ReaderStep(r) PROVE SelectionInv'
  BY <1>1, ReaderStepSelected
<1>2. CASE Request
  BY <1>2, RequestSelected
<1>3. CASE Execute \/ HandleConnected \/ HandleResult \/ UNCHANGED vars
  <2>1. UNCHANGED <<selected, readCancel, pack, owner, pc, cancelled>>
    BY <1>3 DEF Execute, HandleConnected, HandleResult, NoChange, vars, hubVars, sectionVars, readerVars
  <2>2. QED BY <2>1 DEF SelectionInv, OneLive, ReadIsSelected, Live
<1>4. QED BY <1>1, <1>2, <1>3 DEF Next

LEMMA SelectionInit == Init => SelectionInv
BY DEF Init, SelectionInv, OneLive, ReadIsSelected, Live

\* The one read that goes on is the selection's, for any number of clients, packs and cancelled readers: a read of a
\* selection that was replaced or given up does not come back.
THEOREM SelectionIsRead == Spec => []ReadIsSelected
<1>1. SelectionInv => ReadIsSelected
  BY DEF SelectionInv
<1>2. QED BY IInvCorrect, SelectionInit, SelectionStep, <1>1, PTL DEF Spec

-----------------------------------------------------------------------------
(* The window stands on the pack of the read that goes on.                   *)

\* Places a reader passes only for a pack.
Selecting == {"write", "writing", "pause", "rewrite", "rewriting", "settle", "schema", "fail"}

HasPack == \A r \in Reader : pc[r] \in Selecting => pack[r] # Nothing

\* What a reader waits for is what it asked for.
Ordered ==
  \A i \in DOMAIN queue, r \in Reader :
    queue[i].by = r => queue[i].pack = IF pc[r] = "reading" THEN Nothing ELSE pack[r]

ValueOk == \A r \in Reader : answer[r].of # Nothing => answer[r].result = "ok"

\* The read of a pack that goes on, and behind which no cancelled reader has put a write.
Sure(r) == Live(r) /\ pack[r] # Nothing /\ ~overtaken[r]

\* Its write has succeeded.
Written(r) ==
  \/ pc[r] \in {"settle", "schema", "read", "reading"}
  \/ pc[r] \in {"writing", "rewriting"} /\ answer[r].result = "ok"

\* From then on the window stands on the pack, and nothing in the queue moves it.
OnPack ==
  \A r \in Reader : Sure(r) /\ Written(r) =>
    /\ query = pack[r]
    /\ \A i \in DOMAIN queue : queue[i].pack = Nothing

\* Until then nothing behind its write does.
LastWrite ==
  \A r \in Reader : Sure(r) =>
    \A i, j \in DOMAIN queue : queue[i].by = r /\ i < j => queue[j].pack = Nothing

AnswerIsPack ==
  \A r \in Reader :
    /\ pack[r] # Nothing /\ ~overtaken[r] /\ answer[r].of # Nothing
    /\ pc[r] = "publish" \/ (pc[r] = "reading" /\ ~cancelled[r])
    => answer[r].of = pack[r]

WriteInv == HasPack /\ Ordered /\ ValueOk /\ OnPack /\ LastWrite /\ AnswerIsPack

LEMMA WriteInit == Init => WriteInv
BY DEF Init, WriteInv, HasPack, Ordered, ValueOk, OnPack, LastWrite, AnswerIsPack, Selecting, Sure, Live, NoAnswer

\* A reader that waits for nothing has nothing in the queue.
LEMMA NoCommand ==
  ASSUME IInv, NEW r \in Reader, pc[r] \notin Waits \/ answer[r].result # "none"
  PROVE  \A i \in DOMAIN queue : queue[i].by # r
BY InvParts DEF Waiting

\* A reader moves on and neither the queue nor the window changes.
LEMMA WriteMove ==
  ASSUME IInv, WriteInv, NEW r \in Reader, NEW p \in Place \ Waits, pc[r] # "none",
         pc'[r] = p, \A q \in Reader \ {r} : pc'[q] = pc[q] /\ answer'[q] = answer[q],
         UNCHANGED <<pack, cancelled, overtaken, queue, query>>,
         pc[r] \notin Waits \/ answer[r].result # "none",
         answer'[r] \in {answer[r], NoAnswer},
         p \in Selecting => pack[r] # Nothing,
         p \in {"settle", "schema", "read"} => Written(r),
         p = "publish" /\ answer[r].of # Nothing => pc[r] = "reading" /\ ~cancelled[r]
  PROVE  WriteInv'
<1>1. HasPack'
  BY DEF WriteInv, HasPack
<1>2. Ordered'
  BY NoCommand DEF WriteInv, Ordered
<1>3. ValueOk'
  BY DEF WriteInv, ValueOk, NoAnswer
<1>4. \A q \in Reader : Sure(q)' => Sure(q)
  BY DEF Sure, Live
<1>5. \A q \in Reader : Written(q)' => Written(q)
  BY DEF Written, Waits
<1>6. OnPack' /\ LastWrite'
  BY <1>4, <1>5 DEF WriteInv, OnPack, LastWrite
<1>7. AnswerIsPack'
  BY DEF WriteInv, AnswerIsPack, NoAnswer, Waits
<1>8. QED BY <1>1, <1>2, <1>3, <1>6, <1>7 DEF WriteInv

LEMMA AskWrites ==
  ASSUME IInv, OneLive, WriteInv, NEW r \in Reader, Ask(r)
  PROVE  WriteInv'
<1>0. UNCHANGED <<pack, answer, cancelled, query>> /\ pc[r] \in Calls /\ pc[r] \notin Waits /\ pc[r] # "none"
  BY DEF Ask, Calls, Waits
<1>1. CASE /\ Len(queue) < QueueCap
           /\ queue' = Append(queue, [pack |-> IF pc[r] = "read" THEN Nothing ELSE pack[r], by |-> r])
           /\ Goto(r, Wait(pc[r]))
           /\ overtaken' = [q \in Reader |-> overtaken[q] \/ (cancelled[r] /\ pc[r] # "read" /\ pc[q] # "none")]
  <2> DEFINE c == [pack |-> IF pc[r] = "read" THEN Nothing ELSE pack[r], by |-> r]
  <2>1. c \in Command /\ c.by = r /\ c.pack = IF pc[r] = "read" THEN Nothing ELSE pack[r]
    BY InvParts DEF Command, ReaderType
  <2>2. /\ pc'[r] \in Waits /\ (pc'[r] = "reading" <=> pc[r] = "read")
        /\ \A q \in Reader \ {r} : pc'[q] = pc[q]
    BY <1>0, <1>1, WaitIs, InvParts DEF Goto, ReaderType
  <2> HIDE DEF c
  <2>3. queue \in Seq(Command) /\ queue' = Append(queue, c)
    BY <1>1, InvParts DEF BrokerType, c
  <2>4. /\ DOMAIN queue' = 1..(Len(queue) + 1) /\ DOMAIN queue = 1..Len(queue)
        /\ Len(queue) \in Nat
        /\ queue'[Len(queue) + 1] = c
        /\ \A i \in DOMAIN queue : queue'[i] = queue[i]
    BY <2>1, <2>3
  <2>5. \A i \in DOMAIN queue' : i \in DOMAIN queue \/ i = Len(queue) + 1
    BY <2>4
  <2>6. \A i \in DOMAIN queue : queue[i].by # r
    BY <1>0, NoCommand
  <2>7. answer[r].result = "none" /\ (pc[r] # "read" => pack[r] # Nothing)
    BY <1>0, InvParts DEF AnswerTaken, WriteInv, HasPack, Selecting, Calls
  <2>8. \A q \in Reader : Sure(q)' => /\ Sure(q)
                                      /\ q # r => c.pack = Nothing
    <3> SUFFICES ASSUME NEW q \in Reader, Sure(q)' PROVE Sure(q) /\ (q # r => c.pack = Nothing)
      OBVIOUS
    <3>1. ~overtaken[q] /\ ~(cancelled[r] /\ pc[r] # "read" /\ pc[q] # "none")
      BY <1>1 DEF Sure
    <3>2. Live(q)
      BY <1>0, <2>2 DEF Sure, Live
    <3>3. q # r => cancelled[r]
      BY <1>0, <3>2 DEF OneLive, Live
    <3>4. QED BY <1>0, <2>1, <3>1, <3>2, <3>3 DEF Sure, Live
  <2>9. HasPack' /\ ValueOk'
    BY <1>0, <2>2, <2>7 DEF WriteInv, HasPack, ValueOk, Selecting, Waits
  <2>10. Ordered'
    BY <1>0, <2>1, <2>2, <2>4, <2>5, <2>6 DEF WriteInv, Ordered
  <2>11. OnPack'
    <3> SUFFICES ASSUME NEW q \in Reader, Sure(q)', Written(q)'
                 PROVE  query' = pack'[q] /\ \A i \in DOMAIN queue' : queue'[i].pack = Nothing
      BY DEF OnPack
    <3>1. Sure(q) /\ (q # r => c.pack = Nothing)
      BY <2>8
    <3>2. CASE q = r
      <4>1. pc[r] = "read"
        BY <1>0, <2>2, <2>7, <3>2 DEF Written, Waits
      <4>2. QED BY <1>0, <2>1, <2>4, <2>5, <3>1, <3>2, <4>1 DEF WriteInv, OnPack, Written
    <3>3. CASE q # r
      <4>1. Written(q)
        BY <1>0, <2>2, <3>3 DEF Written
      <4>2. QED BY <1>0, <2>4, <2>5, <3>1, <3>3, <4>1 DEF WriteInv, OnPack
    <3>4. QED BY <3>2, <3>3
  <2>12. LastWrite'
    <3> SUFFICES ASSUME NEW q \in Reader, Sure(q)', NEW i \in DOMAIN queue', NEW j \in DOMAIN queue',
                        queue'[i].by = q, i < j
                 PROVE  queue'[j].pack = Nothing
      BY DEF LastWrite
    <3>1. i \in DOMAIN queue
      BY <2>4
    <3>2. q # r
      BY <2>4, <2>6, <3>1
    <3>3. QED BY <2>4, <2>5, <2>8, <3>1, <3>2 DEF WriteInv, LastWrite
  <2>13. AnswerIsPack'
    <3>1. \A q \in Reader : ~overtaken'[q] => ~overtaken[q]
      BY <1>1
    <3>2. answer[r].of = Nothing
      BY <2>7 DEF WriteInv, ValueOk
    <3>3. QED BY <1>0, <2>2, <3>1, <3>2 DEF WriteInv, AnswerIsPack
  <2>14. QED BY <2>9, <2>10, <2>11, <2>12, <2>13 DEF WriteInv
<1>2. CASE cancelled[r] /\ Goto(r, OnError(r, pc[r])) /\ UNCHANGED <<queue, overtaken>>
  <2> DEFINE p == OnError(r, pc[r])
  <2>1. p \in {"exit", "fail"} /\ (p = "fail" => pc[r] = "rewrite")
    BY <1>0, <1>2 DEF OnError, Calls
  <2>2. p \in Place \ Waits /\ (p \in Selecting => pack[r] # Nothing)
    BY <2>1, PlacesAre DEF Waits, WriteInv, HasPack, Selecting
  <2>3. Goto(r, p) BY <1>2
  <2> HIDE DEF p
  <2>4. pc'[r] = p /\ \A q \in Reader \ {r} : pc'[q] = pc[q]
    BY <2>3, InvParts DEF Goto, ReaderType
  <2>5. p \notin {"settle", "schema", "read", "publish"}
    BY <2>1
  <2>6. QED BY <1>0, <1>2, <2>2, <2>4, <2>5, WriteMove
<1>3. QED BY <1>1, <1>2 DEF Ask

LEMMA GiveUpWrites ==
  ASSUME IInv, WriteInv, NEW r \in Reader, GiveUp(r)
  PROVE  WriteInv'
<1>0. UNCHANGED <<pack, overtaken, cancelled, query>>
  BY DEF GiveUp
<1>1. PICK call \in Calls : /\ pc[r] = Wait(call) /\ cancelled[r] /\ Goto(r, OnError(r, call))
                            /\ queue' = Orphaned(r) /\ answer' = [answer EXCEPT ![r] = NoAnswer]
  BY DEF GiveUp
<1> DEFINE p == OnError(r, call)
<1>2. p \in {"exit", "fail"} /\ (p = "fail" => pc[r] = "rewriting")
  BY <1>1 DEF OnError, Wait, Calls
<1>3. Goto(r, p) BY <1>1
<1> HIDE DEF p
<1>4. pc'[r] = p /\ \A q \in Reader \ {r} : pc'[q] = pc[q]
  BY <1>3, InvParts DEF Goto, ReaderType
<1>5. answer'[r] = NoAnswer /\ \A q \in Reader \ {r} : answer'[q] = answer[q]
  BY <1>1, InvParts DEF ReplyType
<1>6. /\ DOMAIN queue' = DOMAIN queue
      /\ \A i \in DOMAIN queue : /\ queue'[i].pack = queue[i].pack
                                 /\ queue'[i].by = IF queue[i].by = r THEN Nothing ELSE queue[i].by
  <2>1. queue \in Seq(Command)
    BY InvParts DEF BrokerType
  <2>2. \A c \in Command : /\ [c EXCEPT !.by = Nothing].pack = c.pack
                           /\ [c EXCEPT !.by = Nothing].by = Nothing
    BY DEF Command
  <2>3. \A i \in DOMAIN queue : queue[i] \in Command
    BY <2>1
  <2>4. QED BY <1>1, <2>2, <2>3 DEF Orphaned
<1>7. Nothing \notin Reader
  BY NamesAssumption DEF NamesAssumption
<1>8. HasPack' /\ ValueOk'
  BY <1>0, <1>2, <1>4, <1>5 DEF WriteInv, HasPack, ValueOk, Selecting, NoAnswer
<1>9. Ordered'
  BY <1>0, <1>4, <1>6, <1>7 DEF WriteInv, Ordered
<1>10. \A q \in Reader : Sure(q)' => Sure(q) /\ q # r
  BY <1>0, <1>1, <1>4, WaitIs DEF Sure, Live, Waits
<1>11. \A q \in Reader \ {r} : Written(q)' <=> Written(q)
  BY <1>4, <1>5 DEF Written
<1>12. OnPack'
  BY <1>0, <1>6, <1>10, <1>11 DEF WriteInv, OnPack
<1>13. LastWrite'
  BY <1>6, <1>7, <1>10 DEF WriteInv, LastWrite
<1>14. AnswerIsPack'
  BY <1>0, <1>2, <1>4, <1>5 DEF WriteInv, AnswerIsPack, NoAnswer
<1>15. QED BY <1>8, <1>9, <1>12, <1>13, <1>14 DEF WriteInv

LEMMA ReturnWrites ==
  ASSUME IInv, WriteInv, NEW r \in Reader, Return(r)
  PROVE  WriteInv'
<1>0. UNCHANGED <<pack, overtaken, cancelled, queue, query>>
  BY DEF Return, brokerVars
<1>1. PICK call \in Calls :
        /\ pc[r] = Wait(call) /\ answer[r].result # "none"
        /\ Goto(r, IF answer[r].result = "error" THEN OnError(r, call)
                   ELSE IF call # "read" THEN "settle"
                   ELSE IF cancelled[r] THEN "exit" ELSE "publish")
        /\ answer' = [answer EXCEPT ![r] = IF call = "read" THEN @ ELSE NoAnswer]
  BY DEF Return
<1> DEFINE p == IF answer[r].result = "error" THEN OnError(r, call)
                ELSE IF call # "read" THEN "settle"
                ELSE IF cancelled[r] THEN "exit" ELSE "publish"
<1>2. /\ p \in {"exit", "fail", "pause", "publish", "settle"}
      /\ p \in {"pause", "fail", "settle"} => call # "read"
      /\ p = "settle" => answer[r].result # "error"
      /\ p = "publish" => call = "read" /\ (~cancelled[r] \/ answer[r].result = "error")
  BY <1>1 DEF OnError, Calls
<1>3. p \in Place \ Waits
  BY <1>2, PlacesAre DEF Waits
<1>4. Goto(r, p) BY <1>1
<1> HIDE DEF p
<1>5. pc'[r] = p /\ \A q \in Reader \ {r} : pc'[q] = pc[q]
  BY <1>4, InvParts DEF Goto, ReaderType
<1>6. answer'[r] \in {answer[r], NoAnswer} /\ \A q \in Reader \ {r} : answer'[q] = answer[q]
  BY <1>1, InvParts DEF ReplyType
<1>7. call # "read" => pc[r] \in {"writing", "rewriting"} /\ pack[r] # Nothing
  BY <1>1, WaitIs DEF WriteInv, HasPack, Selecting, Waits
<1>8. p \in Selecting => pack[r] # Nothing
  BY <1>2, <1>7 DEF Selecting
<1>9. p \in {"settle", "schema", "read"} => Written(r)
  <2>1. answer[r].result \in {"none", "ok", "error"}
    BY InvParts DEF ReplyType, Answer
  <2>2. QED BY <1>1, <1>2, <1>7, <2>1 DEF Written
<1>10. p = "publish" /\ answer[r].of # Nothing => pc[r] = "reading" /\ ~cancelled[r]
  BY <1>1, <1>2, WaitIs DEF WriteInv, ValueOk
<1>11. pc[r] # "none"
  BY <1>1, WaitIs DEF Waits
<1>12. QED BY <1>0, <1>1, <1>3, <1>5, <1>6, <1>8, <1>9, <1>10, <1>11, WriteMove

\* The other steps of a reader leave the queue and the window alone.
LEMMA OtherStepWrites ==
  ASSUME IInv, WriteInv, NEW r \in Reader,
         Pause(r) \/ Settle(r) \/ Schema(r) \/ Publish(r) \/ Complete(r) \/ Fail(r)
  PROVE  WriteInv'
<1>1. PICK p \in {"rewrite", "exit", "schema", "read", "complete"} :
        /\ Goto(r, p)
        /\ p = "rewrite" => pc[r] = "pause"
        /\ p = "schema" => pc[r] = "settle"
        /\ p = "read" => pc[r] = "schema"
  BY DEF Pause, Settle, Schema, Publish, Complete, Fail
<1>2. /\ pc[r] \in {"pause", "settle", "schema", "publish", "complete", "fail"}
      /\ UNCHANGED <<pack, cancelled, overtaken, queue, query>>
  BY DEF Pause, Settle, Schema, Publish, Complete, Fail, brokerVars
<1>3. UNCHANGED answer \/ answer' = [answer EXCEPT ![r] = NoAnswer]
  BY DEF Pause, Settle, Schema, Publish, Complete, Fail
<1>4. answer'[r] \in {answer[r], NoAnswer} /\ \A q \in Reader \ {r} : answer'[q] = answer[q]
  BY <1>3, InvParts DEF ReplyType
<1>5. p \in Place \ Waits /\ pc[r] \notin Waits /\ pc[r] # "none" /\ p # "publish"
  BY <1>1, <1>2, PlacesAre DEF Waits
<1>6. pc'[r] = p /\ \A q \in Reader \ {r} : pc'[q] = pc[q]
  BY <1>1, <1>5, InvParts DEF Goto, ReaderType
<1>7. p \in Selecting => pack[r] # Nothing
  BY <1>1 DEF WriteInv, HasPack, Selecting
<1>8. p \in {"settle", "schema", "read"} => Written(r)
  BY <1>1 DEF Written
<1>9. QED BY <1>2, <1>4, <1>5, <1>6, <1>7, <1>8, WriteMove

LEMMA ExitWrites ==
  ASSUME IInv, WriteInv, NEW r \in Reader, Exit(r)
  PROVE  WriteInv'
<1>1. /\ pc[r] = "exit" /\ UNCHANGED <<queue, query>>
      /\ pc' = [pc EXCEPT ![r] = "none"] /\ pack' = [pack EXCEPT ![r] = Nothing]
      /\ answer' = [answer EXCEPT ![r] = NoAnswer] /\ cancelled' = [cancelled EXCEPT ![r] = FALSE]
      /\ overtaken' = [overtaken EXCEPT ![r] = FALSE]
  BY DEF Exit, Goto, brokerVars
<1>2. pc'[r] = "none" /\ pack'[r] = Nothing /\ answer'[r] = NoAnswer
  BY <1>1, InvParts DEF ReaderType, ReplyType
<1>3. \A q \in Reader \ {r} : pc'[q] = pc[q] /\ pack'[q] = pack[q] /\ answer'[q] = answer[q]
  BY <1>1, InvParts DEF ReaderType, ReplyType
<1>4. \A q \in Reader \ {r} : cancelled'[q] = cancelled[q] /\ overtaken'[q] = overtaken[q]
  BY <1>1, InvParts DEF ReaderType
<1>5. \A i \in DOMAIN queue : queue[i].by # r
  BY <1>1, NoCommand DEF Waits
<1>6. HasPack' /\ ValueOk'
  BY <1>2, <1>3 DEF WriteInv, HasPack, ValueOk, Selecting, NoAnswer
<1>7. Ordered'
  BY <1>1, <1>3, <1>5 DEF WriteInv, Ordered
<1>8. \A q \in Reader : Sure(q)' => q # r /\ Sure(q)
  BY <1>2, <1>3, <1>4 DEF Sure, Live
<1>9. \A q \in Reader \ {r} : Written(q)' <=> Written(q)
  BY <1>3 DEF Written
<1>10. OnPack' /\ LastWrite'
  BY <1>1, <1>3, <1>8, <1>9 DEF WriteInv, OnPack, LastWrite
<1>11. AnswerIsPack'
  BY <1>2, <1>3, <1>4 DEF WriteInv, AnswerIsPack
<1>12. QED BY <1>6, <1>7, <1>10, <1>11 DEF WriteInv

\* The broker executes a write of the read that goes on, or one ahead of it in the queue.
LEMMA ExecuteWrites ==
  ASSUME IInv, OneLive, WriteInv, Execute
  PROVE  WriteInv'
<1>0. UNCHANGED <<pc, pack, overtaken, cancelled>>
  BY DEF Execute
<1> DEFINE c == Head(queue)
<1>1. queue \in Seq(Command) /\ queue # <<>> /\ queue' = Tail(queue)
  BY InvParts DEF Execute, BrokerType
<1>2. /\ c \in Command /\ c = queue[1] /\ 1 \in DOMAIN queue
      /\ \A i \in DOMAIN queue' : i + 1 \in DOMAIN queue /\ 1 < i + 1 /\ i \in Nat /\ queue'[i] = queue[i + 1]
  BY <1>1
<1>3. PICK ok \in BOOLEAN :
        /\ query' \in IF c.pack = Nothing THEN {query} ELSE IF ok THEN {c.pack} ELSE {query, c.pack}
        /\ IF c.by = Nothing THEN UNCHANGED <<answer, refused>>
           ELSE answer' = [answer EXCEPT ![c.by] =
                             [result |-> IF ok THEN "ok" ELSE "error",
                              of |-> IF ok /\ c.pack = Nothing /\ pack[c.by] # Nothing THEN query ELSE Nothing]]
  BY DEF Execute
<1> HIDE DEF c
<1>4. c.by \in Reader \cup {Nothing}
  BY <1>2 DEF Command
<1>5. \A r \in Reader : c.by # r => answer'[r] = answer[r]
  BY <1>3, <1>4, InvParts DEF ReplyType
<1>6. \A r \in Reader : c.by = r =>
        /\ answer'[r].result = IF ok THEN "ok" ELSE "error"
        /\ answer'[r].of = IF ok /\ c.pack = Nothing /\ pack[r] # Nothing THEN query ELSE Nothing
        /\ pc[r] \in Waits /\ answer[r].result = "none"
        /\ c.pack = IF pc[r] = "reading" THEN Nothing ELSE pack[r]
  <2>1. Nothing \notin Reader
    BY NamesAssumption DEF NamesAssumption
  <2>2. QED BY <1>2, <1>3, <2>1, InvParts DEF Waiting, WriteInv, Ordered, ReplyType
<1>7. HasPack'
  BY <1>0 DEF WriteInv, HasPack
<1>8. Ordered'
  BY <1>0, <1>2 DEF WriteInv, Ordered
<1>9. ValueOk'
  BY <1>5, <1>6 DEF WriteInv, ValueOk
<1>10. \A r \in Reader : Sure(r)' <=> Sure(r)
  BY <1>0 DEF Sure, Live
<1>11. LastWrite'
  <2> SUFFICES ASSUME NEW r \in Reader, Sure(r), NEW i \in DOMAIN queue', NEW j \in DOMAIN queue',
                      queue'[i].by = r, i < j
               PROVE  queue'[j].pack = Nothing
    BY <1>10 DEF LastWrite
  <2>1. i + 1 \in DOMAIN queue /\ j + 1 \in DOMAIN queue /\ i + 1 < j + 1
    BY <1>2
  <2>2. QED BY <1>2, <2>1 DEF WriteInv, LastWrite
<1>12. OnPack'
  <2> SUFFICES ASSUME NEW r \in Reader, Sure(r), Written(r)'
               PROVE  query' = pack[r] /\ \A i \in DOMAIN queue' : queue'[i].pack = Nothing
    BY <1>0, <1>10 DEF OnPack
  <2>1. CASE Written(r)
    <3>1. query = pack[r] /\ \A i \in DOMAIN queue : queue[i].pack = Nothing
      BY <2>1 DEF WriteInv, OnPack
    <3>2. QED BY <1>2, <1>3, <3>1
  <2>2. CASE ~Written(r)
    <3>1. c.by = r /\ ok /\ pc[r] # "reading"
      BY <1>0, <1>5, <1>6, <2>2 DEF Written
    <3>2. c.pack = pack[r] /\ c.pack # Nothing
      BY <1>6, <3>1 DEF Sure
    <3>3. query' = pack[r]
      BY <1>3, <3>1, <3>2
    <3>4. \A i \in DOMAIN queue' : queue'[i].pack = Nothing
      BY <1>2, <3>1 DEF WriteInv, LastWrite
    <3>5. QED BY <3>3, <3>4
  <2>3. QED BY <2>1, <2>2
<1>13. AnswerIsPack'
  <2> SUFFICES ASSUME NEW r \in Reader, pack[r] # Nothing, ~overtaken[r], answer'[r].of # Nothing,
                      pc[r] = "publish" \/ (pc[r] = "reading" /\ ~cancelled[r])
               PROVE  answer'[r].of = pack[r]
    BY <1>0 DEF AnswerIsPack
  <2>1. CASE c.by = r
    <3>1. pc[r] = "reading" /\ ~cancelled[r] /\ answer'[r].of = query
      BY <1>6, <2>1 DEF Waits
    <3>2. Sure(r) /\ Written(r)
      BY <3>1 DEF Sure, Live, Written
    <3>3. QED BY <3>1, <3>2 DEF WriteInv, OnPack
  <2>2. CASE c.by # r
    BY <1>5, <2>2 DEF WriteInv, AnswerIsPack
  <2>3. QED BY <2>1, <2>2
<1>14. QED BY <1>7, <1>8, <1>9, <1>11, <1>12, <1>13 DEF WriteInv

\* A new read has not asked for anything, and no other goes on.
LEMMA StartReadWrites ==
  ASSUME IInv, OneLive, WriteInv, NEW p, NEW c, StartRead(p, c), UNCHANGED <<queue, query>>
  PROVE  WriteInv'
<1>0. pc \in [Reader -> Place] /\ pack \in [Reader -> Pack \cup {Nothing}]
      /\ cancelled \in [Reader -> BOOLEAN]
  BY InvParts DEF ReaderType
<1>1. PICK r \in Reader :
        /\ pc[r] = "none" /\ cancelled' = Cancelled
        /\ Goto(r, IF p = Nothing THEN "read" ELSE "write")
        /\ pack' = [pack EXCEPT ![r] = p]
        /\ UNCHANGED <<answer, overtaken>>
  BY DEF StartRead
<1>2. pc'[r] = (IF p = Nothing THEN "read" ELSE "write") /\ pack'[r] = p
      /\ \A q \in Reader \ {r} : pc'[q] = pc[q] /\ pack'[q] = pack[q]
  BY <1>0, <1>1 DEF Goto
<1>3. \A q \in Reader \ {r} : ~Live(q)'
  BY <1>1, <1>2 DEF Live, Cancelled, OneLive
<1>4. \A q \in Reader : ~cancelled'[q] => ~cancelled[q]
  BY <1>1 DEF Cancelled
<1>5. \A i \in DOMAIN queue : queue[i].by # r
  BY <1>1, NoCommand DEF Waits
<1>6. HasPack' /\ ValueOk'
  BY <1>1, <1>2 DEF WriteInv, HasPack, ValueOk, Selecting
<1>7. Ordered'
  BY <1>2, <1>5 DEF WriteInv, Ordered
<1>8. OnPack'
  BY <1>2, <1>3 DEF OnPack, Sure, Written
<1>9. LastWrite'
  BY <1>3, <1>5 DEF LastWrite, Sure
<1>10. AnswerIsPack'
  BY <1>1, <1>2, <1>4 DEF WriteInv, AnswerIsPack
<1>11. QED BY <1>6, <1>7, <1>8, <1>9, <1>10 DEF WriteInv

\* A read may be cancelled at any time.
LEMMA CancelWrites ==
  ASSUME WriteInv, \A q \in Reader : ~cancelled'[q] => ~cancelled[q],
         UNCHANGED <<pc, pack, answer, overtaken, queue, query>>
  PROVE  WriteInv'
<1>1. HasPack' /\ ValueOk' /\ Ordered'
  BY DEF WriteInv, HasPack, ValueOk, Ordered
<1>2. \A q \in Reader : (Sure(q)' => Sure(q)) /\ (Written(q)' <=> Written(q))
  BY DEF Sure, Live, Written
<1>3. OnPack' /\ LastWrite'
  BY <1>2 DEF WriteInv, OnPack, LastWrite
<1>4. AnswerIsPack'
  BY DEF WriteInv, AnswerIsPack
<1>5. QED BY <1>1, <1>3, <1>4 DEF WriteInv

LEMMA WriteStep == IInv /\ OneLive /\ WriteInv /\ [Next]_vars => WriteInv'
<1> SUFFICES ASSUME IInv, OneLive, WriteInv, [Next]_vars PROVE WriteInv'
  OBVIOUS
<1>1. ASSUME NEW r \in Reader, ReaderStep(r) PROVE WriteInv'
  BY <1>1, AskWrites, GiveUpWrites, ReturnWrites, OtherStepWrites, ExitWrites DEF ReaderStep
<1>2. CASE Execute
  BY <1>2, ExecuteWrites
<1>3. ASSUME CancelRead \/ NoChange, UNCHANGED <<queue, query>> PROVE WriteInv'
  <2>1. UNCHANGED <<pc, pack, answer, overtaken>>
    BY <1>3 DEF CancelRead, NoChange, readerVars
  <2>2. \A q \in Reader : ~cancelled'[q] => ~cancelled[q]
    BY <1>3 DEF CancelRead, NoChange, Cancelled
  <2>3. QED BY <1>3, <2>1, <2>2, CancelWrites
<1>4. CASE Request
  <2>1. UNCHANGED <<queue, query>>
    BY <1>4, RequestIs
  <2>2. ASSUME NEW p, NEW c, StartRead(p, c) PROVE WriteInv'
    BY <2>1, <2>2, StartReadWrites
  <2>3. QED BY <1>3, <1>4, <2>1, <2>2, RequestIs
<1>5. CASE HandleConnected \/ HandleResult \/ UNCHANGED vars
  BY <1>3, <1>5 DEF HandleConnected, HandleResult, NoChange, vars, brokerVars
<1>6. QED BY <1>1, <1>2, <1>4, <1>5 DEF Next

LEMMA WriteCorrect == Spec => []WriteInv
<1>1. SelectionInv => OneLive
  BY DEF SelectionInv
<1>2. QED BY IInvCorrect, SelectionInit, SelectionStep, WriteInit, WriteStep, <1>1, PTL DEF Spec

-----------------------------------------------------------------------------
(* The pages show the values of one pack after another.                      *)

\* A reader that sends results under the name of its pack.
Past(r) == pack[r] # Nothing /\ pc[r] \in {"schema", "read", "reading", "publish", "complete"}

\* There is one at a time, and while it goes on no other reader is alive.
OnePast   == \A r, q \in Reader : Past(r) /\ Past(q) => r = q
PastAlone == \A r, q \in Reader : Past(r) /\ Live(r) /\ pc[q] # "none" => r = q

\* So the results on the channel are of one pack, its own.
ResultsOfOne ==
  \A i \in DOMAIN results : results[i].pack # Nothing =>
    /\ \A j \in DOMAIN results : results[j].pack \in {Nothing, results[i].pack}
    /\ \A r \in Reader : Past(r) => pack[r] = results[i].pack

ValuesOfPack ==
  \A i \in DOMAIN results :
    results[i].pack # Nothing /\ results[i].of # Nothing /\ ~results[i].overtaken => results[i].of = results[i].pack

Shows(p) == \A c \in subscribers : view[c] \in {Nothing, p}

\* No value comes to a page that shows another pack but behind the schema of its own.
SchemaPack == \A i \in DOMAIN results : results[i].kind = "section_schema" => results[i].pack # Nothing

ValueFollows ==
  \A i \in DOMAIN results :
    results[i].pack # Nothing /\ results[i].kind = "register_value" =>
      Shows(results[i].pack) \/ \E j \in 1..(i - 1) : results[j].kind = "section_schema"

ReaderFollows ==
  \A r \in Reader : Past(r) /\ pc[r] # "schema" =>
    Shows(pack[r]) \/ \E j \in DOMAIN results : results[j].kind = "section_schema"

ShowInv ==
  /\ OnePast /\ PastAlone
  /\ ResultsOfOne /\ ValuesOfPack
  /\ SchemaPack /\ ValueFollows /\ ReaderFollows

LEMMA ShowInit == Init => ShowInv
BY DEF Init, ShowInv, OnePast, PastAlone, ResultsOfOne, ValuesOfPack, SchemaPack, ValueFollows, ReaderFollows, Past

\* A step that sends nothing, hands out nothing, and lets no reader pass its settle time.
LEMMA ShowKept ==
  ASSUME ShowInv, PastAlone', UNCHANGED results,
         \A q \in Reader : Past(q)' => Past(q) /\ pack'[q] = pack[q] /\ (pc'[q] # "schema" => pc[q] # "schema"),
         \A c \in subscribers' : view'[c] = Nothing \/ (c \in subscribers /\ view'[c] = view[c])
  PROVE  ShowInv'
<1>1. OnePast'
  BY DEF ShowInv, OnePast
<1>2. ResultsOfOne' /\ ValuesOfPack' /\ SchemaPack'
  BY DEF ShowInv, ResultsOfOne, ValuesOfPack, SchemaPack
<1>3. \A p : Shows(p) => Shows(p)'
  BY DEF Shows
<1>4. ValueFollows' /\ ReaderFollows'
  BY <1>3 DEF ShowInv, ValueFollows, ReaderFollows
<1>5. QED BY <1>1, <1>2, <1>4 DEF ShowInv

\* The same for a step that starts no read.
LEMMA ShowQuiet ==
  ASSUME ShowInv, UNCHANGED results,
         \A q \in Reader : pc'[q] # "none" => pc[q] # "none" /\ (~cancelled'[q] => ~cancelled[q]),
         \A q \in Reader : Past(q)' => Past(q) /\ pack'[q] = pack[q] /\ (pc'[q] # "schema" => pc[q] # "schema"),
         \A c \in subscribers' : view'[c] = Nothing \/ (c \in subscribers /\ view'[c] = view[c])
  PROVE  ShowInv'
<1>1. \A q \in Reader : Live(q)' => Live(q)
  BY DEF Live
<1>2. PastAlone'
  BY <1>1 DEF ShowInv, PastAlone
<1>3. QED BY <1>2, ShowKept

LEMMA QuietStepShows ==
  ASSUME IInv, ShowInv, NEW r \in Reader,
         Ask(r) \/ GiveUp(r) \/ Return(r) \/ Pause(r) \/ Fail(r)
  PROVE  ShowInv'
<1>1. /\ UNCHANGED <<subscribers, results, pack, cancelled>>
      /\ UNCHANGED view \/ view' = [view EXCEPT ![owner[r]] = Nothing]
  BY DEF Ask, GiveUp, Return, Pause, Fail, hubVars
<1>2. PICK p : Goto(r, p) /\ (p \in {"schema", "read", "reading", "publish", "complete"} =>
                                p # "schema" /\ pc[r] \in {"read", "reading"})
  <2>1. CASE Ask(r)
    BY <2>1 DEF Ask, OnError, Wait, Calls
  <2>2. CASE GiveUp(r)
    BY <2>2 DEF GiveUp, OnError, Wait, Calls
  <2>3. CASE Return(r)
    BY <2>3 DEF Return, OnError, Wait, Calls
  <2>4. CASE Pause(r) \/ Fail(r)
    BY <2>4 DEF Pause, Fail
  <2>5. QED BY <2>1, <2>2, <2>3, <2>4
<1>3. pc[r] # "none"
  BY WaitIs DEF Ask, GiveUp, Return, Pause, Fail, Calls, Waits
<1>4. pc'[r] = p /\ \A q \in Reader \ {r} : pc'[q] = pc[q]
  BY <1>2, InvParts DEF Goto, ReaderType
<1>5. \A q \in Reader : pc'[q] # "none" => pc[q] # "none" /\ (~cancelled'[q] => ~cancelled[q])
  BY <1>1, <1>3, <1>4
<1>6. \A q \in Reader :
        Past(q)' => Past(q) /\ pack'[q] = pack[q] /\ (pc'[q] # "schema" => pc[q] # "schema")
  BY <1>1, <1>2, <1>4 DEF Past
<1>7. \A c \in subscribers' : view'[c] = Nothing \/ (c \in subscribers /\ view'[c] = view[c])
  BY <1>1, InvParts DEF PageType, HubType
<1>8. QED BY <1>1, <1>5, <1>6, <1>7, ShowQuiet

LEMMA ExitShows ==
  ASSUME IInv, ShowInv, NEW r \in Reader, Exit(r)
  PROVE  ShowInv'
<1>1. /\ UNCHANGED <<subscribers, results, view>>
      /\ pc' = [pc EXCEPT ![r] = "none"] /\ pack' = [pack EXCEPT ![r] = Nothing]
      /\ cancelled' = [cancelled EXCEPT ![r] = FALSE]
  BY DEF Exit, Goto, hubVars
<1>2. pc'[r] = "none" /\ \A q \in Reader \ {r} : pc'[q] = pc[q] /\ pack'[q] = pack[q]
  BY <1>1, InvParts DEF ReaderType
<1>3. \A q \in Reader \ {r} : cancelled'[q] = cancelled[q]
  BY <1>1, InvParts DEF ReaderType
<1>4. \A q \in Reader : pc'[q] # "none" => pc[q] # "none" /\ (~cancelled'[q] => ~cancelled[q])
  BY <1>2, <1>3
<1>5. \A q \in Reader :
        Past(q)' => Past(q) /\ pack'[q] = pack[q] /\ (pc'[q] # "schema" => pc[q] # "schema")
  BY <1>2 DEF Past
<1>6. QED BY <1>1, <1>4, <1>5, ShowQuiet

\* A reader passes its settle time: no other sends, and the channel is empty.
LEMMA SettleShows ==
  ASSUME IInv, OneLive, ShowInv, NEW r \in Reader, Settle(r)
  PROVE  ShowInv'
<1>1. pc[r] = "settle" /\ UNCHANGED <<subscribers, results, pack, cancelled, view>>
  BY DEF Settle, hubVars
<1>2. CASE Settled(r) /\ Goto(r, "schema")
  <2>1. pc'[r] = "schema" /\ \A q \in Reader \ {r} : pc'[q] = pc[q]
    BY <1>2, PlacesAre, InvParts DEF Goto, ReaderType
  <2>2. results = <<>> /\ \A q \in Reader \ {r} : ~cancelled[q]
    BY <1>2 DEF Settled
  <2>3. \A q \in Reader \ {r} : pc[q] # "none" => Live(q)
    BY <2>2 DEF Live
  <2>4. \A q \in Reader \ {r} : ~Past(q)
    <3> SUFFICES ASSUME NEW q \in Reader \ {r}, Past(q) PROVE FALSE
      OBVIOUS
    <3>1. Live(q)
      BY <2>3 DEF Past
    <3>2. QED BY <1>1, <3>1 DEF ShowInv, PastAlone
  <2>5. \A q \in Reader : Past(q)' => q = r
    BY <1>1, <2>1, <2>4 DEF Past
  <2>6. PastAlone'
    <3> SUFFICES ASSUME NEW q \in Reader \ {r}, Live(r)', pc'[q] # "none" PROVE FALSE
      BY <2>5 DEF PastAlone
    <3>1. Live(q) /\ Live(r)
      BY <1>1, <2>1, <2>3 DEF Live
    <3>2. QED BY <3>1 DEF OneLive
  <2>7. DOMAIN results' = {}
    BY <1>1, <2>2
  <2>8. OnePast' /\ ResultsOfOne' /\ ValuesOfPack' /\ SchemaPack' /\ ValueFollows'
    BY <2>5, <2>7 DEF OnePast, ResultsOfOne, ValuesOfPack, SchemaPack, ValueFollows
  <2>9. ReaderFollows'
    BY <2>1, <2>5 DEF ReaderFollows
  <2>10. QED BY <2>6, <2>8, <2>9 DEF ShowInv
<1>3. CASE cancelled[r] /\ Goto(r, "exit")
  <2>1. pc'[r] = "exit" /\ \A q \in Reader \ {r} : pc'[q] = pc[q]
    BY <1>3, PlacesAre, InvParts DEF Goto, ReaderType
  <2>2. \A q \in Reader : pc'[q] # "none" => pc[q] # "none" /\ (~cancelled'[q] => ~cancelled[q])
    BY <1>1, <2>1
  <2>3. \A q \in Reader :
          Past(q)' => Past(q) /\ pack'[q] = pack[q] /\ (pc'[q] # "schema" => pc[q] # "schema")
    BY <1>1, <2>1 DEF Past
  <2>4. QED BY <1>1, <2>2, <2>3, ShowQuiet
<1>4. QED BY <1>2, <1>3 DEF Settle

\* What a reader sends is of its pack, and its schema is sent first.
LEMMA SendShows ==
  ASSUME IInv, WriteInv, ShowInv, NEW r \in Reader, Schema(r) \/ Publish(r) \/ Complete(r)
  PROVE  ShowInv'
<1>1. PICK kind \in {"section_schema", "register_value", "section_complete"},
           of \in Pack \cup {Nothing}, p \in {"read", "complete", "exit"} :
        /\ Send(r, kind, of) /\ Goto(r, p)
        /\ kind = "section_schema" <=> pc[r] = "schema"
        /\ kind = "register_value" => pc[r] = "publish" /\ of = answer[r].of
        /\ kind # "register_value" => of = Nothing
  <2>1. answer[r].of \in Pack \cup {Nothing}
    BY InvParts DEF ReplyType, Answer
  <2>2. CASE Schema(r)
    BY <2>2 DEF Schema
  <2>3. CASE Publish(r)
    BY <2>1, <2>3 DEF Publish
  <2>4. CASE Complete(r)
    BY <2>4 DEF Complete
  <2>5. QED BY <2>2, <2>3, <2>4
<1>2. pc[r] \in {"schema", "publish", "complete"} /\ UNCHANGED <<subscribers, pack, cancelled, view>>
  BY DEF Schema, Publish, Complete, hubVars
<1>3. pc'[r] = p /\ \A q \in Reader \ {r} : pc'[q] = pc[q]
  BY <1>1, <1>2, InvParts DEF Goto, ReaderType
<1> DEFINE m == [kind |-> kind, pack |-> pack[r], of |-> of, overtaken |-> overtaken[r]]
<1>4. m \in Result /\ m.kind = kind /\ m.pack = pack[r] /\ m.of = of /\ m.overtaken = overtaken[r]
  BY InvParts DEF Result, ReaderType
<1>5. results \in Seq(Result) /\ results' = Append(results, m)
  BY <1>1, InvParts DEF Send, ResultsType
<1> HIDE DEF m
<1>6. /\ DOMAIN results = 1..Len(results) /\ DOMAIN results' = 1..(Len(results) + 1) /\ Len(results) \in Nat
      /\ results'[Len(results) + 1] = m
      /\ \A i \in DOMAIN results : results'[i] = results[i]
  BY <1>4, <1>5
<1>7. \A i \in DOMAIN results' : i \in DOMAIN results \/ i = Len(results) + 1
  BY <1>6
<1>8. pack[r] # Nothing => Past(r)
  BY <1>2 DEF Past
<1>9. \A q \in Reader : Past(q)' => Past(q)
  BY <1>2, <1>3 DEF Past
<1>10. \A q \in Reader : (Live(q)' => Live(q)) /\ (pc'[q] # "none" => pc[q] # "none")
  BY <1>2, <1>3 DEF Live
<1>11. OnePast' /\ PastAlone'
  BY <1>9, <1>10 DEF ShowInv, OnePast, PastAlone
<1>12. \A q \in Reader : Past(q) /\ pack[r] # Nothing => pack[q] = pack[r]
  BY <1>8 DEF ShowInv, OnePast
<1>13. \A i \in DOMAIN results : results[i].pack # Nothing => pack[r] \in {Nothing, results[i].pack}
  BY <1>8 DEF ShowInv, ResultsOfOne
<1>14. ResultsOfOne'
  <2>1. ASSUME NEW i \in DOMAIN results, results[i].pack # Nothing, NEW j \in DOMAIN results'
        PROVE  results'[j].pack \in {Nothing, results[i].pack}
    <3>1. CASE j \in DOMAIN results
      BY <1>6, <2>1, <3>1 DEF ShowInv, ResultsOfOne
    <3>2. CASE j = Len(results) + 1
      BY <1>4, <1>6, <1>13, <2>1, <3>2
    <3>3. QED BY <1>7, <3>1, <3>2
  <2>2. ASSUME NEW j \in DOMAIN results', m.pack # Nothing
        PROVE  results'[j].pack \in {Nothing, m.pack}
    <3>1. CASE j \in DOMAIN results
      BY <1>4, <1>6, <1>13, <2>2, <3>1
    <3>2. CASE j = Len(results) + 1
      BY <1>6, <3>2
    <3>3. QED BY <1>7, <3>1, <3>2
  <2>3. \A i \in DOMAIN results', q \in Reader :
          results'[i].pack # Nothing /\ Past(q)' => pack'[q] = results'[i].pack
    BY <1>2, <1>4, <1>6, <1>7, <1>9, <1>12 DEF ShowInv, ResultsOfOne
  <2>4. \A i \in DOMAIN results', j \in DOMAIN results' :
          results'[i].pack # Nothing => results'[j].pack \in {Nothing, results'[i].pack}
    BY <1>6, <1>7, <2>1, <2>2
  <2>5. QED BY <2>3, <2>4 DEF ResultsOfOne
<1>15. ValuesOfPack'
  <2>1. m.pack # Nothing /\ m.of # Nothing /\ ~m.overtaken => m.of = m.pack
    BY <1>1, <1>4 DEF WriteInv, AnswerIsPack
  <2>2. QED BY <1>6, <1>7, <2>1 DEF ShowInv, ValuesOfPack
<1>16. SchemaPack'
  <2>1. m.kind = "section_schema" => m.pack # Nothing
    BY <1>1, <1>4 DEF WriteInv, HasPack, Selecting
  <2>2. QED BY <1>6, <1>7, <2>1 DEF ShowInv, SchemaPack
<1>17. \A x : Shows(x)' <=> Shows(x)
  BY <1>2 DEF Shows
<1>18. \A j \in DOMAIN results : results[j].kind = "section_schema" => results'[j].kind = "section_schema"
  BY <1>6
<1>19. ValueFollows'
  <2> SUFFICES ASSUME NEW i \in DOMAIN results', results'[i].pack # Nothing, results'[i].kind = "register_value"
               PROVE  Shows(results'[i].pack) \/ \E j \in 1..(i - 1) : results'[j].kind = "section_schema"
    BY <1>17 DEF ValueFollows
  <2>1. CASE i \in DOMAIN results
    <3>1. Shows(results[i].pack) \/ \E j \in 1..(i - 1) : results[j].kind = "section_schema"
      BY <1>6, <2>1 DEF ShowInv, ValueFollows
    <3>2. \A j \in 1..(i - 1) : j \in DOMAIN results
      BY <1>6, <2>1
    <3>3. QED BY <1>6, <1>18, <2>1, <3>1, <3>2
  <2>2. CASE i = Len(results) + 1
    <3>1. pack[r] # Nothing /\ pc[r] = "publish" /\ results'[i].pack = pack[r]
      BY <1>1, <1>4, <1>6, <2>2
    <3>2. Shows(pack[r]) \/ \E j \in DOMAIN results : results[j].kind = "section_schema"
      BY <1>8, <3>1 DEF ShowInv, ReaderFollows
    <3>3. \A j \in DOMAIN results : j \in 1..(i - 1)
      BY <1>6, <2>2
    <3>4. QED BY <1>18, <3>1, <3>2, <3>3
  <2>3. QED BY <1>7, <2>1, <2>2
<1>20. ReaderFollows'
  <2> SUFFICES ASSUME NEW q \in Reader, Past(q)', pc'[q] # "schema"
               PROVE  Shows(pack[q]) \/ \E j \in DOMAIN results' : results'[j].kind = "section_schema"
    BY <1>2, <1>17 DEF ReaderFollows
  <2>1. CASE q = r /\ kind = "section_schema"
    <3>1. Len(results) + 1 \in DOMAIN results' /\ results'[Len(results) + 1].kind = "section_schema"
      BY <1>4, <1>6, <2>1
    <3>2. QED BY <3>1
  <2>2. CASE ~(q = r /\ kind = "section_schema")
    <3>1. Past(q) /\ pc[q] # "schema"
      BY <1>1, <1>3, <1>9, <2>2
    <3>2. Shows(pack[q]) \/ \E j \in DOMAIN results : results[j].kind = "section_schema"
      BY <3>1 DEF ShowInv, ReaderFollows
    <3>3. \A j \in DOMAIN results : j \in DOMAIN results'
      BY <1>6
    <3>4. QED BY <1>18, <3>2, <3>3
  <2>3. QED BY <2>1, <2>2
<1>21. QED BY <1>11, <1>14, <1>15, <1>16, <1>19, <1>20 DEF ShowInv

LEMMA ExecuteShows ==
  ASSUME ShowInv, Execute
  PROVE  ShowInv'
<1>1. UNCHANGED <<subscribers, results, pc, pack, cancelled, view>>
  BY DEF Execute, hubVars
<1>2. \A q \in Reader : Past(q)' <=> Past(q)
  BY <1>1 DEF Past
<1>3. QED BY <1>1, <1>2, ShowQuiet

\* A request of a client.
LEMMA RequestShows ==
  ASSUME IInv, OneLive, ShowInv, Request
  PROVE  ShowInv'
<1>0. UNCHANGED results
  BY RequestIs
<1>1. \A c \in subscribers' : view'[c] = Nothing \/ (c \in subscribers /\ view'[c] = view[c])
  <2>1. view \in [Client -> Pack \cup {Nothing}] /\ subscribers \subseteq Client
    BY InvParts DEF PageType, HubType
  <2>2. ASSUME NEW c \in Client,
               subscribers' \subseteq subscribers \cup {c}, view' = [view EXCEPT ![c] = Nothing]
        PROVE  \A d \in subscribers' : view'[d] = Nothing \/ (d \in subscribers /\ view'[d] = view[d])
    BY <2>1, <2>2
  <2>3. CASE \E c \in Client : Subscribe(c) \/ Leave(c) \/ \E p \in Pack : SelectPack(c, p)
    <3>1. PICK c \in Client : Subscribe(c) \/ Leave(c) \/ \E p \in Pack : SelectPack(c, p)
      BY <2>3
    <3>2. subscribers' \subseteq subscribers \cup {c} /\ view' = [view EXCEPT ![c] = Nothing]
      BY <3>1 DEF Subscribe, Leave, SelectPack
    <3>3. QED BY <2>2, <3>2
  <2>4. CASE ReadCycle \/ Refresh \/ Disconnect
    BY <2>4 DEF ReadCycle, Refresh, Disconnect, hubVars
  <2>5. QED BY <2>3, <2>4 DEF Request
<1>2. ASSUME NEW p, NEW c, StartRead(p, c) PROVE ShowInv'
  <2>1. PICK r \in Reader :
          /\ pc[r] = "none"
          /\ Goto(r, IF p = Nothing THEN "read" ELSE "write")
          /\ pack' = [pack EXCEPT ![r] = p]
          /\ cancelled' = Cancelled
    BY <1>2 DEF StartRead
  <2>2. /\ pc'[r] = (IF p = Nothing THEN "read" ELSE "write") /\ pack'[r] = p
        /\ \A q \in Reader \ {r} : pc'[q] = pc[q] /\ pack'[q] = pack[q]
    BY <2>1, InvParts DEF Goto, ReaderType
  <2>3. ~Past(r)' /\ \A q \in Reader \ {r} : Past(q)' <=> Past(q)
    BY <2>2 DEF Past
  <2>4. \A q \in Reader \ {r} : ~Live(q)'
    BY <2>1, <2>2 DEF Live, Cancelled, OneLive
  <2>5. PastAlone'
    BY <2>3, <2>4 DEF PastAlone
  <2>6. QED BY <1>0, <1>1, <2>2, <2>3, <2>5, ShowKept
<1>3. ASSUME CancelRead \/ NoChange PROVE ShowInv'
  <2>1. UNCHANGED <<pc, pack>> /\ \A q \in Reader : ~cancelled'[q] => ~cancelled[q]
    BY <1>3 DEF CancelRead, NoChange, readerVars, Cancelled
  <2>2. \A q \in Reader : Past(q)' <=> Past(q)
    BY <2>1 DEF Past
  <2>3. QED BY <1>0, <1>1, <2>1, <2>2, ShowQuiet
<1>4. QED BY <1>2, <1>3, RequestIs

\* The hub broadcasts a result: behind a schema every page shows the pack that all the rest is of.
LEMMA ResultShows ==
  ASSUME IInv, ShowInv, HandleResult
  PROVE  ShowInv'
<1>1. UNCHANGED <<subscribers, pc, pack, cancelled>>
  BY DEF HandleResult, NoChange, readerVars, hubVars
<1> DEFINE m == Head(results)
<1>2. /\ results \in Seq(Result) /\ results # <<>> /\ results' = Tail(results)
      /\ view' = IF m.kind # "section_schema" THEN view
                 ELSE [c \in Client |-> IF c \in subscribers THEN m.pack ELSE view[c]]
  BY InvParts DEF HandleResult, ResultsType
<1>3. /\ 1 \in DOMAIN results /\ m = results[1]
      /\ \A i \in DOMAIN results' : i \in Nat /\ i >= 1 /\ i + 1 \in DOMAIN results /\ results'[i] = results[i + 1]
      /\ \A i \in DOMAIN results : i \in Nat /\ i >= 1 /\ (i = 1 \/ i - 1 \in DOMAIN results')
  BY <1>2
<1> HIDE DEF m
<1>4. \A q \in Reader : (Past(q)' <=> Past(q)) /\ (Live(q)' <=> Live(q))
  BY <1>1 DEF Past, Live
<1>5. OnePast' /\ PastAlone'
  BY <1>1, <1>4 DEF ShowInv, OnePast, PastAlone
<1>6. ResultsOfOne' /\ ValuesOfPack' /\ SchemaPack'
  BY <1>1, <1>3, <1>4 DEF ShowInv, ResultsOfOne, ValuesOfPack, SchemaPack
<1>7. CASE m.kind = "section_schema"
  <2>1. m.pack # Nothing
    BY <1>3, <1>7 DEF ShowInv, SchemaPack
  <2>2. \A c \in subscribers' : view'[c] = m.pack
    <3>1. subscribers \subseteq Client
      BY InvParts DEF HubType
    <3>2. QED BY <1>1, <1>2, <1>7, <3>1
  <2>3. \A i \in DOMAIN results' : results'[i].pack # Nothing => results'[i].pack = m.pack
    BY <1>3, <2>1 DEF ShowInv, ResultsOfOne
  <2>4. \A q \in Reader : Past(q) => pack[q] = m.pack
    BY <1>3, <2>1 DEF ShowInv, ResultsOfOne
  <2>5. ValueFollows'
    <3> SUFFICES ASSUME NEW i \in DOMAIN results', results'[i].pack # Nothing
                 PROVE  \A c \in subscribers' : view'[c] \in {Nothing, results'[i].pack}
      BY DEF ValueFollows, Shows
    <3>1. results'[i].pack = m.pack
      BY <2>3
    <3>2. QED BY <2>2, <3>1
  <2>6. ReaderFollows'
    <3> SUFFICES ASSUME NEW q \in Reader, Past(q)
                 PROVE  \A c \in subscribers' : view'[c] \in {Nothing, pack'[q]}
      BY <1>4 DEF ReaderFollows, Shows
    <3>1. QED BY <1>1, <2>2, <2>4
  <2>7. QED BY <1>5, <1>6, <2>5, <2>6 DEF ShowInv
<1>8. CASE m.kind # "section_schema"
  <2>1. \A x : Shows(x)' <=> Shows(x)
    BY <1>1, <1>2, <1>8 DEF Shows
  <2>2. \A j \in DOMAIN results : results[j].kind = "section_schema" =>
          j - 1 \in DOMAIN results' /\ results'[j - 1].kind = "section_schema"
    <3> SUFFICES ASSUME NEW j \in DOMAIN results, results[j].kind = "section_schema"
                 PROVE  j - 1 \in DOMAIN results' /\ results'[j - 1].kind = "section_schema"
      OBVIOUS
    <3>1. j \in Nat /\ j - 1 \in DOMAIN results' /\ (j - 1) + 1 = j
      BY <1>3, <1>8
    <3>2. QED BY <1>3, <3>1
  <2>3. ValueFollows'
    <3> SUFFICES ASSUME NEW i \in DOMAIN results', results'[i].pack # Nothing,
                        results'[i].kind = "register_value", ~Shows(results'[i].pack)
                 PROVE  \E j \in 1..(i - 1) : results'[j].kind = "section_schema"
      BY <2>1 DEF ValueFollows
    <3>1. i \in Nat /\ i + 1 \in DOMAIN results /\ results'[i] = results[i + 1]
      BY <1>3
    <3>2. PICK j \in 1..((i + 1) - 1) : results[j].kind = "section_schema"
      BY <3>1 DEF ShowInv, ValueFollows
    <3>3. j \in DOMAIN results
      <4>1. \A k \in DOMAIN results : \A l \in 1..(k - 1) : l \in DOMAIN results
        BY <1>2
      <4>2. QED BY <3>1, <4>1
    <3>4. j - 1 \in DOMAIN results' /\ results'[j - 1].kind = "section_schema"
      BY <2>2, <3>2, <3>3
    <3>5. j - 1 \in 1..(i - 1)
      BY <1>3, <3>1, <3>4
    <3>6. QED BY <3>4, <3>5
  <2>4. ReaderFollows'
    BY <1>1, <1>4, <2>1, <2>2 DEF ShowInv, ReaderFollows
  <2>5. QED BY <1>5, <1>6, <2>3, <2>4 DEF ShowInv
<1>9. QED BY <1>7, <1>8

LEMMA ShowStep == IInv /\ OneLive /\ WriteInv /\ ShowInv /\ [Next]_vars => ShowInv'
<1> SUFFICES ASSUME IInv, OneLive, WriteInv, ShowInv, [Next]_vars PROVE ShowInv'
  OBVIOUS
<1>1. ASSUME NEW r \in Reader, ReaderStep(r) PROVE ShowInv'
  BY <1>1, QuietStepShows, SettleShows, SendShows, ExitShows DEF ReaderStep
<1>2. CASE Execute
  BY <1>2, ExecuteShows
<1>3. CASE Request
  BY <1>3, RequestShows
<1>4. CASE HandleResult
  BY <1>4, ResultShows
<1>5. CASE HandleConnected \/ UNCHANGED vars
  <2>1. UNCHANGED <<subscribers, results, pc, pack, cancelled, view>>
    BY <1>5 DEF HandleConnected, NoChange, readerVars, vars, hubVars
  <2>2. \A q \in Reader : Past(q)' <=> Past(q)
    BY <2>1 DEF Past
  <2>3. QED BY <2>1, <2>2, ShowQuiet
<1>6. QED BY <1>1, <1>2, <1>3, <1>4, <1>5 DEF Next

\* What a page shows under the name of a pack was read while the window stood on that pack, for any number of
\* clients, packs and cancelled readers and every capacity of the channels: but for a write that is queued
\* although its reader was cancelled.
THEOREM ShownCorrect == Spec => []ShownIsPack
<1>1. SelectionInv => OneLive
  BY DEF SelectionInv
<1>2. IInv /\ ShowInv => ShownIsPack
  <2> SUFFICES ASSUME IInv, ShowInv, results # <<>>, Head(results).kind = "register_value",
                      Head(results).pack # Nothing, Head(results).of # Nothing, ~Head(results).overtaken,
                      NEW c \in subscribers, view[c] # Nothing
               PROVE  Head(results).of = view[c]
    BY DEF ShownIsPack
  <2>1. results \in Seq(Result)
    BY InvParts DEF ResultsType
  <2>2. 1 \in DOMAIN results /\ Head(results) = results[1] /\ 1..(1 - 1) = {}
    BY <2>1
  <2>3. results[1].of = results[1].pack
    BY <2>2 DEF ShowInv, ValuesOfPack
  <2>4. Shows(results[1].pack)
    BY <2>2 DEF ShowInv, ValueFollows
  <2>5. QED BY <2>2, <2>3, <2>4 DEF Shows
<1>3. QED BY IInvCorrect, SelectionInit, SelectionStep, WriteCorrect, ShowInit, ShowStep, <1>1, <1>2, PTL DEF Spec
=============================================================================
