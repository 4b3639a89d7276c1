------------------------------ MODULE PackReads ------------------------------
(***************************************************************************)
(* internal/hub: the BMS section and the packs that clients select in it.  *)
(*                                                                         *)
(* A pack's registers are read through a window: the inverter shows the    *)
(* pack that was last written to register 0x9020.  select_pack and, while  *)
(* a pack is selected, read_cycle start a read that writes the pack, once  *)
(* more after a failure, waits for it to settle, broadcasts the pack's     *)
(* schema and reads its spans.  Subscribing ends the selection.            *)
(*                                                                         *)
(* The broker is its queue and the inverter behind it; its retries and its *)
(* connection are in Broker.  A call that its caller gives up stays in the *)
(* queue and is executed, by nobody's order.  The selection is shared by   *)
(* all clients, so are the results.  view stands for what app.js shows.    *)
(* The spans of a pack are one.                                            *)
(***************************************************************************)
EXTENDS Integers, Sequences

CONSTANTS
  Client,     \* web clients
  Pack,       \* the packs of the battery
  Reader,     \* slots for the read goroutines alive at the same time
  Nothing,    \* no pack, client or reader
  QueueCap,   \* capacity of the broker's command channel
  ResultCap,  \* capacity of the results channel
  MaxRequests \* requests of the clients, a bound of the model

ASSUME NamesAssumption == Nothing \notin Client \cup Pack \cup Reader
ASSUME SizesAssumption == QueueCap \in Nat \ {0} /\ ResultCap \in Nat \ {0} /\ MaxRequests \in Nat

VARIABLES
  \* the hub goroutine
  subscribers,  \* subscribers of the section
  connected,    \* h.connected
  selected,     \* h.selectedPack: a pack and the client that selected it
  readCancel,   \* the live read the section's cancel function stops
  reading,      \* the atomic flag of the section
  results,      \* the results channel
  \* the reading goroutines
  pc,           \* where reader r is
  pack,         \* the pack it reads, or Nothing for the overview
  owner,        \* the client that selected it
  cancelled,    \* its context is cancelled
  answer,       \* the broker's answer to its call
  \* the broker and the inverter
  queue,        \* the commands: the pack to write, or Nothing for a read, and the reader that waits
  query,        \* the pack in register 0x9020
  \* the browsers
  requests,     \* requests so far
  view,         \* what the page of client c shows: a pack, or Nothing
  \* history, for the properties only
  refused,      \* calls of r that the broker answered with an error
  overtaken     \* a write given up by its reader was queued while r was alive

hubVars     == <<subscribers, connected, selected>>
readerVars  == <<pc, pack, owner, answer, refused, overtaken>>
brokerVars  == <<queue, query>>
sectionVars == <<readCancel, reading>>
vars == <<hubVars, sectionVars, results, readerVars, cancelled, brokerVars, requests, view>>

NoSelection == [pack |-> Nothing, client |-> Nothing]
NoAnswer == [result |-> "none", of |-> Nothing]

Init ==
  /\ subscribers = {}
  /\ connected = FALSE
  /\ selected = NoSelection
  /\ readCancel = Nothing
  /\ reading = FALSE
  /\ results = <<>>
  /\ pc = [r \in Reader |-> "none"]
  /\ pack = [r \in Reader |-> Nothing]
  /\ owner = [r \in Reader |-> Nothing]
  /\ cancelled = [r \in Reader |-> FALSE]
  /\ answer = [r \in Reader |-> NoAnswer]
  /\ queue = <<>>
  /\ query = Nothing
  /\ requests = 0
  /\ view = [c \in Client |-> Nothing]
  /\ refused = [r \in Reader |-> 0]
  /\ overtaken = [r \in Reader |-> FALSE]

Live(r) == pc[r] # "none" /\ ~cancelled[r]

-----------------------------------------------------------------------------
(* A reading goroutine. *)

Goto(r, place) == pc' = [pc EXCEPT ![r] = place]

\* The calls of r to the broker, and where each waits for its answer.
Calls == {"write", "rewrite", "read"}
Wait(call) == CASE call = "write" -> "writing" [] call = "rewrite" -> "rewriting" [] call = "read" -> "reading"

\* Mutant: the write is repeated until it succeeds.
OnError_Forever(r, call) ==
  CASE call = "write"   -> IF cancelled[r] THEN "exit" ELSE "pause"
    [] call = "rewrite" -> IF cancelled[r] THEN "exit" ELSE "pause"
    [] call = "read"    -> IF cancelled[r] THEN "exit" ELSE "publish"

\* Where r goes when its call returns an error: a failed write is repeated after a pause, a failed repetition is
\* reported to the client, and a failed read looks at the context.
OnError(r, call) ==
  CASE call = "write"   -> IF cancelled[r] THEN "exit" ELSE "pause"
    [] call = "rewrite" -> "fail"
    [] call = "read"    -> IF cancelled[r] THEN "exit" ELSE "publish"

\* The call is queued or, if the context is cancelled, returns its error; select takes either when both are ready.
Ask(r) ==
  /\ pc[r] \in Calls
  /\ \/ /\ Len(queue) < QueueCap
        /\ queue' = Append(queue, [pack |-> IF pc[r] = "read" THEN Nothing ELSE pack[r], by |-> r])
        /\ Goto(r, Wait(pc[r]))
        /\ overtaken' = [q \in Reader |-> overtaken[q] \/ (cancelled[r] /\ pc[r] # "read" /\ pc[q] # "none")]
     \/ cancelled[r] /\ Goto(r, OnError(r, pc[r])) /\ UNCHANGED <<queue, overtaken>>
  /\ UNCHANGED <<hubVars, sectionVars, results, pack, owner, answer, refused, cancelled, query, requests, view>>

\* The commands of r are nobody's from now on.
Orphaned(r) == [i \in DOMAIN queue |-> IF queue[i].by = r THEN [queue[i] EXCEPT !.by = Nothing] ELSE queue[i]]

\* A cancelled call returns its error without the broker's answer.
GiveUp(r) ==
  \E call \in Calls :
    /\ pc[r] = Wait(call)
    /\ cancelled[r]
    /\ Goto(r, OnError(r, call))
    /\ queue' = Orphaned(r)
    /\ answer' = [answer EXCEPT ![r] = NoAnswer]
    /\ UNCHANGED <<hubVars, sectionVars, results, pack, owner, refused, overtaken, cancelled, query, requests, view>>

\* Mutant: the failure of a write is not noticed.
Return_IgnoresError(r) ==
  \E call \in Calls :
    /\ pc[r] = Wait(call)
    /\ answer[r].result # "none"
    /\ Goto(r, IF call = "read" THEN IF cancelled[r] THEN "exit" ELSE "publish" ELSE "settle")
    /\ answer' = [answer EXCEPT ![r] = IF call = "read" THEN @ ELSE NoAnswer]
    /\ UNCHANGED <<hubVars, sectionVars, results, pack, owner, refused, overtaken, cancelled, brokerVars, requests,
                   view>>

\* The broker's answer: after a write the inverter has to settle, after a read its value is sent.
Return(r) ==
  \E call \in Calls :
    /\ pc[r] = Wait(call)
    /\ answer[r].result # "none"
    /\ Goto(r, IF answer[r].result = "error" THEN OnError(r, call)
               ELSE IF call # "read" THEN "settle"
               ELSE IF cancelled[r] THEN "exit" ELSE "publish")
    /\ answer' = [answer EXCEPT ![r] = IF call = "read" THEN @ ELSE NoAnswer]
    /\ UNCHANGED <<hubVars, sectionVars, results, pack, owner, refused, overtaken, cancelled, brokerVars, requests,
                   view>>

\* The pause before the write is repeated, twice the settle time.
Pause(r) ==
  /\ pc[r] = "pause"
  /\ \/ Goto(r, "rewrite")
     \/ cancelled[r] /\ Goto(r, "exit")
  /\ UNCHANGED <<hubVars, sectionVars, results, pack, owner, answer, refused, overtaken, cancelled,
                 brokerVars, requests, view>>

\* The settle time is at least 500 ms, nothing a cancelled reader or the hub does takes nearly as long: the reads
\* cancelled before have ended by then and their results are broadcast.
Settled(r) == results = <<>> /\ \A q \in Reader \ {r} : ~cancelled[q]

Settle(r) ==
  /\ pc[r] = "settle"
  /\ \/ Settled(r) /\ Goto(r, "schema")
     \/ cancelled[r] /\ Goto(r, "exit")
  /\ UNCHANGED <<hubVars, sectionVars, results, pack, owner, answer, refused, overtaken, cancelled,
                 brokerVars, requests, view>>

Send(r, kind, of) ==
  /\ Len(results) < ResultCap
  /\ results' = Append(results, [kind |-> kind, pack |-> pack[r], of |-> of, overtaken |-> overtaken[r]])

\* The schema of the pack, then the loop over its spans, which looks at the context first.
Schema(r) ==
  /\ pc[r] = "schema"
  /\ Send(r, "section_schema", Nothing)
  /\ Goto(r, IF cancelled[r] THEN "exit" ELSE "read")
  /\ UNCHANGED <<hubVars, sectionVars, pack, owner, answer, refused, overtaken, cancelled, brokerVars, requests, view>>

\* The value, or the error sent instead.
Publish(r) ==
  /\ pc[r] = "publish"
  /\ Send(r, "register_value", answer[r].of)
  /\ answer' = [answer EXCEPT ![r] = NoAnswer]
  /\ Goto(r, IF cancelled[r] THEN "exit" ELSE "complete")
  /\ UNCHANGED <<hubVars, sectionVars, pack, owner, refused, overtaken, cancelled, brokerVars, requests, view>>

Complete(r) ==
  /\ pc[r] = "complete"
  /\ Send(r, "section_complete", Nothing)
  /\ Goto(r, "exit")
  /\ UNCHANGED <<hubVars, sectionVars, pack, owner, answer, refused, overtaken, cancelled, brokerVars, requests, view>>

\* sendPackError, past the hub and to the client that selected the pack: its page shows the error, whatever
\* it showed before.
Fail(r) ==
  /\ pc[r] = "fail"
  /\ view' = [view EXCEPT ![owner[r]] = Nothing]
  /\ Goto(r, "exit")
  /\ UNCHANGED <<hubVars, sectionVars, results, pack, owner, answer, refused, overtaken, cancelled, brokerVars, requests>>

\* defer bmsSec.reading.Store(false).
Exit(r) ==
  /\ pc[r] = "exit"
  /\ reading' = FALSE
  /\ readCancel' = IF readCancel = r THEN Nothing ELSE readCancel
  /\ Goto(r, "none")
  /\ pack' = [pack EXCEPT ![r] = Nothing]
  /\ owner' = [owner EXCEPT ![r] = Nothing]
  /\ answer' = [answer EXCEPT ![r] = NoAnswer]
  /\ cancelled' = [cancelled EXCEPT ![r] = FALSE]
  /\ refused' = [refused EXCEPT ![r] = 0]
  /\ overtaken' = [overtaken EXCEPT ![r] = FALSE]
  /\ UNCHANGED <<hubVars, results, brokerVars, requests, view>>

ReaderStep(r) ==
  \/ Ask(r) \/ GiveUp(r) \/ Return(r) \/ Pause(r) \/ Settle(r)
  \/ Schema(r) \/ Publish(r) \/ Complete(r) \/ Fail(r) \/ Exit(r)

-----------------------------------------------------------------------------
(* The broker. *)

\* The oldest command is executed.  A write that fails may have reached the inverter all the same.  A read of the
\* overview does not look through the window.
Execute ==
  /\ queue # <<>>
  /\ queue' = Tail(queue)
  /\ LET c == Head(queue)
         write == c.pack # Nothing
     IN  \E ok \in BOOLEAN :
           /\ query' \in IF ~write THEN {query} ELSE IF ok THEN {c.pack} ELSE {query, c.pack}
           /\ IF c.by = Nothing THEN UNCHANGED <<answer, refused>>
              ELSE /\ answer' = [answer EXCEPT ![c.by] =
                                   [result |-> IF ok THEN "ok" ELSE "error",
                                    of |-> IF ok /\ ~write /\ pack[c.by] # Nothing THEN query ELSE Nothing]]
                   /\ refused' = [refused EXCEPT ![c.by] = IF ok \/ ~write THEN @ ELSE @ + 1]
  /\ UNCHANGED <<hubVars, sectionVars, results, pc, pack, owner, overtaken, cancelled, requests, view>>

-----------------------------------------------------------------------------
(* The handlers of the hub goroutine. *)

Cancelled == [r \in Reader |-> cancelled[r] \/ readCancel = r]

CancelRead ==
  /\ cancelled' = Cancelled
  /\ readCancel' = Nothing
  /\ UNCHANGED <<reading, readerVars>>

NoChange == UNCHANGED <<sectionVars, readerVars, cancelled>>

\* A new read in place of the one in progress: of a pack for its client, or of the overview.
StartRead(p, c) ==
  \E r \in Reader :
    /\ pc[r] = "none"
    /\ cancelled' = Cancelled
    /\ readCancel' = r
    /\ reading' = TRUE
    /\ Goto(r, IF p = Nothing THEN "read" ELSE "write")
    /\ pack' = [pack EXCEPT ![r] = p]
    /\ owner' = [owner EXCEPT ![r] = c]
    /\ UNCHANGED <<answer, refused, overtaken>>

\* subscribeClient of bms: the selection ends for everybody, the client sees the overview.
Subscribe(c) ==
  /\ subscribers' = subscribers \cup {c}
  /\ selected' = NoSelection
  /\ view' = [view EXCEPT ![c] = Nothing]
  /\ IF connected THEN StartRead(Nothing, Nothing) ELSE NoChange
  /\ UNCHANGED <<connected, results, brokerVars>>

\* The client leaves: for another section, which cancels the read whoever stays, or for good.  Unsubscribing ends
\* the selection for everybody also when the client was not subscribed.
Leave(c) ==
  /\ subscribers' = subscribers \ {c}
  /\ selected' = NoSelection
  /\ view' = [view EXCEPT ![c] = Nothing]
  /\ \/ (c \in subscribers \/ subscribers' = {}) /\ CancelRead
     \/ subscribers' # {} /\ NoChange
  /\ UNCHANGED <<connected, results, brokerVars>>

\* Mutant: the read of the pack before goes on.
SelectPack_NoCancel(c, p) ==
  /\ selected' = [pack |-> p, client |-> c]
  /\ view' = [view EXCEPT ![c] = Nothing]
  /\ \E r \in Reader :
       /\ pc[r] = "none"
       /\ readCancel' = r
       /\ reading' = TRUE
       /\ Goto(r, "write")
       /\ pack' = [pack EXCEPT ![r] = p]
       /\ owner' = [owner EXCEPT ![r] = c]
       /\ UNCHANGED <<answer, refused, overtaken, cancelled>>
  /\ UNCHANGED <<subscribers, connected, results, brokerVars>>

\* handleSelectPack: connected or not, subscribed or not.  The page waits for the pack's schema.
SelectPack(c, p) ==
  /\ selected' = [pack |-> p, client |-> c]
  /\ view' = [view EXCEPT ![c] = Nothing]
  /\ StartRead(p, c)
  /\ UNCHANGED <<subscribers, connected, results, brokerVars>>

\* handleReadCycle: the selected pack again, or the overview.
ReadCycle ==
  /\ connected /\ subscribers # {} /\ ~reading
  /\ StartRead(selected.pack, selected.client)
  /\ UNCHANGED <<hubVars, results, brokerVars, view>>

\* refresh: the overview, also while a pack is selected.
Refresh ==
  /\ StartRead(Nothing, Nothing)
  /\ UNCHANGED <<hubVars, results, brokerVars, view>>

\* The disconnect command and the events of a lost connection.
Disconnect ==
  /\ connected' \in {FALSE, connected}
  /\ CancelRead
  /\ UNCHANGED <<subscribers, selected, results, brokerVars, view>>

HandleConnected ==
  /\ connected' = TRUE
  /\ NoChange
  /\ UNCHANGED <<subscribers, selected, results, brokerVars, requests, view>>

\* A result is broadcast; a schema turns the page of every subscriber to its pack.
HandleResult ==
  /\ results # <<>>
  /\ results' = Tail(results)
  /\ view' = IF Head(results).kind # "section_schema" THEN view
             ELSE [c \in Client |-> IF c \in subscribers THEN Head(results).pack ELSE view[c]]
  /\ NoChange
  /\ UNCHANGED <<hubVars, brokerVars, requests>>

Request ==
  /\ requests < MaxRequests
  /\ requests' = requests + 1
  /\ \/ \E c \in Client : Subscribe(c) \/ Leave(c) \/ \E p \in Pack : SelectPack(c, p)
     \/ ReadCycle \/ Refresh \/ Disconnect

Next ==
  \/ \E r \in Reader : ReaderStep(r)
  \/ Execute
  \/ Request \/ HandleConnected \/ HandleResult

Spec == Init /\ [][Next]_vars

-----------------------------------------------------------------------------
(* Properties. *)

Place == {"none", "pause", "settle", "schema", "publish", "complete", "fail", "exit"}
           \cup Calls \cup {Wait(call) : call \in Calls}

TypeOK ==
  /\ subscribers \subseteq Client
  /\ connected \in BOOLEAN
  /\ selected \in [pack : Pack \cup {Nothing}, client : Client \cup {Nothing}]
  /\ readCancel \in Reader \cup {Nothing}
  /\ reading \in BOOLEAN
  /\ results \in Seq([kind : {"section_schema", "register_value", "section_complete"}, pack : Pack \cup {Nothing},
                      of : Pack \cup {Nothing}, overtaken : BOOLEAN])
  /\ Len(results) <= ResultCap
  /\ pc \in [Reader -> Place]
  /\ pack \in [Reader -> Pack \cup {Nothing}]
  /\ owner \in [Reader -> Client \cup {Nothing}]
  /\ cancelled \in [Reader -> BOOLEAN]
  /\ answer \in [Reader -> [result : {"none", "ok", "error"}, of : Pack \cup {Nothing}]]
  /\ queue \in Seq([pack : Pack \cup {Nothing}, by : Reader \cup {Nothing}])
  /\ Len(queue) <= QueueCap
  /\ query \in Pack \cup {Nothing}
  /\ requests \in 0..MaxRequests
  /\ view \in [Client -> Pack \cup {Nothing}]
  /\ refused \in [Reader -> 0..2]
  /\ overtaken \in [Reader -> BOOLEAN]

\* What a page shows under the name of a pack was read while the inverter's window stood on that pack, whoever
\* selected what in the meantime.  Only a write that is queued although its reader was cancelled, after the write
\* of the next selection, breaks it.
ShownIsPack ==
  results # <<>> =>
    LET m == Head(results)
    IN  m.kind = "register_value" /\ m.pack # Nothing /\ m.of # Nothing /\ ~m.overtaken =>
          \A c \in subscribers : view[c] # Nothing => m.of = view[c]

\* The one read that goes on is the selection's: a cancelled or replaced selection does not come back, and an
\* error is reported to the client whose selection it is.
ReadIsSelected ==
  \A r \in Reader :
    Live(r) /\ pack[r] # Nothing =>
      /\ readCancel = r
      /\ selected # NoSelection => selected = [pack |-> pack[r], client |-> owner[r]]
=============================================================================
