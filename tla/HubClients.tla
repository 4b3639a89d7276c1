----------------------------- MODULE HubClients -----------------------------
(***************************************************************************)
(* internal/hub/hub.go and client.go: the WebSocket connections, their     *)
(* send buffers and pumps, and what the hub goroutine does to them.        *)
(*                                                                         *)
(* The HTTP handler registers a client and starts its two pumps.  The read *)
(* pump puts commands on the hub's bounded channel and, when the           *)
(* connection is over, the client on the unregister channel.  The hub      *)
(* sends without waiting: a client whose buffer is full is removed and its *)
(* channel closed.  The goroutine of a pack read sends errors to a client  *)
(* past the hub, after a look at the client's closed flag.                 *)
(*                                                                         *)
(* A member of Client is one connection.  Messages are counted, not named; *)
(* the hub has one section.  A send on a closed channel panics, which ends *)
(* the server.                                                             *)
(***************************************************************************)
EXTENDS Integers, Sequences

CONSTANTS
  Client,   \* the connections made during a behaviour
  SendCap,  \* sendBufSize
  HubCap,   \* capacity of the register, unregister and commands channels
  FuncCap   \* capacity of the funcs channel

ASSUME CapacityAssumption == /\ SendCap \in Nat \ {0}
                             /\ HubCap \in Nat \ {0}
                             /\ FuncCap \in Nat \ {0}

VARIABLES
  \* the hub goroutine
  server,       \* "running", "stopped" (shutdown), or "panicked"
  clients,      \* h.clients
  subscribers,  \* the clients with a section
  \* the clients
  closed,       \* c.closed, and c.send is closed
  buffered,     \* messages in c.send
  conn,         \* c's WebSocket is open
  readPump,     \* where the handler or the read pump of c is, the upgrade being over
  writePump,    \* the write pump of c is running
  \* the channels of the hub
  register, unregister, commands, funcs,
  \* the goroutine of a pack read that failed for c
  packError

clientVars == <<closed, buffered>>
pumpVars   == <<conn, readPump, writePump>>
queueVars  == <<register, unregister, commands, funcs>>
vars == <<server, clients, subscribers, clientVars, pumpVars, queueVars, packError>>

CommandType == {"subscribe", "unsubscribe", "select_pack"}

Init ==
  /\ server = "running"
  /\ clients = {}
  /\ subscribers = {}
  /\ closed = [c \in Client |-> FALSE]
  /\ buffered = [c \in Client |-> 0]
  /\ conn = [c \in Client |-> TRUE]
  /\ readPump = [c \in Client |-> "registering"]
  /\ writePump = [c \in Client |-> FALSE]
  /\ register = <<>>
  /\ unregister = <<>>
  /\ commands = <<>>
  /\ funcs = <<>>
  /\ packError = [c \in Client |-> "none"]

-----------------------------------------------------------------------------
(* The handler of /ws and the pumps. *)

\* Where the handler or the read pump of c goes.
GoesTo(c, place) == readPump' = [readPump EXCEPT ![c] = place]

Register(c) ==
  /\ readPump[c] = "registering"
  /\ Len(register) < HubCap
  /\ register' = Append(register, c)
  /\ GoesTo(c, "reading")
  /\ writePump' = [writePump EXCEPT ![c] = TRUE]
  /\ UNCHANGED <<server, clients, subscribers, clientVars, conn, unregister, commands, funcs,
                 packError>>

\* The read pump has a command, which it is about to send.
ReadMessage(c) ==
  /\ readPump[c] = "reading" /\ conn[c]
  /\ \E type \in CommandType : GoesTo(c, type)
  /\ UNCHANGED <<server, clients, subscribers, clientVars, conn, writePump, queueVars, packError>>

Command(c) ==
  /\ readPump[c] \in CommandType
  /\ Len(commands) < HubCap
  /\ commands' = Append(commands, [client |-> c, type |-> readPump[c]])
  /\ GoesTo(c, "reading")
  /\ UNCHANGED <<server, clients, subscribers, clientVars, conn, writePump, register, unregister,
                 funcs, packError>>

ReadError(c) ==
  /\ readPump[c] = "reading" /\ ~conn[c]
  /\ GoesTo(c, "leaving")
  /\ UNCHANGED <<server, clients, subscribers, clientVars, conn, writePump, queueVars, packError>>

Unregister(c) ==
  /\ readPump[c] = "leaving"
  /\ Len(unregister) < HubCap
  /\ unregister' = Append(unregister, c)
  /\ GoesTo(c, "done")
  /\ UNCHANGED <<server, clients, subscribers, clientVars, conn, writePump, register, commands,
                 funcs, packError>>

\* Mutant: what a closed and drained channel yields is written as a message.
WriteMessage_IgnoresOk(c) ==
  /\ writePump[c] /\ conn[c] /\ (buffered[c] > 0 \/ closed[c])
  /\ buffered' = [buffered EXCEPT ![c] = @ - 1]
  /\ UNCHANGED <<server, clients, subscribers, closed, pumpVars, queueVars, packError>>

\* One message of the buffer is written.
WriteMessage(c) ==
  /\ writePump[c] /\ conn[c] /\ buffered[c] > 0
  /\ buffered' = [buffered EXCEPT ![c] = @ - 1]
  /\ UNCHANGED <<server, clients, subscribers, closed, pumpVars, queueVars, packError>>

\* Mutant: the pump does not end when the hub has closed the channel.
WriteEnds_OnErrorOnly(c) ==
  /\ writePump[c]
  /\ ~conn[c]
  /\ writePump' = [writePump EXCEPT ![c] = FALSE]
  /\ conn' = [conn EXCEPT ![c] = FALSE]
  /\ UNCHANGED <<server, clients, subscribers, clientVars, readPump, queueVars, packError>>

\* The channel is closed and drained, or a message or a ping cannot be written: the pump closes the connection.
WriteEnds(c) ==
  /\ writePump[c]
  /\ ~conn[c] \/ (closed[c] /\ buffered[c] = 0)
  /\ writePump' = [writePump EXCEPT ![c] = FALSE]
  /\ conn' = [conn EXCEPT ![c] = FALSE]
  /\ UNCHANGED <<server, clients, subscribers, clientVars, readPump, queueVars, packError>>

\* The browser leaves, or the network does.
Break(c) ==
  /\ conn[c]
  /\ conn' = [conn EXCEPT ![c] = FALSE]
  /\ UNCHANGED <<server, clients, subscribers, clientVars, readPump, writePump, queueVars, packError>>

-----------------------------------------------------------------------------
(* What the handlers of the hub goroutine are made of. *)

Full(c, n) == buffered[c] + n > SendCap

\* Mutant: removeClient leaves the client among the subscribers of its section.
RemoveClients_StillSubscribed(S, known, subscribed) ==
  /\ clients' = known \ S
  /\ subscribers' = subscribed
  /\ closed' = [c \in Client |-> closed[c] \/ c \in S \cap known]

\* removeClient of each member of S, where known and subscribed are the clients and subscribers before.
RemoveClients(S, known, subscribed) ==
  /\ clients' = known \ S
  /\ subscribers' = subscribed \ (S \cap known)
  /\ closed' = [c \in Client |-> closed[c] \/ c \in S \cap known]

\* Mutant: sends wait for room in the buffers.
Send_Waits(S, n, known, subscribed) ==
  /\ \A c \in S : ~Full(c, n)
  /\ buffered' = [c \in Client |-> IF c \in S THEN buffered[c] + n ELSE buffered[c]]
  /\ RemoveClients({}, known, subscribed)
  /\ UNCHANGED server

\* n messages are sent to each member of S, none of which waits: a client whose buffer is full is removed.
Send(S, n, known, subscribed) ==
  IF \E c \in S : closed[c]
    THEN server' = "panicked" /\ UNCHANGED <<clients, subscribers, clientVars>>
    ELSE /\ buffered' = [c \in Client |->
              IF c \in S THEN (IF Full(c, n) THEN SendCap ELSE buffered[c] + n) ELSE buffered[c]]
         /\ RemoveClients({c \in S : Full(c, n)}, known, subscribed)
         /\ UNCHANGED server

-----------------------------------------------------------------------------
(* The hub goroutine. *)

\* The new client gets the connection state.
HandleRegister ==
  /\ server = "running"
  /\ register # <<>>
  /\ register' = Tail(register)
  /\ Send({Head(register)}, 1, clients \cup {Head(register)}, subscribers)
  /\ UNCHANGED <<pumpVars, unregister, commands, funcs, packError>>

HandleUnregister ==
  /\ server = "running"
  /\ unregister # <<>>
  /\ unregister' = Tail(unregister)
  /\ RemoveClients({Head(unregister)}, clients, subscribers)
  /\ UNCHANGED <<server, buffered, pumpVars, register, commands, funcs, packError>>

\* The schema, and an error when the inverter is not connected.
HandleSubscribe(c) ==
  /\ \E n \in 1..2 : Send({c}, n, clients, subscribers \cup {c})
  /\ UNCHANGED packError

HandleUnsubscribe(c) ==
  /\ subscribers' = subscribers \ {c}
  /\ UNCHANGED <<server, clients, clientVars, packError>>

\* A read of a pack begins; a goroutine whose write of the selection fails is about to tell c.
HandleSelectPack(c) ==
  /\ \/ packError[c] = "none" /\ packError' = [packError EXCEPT ![c] = "look"]
     \/ UNCHANGED packError
  /\ UNCHANGED <<server, clients, subscribers, clientVars>>

HandleCommand ==
  /\ server = "running"
  /\ commands # <<>>
  /\ commands' = Tail(commands)
  /\ LET c == Head(commands).client
         type == Head(commands).type
     IN  \/ type = "subscribe"   /\ HandleSubscribe(c)
         \/ type = "unsubscribe" /\ HandleUnsubscribe(c)
         \/ type = "select_pack" /\ HandleSelectPack(c)
  /\ UNCHANGED <<pumpVars, register, unregister, funcs>>

\* A state event goes to every client, a result to the subscribers of its section.
Broadcast ==
  /\ server = "running"
  /\ Send(clients, 1, clients, subscribers) \/ Send(subscribers, 1, clients, subscribers)
  /\ UNCHANGED <<pumpVars, queueVars, packError>>

\* The function that sendPackError queues for a client whose buffer was full.
HandleFunc ==
  /\ server = "running"
  /\ funcs # <<>>
  /\ funcs' = Tail(funcs)
  /\ RemoveClients({Head(funcs)}, clients, subscribers)
  /\ UNCHANGED <<server, buffered, pumpVars, register, unregister, commands, packError>>

\* The sections keep their subscribers, and Run returns.
Shutdown ==
  /\ server = "running"
  /\ server' = "stopped"
  /\ clients' = {}
  /\ closed' = [c \in Client |-> closed[c] \/ c \in clients]
  /\ UNCHANGED <<subscribers, buffered, pumpVars, queueVars, packError>>

-----------------------------------------------------------------------------
(* sendPackError, on the goroutine of a pack read. *)

LookAtClosed(c) ==
  /\ packError[c] = "look"
  /\ packError' = [packError EXCEPT ![c] = IF closed[c] THEN "none" ELSE "send"]
  /\ UNCHANGED <<server, clients, subscribers, clientVars, pumpVars, queueVars>>

SendPackError(c) ==
  /\ packError[c] = "send"
  /\ packError' = [packError EXCEPT ![c] = "none"]
  /\ IF closed[c]
       THEN server' = "panicked" /\ UNCHANGED <<buffered, funcs>>
       ELSE /\ UNCHANGED server
            /\ IF Full(c, 1)
                 THEN /\ funcs' = IF Len(funcs) < FuncCap THEN Append(funcs, c) ELSE funcs
                      /\ UNCHANGED buffered
                 ELSE buffered' = [buffered EXCEPT ![c] = @ + 1] /\ UNCHANGED funcs
  /\ UNCHANGED <<clients, subscribers, closed, pumpVars, register, unregister, commands>>

-----------------------------------------------------------------------------
ReadPump(c)  == Command(c) \/ ReadError(c) \/ Unregister(c)
WritePump(c) == WriteMessage(c) \/ WriteEnds(c)
HubStep      == HandleRegister \/ HandleUnregister \/ HandleCommand \/ HandleFunc

\* The process has not ended in a panic.
Up == server # "panicked"

Next ==
  /\ Up
  /\ \/ \E c \in Client :
          \/ Register(c) \/ ReadMessage(c) \/ Break(c)
          \/ ReadPump(c) \/ WritePump(c)
          \/ LookAtClosed(c) \/ SendPackError(c)
     \/ HubStep \/ Broadcast \/ Shutdown

Spec == Init /\ [][Next]_vars

-----------------------------------------------------------------------------
(* Properties. *)

TypeOK ==
  /\ server \in {"running", "stopped", "panicked"}
  /\ clients \in SUBSET Client
  /\ subscribers \in SUBSET Client
  /\ closed \in [Client -> BOOLEAN]
  /\ buffered \in [Client -> 0..SendCap]
  /\ conn \in [Client -> BOOLEAN]
  /\ readPump \in [Client -> {"registering", "reading", "leaving", "done"} \cup CommandType]
  /\ writePump \in [Client -> BOOLEAN]
  /\ register \in Seq(Client) /\ Len(register) <= HubCap
  /\ unregister \in Seq(Client) /\ Len(unregister) <= HubCap
  /\ commands \in Seq([client : Client, type : CommandType]) /\ Len(commands) <= HubCap
  /\ funcs \in Seq(Client) /\ Len(funcs) <= FuncCap
  /\ packError \in [Client -> {"none", "look", "send"}]

\* A client whose channel was closed is in no map of the hub, however it was removed (its unregistration, a full
\* buffer in the middle of a broadcast or of its own subscription, a failed pack error): no broadcast reaches it.
ClosedIsForgotten ==
  server = "running" => \A c \in Client : closed[c] => c \notin clients \cup subscribers

\* No client stalls the hub: every command a read pump has accepted is taken by the hub, although browsers may
\* stop reading and the channels are bounded.
CommandsTaken ==
  \A c \in Client : readPump[c] \in CommandType ~> (readPump[c] \notin CommandType \/ server # "running")

\* docs/API.md:83: "slow clients are disconnected".  A client the hub has removed loses its connection and both
\* pumps end.
RemovedPumpsEnd ==
  \A c \in Client : closed[c] ~> ((readPump[c] = "done" /\ ~writePump[c]) \/ server # "running")

\* The hub goroutine and the pumps keep running (every write ends within writeWait, every read of a closed
\* connection at once), Go's select is fair to the ready channels, and blocked senders get their turn.
FairSpec ==
  /\ Spec
  /\ WF_vars(HandleUnregister) /\ WF_vars(HandleCommand)
  /\ \A c \in Client : SF_vars(Up /\ ReadPump(c)) /\ WF_vars(Up /\ WritePump(c))

-----------------------------------------------------------------------------
(* What comments say and the code does not do. *)

\* client.go:26 of closed: "checked before sending to avoid panic on closed channel (CR-01)".
NeverSendsOnClosed == Up
=============================================================================
