-------------------------- MODULE HubClientsProofs --------------------------
(***************************************************************************)
(* For any number of connections and any capacities: the types of          *)
(* HubClients, and that the hub keeps no closed client in its maps.        *)
(***************************************************************************)
EXTENDS HubClients, TLAPS

USE DEF clientVars, pumpVars, queueVars

LEMMA InitTypeOK == Init => TypeOK
BY CapacityAssumption DEF Init, TypeOK

\* Removing clients keeps the types of the maps.
LEMMA RemoveType ==
  ASSUME NEW S, NEW known \in SUBSET Client, NEW subscribed \in SUBSET Client,
         closed \in [Client -> BOOLEAN],
         RemoveClients(S, known, subscribed)
  PROVE  /\ clients' \in SUBSET Client
         /\ subscribers' \in SUBSET Client
         /\ closed' \in [Client -> BOOLEAN]
BY DEF RemoveClients

\* A send fills no buffer beyond its capacity.
LEMMA SendType ==
  ASSUME TypeOK, NEW S, NEW n \in Nat,
         NEW known \in SUBSET Client, NEW subscribed \in SUBSET Client,
         Send(S, n, known, subscribed)
  PROVE  /\ server' \in {"running", "stopped", "panicked"}
         /\ clients' \in SUBSET Client
         /\ subscribers' \in SUBSET Client
         /\ closed' \in [Client -> BOOLEAN]
         /\ buffered' \in [Client -> 0..SendCap]
<1>1. CASE \E c \in S : closed[c]
  BY <1>1 DEF Send, TypeOK
<1>2. CASE ~ \E c \in S : closed[c]
  <2>1. /\ buffered' = [c \in Client |->
              IF c \in S THEN (IF Full(c, n) THEN SendCap ELSE buffered[c] + n) ELSE buffered[c]]
        /\ RemoveClients({c \in S : Full(c, n)}, known, subscribed)
        /\ UNCHANGED server
    BY <1>2 DEF Send
  <2>2. buffered' \in [Client -> 0..SendCap]
    <3> SUFFICES ASSUME NEW c \in Client
                 PROVE  (IF c \in S THEN (IF Full(c, n) THEN SendCap ELSE buffered[c] + n)
                                    ELSE buffered[c]) \in 0..SendCap
      BY <2>1
    <3> QED  BY CapacityAssumption DEF Full, TypeOK
  <2> QED  BY <2>1, <2>2, RemoveType DEF TypeOK
<1> QED  BY <1>1, <1>2

LEMMA NextTypeOK == TypeOK /\ [Next]_vars => TypeOK'
<1> SUFFICES ASSUME TypeOK, [Next]_vars PROVE TypeOK'
  OBVIOUS
<1>1. ASSUME NEW c \in Client, Register(c) PROVE TypeOK'
  BY <1>1, CapacityAssumption DEF Register, GoesTo, TypeOK
<1>2. ASSUME NEW c \in Client, ReadMessage(c) PROVE TypeOK'
  BY <1>2 DEF ReadMessage, GoesTo, CommandType, TypeOK
<1>3. ASSUME NEW c \in Client, Break(c) PROVE TypeOK'
  BY <1>3 DEF Break, TypeOK
<1>4. ASSUME NEW c \in Client, Command(c) PROVE TypeOK'
  <2>1. readPump[c] \in CommandType /\ Len(commands) < HubCap
    BY <1>4 DEF Command
  <2>2. [client |-> c, type |-> readPump[c]] \in [client : Client, type : CommandType]
    BY <2>1
  <2>3. commands' = Append(commands, [client |-> c, type |-> readPump[c]])
    BY <1>4 DEF Command
  <2>4. commands' \in Seq([client : Client, type : CommandType]) /\ Len(commands') <= HubCap
    BY <2>1, <2>2, <2>3, CapacityAssumption DEF TypeOK
  <2> QED  BY <1>4, <2>4 DEF Command, GoesTo, TypeOK
<1>5. ASSUME NEW c \in Client, ReadError(c) PROVE TypeOK'
  BY <1>5 DEF ReadError, GoesTo, TypeOK
<1>6. ASSUME NEW c \in Client, Unregister(c) PROVE TypeOK'
  BY <1>6, CapacityAssumption DEF Unregister, GoesTo, TypeOK
<1>7. ASSUME NEW c \in Client, WriteMessage(c) PROVE TypeOK'
  BY <1>7, CapacityAssumption DEF WriteMessage, TypeOK
<1>8. ASSUME NEW c \in Client, WriteEnds(c) PROVE TypeOK'
  BY <1>8 DEF WriteEnds, TypeOK
<1>9. ASSUME NEW c \in Client, LookAtClosed(c) PROVE TypeOK'
  BY <1>9 DEF LookAtClosed, TypeOK
<1>10. ASSUME NEW c \in Client, SendPackError(c) PROVE TypeOK'
  <2>1. packError' \in [Client -> {"none", "look", "send"}]
    BY <1>10 DEF SendPackError, TypeOK
  <2>2. buffered' \in [Client -> 0..SendCap]
    <3>1. CASE UNCHANGED buffered
      BY <3>1 DEF TypeOK
    <3>2. CASE ~Full(c, 1) /\ buffered' = [buffered EXCEPT ![c] = @ + 1]
      <4>1. buffered[c] \in 0..SendCap
        BY DEF TypeOK
      <4>2. buffered[c] + 1 \in 0..SendCap
        BY <3>2, <4>1, CapacityAssumption DEF Full
      <4> QED  BY <3>2, <4>2 DEF TypeOK
    <3> QED  BY <1>10, <3>1, <3>2 DEF SendPackError
  <2>3. funcs' \in Seq(Client) /\ Len(funcs') <= FuncCap
    <3>1. CASE UNCHANGED funcs
      BY <3>1 DEF TypeOK
    <3>2. CASE Len(funcs) < FuncCap /\ funcs' = Append(funcs, c)
      BY <3>2, CapacityAssumption DEF TypeOK
    <3>3. \/ UNCHANGED funcs
          \/ Len(funcs) < FuncCap /\ funcs' = Append(funcs, c)
      <4>1. CASE closed[c]
        BY <1>10, <4>1 DEF SendPackError
      <4>2. CASE ~closed[c] /\ Full(c, 1)
        BY <1>10, <4>2 DEF SendPackError
      <4>3. CASE ~closed[c] /\ ~Full(c, 1)
        BY <1>10, <4>3 DEF SendPackError
      <4> QED  BY <4>1, <4>2, <4>3
    <3> QED  BY <3>1, <3>2, <3>3
  <2> QED  BY <1>10, <2>1, <2>2, <2>3 DEF SendPackError, TypeOK
<1>11. CASE HandleRegister
  <2>1. Head(register) \in Client
    BY <1>11 DEF HandleRegister, TypeOK
  <2>2. Send({Head(register)}, 1, clients \cup {Head(register)}, subscribers)
    BY <1>11 DEF HandleRegister
  <2>3. clients \cup {Head(register)} \in SUBSET Client /\ subscribers \in SUBSET Client /\ 1 \in Nat
    BY <2>1 DEF TypeOK
  <2>4. /\ server' \in {"running", "stopped", "panicked"}
        /\ clients' \in SUBSET Client
        /\ subscribers' \in SUBSET Client
        /\ closed' \in [Client -> BOOLEAN]
        /\ buffered' \in [Client -> 0..SendCap]
    BY ONLY TypeOK, <2>2, <2>3, SendType
  <2>5. register' \in Seq(Client) /\ Len(register') <= HubCap
    BY <1>11, CapacityAssumption DEF HandleRegister, TypeOK
  <2> QED  BY <1>11, <2>4, <2>5 DEF HandleRegister, TypeOK
<1>12. CASE HandleUnregister
  <2>1. /\ clients' \in SUBSET Client
        /\ subscribers' \in SUBSET Client
        /\ closed' \in [Client -> BOOLEAN]
    BY <1>12, RemoveType DEF HandleUnregister, TypeOK
  <2>2. unregister' \in Seq(Client) /\ Len(unregister') <= HubCap
    BY <1>12, CapacityAssumption DEF HandleUnregister, TypeOK
  <2> QED  BY <1>12, <2>1, <2>2 DEF HandleUnregister, TypeOK
<1>13. CASE HandleCommand
  <2> DEFINE Cmd == [client : Client, type : CommandType]
  <2>1. commands # <<>> /\ commands' = Tail(commands)
    BY <1>13 DEF HandleCommand
  <2>2. commands \in Seq(Cmd) /\ Len(commands) <= HubCap
    BY DEF TypeOK
  <2>3. Head(commands) \in Cmd /\ Tail(commands) \in Seq(Cmd) /\ Len(Tail(commands)) <= HubCap
    <3> HIDE DEF Cmd
    <3> QED  BY <2>1, <2>2, CapacityAssumption
  <2>4. Head(commands).client \in Client
    BY <2>3
  <2>5. commands' \in Seq([client : Client, type : CommandType]) /\ Len(commands') <= HubCap
    BY <2>1, <2>3
  <2>6. /\ server' \in {"running", "stopped", "panicked"}
        /\ clients' \in SUBSET Client
        /\ subscribers' \in SUBSET Client
        /\ closed' \in [Client -> BOOLEAN]
        /\ buffered' \in [Client -> 0..SendCap]
        /\ packError' \in [Client -> {"none", "look", "send"}]
    <3>1. ASSUME NEW c \in Client, HandleSubscribe(c) PROVE <2>6!:
      <4>1. PICK n \in 1..2 : Send({c}, n, clients, subscribers \cup {c})
        BY <3>1 DEF HandleSubscribe
      <4>2. n \in Nat /\ clients \in SUBSET Client /\ subscribers \cup {c} \in SUBSET Client
        BY DEF TypeOK
      <4> QED  BY <3>1, <4>1, <4>2, SendType DEF HandleSubscribe, TypeOK
    <3>2. ASSUME NEW c \in Client, HandleUnsubscribe(c) PROVE <2>6!:
      BY <3>2 DEF HandleUnsubscribe, TypeOK
    <3>3. ASSUME NEW c \in Client, HandleSelectPack(c) PROVE <2>6!:
      BY <3>3 DEF HandleSelectPack, TypeOK
    <3> QED  BY <1>13, <2>4, <3>1, <3>2, <3>3 DEF HandleCommand
  <2> QED  BY <1>13, <2>5, <2>6 DEF HandleCommand, TypeOK
<1>14. CASE Broadcast
  <2>1. PICK S \in {clients, subscribers} : Send(S, 1, clients, subscribers)
    BY <1>14 DEF Broadcast
  <2>2. 1 \in Nat /\ clients \in SUBSET Client /\ subscribers \in SUBSET Client
    BY DEF TypeOK
  <2> QED  BY <1>14, <2>1, <2>2, SendType DEF Broadcast, TypeOK
<1>15. CASE HandleFunc
  <2>1. /\ clients' \in SUBSET Client
        /\ subscribers' \in SUBSET Client
        /\ closed' \in [Client -> BOOLEAN]
    BY <1>15, RemoveType DEF HandleFunc, TypeOK
  <2>2. funcs' \in Seq(Client) /\ Len(funcs') <= FuncCap
    BY <1>15, CapacityAssumption DEF HandleFunc, TypeOK
  <2> QED  BY <1>15, <2>1, <2>2 DEF HandleFunc, TypeOK
<1>16. CASE Shutdown
  BY <1>16 DEF Shutdown, TypeOK
<1>17. CASE UNCHANGED vars
  BY <1>17 DEF vars, TypeOK
<1> QED
  BY <1>1, <1>2, <1>3, <1>4, <1>5, <1>6, <1>7, <1>8, <1>9, <1>10, <1>11, <1>12, <1>13, <1>14, <1>15,
     <1>16, <1>17 DEF Next, ReadPump, WritePump, HubStep

\* Every variable of HubClients keeps its type: no buffer and no channel holds more than its capacity.
THEOREM TypeCorrect == Spec => []TypeOK
<1> QED  BY InitTypeOK, NextTypeOK, PTL DEF Spec

-----------------------------------------------------------------------------
\* A removal closes only clients that it also takes out of both maps.
LEMMA RemoveForgets ==
  ASSUME closed \in [Client -> BOOLEAN], NEW S, NEW known, NEW subscribed,
         \A c \in Client : closed[c] => c \notin known \cup subscribed,
         RemoveClients(S, known, subscribed)
  PROVE  \A c \in Client : closed'[c] => c \notin clients' \cup subscribers'
BY DEF RemoveClients

\* A send to clients of which one is closed panics, and any other send forgets whom it closes.
LEMMA SendForgets ==
  ASSUME closed \in [Client -> BOOLEAN], NEW S, NEW n, NEW known, NEW subscribed,
         \A c \in Client \ S : closed[c] => c \notin known \cup subscribed,
         Send(S, n, known, subscribed),
         server' = "running"
  PROVE  \A c \in Client : closed'[c] => c \notin clients' \cup subscribers'
<1>1. ~ \E c \in S : closed[c]
  BY DEF Send
<1>2. RemoveClients({c \in S : Full(c, n)}, known, subscribed)
  BY <1>1 DEF Send
<1>3. \A c \in Client : closed[c] => c \notin known \cup subscribed
  BY <1>1
<1> QED  BY <1>2, <1>3, RemoveForgets

LEMMA NextForgets == TypeOK /\ ClosedIsForgotten /\ [Next]_vars => ClosedIsForgotten'
<1> SUFFICES ASSUME TypeOK, ClosedIsForgotten, [Next]_vars, server' = "running"
             PROVE  \A c \in Client : closed'[c] => c \notin clients' \cup subscribers'
  BY DEF ClosedIsForgotten
<1> USE DEF TypeOK
<1>1. CASE UNCHANGED <<server, clients, subscribers, closed>>
  BY <1>1 DEF ClosedIsForgotten
<1>2. ASSUME NEW c \in Client,
             \/ Register(c) \/ ReadMessage(c) \/ Break(c) \/ ReadPump(c) \/ WritePump(c)
             \/ LookAtClosed(c) \/ SendPackError(c)
      PROVE  UNCHANGED <<server, clients, subscribers, closed>>
  BY <1>2 DEF Register, ReadMessage, Break, ReadPump, Command, ReadError, Unregister, WritePump,
              WriteMessage, WriteEnds, LookAtClosed, SendPackError
<1>3. CASE HandleRegister
  <2>1. server = "running" /\ Send({Head(register)}, 1, clients \cup {Head(register)}, subscribers)
    BY <1>3 DEF HandleRegister
  <2>2. \A c \in Client \ {Head(register)} :
           closed[c] => c \notin (clients \cup {Head(register)}) \cup subscribers
    BY <2>1 DEF ClosedIsForgotten
  <2> QED  BY <2>1, <2>2, SendForgets
<1>4. CASE HandleUnregister
  BY <1>4, RemoveForgets DEF HandleUnregister, ClosedIsForgotten
<1>5. CASE HandleCommand
  <2>1. server = "running"
    BY <1>5 DEF HandleCommand
  <2>2. ASSUME NEW c, HandleSubscribe(c)
        PROVE  \A d \in Client : closed'[d] => d \notin clients' \cup subscribers'
    <3>1. PICK n \in 1..2 : Send({c}, n, clients, subscribers \cup {c})
      BY <2>2 DEF HandleSubscribe
    <3>2. \A d \in Client \ {c} : closed[d] => d \notin clients \cup (subscribers \cup {c})
      BY <2>1 DEF ClosedIsForgotten
    <3> QED  BY <3>1, <3>2, SendForgets
  <2>3. ASSUME NEW c, HandleUnsubscribe(c) \/ HandleSelectPack(c)
        PROVE  \A d \in Client : closed'[d] => d \notin clients' \cup subscribers'
    BY <2>1, <2>3 DEF HandleUnsubscribe, HandleSelectPack, ClosedIsForgotten
  <2> QED  BY <1>5, <2>2, <2>3 DEF HandleCommand
<1>6. CASE Broadcast
  <2>1. PICK S \in {clients, subscribers} : Send(S, 1, clients, subscribers)
    BY <1>6 DEF Broadcast
  <2>2. \A c \in Client \ S : closed[c] => c \notin clients \cup subscribers
    BY <1>6 DEF Broadcast, ClosedIsForgotten
  <2> QED  BY <2>1, <2>2, SendForgets
<1>7. CASE HandleFunc
  BY <1>7, RemoveForgets DEF HandleFunc, ClosedIsForgotten
<1>8. CASE Shutdown
  BY <1>8 DEF Shutdown
<1> QED
  BY <1>1, <1>2, <1>3, <1>4, <1>5, <1>6, <1>7, <1>8 DEF Next, HubStep, vars

\* While the hub runs, a client whose channel it has closed is in neither of its maps, for any number of
\* connections and any capacities: no broadcast ever reaches a closed channel.
THEOREM NoClosedClientIsKept == Spec => []ClosedIsForgotten
<1>1. Init => ClosedIsForgotten
  BY DEF Init, ClosedIsForgotten
<1> QED  BY <1>1, InitTypeOK, NextTypeOK, NextForgets, PTL DEF Spec
=============================================================================
