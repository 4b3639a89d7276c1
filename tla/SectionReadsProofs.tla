------------------------- MODULE SectionReadsProofs -------------------------
(***************************************************************************)
(* Proofs about SectionReads for every set of clients, sections and        *)
(* readers and every size of a section and of the results channel.         *)
(***************************************************************************)
EXTENDS SectionReads, TLAPS

USE SectionsAssumption, SizesAssumption DEF SectionsAssumption, SizesAssumption

Place == {"none", "check", "read", "publish", "complete", "exit"}
Cause == {"none", "subscribe", "refresh", "read_cycle", "configure"}
Result == [section : Section, kind : Kind]

\* The types of what the hub and the readers do together, and of the results channel.
HubType ==
  /\ subscribers \in [Section -> SUBSET Client]
  /\ section \in [Client -> Section \cup {Nothing}]
  /\ readCancel \in [Section -> Reader \cup {Nothing}]
  /\ hasReadOnce \in [Section -> BOOLEAN]
  /\ reading \in [Section -> BOOLEAN]

ReaderType ==
  /\ pc \in [Reader -> Place]
  /\ of \in [Reader -> Section \cup {Nothing}]
  /\ left \in [Reader -> 0..SpanCount]
  /\ cancelled \in [Reader -> BOOLEAN]
  /\ cause \in [Reader -> Cause]

ResultsType == results \in Seq(Result) /\ Len(results) <= ResultCap

\* A reader that runs reads a section, and one that publishes has a span left.
Busy ==
  \A r \in Reader : /\ pc[r] # "none" => of[r] \in Section
                    /\ pc[r] \in {"read", "publish"} => left[r] > 0

TypeInv == HubType /\ ReaderType /\ ResultsType /\ connected \in BOOLEAN /\ Busy

LEMMA TypeInvGives == TypeInv => TypeOK
BY DEF TypeInv, TypeOK, HubType, ReaderType, ResultsType, Place, Cause, Result

-----------------------------------------------------------------------------
(* The parts of the handlers. *)

LEMMA CancelReadsType ==
  ASSUME HubType, ReaderType, Busy, NEW S \in SUBSET Section, CancelReads(S)
  PROVE  /\ readCancel' \in [Section -> Reader \cup {Nothing}]
         /\ reading' = reading
         /\ ReaderType'
         /\ Busy'
<1>1. UNCHANGED <<pc, of, left, cause, reading>>
  BY DEF CancelReads, readerVars
<1>2. cancelled' \in [Reader -> BOOLEAN]
  BY DEF CancelReads, Cancelled, ReaderType
<1>3. readCancel' \in [Section -> Reader \cup {Nothing}]
  BY DEF CancelReads, HubType
<1>4. QED BY <1>1, <1>2, <1>3 DEF ReaderType, Busy

LEMMA TriggerType ==
  ASSUME HubType, ReaderType, Busy, NEW s \in Section, NEW S \in SUBSET Section,
         NEW why \in {"subscribe", "refresh", "read_cycle", "configure"}, Trigger(s, why, S)
  PROVE  /\ readCancel' \in [Section -> Reader \cup {Nothing}]
         /\ reading' \in [Section -> BOOLEAN]
         /\ ReaderType'
         /\ Busy'
<1>1. PICK r \in Reader :
        /\ pc[r] = "none"
        /\ cancelled' = Cancelled(S \cup {s})
        /\ readCancel' = [u \in Section |-> IF u = s THEN r ELSE IF u \in S THEN Nothing ELSE readCancel[u]]
        /\ reading' = [reading EXCEPT ![s] = TRUE]
        /\ Goto(r, "check")
        /\ of' = [of EXCEPT ![r] = s]
        /\ left' = [left EXCEPT ![r] = SpanCount]
        /\ cause' = [cause EXCEPT ![r] = why]
  BY DEF Trigger
<1>2. readCancel' \in [Section -> Reader \cup {Nothing}]
  BY <1>1 DEF HubType
<1>3. reading' \in [Section -> BOOLEAN]
  BY <1>1 DEF HubType
<1>4. cancelled' \in [Reader -> BOOLEAN]
  BY <1>1 DEF Cancelled
<1>5. pc' \in [Reader -> Place] /\ of' \in [Reader -> Section \cup {Nothing}]
  BY <1>1 DEF ReaderType, Goto, Place
<1>6. left' \in [Reader -> 0..SpanCount]
  BY <1>1 DEF ReaderType
<1>7. cause' \in [Reader -> Cause]
  BY <1>1 DEF ReaderType, Cause
<1>8. Busy'
  BY <1>1 DEF Busy, ReaderType, Goto
<1>9. QED BY <1>2, <1>3, <1>4, <1>5, <1>6, <1>7, <1>8 DEF ReaderType

-----------------------------------------------------------------------------
(* Type correctness, one lemma per kind of step. *)

LEMMA SendType ==
  ASSUME TypeInv, NEW r \in Reader, pc[r] # "none", NEW kind \in Kind,
         Len(results) < ResultCap, results' = Append(results, Message(r, kind))
  PROVE  ResultsType'
<1>1. Message(r, kind) \in Result
  BY DEF TypeInv, ReaderType, Busy, Message, Result
<1>2. results \in Seq(Result)
  BY DEF TypeInv, ResultsType
<1>3. Append(results, Message(r, kind)) \in Seq(Result)
  BY <1>1, <1>2
<1>4. Len(results') <= ResultCap
  BY <1>2
<1>5. QED BY <1>3, <1>4 DEF ResultsType

LEMMA ReaderStepType ==
  ASSUME TypeInv, NEW r \in Reader, ReaderStep(r)
  PROVE  TypeInv'
<1> USE DEF TypeInv, hubVars
<1>1. CASE Check(r)
  <2>1. pc' \in [Reader -> Place]
    BY <1>1 DEF Check, Goto, ReaderType, Place
  <2>2. ReaderType'
    BY <1>1, <2>1 DEF Check, ReaderType
  <2>3. Busy'
    BY <1>1 DEF Check, Goto, ReaderType, Busy
  <2>4. QED BY <1>1, <2>2, <2>3 DEF Check, HubType, ResultsType
<1>2. CASE Read(r)
  <2>1. pc' \in [Reader -> Place]
    BY <1>2 DEF Read, Goto, ReaderType, Place
  <2>2. ReaderType'
    BY <1>2, <2>1 DEF Read, ReaderType
  <2>3. Busy'
    BY <1>2 DEF Read, Goto, ReaderType, Busy
  <2>4. QED BY <1>2, <2>2, <2>3 DEF Read, HubType, ResultsType
<1>3. CASE Publish(r)
  <2>1. pc' \in [Reader -> Place]
    BY <1>3 DEF Publish, Goto, ReaderType, Place
  <2>2. left' \in [Reader -> 0..SpanCount]
    BY <1>3 DEF Publish, ReaderType, Busy
  <2>3. ReaderType'
    BY <1>3, <2>1, <2>2 DEF Publish, ReaderType
  <2>4. Busy'
    BY <1>3 DEF Publish, Goto, ReaderType, Busy
  <2>5. ResultsType'
    BY <1>3, SendType DEF Publish, Kind
  <2>6. QED BY <1>3, <2>3, <2>4, <2>5 DEF Publish, HubType
<1>4. CASE Complete(r)
  <2>1. pc' \in [Reader -> Place]
    BY <1>4 DEF Complete, Goto, ReaderType, Place
  <2>2. ReaderType'
    BY <1>4, <2>1 DEF Complete, ReaderType
  <2>3. Busy'
    BY <1>4 DEF Complete, Goto, ReaderType, Busy
  <2>4. ResultsType'
    BY <1>4, SendType DEF Complete, Kind
  <2>5. QED BY <1>4, <2>2, <2>3, <2>4 DEF Complete, HubType
<1>5. CASE Exit(r)
  <2>1. readCancel' \in [Section -> Reader \cup {Nothing}] /\ reading' \in [Section -> BOOLEAN]
    BY <1>5 DEF Exit, HubType
  <2>2. pc' \in [Reader -> Place] /\ of' \in [Reader -> Section \cup {Nothing}] /\ cause' \in [Reader -> Cause]
    BY <1>5 DEF Exit, Goto, ReaderType, Place, Cause
  <2>3. left' \in [Reader -> 0..SpanCount]
    BY <1>5 DEF Exit, ReaderType
  <2>4. cancelled' \in [Reader -> BOOLEAN]
    BY <1>5 DEF Exit, ReaderType
  <2>5. Busy'
    BY <1>5 DEF Exit, Goto, ReaderType, Busy
  <2>6. QED BY <1>5, <2>1, <2>2, <2>3, <2>4, <2>5 DEF Exit, HubType, ReaderType, ResultsType
<1>6. QED BY <1>1, <1>2, <1>3, <1>4, <1>5 DEF ReaderStep

LEMMA RequestType ==
  ASSUME TypeInv, Request
  PROVE  TypeInv'
<1> USE DEF TypeInv, hubVars
<1>1. ASSUME NEW c \in Client, NEW s \in Section, Subscribe(c, s) PROVE TypeInv'
  <2> DEFINE old == {section[c]} \ {Nothing, s}
  <2>1. old \in SUBSET Section
    BY DEF HubType
  <2>2. /\ subscribers' \in [Section -> SUBSET Client]
        /\ section' \in [Client -> Section \cup {Nothing}]
    BY <1>1 DEF Subscribe, HubType
  <2>3. UNCHANGED <<connected, hasReadOnce, results>>
    BY <1>1 DEF Subscribe
  <2>4. Trigger(s, "subscribe", old) \/ CancelReads(old)
    BY <1>1 DEF Subscribe
  <2>5. /\ readCancel' \in [Section -> Reader \cup {Nothing}]
        /\ reading' \in [Section -> BOOLEAN]
        /\ ReaderType' /\ Busy'
    <3> HIDE DEF old
    <3>1. QED BY <2>1, <2>4, TriggerType, CancelReadsType DEF HubType
  <2>6. QED BY <2>2, <2>3, <2>5 DEF HubType, ResultsType
<1>2. ASSUME NEW c \in Client, NEW s \in Section, Unsubscribe(c, s) PROVE TypeInv'
  <2>1. /\ subscribers' \in [Section -> SUBSET Client]
        /\ section' \in [Client -> Section \cup {Nothing}]
    BY <1>2 DEF Unsubscribe, HubType
  <2>2. UNCHANGED <<connected, hasReadOnce, results>>
    BY <1>2 DEF Unsubscribe
  <2>3. PICK S \in SUBSET Section : CancelReads(S)
    BY <1>2 DEF Unsubscribe
  <2>4. QED BY <2>1, <2>2, <2>3, CancelReadsType DEF HubType, ResultsType
<1>3. ASSUME NEW s \in Section, Refresh(s) PROVE TypeInv'
  <2>1. hasReadOnce' \in [Section -> BOOLEAN]
    BY <1>3 DEF Refresh, HubType
  <2>2. /\ readCancel' \in [Section -> Reader \cup {Nothing}]
        /\ reading' \in [Section -> BOOLEAN]
        /\ ReaderType' /\ Busy'
    BY <1>3, TriggerType DEF Refresh
  <2>3. QED BY <1>3, <2>1, <2>2 DEF Refresh, HubType, ResultsType
<1>4. ASSUME NEW s \in Section, ReadCycle(s) PROVE TypeInv'
  <2>1. /\ readCancel' \in [Section -> Reader \cup {Nothing}]
        /\ reading' \in [Section -> BOOLEAN]
        /\ ReaderType' /\ Busy'
    BY <1>4, TriggerType DEF ReadCycle
  <2>2. QED BY <1>4, <2>1 DEF ReadCycle, HubType, ResultsType
<1>5. CASE Disconnect
  BY <1>5, CancelReadsType DEF Disconnect, HubType, ResultsType
<1>6. ASSUME NEW s \in Section, Configure(s) PROVE TypeInv'
  <2>1. /\ readCancel' \in [Section -> Reader \cup {Nothing}]
        /\ reading' \in [Section -> BOOLEAN]
        /\ ReaderType' /\ Busy'
    BY <1>6, TriggerType DEF Configure
  <2>2. QED BY <1>6, <2>1 DEF Configure, HubType, ResultsType
<1>7. QED BY <1>1, <1>2, <1>3, <1>4, <1>5, <1>6 DEF Request

LEMMA TypeStep == TypeInv /\ [Next]_vars => TypeInv'
<1> SUFFICES ASSUME TypeInv, [Next]_vars PROVE TypeInv'
  OBVIOUS
<1> USE DEF TypeInv, hubVars
<1>1. CASE HandleConnected
  BY <1>1 DEF HandleConnected, readerVars, HubType, ReaderType, ResultsType, Busy
<1>2. CASE HandleDisconnected
  BY <1>2, CancelReadsType DEF HandleDisconnected, HubType, ResultsType
<1>3. CASE HandleResult
  <2>1. UNCHANGED <<subscribers, section, connected, readCancel, reading, readerVars, cancelled>>
    BY <1>3 DEF HandleResult
  <2>2. results \in Seq(Result) /\ results # <<>> /\ Len(results) <= ResultCap
    BY <1>3 DEF HandleResult, ResultsType
  <2>3. Tail(results) \in Seq(Result) /\ Len(Tail(results)) <= ResultCap
    BY <2>2
  <2>4. ResultsType'
    BY <1>3, <2>3 DEF HandleResult, ResultsType
  <2>5. hasReadOnce' = [hasReadOnce EXCEPT ![Head(results).section] =
                          @ \/ (Head(results).kind = "section_complete" /\ Head(results).section \in ReadOnce)]
    BY <1>3 DEF HandleResult
  <2>6. hasReadOnce' \in [Section -> BOOLEAN]
    BY <2>5 DEF HubType
  <2>7. QED BY <2>1, <2>4, <2>6 DEF HubType, ReaderType, readerVars, Busy
<1>4. CASE UNCHANGED vars
  BY <1>4 DEF vars, readerVars, HubType, ReaderType, ResultsType, Busy
<1>5. QED BY <1>1, <1>2, <1>3, <1>4, ReaderStepType, RequestType DEF Next

LEMMA TypeInit == Init => TypeInv
<1> SUFFICES ASSUME Init PROVE TypeInv
  OBVIOUS
<1>1. HubType
  BY DEF Init, HubType
<1>2. ReaderType
  BY DEF Init, ReaderType, Place, Cause
<1>3. ResultsType
  BY DEF Init, ResultsType
<1>4. connected \in BOOLEAN /\ Busy
  BY DEF Init, Busy
<1>5. QED BY <1>1, <1>2, <1>3, <1>4 DEF TypeInv

LEMMA TypeInvCorrect == Spec => []TypeInv
BY TypeInit, TypeStep, PTL DEF Spec

\* Every variable keeps its type and the results channel its capacity.
THEOREM TypeCorrect == Spec => []TypeOK
BY TypeInvCorrect, TypeInvGives, PTL

-----------------------------------------------------------------------------
(* What cancelling does to the live reads. *)

\* Live reads have the section's cancel function.  This is what every handler relies on.
LEMMA CancelReadsLive ==
  ASSUME TypeInv, NoOrphanRead, NEW S \in SUBSET Section, CancelReads(S), NEW q \in Reader, Live(q)'
  PROVE  /\ Live(q) /\ of'[q] = of[q] /\ of[q] \in Section \ S /\ cause'[q] = cause[q]
         /\ readCancel'[of[q]] = q
<1>1. UNCHANGED <<pc, of, cause>> /\ cancelled' = Cancelled(S)
  BY DEF CancelReads, readerVars
<1>2. Live(q) /\ \A u \in S : readCancel[u] # q
  BY <1>1 DEF Live, Cancelled
<1>3. of[q] \in Section /\ readCancel[of[q]] = q
  BY <1>2 DEF TypeInv, Busy, Live, NoOrphanRead
<1>4. QED BY <1>1, <1>2, <1>3 DEF CancelReads

LEMMA TriggerLive ==
  ASSUME TypeInv, NoOrphanRead, NEW s \in Section, NEW S \in SUBSET Section, NEW why,
         why \in {"subscribe", "refresh", "read_cycle", "configure"}, Trigger(s, why, S), NEW q \in Reader, Live(q)'
  PROVE  /\ readCancel'[of'[q]] = q
         /\ \/ of'[q] = s /\ cause'[q] = why
            \/ /\ Live(q) /\ of'[q] = of[q] /\ of[q] \in Section \ (S \cup {s}) /\ cause'[q] = cause[q]
<1>1. PICK r \in Reader :
        /\ pc[r] = "none"
        /\ cancelled' = Cancelled(S \cup {s})
        /\ readCancel' = [u \in Section |-> IF u = s THEN r ELSE IF u \in S THEN Nothing ELSE readCancel[u]]
        /\ Goto(r, "check")
        /\ of' = [of EXCEPT ![r] = s]
        /\ cause' = [cause EXCEPT ![r] = why]
  BY DEF Trigger
<1>2. CASE q = r
  BY <1>1, <1>2 DEF TypeInv, ReaderType
<1>3. CASE q # r
  <2>1. pc'[q] = pc[q] /\ of'[q] = of[q] /\ cause'[q] = cause[q]
    BY <1>1, <1>3 DEF TypeInv, ReaderType, Goto
  <2>2. Live(q) /\ \A u \in S \cup {s} : readCancel[u] # q
    BY <1>1, <2>1 DEF Live, Cancelled
  <2>3. of[q] \in Section /\ readCancel[of[q]] = q
    BY <2>2 DEF TypeInv, Busy, Live, NoOrphanRead
  <2>4. QED BY <1>1, <2>1, <2>2, <2>3
<1>4. QED BY <1>2, <1>3

\* The steps of the readers leave every other live read as it is.
LEMMA ReaderStepLive ==
  ASSUME TypeInv, NoOrphanRead, NEW r \in Reader, ReaderStep(r), NEW q \in Reader, Live(q)'
  PROVE  /\ Live(q) /\ of'[q] = of[q] /\ of[q] \in Section /\ cause'[q] = cause[q]
         /\ readCancel'[of[q]] = q
<1>1. CASE Exit(r)
  <2>1. q # r
    BY <1>1 DEF Exit, Goto, Live, TypeInv, ReaderType
  <2>2. Live(q) /\ of'[q] = of[q] /\ cause'[q] = cause[q]
    BY <1>1, <2>1 DEF Exit, Goto, Live, TypeInv, ReaderType
  <2>3. of[q] \in Section /\ readCancel[of[q]] = q
    BY <2>2 DEF TypeInv, Busy, Live, NoOrphanRead
  <2>4. QED BY <1>1, <2>1, <2>2, <2>3 DEF Exit
<1>2. CASE Check(r) \/ Read(r) \/ Publish(r) \/ Complete(r)
  <2>1. pc[r] # "none" /\ \A p \in Reader : p # r => pc'[p] = pc[p]
    BY <1>2 DEF Check, Read, Publish, Complete, Goto, TypeInv, ReaderType
  <2>2. UNCHANGED <<of, cause, cancelled, readCancel>>
    BY <1>2 DEF Check, Read, Publish, Complete
  <2>3. Live(q)
    BY <2>1, <2>2 DEF Live
  <2>4. of[q] \in Section /\ readCancel[of[q]] = q
    BY <2>3 DEF TypeInv, Busy, Live, NoOrphanRead
  <2>5. QED BY <2>2, <2>3, <2>4
<1>3. QED BY <1>1, <1>2 DEF ReaderStep

-----------------------------------------------------------------------------
(* The inductive invariant: who subscribes, which reads are live, and why. *)

ReadInv == OneSubscription /\ NoOrphanRead /\ LiveReadIsWanted

LEMMA SubscribeKeeps ==
  ASSUME TypeInv, ReadInv, NEW c \in Client, NEW s \in Section, Subscribe(c, s)
  PROVE  ReadInv'
<1> DEFINE old == {section[c]} \ {Nothing, s}
<1>0. old \in SUBSET Section /\ TypeInv /\ OneSubscription /\ NoOrphanRead /\ LiveReadIsWanted
  BY DEF TypeInv, HubType, ReadInv
<1>1. /\ subscribers' = [u \in Section |-> IF u = s THEN subscribers[u] \cup {c}
                                           ELSE IF u \in old THEN subscribers[u] \ {c} ELSE subscribers[u]]
      /\ section' = [section EXCEPT ![c] = s]
      /\ connected' = connected
      /\ IF connected THEN Trigger(s, "subscribe", old) ELSE CancelReads(old)
  BY DEF Subscribe
<1>2. OneSubscription'
  <2> SUFFICES ASSUME NEW d \in Client, NEW u \in Section
               PROVE  d \in subscribers'[u] <=> section'[d] = u
    BY DEF OneSubscription
  <2>1. d \in subscribers[u] <=> section[d] = u
    BY <1>0 DEF OneSubscription
  <2>2. section'[d] = IF d = c THEN s ELSE section[d]
    BY <1>1 DEF TypeInv, HubType
  <2>3. QED BY <1>1, <2>1, <2>2
<1>3. ASSUME NEW q \in Reader, Live(q)'
      PROVE  /\ readCancel'[of'[q]] = q
             /\ cause'[q] # "refresh" => connected' /\ subscribers'[of'[q]] # {}
  <2>1. CASE connected
    <3>1. Trigger(s, "subscribe", old)
      BY <1>1, <2>1
    <3>2. /\ readCancel'[of'[q]] = q
          /\ \/ of'[q] = s
             \/ Live(q) /\ of'[q] = of[q] /\ of[q] \in Section \ (old \cup {s}) /\ cause'[q] = cause[q]
      <4> HIDE DEF old
      <4>1. QED BY <1>0, <1>3, <3>1, TriggerLive
    <3>3. CASE of'[q] = s
      BY <1>1, <2>1, <3>2, <3>3
    <3>4. CASE Live(q) /\ of'[q] = of[q] /\ of[q] \in Section \ (old \cup {s}) /\ cause'[q] = cause[q]
      BY <1>0, <1>1, <2>1, <3>2, <3>4 DEF LiveReadIsWanted
    <3>5. QED BY <3>2, <3>3, <3>4
  <2>2. CASE ~connected
    <3>1. CancelReads(old)
      BY <1>1, <2>2
    <3>2. Live(q) /\ of'[q] = of[q] /\ cause'[q] = cause[q] /\ readCancel'[of[q]] = q
      <4> HIDE DEF old
      <4>1. QED BY <1>0, <1>3, <3>1, CancelReadsLive
    <3>3. QED BY <1>0, <2>2, <3>2 DEF LiveReadIsWanted
  <2>3. QED BY <2>1, <2>2
<1>4. NoOrphanRead' /\ LiveReadIsWanted'
  BY <1>3 DEF NoOrphanRead, LiveReadIsWanted
<1>5. QED BY <1>2, <1>4 DEF ReadInv

LEMMA UnsubscribeKeeps ==
  ASSUME TypeInv, ReadInv, NEW c \in Client, NEW s \in Section, Unsubscribe(c, s)
  PROVE  ReadInv'
<1> DEFINE S == IF subscribers[s] \ {c} = {} THEN {s} ELSE {}
<1>0. S \in SUBSET Section /\ TypeInv /\ OneSubscription /\ NoOrphanRead /\ LiveReadIsWanted
  BY DEF ReadInv
<1>1. /\ subscribers' = [subscribers EXCEPT ![s] = @ \ {c}]
      /\ section' = [section EXCEPT ![c] = IF @ = s THEN Nothing ELSE @]
      /\ connected' = connected
      /\ CancelReads(S)
  BY DEF Unsubscribe
<1>2. OneSubscription'
  <2> SUFFICES ASSUME NEW d \in Client, NEW u \in Section
               PROVE  d \in subscribers'[u] <=> section'[d] = u
    BY DEF OneSubscription
  <2>1. d \in subscribers[u] <=> section[d] = u
    BY <1>0 DEF OneSubscription
  <2>2. section'[d] = IF d = c /\ section[c] = s THEN Nothing ELSE section[d]
    BY <1>1 DEF TypeInv, HubType
  <2>3. subscribers'[u] = IF u = s THEN subscribers[u] \ {c} ELSE subscribers[u]
    BY <1>1 DEF TypeInv, HubType
  <2>4. u # Nothing
    OBVIOUS
  <2>5. QED BY <2>1, <2>2, <2>3, <2>4
<1>3. ASSUME NEW q \in Reader, Live(q)'
      PROVE  /\ readCancel'[of'[q]] = q
             /\ cause'[q] # "refresh" => connected' /\ subscribers'[of'[q]] # {}
  <2>1. /\ Live(q) /\ of'[q] = of[q] /\ of[q] \in Section \ S /\ cause'[q] = cause[q]
        /\ readCancel'[of[q]] = q
    <3> HIDE DEF S
    <3>1. QED BY <1>0, <1>1, <1>3, CancelReadsLive
  <2>2. cause[q] # "refresh" => connected /\ subscribers[of[q]] # {}
    BY <1>0, <2>1 DEF LiveReadIsWanted
  <2>3. subscribers'[of[q]] = IF of[q] = s THEN subscribers[s] \ {c} ELSE subscribers[of[q]]
    BY <1>1, <2>1 DEF TypeInv, HubType
  <2>4. QED BY <1>1, <2>1, <2>2, <2>3
<1>4. NoOrphanRead' /\ LiveReadIsWanted'
  BY <1>3 DEF NoOrphanRead, LiveReadIsWanted
<1>5. QED BY <1>2, <1>4 DEF ReadInv

LEMMA ReadInvInit == Init => ReadInv
BY DEF Init, ReadInv, OneSubscription, NoOrphanRead, LiveReadIsWanted, Live

LEMMA ReadInvStep == TypeInv /\ ReadInv /\ [Next]_vars => ReadInv'
<1> SUFFICES ASSUME TypeInv, ReadInv, [Next]_vars PROVE ReadInv'
  OBVIOUS
<1>0. OneSubscription /\ NoOrphanRead /\ LiveReadIsWanted
  BY DEF ReadInv
\* A step that leaves the hub's subscriptions alone keeps what it does not make live.
<1>1. ASSUME UNCHANGED hubVars,
             \A q \in Reader : Live(q)' =>
               /\ readCancel'[of'[q]] = q
               /\ \/ cause'[q] = "refresh"
                  \/ connected /\ subscribers[of'[q]] # {}
                  \/ Live(q) /\ of'[q] = of[q] /\ cause'[q] = cause[q]
      PROVE  ReadInv'
  BY <1>0, <1>1 DEF ReadInv, OneSubscription, NoOrphanRead, LiveReadIsWanted, hubVars
<1>2. ASSUME NEW r \in Reader, ReaderStep(r) PROVE ReadInv'
  <2>1. UNCHANGED hubVars
    BY <1>2 DEF ReaderStep, Check, Read, Publish, Complete, Exit, hubVars
  <2>2. QED BY <1>0, <1>1, <1>2, <2>1, ReaderStepLive
<1>3. ASSUME NEW s \in Section, Refresh(s) PROVE ReadInv'
  <2>1. UNCHANGED hubVars /\ Trigger(s, "refresh", {})
    BY <1>3 DEF Refresh
  <2>2. QED BY <1>0, <1>1, <2>1, TriggerLive
<1>4. ASSUME NEW s \in Section, ReadCycle(s) PROVE ReadInv'
  <2>1. UNCHANGED hubVars /\ Trigger(s, "read_cycle", {}) /\ connected /\ subscribers[s] # {}
    BY <1>4 DEF ReadCycle
  <2>2. QED BY <1>0, <1>1, <2>1, TriggerLive
<1>5. CASE Disconnect
  <2>1. UNCHANGED hubVars /\ CancelReads(Section)
    BY <1>5 DEF Disconnect
  <2>2. QED BY <1>0, <1>1, <2>1, CancelReadsLive
<1>6. CASE HandleConnected
  BY <1>0, <1>6 DEF HandleConnected, ReadInv, OneSubscription, NoOrphanRead, LiveReadIsWanted, Live, readerVars
<1>7. CASE HandleDisconnected
  <2>1. UNCHANGED <<subscribers, section>> /\ CancelReads(Section)
    BY <1>7 DEF HandleDisconnected
  <2>2. \A q \in Reader : ~Live(q)'
    BY <1>0, <2>1, CancelReadsLive
  <2>3. QED BY <1>0, <2>1, <2>2 DEF ReadInv, OneSubscription, NoOrphanRead, LiveReadIsWanted
<1>8. CASE HandleResult
  BY <1>0, <1>8 DEF HandleResult, ReadInv, OneSubscription, NoOrphanRead, LiveReadIsWanted, Live,
                    readerVars, hubVars
<1>9. CASE UNCHANGED vars
  BY <1>0, <1>9 DEF vars, ReadInv, OneSubscription, NoOrphanRead, LiveReadIsWanted, Live,
                    readerVars, hubVars
<1>10. ASSUME NEW s \in Section, Configure(s) PROVE ReadInv'
  <2>1. UNCHANGED hubVars /\ Trigger(s, "configure", {}) /\ connected /\ subscribers[s] # {}
    BY <1>10 DEF Configure
  <2>2. QED BY <1>0, <1>1, <2>1, TriggerLive
<1>11. QED BY <1>2, <1>3, <1>4, <1>5, <1>6, <1>7, <1>8, <1>9, <1>10, SubscribeKeeps, UnsubscribeKeeps
       DEF Next, Request

LEMMA ReadInvCorrect == Spec => []ReadInv
BY ReadInvInit, ReadInvStep, TypeInvCorrect, PTL DEF Spec

\* The hub's two records of who is subscribed to what agree (D-18).
THEOREM SubscriptionsAgree == Spec => []OneSubscription
<1>1. ReadInv => OneSubscription
  BY DEF ReadInv
<1>2. QED BY <1>1, ReadInvCorrect, PTL

\* No read escapes its section's cancel function.
THEOREM NoReadEscapes == Spec => []NoOrphanRead
<1>1. ReadInv => NoOrphanRead
  BY DEF ReadInv
<1>2. QED BY <1>1, ReadInvCorrect, PTL

\* Every read that is not a refresh has a subscriber and a connection.
THEOREM ReadsAreWanted == Spec => []LiveReadIsWanted
<1>1. ReadInv => LiveReadIsWanted
  BY DEF ReadInv
<1>2. QED BY <1>1, ReadInvCorrect, PTL
=============================================================================
