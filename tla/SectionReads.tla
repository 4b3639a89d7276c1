---------------------------- MODULE SectionReads ----------------------------
(***************************************************************************)
(* internal/hub: the reads of the hub's sections.                          *)
(*                                                                         *)
(* The hub goroutine owns subscriptions and starts a goroutine for every   *)
(* read of a section; it cancels the read in progress before, and does not *)
(* wait for it.  A read goes through the spans of the section, publishes   *)
(* what it read on the bounded results channel, ends with section_complete *)
(* and clears the section's reading flag.  The hub goroutine takes results *)
(* off the channel and broadcasts them to the subscribers.                 *)
(*                                                                         *)
(* The reader is streamStandardRead, whose loop the readers of the battery *)
(* and of the BMS packs wrap (BatteryReads, PackReads); a span is one      *)
(* value, or the error sent instead.                                       *)
(* Member r of Reader is a slot for a goroutine that is alive.             *)
(***************************************************************************)
EXTENDS Integers, Sequences

CONSTANTS
  Client,     \* web clients
  Section,    \* sections of the hub
  ReadOnce,   \* the sections with readOnce
  Rebuilt,    \* the sections that a configure message rebuilds (pv)
  Reader,     \* slots for the read goroutines alive at the same time
  Nothing,    \* no section, no reader
  SpanCount,  \* spans of a section's batch plan
  ResultCap   \* capacity of the results channel

ASSUME SectionsAssumption == Nothing \notin Section \cup Reader /\ ReadOnce \cup Rebuilt \subseteq Section
ASSUME SizesAssumption == SpanCount \in Nat \ {0} /\ ResultCap \in Nat \ {0}

VARIABLES
  \* the hub goroutine
  subscribers,  \* subscribers of each section
  section,      \* section client c is subscribed to
  connected,    \* h.connected
  readCancel,   \* the live read the section's cancel function stops
  hasReadOnce,
  reading,      \* the atomic flag of each section
  \* the reading goroutines
  pc,           \* where reader r is
  of,           \* the section it reads
  left,         \* spans not read yet
  cancelled,    \* its context is cancelled
  results,      \* the results channel
  \* history, for the properties only
  cause         \* what started read r

hubVars    == <<subscribers, section, connected>>
readerVars == <<pc, of, left, cause>>
vars == <<hubVars, readCancel, hasReadOnce, reading, readerVars, cancelled, results>>

Init ==
  /\ subscribers = [s \in Section |-> {}]
  /\ section = [c \in Client |-> Nothing]
  /\ connected = FALSE
  /\ readCancel = [s \in Section |-> Nothing]
  /\ hasReadOnce = [s \in Section |-> FALSE]
  /\ reading = [s \in Section |-> FALSE]
  /\ pc = [r \in Reader |-> "none"]
  /\ of = [r \in Reader |-> Nothing]
  /\ left = [r \in Reader |-> 0]
  /\ cancelled = [r \in Reader |-> FALSE]
  /\ results = <<>>
  /\ cause = [r \in Reader |-> "none"]

Live(r) == pc[r] # "none" /\ ~cancelled[r]

-----------------------------------------------------------------------------
(* A reading goroutine. *)

Goto(r, place) == pc' = [pc EXCEPT ![r] = place]

\* Mutant: the loop over the spans runs once too often.
Check_OneMore(r) ==
  /\ pc[r] = "check"
  /\ Goto(r, IF cancelled[r] THEN "exit" ELSE IF left[r] < 0 THEN "complete" ELSE "read")
  /\ UNCHANGED <<hubVars, readCancel, hasReadOnce, reading, of, left, cancelled, results, cause>>

\* The loop over the spans looks at the context first.
Check(r) ==
  /\ pc[r] = "check"
  /\ Goto(r, IF cancelled[r] THEN "exit" ELSE IF left[r] = 0 THEN "complete" ELSE "read")
  /\ UNCHANGED <<hubVars, readCancel, hasReadOnce, reading, of, left, cancelled, results, cause>>

\* A span was read, well or with an error that its individual reads report; a cancelled read gives up.
Read(r) ==
  /\ pc[r] = "read"
  /\ Goto(r, IF cancelled[r] THEN "exit" ELSE "publish")
  /\ UNCHANGED <<hubVars, readCancel, hasReadOnce, reading, of, left, cancelled, results, cause>>

Message(r, kind) == [section |-> of[r], kind |-> kind]

\* The value is sent, also when the read was cancelled since it was read.
Publish(r) ==
  /\ pc[r] = "publish"
  /\ Len(results) < ResultCap
  /\ results' = Append(results, Message(r, "value"))
  /\ left' = [left EXCEPT ![r] = @ - 1]
  /\ Goto(r, "check")
  /\ UNCHANGED <<hubVars, readCancel, hasReadOnce, reading, of, cancelled, cause>>

Complete(r) ==
  /\ pc[r] = "complete"
  /\ Len(results) < ResultCap
  /\ results' = Append(results, Message(r, "section_complete"))
  /\ Goto(r, "exit")
  /\ UNCHANGED <<hubVars, readCancel, hasReadOnce, reading, of, left, cancelled, cause>>

\* defer sec.reading.Store(false).  A cancel function that outlives its read has no effect: it is dropped here.
Exit(r) ==
  /\ pc[r] = "exit"
  /\ reading' = [reading EXCEPT ![of[r]] = FALSE]
  /\ readCancel' = [s \in Section |-> IF readCancel[s] = r THEN Nothing ELSE readCancel[s]]
  /\ Goto(r, "none")
  /\ of' = [of EXCEPT ![r] = Nothing]
  /\ left' = [left EXCEPT ![r] = 0]
  /\ cancelled' = [cancelled EXCEPT ![r] = FALSE]
  /\ cause' = [cause EXCEPT ![r] = "none"]
  /\ UNCHANGED <<hubVars, hasReadOnce, results>>

ReaderStep(r) == Check(r) \/ Read(r) \/ Publish(r) \/ Complete(r) \/ Exit(r)

-----------------------------------------------------------------------------
(* What the handlers of the hub goroutine are made of. *)

\* cancelRead of the sections in S.
Cancelled(S) == [r \in Reader |-> cancelled[r] \/ \E s \in S : readCancel[s] = r]

\* cancelRead of the sections in S and nothing more.
CancelReads(S) ==
  /\ cancelled' = Cancelled(S)
  /\ readCancel' = [s \in Section |-> IF s \in S THEN Nothing ELSE readCancel[s]]
  /\ UNCHANGED <<reading, readerVars>>

\* Mutant: the read in progress is not cancelled.
Trigger_NoCancel(s, why, S) ==
  \E r \in Reader :
    /\ pc[r] = "none"
    /\ cancelled' = Cancelled(S)
    /\ readCancel' = [u \in Section |-> IF u = s THEN r ELSE IF u \in S THEN Nothing ELSE readCancel[u]]
    /\ reading' = [reading EXCEPT ![s] = TRUE]
    /\ Goto(r, "check")
    /\ of' = [of EXCEPT ![r] = s]
    /\ left' = [left EXCEPT ![r] = SpanCount]
    /\ cause' = [cause EXCEPT ![r] = why]

\* triggerSectionRead of s, after the reads of the sections in S were cancelled.
Trigger(s, why, S) ==
  \E r \in Reader :
    /\ pc[r] = "none"
    /\ cancelled' = Cancelled(S \cup {s})
    /\ readCancel' = [u \in Section |-> IF u = s THEN r ELSE IF u \in S THEN Nothing ELSE readCancel[u]]
    /\ reading' = [reading EXCEPT ![s] = TRUE]
    /\ Goto(r, "check")
    /\ of' = [of EXCEPT ![r] = s]
    /\ left' = [left EXCEPT ![r] = SpanCount]
    /\ cause' = [cause EXCEPT ![r] = why]

-----------------------------------------------------------------------------
(* The handlers of the hub goroutine. *)

\* Mutant: the client stays among the subscribers of the section it leaves.
Subscribe_KeepOld(c, s) ==
  LET old == {section[c]} \ {Nothing, s}
  IN  /\ subscribers' = [subscribers EXCEPT ![s] = @ \cup {c}]
      /\ section' = [section EXCEPT ![c] = s]
      /\ IF connected THEN Trigger(s, "subscribe", old) ELSE CancelReads(old)
      /\ UNCHANGED <<connected, hasReadOnce, results>>

\* subscribeClient: leave the old section, whose read is cancelled in any case, and read the new one.
Subscribe(c, s) ==
  LET old == {section[c]} \ {Nothing, s}
  IN  /\ subscribers' = [u \in Section |-> IF u = s THEN subscribers[u] \cup {c}
                                           ELSE IF u \in old THEN subscribers[u] \ {c} ELSE subscribers[u]]
      /\ section' = [section EXCEPT ![c] = s]
      /\ IF connected THEN Trigger(s, "subscribe", old) ELSE CancelReads(old)
      /\ UNCHANGED <<connected, hasReadOnce, results>>

\* Mutant: the read goes on when the last subscriber leaves.
Unsubscribe_NoCancel(c, s) ==
  /\ subscribers' = [subscribers EXCEPT ![s] = @ \ {c}]
  /\ section' = [section EXCEPT ![c] = IF @ = s THEN Nothing ELSE @]
  /\ CancelReads({})
  /\ UNCHANGED <<connected, hasReadOnce, results>>

\* unsubscribeClient; also what removeClient does with the section of a client that is gone.
Unsubscribe(c, s) ==
  /\ subscribers' = [subscribers EXCEPT ![s] = @ \ {c}]
  /\ section' = [section EXCEPT ![c] = IF @ = s THEN Nothing ELSE @]
  /\ CancelReads(IF subscribers[s] \ {c} = {} THEN {s} ELSE {})
  /\ UNCHANGED <<connected, hasReadOnce, results>>

\* refresh: any section, connected or not.
Refresh(s) ==
  /\ hasReadOnce' = [hasReadOnce EXCEPT ![s] = FALSE]
  /\ Trigger(s, "refresh", {})
  /\ UNCHANGED <<hubVars, results>>

\* handleReadCycle; in every other case it does nothing.
ReadCycle(s) ==
  /\ connected
  /\ subscribers[s] # {}
  /\ ~reading[s]
  /\ ~hasReadOnce[s]
  /\ Trigger(s, "read_cycle", {})
  /\ UNCHANGED <<hubVars, hasReadOnce, results>>

\* handleConfigure of the pv section: its new batch plan is read at once.
Configure(s) ==
  /\ connected
  /\ subscribers[s] # {}
  /\ Trigger(s, "configure", {})
  /\ UNCHANGED <<hubVars, hasReadOnce, results>>

\* The disconnect command cancels every read before it goes to the broker.
Disconnect ==
  /\ CancelReads(Section)
  /\ UNCHANGED <<hubVars, hasReadOnce, results>>

HandleConnected ==
  /\ connected' = TRUE
  /\ UNCHANGED <<subscribers, section, readCancel, hasReadOnce, reading, readerVars, cancelled, results>>

\* StateDisconnected and StateReconnecting.
HandleDisconnected ==
  /\ connected' = FALSE
  /\ CancelReads(Section)
  /\ UNCHANGED <<subscribers, section, hasReadOnce, results>>

\* A result is broadcast; a section_complete marks a read-once section as cached.
HandleResult ==
  /\ results # <<>>
  /\ results' = Tail(results)
  /\ LET m == Head(results)
     IN  hasReadOnce' = [hasReadOnce EXCEPT ![m.section] =
                           @ \/ (m.kind = "section_complete" /\ m.section \in ReadOnce)]
  /\ UNCHANGED <<hubVars, readCancel, reading, readerVars, cancelled>>

Request ==
  \/ \E c \in Client, s \in Section : Subscribe(c, s) \/ Unsubscribe(c, s)
  \/ \E s \in Section : Refresh(s) \/ ReadCycle(s)
  \/ \E s \in Rebuilt : Configure(s)
  \/ Disconnect

Next ==
  \/ \E r \in Reader : ReaderStep(r)
  \/ Request
  \/ HandleConnected \/ HandleDisconnected \/ HandleResult

Spec == Init /\ [][Next]_vars

-----------------------------------------------------------------------------
(* Properties. *)

Kind == {"value", "section_complete"}

TypeOK ==
  /\ subscribers \in [Section -> SUBSET Client]
  /\ section \in [Client -> Section \cup {Nothing}]
  /\ connected \in BOOLEAN
  /\ readCancel \in [Section -> Reader \cup {Nothing}]
  /\ hasReadOnce \in [Section -> BOOLEAN]
  /\ reading \in [Section -> BOOLEAN]
  /\ pc \in [Reader -> {"none", "check", "read", "publish", "complete", "exit"}]
  /\ of \in [Reader -> Section \cup {Nothing}]
  /\ left \in [Reader -> 0..SpanCount]
  /\ cancelled \in [Reader -> BOOLEAN]
  /\ results \in Seq([section : Section, kind : Kind])
  /\ Len(results) <= ResultCap
  /\ cause \in [Reader -> {"none", "subscribe", "refresh", "read_cycle", "configure"}]

\* One section per client (D-18): the hub's two records of a subscription agree, so that a client that leaves
\* or is removed leaves no entry behind.
OneSubscription ==
  \A c \in Client, s \in Section : c \in subscribers[s] <=> section[c] = s

\* A section has at most one read that is not cancelled, and it is the one its cancel function stops: no read
\* escapes a disconnection or a change of section, however many cancelled ones are still on their way out.
NoOrphanRead ==
  \A r \in Reader : Live(r) => readCancel[of[r]] = r

\* A read that was not asked for by refresh goes on only while somebody is subscribed and the broker is
\* connected: every way to lose the last subscriber or the connection stops it.
LiveReadIsWanted ==
  \A r \in Reader : Live(r) /\ cause[r] # "refresh" => connected /\ subscribers[of[r]] # {}
=============================================================================
