---------------------------- MODULE BatteryReads ----------------------------
(***************************************************************************)
(* internal/hub: the battery section, whose reader finds out how many      *)
(* channels the inverter has and may have the section rebuilt.             *)
(*                                                                         *)
(* streamBatteryBatchRead reads register 0x066A first.  If it names        *)
(* another number of channels than the section has, the reader gives up    *)
(* and sends the hub goroutine a closure that replaces groups, probes and  *)
(* plan and starts the read anew; it then leaves the section's reading     *)
(* flag up for its successor.  Otherwise it reads the spans of the plan it *)
(* finds.  A connection puts the section back to two channels.             *)
(*                                                                         *)
(* A plan is its number of channels, its spans are read as one.  The three *)
(* fields of a plan are replaced in one step: what a reader without a lock *)
(* may see of a half-replaced slice is left out.  Member r of Reader is a  *)
(* slot for a goroutine that is alive; cancelled reads end on their own.   *)
(***************************************************************************)
EXTENDS Integers, Sequences

CONSTANTS
  Reader,      \* slots for the read goroutines alive at the same time
  Nothing,     \* no reader
  Words,       \* what register 0x066A may hold
  FuncsCap,    \* capacity of the hub's funcs channel
  ResultCap,   \* capacity of the results channel
  MaxConnects  \* connections of the broker, a bound of the model

MaxChannels == 8   \* what the reader believes
Default == 2       \* channels after a connection

ASSUME ReaderAssumption == Nothing \notin Reader
ASSUME SizesAssumption == FuncsCap \in Nat \ {0} /\ ResultCap \in Nat \ {0} /\ MaxConnects \in Nat
ASSUME WordsAssumption == Words \subseteq 0..65535

VARIABLES
  \* the hub goroutine
  subscribed,   \* the section has subscribers
  connected,    \* h.connected
  plan,         \* channels of the section's groups and batch plan
  readCancel,   \* the live read the section's cancel function stops
  reading,      \* the atomic flag of the section
  \* its channels
  funcs,        \* the channel counts of the queued closures
  results,      \* the kinds of the queued results
  \* the reading goroutines
  pc,           \* where reader r is
  found,        \* the channels its read of 0x066A named, or 0
  with,         \* the plan whose spans it reads, or 0
  cancelled,    \* its context is cancelled
  \* the inverter
  word,         \* register 0x066A
  connects,     \* connections so far
  \* history, for the properties only
  reset         \* a connection came while r was alive

hubVars    == <<subscribed, connected, plan>>
readerVars == <<pc, found, with>>
outside    == <<word, connects>>
vars == <<hubVars, readCancel, reading, funcs, results, readerVars, cancelled, outside, reset>>

Init ==
  /\ subscribed = FALSE
  /\ connected = FALSE
  /\ plan = Default
  /\ readCancel = Nothing
  /\ reading = FALSE
  /\ funcs = <<>>
  /\ results = <<>>
  /\ pc = [r \in Reader |-> "none"]
  /\ found = [r \in Reader |-> 0]
  /\ with = [r \in Reader |-> 0]
  /\ cancelled = [r \in Reader |-> FALSE]
  /\ word \in Words
  /\ connects = 0
  /\ reset = [r \in Reader |-> FALSE]

Live(r) == pc[r] # "none" /\ ~cancelled[r]

\* The program's test of a count.
Plausible(n) == n > 0 /\ n <= MaxChannels

-----------------------------------------------------------------------------
(* A reading goroutine. *)

Goto(r, place) == pc' = [pc EXCEPT ![r] = place]

\* Mutant: any count is believed.
Detect_AnyCount(r) ==
  /\ pc[r] = "detect"
  /\ \E n \in {word, 0} :
       /\ found' = [found EXCEPT ![r] = n]
       /\ Goto(r, IF n # 0 /\ n # plan THEN "rebuild" ELSE "check")
  /\ UNCHANGED <<hubVars, readCancel, reading, funcs, results, with, cancelled, outside, reset>>

\* The read of 0x066A names a count or fails; a plausible count that is not the section's asks for a rebuild.
Detect(r) ==
  /\ pc[r] = "detect"
  /\ \E n \in {word, 0} :
       /\ found' = [found EXCEPT ![r] = IF Plausible(n) THEN n ELSE 0]
       /\ Goto(r, IF Plausible(n) /\ n # plan THEN "rebuild" ELSE "check")
  /\ UNCHANGED <<hubVars, readCancel, reading, funcs, results, with, cancelled, outside, reset>>

\* Mutant: a cancelled read leaves the flag to a successor that never comes.
SendRebuild_KeepsFlag(r) ==
  /\ pc[r] = "rebuild"
  /\ \/ Len(funcs) < FuncsCap /\ funcs' = Append(funcs, found[r]) /\ Goto(r, "leave")
     \/ cancelled[r] /\ Goto(r, "leave") /\ UNCHANGED funcs
  /\ UNCHANGED <<hubVars, readCancel, reading, results, found, with, cancelled, outside, reset>>

\* The closure is queued, or the read is cancelled; select takes either when both are ready.
SendRebuild(r) ==
  /\ pc[r] = "rebuild"
  /\ \/ Len(funcs) < FuncsCap /\ funcs' = Append(funcs, found[r]) /\ Goto(r, "leave")
     \/ cancelled[r] /\ Goto(r, "exit") /\ UNCHANGED funcs
  /\ UNCHANGED <<hubVars, readCancel, reading, results, found, with, cancelled, outside, reset>>

\* readBatchSpans takes the plan as it finds it now.
Start(r) ==
  /\ pc[r] = "check"
  /\ IF cancelled[r] THEN Goto(r, "exit") /\ UNCHANGED with
                     ELSE Goto(r, "read") /\ with' = [with EXCEPT ![r] = plan]
  /\ UNCHANGED <<hubVars, readCancel, reading, funcs, results, found, cancelled, outside, reset>>

Read(r) ==
  /\ pc[r] = "read"
  /\ Goto(r, IF cancelled[r] THEN "exit" ELSE "publish")
  /\ UNCHANGED <<hubVars, readCancel, reading, funcs, results, found, with, cancelled, outside, reset>>

\* A value is sent, also when the read was cancelled since; then the context is looked at once more.
Publish(r) ==
  /\ pc[r] = "publish"
  /\ Len(results) < ResultCap
  /\ results' = Append(results, "value")
  /\ Goto(r, IF cancelled[r] THEN "exit" ELSE "complete")
  /\ UNCHANGED <<hubVars, readCancel, reading, funcs, found, with, cancelled, outside, reset>>

Complete(r) ==
  /\ pc[r] = "complete"
  /\ Len(results) < ResultCap
  /\ results' = Append(results, "section_complete")
  /\ Goto(r, "exit")
  /\ UNCHANGED <<hubVars, readCancel, reading, funcs, found, with, cancelled, outside, reset>>

\* The deferred function: the flag goes down unless the read was retriggered.
Exit(r) ==
  /\ pc[r] \in {"exit", "leave"}
  /\ reading' = (reading /\ pc[r] = "leave")
  /\ readCancel' = IF readCancel = r THEN Nothing ELSE readCancel
  /\ Goto(r, "none")
  /\ found' = [found EXCEPT ![r] = 0]
  /\ with' = [with EXCEPT ![r] = 0]
  /\ cancelled' = [cancelled EXCEPT ![r] = FALSE]
  /\ reset' = [reset EXCEPT ![r] = FALSE]
  /\ UNCHANGED <<hubVars, funcs, results, outside>>

ReaderStep(r) ==
  Detect(r) \/ SendRebuild(r) \/ Start(r) \/ Read(r) \/ Publish(r) \/ Complete(r) \/ Exit(r)

-----------------------------------------------------------------------------
(* The handlers of the hub goroutine. *)

Cancelled == [r \in Reader |-> cancelled[r] \/ readCancel = r]

\* cancelRead and nothing more.
CancelRead ==
  /\ cancelled' = Cancelled
  /\ readCancel' = Nothing
  /\ UNCHANGED <<reading, readerVars, reset>>

\* triggerSectionRead("battery").
Trigger ==
  \E r \in Reader :
    /\ pc[r] = "none"
    /\ cancelled' = Cancelled
    /\ readCancel' = r
    /\ reading' = TRUE
    /\ Goto(r, "detect")
    /\ UNCHANGED <<found, with, reset>>

NoChange == UNCHANGED <<readCancel, reading, readerVars, cancelled, reset>>

Subscribe ==
  /\ subscribed' = TRUE
  /\ IF connected THEN Trigger ELSE NoChange
  /\ UNCHANGED <<connected, plan, funcs, results, outside>>

\* A client leaves for another section, which cancels the read whoever stays, or as the last one.
Unsubscribe ==
  /\ subscribed
  /\ subscribed' \in BOOLEAN
  /\ CancelRead
  /\ UNCHANGED <<connected, plan, funcs, results, outside>>

\* refresh: connected or not, subscribed or not.
Refresh ==
  /\ Trigger
  /\ UNCHANGED <<hubVars, funcs, results, outside>>

\* handleReadCycle; in every other case it does nothing.
ReadCycle ==
  /\ connected /\ subscribed /\ ~reading
  /\ Trigger
  /\ UNCHANGED <<hubVars, funcs, results, outside>>

Disconnect ==
  /\ CancelRead
  /\ UNCHANGED <<hubVars, funcs, results, outside>>

\* The connection may be to another inverter.  The reads in progress go on.
HandleConnected ==
  /\ connects < MaxConnects
  /\ connects' = connects + 1
  /\ connected' = TRUE
  /\ word' \in Words
  /\ plan' = Default
  /\ reset' = [r \in Reader |-> pc[r] # "none"]
  /\ UNCHANGED <<subscribed, readCancel, reading, funcs, results, readerVars, cancelled>>

HandleDisconnected ==
  /\ connected' = FALSE
  /\ CancelRead
  /\ UNCHANGED <<subscribed, plan, funcs, results, outside>>

\* Mutant: the closure leaves the read in progress alone and starts none.
Rebuild_NoTrigger ==
  /\ funcs # <<>>
  /\ funcs' = Tail(funcs)
  /\ plan' = Head(funcs)
  /\ NoChange
  /\ UNCHANGED <<subscribed, connected, results, outside>>

\* The closure: a new plan, a new schema for the subscribers and a new read, whatever happened since it was queued.
Rebuild ==
  /\ funcs # <<>>
  /\ funcs' = Tail(funcs)
  /\ plan' = Head(funcs)
  /\ Trigger
  /\ UNCHANGED <<subscribed, connected, results, outside>>

\* A result is broadcast.
HandleResult ==
  /\ results # <<>>
  /\ results' = Tail(results)
  /\ NoChange
  /\ UNCHANGED <<hubVars, funcs, outside>>

Request == Subscribe \/ Unsubscribe \/ Refresh \/ ReadCycle \/ Disconnect

Next ==
  \/ \E r \in Reader : ReaderStep(r)
  \/ Request
  \/ HandleConnected \/ HandleDisconnected
  \/ Rebuild \/ HandleResult

Spec == Init /\ [][Next]_vars

\* Goroutines keep running, and the hub's select, which is fair to the channels that are ready, keeps serving
\* funcs and results; a sender that waits for room gets its turn.
FairSpec ==
  /\ Spec
  /\ WF_vars(HandleResult) /\ SF_vars(Rebuild)
  /\ \A r \in Reader : WF_vars(ReaderStep(r)) /\ SF_vars(SendRebuild(r) \/ Publish(r) \/ Complete(r))

-----------------------------------------------------------------------------
(* Properties. *)

Counts == {n \in Words : Plausible(n)} \cup {Default}

TypeOK ==
  /\ subscribed \in BOOLEAN
  /\ connected \in BOOLEAN
  /\ plan \in Counts
  /\ readCancel \in Reader \cup {Nothing}
  /\ reading \in BOOLEAN
  /\ funcs \in Seq(Counts) /\ Len(funcs) <= FuncsCap
  /\ results \in Seq({"value", "section_complete"}) /\ Len(results) <= ResultCap
  /\ pc \in [Reader -> {"none", "detect", "rebuild", "check", "read", "publish", "complete", "exit", "leave"}]
  /\ found \in [Reader -> Counts \cup {0}]
  /\ with \in [Reader -> Counts \cup {0}]
  /\ cancelled \in [Reader -> BOOLEAN]
  /\ word \in Words
  /\ connects \in 0..MaxConnects
  /\ reset \in [Reader -> BOOLEAN]

\* The values of a read that goes on are those of the channels the inverter named at its beginning, and of the
\* groups its subscribers were told of: a closure queued by another read never changes the plan under it.
\* A connection that comes in the middle does.
PlanIsDetected ==
  \A r \in Reader :
    Live(r) /\ pc[r] \in {"read", "publish", "complete"} /\ ~reset[r] =>
      /\ with[r] = plan
      /\ found[r] # 0 => with[r] = found[r]

\* The flag that a retriggered read leaves up is not left up for good: however rebuilds, cancellations and
\* connections interleave it comes down, and read_cycle is served again.
ReadingClears == reading ~> ~reading
=============================================================================
