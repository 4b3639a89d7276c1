----------------------------- MODULE SpanTracker -----------------------------
(***************************************************************************)
(* internal/hub/batch.go and its use by readBatchSpans (hub_streaming.go): *)
(* how a batch span that keeps failing is degraded to reads of its single  *)
(* registers, then skipped, and probed from time to time.                  *)
(*                                                                         *)
(* A tracker belongs to a section and is used by the goroutines that read  *)
(* the section.  A new read cancels the one before it without waiting for  *)
(* it, so several may be alive, and the hub goroutine resets the tracker   *)
(* under them.  The tracker has no lock: every access of one of its maps   *)
(* is a step here, and the accesses of several goroutines come in any      *)
(* order.  An access itself is taken as whole: that unlocked accesses may  *)
(* lose an increment, or stop a Go program altogether, is left out.        *)
(*                                                                         *)
(* Counters are kept only as far as the code tells their values apart:     *)
(* fails up to Threshold, indiv up to SkipAfter, and cycle up to           *)
(* ProbeInterval, after which it goes on at 1, as ShouldProbe looks only   *)
(* at cycle > 0 and cycle % probeInterval.                                 *)
(***************************************************************************)
EXTENDS Integers

CONSTANTS
  Reader,        \* slots for the goroutines alive at the same time
  SpanCount,     \* number of spans of the batch plan
  Threshold,     \* DefaultDegradationThreshold
  SkipAfter,     \* failed cycles of individual reads before a span is skipped
  ProbeInterval, \* DefaultProbeInterval
  Failing        \* bound: the spans with failing reads; spans meet in the cycle and in the loop only

ASSUME TrackerAssumption == /\ SpanCount \in Nat \ {0}
                            /\ Threshold \in Nat \ {0}
                            /\ SkipAfter \in Nat \ {0}
                            /\ ProbeInterval \in Nat \ {0}
                            /\ Failing \subseteq 1..SpanCount

Span  == 1..SpanCount
Level == {"normal", "degraded", "skipped"}

\* Where a reader is inside RecordSuccess, RecordFailure and RecordIndividualFailure.
InSuccess    == {"slevel", "unlevel", "unfail", "unindiv"}
InFailure    == {"flevel", "ffails", "degrade"}
InIndividual == {"itest", "skip"}
Recording    == InSuccess \cup InFailure \cup InIndividual
Place == {"none", "tick", "check", "look", "probe", "batch", "fallback", "individual"} \cup Recording

VARIABLES
  \* the tracker
  level,      \* states
  fails,      \* failCounts
  indiv,      \* indivFails
  cycle,      \* cycle
  \* the goroutines in readBatchSpans
  pc,         \* where reader r is
  span,       \* the span reader r is at
  seen,       \* state: the level r found at the start of its span
  cancelled,  \* r's context is cancelled
  \* the hub goroutine
  hub,        \* "idle", or what Reset clears next
  calm,       \* from now on batch reads succeed and nobody resets or cancels
  \* history, for the properties only
  interrupted,\* some read was cancelled
  unread,     \* until then: cycles begun since s was last read or reset, up to ProbeInterval + 1
  mixed       \* two operations on span s overlapped

trackerVars == <<level, fails, indiv>>
readerVars  == <<pc, span, seen, cancelled>>
vars == <<trackerVars, cycle, readerVars, hub, calm, unread, interrupted, mixed>>

Upto(limit, n) == IF n > limit THEN limit ELSE n

Init ==
  /\ level = [s \in Span |-> "normal"]
  /\ fails = [s \in Span |-> 0]
  /\ indiv = [s \in Span |-> 0]
  /\ cycle = 0
  /\ pc = [r \in Reader |-> "none"]
  /\ span = [r \in Reader |-> 1]
  /\ seen = [r \in Reader |-> "normal"]
  /\ cancelled = [r \in Reader |-> FALSE]
  /\ hub = "idle"
  /\ calm = FALSE
  /\ unread = [s \in Span |-> 0]
  /\ interrupted = FALSE
  /\ mixed = [s \in Span |-> FALSE]

-----------------------------------------------------------------------------
(* A reading goroutine in readBatchSpans. *)

At(r, place)   == pc[r] = place
Goto(r, place) == pc' = [pc EXCEPT ![r] = place]

NextSpan(r) ==
  /\ span' = [span EXCEPT ![r] = @ + 1]
  /\ Goto(r, "check")

Attempted(s) == unread' = [unread EXCEPT ![s] = 0]

\* The goroutines in the middle of an operation on span s.
Busy(r, s)   == pc[r] \in Recording /\ span[r] = s
Operating(s) == hub # "idle" \/ \E r \in Reader : Busy(r, s)

\* A step of reader r begins an operation on its span.
Begin(r) == mixed' = [mixed EXCEPT ![span[r]] = @ \/ Operating(span[r])]

\* RecordSuccess begins with a look at the failures ...
BeginSuccess(r) ==
  /\ Begin(r)
  /\ Goto(r, IF fails[span[r]] > 0 THEN "unlevel" ELSE "slevel")
  /\ UNCHANGED <<trackerVars, span>>

\* ... RecordFailure and RecordIndividualFailure with counting one more.
BeginFailure(r) ==
  /\ Begin(r)
  /\ fails' = [fails EXCEPT ![span[r]] = Upto(Threshold, @ + 1)]
  /\ Goto(r, "flevel")
  /\ UNCHANGED <<level, indiv, span>>

BeginIndividual(r) ==
  /\ Begin(r)
  /\ indiv' = [indiv EXCEPT ![span[r]] = Upto(SkipAfter, @ + 1)]
  /\ Goto(r, "itest")
  /\ UNCHANGED <<level, fails, span>>

Tick(r) ==
  /\ At(r, "tick")
  /\ cycle' = IF cycle = ProbeInterval THEN 1 ELSE cycle + 1
  /\ span' = [span EXCEPT ![r] = 1]
  /\ Goto(r, "check")
  /\ unread' = [s \in Span |-> IF interrupted THEN 0 ELSE Upto(ProbeInterval + 1, unread[s] + 1)]
  /\ UNCHANGED <<trackerVars, seen, cancelled, hub, calm, interrupted, mixed>>

\* The read is over: all spans are done, or its context is cancelled.
Leave(r) ==
  /\ \/ At(r, "check") /\ (span[r] > SpanCount \/ cancelled[r])
     \/ At(r, "individual") /\ cancelled[r]
  /\ Goto(r, "none")
  /\ cancelled' = [cancelled EXCEPT ![r] = FALSE]
  /\ span' = [span EXCEPT ![r] = 1]
  /\ UNCHANGED <<trackerVars, cycle, seen, hub, calm, unread, interrupted, mixed>>

\* State(): a normal span is read as a batch, whatever ShouldProbe says of it.
Look(r) ==
  /\ At(r, "check") /\ span[r] <= SpanCount /\ ~cancelled[r]
  /\ IF level[span[r]] = "normal"
       THEN Goto(r, "batch") /\ Attempted(span[r]) /\ UNCHANGED seen
       ELSE /\ Goto(r, "look")
            /\ seen' = [seen EXCEPT ![r] = level[span[r]]]
            /\ UNCHANGED unread
  /\ UNCHANGED <<trackerVars, cycle, span, cancelled, hub, calm, interrupted, mixed>>

\* A span that is not probed: what happens depends on the level read before.
WithoutProbe(r) ==
  \/ seen[r] = "skipped" /\ NextSpan(r) /\ UNCHANGED unread
  \/ seen[r] = "degraded" /\ Goto(r, "individual") /\ Attempted(span[r]) /\ UNCHANGED span

\* ShouldProbe reads the level again ...
ProbeLevel(r) ==
  /\ At(r, "look")
  /\ IF level[span[r]] = "normal"
       THEN WithoutProbe(r) /\ seen' = [seen EXCEPT ![r] = "normal"]
       ELSE Goto(r, "probe") /\ UNCHANGED <<span, seen, unread>>
  /\ UNCHANGED <<trackerVars, cycle, cancelled, hub, calm, interrupted, mixed>>

\* Mutant: only degraded spans are probed.
ProbeCycle_DegradedOnly(r) ==
  /\ At(r, "probe")
  /\ IF cycle = ProbeInterval /\ seen[r] = "degraded"
       THEN Goto(r, "batch") /\ Attempted(span[r]) /\ UNCHANGED span
       ELSE WithoutProbe(r)
  /\ seen' = [seen EXCEPT ![r] = "normal"]
  /\ UNCHANGED <<trackerVars, cycle, cancelled, hub, calm, interrupted, mixed>>

\* ... and then the cycle.
ProbeCycle(r) ==
  /\ At(r, "probe")
  /\ IF cycle = ProbeInterval
       THEN Goto(r, "batch") /\ Attempted(span[r]) /\ UNCHANGED span
       ELSE WithoutProbe(r)
  /\ seen' = [seen EXCEPT ![r] = "normal"]
  /\ UNCHANGED <<trackerVars, cycle, cancelled, hub, calm, interrupted, mixed>>

\* Mutant: a batch read that succeeds is not recorded.
BatchOk_NotRecorded(r) ==
  /\ At(r, "batch")
  /\ NextSpan(r)
  /\ UNCHANGED <<trackerVars, cycle, seen, cancelled, hub, calm, unread, interrupted, mixed>>

BatchOk(r) ==
  /\ At(r, "batch")
  /\ BeginSuccess(r)
  /\ UNCHANGED <<cycle, seen, cancelled, hub, calm, unread, interrupted>>

\* The inverter fails the batch read, or the context is cancelled: both are recorded.
BatchErr(r) ==
  /\ At(r, "batch")
  /\ span[r] \in Failing
  /\ calm => cancelled[r]
  /\ BeginFailure(r)
  /\ UNCHANGED <<cycle, seen, cancelled, hub, calm, unread, interrupted>>

\* Mutant: the fallback advances the loop, which advances by itself.
Fallback_Advances(r) ==
  /\ At(r, "fallback")
  /\ span' = [span EXCEPT ![r] = @ + 2]
  /\ Goto(r, "check")
  /\ UNCHANGED <<trackerVars, cycle, seen, cancelled, hub, calm, unread, interrupted, mixed>>

\* The individual reads after a failed batch read: their outcome is not recorded.
Fallback(r) ==
  /\ At(r, "fallback")
  /\ NextSpan(r)
  /\ UNCHANGED <<trackerVars, cycle, seen, cancelled, hub, calm, unread, interrupted, mixed>>

\* The individual reads of a degraded span are over and the context was looked at: one of them succeeded,
\* or all of them failed.
Individual(r) ==
  /\ At(r, "individual") /\ ~cancelled[r]
  /\ BeginSuccess(r) \/ BeginIndividual(r)
  /\ UNCHANGED <<cycle, seen, cancelled, hub, calm, unread, interrupted>>

-----------------------------------------------------------------------------
(* The operations of the tracker after their first access: one access of a map after the other. *)

OnlyWrites == UNCHANGED <<cycle, seen, cancelled, hub, calm, unread, interrupted, mixed>>
OnlyReads  == UNCHANGED trackerVars /\ OnlyWrites

\* RecordSuccess: a normal span that never failed is left alone.
SuccessLevel(r) ==
  /\ At(r, "slevel")
  /\ \/ level[span[r]] # "normal" /\ Goto(r, "unlevel") /\ UNCHANGED span
     \/ level[span[r]] = "normal" /\ NextSpan(r)
  /\ OnlyReads

\* Mutant: recovery goes back one level only.
ClearLevel_OneLevel(r) ==
  /\ At(r, "unlevel")
  /\ level' = [level EXCEPT ![span[r]] = IF @ = "skipped" THEN "degraded" ELSE "normal"]
  /\ Goto(r, "unfail")
  /\ UNCHANGED <<fails, indiv, span>> /\ OnlyWrites

ClearLevel(r) ==
  /\ At(r, "unlevel")
  /\ level' = [level EXCEPT ![span[r]] = "normal"]
  /\ Goto(r, "unfail")
  /\ UNCHANGED <<fails, indiv, span>> /\ OnlyWrites

ClearFails(r) ==
  /\ At(r, "unfail")
  /\ fails' = [fails EXCEPT ![span[r]] = 0]
  /\ Goto(r, "unindiv")
  /\ UNCHANGED <<level, indiv, span>> /\ OnlyWrites

ClearIndiv(r) ==
  /\ At(r, "unindiv")
  /\ indiv' = [indiv EXCEPT ![span[r]] = 0]
  /\ NextSpan(r)
  /\ UNCHANGED <<level, fails>> /\ OnlyWrites

\* RecordFailure.
FailureLevel(r) ==
  /\ At(r, "flevel")
  /\ Goto(r, IF level[span[r]] = "normal" THEN "ffails" ELSE "fallback")
  /\ UNCHANGED span /\ OnlyReads

\* Mutant: the threshold is missed by one.
FailureCount_OffByOne(r) ==
  /\ At(r, "ffails")
  /\ Goto(r, IF fails[span[r]] > Threshold THEN "degrade" ELSE "fallback")
  /\ UNCHANGED span /\ OnlyReads

FailureCount(r) ==
  /\ At(r, "ffails")
  /\ Goto(r, IF fails[span[r]] >= Threshold THEN "degrade" ELSE "fallback")
  /\ UNCHANGED span /\ OnlyReads

Degrade(r) ==
  /\ At(r, "degrade")
  /\ level' = [level EXCEPT ![span[r]] = "degraded"]
  /\ Goto(r, "fallback")
  /\ UNCHANGED <<fails, indiv, span>> /\ OnlyWrites

\* RecordIndividualFailure.
TestIndividual(r) ==
  /\ At(r, "itest")
  /\ \/ indiv[span[r]] >= SkipAfter /\ Goto(r, "skip") /\ UNCHANGED span
     \/ indiv[span[r]] < SkipAfter /\ NextSpan(r)
  /\ OnlyReads

Skip(r) ==
  /\ At(r, "skip")
  /\ level' = [level EXCEPT ![span[r]] = "skipped"]
  /\ NextSpan(r)
  /\ UNCHANGED <<fails, indiv>> /\ OnlyWrites

-----------------------------------------------------------------------------
(* The hub goroutine and the surroundings. *)

Interrupted == interrupted' = TRUE /\ unread' = [s \in Span |-> 0]

\* The hub starts a read: it cancels the one in progress and does not wait for it.
Trigger(r) ==
  /\ hub = "idle"
  /\ At(r, "none")
  /\ calm => \A q \in Reader : pc[q] # "none" => cancelled[q]
  /\ Goto(r, "tick")
  /\ cancelled' = [q \in Reader |-> q # r /\ (cancelled[q] \/ pc[q] # "none")]
  /\ IF \E q \in Reader : pc[q] # "none" THEN Interrupted ELSE UNCHANGED <<unread, interrupted>>
  /\ UNCHANGED <<trackerVars, cycle, span, seen, hub, calm, mixed>>

\* Disconnection, or the last subscriber has left.
CancelRead(r) ==
  /\ hub = "idle"
  /\ ~calm
  /\ pc[r] # "none" /\ ~cancelled[r]
  /\ cancelled' = [cancelled EXCEPT ![r] = TRUE]
  /\ Interrupted
  /\ UNCHANGED <<trackerVars, cycle, pc, span, seen, hub, calm, mixed>>

\* Reset: the broker is connected again, or the section or the pack was configured anew.  It clears the levels,
ResetLevels ==
  /\ hub = "idle"
  /\ ~calm
  /\ level' = [s \in Span |-> "normal"]
  /\ hub' = "fails"
  /\ mixed' = [s \in Span |-> mixed[s] \/ Operating(s)]
  /\ unread' = [s \in Span |-> 0]
  /\ UNCHANGED <<fails, indiv, cycle, readerVars, calm, interrupted>>

\* the counts of failures,
ResetFails ==
  /\ hub = "fails"
  /\ fails' = [s \in Span |-> 0]
  /\ hub' = "indiv"
  /\ UNCHANGED <<level, indiv, cycle, readerVars, calm, unread, interrupted, mixed>>

\* the counts of failed individual reads,
ResetIndiv ==
  /\ hub = "indiv"
  /\ indiv' = [s \in Span |-> 0]
  /\ hub' = "cycle"
  /\ UNCHANGED <<level, fails, cycle, readerVars, calm, unread, interrupted, mixed>>

\* and the cycle.
ResetCycle ==
  /\ hub = "cycle"
  /\ cycle' = 0
  /\ hub' = "idle"
  /\ unread' = [s \in Span |-> 0]
  /\ UNCHANGED <<trackerVars, readerVars, calm, interrupted, mixed>>

CalmDown ==
  /\ ~calm
  /\ calm' = TRUE
  /\ UNCHANGED <<trackerVars, cycle, readerVars, hub, unread, interrupted, mixed>>

RecordStep(r) ==
  \/ SuccessLevel(r) \/ ClearLevel(r) \/ ClearFails(r) \/ ClearIndiv(r)
  \/ FailureLevel(r) \/ FailureCount(r) \/ Degrade(r)
  \/ TestIndividual(r) \/ Skip(r)

ReaderStep(r) ==
  \/ Tick(r) \/ Leave(r) \/ Look(r) \/ ProbeLevel(r) \/ ProbeCycle(r)
  \/ BatchOk(r) \/ BatchErr(r) \/ Fallback(r) \/ Individual(r) \/ RecordStep(r)

ResetStep == ResetFails \/ ResetIndiv \/ ResetCycle

Next ==
  \/ \E r \in Reader : Trigger(r) \/ CancelRead(r) \/ ReaderStep(r)
  \/ ResetLevels \/ ResetStep \/ CalmDown

Spec == Init /\ [][Next]_vars

-----------------------------------------------------------------------------
(* Properties. *)

TypeOK ==
  /\ level \in [Span -> Level]
  /\ fails \in [Span -> 0..Threshold]
  /\ indiv \in [Span -> 0..SkipAfter]
  /\ cycle \in 0..ProbeInterval
  /\ pc \in [Reader -> Place]
  /\ span \in [Reader -> 1..SpanCount + 1]
  /\ seen \in [Reader -> Level]
  /\ cancelled \in [Reader -> BOOLEAN]
  /\ hub \in {"idle", "fails", "indiv", "cycle"}
  /\ calm \in BOOLEAN
  /\ unread \in [Span -> 0..ProbeInterval + 1]
  /\ interrupted \in BOOLEAN
  /\ mixed \in [Span -> BOOLEAN]

\* Between the operations on a span its level agrees with its counters.  However readers and resets mix their
\* accesses of the maps, no span is left normal with a counter at its limit; and as long as no two operations on
\* a span overlapped, it is degraded only with Threshold failures and skipped exactly after SkipAfter failed
\* cycles.  (Without that condition the last is not true: a Reset between the test of the counter and the store
\* of the level in RecordFailure leaves a degraded span without a failure.)
LevelsAgree ==
  \A s \in Span : ~Operating(s) =>
    /\ level[s] = "normal" => fails[s] < Threshold /\ indiv[s] < SkipAfter
    /\ ~mixed[s] => /\ level[s] = "degraded" => fails[s] = Threshold
                    /\ level[s] = "skipped" <=> indiv[s] = SkipAfter

\* batch.go:79 says of a success "resets to SpanNormal (D-08: full reset, not back one level)": unless two
\* operations on it overlapped, a skipped span leaves that level for the normal one only, and at the end of a
\* success or a reset nothing is left of its failures.
Recovered(s) == level'[s] = "normal" /\ fails'[s] = 0 /\ indiv'[s] = 0

FullRecovery ==
  [][\A s \in Span : ~mixed'[s] =>
       /\ level[s] = "skipped" => level'[s] \in {"skipped", "normal"}
       /\ \A r \in Reader : At(r, "unindiv") /\ span[r] = s /\ ~At(r, "unindiv")' => Recovered(s)
       /\ hub = "cycle" /\ hub' = "idle" => Recovered(s)]_vars

\* No span is forgotten: as long as no read is cancelled, every span, skipped or not, is read again within
\* ProbeInterval cycles of its last read or of a reset, whatever failed in between.
NoSpanForgotten == ~interrupted => \A s \in Span : unread[s] <= ProbeInterval

\* Once the inverter answers batch reads again and the browser only refreshes, every span ends up in batch mode
\* for good (periodic probes, D-07, and the recovery on success, D-08), whatever mixed operations left behind.
SpansRecover == <>calm => <>[](\A s \in Span : level[s] = "normal")

\* The readers and a reset that began run on, and the browser keeps asking for a new cycle when one is complete.
FairSpec ==
  /\ Spec
  /\ \A r \in Reader : WF_vars(ReaderStep(r))
  /\ WF_vars(ResetStep)
  /\ WF_vars(\E r \in Reader : Trigger(r))
=============================================================================
