-------------------------- MODULE SpanTrackerProofs --------------------------
(***************************************************************************)
(* Proofs about SpanTracker for every number of readers and spans, every   *)
(* threshold and every probe interval.                                     *)
(***************************************************************************)
EXTENDS SpanTracker, TLAPS

USE TrackerAssumption DEF TrackerAssumption

\* A reader at span s, about to read it, reading it or recording how that went.
Reading == {"batch", "fallback", "individual"} \cup Recording
AtASpan == {"look", "probe"} \cup Reading

USE DEF InSuccess, InFailure, InIndividual, Recording, Reading, AtASpan, Place

-----------------------------------------------------------------------------
(* Type correctness.  A reader that is reading is at a span of the plan. *)

AtSpan == \A r \in Reader : pc[r] \in AtASpan => span[r] \in Span

TypeInv == TypeOK /\ AtSpan

\* The part of TypeOK that the operations of the tracker touch.
TrackerType ==
  /\ level \in [Span -> Level]
  /\ fails \in [Span -> 0..Threshold]
  /\ indiv \in [Span -> 0..SkipAfter]

MoveType ==
  /\ pc' \in [Reader -> Place]
  /\ span' \in [Reader -> 1..SpanCount + 1]
  /\ AtSpan'

\* A step that advances reader r to its next span.
LEMMA NextSpanType ==
  ASSUME TypeInv, NEW r \in Reader, NextSpan(r), span[r] \in Span
  PROVE  MoveType
<1>1. pc' \in [Reader -> Place]
  BY DEF TypeInv, TypeOK, NextSpan, Goto
<1>2. span[r] + 1 \in 1..SpanCount + 1
  BY DEF Span
<1>3. span' \in [Reader -> 1..SpanCount + 1]
  BY <1>2 DEF TypeInv, TypeOK, NextSpan
<1>4. AtSpan'
  BY DEF TypeInv, TypeOK, NextSpan, Goto, AtSpan
<1>5. QED BY <1>1, <1>3, <1>4 DEF MoveType

\* A step that moves reader r to a new place at the same span.
LEMMA GotoType ==
  ASSUME TypeInv, NEW r \in Reader, NEW place \in Place, Goto(r, place), UNCHANGED span,
         place \in {"none", "tick", "check"} \/ span[r] \in Span
  PROVE  MoveType
BY DEF TypeInv, TypeOK, Goto, AtSpan, MoveType

LEMMA AttemptedType ==
  ASSUME TypeInv, NEW s \in Span, Attempted(s)
  PROVE  unread' \in [Span -> 0..ProbeInterval + 1]
BY DEF TypeInv, TypeOK, Attempted

LEMMA WithoutProbeType ==
  ASSUME TypeInv, NEW r \in Reader, WithoutProbe(r), span[r] \in Span
  PROVE  MoveType /\ unread' \in [Span -> 0..ProbeInterval + 1]
<1>1. CASE NextSpan(r) /\ UNCHANGED unread
  BY <1>1, NextSpanType DEF TypeInv, TypeOK
<1>2. CASE Goto(r, "individual") /\ Attempted(span[r]) /\ UNCHANGED span
  BY <1>2, GotoType, AttemptedType
<1>3. QED BY <1>1, <1>2 DEF WithoutProbe

LEMMA RecordStepType ==
  ASSUME TypeInv, NEW r \in Reader, RecordStep(r)
  PROVE  MoveType /\ TrackerType' /\ OnlyWrites
<1>1. span[r] \in Span
  BY DEF TypeInv, AtSpan, RecordStep, SuccessLevel, ClearLevel, ClearFails, ClearIndiv, FailureLevel,
         FailureCount, Degrade, TestIndividual, Skip, At
<1>2. (\E place \in Place : Goto(r, place) /\ UNCHANGED span) \/ NextSpan(r)
  BY DEF RecordStep, SuccessLevel, ClearLevel, ClearFails, ClearIndiv, FailureLevel,
         FailureCount, Degrade, TestIndividual, Skip
<1>3. MoveType
  BY <1>1, <1>2, GotoType, NextSpanType
<1>4. OnlyWrites
  BY DEF RecordStep, SuccessLevel, ClearLevel, ClearFails, ClearIndiv, FailureLevel,
         FailureCount, Degrade, TestIndividual, Skip, OnlyReads
<1>5. CASE SuccessLevel(r) \/ FailureLevel(r) \/ FailureCount(r) \/ TestIndividual(r)
  <2>1. UNCHANGED trackerVars
    BY <1>5 DEF SuccessLevel, FailureLevel, FailureCount, TestIndividual, OnlyReads
  <2>2. QED BY <1>3, <1>4, <2>1 DEF TrackerType, trackerVars, TypeInv, TypeOK
<1>6. CASE ClearLevel(r) \/ Degrade(r) \/ Skip(r)
  <2>1. level' \in [Span -> Level] /\ UNCHANGED <<fails, indiv>>
    BY <1>6 DEF ClearLevel, Degrade, Skip, TypeInv, TypeOK, Level
  <2>2. QED BY <1>3, <1>4, <2>1 DEF TrackerType, TypeInv, TypeOK
<1>7. CASE ClearFails(r) \/ ClearIndiv(r)
  BY <1>3, <1>4, <1>7 DEF ClearFails, ClearIndiv, TrackerType, TypeInv, TypeOK
<1>8. QED BY <1>5, <1>6, <1>7 DEF RecordStep

LEMMA BeginType ==
  ASSUME TypeInv, NEW r \in Reader, span[r] \in Span,
         BeginSuccess(r) \/ BeginFailure(r) \/ BeginIndividual(r)
  PROVE  MoveType /\ TrackerType' /\ mixed' \in [Span -> BOOLEAN]
<1>1. \E place \in Place : Goto(r, place) /\ UNCHANGED span
  BY DEF BeginSuccess, BeginFailure, BeginIndividual
<1>2. MoveType
  BY <1>1, GotoType
<1>3. mixed' \in [Span -> BOOLEAN]
  <2>1. (mixed[span[r]] \/ Operating(span[r])) \in BOOLEAN
    OBVIOUS
  <2>2. mixed' = [mixed EXCEPT ![span[r]] = mixed[span[r]] \/ Operating(span[r])]
    BY DEF BeginSuccess, BeginFailure, BeginIndividual, Begin
  <2>3. QED BY <2>1, <2>2 DEF TypeInv, TypeOK
<1>4. TrackerType'
  BY DEF BeginSuccess, BeginFailure, BeginIndividual, TrackerType, trackerVars, TypeInv, TypeOK, Upto
<1>5. QED BY <1>2, <1>3, <1>4

LEMMA ReaderStepType ==
  ASSUME TypeInv, NEW r \in Reader, ReaderStep(r)
  PROVE  TypeInv'
<1> USE DEF TypeInv, trackerVars, readerVars
<1>t. TypeOK /\ AtSpan /\ TrackerType
  BY DEF TypeOK, TrackerType
<1>1. CASE Tick(r)
  <2>1. cycle' \in 0..ProbeInterval
    BY <1>1 DEF Tick, TypeOK
  <2>2. unread' \in [Span -> 0..ProbeInterval + 1]
    BY <1>1 DEF Tick, TypeOK, Upto
  <2>3. span' \in [Reader -> 1..SpanCount + 1]
    BY <1>1 DEF Tick, TypeOK
  <2>4. pc' \in [Reader -> Place]
    BY <1>1 DEF Tick, Goto, TypeOK
  <2>5. AtSpan'
    BY <1>1 DEF Tick, Goto, TypeOK, AtSpan
  <2>6. QED BY <1>1, <2>1, <2>2, <2>3, <2>4, <2>5 DEF Tick, TypeOK
<1>2. CASE Leave(r)
  <2>1. span' \in [Reader -> 1..SpanCount + 1] /\ cancelled' \in [Reader -> BOOLEAN]
    BY <1>2 DEF Leave, TypeOK
  <2>2. pc' \in [Reader -> Place]
    BY <1>2 DEF Leave, Goto, TypeOK
  <2>3. AtSpan'
    BY <1>2 DEF Leave, Goto, TypeOK, AtSpan
  <2>4. QED BY <1>2, <2>1, <2>2, <2>3 DEF Leave, TypeOK
<1>3. CASE Look(r)
  <2>1. span[r] \in Span
    BY <1>3 DEF Look, TypeOK, Span
  <2>2. CASE level[span[r]] = "normal"
    <3>1. Goto(r, "batch") /\ Attempted(span[r]) /\ UNCHANGED <<span, seen>>
      BY <1>3, <2>2 DEF Look
    <3>2. MoveType /\ unread' \in [Span -> 0..ProbeInterval + 1]
      BY <2>1, <3>1, GotoType, AttemptedType
    <3>3. QED BY <1>3, <3>1, <3>2 DEF Look, TypeOK, MoveType
  <2>3. CASE level[span[r]] # "normal"
    <3>1. Goto(r, "look") /\ UNCHANGED <<span, unread>> /\ seen' = [seen EXCEPT ![r] = level[span[r]]]
      BY <1>3, <2>3 DEF Look
    <3>2. MoveType
      BY <2>1, <3>1, GotoType
    <3>3. level[span[r]] \in Level
      BY <2>1 DEF TypeOK
    <3>4. seen' \in [Reader -> Level]
      BY <3>1, <3>3 DEF TypeOK
    <3>5. QED BY <1>3, <3>1, <3>2, <3>4 DEF Look, TypeOK, MoveType
  <2>4. QED BY <2>2, <2>3
<1>4. CASE ProbeLevel(r) \/ ProbeCycle(r)
  <2>1. span[r] \in Span
    BY <1>4 DEF ProbeLevel, ProbeCycle, At, AtSpan
  <2>2. \/ WithoutProbe(r)
        \/ Goto(r, "batch") /\ Attempted(span[r]) /\ UNCHANGED span
        \/ Goto(r, "probe") /\ UNCHANGED <<span, unread>>
    BY <1>4 DEF ProbeLevel, ProbeCycle
  <2>3. MoveType
    BY <2>1, <2>2, WithoutProbeType, GotoType
  <2>4. unread' \in [Span -> 0..ProbeInterval + 1]
    BY <2>1, <2>2, WithoutProbeType, AttemptedType DEF TypeOK
  <2>5. seen' \in [Reader -> Level]
    BY <1>4 DEF ProbeLevel, ProbeCycle, TypeOK, Level
  <2>6. QED BY <1>4, <2>3, <2>4, <2>5 DEF ProbeLevel, ProbeCycle, TypeOK, MoveType
<1>5. CASE BatchOk(r) \/ BatchErr(r) \/ Individual(r)
  <2>1. span[r] \in Span
    BY <1>5 DEF BatchOk, BatchErr, Individual, At, AtSpan
  <2>2. BeginSuccess(r) \/ BeginFailure(r) \/ BeginIndividual(r)
    BY <1>5 DEF BatchOk, BatchErr, Individual
  <2>3. UNCHANGED <<cycle, seen, cancelled, hub, calm, unread, interrupted>>
    BY <1>5 DEF BatchOk, BatchErr, Individual
  <2>4. MoveType /\ TrackerType' /\ mixed' \in [Span -> BOOLEAN]
    BY <2>1, <2>2, BeginType
  <2>5. QED BY <2>3, <2>4 DEF TypeOK, TrackerType, MoveType
<1>6. CASE Fallback(r)
  <2>1. span[r] \in Span
    BY <1>6 DEF Fallback, At, AtSpan
  <2>2. QED BY <1>6, <2>1, NextSpanType DEF Fallback, TypeOK, MoveType
<1>7. CASE RecordStep(r)
  <2>1. MoveType /\ TrackerType' /\ OnlyWrites
    BY <1>7, RecordStepType
  <2>2. QED BY <2>1 DEF TypeOK, TrackerType, MoveType, OnlyWrites
<1>8. QED BY <1>1, <1>2, <1>3, <1>4, <1>5, <1>6, <1>7 DEF ReaderStep

LEMMA TypeInit == Init => TypeInv
<1> SUFFICES ASSUME Init PROVE TypeInv
  OBVIOUS
<1>1. TrackerType /\ cycle \in 0..ProbeInterval
  BY DEF Init, TrackerType, Level
<1>2. /\ pc \in [Reader -> Place] /\ span \in [Reader -> 1..SpanCount + 1]
      /\ seen \in [Reader -> Level] /\ cancelled \in [Reader -> BOOLEAN]
  BY DEF Init, Level
<1>3. unread \in [Span -> 0..ProbeInterval + 1] /\ mixed \in [Span -> BOOLEAN]
  BY DEF Init
<1>4. hub \in {"idle", "fails", "indiv", "cycle"} /\ calm \in BOOLEAN /\ interrupted \in BOOLEAN
  BY DEF Init
<1>5. AtSpan
  BY DEF Init, AtSpan
<1>6. QED BY <1>1, <1>2, <1>3, <1>4, <1>5 DEF TypeInv, TypeOK, TrackerType

LEMMA ResetType ==
  ASSUME TypeInv, ResetLevels \/ ResetStep
  PROVE  TypeInv'
<1> USE DEF TypeInv, readerVars, trackerVars
<1>1. CASE ResetLevels
  <2>1. level' \in [Span -> Level]
    BY <1>1 DEF ResetLevels, Level
  <2>2. mixed' \in [Span -> BOOLEAN]
    <3>1. \A s \in Span : (mixed[s] \/ Operating(s)) \in BOOLEAN
      OBVIOUS
    <3>2. QED BY <1>1, <3>1 DEF ResetLevels
  <2>3. unread' \in [Span -> 0..ProbeInterval + 1]
    BY <1>1 DEF ResetLevels
  <2>4. QED BY <1>1, <2>1, <2>2, <2>3 DEF ResetLevels, TypeOK, AtSpan
<1>2. CASE ResetFails
  BY <1>2 DEF ResetFails, TypeOK, AtSpan
<1>3. CASE ResetIndiv
  BY <1>3 DEF ResetIndiv, TypeOK, AtSpan
<1>4. CASE ResetCycle
  BY <1>4 DEF ResetCycle, TypeOK, AtSpan
<1>5. QED BY <1>1, <1>2, <1>3, <1>4 DEF ResetStep

LEMMA TypeStep == TypeInv /\ [Next]_vars => TypeInv'
<1> SUFFICES ASSUME TypeInv, [Next]_vars PROVE TypeInv'
  OBVIOUS
<1> USE DEF TypeInv, trackerVars, readerVars
<1>1. ASSUME NEW r \in Reader, Trigger(r) PROVE TypeInv'
  <2>1. cancelled' \in [Reader -> BOOLEAN] /\ interrupted' \in BOOLEAN
    BY <1>1 DEF Trigger, Interrupted, TypeOK
  <2>2. unread' \in [Span -> 0..ProbeInterval + 1]
    BY <1>1 DEF Trigger, Interrupted, TypeOK
  <2>3. MoveType
    BY <1>1, GotoType DEF Trigger
  <2>4. QED BY <1>1, <2>1, <2>2, <2>3 DEF Trigger, TypeOK, MoveType
<1>2. ASSUME NEW r \in Reader, CancelRead(r) PROVE TypeInv'
  BY <1>2 DEF CancelRead, Interrupted, TypeOK, AtSpan
<1>3. CASE ResetLevels \/ ResetStep
  BY <1>3, ResetType
<1>4. CASE CalmDown
  BY <1>4 DEF CalmDown, TypeOK, AtSpan
<1>5. CASE UNCHANGED vars
  BY <1>5 DEF vars, TypeOK, AtSpan
<1>6. QED BY <1>1, <1>2, <1>3, <1>4, <1>5, ReaderStepType DEF Next

LEMMA TypeInvCorrect == Spec => []TypeInv
BY TypeInit, TypeStep, PTL DEF Spec

\* Every variable keeps its type; in particular no reader runs past the end of the batch plan.
THEOREM TypeCorrect == Spec => []TypeOK
<1>1. TypeInv => TypeOK
  BY DEF TypeInv
<1>2. QED BY <1>1, TypeInvCorrect, PTL

-----------------------------------------------------------------------------
(* The levels.  In the middle of an operation a span's level and counters disagree; the invariant says who is *)
(* about to mend that.  A normal span with a counter at its limit needs a goroutine that raises the level or  *)
(* clears the counter, overlapping operations or not.                                                         *)

MendsFails(r, s) == pc[r] \in {"flevel", "ffails", "degrade", "unfail"} /\ span[r] = s
MendsIndiv(r, s) == pc[r] \in {"itest", "skip", "unfail", "unindiv"} /\ span[r] = s

FullFails(s) == level[s] = "normal" /\ fails[s] >= Threshold
FullIndiv(s) == level[s] = "normal" /\ indiv[s] >= SkipAfter

FailsMended(s) == FullFails(s) => hub = "fails" \/ \E r \in Reader : MendsFails(r, s)
IndivMended(s) == FullIndiv(s) => hub \in {"fails", "indiv"} \/ \E r \in Reader : MendsIndiv(r, s)

Agree(s) ==
  /\ level[s] = "normal" => fails[s] < Threshold
  /\ level[s] = "degraded" => fails[s] = Threshold
  /\ level[s] = "skipped" <=> indiv[s] = SkipAfter

\* What a reader at each place of an undisturbed operation finds.
Midway(place, s) ==
  /\ place = "slevel"  => Agree(s) /\ fails[s] = 0
  /\ place = "unfail"  => level[s] = "normal"
  /\ place = "unindiv" => level[s] = "normal" /\ fails[s] = 0
  /\ place = "flevel"  => /\ level[s] = "degraded" => fails[s] = Threshold
                          /\ level[s] = "skipped" <=> indiv[s] = SkipAfter
  /\ place = "ffails"  => level[s] = "normal" /\ indiv[s] < SkipAfter
  /\ place = "degrade" => level[s] = "normal" /\ fails[s] = Threshold /\ indiv[s] < SkipAfter
  /\ place = "itest"   => /\ level[s] = "normal" => fails[s] < Threshold
                          /\ level[s] = "degraded" => fails[s] = Threshold
                          /\ level[s] = "skipped" => indiv[s] = SkipAfter
  /\ place = "skip"    => indiv[s] = SkipAfter

\* What the hub has cleared at each place of an undisturbed reset.
Cleared(s) ==
  /\ hub # "idle" => level[s] = "normal"
  /\ hub \in {"indiv", "cycle"} => fails[s] = 0
  /\ hub = "cycle" => indiv[s] = 0

Undisturbed(s) ==
  /\ \A q, r \in Reader : Busy(q, s) /\ Busy(r, s) => q = r
  /\ hub # "idle" => \A r \in Reader : ~Busy(r, s)
  /\ ~Operating(s) => Agree(s)
  /\ \A r \in Reader : Busy(r, s) => Midway(pc[r], s)
  /\ Cleared(s)

LevelOf(s) == FailsMended(s) /\ IndivMended(s) /\ (~mixed[s] => Undisturbed(s))

LevelInv == \A s \in Span : LevelOf(s)

SameSpan(s) == level'[s] = level[s] /\ fails'[s] = fails[s] /\ indiv'[s] = indiv[s] /\ mixed'[s] = mixed[s]

\* A step that is not about span s.
LEMMA ElsewhereKeeps ==
  ASSUME NEW s \in Span, LevelOf(s), SameSpan(s), hub' = hub,
         \A q \in Reader : (Busy(q, s)' <=> Busy(q, s)) /\ (Busy(q, s) => pc'[q] = pc[q])
  PROVE  LevelOf(s)'
<1>1. \A q \in Reader : (MendsFails(q, s)' <=> MendsFails(q, s)) /\ (MendsIndiv(q, s)' <=> MendsIndiv(q, s))
  BY DEF MendsFails, MendsIndiv, Busy
<1>2. FailsMended(s)'
  BY <1>1 DEF LevelOf, SameSpan, FailsMended, FullFails
<1>3. IndivMended(s)'
  BY <1>1 DEF LevelOf, SameSpan, IndivMended, FullIndiv
<1>4. ASSUME ~mixed'[s] PROVE Undisturbed(s)'
  <2>1. Undisturbed(s)
    BY <1>4 DEF LevelOf, SameSpan
  <2>2. Operating(s)' <=> Operating(s)
    BY DEF Operating
  <2>3. (Agree(s) => Agree(s)') /\ (Cleared(s) => Cleared(s)')
    BY DEF SameSpan, Agree, Cleared
  <2>4. \A r \in Reader : Busy(r, s) /\ Midway(pc[r], s) => Midway(pc[r], s)'
    BY DEF SameSpan, Midway, Agree
  <2>5. QED BY <2>1, <2>2, <2>3, <2>4 DEF Undisturbed
<1>5. QED BY <1>2, <1>3, <1>4 DEF LevelOf

\* The other readers stay where they are.
OthersStay(r) == \A q \in Reader : q # r => pc'[q] = pc[q] /\ span'[q] = span[q]

\* A step of reader r at its own span s: what has to be shown of it.
FailsKept(r, s) ==
  FullFails(s)' => MendsFails(r, s)' \/ (FullFails(s) /\ ~MendsFails(r, s))
IndivKept(r, s) ==
  FullIndiv(s)' => MendsIndiv(r, s)' \/ (FullIndiv(s) /\ ~MendsIndiv(r, s))

LEMMA OwnFails ==
  ASSUME NEW r \in Reader, NEW s \in Span, OthersStay(r), hub' = hub, FailsMended(s), FailsKept(r, s)
  PROVE  FailsMended(s)'
BY DEF OthersStay, FailsMended, FailsKept, MendsFails

LEMMA OwnIndiv ==
  ASSUME NEW r \in Reader, NEW s \in Span, OthersStay(r), hub' = hub, IndivMended(s), IndivKept(r, s)
  PROVE  IndivMended(s)'
BY DEF OthersStay, IndivMended, IndivKept, MendsIndiv

\* The reader goes on with an operation it alone is at, or ends it.
LEMMA OwnUndisturbed ==
  ASSUME NEW r \in Reader, NEW s \in Span, OthersStay(r), hub' = hub, Busy(r, s), Undisturbed(s),
         IF Busy(r, s)' THEN Midway(pc[r], s)' ELSE Agree(s)'
  PROVE  Undisturbed(s)'
<1>1. hub = "idle" /\ \A q \in Reader : q # r => ~Busy(q, s)
  BY DEF Undisturbed
<1>2. \A q \in Reader : q # r => ~Busy(q, s)'
  BY <1>1 DEF OthersStay, Busy
<1>3. Cleared(s)'
  BY <1>1 DEF Cleared
<1>4. ~Operating(s)' => Agree(s)'
  BY DEF Operating
<1>5. QED BY <1>1, <1>2, <1>3, <1>4 DEF Undisturbed

\* The reader begins one, on a span nobody operates on.
LEMMA OwnBegins ==
  ASSUME NEW r \in Reader, NEW s \in Span, OthersStay(r), hub' = hub, ~Operating(s), Busy(r, s)',
         Midway(pc[r], s)'
  PROVE  Undisturbed(s)'
<1>1. hub = "idle" /\ \A q \in Reader : ~Busy(q, s)
  BY DEF Operating
<1>2. \A q \in Reader : q # r => ~Busy(q, s)'
  BY <1>1 DEF OthersStay, Busy
<1>3. Cleared(s)'
  BY <1>1 DEF Cleared
<1>4. QED BY <1>1, <1>2, <1>3 DEF Undisturbed, Operating

\* A reader stays at its span or goes on to the next one.
LEMMA MovesAlone ==
  ASSUME TypeInv, NEW r \in Reader, NextSpan(r) \/ (\E place \in Place : Goto(r, place) /\ UNCHANGED span)
  PROVE  OthersStay(r)
BY DEF TypeInv, TypeOK, NextSpan, Goto, OthersStay

\* A step of reader r in the middle of an operation leaves the other spans alone.
LEMMA RecordElsewhere ==
  ASSUME TypeInv, LevelInv, NEW r \in Reader, RecordStep(r), NEW s \in Span, s # span[r]
  PROVE  LevelOf(s)'
<1>1. NextSpan(r) \/ (\E place \in Place : Goto(r, place) /\ UNCHANGED span)
  BY DEF RecordStep, SuccessLevel, ClearLevel, ClearFails, ClearIndiv, FailureLevel,
         FailureCount, Degrade, TestIndividual, Skip
<1>2. OthersStay(r)
  BY <1>1, MovesAlone
<1>3. ~Busy(r, s) /\ ~Busy(r, s)'
  BY <1>1 DEF Busy, NextSpan, Goto, TypeInv, TypeOK
<1>4. \A q \in Reader : (Busy(q, s)' <=> Busy(q, s)) /\ (Busy(q, s) => pc'[q] = pc[q])
  BY <1>2, <1>3 DEF OthersStay, Busy
<1>5. SameSpan(s) /\ hub' = hub
  BY DEF RecordStep, SuccessLevel, ClearLevel, ClearFails, ClearIndiv, FailureLevel,
         FailureCount, Degrade, TestIndividual, Skip, OnlyReads, OnlyWrites, trackerVars, SameSpan, TypeInv, TypeOK
<1>6. QED BY <1>4, <1>5, ElsewhereKeeps DEF LevelInv

LEMMA BeginElsewhere ==
  ASSUME TypeInv, LevelInv, NEW r \in Reader, hub' = hub, NEW s \in Span, s # span[r],
         BeginSuccess(r) \/ BeginFailure(r) \/ BeginIndividual(r)
  PROVE  LevelOf(s)'
<1>1. \E place \in Place : Goto(r, place) /\ UNCHANGED span
  BY DEF BeginSuccess, BeginFailure, BeginIndividual
<1>2. OthersStay(r)
  BY <1>1, MovesAlone
<1>3. ~Busy(r, s) /\ ~Busy(r, s)'
  BY <1>1 DEF Busy
<1>4. \A q \in Reader : (Busy(q, s)' <=> Busy(q, s)) /\ (Busy(q, s) => pc'[q] = pc[q])
  BY <1>2, <1>3 DEF OthersStay, Busy
<1>5. SameSpan(s)
  BY DEF BeginSuccess, BeginFailure, BeginIndividual, Begin, trackerVars, SameSpan, TypeInv, TypeOK
<1>6. QED BY <1>4, <1>5, ElsewhereKeeps DEF LevelInv

\* What a step in the middle of an operation does to its own span: it keeps what the level needs, and as long as
\* the operation is the only one, it goes on or leaves level and counters in agreement.
RecordOwn(r, s) ==
  /\ FailsKept(r, s)
  /\ IndivKept(r, s)
  /\ Busy(r, s)
  /\ Midway(pc[r], s) => IF Busy(r, s)' THEN Midway(pc[r], s)' ELSE Agree(s)'

LEMMA SpanTypes ==
  ASSUME TypeInv, NEW s \in Span
  PROVE  /\ level[s] \in Level /\ fails[s] \in Nat /\ fails[s] <= Threshold
         /\ indiv[s] \in Nat /\ indiv[s] <= SkipAfter
BY DEF TypeInv, TypeOK

LEMMA SuccessOwn ==
  ASSUME TypeInv, NEW r \in Reader, NEW s \in Span, s = span[r],
         SuccessLevel(r) \/ ClearLevel(r) \/ ClearFails(r) \/ ClearIndiv(r)
  PROVE  RecordOwn(r, s)
<1> USE SpanTypes DEF Level, RecordOwn, FailsKept, IndivKept, FullFails, FullIndiv, MendsFails, MendsIndiv, Busy
<1>1. CASE SuccessLevel(r)
  <2>1. UNCHANGED <<level, fails, indiv>> /\ pc[r] = "slevel"
    BY <1>1 DEF SuccessLevel, OnlyReads, trackerVars, At
  <2>2. CASE Goto(r, "unlevel") /\ UNCHANGED span
    BY <2>1, <2>2 DEF Goto, TypeInv, TypeOK, Midway
  <2>3. CASE level[s] = "normal" /\ NextSpan(r)
    BY <2>1, <2>3 DEF NextSpan, Goto, TypeInv, TypeOK, Midway, Agree
  <2>4. QED BY <1>1, <2>2, <2>3 DEF SuccessLevel
<1>2. CASE ClearLevel(r)
  <2>1. /\ level'[s] = "normal" /\ UNCHANGED <<fails, indiv, span>>
        /\ pc[r] = "unlevel" /\ pc'[r] = "unfail"
    BY <1>2 DEF ClearLevel, At, Goto, TypeInv, TypeOK
  <2>2. QED BY <2>1 DEF Midway
<1>3. CASE ClearFails(r)
  <2>1. /\ fails'[s] = 0 /\ UNCHANGED <<level, indiv, span>>
        /\ pc[r] = "unfail" /\ pc'[r] = "unindiv"
    BY <1>3 DEF ClearFails, At, Goto, TypeInv, TypeOK
  <2>2. QED BY <2>1 DEF Midway
<1>4. CASE ClearIndiv(r)
  <2>1. /\ indiv'[s] = 0 /\ UNCHANGED <<level, fails>>
        /\ pc[r] = "unindiv" /\ pc'[r] = "check"
    BY <1>4 DEF ClearIndiv, At, NextSpan, Goto, TypeInv, TypeOK
  <2>2. QED BY <2>1 DEF Midway, Agree
<1>5. QED BY <1>1, <1>2, <1>3, <1>4

LEMMA FailureOwn ==
  ASSUME TypeInv, NEW r \in Reader, NEW s \in Span, s = span[r],
         FailureLevel(r) \/ FailureCount(r) \/ Degrade(r)
  PROVE  RecordOwn(r, s)
<1> USE SpanTypes DEF Level, RecordOwn, FailsKept, IndivKept, FullFails, FullIndiv, MendsFails, MendsIndiv, Busy
<1>1. CASE FailureLevel(r)
  <2>1. /\ UNCHANGED <<level, fails, indiv, span>> /\ pc[r] = "flevel"
        /\ pc'[r] = IF level[s] = "normal" THEN "ffails" ELSE "fallback"
    BY <1>1 DEF FailureLevel, OnlyReads, trackerVars, At, Goto, TypeInv, TypeOK
  <2>2. CASE level[s] = "normal"
    BY <2>1, <2>2 DEF Midway
  <2>3. CASE level[s] # "normal"
    BY <2>1, <2>3 DEF Midway, Agree
  <2>4. QED BY <2>2, <2>3
<1>2. CASE FailureCount(r)
  <2>1. /\ UNCHANGED <<level, fails, indiv, span>> /\ pc[r] = "ffails"
        /\ pc'[r] = IF fails[s] >= Threshold THEN "degrade" ELSE "fallback"
    BY <1>2 DEF FailureCount, OnlyReads, trackerVars, At, Goto, TypeInv, TypeOK
  <2>2. CASE fails[s] >= Threshold
    BY <2>1, <2>2 DEF Midway
  <2>3. CASE ~(fails[s] >= Threshold)
    BY <2>1, <2>3 DEF Midway, Agree
  <2>4. QED BY <2>2, <2>3
<1>3. CASE Degrade(r)
  <2>1. /\ level'[s] = "degraded" /\ UNCHANGED <<fails, indiv, span>>
        /\ pc[r] = "degrade" /\ pc'[r] = "fallback"
    BY <1>3 DEF Degrade, At, Goto, TypeInv, TypeOK
  <2>2. QED BY <2>1 DEF Midway, Agree
<1>4. QED BY <1>1, <1>2, <1>3

LEMMA IndividualOwn ==
  ASSUME TypeInv, NEW r \in Reader, NEW s \in Span, s = span[r], TestIndividual(r) \/ Skip(r)
  PROVE  RecordOwn(r, s)
<1> USE SpanTypes DEF Level, RecordOwn, FailsKept, IndivKept, FullFails, FullIndiv, MendsFails, MendsIndiv, Busy
<1>1. CASE TestIndividual(r)
  <2>1. UNCHANGED <<level, fails, indiv>> /\ pc[r] = "itest"
    BY <1>1 DEF TestIndividual, OnlyReads, trackerVars, At
  <2>2. CASE indiv[s] >= SkipAfter /\ Goto(r, "skip") /\ UNCHANGED span
    BY <2>1, <2>2 DEF Goto, TypeInv, TypeOK, Midway
  <2>3. CASE indiv[s] < SkipAfter /\ NextSpan(r)
    BY <2>1, <2>3 DEF NextSpan, Goto, TypeInv, TypeOK, Midway, Agree
  <2>4. QED BY <1>1, <2>2, <2>3 DEF TestIndividual
<1>2. CASE Skip(r)
  <2>1. /\ level'[s] = "skipped" /\ UNCHANGED <<fails, indiv>>
        /\ pc[r] = "skip" /\ pc'[r] = "check"
    BY <1>2 DEF Skip, At, NextSpan, Goto, TypeInv, TypeOK
  <2>2. QED BY <2>1 DEF Midway, Agree
<1>3. QED BY <1>1, <1>2

LEMMA RecordLevels ==
  ASSUME TypeInv, LevelInv, NEW r \in Reader, RecordStep(r)
  PROVE  LevelInv'
<1>1. SUFFICES ASSUME NEW s \in Span PROVE LevelOf(s)'
  BY DEF LevelInv
<1>2. CASE s # span[r]
  BY <1>2, RecordElsewhere
<1>3. CASE s = span[r]
  <2>1. RecordOwn(r, s)
    BY <1>3, SuccessOwn, FailureOwn, IndividualOwn DEF RecordStep
  <2>2. NextSpan(r) \/ (\E place \in Place : Goto(r, place) /\ UNCHANGED span)
    BY DEF RecordStep, SuccessLevel, ClearLevel, ClearFails, ClearIndiv, FailureLevel,
           FailureCount, Degrade, TestIndividual, Skip
  <2>3. OthersStay(r)
    BY <2>2, MovesAlone
  <2>4. hub' = hub /\ mixed' = mixed
    BY RecordStepType DEF OnlyWrites
  <2>5. LevelOf(s)
    BY DEF LevelInv
  <2>6. FailsMended(s)'
    BY <2>1, <2>3, <2>4, <2>5, OwnFails DEF LevelOf, RecordOwn
  <2>7. IndivMended(s)'
    BY <2>1, <2>3, <2>4, <2>5, OwnIndiv DEF LevelOf, RecordOwn
  <2>8. ASSUME ~mixed'[s] PROVE Undisturbed(s)'
    <3>1. Undisturbed(s) /\ Busy(r, s)
      BY <2>1, <2>4, <2>5, <2>8 DEF LevelOf, RecordOwn
    <3>2. Midway(pc[r], s)
      BY <3>1 DEF Undisturbed
    <3>3. QED BY <2>1, <2>3, <2>4, <3>1, <3>2, OwnUndisturbed DEF RecordOwn
  <2>9. QED BY <2>6, <2>7, <2>8 DEF LevelOf
<1>4. QED BY <1>2, <1>3

\* The first access of an operation.
BeginOwn(r, s) ==
  /\ FailsKept(r, s)
  /\ IndivKept(r, s)
  /\ Busy(r, s)'
  /\ Agree(s) => Midway(pc[r], s)'

LEMMA BeginsOwn ==
  ASSUME TypeInv, NEW r \in Reader, NEW s \in Span, s = span[r], pc[r] \notin Recording,
         BeginSuccess(r) \/ BeginFailure(r) \/ BeginIndividual(r)
  PROVE  BeginOwn(r, s)
<1> USE SpanTypes DEF Level, BeginOwn, FailsKept, IndivKept, FullFails, FullIndiv, MendsFails, MendsIndiv, Busy
<1>1. CASE BeginSuccess(r)
  <2>1. /\ UNCHANGED <<level, fails, indiv, span>>
        /\ pc'[r] = IF fails[s] > 0 THEN "unlevel" ELSE "slevel"
    BY <1>1 DEF BeginSuccess, trackerVars, Goto, TypeInv, TypeOK
  <2>2. CASE fails[s] > 0
    BY <2>1, <2>2 DEF Midway
  <2>3. CASE ~(fails[s] > 0)
    <3>1. fails[s] = 0
      BY <2>3
    <3>2. QED BY <2>1, <3>1 DEF Midway, Agree
  <2>4. QED BY <2>2, <2>3
<1>2. CASE BeginFailure(r)
  <2>1. /\ UNCHANGED <<level, indiv, span>> /\ pc'[r] = "flevel"
        /\ fails'[s] = Upto(Threshold, fails[s] + 1)
    BY <1>2 DEF BeginFailure, Goto, TypeInv, TypeOK
  <2>2. fails[s] = Threshold => fails'[s] = Threshold
    BY <2>1 DEF Upto
  <2>3. Agree(s) => Midway(pc[r], s)'
    BY <2>1, <2>2 DEF Midway, Agree
  <2>4. QED BY <2>1, <2>3
<1>3. CASE BeginIndividual(r)
  <2>1. /\ UNCHANGED <<level, fails, span>> /\ pc'[r] = "itest"
        /\ indiv'[s] = Upto(SkipAfter, indiv[s] + 1)
    BY <1>3 DEF BeginIndividual, Goto, TypeInv, TypeOK
  <2>2. indiv[s] = SkipAfter => indiv'[s] = SkipAfter
    BY <2>1 DEF Upto
  <2>3. Agree(s) => Midway(pc[r], s)'
    BY <2>1, <2>2 DEF Midway, Agree
  <2>4. QED BY <2>1, <2>3
<1>4. QED BY <1>1, <1>2, <1>3

LEMMA BeginLevels ==
  ASSUME TypeInv, LevelInv, NEW r \in Reader, BatchOk(r) \/ BatchErr(r) \/ Individual(r)
  PROVE  LevelInv'
<1>1. SUFFICES ASSUME NEW s \in Span PROVE LevelOf(s)'
  BY DEF LevelInv
<1>2. BeginSuccess(r) \/ BeginFailure(r) \/ BeginIndividual(r)
  BY DEF BatchOk, BatchErr, Individual
<1>3. hub' = hub /\ pc[r] \notin Recording
  BY DEF BatchOk, BatchErr, Individual, At
<1>4. CASE s # span[r]
  BY <1>2, <1>3, <1>4, BeginElsewhere
<1>5. CASE s = span[r]
  <2>1. BeginOwn(r, s)
    BY <1>2, <1>3, <1>5, BeginsOwn
  <2>2. \E place \in Place : Goto(r, place) /\ UNCHANGED span
    BY <1>2 DEF BeginSuccess, BeginFailure, BeginIndividual
  <2>3. OthersStay(r)
    BY <2>2, MovesAlone
  <2>4. LevelOf(s)
    BY DEF LevelInv
  <2>5. FailsMended(s)'
    BY <1>3, <2>1, <2>3, <2>4, OwnFails DEF LevelOf, BeginOwn
  <2>6. IndivMended(s)'
    BY <1>3, <2>1, <2>3, <2>4, OwnIndiv DEF LevelOf, BeginOwn
  <2>7. ASSUME ~mixed'[s] PROVE Undisturbed(s)'
    <3>1. mixed' = [mixed EXCEPT ![s] = mixed[s] \/ Operating(s)]
      BY <1>2, <1>5 DEF BeginSuccess, BeginFailure, BeginIndividual, Begin
    <3>2. mixed'[s] <=> (mixed[s] \/ Operating(s))
      BY <3>1 DEF TypeInv, TypeOK
    <3>3. ~mixed[s] /\ ~Operating(s)
      BY <2>7, <3>2
    <3>4. Agree(s)
      BY <2>4, <3>3 DEF LevelOf, Undisturbed
    <3>5. QED BY <1>3, <2>1, <2>3, <3>3, <3>4, OwnBegins DEF BeginOwn
  <2>8. QED BY <2>5, <2>6, <2>7 DEF LevelOf
<1>6. QED BY <1>4, <1>5

\* Nobody touches the tracker, and who is in the middle of an operation stays there.
Quiet ==
  /\ UNCHANGED <<level, fails, indiv, mixed, hub>>
  /\ \A q \in Reader : \/ pc'[q] = pc[q] /\ span'[q] = span[q]
                       \/ pc[q] \notin Recording /\ pc'[q] \notin Recording

LEMMA QuietLevels ==
  ASSUME LevelInv, Quiet
  PROVE  LevelInv'
<1>1. SUFFICES ASSUME NEW s \in Span PROVE LevelOf(s)'
  BY DEF LevelInv
<1>2. \A q \in Reader : (Busy(q, s)' <=> Busy(q, s)) /\ (Busy(q, s) => pc'[q] = pc[q])
  BY DEF Quiet, Busy
<1>3. SameSpan(s) /\ hub' = hub
  BY DEF Quiet, SameSpan
<1>4. QED BY <1>2, <1>3, ElsewhereKeeps DEF LevelInv

LEMMA QuietSteps ==
  ASSUME TypeInv, NEW r \in Reader,
         Trigger(r) \/ CancelRead(r) \/ Tick(r) \/ Leave(r) \/ Look(r) \/ ProbeLevel(r) \/ ProbeCycle(r)
           \/ Fallback(r)
  PROVE  Quiet
<1>1. UNCHANGED <<level, fails, indiv, mixed, hub>>
  BY DEF Trigger, CancelRead, Tick, Leave, Look, ProbeLevel, ProbeCycle, Fallback, trackerVars
<1>2. CASE CancelRead(r)
  BY <1>1, <1>2 DEF CancelRead, Quiet
<1>3. CASE ~CancelRead(r)
  <2>1. \E place \in Place \ Recording : Goto(r, place)
    BY <1>3 DEF Trigger, Tick, Leave, Look, ProbeLevel, ProbeCycle, Fallback, WithoutProbe, NextSpan
  <2>2. pc[r] \notin Recording
    BY <1>3 DEF Trigger, Tick, Leave, Look, ProbeLevel, ProbeCycle, Fallback, At
  <2>3. span' = span \/ (\E n \in 1..SpanCount + 2 : span' = [span EXCEPT ![r] = n])
    <3>1. span[r] + 1 \in 1..SpanCount + 2 /\ 1 \in 1..SpanCount + 2
      BY DEF TypeInv, TypeOK
    <3>2. QED BY <1>3, <3>1 DEF Trigger, Tick, Leave, Look, ProbeLevel, ProbeCycle, Fallback, WithoutProbe, NextSpan
  <2>4. \A q \in Reader : q # r => pc'[q] = pc[q] /\ span'[q] = span[q]
    BY <2>1, <2>3 DEF Goto, TypeInv, TypeOK
  <2>5. pc'[r] \notin Recording
    BY <2>1 DEF Goto, TypeInv, TypeOK
  <2>6. QED BY <1>1, <2>2, <2>4, <2>5 DEF Quiet
<1>4. QED BY <1>2, <1>3

LEMMA ResetLevelsOf ==
  ASSUME TypeInv, LevelInv, ResetLevels \/ ResetStep
  PROVE  LevelInv'
<1> USE DEF readerVars, trackerVars
<1>1. SUFFICES ASSUME NEW s \in Span PROVE LevelOf(s)'
  BY DEF LevelInv
<1>2. LevelOf(s) /\ UNCHANGED <<pc, span>>
  BY DEF LevelInv, ResetLevels, ResetStep, ResetFails, ResetIndiv, ResetCycle
<1>3. \A q \in Reader : /\ Busy(q, s)' <=> Busy(q, s)
                        /\ MendsFails(q, s)' <=> MendsFails(q, s)
                        /\ MendsIndiv(q, s)' <=> MendsIndiv(q, s)
  BY <1>2 DEF Busy, MendsFails, MendsIndiv
<1>4. CASE ResetLevels
  <2>1. level'[s] = "normal" /\ hub = "idle" /\ hub' = "fails" /\ UNCHANGED <<fails, indiv>>
    BY <1>4 DEF ResetLevels
  <2>2. FailsMended(s)' /\ IndivMended(s)'
    BY <2>1 DEF FailsMended, IndivMended
  <2>3. ASSUME ~mixed'[s] PROVE Undisturbed(s)'
    <3>1. ~(mixed[s] \/ Operating(s))
      BY <1>4, <2>3 DEF ResetLevels
    <3>2. \A q \in Reader : ~Busy(q, s)'
      BY <1>3, <3>1 DEF Operating
    <3>3. Operating(s)' /\ Cleared(s)'
      BY <2>1 DEF Operating, Cleared
    <3>4. QED BY <3>2, <3>3 DEF Undisturbed
  <2>4. QED BY <2>2, <2>3 DEF LevelOf
<1>5. CASE ResetFails
  <2>1. fails'[s] = 0 /\ hub = "fails" /\ hub' = "indiv" /\ UNCHANGED <<level, indiv, mixed>>
    BY <1>5 DEF ResetFails
  <2>2. FailsMended(s)' /\ IndivMended(s)'
    BY <2>1 DEF FailsMended, IndivMended, FullFails
  <2>3. ASSUME ~mixed'[s] PROVE Undisturbed(s)'
    <3>1. Undisturbed(s)
      BY <1>2, <2>1, <2>3 DEF LevelOf
    <3>2. (\A q \in Reader : ~Busy(q, s)') /\ level[s] = "normal"
      BY <1>3, <2>1, <3>1 DEF Undisturbed, Cleared
    <3>3. Operating(s)' /\ Cleared(s)'
      BY <2>1, <3>2 DEF Operating, Cleared
    <3>4. QED BY <3>2, <3>3 DEF Undisturbed
  <2>4. QED BY <2>2, <2>3 DEF LevelOf
<1>6. CASE ResetIndiv
  <2>1. indiv'[s] = 0 /\ hub = "indiv" /\ hub' = "cycle" /\ UNCHANGED <<level, fails, mixed>>
    BY <1>6 DEF ResetIndiv
  <2>2. FailsMended(s)' /\ IndivMended(s)'
    BY <1>2, <1>3, <2>1 DEF LevelOf, FailsMended, IndivMended, FullFails, FullIndiv
  <2>3. ASSUME ~mixed'[s] PROVE Undisturbed(s)'
    <3>1. Undisturbed(s)
      BY <1>2, <2>1, <2>3 DEF LevelOf
    <3>2. (\A q \in Reader : ~Busy(q, s)') /\ level[s] = "normal" /\ fails[s] = 0
      BY <1>3, <2>1, <3>1 DEF Undisturbed, Cleared
    <3>3. Operating(s)' /\ Cleared(s)'
      BY <2>1, <3>2 DEF Operating, Cleared
    <3>4. QED BY <3>2, <3>3 DEF Undisturbed
  <2>4. QED BY <2>2, <2>3 DEF LevelOf
<1>7. CASE ResetCycle
  <2>1. hub = "cycle" /\ hub' = "idle" /\ UNCHANGED <<level, fails, indiv, mixed>>
    BY <1>7 DEF ResetCycle
  <2>2. FailsMended(s)' /\ IndivMended(s)'
    BY <1>2, <1>3, <2>1 DEF LevelOf, FailsMended, IndivMended, FullFails, FullIndiv
  <2>3. ASSUME ~mixed'[s] PROVE Undisturbed(s)'
    <3>1. Undisturbed(s)
      BY <1>2, <2>1, <2>3 DEF LevelOf
    <3>2. (\A q \in Reader : ~Busy(q, s)') /\ level[s] = "normal" /\ fails[s] = 0 /\ indiv[s] = 0
      BY <1>3, <2>1, <3>1 DEF Undisturbed, Cleared
    <3>3. Agree(s)' /\ Cleared(s)'
      BY <2>1, <3>2 DEF Agree, Cleared
    <3>4. QED BY <2>1, <3>2, <3>3 DEF Undisturbed
  <2>4. QED BY <2>2, <2>3 DEF LevelOf
<1>8. QED BY <1>4, <1>5, <1>6, <1>7 DEF ResetStep

LEMMA LevelInit == Init => LevelInv
BY DEF Init, LevelInv, LevelOf, FailsMended, FullFails, IndivMended, FullIndiv, Undisturbed, Busy, Agree,
       Cleared

LEMMA LevelStep == TypeInv /\ LevelInv /\ [Next]_vars => LevelInv'
<1> SUFFICES ASSUME TypeInv, LevelInv, [Next]_vars PROVE LevelInv'
  OBVIOUS
<1>1. ASSUME NEW r \in Reader, Trigger(r) \/ CancelRead(r) \/ ReaderStep(r) PROVE LevelInv'
  BY <1>1, QuietSteps, QuietLevels, BeginLevels, RecordLevels DEF ReaderStep
<1>2. CASE CalmDown \/ UNCHANGED vars
  <2>1. Quiet
    BY <1>2 DEF CalmDown, vars, trackerVars, readerVars, Quiet
  <2>2. QED BY <2>1, QuietLevels
<1>3. QED BY <1>1, <1>2, ResetLevelsOf DEF Next

LEMMA LevelInvCorrect == Spec => []LevelInv
BY LevelInit, LevelStep, TypeInvCorrect, PTL DEF Spec

\* Between operations the level of a span never hides a counter at its limit, however readers and resets mix
\* their accesses, and it agrees with both counters as long as no two operations on the span overlapped.
THEOREM LevelsCorrect == Spec => []LevelsAgree
<1>1. TypeInv /\ LevelInv => LevelsAgree
  <2> SUFFICES ASSUME TypeInv, LevelInv, NEW s \in Span, ~Operating(s)
               PROVE  /\ level[s] = "normal" => fails[s] < Threshold /\ indiv[s] < SkipAfter
                      /\ ~mixed[s] => /\ level[s] = "degraded" => fails[s] = Threshold
                                      /\ level[s] = "skipped" <=> indiv[s] = SkipAfter
    BY DEF LevelsAgree
  <2>1. LevelOf(s) /\ hub = "idle" /\ \A r \in Reader : ~MendsFails(r, s) /\ ~MendsIndiv(r, s)
    BY DEF LevelInv, Operating, Busy, MendsFails, MendsIndiv
  <2>2. ~FullFails(s) /\ ~FullIndiv(s)
    BY <2>1 DEF LevelOf, FailsMended, IndivMended
  <2>3. ~mixed[s] => Agree(s)
    BY <2>1 DEF LevelOf, Undisturbed
  <2>4. QED BY <2>2, <2>3, SpanTypes DEF FullFails, FullIndiv, Agree
<1>2. QED BY <1>1, TypeInvCorrect, LevelInvCorrect, PTL

-----------------------------------------------------------------------------
(* Recovery. *)

FullStep ==
  \A s \in Span : ~mixed'[s] =>
    /\ level[s] = "skipped" => level'[s] \in {"skipped", "normal"}
    /\ \A r \in Reader : At(r, "unindiv") /\ span[r] = s /\ ~At(r, "unindiv")' => Recovered(s)
    /\ hub = "cycle" /\ hub' = "idle" => Recovered(s)

\* An overlap is remembered.
LEMMA MixedStays ==
  ASSUME TypeInv, [Next]_vars, NEW s \in Span, ~mixed'[s]
  PROVE  ~mixed[s]
<1>1. ASSUME NEW r \in Reader, BatchOk(r) \/ BatchErr(r) \/ Individual(r) PROVE ~mixed[s]
  <2>1. mixed' = [mixed EXCEPT ![span[r]] = mixed[span[r]] \/ Operating(span[r])]
    BY <1>1 DEF BatchOk, BatchErr, Individual, BeginSuccess, BeginFailure, BeginIndividual, Begin
  <2>2. CASE s = span[r]
    <3>1. mixed'[s] <=> (mixed[s] \/ Operating(s))
      BY <2>1, <2>2 DEF TypeInv, TypeOK
    <3>2. QED BY <3>1
  <2>3. CASE s # span[r]
    BY <2>1, <2>3 DEF TypeInv, TypeOK
  <2>4. QED BY <2>2, <2>3
<1>2. CASE ResetLevels
  <2>1. mixed'[s] <=> (mixed[s] \/ Operating(s))
    BY <1>2 DEF ResetLevels
  <2>2. QED BY <2>1
<1>3. CASE ResetStep \/ CalmDown \/ UNCHANGED vars
  BY <1>3 DEF ResetStep, ResetFails, ResetIndiv, ResetCycle, CalmDown, vars
<1>4. ASSUME NEW r \in Reader, RecordStep(r) PROVE ~mixed[s]
  BY <1>4, RecordStepType DEF OnlyWrites
<1>5. ASSUME NEW r \in Reader,
             Trigger(r) \/ CancelRead(r) \/ Tick(r) \/ Leave(r) \/ Look(r) \/ ProbeLevel(r) \/ ProbeCycle(r)
               \/ Fallback(r)
      PROVE  ~mixed[s]
  BY <1>5, QuietSteps DEF Quiet
<1>6. QED BY <1>1, <1>2, <1>3, <1>4, <1>5 DEF Next, ReaderStep

LEMMA FullRecord ==
  ASSUME TypeInv, LevelInv, NEW r \in Reader, RecordStep(r), NEW s \in Span, ~mixed[s]
  PROVE  /\ level[s] = "skipped" => level'[s] \in {"skipped", "normal"}
         /\ \A q \in Reader : At(q, "unindiv") /\ span[q] = s /\ ~At(q, "unindiv")' => Recovered(s)
         /\ hub' = hub
<1>1. Undisturbed(s)
  BY DEF LevelInv, LevelOf
<1>2. hub' = hub
  BY RecordStepType DEF OnlyWrites
<1>3. level[s] = "skipped" => level'[s] \in {"skipped", "normal"}
  <2>1. CASE ClearLevel(r) \/ Skip(r)
    BY <2>1 DEF ClearLevel, Skip, TypeInv, TypeOK
  <2>2. CASE Degrade(r)
    <3>1. CASE s = span[r]
      <4>1. Busy(r, s) /\ pc[r] = "degrade"
        BY <2>2, <3>1 DEF Degrade, At, Busy
      <4>2. level[s] = "normal"
        BY <1>1, <4>1 DEF Undisturbed, Midway
      <4>3. QED BY <4>2
    <3>2. CASE s # span[r]
      BY <2>2, <3>2 DEF Degrade, TypeInv, TypeOK
    <3>3. QED BY <3>1, <3>2
  <2>3. CASE ~(ClearLevel(r) \/ Skip(r) \/ Degrade(r))
    <3>1. UNCHANGED level
      BY <2>3 DEF RecordStep, SuccessLevel, ClearFails, ClearIndiv, FailureLevel, FailureCount, TestIndividual,
                  OnlyReads, trackerVars
    <3>2. QED BY <3>1
  <2>4. QED BY <2>1, <2>2, <2>3
<1>4. ASSUME NEW q \in Reader, pc[q] = "unindiv", span[q] = s, pc'[q] # "unindiv" PROVE Recovered(s)
  <2>1. NextSpan(r) \/ (\E place \in Place : Goto(r, place) /\ UNCHANGED span)
    BY DEF RecordStep, SuccessLevel, ClearLevel, ClearFails, ClearIndiv, FailureLevel,
           FailureCount, Degrade, TestIndividual, Skip
  <2>2. q = r
    BY <1>4, <2>1, MovesAlone DEF OthersStay
  <2>3. ClearIndiv(r)
    BY <1>4, <2>2 DEF RecordStep, SuccessLevel, ClearLevel, ClearFails, FailureLevel,
                      FailureCount, Degrade, TestIndividual, Skip, At
  <2>4. level[s] = "normal" /\ fails[s] = 0
    <3>1. Busy(q, s)
      BY <1>4 DEF Busy
    <3>2. QED BY <1>1, <1>4, <3>1 DEF Undisturbed, Midway
  <2>5. QED BY <1>4, <2>2, <2>3, <2>4 DEF ClearIndiv, Recovered, TypeInv, TypeOK
<1>5. QED BY <1>2, <1>3, <1>4 DEF At

\* A skipped span comes back by a full reset only, never one level at a time (D-08), and a success or a reset
\* nobody interfered with leaves nothing of the failures behind.
THEOREM RecoveryIsFull == Spec => FullRecovery
<1>1. TypeInv /\ LevelInv /\ [Next]_vars => [FullStep]_vars
  <2> SUFFICES ASSUME TypeInv, LevelInv, [Next]_vars, NEW s \in Span, ~mixed'[s]
               PROVE  /\ level[s] = "skipped" => level'[s] \in {"skipped", "normal"}
                      /\ \A r \in Reader : At(r, "unindiv") /\ span[r] = s /\ ~At(r, "unindiv")' => Recovered(s)
                      /\ hub = "cycle" /\ hub' = "idle" => Recovered(s)
    BY DEF FullStep
  <2>1. ~mixed[s]
    BY MixedStays
  <2>2. ASSUME NEW r \in Reader, RecordStep(r)
        PROVE  /\ level[s] = "skipped" => level'[s] \in {"skipped", "normal"}
               /\ \A q \in Reader : At(q, "unindiv") /\ span[q] = s /\ ~At(q, "unindiv")' => Recovered(s)
               /\ hub = hub'
    BY <2>1, <2>2, FullRecord
  <2>3. CASE ResetLevels \/ ResetStep
    <3>1. UNCHANGED pc
      BY <2>3 DEF ResetLevels, ResetStep, ResetFails, ResetIndiv, ResetCycle, readerVars
    <3>2. level'[s] \in {level[s], "normal"}
      BY <2>3 DEF ResetLevels, ResetStep, ResetFails, ResetIndiv, ResetCycle, trackerVars
    <3>3. ASSUME hub = "cycle", hub' = "idle" PROVE Recovered(s)
      <4>1. UNCHANGED trackerVars
        BY <2>3, <3>3 DEF ResetLevels, ResetStep, ResetFails, ResetIndiv, ResetCycle
      <4>2. Cleared(s)
        BY <2>1 DEF LevelInv, LevelOf, Undisturbed
      <4>3. QED BY <3>3, <4>1, <4>2 DEF Cleared, Recovered, trackerVars
    <3>4. QED BY <3>1, <3>2, <3>3 DEF At
  <2>4. ASSUME Quiet, \A q \in Reader : pc[q] = "unindiv" => pc'[q] = "unindiv"
        PROVE  /\ level[s] = "skipped" => level'[s] \in {"skipped", "normal"}
               /\ \A r \in Reader : At(r, "unindiv") /\ span[r] = s /\ ~At(r, "unindiv")' => Recovered(s)
               /\ hub = hub'
    BY <2>4 DEF Quiet, At
  <2>5. Quiet => \A q \in Reader : pc[q] = "unindiv" => pc'[q] = "unindiv"
    BY DEF Quiet
  <2>6. ASSUME NEW r \in Reader, BatchOk(r) \/ BatchErr(r) \/ Individual(r)
        PROVE  UNCHANGED <<level, hub>> /\ \A q \in Reader : pc[q] = "unindiv" => pc'[q] = "unindiv"
    <3>1. UNCHANGED <<level, hub>> /\ pc[r] # "unindiv" /\ \E place \in Place : Goto(r, place)
      BY <2>6 DEF BatchOk, BatchErr, Individual, At, BeginSuccess, BeginFailure, BeginIndividual, trackerVars
    <3>2. QED BY <3>1 DEF Goto, TypeInv, TypeOK
  <2>7. CalmDown \/ UNCHANGED vars => Quiet
    BY DEF CalmDown, vars, trackerVars, readerVars, Quiet
  <2>8. QED BY <2>2, <2>3, <2>4, <2>5, <2>6, <2>7, QuietSteps DEF Next, ReaderStep, At
<1>2. QED BY <1>1, TypeInvCorrect, LevelInvCorrect, PTL DEF Spec, FullRecovery, FullStep

-----------------------------------------------------------------------------
(* No span is forgotten.  The argument follows the one reader of a behaviour without interruption through     *)
(* the plan: behind it every span was read or reset less than ProbeInterval cycles ago, and one that is       *)
(* skipped, at the earliest when the probing clock was last at a probe cycle.  While the hub resets the       *)
(* tracker no new read starts, so at most one cycle begins.                                                   *)

Alone ==
  /\ \A q, r \in Reader : pc[q] # "none" /\ pc[r] # "none" => q = r
  /\ \A r \in Reader : ~cancelled[r]

\* Reader r still comes to span s in this cycle.
ComesTo(r, s) ==
  \/ pc[r] \in {"check", "look", "probe"} /\ span[r] <= s
  \/ pc[r] \in Reading /\ span[r] < s

Ahead(s) == \E r \in Reader : ComesTo(r, s)

\* Cycles since the last probe cycle.
SinceProbe == IF cycle = ProbeInterval THEN 0 ELSE cycle

Gap(s) ==
  /\ Ahead(s) => /\ unread[s] <= ProbeInterval
                 /\ level[s] = "skipped" => unread[s] <= cycle
  /\ ~Ahead(s) => /\ unread[s] < ProbeInterval
                  /\ level[s] = "skipped" => unread[s] <= SinceProbe
  /\ \A r \in Reader : pc[r] \in Reading /\ span[r] = s => unread[s] = 0

\* What a reader found at the start of its span still holds, unless the span was reset since.
SeenHolds ==
  \A r \in Reader : pc[r] \in {"look", "probe"} => level[span[r]] = seen[r] \/ unread[span[r]] = 0

DuringReset ==
  \A s \in Span : unread[s] <= 1 /\ ((\E r \in Reader : pc[r] = "tick") => unread[s] = 0)

GapInv ==
  ~interrupted => /\ Alone
                  /\ hub = "idle" => SeenHolds /\ \A s \in Span : Gap(s)
                  /\ hub # "idle" => DuringReset

\* Only the reader that takes the step counts.
LEMMA AheadOfOne ==
  ASSUME NEW r \in Reader, \A q \in Reader : q # r => pc[q] = "none", NEW s \in Span
  PROVE  Ahead(s) <=> ComesTo(r, s)
BY DEF Ahead, ComesTo

LEMMA AheadOfOneNext ==
  ASSUME NEW r \in Reader, \A q \in Reader : q # r => pc'[q] = "none", NEW s \in Span
  PROVE  Ahead(s)' <=> ComesTo(r, s)'
BY DEF Ahead, ComesTo

\* The steps of a reader as far as the cycles since its reads go: it begins a cycle, leaves, looks at a span,
\* passes it by, reads it, or is somewhere in reading it.
ReaderMove(r) ==
  \/ Tick(r)
  \/ Leave(r)
  \/ /\ pc[r] \in {"check", "look", "probe"} /\ pc'[r] \in {"look", "probe"} /\ span' = span
     /\ pc[r] # "check" => UNCHANGED seen
     /\ pc[r] = "check" => seen'[r] = level[span[r]]
     /\ UNCHANGED <<unread, level, cycle>>
  \/ /\ pc[r] \in {"look", "probe"} /\ pc'[r] = "check" /\ span'[r] = span[r] + 1
     /\ seen[r] = "skipped" /\ (level[span[r]] = "normal" \/ cycle # ProbeInterval)
     /\ UNCHANGED <<unread, level, cycle>>
  \/ /\ pc[r] \in {"check", "look", "probe"} /\ pc'[r] \in Reading /\ span' = span
     /\ unread' = [unread EXCEPT ![span[r]] = 0]
     /\ UNCHANGED <<level, cycle>>
  \/ /\ pc[r] \in Reading
     /\ (pc'[r] \in Reading /\ span' = span) \/ (pc'[r] = "check" /\ span'[r] = span[r] + 1)
     /\ \A s \in Span : s # span[r] => level'[s] = level[s]
     /\ UNCHANGED <<unread, cycle>>

\* Some reader is reading: it is at a span of the plan.
LEMMA AtItsSpan ==
  ASSUME TypeInv, NEW r \in Reader, ReaderStep(r), pc[r] \notin {"tick", "none"}, ~Leave(r)
  PROVE  span[r] \in Span
<1>1. CASE Look(r)
  BY <1>1 DEF Look, TypeInv, TypeOK, Span
<1>2. CASE ~Look(r)
  <2>1. pc[r] \in AtASpan
    BY <1>2 DEF ReaderStep, Tick, ProbeLevel, ProbeCycle, BatchOk, BatchErr, Fallback, Individual, RecordStep,
                SuccessLevel, ClearLevel, ClearFails, ClearIndiv, FailureLevel, FailureCount, Degrade,
                TestIndividual, Skip, At
  <2>2. QED BY <2>1 DEF TypeInv, AtSpan
<1>3. QED BY <1>1, <1>2

LEMMA ReaderMoves ==
  ASSUME TypeInv, NEW r \in Reader, ReaderStep(r)
  PROVE  ReaderMove(r)
<1>1. CASE Tick(r) \/ Leave(r)
  BY <1>1 DEF ReaderMove
<1>2. CASE Look(r)
  <2>1. pc[r] = "check" /\ UNCHANGED <<level, cycle, span>>
    BY <1>2 DEF Look, At, trackerVars
  <2>2. CASE level[span[r]] = "normal"
    <3>1. pc'[r] = "batch" /\ unread' = [unread EXCEPT ![span[r]] = 0]
      BY <1>2, <2>2 DEF Look, Goto, Attempted, TypeInv, TypeOK
    <3>2. QED BY <2>1, <3>1 DEF ReaderMove
  <2>3. CASE level[span[r]] # "normal"
    <3>1. pc'[r] = "look" /\ seen'[r] = level[span[r]] /\ UNCHANGED unread
      BY <1>2, <2>3 DEF Look, Goto, TypeInv, TypeOK
    <3>2. QED BY <2>1, <3>1 DEF ReaderMove
  <2>4. QED BY <2>2, <2>3
<1>3. CASE ProbeLevel(r) \/ ProbeCycle(r)
  <2>1. pc[r] \in {"look", "probe"} /\ UNCHANGED <<level, cycle>>
    BY <1>3 DEF ProbeLevel, ProbeCycle, At, trackerVars
  <2>2. CASE /\ pc[r] = "look" /\ Goto(r, "probe") /\ UNCHANGED <<span, seen, unread>>
    <3>1. pc'[r] = "probe"
      BY <2>2 DEF Goto, TypeInv, TypeOK
    <3>2. QED BY <2>1, <2>2, <3>1 DEF ReaderMove
  <2>3. CASE Goto(r, "batch") /\ Attempted(span[r]) /\ UNCHANGED span
    <3>1. pc'[r] = "batch" /\ unread' = [unread EXCEPT ![span[r]] = 0]
      BY <2>3 DEF Goto, Attempted, TypeInv, TypeOK
    <3>2. QED BY <2>1, <2>3, <3>1 DEF ReaderMove
  <2>4. CASE WithoutProbe(r) /\ (level[span[r]] = "normal" \/ cycle # ProbeInterval)
    <3>1. CASE seen[r] = "skipped" /\ NextSpan(r) /\ UNCHANGED unread
      <4>1. pc'[r] = "check" /\ span'[r] = span[r] + 1
        BY <3>1 DEF NextSpan, Goto, TypeInv, TypeOK
      <4>2. QED BY <2>1, <2>4, <3>1, <4>1 DEF ReaderMove
    <3>2. CASE Goto(r, "individual") /\ Attempted(span[r]) /\ UNCHANGED span
      <4>1. pc'[r] = "individual" /\ unread' = [unread EXCEPT ![span[r]] = 0]
        BY <3>2 DEF Goto, Attempted, TypeInv, TypeOK
      <4>2. QED BY <2>1, <3>2, <4>1 DEF ReaderMove
    <3>3. QED BY <2>4, <3>1, <3>2 DEF WithoutProbe
  <2>5. QED BY <1>3, <2>2, <2>3, <2>4 DEF ProbeLevel, ProbeCycle, At
<1>4. CASE BatchOk(r) \/ BatchErr(r) \/ Individual(r)
  <2>1. pc[r] \in Reading /\ UNCHANGED <<level, cycle, span, unread>>
    BY <1>4 DEF BatchOk, BatchErr, Individual, At, BeginSuccess, BeginFailure, BeginIndividual, trackerVars
  <2>2. \E place \in Reading : Goto(r, place)
    BY <1>4 DEF BatchOk, BatchErr, Individual, BeginSuccess, BeginFailure, BeginIndividual
  <2>3. pc'[r] \in Reading
    BY <2>2 DEF Goto, TypeInv, TypeOK
  <2>4. QED BY <2>1, <2>3 DEF ReaderMove
<1>5. CASE Fallback(r)
  <2>1. /\ pc[r] \in Reading /\ pc'[r] = "check" /\ span'[r] = span[r] + 1
        /\ UNCHANGED <<level, cycle, unread>>
    BY <1>5 DEF Fallback, At, NextSpan, Goto, trackerVars, TypeInv, TypeOK
  <2>2. QED BY <2>1 DEF ReaderMove
<1>6. CASE RecordStep(r)
  <2>1. OnlyWrites
    BY <1>6, RecordStepType
  <2>2. pc[r] \in Reading /\ UNCHANGED <<cycle, unread>>
    BY <1>6, <2>1 DEF OnlyWrites, RecordStep, SuccessLevel, ClearLevel, ClearFails, ClearIndiv, FailureLevel,
                      FailureCount, Degrade, TestIndividual, Skip, At
  <2>3. NextSpan(r) \/ (\E place \in Reading : Goto(r, place) /\ UNCHANGED span)
    BY <1>6 DEF RecordStep, SuccessLevel, ClearLevel, ClearFails, ClearIndiv, FailureLevel,
                FailureCount, Degrade, TestIndividual, Skip
  <2>4. (pc'[r] \in Reading /\ span' = span) \/ (pc'[r] = "check" /\ span'[r] = span[r] + 1)
    BY <2>3 DEF NextSpan, Goto, TypeInv, TypeOK
  <2>5. \A s \in Span : s # span[r] => level'[s] = level[s]
    BY <1>6 DEF RecordStep, SuccessLevel, ClearLevel, ClearFails, ClearIndiv, FailureLevel, FailureCount,
                Degrade, TestIndividual, Skip, OnlyReads, trackerVars, TypeInv, TypeOK
  <2>6. QED BY <2>2, <2>4, <2>5 DEF ReaderMove
<1>7. QED BY <1>1, <1>2, <1>3, <1>4, <1>5, <1>6 DEF ReaderStep

\* A reader that takes a step is alive, and it is the only one.
LEMMA ReaderAlone ==
  ASSUME TypeInv, Alone, NEW r \in Reader, ReaderStep(r)
  PROVE  /\ pc[r] # "none"
         /\ \A q \in Reader : q # r => pc[q] = "none" /\ pc'[q] = "none"
         /\ Alone'
         /\ UNCHANGED <<hub, interrupted>>
<1>1. pc[r] # "none"
  BY DEF ReaderStep, Tick, Leave, Look, ProbeLevel, ProbeCycle, BatchOk, BatchErr, Fallback, Individual,
         RecordStep, SuccessLevel, ClearLevel, ClearFails, ClearIndiv, FailureLevel, FailureCount, Degrade,
         TestIndividual, Skip, At
<1>2. \E place \in Place : Goto(r, place)
  BY DEF ReaderStep, Tick, Leave, Look, ProbeLevel, ProbeCycle, BatchOk, BatchErr, Fallback, Individual,
         RecordStep, SuccessLevel, ClearLevel, ClearFails, ClearIndiv, FailureLevel, FailureCount, Degrade,
         TestIndividual, Skip, NextSpan, WithoutProbe, BeginSuccess, BeginFailure, BeginIndividual
<1>3. \A q \in Reader : q # r => pc[q] = "none" /\ pc'[q] = "none"
  BY <1>1, <1>2 DEF Alone, Goto, TypeInv, TypeOK
<1>4. UNCHANGED <<hub, interrupted>>
  BY RecordStepType DEF ReaderStep, Tick, Leave, Look, ProbeLevel, ProbeCycle, BatchOk, BatchErr, Fallback,
                        Individual, OnlyWrites
<1>5. cancelled' = cancelled \/ cancelled' = [cancelled EXCEPT ![r] = FALSE]
  BY RecordStepType DEF ReaderStep, Tick, Leave, Look, ProbeLevel, ProbeCycle, BatchOk, BatchErr, Fallback,
                        Individual, OnlyWrites
<1>6. Alone'
  BY <1>3, <1>5 DEF Alone, TypeInv, TypeOK
<1>7. QED BY <1>1, <1>3, <1>4, <1>6

LEMMA ReaderKeepsGap ==
  ASSUME TypeInv, TypeInv', NEW r \in Reader, ReaderStep(r), ~interrupted, Alone, hub = "idle", SeenHolds,
         \A s \in Span : Gap(s), NEW s \in Span
  PROVE  Gap(s)'
<1>1. \A q \in Reader : q # r => pc[q] = "none" /\ pc'[q] = "none"
  BY ReaderAlone
<1>2. (Ahead(s) <=> ComesTo(r, s)) /\ (Ahead(s)' <=> ComesTo(r, s)')
  BY <1>1, AheadOfOne, AheadOfOneNext
<1>3. Gap(s) /\ unread[s] \in 0..ProbeInterval + 1 /\ cycle \in 0..ProbeInterval
             /\ span[r] \in 1..SpanCount + 1
  BY DEF TypeInv, TypeOK
<1>4. SUFFICES /\ ComesTo(r, s)' => /\ unread'[s] <= ProbeInterval
                                    /\ level'[s] = "skipped" => unread'[s] <= cycle'
               /\ ~ComesTo(r, s)' => /\ unread'[s] < ProbeInterval
                                     /\ level'[s] = "skipped" => unread'[s] <= SinceProbe'
               /\ pc'[r] \in Reading /\ span'[r] = s => unread'[s] = 0
  <2>1. \A q \in Reader : pc'[q] \in Reading => q = r
    BY <1>1
  <2>2. QED BY <1>2, <2>1 DEF Gap
<1>5. /\ ComesTo(r, s) => /\ unread[s] <= ProbeInterval
                          /\ level[s] = "skipped" => unread[s] <= cycle
      /\ ~ComesTo(r, s) => /\ unread[s] < ProbeInterval
                           /\ level[s] = "skipped" => unread[s] <= SinceProbe
      /\ pc[r] \in Reading /\ span[r] = s => unread[s] = 0
  BY <1>2, <1>3 DEF Gap
<1>6. CASE Tick(r)
  <2>1. ~ComesTo(r, s)
    BY <1>6 DEF Tick, At, ComesTo
  <2>2. pc'[r] = "check" /\ span'[r] = 1
    BY <1>6 DEF Tick, Goto, TypeInv, TypeOK
  <2>3. ComesTo(r, s)'
    BY <2>2 DEF ComesTo, Span
  <2>4. unread[s] < ProbeInterval /\ (level[s] = "skipped" => unread[s] <= SinceProbe)
    BY <1>5, <2>1
  <2>5. unread'[s] = unread[s] + 1 /\ cycle' = SinceProbe + 1 /\ level' = level
    BY <1>3, <1>6, <2>4 DEF Tick, Upto, SinceProbe, trackerVars
  <2>6. QED BY <1>3, <2>2, <2>3, <2>4, <2>5 DEF SinceProbe
<1>7. CASE Leave(r)
  <2>1. ~cancelled[r]
    BY DEF Alone
  <2>2. ~ComesTo(r, s)
    BY <1>3, <1>7, <2>1 DEF Leave, At, ComesTo, Span
  <2>3. pc'[r] = "none"
    BY <1>7 DEF Leave, Goto, TypeInv, TypeOK
  <2>4. UNCHANGED <<unread, level, cycle>>
    BY <1>7 DEF Leave, trackerVars
  <2>5. QED BY <1>5, <2>2, <2>3, <2>4 DEF ComesTo, SinceProbe
<1>8. CASE /\ pc[r] \in {"check", "look", "probe"} /\ pc'[r] \in {"look", "probe"} /\ span' = span
           /\ UNCHANGED <<unread, level, cycle>>
  <2>1. ComesTo(r, s)' <=> ComesTo(r, s)
    BY <1>8 DEF ComesTo
  <2>2. QED BY <1>5, <1>8, <2>1 DEF SinceProbe
<1>9. CASE /\ pc[r] \in {"look", "probe"} /\ pc'[r] = "check" /\ span'[r] = span[r] + 1
           /\ seen[r] = "skipped" /\ (level[span[r]] = "normal" \/ cycle # ProbeInterval)
           /\ UNCHANGED <<unread, level, cycle>>
  <2>1. CASE s = span[r]
    <3>1. ComesTo(r, s) /\ ~ComesTo(r, s)'
      BY <1>3, <1>9, <2>1 DEF ComesTo
    <3>2. level[s] = "skipped" \/ unread[s] = 0
      BY <1>9, <2>1 DEF SeenHolds
    <3>3. CASE unread[s] = 0
      BY <1>3, <1>9, <3>1, <3>3 DEF SinceProbe
    <3>4. CASE level[s] = "skipped" /\ cycle # ProbeInterval
      BY <1>3, <1>5, <1>9, <3>1, <3>4 DEF SinceProbe
    <3>5. QED BY <1>9, <2>1, <3>2, <3>3, <3>4
  <2>2. CASE s # span[r]
    <3>1. ComesTo(r, s)' <=> ComesTo(r, s)
      BY <1>3, <1>9, <2>2 DEF ComesTo, Span
    <3>2. QED BY <1>5, <1>9, <3>1 DEF SinceProbe
  <2>3. QED BY <2>1, <2>2
<1>10. CASE /\ pc[r] \in {"check", "look", "probe"} /\ pc'[r] \in Reading /\ span' = span
            /\ unread' = [unread EXCEPT ![span[r]] = 0]
            /\ UNCHANGED <<level, cycle>>
  <2>1. CASE s = span[r]
    <3>1. unread'[s] = 0
      BY <1>10, <2>1 DEF TypeInv, TypeOK
    <3>2. QED BY <1>3, <1>10, <3>1 DEF SinceProbe
  <2>2. CASE s # span[r]
    <3>1. unread'[s] = unread[s]
      BY <1>10, <2>2 DEF TypeInv, TypeOK
    <3>2. ComesTo(r, s)' <=> ComesTo(r, s)
      BY <1>3, <1>10, <2>2 DEF ComesTo, Span
    <3>3. QED BY <1>5, <1>10, <2>2, <3>1, <3>2 DEF SinceProbe
  <2>3. QED BY <2>1, <2>2
<1>11. CASE /\ pc[r] \in Reading
            /\ (pc'[r] \in Reading /\ span' = span) \/ (pc'[r] = "check" /\ span'[r] = span[r] + 1)
            /\ \A u \in Span : u # span[r] => level'[u] = level[u]
            /\ UNCHANGED <<unread, cycle>>
  <2>1. ComesTo(r, s)' <=> ComesTo(r, s)
    BY <1>3, <1>11 DEF ComesTo, Span
  <2>2. CASE s = span[r]
    BY <1>3, <1>5, <1>11, <2>2 DEF SinceProbe
  <2>3. CASE s # span[r]
    BY <1>3, <1>5, <1>11, <2>1, <2>3 DEF SinceProbe
  <2>4. QED BY <2>2, <2>3
<1>12. QED BY <1>6, <1>7, <1>8, <1>9, <1>10, <1>11, ReaderMoves DEF ReaderMove

LEMMA ReaderKeepsSeen ==
  ASSUME TypeInv, NEW r \in Reader, ReaderStep(r), Alone, SeenHolds
  PROVE  SeenHolds'
<1>1. \A q \in Reader : q # r => pc'[q] = "none"
  BY ReaderAlone
<1>2. SUFFICES ASSUME pc'[r] \in {"look", "probe"}
               PROVE  level'[span'[r]] = seen'[r] \/ unread'[span'[r]] = 0
  BY <1>1 DEF SeenHolds
<1>3. ~Tick(r) /\ ~Leave(r)
  BY <1>2 DEF Tick, Leave, Goto, TypeInv, TypeOK
<1>4. /\ pc[r] \in {"check", "look", "probe"} /\ span' = span
      /\ pc[r] # "check" => UNCHANGED seen
      /\ pc[r] = "check" => seen'[r] = level[span[r]]
      /\ UNCHANGED <<unread, level, cycle>>
  BY <1>2, <1>3, ReaderMoves DEF ReaderMove
<1>5. CASE pc[r] = "check"
  BY <1>4, <1>5
<1>6. CASE pc[r] \in {"look", "probe"}
  <2>1. level[span[r]] = seen[r] \/ unread[span[r]] = 0
    BY <1>6 DEF SeenHolds
  <2>2. QED BY <1>4, <1>6, <2>1
<1>7. QED BY <1>4, <1>5, <1>6

LEMMA ReaderDuringReset ==
  ASSUME TypeInv, NEW r \in Reader, ReaderStep(r), ~interrupted, Alone, DuringReset
  PROVE  DuringReset'
<1>1. \A q \in Reader : q # r => pc'[q] = "none"
  BY ReaderAlone
<1>2. CASE Tick(r)
  <2>1. \A s \in Span : unread[s] = 0 /\ unread'[s] = 1
    BY <1>2 DEF Tick, At, DuringReset, Upto
  <2>2. pc'[r] = "check"
    BY <1>2 DEF Tick, Goto, TypeInv, TypeOK
  <2>3. QED BY <1>1, <2>1, <2>2 DEF DuringReset
<1>3. CASE ~Tick(r)
  <2>1. pc'[r] # "tick"
    BY <1>3, ReaderMoves DEF ReaderMove, Leave, Goto, TypeInv, TypeOK
  <2>2. unread' = unread \/ unread' = [unread EXCEPT ![span[r]] = 0]
    BY <1>3, ReaderMoves DEF ReaderMove, Leave
  <2>3. \A s \in Span : unread'[s] <= 1
    BY <2>2 DEF DuringReset, TypeInv, TypeOK
  <2>4. QED BY <1>1, <2>1, <2>3 DEF DuringReset
<1>4. QED BY <1>2, <1>3

LEMMA GapInit == Init => GapInv
BY DEF Init, GapInv, Alone, Gap, Ahead, ComesTo, SinceProbe, SeenHolds

LEMMA InterruptedStays ==
  ASSUME TypeInv, [Next]_vars, ~interrupted'
  PROVE  ~interrupted
<1>1. ASSUME NEW r \in Reader, ReaderStep(r) PROVE interrupted' = interrupted
  BY <1>1, RecordStepType DEF ReaderStep, Tick, Leave, Look, ProbeLevel, ProbeCycle, BatchOk, BatchErr, Fallback,
                              Individual, OnlyWrites
<1>2. QED BY <1>1 DEF Next, Trigger, CancelRead, Interrupted, ResetLevels, ResetStep, ResetFails, ResetIndiv,
                      ResetCycle, CalmDown, vars

LEMMA GapStep == TypeInv /\ TypeInv' /\ GapInv /\ [Next]_vars => GapInv'
<1> SUFFICES ASSUME TypeInv, TypeInv', GapInv, [Next]_vars, ~interrupted' PROVE GapInv'
  BY DEF GapInv
<1> USE DEF trackerVars, readerVars
<1>1. ~interrupted
  BY InterruptedStays
<1>2. /\ Alone
      /\ hub = "idle" => SeenHolds /\ \A s \in Span : Gap(s)
      /\ hub # "idle" => DuringReset
  BY <1>1 DEF GapInv
<1>3. ASSUME NEW r \in Reader, Trigger(r) PROVE GapInv'
  <2>1. (\A q \in Reader : pc[q] = "none") /\ UNCHANGED unread
    BY <1>3 DEF Trigger, Interrupted
  <2>2. pc' = [pc EXCEPT ![r] = "tick"] /\ \A q \in Reader : ~cancelled'[q]
    BY <1>2, <1>3, <2>1 DEF Trigger, Goto, Alone
  <2>3. \A q \in Reader : pc'[q] = IF q = r THEN "tick" ELSE "none"
    BY <2>1, <2>2 DEF TypeInv, TypeOK
  <2>4. \A s \in Span : ~Ahead(s) /\ ~Ahead(s)'
    BY <2>1, <2>3 DEF Ahead, ComesTo
  <2>5. UNCHANGED <<level, cycle, hub>> /\ hub = "idle"
    BY <1>3 DEF Trigger
  <2>6. \A q \in Reader : pc'[q] \notin AtASpan
    BY <2>3
  <2>7. \A s \in Span : Gap(s)'
    BY <1>2, <2>1, <2>4, <2>5, <2>6 DEF Gap, SinceProbe
  <2>8. Alone' /\ SeenHolds'
    BY <2>2, <2>3, <2>6 DEF Alone, SeenHolds
  <2>9. QED BY <2>5, <2>7, <2>8 DEF GapInv
<1>4. ASSUME NEW r \in Reader, ReaderStep(r) PROVE GapInv'
  <2>1. Alone' /\ hub' = hub
    BY <1>2, <1>4, ReaderAlone
  <2>2. CASE hub = "idle"
    BY <1>1, <1>2, <1>4, <2>1, <2>2, ReaderKeepsGap, ReaderKeepsSeen DEF GapInv
  <2>3. CASE hub # "idle"
    BY <1>1, <1>2, <1>4, <2>1, <2>3, ReaderDuringReset DEF GapInv
  <2>4. QED BY <2>2, <2>3
<1>5. ASSUME NEW r \in Reader, CancelRead(r) PROVE GapInv'
  BY <1>5 DEF CancelRead, Interrupted
<1>6. CASE ResetLevels
  <2>1. hub' # "idle" /\ UNCHANGED <<pc, cancelled>> /\ \A s \in Span : unread'[s] = 0
    BY <1>6 DEF ResetLevels
  <2>2. Alone' /\ DuringReset'
    BY <1>2, <2>1 DEF Alone, DuringReset
  <2>3. QED BY <2>1, <2>2 DEF GapInv
<1>7. CASE ResetFails \/ ResetIndiv
  <2>1. hub # "idle" /\ hub' # "idle" /\ UNCHANGED <<pc, cancelled, unread>>
    BY <1>7 DEF ResetFails, ResetIndiv
  <2>2. Alone' /\ DuringReset'
    BY <1>2, <2>1 DEF Alone, DuringReset
  <2>3. QED BY <2>1, <2>2 DEF GapInv
<1>8. CASE ResetCycle
  <2>1. hub' = "idle" /\ UNCHANGED <<pc, cancelled, span>> /\ (\A s \in Span : unread'[s] = 0) /\ cycle' = 0
    BY <1>8 DEF ResetCycle
  <2>2. Alone'
    BY <1>2, <2>1 DEF Alone
  <2>3. \A s \in Span : Gap(s)'
    BY <2>1 DEF Gap, SinceProbe
  <2>4. SeenHolds'
    BY <2>1 DEF SeenHolds, TypeInv, AtSpan
  <2>5. QED BY <2>1, <2>2, <2>3, <2>4 DEF GapInv
<1>9. CASE CalmDown \/ UNCHANGED vars
  <2>1. UNCHANGED <<trackerVars, cycle, readerVars, hub, unread>>
    BY <1>9 DEF CalmDown, vars
  <2>2. QED BY <1>2, <2>1 DEF GapInv, Alone, Gap, Ahead, ComesTo, SinceProbe, SeenHolds, DuringReset
<1>10. QED BY <1>3, <1>4, <1>5, <1>6, <1>7, <1>8, <1>9 DEF Next, ResetStep

\* Without cancelled reads every span, however degraded, is read at least every ProbeInterval cycles after it
\* was last read or reset (D-07).
THEOREM NothingForgotten == Spec => []NoSpanForgotten
<1>1. TypeInv /\ GapInv => NoSpanForgotten
  <2> SUFFICES ASSUME TypeInv, GapInv, ~interrupted, NEW s \in Span PROVE unread[s] <= ProbeInterval
    BY DEF NoSpanForgotten
  <2>1. unread[s] \in 0..ProbeInterval + 1
    BY DEF TypeInv, TypeOK
  <2>2. CASE hub = "idle"
    BY <2>1, <2>2 DEF GapInv, Gap
  <2>3. CASE hub # "idle"
    BY <2>1, <2>3 DEF GapInv, DuringReset
  <2>4. QED BY <2>2, <2>3
<1>2. QED BY <1>1, GapInit, GapStep, TypeInvCorrect, PTL DEF Spec
=============================================================================
