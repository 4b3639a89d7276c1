------------------------- MODULE BatteryReadsProofs -------------------------
(***************************************************************************)
(* Proofs about BatteryReads for every number of readers, every set of     *)
(* words the inverter may hold and every size of the hub's channels.       *)
(***************************************************************************)
EXTENDS BatteryReads, TLAPS

Place == {"none", "detect", "rebuild", "check", "read", "publish", "complete", "exit", "leave"}
Kind  == {"value", "section_complete"}

\* The types, and that a reader asks for a rebuild only to a count it believes.
HubType ==
  /\ subscribed \in BOOLEAN
  /\ connected \in BOOLEAN
  /\ reading \in BOOLEAN
  /\ plan \in Counts
  /\ readCancel \in Reader \cup {Nothing}

FuncsType   == funcs \in Seq(Counts) /\ Len(funcs) <= FuncsCap
ResultsType == results \in Seq(Kind) /\ Len(results) <= ResultCap

ReaderType ==
  /\ pc \in [Reader -> Place]
  /\ found \in [Reader -> Counts \cup {0}]
  /\ with \in [Reader -> Counts \cup {0}]
  /\ cancelled \in [Reader -> BOOLEAN]
  /\ reset \in [Reader -> BOOLEAN]

OutsideType == word \in Words /\ connects \in 0..MaxConnects

RebuildsToACount == \A r \in Reader : pc[r] = "rebuild" => found[r] \in Counts

TypeInv == HubType /\ FuncsType /\ ResultsType /\ ReaderType /\ OutsideType /\ RebuildsToACount

LEMMA TypeInvGives == TypeInv => TypeOK
BY DEF TypeInv, TypeOK, HubType, FuncsType, ResultsType, ReaderType, OutsideType, Place, Kind

\* A count that a reader believes is one of the counts.
LEMMA BelievedIsCount ==
  ASSUME NEW n \in Words \cup {0}
  PROVE  /\ Plausible(n) => n \in Counts /\ n # 0
         /\ (IF Plausible(n) THEN n ELSE 0) \in Counts \cup {0}
BY DEF Counts, Plausible, MaxChannels, Default

-----------------------------------------------------------------------------
(* Type correctness. *)

LEMMA TriggerType ==
  ASSUME ReaderType, RebuildsToACount, Trigger
  PROVE  readCancel' \in Reader \cup {Nothing} /\ reading' \in BOOLEAN /\ ReaderType' /\ RebuildsToACount'
<1>1. PICK r \in Reader : pc[r] = "none" /\ cancelled' = Cancelled /\ readCancel' = r /\ reading' = TRUE
                          /\ Goto(r, "detect") /\ UNCHANGED <<found, with, reset>>
  BY DEF Trigger
<1>2. pc' \in [Reader -> Place] /\ (\A q \in Reader : pc'[q] = IF q = r THEN "detect" ELSE pc[q])
  BY <1>1 DEF ReaderType, Goto, Place
<1>3. cancelled' \in [Reader -> BOOLEAN]
  BY <1>1 DEF Cancelled
<1>4. ReaderType'
  BY <1>1, <1>2, <1>3 DEF ReaderType
<1>5. RebuildsToACount'
  BY <1>1, <1>2 DEF RebuildsToACount
<1>6. QED BY <1>1, <1>4, <1>5

LEMMA CancelReadType ==
  ASSUME ReaderType, RebuildsToACount, CancelRead
  PROVE  readCancel' \in Reader \cup {Nothing} /\ reading' = reading /\ ReaderType' /\ RebuildsToACount'
<1>1. UNCHANGED <<pc, found, with, reset, reading>> /\ readCancel' = Nothing
  BY DEF CancelRead, readerVars
<1>2. cancelled' \in [Reader -> BOOLEAN]
  BY DEF CancelRead, Cancelled
<1>3. QED BY <1>1, <1>2 DEF ReaderType, RebuildsToACount

LEMMA NoChangeType ==
  ASSUME HubType, ReaderType, RebuildsToACount, NoChange
  PROVE  readCancel' \in Reader \cup {Nothing} /\ reading' \in BOOLEAN /\ ReaderType' /\ RebuildsToACount'
BY DEF NoChange, readerVars, HubType, ReaderType, RebuildsToACount

\* What a reader sends fits and has its type.
LEMMA SendType ==
  ASSUME ResultsType, NEW k \in Kind, Len(results) < ResultCap, results' = Append(results, k)
  PROVE  ResultsType'
BY SizesAssumption DEF SizesAssumption, ResultsType

LEMMA DetectType ==
  ASSUME TypeInv, NEW r \in Reader, Detect(r)
  PROVE  ReaderType' /\ RebuildsToACount'
<1>1. PICK n \in {word, 0} :
        /\ found' = [found EXCEPT ![r] = IF Plausible(n) THEN n ELSE 0]
        /\ Goto(r, IF Plausible(n) /\ n # plan THEN "rebuild" ELSE "check")
  BY DEF Detect
<1>2. n \in Words \cup {0}
  BY DEF TypeInv, OutsideType
<1>3. found' \in [Reader -> Counts \cup {0}]
  BY <1>1, <1>2, BelievedIsCount DEF TypeInv, ReaderType
<1>4. pc' \in [Reader -> Place]
  BY <1>1 DEF TypeInv, ReaderType, Goto, Place
<1>5. ReaderType'
  BY <1>3, <1>4 DEF Detect, TypeInv, ReaderType
<1>6. ASSUME NEW q \in Reader, pc'[q] = "rebuild" PROVE found'[q] \in Counts
  <2>1. CASE q # r
    <3>1. pc'[q] = pc[q] /\ found'[q] = found[q]
      BY <1>1, <2>1 DEF Goto, TypeInv, ReaderType
    <3>2. QED BY <1>6, <3>1 DEF TypeInv, RebuildsToACount
  <2>2. CASE q = r
    <3>1. Plausible(n) /\ found'[r] = n
      BY <1>1, <1>6, <2>2 DEF Goto, TypeInv, ReaderType
    <3>2. QED BY <1>2, <2>2, <3>1, BelievedIsCount
  <2>3. QED BY <2>1, <2>2
<1>7. QED BY <1>5, <1>6 DEF RebuildsToACount

\* A step that only moves the reader, to a place where it asks for no rebuild.
LEMMA MoveType ==
  ASSUME ReaderType, RebuildsToACount, NEW r \in Reader, NEW p \in Place \ {"rebuild"}, Goto(r, p),
         UNCHANGED <<found, cancelled, reset>>, with' \in [Reader -> Counts \cup {0}]
  PROVE  ReaderType' /\ RebuildsToACount'
BY DEF ReaderType, RebuildsToACount, Goto

LEMMA ReaderStepType ==
  ASSUME TypeInv, NEW r \in Reader, ReaderStep(r)
  PROVE  TypeInv'
<1>1. HubType /\ FuncsType /\ ResultsType /\ ReaderType /\ OutsideType /\ RebuildsToACount
  BY DEF TypeInv
<1>2. CASE Detect(r)
  <2>1. UNCHANGED <<hubVars, readCancel, reading, funcs, results, outside>>
    BY <1>2 DEF Detect
  <2>2. HubType' /\ FuncsType' /\ ResultsType' /\ OutsideType'
    BY <1>1, <2>1 DEF HubType, FuncsType, ResultsType, OutsideType, hubVars, outside
  <2>3. QED BY <1>2, <2>2, DetectType DEF TypeInv
<1>3. CASE SendRebuild(r)
  <2>1. UNCHANGED <<hubVars, readCancel, reading, results, found, with, cancelled, outside, reset>>
    BY <1>3 DEF SendRebuild
  <2>2. HubType' /\ ResultsType' /\ OutsideType'
    BY <1>1, <2>1 DEF HubType, ResultsType, OutsideType, hubVars, outside
  <2>3. FuncsType'
    <3>1. CASE Len(funcs) < FuncsCap /\ funcs' = Append(funcs, found[r])
      <4>1. found[r] \in Counts
        BY <1>1, <1>3 DEF SendRebuild, RebuildsToACount
      <4>2. funcs \in Seq(Counts)
        BY <1>1 DEF FuncsType
      <4>3. QED BY <3>1, <4>1, <4>2, SizesAssumption DEF SizesAssumption, FuncsType
    <3>2. CASE UNCHANGED funcs
      BY <1>1, <3>2 DEF FuncsType
    <3>3. QED BY <1>3, <3>1, <3>2 DEF SendRebuild
  <2>4. \E p \in Place \ {"rebuild"} : Goto(r, p)
    BY <1>3 DEF SendRebuild, Place
  <2>5. ReaderType' /\ RebuildsToACount'
    <3>1. with' \in [Reader -> Counts \cup {0}]
      BY <1>1, <2>1 DEF ReaderType
    <3>2. QED BY <1>1, <2>1, <2>4, <3>1, MoveType
  <2>6. QED BY <2>2, <2>3, <2>5 DEF TypeInv
<1>4. CASE Start(r)
  <2>1. UNCHANGED <<hubVars, readCancel, reading, funcs, results, found, cancelled, outside, reset>>
    BY <1>4 DEF Start
  <2>2. HubType' /\ FuncsType' /\ ResultsType' /\ OutsideType'
    BY <1>1, <2>1 DEF HubType, FuncsType, ResultsType, OutsideType, hubVars, outside
  <2>3. with' \in [Reader -> Counts \cup {0}]
    <3>1. CASE with' = [with EXCEPT ![r] = plan]
      BY <1>1, <3>1 DEF ReaderType, HubType
    <3>2. CASE UNCHANGED with
      BY <1>1, <3>2 DEF ReaderType
    <3>3. QED BY <1>4, <3>1, <3>2 DEF Start
  <2>4. \E p \in Place \ {"rebuild"} : Goto(r, p)
    BY <1>4 DEF Start, Place
  <2>5. QED BY <1>1, <2>1, <2>2, <2>3, <2>4, MoveType DEF TypeInv
<1>5. CASE Read(r)
  <2>1. UNCHANGED <<hubVars, readCancel, reading, funcs, results, found, with, cancelled, outside, reset>>
    BY <1>5 DEF Read
  <2>2. HubType' /\ FuncsType' /\ ResultsType' /\ OutsideType'
    BY <1>1, <2>1 DEF HubType, FuncsType, ResultsType, OutsideType, hubVars, outside
  <2>3. with' \in [Reader -> Counts \cup {0}]
    BY <1>1, <2>1 DEF ReaderType
  <2>4. \E p \in Place \ {"rebuild"} : Goto(r, p)
    BY <1>5 DEF Read, Place
  <2>5. QED BY <1>1, <2>1, <2>2, <2>3, <2>4, MoveType DEF TypeInv
<1>6. CASE Publish(r) \/ Complete(r)
  <2>1. UNCHANGED <<hubVars, readCancel, reading, funcs, found, with, cancelled, outside, reset>>
    BY <1>6 DEF Publish, Complete
  <2>2. HubType' /\ FuncsType' /\ OutsideType'
    BY <1>1, <2>1 DEF HubType, FuncsType, OutsideType, hubVars, outside
  <2>3. ResultsType'
    <3>1. \E k \in Kind : Len(results) < ResultCap /\ results' = Append(results, k)
      BY <1>6 DEF Publish, Complete, Kind
    <3>2. QED BY <1>1, <3>1, SendType
  <2>4. with' \in [Reader -> Counts \cup {0}]
    BY <1>1, <2>1 DEF ReaderType
  <2>5. \E p \in Place \ {"rebuild"} : Goto(r, p)
    BY <1>6 DEF Publish, Complete, Place
  <2>6. QED BY <1>1, <2>1, <2>2, <2>3, <2>4, <2>5, MoveType DEF TypeInv
<1>7. CASE Exit(r)
  <2>1. UNCHANGED <<hubVars, funcs, results, outside>>
    BY <1>7 DEF Exit
  <2>2. FuncsType' /\ ResultsType' /\ OutsideType'
    BY <1>1, <2>1 DEF FuncsType, ResultsType, OutsideType, outside
  <2>3. HubType'
    <3>1. reading' \in BOOLEAN
      BY <1>7 DEF Exit
    <3>2. readCancel' \in Reader \cup {Nothing}
      BY <1>1, <1>7 DEF Exit, HubType
    <3>3. QED BY <1>1, <2>1, <3>1, <3>2 DEF HubType, hubVars
  <2>4. pc' \in [Reader -> Place]
    BY <1>1, <1>7 DEF Exit, Goto, ReaderType, Place
  <2>5. found' \in [Reader -> Counts \cup {0}] /\ with' \in [Reader -> Counts \cup {0}]
    BY <1>1, <1>7 DEF Exit, ReaderType
  <2>6. cancelled' \in [Reader -> BOOLEAN] /\ reset' \in [Reader -> BOOLEAN]
    BY <1>1, <1>7 DEF Exit, ReaderType
  <2>7. RebuildsToACount'
    BY <1>1, <1>7 DEF Exit, Goto, RebuildsToACount, ReaderType
  <2>8. QED BY <2>2, <2>3, <2>4, <2>5, <2>6, <2>7 DEF TypeInv, ReaderType
<1>8. QED BY <1>2, <1>3, <1>4, <1>5, <1>6, <1>7 DEF ReaderStep

LEMMA TypeInvInit == Init => TypeInv
<1> SUFFICES ASSUME Init PROVE TypeInv
  OBVIOUS
<1>1. Default \in Counts
  BY DEF Counts
<1>2. HubType
  BY <1>1 DEF Init, HubType
<1>3. FuncsType /\ ResultsType
  BY SizesAssumption DEF SizesAssumption, Init, FuncsType, ResultsType
<1>4. ReaderType
  BY DEF Init, ReaderType, Place
<1>5. OutsideType /\ RebuildsToACount
  BY SizesAssumption DEF SizesAssumption, Init, OutsideType, RebuildsToACount
<1>6. QED BY <1>2, <1>3, <1>4, <1>5 DEF TypeInv

LEMMA TypeInvStep == TypeInv /\ [Next]_vars => TypeInv'
<1> SUFFICES ASSUME TypeInv, [Next]_vars PROVE TypeInv'
  OBVIOUS
<1>0. HubType /\ FuncsType /\ ResultsType /\ ReaderType /\ OutsideType /\ RebuildsToACount
  BY DEF TypeInv
<1>1. ASSUME NEW r \in Reader, ReaderStep(r) PROVE TypeInv'
  BY <1>1, ReaderStepType
<1>2. CASE Request
  <2>1. UNCHANGED <<plan, funcs, results, outside>>
    BY <1>2 DEF Request, Subscribe, Unsubscribe, Refresh, ReadCycle, Disconnect, hubVars
  <2>2. FuncsType' /\ ResultsType' /\ OutsideType'
    BY <1>0, <2>1 DEF FuncsType, ResultsType, OutsideType, outside
  <2>3. subscribed' \in BOOLEAN /\ connected' \in BOOLEAN
    BY <1>0, <1>2 DEF Request, Subscribe, Unsubscribe, Refresh, ReadCycle, Disconnect, hubVars, HubType
  <2>4. Trigger \/ CancelRead \/ NoChange
    BY <1>2 DEF Request, Subscribe, Unsubscribe, Refresh, ReadCycle, Disconnect
  <2>5. readCancel' \in Reader \cup {Nothing} /\ reading' \in BOOLEAN /\ ReaderType' /\ RebuildsToACount'
    <3>1. CASE Trigger BY <1>0, <3>1, TriggerType
    <3>2. CASE CancelRead BY <1>0, <3>2, CancelReadType DEF HubType
    <3>3. CASE NoChange BY <1>0, <3>3, NoChangeType
    <3>4. QED BY <2>4, <3>1, <3>2, <3>3
  <2>6. QED BY <1>0, <2>1, <2>2, <2>3, <2>5 DEF TypeInv, HubType
<1>3. CASE HandleConnected
  <2>1. UNCHANGED <<subscribed, readCancel, reading, funcs, results, pc, found, with, cancelled>>
    BY <1>3 DEF HandleConnected, readerVars
  <2>2. HubType'
    BY <1>0, <1>3, <2>1 DEF HandleConnected, HubType, Counts
  <2>3. OutsideType'
    BY <1>0, <1>3, SizesAssumption DEF SizesAssumption, HandleConnected, OutsideType
  <2>4. reset' \in [Reader -> BOOLEAN]
    BY <1>3 DEF HandleConnected
  <2>5. QED BY <1>0, <2>1, <2>2, <2>3, <2>4
            DEF TypeInv, FuncsType, ResultsType, ReaderType, RebuildsToACount
<1>4. CASE HandleDisconnected
  <2>1. UNCHANGED <<subscribed, plan, funcs, results, outside>> /\ CancelRead /\ connected' = FALSE
    BY <1>4 DEF HandleDisconnected
  <2>2. FuncsType' /\ ResultsType' /\ OutsideType'
    BY <1>0, <2>1 DEF FuncsType, ResultsType, OutsideType, outside
  <2>3. QED BY <1>0, <2>1, <2>2, CancelReadType DEF TypeInv, HubType
<1>5. CASE Rebuild
  <2>1. UNCHANGED <<subscribed, connected, results, outside>> /\ Trigger
    BY <1>5 DEF Rebuild
  <2>2. funcs \in Seq(Counts) /\ funcs # <<>> /\ funcs' = Tail(funcs) /\ plan' = Head(funcs)
    BY <1>0, <1>5 DEF Rebuild, FuncsType
  <2>3. plan' \in Counts /\ funcs' \in Seq(Counts) /\ Len(funcs') = Len(funcs) - 1
    BY <2>2
  <2>4. FuncsType'
    BY <1>0, <2>3, SizesAssumption DEF SizesAssumption, FuncsType
  <2>5. ResultsType' /\ OutsideType'
    BY <1>0, <2>1 DEF ResultsType, OutsideType, outside
  <2>6. QED BY <1>0, <2>1, <2>3, <2>4, <2>5, TriggerType DEF TypeInv, HubType
<1>6. CASE HandleResult
  <2>1. UNCHANGED <<hubVars, funcs, outside>> /\ NoChange
    BY <1>6 DEF HandleResult
  <2>2. results \in Seq(Kind) /\ results # <<>> /\ results' = Tail(results)
    BY <1>0, <1>6 DEF HandleResult, ResultsType
  <2>3. results' \in Seq(Kind) /\ Len(results') = Len(results) - 1
    BY <2>2
  <2>4. ResultsType'
    BY <1>0, <2>3, SizesAssumption DEF SizesAssumption, ResultsType
  <2>5. FuncsType' /\ OutsideType'
    BY <1>0, <2>1 DEF FuncsType, OutsideType, outside
  <2>6. QED BY <1>0, <2>1, <2>4, <2>5, NoChangeType DEF TypeInv, HubType, hubVars
<1>7. CASE UNCHANGED vars
  <2>1. UNCHANGED <<subscribed, connected, plan, readCancel, reading, funcs, results, pc, found, with, cancelled,
                    word, connects, reset>>
    BY <1>7 DEF vars, hubVars, readerVars, outside
  <2>2. QED BY <1>0, <2>1 DEF TypeInv, HubType, FuncsType, ResultsType, ReaderType, OutsideType, RebuildsToACount
<1>8. QED BY <1>1, <1>2, <1>3, <1>4, <1>5, <1>6, <1>7 DEF Next

LEMMA TypeInvCorrect == Spec => []TypeInv
BY TypeInvInit, TypeInvStep, PTL DEF Spec

\* Every variable keeps its type: the plan and every queued closure is one of the counts a reader believes, and
\* the hub's channels keep to their capacities.
THEOREM TypeCorrect == Spec => []TypeOK
BY TypeInvCorrect, TypeInvGives, PTL

-----------------------------------------------------------------------------
(* The plan under a read that goes on.                                      *)
(* The plan changes by a closure, which cancels the one live read first, or *)
(* by a connection, which the reads alive are marked with.  So a live read  *)
(* finds at its start the plan it compared the inverter's count with.       *)

OneLive == \A r \in Reader : Live(r) => readCancel = r

Undisturbed(r) == Live(r) /\ ~reset[r]

CheckedPlan == \A r \in Reader : Undisturbed(r) /\ pc[r] = "check" /\ found[r] # 0 => found[r] = plan

PlanInv == OneLive /\ CheckedPlan /\ PlanIsDetected

LEMMA PlanInvInit == Init => PlanInv
BY DEF Init, PlanInv, OneLive, CheckedPlan, PlanIsDetected, Undisturbed, Live

\* A trigger leaves one live read, which has looked at nothing yet.
LEMMA TriggerPlan ==
  ASSUME TypeInv, OneLive, Trigger
  PROVE  PlanInv'
<1>1. PICK r \in Reader : pc[r] = "none" /\ cancelled' = Cancelled /\ readCancel' = r
                          /\ Goto(r, "detect") /\ UNCHANGED <<found, with, reset>>
  BY DEF Trigger
<1>2. \A q \in Reader : pc'[q] = IF q = r THEN "detect" ELSE pc[q]
  BY <1>1 DEF TypeInv, ReaderType, Goto
<1>3. ASSUME NEW q \in Reader, Live(q)' PROVE q = r
  <2>1. pc'[q] # "none" /\ ~cancelled'[q]
    BY <1>3 DEF Live
  <2>2. ~cancelled[q] /\ readCancel # q
    BY <1>1, <2>1 DEF Cancelled
  <2>3. pc[q] = "none"
    BY <2>2 DEF OneLive, Live
  <2>4. QED BY <1>2, <2>1, <2>3
<1>4. OneLive'
  BY <1>1, <1>3 DEF OneLive
<1>5. \A q \in Reader : Live(q)' => pc'[q] = "detect"
  BY <1>2, <1>3
<1>6. CheckedPlan' /\ PlanIsDetected'
  BY <1>5 DEF CheckedPlan, PlanIsDetected, Undisturbed, Live
<1>7. QED BY <1>4, <1>6 DEF PlanInv

LEMMA CancelReadPlan ==
  ASSUME OneLive, CancelRead
  PROVE  PlanInv'
<1>1. UNCHANGED pc /\ cancelled' = Cancelled
  BY DEF CancelRead, readerVars
<1>2. \A q \in Reader : ~Live(q)'
  BY <1>1 DEF Cancelled, OneLive, Live
<1>3. QED BY <1>2 DEF PlanInv, OneLive, CheckedPlan, PlanIsDetected, Undisturbed, Live

LEMMA NoChangePlan ==
  ASSUME PlanInv, NoChange, UNCHANGED plan
  PROVE  PlanInv'
BY DEF PlanInv, OneLive, CheckedPlan, PlanIsDetected, Undisturbed, Live, NoChange, readerVars

\* What a step of one reader leaves alone, and what it may do to a reader that goes on.
LEMMA OneReaderMoves ==
  ASSUME TypeInv, NEW r \in Reader, ReaderStep(r)
  PROVE  /\ UNCHANGED plan
         /\ \A q \in Reader \ {r} : /\ pc'[q] = pc[q] /\ found'[q] = found[q] /\ with'[q] = with[q]
                                   /\ cancelled'[q] = cancelled[q] /\ reset'[q] = reset[q]
         /\ Live(r)' => Live(r) /\ readCancel' = readCancel /\ reset'[r] = reset[r]
         /\ \A q \in Reader \ {r} : readCancel = q => readCancel' = q
<1>1. pc \in [Reader -> Place] /\ cancelled \in [Reader -> BOOLEAN] /\ reset \in [Reader -> BOOLEAN]
      /\ found \in [Reader -> Counts \cup {0}] /\ with \in [Reader -> Counts \cup {0}]
  BY DEF TypeInv, ReaderType
<1>2. CASE Detect(r)
  <2>1. PICK p \in {"rebuild", "check"}, n \in {word, 0} :
          Goto(r, p) /\ found' = [found EXCEPT ![r] = IF Plausible(n) THEN n ELSE 0]
    BY <1>2 DEF Detect
  <2>2. UNCHANGED <<plan, readCancel, with, cancelled, reset>> /\ pc[r] = "detect"
    BY <1>2 DEF Detect, hubVars
  <2>3. QED BY <1>1, <2>1, <2>2 DEF Goto, Live
<1>3. CASE SendRebuild(r)
  <2>1. UNCHANGED <<plan, readCancel, found, with, cancelled, reset>> /\ pc[r] = "rebuild"
    BY <1>3 DEF SendRebuild, hubVars
  <2>2. Goto(r, "leave") \/ Goto(r, "exit")
    BY <1>3 DEF SendRebuild
  <2>3. QED BY <1>1, <2>1, <2>2 DEF Goto, Live
<1>4. CASE Start(r)
  <2>1. UNCHANGED <<plan, readCancel, found, cancelled, reset>> /\ pc[r] = "check"
    BY <1>4 DEF Start, hubVars
  <2>2. (Goto(r, "exit") /\ UNCHANGED with) \/ (Goto(r, "read") /\ with' = [with EXCEPT ![r] = plan])
    BY <1>4 DEF Start
  <2>3. QED BY <1>1, <2>1, <2>2 DEF Goto, Live
<1>5. CASE Read(r) \/ Publish(r) \/ Complete(r)
  <2>1. UNCHANGED <<plan, readCancel, found, with, cancelled, reset>> /\ pc[r] \in {"read", "publish", "complete"}
    BY <1>5 DEF Read, Publish, Complete, hubVars
  <2>2. \E p \in {"exit", "publish", "complete"} : Goto(r, p)
    BY <1>5 DEF Read, Publish, Complete
  <2>3. QED BY <1>1, <2>1, <2>2 DEF Goto, Live
<1>6. CASE Exit(r)
  <2>1. UNCHANGED plan /\ readCancel' = (IF readCancel = r THEN Nothing ELSE readCancel) /\ Goto(r, "none")
    BY <1>6 DEF Exit, hubVars
  <2>2. /\ found' = [found EXCEPT ![r] = 0] /\ with' = [with EXCEPT ![r] = 0]
        /\ cancelled' = [cancelled EXCEPT ![r] = FALSE] /\ reset' = [reset EXCEPT ![r] = FALSE]
    BY <1>6 DEF Exit
  <2>3. pc'[r] = "none" /\ \A q \in Reader \ {r} : pc'[q] = pc[q]
    BY <1>1, <2>1 DEF Goto
  <2>4. \A q \in Reader \ {r} : /\ found'[q] = found[q] /\ with'[q] = with[q]
                                /\ cancelled'[q] = cancelled[q] /\ reset'[q] = reset[q]
    BY <1>1, <2>2
  <2>5. ~Live(r)'
    BY <2>3 DEF Live
  <2>6. \A q \in Reader \ {r} : readCancel = q => readCancel' = q
    BY <2>1
  <2>7. QED BY <2>1, <2>3, <2>4, <2>5, <2>6
<1>7. QED BY <1>2, <1>3, <1>4, <1>5, <1>6 DEF ReaderStep

\* The step that takes a reader to the check found the section's plan in the register or found nothing.
LEMMA CheckedByStep ==
  ASSUME TypeInv, NEW r \in Reader, ReaderStep(r), pc'[r] = "check", found'[r] # 0
  PROVE  found'[r] = plan
<1>1. pc \in [Reader -> Place] /\ found \in [Reader -> Counts \cup {0}]
  BY DEF TypeInv, ReaderType
<1>2. CASE Detect(r)
  <2>1. PICK n \in {word, 0} :
          /\ found' = [found EXCEPT ![r] = IF Plausible(n) THEN n ELSE 0]
          /\ Goto(r, IF Plausible(n) /\ n # plan THEN "rebuild" ELSE "check")
    BY <1>2 DEF Detect
  <2>2. found'[r] = IF Plausible(n) THEN n ELSE 0
    BY <1>1, <2>1
  <2>3. Plausible(n) /\ found'[r] = n
    BY <2>2
  <2>4. pc'[r] = IF n # plan THEN "rebuild" ELSE "check"
    BY <1>1, <2>1, <2>3 DEF Goto
  <2>5. QED BY <2>3, <2>4
<1>3. ASSUME NEW p \in Place \ {"check"}, Goto(r, p) PROVE FALSE
  BY <1>1, <1>3 DEF Goto
<1>4. CASE SendRebuild(r) \/ Start(r) \/ Read(r) \/ Publish(r) \/ Complete(r) \/ Exit(r)
  <2>1. \E p \in Place \ {"check"} : Goto(r, p)
    BY <1>4 DEF SendRebuild, Start, Read, Publish, Complete, Exit, Place
  <2>2. QED BY <1>3, <2>1
<1>5. QED BY <1>2, <1>4 DEF ReaderStep

\* A reader reads the plan of its start.
LEMMA ReadingStep ==
  ASSUME TypeInv, NEW r \in Reader, ReaderStep(r), pc'[r] \in {"read", "publish", "complete"}, Live(r)
  PROVE  /\ found'[r] = found[r]
         /\ \/ pc[r] = "check" /\ with'[r] = plan
            \/ pc[r] \in {"read", "publish", "complete"} /\ with'[r] = with[r]
<1>1. pc \in [Reader -> Place] /\ with \in [Reader -> Counts \cup {0}]
  BY DEF TypeInv, ReaderType
<1>2. CASE Start(r)
  BY <1>1, <1>2 DEF Start, Live
<1>3. CASE Read(r) \/ Publish(r) \/ Complete(r)
  BY <1>3 DEF Read, Publish, Complete
<1>4. ASSUME NEW p \in {"rebuild", "check", "exit", "leave", "none"}, Goto(r, p) PROVE FALSE
  BY <1>1, <1>4 DEF Goto
<1>5. CASE Detect(r) \/ SendRebuild(r) \/ Exit(r)
  <2>1. \E p \in {"rebuild", "check", "exit", "leave", "none"} : Goto(r, p)
    BY <1>5 DEF Detect, SendRebuild, Exit
  <2>2. QED BY <1>4, <2>1
<1>6. QED BY <1>2, <1>3, <1>5 DEF ReaderStep

LEMMA ReaderStepPlan ==
  ASSUME TypeInv, PlanInv, NEW r \in Reader, ReaderStep(r)
  PROVE  PlanInv'
<1>1. /\ plan' = plan
      /\ \A q \in Reader \ {r} : /\ pc'[q] = pc[q] /\ found'[q] = found[q] /\ with'[q] = with[q]
                                /\ cancelled'[q] = cancelled[q] /\ reset'[q] = reset[q]
      /\ Live(r)' => Live(r) /\ readCancel' = readCancel /\ reset'[r] = reset[r]
      /\ \A q \in Reader \ {r} : readCancel = q => readCancel' = q
  BY OneReaderMoves
<1>2. OneLive /\ CheckedPlan /\ PlanIsDetected
  BY DEF PlanInv
<1>3. \A q \in Reader \ {r} : (Live(q)' <=> Live(q)) /\ (Undisturbed(q)' <=> Undisturbed(q))
  BY <1>1 DEF Live, Undisturbed
<1>4. Undisturbed(r)' => Undisturbed(r)
  BY <1>1 DEF Undisturbed
<1>5. OneLive'
  BY <1>1, <1>2, <1>3 DEF OneLive
<1>6. CheckedPlan'
  <2>1. ASSUME NEW q \in Reader, Undisturbed(q)', pc'[q] = "check", found'[q] # 0 PROVE found'[q] = plan'
    <3>1. CASE q = r
      BY <1>1, <2>1, <3>1, CheckedByStep
    <3>2. CASE q # r
      BY <1>1, <1>2, <1>3, <2>1, <3>2 DEF CheckedPlan
    <3>3. QED BY <3>1, <3>2
  <2>2. QED BY <2>1 DEF CheckedPlan
<1>7. PlanIsDetected'
  <2>1. ASSUME NEW q \in Reader, Undisturbed(q)', pc'[q] \in {"read", "publish", "complete"}
        PROVE  with'[q] = plan' /\ (found'[q] # 0 => with'[q] = found'[q])
    <3>1. CASE q = r
      <4>1. Live(r) /\ Undisturbed(r)
        BY <1>4, <2>1, <3>1 DEF Undisturbed
      <4>2. found'[r] = found[r] /\ \/ pc[r] = "check" /\ with'[r] = plan
                                    \/ pc[r] \in {"read", "publish", "complete"} /\ with'[r] = with[r]
        BY <2>1, <3>1, <4>1, ReadingStep
      <4>3. QED BY <1>1, <1>2, <3>1, <4>1, <4>2 DEF CheckedPlan, PlanIsDetected, Undisturbed
    <3>2. CASE q # r
      BY <1>1, <1>2, <1>3, <2>1, <3>2 DEF PlanIsDetected, Undisturbed
    <3>3. QED BY <3>1, <3>2
  <2>2. QED BY <2>1 DEF PlanIsDetected, Undisturbed
<1>8. QED BY <1>5, <1>6, <1>7 DEF PlanInv

LEMMA PlanInvStep == TypeInv /\ PlanInv /\ [Next]_vars => PlanInv'
<1> SUFFICES ASSUME TypeInv, PlanInv, [Next]_vars PROVE PlanInv'
  OBVIOUS
<1>0. OneLive
  BY DEF PlanInv
<1>1. ASSUME NEW r \in Reader, ReaderStep(r) PROVE PlanInv'
  BY <1>1, ReaderStepPlan
<1>2. CASE Request
  <2>1. UNCHANGED plan /\ (Trigger \/ CancelRead \/ NoChange)
    BY <1>2 DEF Request, Subscribe, Unsubscribe, Refresh, ReadCycle, Disconnect, hubVars
  <2>2. QED BY <1>0, <2>1, TriggerPlan, CancelReadPlan, NoChangePlan
<1>3. CASE HandleConnected
  <2>1. \A q \in Reader : Live(q)' <=> Live(q)
    BY <1>3 DEF HandleConnected, readerVars, Live
  <2>2. OneLive'
    BY <1>0, <1>3, <2>1 DEF HandleConnected, OneLive
  <2>3. \A q \in Reader : ~Undisturbed(q)'
    BY <1>3 DEF HandleConnected, readerVars, Undisturbed, Live
  <2>4. QED BY <2>2, <2>3 DEF PlanInv, CheckedPlan, PlanIsDetected, Undisturbed
<1>4. CASE HandleDisconnected
  BY <1>0, <1>4, CancelReadPlan DEF HandleDisconnected
<1>5. CASE Rebuild
  BY <1>0, <1>5, TriggerPlan DEF Rebuild
<1>6. CASE HandleResult
  BY <1>6, NoChangePlan DEF HandleResult, hubVars
<1>7. CASE UNCHANGED vars
  BY <1>7, NoChangePlan DEF vars, hubVars, readerVars, NoChange
<1>8. QED BY <1>1, <1>2, <1>3, <1>4, <1>5, <1>6, <1>7 DEF Next

\* A read that goes on shows the channels the inverter named and the section's subscribers were told of, however
\* many readers, closures and cancellations interleave, unless a connection came in the middle of it.
THEOREM PlanFollowsDetection == Spec => []PlanIsDetected
<1>1. PlanInv => PlanIsDetected
  BY DEF PlanInv
<1>2. QED BY <1>1, PlanInvInit, PlanInvStep, TypeInvCorrect, PTL DEF Spec

\* There is never a second read of the section that nobody could cancel.
THEOREM OneReadGoesOn == Spec => []OneLive
<1>1. PlanInv => OneLive
  BY DEF PlanInv
<1>2. QED BY <1>1, PlanInvInit, PlanInvStep, TypeInvCorrect, PTL DEF Spec
=============================================================================
