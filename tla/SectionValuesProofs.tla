------------------------- MODULE SectionValuesProofs -------------------------
(***************************************************************************)
(* For every table of probes and every limit: the plan that                *)
(* AnalyzeBatchPlan builds holds each register once, cuts each probe out   *)
(* of its own bytes and reads nothing that the table does not list; and    *)
(* within the limit, where the probes overlap by nesting only.             *)
(*                                                                         *)
(* For every word of 16 bits and every answer that is too short: what is   *)
(* shown for a register is made of its own words and says the same as its  *)
(* raw value; and the faults and the online packs are those whose bits are *)
(* set.                                                                    *)
(***************************************************************************)
EXTENDS SectionValues, SequenceTheorems, WellFoundedInduction, TLAPS

LEMMA ProbeType ==
  ASSUME probes \in Layout, NEW i \in Real
  PROVE  /\ i \in DOMAIN probes
         /\ probes[i].addr \in Nat /\ probes[i].count \in Nat /\ probes[i].count > 0
<1> DEFINE R == [addr : 0..AddressSpace - 1, count : 0..AddressSpace - 1, form : STRING]
<1>1. probes \in Seq(R)
  BY TablesAssumption
<1>2. probes[i].count # 0 /\ i \in DOMAIN probes
  BY DEF Real
<1>3. probes[i] \in R
  <2> HIDE DEF R
  <2>1. i \in 1..Len(probes)
    BY <1>1, <1>2
  <2> QED  BY <1>1, <2>1
<1>4. probes[i].addr \in 0..AddressSpace - 1 /\ probes[i].count \in 0..AddressSpace - 1
  BY <1>3
<1>5. probes[i].addr \in Nat /\ probes[i].count \in Nat
  <2>1. AddressSpace \in Int
    BY DEF AddressSpace
  <2> HIDE DEF R
  <2> QED  BY <1>4, <2>1
<1>6. probes[i].count > 0
  BY <1>2, <1>5
<1> HIDE DEF R
<1> QED  BY <1>2, <1>5, <1>6

-----------------------------------------------------------------------------
(* One span. *)

\* What every span is: not empty, made of probes at their own bytes, without a register that none of them lists.
Good(s) ==
  /\ s.total > 0
  /\ \A p \in s.parts :
       /\ p.probe \in Real
       /\ p.offset = 2 * (probes[p.probe].addr - s.start)
       /\ p.length = ByteLength(p.probe)
       /\ s.start <= probes[p.probe].addr /\ ProbeEnd(p.probe) <= End(s)
  /\ \A a \in s.start..(End(s) - 1) : \E p \in s.parts : a \in Registers(p.probe)

LEMMA PartIsTyped ==
  ASSUME probes \in Layout, NEW i \in Real, NEW n \in Nat, n <= probes[i].addr
  PROVE  Part(i, n) \in PartType
BY ProbeType DEF Part, PartType, ByteLength

LEMMA NewSpanGood ==
  ASSUME probes \in Layout, NEW i \in Real
  PROVE  /\ NewSpan(i) \in SpanType /\ Good(NewSpan(i))
         /\ NewSpan(i) # NoSpan /\ Held(NewSpan(i)) = {i}
<1>1. /\ probes[i].addr \in Nat /\ probes[i].count \in Nat /\ probes[i].count > 0
      /\ Part(i, probes[i].addr) \in PartType
  BY ProbeType, PartIsTyped
<1>2. NewSpan(i) \in SpanType
  BY <1>1 DEF NewSpan, SpanType
<1>3. Good(NewSpan(i))
  BY <1>1 DEF Good, NewSpan, Part, ByteLength, ProbeEnd, End, Registers
<1>4. NewSpan(i) # NoSpan
  BY <1>1 DEF NewSpan, NoSpan
<1>5. Held(NewSpan(i)) = {i}
  BY DEF Held, NewSpan, Part
<1> QED  BY <1>2, <1>3, <1>4, <1>5

\* A span that takes in a probe which begins inside it or at its end, and grows to the probe's end if that is further.
LEMMA GrownGood ==
  ASSUME probes \in Layout, NEW i \in Real, NEW s \in SpanType, Good(s),
         s.start <= probes[i].addr, probes[i].addr <= End(s),
         NEW t, t = [s EXCEPT !.parts = @ \cup {Part(i, s.start)},
                              !.total = IF ProbeEnd(i) > End(s) THEN ProbeEnd(i) - s.start ELSE @]
  PROVE  /\ t \in SpanType /\ Good(t) /\ t.start = s.start /\ End(s) <= End(t)
         /\ Held(t) = Held(s) \cup {i}
<1>1. /\ probes[i].addr \in Nat /\ probes[i].count \in Nat /\ probes[i].count > 0
      /\ s.start \in Nat /\ s.total \in Nat /\ s.parts \in SUBSET PartType
  BY ProbeType DEF SpanType
<1>2. Part(i, s.start) \in PartType
  BY <1>1, PartIsTyped
<1>3. /\ t.start = s.start /\ t.parts = s.parts \cup {Part(i, s.start)}
      /\ t.total = IF ProbeEnd(i) > End(s) THEN ProbeEnd(i) - s.start ELSE s.total
      /\ DOMAIN t = {"start", "total", "parts"}
  BY DEF SpanType
<1>4. ProbeEnd(i) \in Nat /\ End(s) = s.start + s.total /\ ProbeEnd(i) = probes[i].addr + probes[i].count
  BY <1>1 DEF ProbeEnd, End
<1>5. t.total \in Nat /\ t.total >= s.total
  BY <1>1, <1>3, <1>4
<1>6. t \in SpanType
  <2>1. t = [start |-> s.start, total |-> t.total, parts |-> s.parts \cup {Part(i, s.start)}]
    BY <1>3 DEF SpanType
  <2> QED  BY <2>1, <1>1, <1>2, <1>5 DEF SpanType
<1>7. End(s) <= End(t) /\ ProbeEnd(i) <= End(t)
  BY <1>1, <1>3, <1>4 DEF End
<1>8. \A p \in t.parts :
        /\ p.probe \in Real
        /\ p.offset = 2 * (probes[p.probe].addr - t.start)
        /\ p.length = ByteLength(p.probe)
        /\ t.start <= probes[p.probe].addr /\ ProbeEnd(p.probe) <= End(t)
  <2> SUFFICES ASSUME NEW p \in t.parts
               PROVE  /\ p.probe \in Real
                      /\ p.offset = 2 * (probes[p.probe].addr - t.start)
                      /\ p.length = ByteLength(p.probe)
                      /\ t.start <= probes[p.probe].addr /\ ProbeEnd(p.probe) <= End(t)
    OBVIOUS
  <2>1. CASE p \in s.parts
    <3>1. probes[p.probe].addr \in Nat /\ probes[p.probe].count \in Nat /\ End(t) \in Nat
      BY <2>1, <1>1, <1>3, <1>5, ProbeType DEF Good, End
    <3>2. ProbeEnd(p.probe) <= End(s)
      BY <2>1 DEF Good
    <3>3. ProbeEnd(p.probe) <= End(t)
      BY <3>1, <3>2, <1>7, <1>1 DEF ProbeEnd, End
    <3> QED  BY <2>1, <3>3, <1>3 DEF Good
  <2>2. CASE p = Part(i, s.start)
    BY <2>2, <1>3, <1>7 DEF Part
  <2> QED  BY <2>1, <2>2, <1>3
<1>9. \A a \in t.start..(End(t) - 1) : \E p \in t.parts : a \in Registers(p.probe)
  <2> SUFFICES ASSUME NEW a \in t.start..(End(t) - 1)
               PROVE  \E p \in t.parts : a \in Registers(p.probe)
    OBVIOUS
  <2>1. CASE a < End(s)
    <3>1. a \in s.start..(End(s) - 1)
      BY <2>1, <1>1, <1>3 DEF End
    <3> QED  BY <3>1, <1>3 DEF Good
  <2>2. CASE ~(a < End(s))
    <3>1. End(t) = ProbeEnd(i)
      BY <2>2, <1>1, <1>3, <1>4 DEF End
    <3>2. a \in Registers(i)
      BY <2>2, <3>1, <1>1, <1>4, <1>3 DEF Registers
    <3>3. Part(i, s.start).probe = i
      BY DEF Part
    <3> QED  BY <3>2, <3>3, <1>3
  <2> QED  BY <2>1, <2>2
<1>10. Held(t) = Held(s) \cup {i}
  <2>1. Part(i, s.start).probe = i
    BY DEF Part
  <2> QED  BY <2>1, <1>3 DEF Held
<1>11. s.total > 0
  BY DEF Good
<1>12. Good(t)
  BY <1>11, <1>1, <1>5, <1>8, <1>9 DEF Good
<1> QED  BY <1>3, <1>6, <1>7, <1>10, <1>12

\* A span as it is shorter than the limit: a probe that begins inside it ends there too, or the table is not nested.
LEMMA NestedInside ==
  ASSUME probes \in Layout, NEW i \in Real, NEW s \in SpanType, Good(s), Nested,
         s.start <= probes[i].addr, probes[i].addr < End(s)
  PROVE  ProbeEnd(i) <= End(s)
<1>1. probes[i].addr \in Nat /\ probes[i].count \in Nat /\ s.start \in Nat /\ s.total \in Nat
  BY ProbeType DEF SpanType
<1>2. probes[i].addr \in s.start..(End(s) - 1)
  BY <1>1 DEF End
<1>3. PICK p \in s.parts : probes[i].addr \in Registers(p.probe)
  BY <1>2 DEF Good
<1>4. p.probe \in Real /\ ProbeEnd(p.probe) <= End(s)
  BY DEF Good
<1>5. ProbeEnd(i) <= ProbeEnd(p.probe)
  <2>1. PICK j \in Real : j = p.probe
    BY <1>4
  <2>2. j \in DOMAIN probes /\ i \in DOMAIN probes /\ probes[j].count # 0 /\ probes[i].count # 0
    BY DEF Real
  <2>3. probes[i].addr \in probes[j].addr..(probes[j].addr + probes[j].count - 1)
    <3>1. probes[i].addr \in Registers(j)
      BY <1>3, <2>1
    <3>2. probes[j].addr \in Nat /\ probes[j].count \in Nat /\ probes[i].addr \in Nat
      BY ProbeType
    <3>3. QED BY <3>1, <3>2 DEF Registers, ProbeEnd
  <2>4. probes[i].addr + probes[i].count <= probes[j].addr + probes[j].count
    BY <2>2, <2>3 DEF Nested, NestedTable
  <2>5. QED BY <2>1, <2>4 DEF ProbeEnd
<1>6. probes[p.probe].addr \in Nat /\ probes[p.probe].count \in Nat
  BY <1>4, ProbeType
<1> QED  BY <1>1, <1>4, <1>5, <1>6 DEF ProbeEnd, End

-----------------------------------------------------------------------------
(* The invariant. *)

\* Where the walk is: the probes ahead begin no earlier than the open span, which follows all closed ones.
Order ==
  /\ cur = NoSpan /\ ~done => spans = <<>> /\ todo = Real
  /\ done => cur = NoSpan /\ todo = {}
  /\ cur # NoSpan => \A i \in todo : cur.start <= probes[i].addr

\* Every span is good, and within the limit if the table is nested.
Fits(s) == Nested => s.total <= MaxBatchRegisters
SpansGood ==
  /\ \A k \in DOMAIN spans : Good(spans[k]) /\ Fits(spans[k])
  /\ cur # NoSpan => Good(cur) /\ Fits(cur)

IInv == TypeOK /\ Order /\ SpansGood /\ SpansApart /\ PlacedOnce

LEMMA InitIInv == Init => IInv
<1> SUFFICES ASSUME Init PROVE IInv
  OBVIOUS
<1> USE DEF Init
<1>1. TypeOK
  <2>1. NoSpan \in SpanType
    BY DEF NoSpan, SpanType
  <2>2. spans \in Seq(SpanType)
    OBVIOUS
  <2>3. todo \subseteq Real /\ done \in BOOLEAN
    OBVIOUS
  <2> QED  BY <2>1, <2>2, <2>3 DEF TypeOK
<1>2. Order /\ SpansGood /\ SpansApart
  BY DEF Order, SpansGood, SpansApart
<1>3. PlacedOnce
  <2>1. Built = {}
    BY DEF Built
  <2> QED  BY <2>1 DEF PlacedOnce
<1> QED  BY <1>1, <1>2, <1>3 DEF IInv

\* The spans after one is closed.
LEMMA Closed ==
  ASSUME spans \in Seq(SpanType), NEW s \in SpanType, spans' = Append(spans, s)
  PROVE  /\ spans' \in Seq(SpanType)
         /\ DOMAIN spans' = DOMAIN spans \cup {Len(spans) + 1}
         /\ Len(spans) \in Nat /\ DOMAIN spans = 1..Len(spans)
         /\ \A k \in DOMAIN spans : spans'[k] = spans[k]
         /\ spans'[Len(spans) + 1] = s
BY DEF SpanType

\* A closed span is not the open one: it ends before it.
LEMMA OpenIsNew ==
  ASSUME TypeOK, SpansGood, SpansApart, cur # NoSpan, NEW k \in DOMAIN spans
  PROVE  spans[k] # cur
<1>1. spans[k] \in SpanType /\ End(spans[k]) <= cur.start /\ spans[k].total > 0
  BY DEF TypeOK, SpansApart, SpansGood, Good
<1>2. spans[k].start \in Nat /\ spans[k].total \in Nat
  BY <1>1 DEF SpanType
<1> QED  BY <1>1, <1>2 DEF End

\* The probe reached joins the open span.
LEMMA GrowPlaced ==
  ASSUME TypeOK, SpansGood, SpansApart, PlacedOnce, NEW i \in todo,
         cur # NoSpan, cur' # NoSpan, Held(cur') = Held(cur) \cup {i},
         probes' = probes, spans' = spans, todo' = todo \ {i}
  PROVE  PlacedOnce'
<1> DEFINE closed == {spans[k] : k \in DOMAIN spans}
<1>1. Built = closed \cup {cur} /\ Built' = closed \cup {cur'}
  BY DEF Built
<1>2. cur \notin closed
  BY OpenIsNew
<1>3. Real' = Real
  BY DEF Real
<1>4. UNION {Held(s) : s \in Built} = Real \ todo
  BY DEF PlacedOnce
<1>5. i \in Real /\ \A s \in Built : i \notin Held(s)
  BY <1>4 DEF TypeOK
<1>6. \A s \in closed : Held(s) \cap Held(cur) = {}
  BY <1>1, <1>2 DEF PlacedOnce
<1>7. \A s, t \in closed : s # t => Held(s) \cap Held(t) = {}
  BY <1>1 DEF PlacedOnce
<1> HIDE DEF closed
<1>8. UNION {Held(s) : s \in Built'} = Real \ todo'
  <2>1. UNION {Held(s) : s \in Built'} = (UNION {Held(s) : s \in Built}) \cup {i}
    BY <1>1
  <2> QED  BY <2>1, <1>4, <1>5
<1>9. \A s, t \in Built' : s # t => Held(s) \cap Held(t) = {}
  <2>1. \A s \in closed : Held(s) \cap Held(cur') = {}
    BY <1>1, <1>5, <1>6
  <2> QED  BY <2>1, <1>1, <1>7
<1> QED  BY <1>3, <1>8, <1>9 DEF PlacedOnce

\* The open span, if there is one, is closed, and the probe reached opens the next.
LEMMA OpenPlaced ==
  ASSUME TypeOK, PlacedOnce, NEW i \in todo,
         cur' # NoSpan, Held(cur') = {i},
         probes' = probes, todo' = todo \ {i},
         IF cur = NoSpan THEN spans' = spans ELSE spans' = Append(spans, cur)
  PROVE  PlacedOnce'
<1>1. Built' = Built \cup {cur'}
  <2>1. CASE cur = NoSpan
    BY <2>1 DEF Built
  <2>2. CASE cur # NoSpan
    <3>1. {spans'[k] : k \in DOMAIN spans'} = {spans[k] : k \in DOMAIN spans} \cup {cur}
      BY <2>2, Closed DEF TypeOK
    <3> QED  BY <2>2, <3>1 DEF Built
  <2> QED  BY <2>1, <2>2
<1>2. Real' = Real
  BY DEF Real
<1>3. UNION {Held(s) : s \in Built} = Real \ todo
  BY DEF PlacedOnce
<1>4. i \in Real /\ \A s \in Built : i \notin Held(s)
  BY <1>3 DEF TypeOK
<1>5. UNION {Held(s) : s \in Built'} = Real \ todo'
  <2>1. UNION {Held(s) : s \in Built'} = (UNION {Held(s) : s \in Built}) \cup {i}
    BY <1>1
  <2> QED  BY <2>1, <1>3, <1>4
<1>6. \A s, t \in Built' : s # t => Held(s) \cap Held(t) = {}
  <2>1. \A s, t \in Built : s # t => Held(s) \cap Held(t) = {}
    BY DEF PlacedOnce
  <2> QED  BY <2>1, <1>1, <1>4
<1> QED  BY <1>2, <1>5, <1>6 DEF PlacedOnce

\* No definition about one span looks at anything but the table.
LEMMA SameTable ==
  ASSUME probes' = probes
  PROVE  /\ Real' = Real /\ Nested' = Nested
         /\ \A s : Good(s)' = Good(s) /\ Fits(s)' = Fits(s)
BY DEF Real, Nested, NestedTable, Good, Fits, ByteLength, ProbeEnd, Registers, End

\* The probe reached joins the open span: Overlap and Extend.
LEMMA GrowStep ==
  ASSUME IInv, NEW i \in todo, Walk(i), UNCHANGED spans,
         cur # NoSpan, probes[i].addr <= End(cur), Nested => cur'.total <= MaxBatchRegisters,
         cur' = [cur EXCEPT !.parts = @ \cup {Part(i, cur.start)},
                            !.total = IF ProbeEnd(i) > End(cur) THEN ProbeEnd(i) - cur.start ELSE @]
  PROVE  IInv'
<1> USE DEF IInv
<1>1. /\ probes \in Layout /\ i \in Real /\ cur \in SpanType /\ Good(cur) /\ cur.start <= probes[i].addr
      /\ probes' = probes /\ spans' = spans /\ todo' = todo \ {i} /\ done' = done
  BY DEF TypeOK, SpansGood, Order, Walk
<1>2. /\ cur' \in SpanType /\ Good(cur') /\ cur'.start = cur.start /\ End(cur) <= End(cur')
      /\ Held(cur') = Held(cur) \cup {i}
  <2>1. \A t : t = [cur EXCEPT !.parts = @ \cup {Part(i, cur.start)},
                               !.total = IF ProbeEnd(i) > End(cur) THEN ProbeEnd(i) - cur.start ELSE @]
               => /\ t \in SpanType /\ Good(t) /\ t.start = cur.start /\ End(cur) <= End(t)
                  /\ Held(t) = Held(cur) \cup {i}
    BY <1>1, GrownGood, Zenon
  <2> QED  BY <2>1, Zenon
<1>3. cur' # NoSpan
  BY <1>2 DEF Good, NoSpan
<1>4. PlacedOnce'
  BY <1>1, <1>2, <1>3, GrowPlaced
<1>5. TypeOK'
  <2>1. SpanType' = SpanType
    BY <1>1 DEF SpanType, PartType
  <2>2. cur' \in SpanType' /\ spans' \in Seq(SpanType)' /\ probes' \in Layout /\ todo' \subseteq Real'
    BY <2>1, <1>1, <1>2, SameTable DEF TypeOK
  <2> QED  BY <2>2, <1>1 DEF TypeOK
<1>6. Order'
  BY <1>1, <1>2, <1>3 DEF Order
<1>7. SpansGood'
  <2>1. Good(cur)' /\ Fits(cur)'
    BY <1>1, <1>2, SameTable DEF Fits
  <2> QED  BY <2>1, <1>1, SameTable DEF SpansGood
<1>8. SpansApart'
  BY <1>1, <1>2 DEF SpansApart, End
<1> QED  BY <1>4, <1>5, <1>6, <1>7, <1>8

\* The probe reached opens a span: Begin and Restart.
LEMMA OpenStep ==
  ASSUME IInv, NEW i \in todo, Walk(i), cur' = NewSpan(i),
         IF cur = NoSpan THEN spans' = spans ELSE spans' = Append(spans, cur),
         cur # NoSpan => End(cur) <= probes[i].addr
  PROVE  IInv'
<1> USE DEF IInv
<1>1. /\ probes \in Layout /\ i \in Real /\ cur \in SpanType /\ spans \in Seq(SpanType)
      /\ probes' = probes /\ todo' = todo \ {i} /\ done' = done
      /\ \A j \in todo : probes[i].addr <= probes[j].addr
      /\ probes[i].addr \in Nat
  BY ProbeType DEF TypeOK, Walk
<1>2. cur' \in SpanType /\ Good(cur') /\ cur' # NoSpan /\ Held(cur') = {i} /\ cur'.start = probes[i].addr
  BY <1>1, NewSpanGood DEF NewSpan
<1>3. PlacedOnce'
  BY <1>1, <1>2, OpenPlaced
<1>4. Fits(cur')
  BY <1>1 DEF Fits, NewSpan, Nested, NestedTable, Real
<1>5. ~done
  BY DEF Order
<1>6. CASE cur = NoSpan
  <2>1. spans' = spans /\ spans = <<>>
    BY <1>6, <1>5 DEF Order
  <2>2. TypeOK'
    <3>1. SpanType' = SpanType
      BY <1>1 DEF SpanType, PartType
    <3>2. cur' \in SpanType' /\ spans' \in Seq(SpanType)' /\ probes' \in Layout /\ todo' \subseteq Real'
      BY <3>1, <2>1, <1>1, <1>2, SameTable DEF TypeOK
    <3> QED  BY <3>2, <1>1 DEF TypeOK
  <2>3. Order'
    BY <1>1, <1>2, <1>5 DEF Order
  <2>4. SpansGood'
    BY <1>1, <1>2, <1>4, <2>1, SameTable DEF SpansGood, Fits
  <2>5. SpansApart'
    BY <2>1 DEF SpansApart
  <2> QED  BY <1>3, <2>2, <2>3, <2>4, <2>5
<1>7. CASE cur # NoSpan
  <2>1. /\ spans' \in Seq(SpanType) /\ DOMAIN spans' = DOMAIN spans \cup {Len(spans) + 1}
        /\ Len(spans) \in Nat /\ DOMAIN spans = 1..Len(spans)
        /\ \A k \in DOMAIN spans : spans'[k] = spans[k]
        /\ spans'[Len(spans) + 1] = cur
    BY <1>7, <1>1, Closed
  <2>2. TypeOK'
    <3>1. spans' \in Seq(SpanType)'
      BY <1>1, <2>1 DEF SpanType, PartType
    <3>2. cur' \in SpanType'
      BY <1>1, <1>2 DEF SpanType, PartType
    <3> QED  BY <1>1, <3>1, <3>2, SameTable DEF TypeOK
  <2>3. Order'
    BY <1>1, <1>2, <1>5 DEF Order
  <2>4. SpansGood'
    <3>1. \A k \in DOMAIN spans' : Good(spans'[k]) /\ Fits(spans'[k])
      BY <1>7, <2>1 DEF SpansGood
    <3> QED  BY <3>1, <1>1, <1>2, <1>4, SameTable DEF SpansGood, Fits
  <2>5. SpansApart'
    <3>1. /\ \A j, k \in DOMAIN spans : j < k => End(spans[j]) <= spans[k].start
          /\ \A j \in DOMAIN spans : End(spans[j]) <= cur.start
          /\ End(cur) <= probes[i].addr
      BY <1>7 DEF SpansApart
    <3>2. \A j \in DOMAIN spans : End(spans[j]) <= probes[i].addr
      <4> TAKE j \in DOMAIN spans
      <4>1. spans[j] \in SpanType
        BY <1>1, <2>1
      <4>2. End(spans[j]) \in Nat /\ End(cur) \in Nat /\ cur.start \in Nat /\ cur.start <= End(cur)
        BY <4>1, <1>1 DEF SpanType, End
      <4> QED  BY <4>2, <3>1, <1>1
    <3>3. \A j \in DOMAIN spans' : End(spans'[j]) <= cur'.start
      BY <3>1, <3>2, <1>2, <2>1
    <3>4. \A j, k \in DOMAIN spans' : j < k => End(spans'[j]) <= spans'[k].start
      BY <3>1, <2>1
    <3> QED  BY <3>3, <3>4 DEF SpansApart, End
  <2> QED  BY <1>3, <2>2, <2>3, <2>4, <2>5
<1> QED  BY <1>6, <1>7

LEMMA FinishStep ==
  ASSUME IInv, Finish
  PROVE  IInv'
<1> USE DEF IInv
<1>1. /\ todo = {} /\ ~done /\ cur' = NoSpan /\ done' = TRUE /\ probes' = probes /\ todo' = todo
      /\ spans \in Seq(SpanType) /\ cur \in SpanType
      /\ IF cur = NoSpan THEN spans' = spans ELSE spans' = Append(spans, cur)
  BY DEF Finish, TypeOK
<1>2. cur # NoSpan =>
        /\ spans' \in Seq(SpanType) /\ DOMAIN spans' = DOMAIN spans \cup {Len(spans) + 1}
        /\ Len(spans) \in Nat /\ DOMAIN spans = 1..Len(spans)
        /\ \A k \in DOMAIN spans : spans'[k] = spans[k]
        /\ spans'[Len(spans) + 1] = cur
  BY <1>1, Closed
<1>3. TypeOK'
  <2>1. NoSpan \in SpanType' /\ spans' \in Seq(SpanType)'
    <3>1. SpanType' = SpanType
      BY <1>1 DEF SpanType, PartType
    <3>2. NoSpan \in SpanType
      BY DEF NoSpan, SpanType
    <3> QED  BY <3>1, <3>2, <1>1, <1>2
  <2> QED  BY <2>1, <1>1, SameTable DEF TypeOK
<1>4. Order'
  BY <1>1 DEF Order
<1>5. SpansGood'
  <2>1. \A k \in DOMAIN spans' : Good(spans'[k]) /\ Fits(spans'[k])
    BY <1>1, <1>2 DEF SpansGood
  <2> QED  BY <2>1, <1>1, SameTable DEF SpansGood
<1>6. SpansApart'
  <2>1. \A j, k \in DOMAIN spans' : j < k => End(spans'[j]) <= spans'[k].start
    BY <1>1, <1>2 DEF SpansApart
  <2> QED  BY <2>1, <1>1 DEF SpansApart, End
<1>7. PlacedOnce'
  <2>1. Built' = Built
    <3>1. CASE cur = NoSpan
      BY <3>1, <1>1 DEF Built
    <3>2. CASE cur # NoSpan
      <4>1. {spans'[k] : k \in DOMAIN spans'} = {spans[k] : k \in DOMAIN spans} \cup {cur}
        BY <3>2, <1>2
      <4> QED  BY <3>2, <4>1, <1>1 DEF Built
    <3> QED  BY <3>1, <3>2
  <2> QED  BY <2>1, <1>1, SameTable DEF PlacedOnce
<1> QED  BY <1>3, <1>4, <1>5, <1>6, <1>7

LEMMA NextIInv == IInv /\ [Next]_vars => IInv'
<1> SUFFICES ASSUME IInv, [Next]_vars PROVE IInv'
  OBVIOUS
<1> USE DEF IInv
<1>1. ASSUME NEW i \in todo PROVE i \in Real /\ probes \in Layout /\ probes[i].addr \in Nat /\ probes[i].count \in Nat
  BY <1>1, ProbeType DEF TypeOK
<1>2. cur # NoSpan => cur \in SpanType /\ cur.start \in Nat /\ cur.total \in Nat /\ Good(cur)
  BY DEF TypeOK, SpanType, SpansGood
<1>3. ASSUME NEW i \in todo, Begin(i) PROVE IInv'
  <2>1. Walk(i) /\ cur = NoSpan /\ cur' = NewSpan(i) /\ spans' = spans
    BY <1>3 DEF Begin
  <2> QED  BY <2>1, OpenStep
<1>4. ASSUME NEW i \in todo, Overlap(i) PROVE IInv'
  <2>1. /\ Walk(i) /\ cur # NoSpan /\ probes[i].addr < End(cur) /\ UNCHANGED spans
        /\ cur' = [cur EXCEPT !.parts = @ \cup {Part(i, cur.start)},
                              !.total = IF ProbeEnd(i) > End(cur) THEN ProbeEnd(i) - cur.start ELSE @]
    BY <1>4 DEF Overlap
  <2>2. probes[i].addr <= End(cur) /\ cur.start <= probes[i].addr
    BY <1>1, <1>2, <2>1 DEF End, Order
  <2>3. Nested => cur'.total = cur.total
    <3> HAVE Nested
    <3>1. ProbeEnd(i) <= End(cur)
      BY <1>1, <1>2, <2>1, <2>2, NestedInside
    <3>2. ProbeEnd(i) \in Nat /\ End(cur) \in Nat
      BY <1>1, <1>2, <2>1 DEF ProbeEnd, End
    <3> QED  BY <2>1, <3>1, <3>2, <1>2 DEF SpanType
  <2>4. Nested => cur.total <= MaxBatchRegisters
    BY <2>1 DEF SpansGood, Fits
  <2> QED  BY <2>1, <2>2, <2>3, <2>4, GrowStep
<1>5. ASSUME NEW i \in todo, Extend(i) PROVE IInv'
  <2>1. /\ Walk(i) /\ cur # NoSpan /\ probes[i].addr = End(cur) /\ UNCHANGED spans
        /\ cur.total + probes[i].count <= MaxBatchRegisters
        /\ cur' = [cur EXCEPT !.parts = @ \cup {Part(i, cur.start)}, !.total = @ + probes[i].count]
    BY <1>5 DEF Extend
  <2>2. i \in Real /\ probes[i].count > 0
    BY <1>1, ProbeType
  <2>3. ProbeEnd(i) > End(cur) /\ ProbeEnd(i) - cur.start = cur.total + probes[i].count
    BY <1>1, <1>2, <2>1, <2>2 DEF ProbeEnd, End
  <2>4. cur' = [cur EXCEPT !.parts = @ \cup {Part(i, cur.start)},
                           !.total = IF ProbeEnd(i) > End(cur) THEN ProbeEnd(i) - cur.start ELSE @]
    BY <2>1, <2>3, <1>2 DEF SpanType
  <2>5. cur'.total <= MaxBatchRegisters
    BY <2>1, <1>2 DEF SpanType
  <2>6. probes[i].addr <= End(cur)
    BY <1>1, <2>1
  <2> QED  BY <2>1, <2>4, <2>5, <2>6, GrowStep
<1>6. ASSUME NEW i \in todo, Restart(i) PROVE IInv'
  <2>1. /\ Walk(i) /\ cur # NoSpan /\ spans' = Append(spans, cur) /\ cur' = NewSpan(i)
        /\ probes[i].addr > End(cur) \/ probes[i].addr = End(cur)
    BY <1>6 DEF Restart
  <2>2. End(cur) <= probes[i].addr
    BY <2>1, <1>1, <1>2 DEF End
  <2> QED  BY <2>1, <2>2, OpenStep
<1>7. CASE Finish
  BY <1>7, FinishStep
<1>8. CASE UNCHANGED vars
  <2>1. /\ probes' = probes /\ todo' = todo /\ spans' = spans /\ cur' = cur /\ done' = done
    BY <1>8 DEF vars
  <2>2. TypeOK'
    BY <2>1 DEF TypeOK, SpanType, PartType, Real
  <2>3. Order' /\ SpansApart'
    BY <2>1 DEF Order, SpansApart, Real, End
  <2>4. SpansGood'
    BY <2>1, SameTable DEF SpansGood
  <2>5. PlacedOnce'
    BY <2>1 DEF PlacedOnce, Built, Real
  <2> QED  BY <2>2, <2>3, <2>4, <2>5
<1> QED  BY <1>3, <1>4, <1>5, <1>6, <1>7, <1>8 DEF Next

LEMMA IInvariant == Spec => []IInv
<1>1. Init => IInv
  BY InitIInv
<1>2. IInv /\ [Next]_vars => IInv'
  BY NextIInv
<1> QED  BY <1>1, <1>2, PTL DEF Spec

-----------------------------------------------------------------------------
(* The theorems. *)

\* What holds of each span, closed or open.
LEMMA BuiltGood ==
  ASSUME IInv, NEW s \in Built
  PROVE  s \in SpanType /\ Good(s) /\ Fits(s)
BY DEF IInv, TypeOK, SpansGood, Built

\* Every variable keeps its type: no span begins or grows at a negative number.
THEOREM TypeCorrect == Spec => []TypeOK
<1>1. IInv => TypeOK
  BY DEF IInv
<1> QED  BY <1>1, IInvariant, PTL

\* Each register of the table is in one span and in no other.
THEOREM PlacedCorrectly == Spec => []PlacedOnce
<1>1. IInv => PlacedOnce
  BY DEF IInv
<1> QED  BY <1>1, IInvariant, PTL

\* Spans ascend and do not share a register.
THEOREM ApartAlways == Spec => []SpansApart
<1>1. IInv => SpansApart
  BY DEF IInv
<1> QED  BY <1>1, IInvariant, PTL

\* The bytes cut out for a probe are those of its registers and lie inside the answer to its span.
THEOREM SlicesCorrect == Spec => []SlicesInside
<1>1. IInv => SlicesInside
  <2> SUFFICES ASSUME IInv, NEW s \in Built, NEW p \in s.parts
               PROVE  /\ p.offset = 2 * (probes[p.probe].addr - s.start)
                      /\ p.length = ByteLength(p.probe)
                      /\ 0 <= p.offset /\ p.offset + p.length <= 2 * s.total
    BY DEF SlicesInside
  <2>1. /\ p.probe \in Real
        /\ p.offset = 2 * (probes[p.probe].addr - s.start)
        /\ p.length = ByteLength(p.probe)
        /\ s.start <= probes[p.probe].addr /\ ProbeEnd(p.probe) <= End(s)
    BY BuiltGood DEF Good
  <2>2. s.start \in Nat /\ s.total \in Nat
    BY BuiltGood DEF SpanType
  <2>3. probes[p.probe].addr \in Nat /\ probes[p.probe].count \in Nat
    BY <2>1, ProbeType DEF IInv, TypeOK
  <2> QED  BY <2>1, <2>2, <2>3 DEF ByteLength, ProbeEnd, End
<1> QED  BY <1>1, IInvariant, PTL

\* A span reads no register that its section does not list.
THEOREM ListedAlways == Spec => []OnlyListed
<1>1. IInv => OnlyListed
  <2> SUFFICES ASSUME IInv, NEW s \in Built, NEW a \in s.start..(End(s) - 1)
               PROVE  \E i \in Held(s) : a \in Registers(i)
    BY DEF OnlyListed
  <2>1. PICK p \in s.parts : a \in Registers(p.probe)
    BY BuiltGood DEF Good
  <2>2. p.probe \in Held(s)
    BY DEF Held
  <2> QED  BY <2>1, <2>2
<1> QED  BY <1>1, IInvariant, PTL

\* No request is longer than the limit where probes overlap by nesting only.
THEOREM LimitKept == Spec => []WithinLimit
<1>1. IInv => WithinLimit
  BY BuiltGood DEF WithinLimit, Fits
<1> QED  BY <1>1, IInvariant, PTL

-----------------------------------------------------------------------------
(* Bits and numbers.                                                         *)

\* A name for the powers of two, so that the provers see their arguments.
Pow(n) == 2^n

LEMMA Powers ==
  /\ Pow(0) = 1 /\ Pow(1) = 2 /\ Pow(2) = 4 /\ Pow(3) = 8 /\ Pow(4) = 16 /\ Pow(5) = 32 /\ Pow(6) = 64
  /\ Pow(7) = 128 /\ Pow(8) = 256 /\ Pow(9) = 512 /\ Pow(10) = 1024 /\ Pow(11) = 2048 /\ Pow(12) = 4096
  /\ Pow(13) = 8192 /\ Pow(14) = 16384 /\ Pow(15) = 32768 /\ Pow(16) = 65536
BY DEF Pow

LEMMA BitsIs == \A w, lo, n : Bits(w, lo, n) = (w \div Pow(lo)) % Pow(n)
BY DEF Bits, Pow

\* One bit of a word with one bit on, of its complement, of none, of all, and of the n lowest.
LEMMA OneBit == \A b, c \in All : Bits(Pow(b), c, 1) = 1 <=> c = b
<1> SUFFICES ASSUME NEW b \in All, NEW c \in All PROVE (Pow(b) \div Pow(c)) % 2 = 1 <=> c = b
  BY BitsIs, Powers
<1>1. b \in {0, 1, 2, 3, 4, 5, 6, 7, 8, 9, 10, 11, 12, 13, 14, 15}
  BY DEF All
<1>2. c \in {0, 1, 2, 3, 4, 5, 6, 7, 8, 9, 10, 11, 12, 13, 14, 15}
  BY DEF All
<1>3. CASE b <= 7 BY <1>1, <1>2, <1>3, Powers
<1>4. CASE b > 7 BY <1>1, <1>2, <1>4, Powers
<1>5. QED BY <1>1, <1>3, <1>4

LEMMA OtherBits == \A b, c \in All : Bits(65535 - Pow(b), c, 1) = 1 <=> c # b
<1> SUFFICES ASSUME NEW b \in All, NEW c \in All PROVE ((65535 - Pow(b)) \div Pow(c)) % 2 = 1 <=> c # b
  BY BitsIs, Powers
<1>1. b \in {0, 1, 2, 3, 4, 5, 6, 7, 8, 9, 10, 11, 12, 13, 14, 15}
  BY DEF All
<1>2. c \in {0, 1, 2, 3, 4, 5, 6, 7, 8, 9, 10, 11, 12, 13, 14, 15}
  BY DEF All
<1>3. CASE b <= 7 BY <1>1, <1>2, <1>3, Powers
<1>4. CASE b > 7 BY <1>1, <1>2, <1>4, Powers
<1>5. QED BY <1>1, <1>3, <1>4

LEMMA NoAndAllBits == \A c \in All : Bits(0, c, 1) = 0 /\ Bits(65535, c, 1) = 1
<1> SUFFICES ASSUME NEW c \in All PROVE (0 \div Pow(c)) % 2 = 0 /\ (65535 \div Pow(c)) % 2 = 1
  BY BitsIs, Powers
<1>1. c \in {0, 1, 2, 3, 4, 5, 6, 7, 8, 9, 10, 11, 12, 13, 14, 15}
  BY DEF All
<1>2. QED BY <1>1, Powers

LEMMA LowBits == \A n \in 1..16 : \A c \in 0..(n - 1) : Bits(Pow(n) - 1, c, 1) = 1
<1> SUFFICES ASSUME NEW n \in 1..16, NEW c \in 0..(n - 1) PROVE ((Pow(n) - 1) \div Pow(c)) % 2 = 1
  BY BitsIs, Powers
<1>1. n \in {1, 2, 3, 4, 5, 6, 7, 8, 9, 10, 11, 12, 13, 14, 15, 16}
  OBVIOUS
<1>2. c \in {0, 1, 2, 3, 4, 5, 6, 7, 8, 9, 10, 11, 12, 13, 14, 15} /\ c < n
  OBVIOUS
<1>3. CASE n <= 8 BY <1>1, <1>2, <1>3, Powers
<1>4. CASE n > 8 BY <1>1, <1>2, <1>4, Powers
<1>5. QED BY <1>1, <1>3, <1>4

\* No bit of a clock is lost.
LEMMA ClockBits ==
  ASSUME NEW hi \in Nat, NEW lo \in Nat, hi < 65536, lo < 65536
  PROVE  LET v == DecodeBMSClock(hi, lo)
         IN  /\ hi = (v[1] - 2000) * 1024 + v[2] * 64 + v[3] * 2 + (v[4] \div 16)
             /\ lo = (v[4] % 16) * 4096 + v[5] * 64 + v[6]
<1>1. \A q \in Nat : q = 2 * (q \div 2) + (q % 2) /\ q % 2 \in 0..1 /\ q \div 2 \in Nat
  OBVIOUS
<1>2. \A q \in Nat : q = 32 * (q \div 32) + (q % 32) /\ q % 32 \in 0..31 /\ q \div 32 \in Nat
  OBVIOUS
<1>3. \A q \in Nat : q = 16 * (q \div 16) + (q % 16) /\ q % 16 \in 0..15 /\ q \div 16 \in Nat
  OBVIOUS
<1>4. \A q \in Nat : q = 64 * (q \div 64) + (q % 64) /\ q % 64 \in 0..63 /\ q \div 64 \in Nat
  OBVIOUS
<1>5. \A q \in Nat : q = 1024 * (q \div 1024) + (q % 1024) /\ q % 1024 \in 0..1023 /\ q \div 1024 \in Nat
  OBVIOUS
<1>6. \A q \in Nat : q = 4096 * (q \div 4096) + (q % 4096) /\ q % 4096 \in 0..4095 /\ q \div 4096 \in Nat
  OBVIOUS
<1>7. hi \div 1024 < 64 /\ lo \div 4096 < 16
  BY <1>5, <1>6
<1>8. (hi \div 2) \div 32 = hi \div 64 /\ (hi \div 64) \div 16 = hi \div 1024
  BY <1>1, <1>2, <1>3, <1>4, <1>5, <1>7
<1>9. lo \div 4096 = (lo \div 64) \div 64
  BY <1>4, <1>6, <1>7
<1>10. (hi \div 1024) % 64 = hi \div 1024 /\ (lo \div 4096) % 16 = lo \div 4096
  <2>1. \A q \in Nat : (q < 64 => q % 64 = q) /\ (q < 16 => q % 16 = q)
    OBVIOUS
  <2>2. hi \div 1024 \in Nat /\ lo \div 4096 \in Nat
    BY <1>5, <1>6
  <2>3. QED BY <1>7, <2>1, <2>2
<1>11. hi = ((hi \div 1024) % 64) * 1024 + ((hi \div 64) % 16) * 64 + ((hi \div 2) % 32) * 2 + (hi % 2)
  BY <1>1, <1>2, <1>3, <1>4, <1>5, <1>7, <1>8, <1>10
<1>12. lo = ((lo \div 4096) % 16) * 4096 + ((lo \div 64) % 64) * 64 + (lo % 64)
  BY <1>4, <1>6, <1>7, <1>9, <1>10
<1> DEFINE v == DecodeBMSClock(hi, lo)
<1>13. /\ v[1] = 2000 + ((hi \div 1024) % 64) /\ v[2] = (hi \div 64) % 16 /\ v[3] = (hi \div 2) % 32
       /\ v[4] = 16 * (hi % 2) + ((lo \div 4096) % 16) /\ v[5] = (lo \div 64) % 64 /\ v[6] = lo % 64
  <2>1. hi \div 1 = hi /\ lo \div 1 = lo
    BY <1>7
  <2>2. /\ Bits(hi, 10, 6) = (hi \div 1024) % 64 /\ Bits(hi, 6, 4) = (hi \div 64) % 16
        /\ Bits(hi, 1, 5) = (hi \div 2) % 32 /\ Bits(hi, 0, 1) = hi % 2
    BY <2>1, BitsIs, Powers
  <2>3. /\ Bits(lo, 12, 4) = (lo \div 4096) % 16 /\ Bits(lo, 6, 6) = (lo \div 64) % 64
        /\ Bits(lo, 0, 6) = lo % 64
    BY <2>1, BitsIs, Powers
  <2>4. QED BY <2>2, <2>3 DEF DecodeBMSClock
<1>14. (v[4] \div 16) = hi % 2 /\ v[4] % 16 = (lo \div 4096) % 16
  <2>1. hi % 2 \in 0..1 /\ (lo \div 4096) % 16 \in 0..15
    BY <1>1, <1>3, <1>6, <1>7
  <2>2. \A d \in 0..1, e \in 0..15 : 16 * d + e \in Nat
    OBVIOUS
  <2>3. \A d \in 0..1, e \in 0..15 : (16 * d + e) \div 16 = d /\ (16 * d + e) % 16 = e
    BY <1>3, <2>2
  <2>4. QED BY <1>13, <2>1, <2>3
<1>15. (hi \div 1024) % 64 \in Nat
  BY <1>4, <1>5, <1>7
<1> HIDE DEF v
<1>16. hi = (v[1] - 2000) * 1024 + v[2] * 64 + v[3] * 2 + (v[4] \div 16)
  BY <1>11, <1>13, <1>14, <1>15
<1>17. lo = (v[4] % 16) * 4096 + v[5] * 64 + v[6]
  BY <1>12, <1>13, <1>14
<1>18. QED BY <1>16, <1>17 DEF v

\* Two's complement.
LEMMA SignKept == \A w \in Nat : w < 65536 => Signed(w) % 65536 = w /\ w % 65536 = w
<1>1. \A w \in Nat : w < 65536 => w % 65536 = w /\ (w - 65536) % 65536 = w
  OBVIOUS
<1> SUFFICES ASSUME NEW w \in Nat, w < 65536 PROVE Signed(w) % 65536 = w /\ w % 65536 = w
  OBVIOUS
<1>2. w % 65536 = w /\ (w - 65536) % 65536 = w
  BY <1>1
<1>3. Signed(w) = w \/ Signed(w) = w - 65536
  BY DEF Signed
<1>4. QED BY <1>2, <1>3

\* The wrap of a year loses no bit of it.
LEMMA YearKept == \A w \in Nat : w < 65536 => (Year(w) - 2000) % 65536 = w
<1>1. \A x \in Nat : x < 65536 => x % 65536 = x
  OBVIOUS
<1>2. \A x \in Nat : x < 65536 => (x - 65536) % 65536 = x
  OBVIOUS
<1>3. \A x \in Nat : x < 65536 => (x + 65536) % 65536 = x
  OBVIOUS
<1> SUFFICES ASSUME NEW w \in Nat, w < 65536 PROVE (Year(w) - 2000) % 65536 = w
  OBVIOUS
<1>4. PICK y \in Int : y = w + 2000
  OBVIOUS
<1>5. Year(w) = y % 65536
  BY <1>4 DEF Year
<1>6. CASE y < 65536
  <2>1. Year(w) = y /\ y - 2000 = w
    BY <1>1, <1>4, <1>5, <1>6
  <2>2. QED BY <1>1, <2>1
<1>7. CASE ~(y < 65536)
  <2>1. PICK z \in Nat : z = y - 65536
    BY <1>4, <1>7
  <2>2. z < 65536 /\ y = z + 65536 /\ z - 2000 = w - 65536
    BY <1>4, <2>1
  <2>3. Year(w) = z
    BY <1>3, <1>5, <2>2
  <2>4. (w - 65536) % 65536 = w
    BY <1>2
  <2>5. QED BY <2>2, <2>3, <2>4
<1>8. QED BY <1>6, <1>7

\* What is shown of a number without its last digit is nearest to it, on whichever side a tie goes.
LEMMA RoundedNear == \A form : \A n \in Int : Near(Rounded(form, n), n)
<1> SUFFICES ASSUME NEW form, NEW n \in Int PROVE Near(Rounded(form, n), n)
  OBVIOUS
<1> DEFINE m == Magnitude(n)
           up == m % 10 > 5 \/ (m % 10 = 5 /\ <<form, m>> \in TiesUp)
           q == (m \div 10) + (IF up THEN 1 ELSE 0)
<1>1. m \in Nat /\ (n = m \/ n = -m) /\ (n < 0 <=> n # m)
  BY DEF Magnitude
<1>2. Rounded(form, n) = IF n < 0 THEN -q ELSE q
  BY DEF Rounded
<1> HIDE DEF m
<1>3. m = 10 * (m \div 10) + (m % 10) /\ m % 10 \in 0..9 /\ m \div 10 \in Nat
  BY <1>1
<1>4. q \in Nat /\ 10 * q - m \in -5..5
  <2>1. CASE up
    <3>1. q = (m \div 10) + 1 /\ m % 10 >= 5
      BY <1>3, <2>1
    <3> HIDE DEF q, up
    <3>2. QED BY <1>3, <3>1
  <2>2. CASE ~up
    <3>1. q = m \div 10 /\ m % 10 <= 5
      BY <1>3, <2>2
    <3> HIDE DEF q, up
    <3>2. QED BY <1>3, <3>1
  <2>3. QED BY <2>1, <2>2
<1> HIDE DEF q
<1>5. QED BY <1>1, <1>2, <1>4 DEF Near

\* A set of numbers has a least one.
LEMMA LeastNumber == \A Q \in SUBSET Nat : Q # {} => \E n \in Q : \A m \in Q : n <= m
<1> DEFINE R == OpToRel(<, Nat)
<1>1. \A m, n \in Nat : <<m, n>> \in R <=> m < n
  BY DEF OpToRel
<1>2. IsWellFoundedOn(R, Nat)
  BY NatLessThanWellFounded
<1> HIDE DEF R
<1> SUFFICES ASSUME NEW Q \in SUBSET Nat, Q # {} PROVE \E n \in Q : \A m \in Q : n <= m
  OBVIOUS
<1>3. PICK n \in Q : \A m \in Q : ~(<<m, n>> \in R)
  BY <1>2, WFMin
<1>4. ASSUME NEW m \in Q PROVE n <= m
  <2>1. m \in Nat /\ n \in Nat /\ ~(m < n)
    BY <1>1, <1>3
  <2>2. QED BY <2>1
<1>5. QED BY <1>4

\* The characters of words are numbers, two to a word.
LEMMA CharactersType ==
  ASSUME NEW words \in Seq(Nat)
  PROVE  Characters(words) \in Seq(Nat) /\ Len(Characters(words)) = 2 * Len(words)
<1>1. Len(words) \in Nat /\ \A k \in 1..Len(words) : words[k] \in Nat
  BY ElementOfSeq
<1>2. \A w \in Nat : (w \div 256) \in Nat /\ w % 256 \in Nat
  OBVIOUS
<1>3. ASSUME NEW i \in 1..(2 * Len(words))
      PROVE  (IF i % 2 = 1 THEN words[(i + 1) \div 2] \div 256 ELSE words[i \div 2] % 256) \in Nat
  <2>1. \A q \in Nat : q = 2 * (q \div 2) + (q % 2) /\ q % 2 \in 0..1 /\ q \div 2 \in Nat
    OBVIOUS
  <2>2. i \in Nat /\ i + 1 \in Nat /\ 1 <= i /\ i <= 2 * Len(words)
    BY <1>1
  <2>3. CASE i % 2 = 1
    <3>1. i = 2 * (i \div 2) + 1 /\ i \div 2 \in Nat
      BY <2>1, <2>2, <2>3
    <3>2. i + 1 = 2 * ((i + 1) \div 2) + ((i + 1) % 2) /\ (i + 1) % 2 \in 0..1 /\ (i + 1) \div 2 \in Nat
      BY <2>1, <2>2
    <3>3. (i + 1) \div 2 \in 1..Len(words)
      BY <3>1, <3>2, <1>1, <2>2
    <3>4. words[(i + 1) \div 2] \in Nat
      BY <3>3, <1>1
    <3>5. QED BY <2>3, <3>4, <1>2
  <2>4. CASE i % 2 # 1
    <3>1. i = 2 * (i \div 2) /\ i \div 2 \in Nat
      <4>1. i = 2 * (i \div 2) + (i % 2) /\ i % 2 \in 0..1 /\ i \div 2 \in Nat
        BY <2>1, <2>2
      <4>2. i % 2 = 0
        BY <4>1, <2>4
      <4>3. QED BY <4>1, <4>2
    <3>2. i \div 2 \in 1..Len(words)
      BY <3>1, <1>1, <2>2
    <3>3. words[i \div 2] \in Nat
      BY <3>2, <1>1
    <3>4. QED BY <2>4, <3>3, <1>2
  <2>5. QED BY <2>3, <2>4
<1>4. Characters(words) \in [1..(2 * Len(words)) -> Nat]
  BY <1>3 DEF Characters
<1>5. 2 * Len(words) \in Nat
  BY <1>1
<1>6. QED BY <1>4, <1>5

\* The text of characters: the part before the first zero, without the blanks at its end.
LEMMA TextIs ==
  ASSUME NEW words \in Seq(Nat)
  PROVE  LET chars == Characters(words)
         IN  \E n \in 0..Len(chars) :
               /\ Text(words) = SubSeq(chars, 1, n)
               /\ n < Len(chars) => chars[n + 1] \in {Zero, Blank}
               /\ n > 0 => chars[n] # Blank
<1> DEFINE chars == Characters(words)
<1>1. chars \in Seq(Nat) /\ Len(chars) \in Nat
  BY CharactersType
<1> HIDE DEF chars
<1> DEFINE IsEnd(n) == (\A i \in 1..n : chars[i] # Zero) /\ (n = Len(chars) \/ chars[n + 1] = Zero)
<1>2. \E n \in 0..Len(chars) : IsEnd(n)
  <2> DEFINE Q == {n \in 0..Len(chars) : n = Len(chars) \/ chars[n + 1] = Zero}
  <2>1. Q \in SUBSET Nat /\ Len(chars) \in Q
    BY <1>1
  <2>2. PICK n \in Q : \A m \in Q : n <= m
    BY <2>1, LeastNumber
  <2>3. n \in 0..Len(chars) /\ (n = Len(chars) \/ chars[n + 1] = Zero)
    OBVIOUS
  <2>4. \A i \in 1..n : chars[i] # Zero
    <3> SUFFICES ASSUME NEW i \in 1..n, chars[i] = Zero PROVE FALSE
      OBVIOUS
    <3>1. i - 1 \in 0..Len(chars) /\ (i - 1) + 1 = i /\ ~(n <= i - 1)
      BY <2>3, <1>1
    <3>2. i - 1 \in Q
      BY <3>1
    <3>3. QED BY <3>1, <3>2, <2>2
  <2>5. QED BY <2>3, <2>4
<1> DEFINE end == CHOOSE n \in 0..Len(chars) : IsEnd(n)
<1>3. end \in 0..Len(chars) /\ IsEnd(end)
  BY <1>2
<1> HIDE DEF end
<1> DEFINE IsLast(n) == (\A i \in (n + 1)..end : chars[i] = Blank) /\ (n = 0 \/ chars[n] # Blank)
<1>4. \E n \in 0..end : IsLast(n)
  <2> DEFINE Q == {d \in 0..end : d = end \/ chars[end - d] # Blank}
  <2>1. Q \in SUBSET Nat /\ end \in Q
    BY <1>1, <1>3
  <2>2. PICK d \in Q : \A m \in Q : d <= m
    BY <2>1, LeastNumber
  <2>3. d \in 0..end /\ (d = end \/ chars[end - d] # Blank) /\ end \in Nat
    BY <1>1, <1>3
  <2>4. \A i \in (end - d + 1)..end : chars[i] = Blank
    <3> SUFFICES ASSUME NEW i \in (end - d + 1)..end, chars[i] # Blank PROVE FALSE
      OBVIOUS
    <3>1. end - i \in 0..end /\ end - (end - i) = i /\ ~(d <= end - i)
      BY <2>3
    <3>2. end - i \in Q
      BY <3>1
    <3>3. QED BY <3>1, <3>2, <2>2
  <2>5. end - d \in 0..end
    BY <2>3
  <2>6. IsLast(end - d)
    BY <2>3, <2>4, <2>5
  <2>7. QED BY <2>5, <2>6
<1> DEFINE last == CHOOSE n \in 0..end : IsLast(n)
<1>5. last \in 0..end /\ IsLast(last)
  BY <1>4
<1>6. Text(words) = SubSeq(chars, 1, last)
  BY DEF Text, chars, end
<1> HIDE DEF last
<1>7. last \in 0..Len(chars)
  BY <1>1, <1>3, <1>5
<1>8. last < Len(chars) => chars[last + 1] \in {Zero, Blank}
  <2>1. CASE last = end
    BY <2>1, <1>3
  <2>2. CASE last # end
    <3>1. last + 1 \in (last + 1)..end
      BY <2>2, <1>1, <1>3, <1>5
    <3>2. QED BY <3>1, <1>5
  <2>3. QED BY <2>1, <2>2
<1>9. last > 0 => chars[last] # Blank
  BY <1>5, <1>7
<1>10. QED BY <1>6, <1>7, <1>8, <1>9 DEF chars

\* A word of 16 bits, and a sequence of them.
IsWord(w) == w \in Nat /\ w < 65536
IsWords(w) == w \in Seq(Nat) /\ \A k \in 1..Len(w) : IsWord(w[k])

LEMMA FirstWords ==
  ASSUME NEW w \in Seq(Nat), NEW n \in Nat, n <= Len(w)
  PROVE  /\ First(w, n) \in Seq(Nat) /\ Len(First(w, n)) = n
         /\ \A i \in 1..n : First(w, n)[i] = w[i]
<1>1. Len(w) \in Nat /\ \A i \in 1..n : w[i] \in Nat
  BY ElementOfSeq
<1>2. First(w, n) = SubSeq(w, 1, n)
  BY <1>1 DEF First
<1>3. /\ SubSeq(w, 1, n) \in Seq(Nat)
      /\ Len(SubSeq(w, 1, n)) = IF 1 <= n THEN n - 1 + 1 ELSE 0
      /\ \A i \in 1..(n - 1 + 1) : SubSeq(w, 1, n)[i] = w[1 + i - 1]
  BY <1>1, SubSeqProperties
<1>4. \A i \in 1..n : 1 + i - 1 = i /\ i \in 1..(n - 1 + 1)
  OBVIOUS
<1>5. \A i \in 1..n : SubSeq(w, 1, n)[i] = w[i]
  BY <1>3, <1>4
<1>6. QED BY <1>2, <1>3, <1>5

LEMMA First1 ==
  ASSUME NEW w \in Seq(Nat), 1 <= Len(w)
  PROVE  w[1] \in Nat /\ First(w, 1) = <<w[1]>>
<1>1. First(w, 1) \in Seq(Nat) /\ Len(First(w, 1)) = 1 /\ \A i \in 1..1 : First(w, 1)[i] = w[i]
  BY FirstWords
<1>2. w[1] \in Nat
  BY ElementOfSeq
<1>3. <<w[1]>> \in Seq(Nat) /\ Len(<<w[1]>>) = 1
  BY <1>2
<1>4. QED BY <1>1, <1>2, <1>3, SeqEqual

LEMMA First2 ==
  ASSUME NEW w \in Seq(Nat), 2 <= Len(w)
  PROVE  w[1] \in Nat /\ w[2] \in Nat /\ First(w, 2) = <<w[1], w[2]>>
<1>1. First(w, 2) \in Seq(Nat) /\ Len(First(w, 2)) = 2 /\ \A i \in 1..2 : First(w, 2)[i] = w[i]
  BY FirstWords
<1>2. w[1] \in Nat /\ w[2] \in Nat
  BY ElementOfSeq
<1>3. <<w[1], w[2]>> \in Seq(Nat) /\ Len(<<w[1], w[2]>>) = 2
  BY <1>2
<1>4. QED BY <1>1, <1>2, <1>3, SeqEqual

LEMMA First4 ==
  ASSUME NEW w \in Seq(Nat), 4 <= Len(w)
  PROVE  /\ w[1] \in Nat /\ w[2] \in Nat /\ w[3] \in Nat /\ w[4] \in Nat
         /\ First(w, 4) = <<w[1], w[2], w[3], w[4]>>
<1>1. First(w, 4) \in Seq(Nat) /\ Len(First(w, 4)) = 4 /\ \A i \in 1..4 : First(w, 4)[i] = w[i]
  BY FirstWords
<1>2. w[1] \in Nat /\ w[2] \in Nat /\ w[3] \in Nat /\ w[4] \in Nat
  BY ElementOfSeq
<1>3. <<w[1], w[2], w[3], w[4]>> \in Seq(Nat) /\ Len(<<w[1], w[2], w[3], w[4]>>) = 4
  BY <1>2
<1>4. \A i \in 1..4 : First(w, 4)[i] = <<w[1], w[2], w[3], w[4]>>[i]
  <2> TAKE i \in 1..4
  <2>1. i \in {1, 2, 3, 4}
    OBVIOUS
  <2>2. <<w[1], w[2], w[3], w[4]>>[i] = w[i]
    BY <2>1
  <2>3. QED BY <2>2, <1>1
<1> DEFINE s == First(w, 4)
           t == <<w[1], w[2], w[3], w[4]>>
<1> HIDE DEF s, t
<1>5. s \in Seq(Nat) /\ t \in Seq(Nat) /\ Len(s) = Len(t) /\ \A i \in 1..Len(s) : s[i] = t[i]
  BY <1>1, <1>3, <1>4 DEF s, t
<1>6. s = t
  BY <1>5, SeqEqual
<1>7. QED BY <1>2, <1>6 DEF s, t

LEMMA First6 ==
  ASSUME NEW w \in Seq(Nat), 6 <= Len(w)
  PROVE  /\ w[1] \in Nat /\ w[2] \in Nat /\ w[3] \in Nat /\ w[4] \in Nat /\ w[5] \in Nat /\ w[6] \in Nat
         /\ First(w, 6) = <<w[1], w[2], w[3], w[4], w[5], w[6]>>
<1>1. First(w, 6) \in Seq(Nat) /\ Len(First(w, 6)) = 6 /\ \A i \in 1..6 : First(w, 6)[i] = w[i]
  BY FirstWords
<1>2. w[1] \in Nat /\ w[2] \in Nat /\ w[3] \in Nat /\ w[4] \in Nat /\ w[5] \in Nat /\ w[6] \in Nat
  BY ElementOfSeq
<1>3. <<w[1], w[2], w[3], w[4], w[5], w[6]>> \in Seq(Nat) /\ Len(<<w[1], w[2], w[3], w[4], w[5], w[6]>>) = 6
  BY <1>2
<1>4. \A i \in 1..6 : First(w, 6)[i] = <<w[1], w[2], w[3], w[4], w[5], w[6]>>[i]
  <2> TAKE i \in 1..6
  <2>1. i \in {1, 2, 3, 4, 5, 6}
    OBVIOUS
  <2>2. <<w[1], w[2], w[3], w[4], w[5], w[6]>>[i] = w[i]
    BY <2>1
  <2>3. QED BY <2>2, <1>1
<1> DEFINE s == First(w, 6)
           t == <<w[1], w[2], w[3], w[4], w[5], w[6]>>
<1> HIDE DEF s, t
<1>5. s \in Seq(Nat) /\ t \in Seq(Nat) /\ Len(s) = Len(t) /\ \A i \in 1..Len(s) : s[i] = t[i]
  BY <1>1, <1>3, <1>4 DEF s, t
<1>6. s = t
  BY <1>5, SeqEqual
<1>7. QED BY <1>2, <1>6 DEF s, t

\* What is shown for the words of a probe, if anything is, says the same as the raw value beside it.
LEMMA EncodesAlways ==
  ASSUME NEW form, NEW w, IsWords(w), FormatValue(form, w) # NoData
  PROVE  Encodes(form, FormatValue(form, w), FormatRawValue(form, w))
<1> DEFINE v == FormatValue(form, w)
           r == FormatRawValue(form, w)
<1>1. w \in Seq(Nat) /\ Len(w) \in Nat /\ ~(Len(w) < Wanted(form)) /\ (\A k \in 1..Len(w) : w[k] < 65536)
  BY DEF IsWords, IsWord, FormatValue
<1>2. CASE form = "system_time"
  <2>1. Len(w) >= 6 /\ ~(Len(w) < 6)
    BY <1>1, <1>2 DEF Wanted
  <2>2. v = <<w[4], w[5], w[6], w[3], w[2], Year(w[1])>> /\ r = First(w, 6)
    BY <1>1, <1>2 DEF FormatValue, FormatRawValue, Wanted
  <2>3. w[1] \in Nat /\ First(w, 6) = <<w[1], w[2], w[3], w[4], w[5], w[6]>>
    BY <1>1, <2>1, First6
  <2>4. (Year(w[1]) - 2000) % 65536 = w[1]
    <3>1. 1 \in 1..Len(w)
      BY <1>1, <2>1
    <3>2. w[1] \in Nat /\ w[1] < 65536
      BY <1>1, <2>3, <3>1
    <3>3. QED BY <3>2, YearKept
  <2> HIDE DEF v, r
  <2>5. <<(v[6] - 2000) % 65536, v[5], v[4], v[1], v[2], v[3]>> = r
    BY <2>2, <2>3, <2>4
  <2>6. Encodes(form, v, r)
    BY <2>5, <1>2 DEF Encodes
  <2>7. QED BY <2>6 DEF v, r
<1>3. CASE form = "bms_clock"
  <2>1. Len(w) >= 2 /\ ~(Len(w) < 2)
    BY <1>1, <1>3 DEF Wanted
  <2>2. v = DecodeBMSClock(w[1], w[2]) /\ r = First(w, 2)
    BY <1>1, <1>3 DEF FormatValue, FormatRawValue, Wanted
  <2>3. w[1] \in Nat /\ w[2] \in Nat /\ First(w, 2) = <<w[1], w[2]>>
    BY <1>1, <2>1, First2
  <2>4. w[1] < 65536 /\ w[2] < 65536
    BY <1>1, <2>1
  <2> HIDE DEF v, r
  <2>5. /\ w[1] = (v[1] - 2000) * 1024 + v[2] * 64 + v[3] * 2 + (v[4] \div 16)
        /\ w[2] = (v[4] % 16) * 4096 + v[5] * 64 + v[6]
    BY <2>2, <2>3, <2>4, ClockBits
  <2>6. r = <<(v[1] - 2000) * 1024 + v[2] * 64 + v[3] * 2 + (v[4] \div 16),
              (v[4] % 16) * 4096 + v[5] * 64 + v[6]>>
    <3> DEFINE a == (v[1] - 2000) * 1024 + v[2] * 64 + v[3] * 2 + (v[4] \div 16)
               b == (v[4] % 16) * 4096 + v[5] * 64 + v[6]
    <3>1. w[1] = a /\ w[2] = b
      BY <2>5
    <3>2. r = <<w[1], w[2]>>
      BY <2>2, <2>3
    <3> HIDE DEF a, b
    <3>3. r = <<a, b>>
      BY <3>1, <3>2
    <3>4. QED BY <3>3 DEF a, b
  <2>7. Encodes(form, v, r)
    BY <2>6, <1>3 DEF Encodes
  <2>8. QED BY <2>7 DEF v, r
<1>4. CASE form = "bms_sw_version"
  <2>1. Len(w) >= 4 /\ ~(Len(w) < 4)
    BY <1>1, <1>4 DEF Wanted
  <2>2. v = <<w[1] % 256, w[2], w[3], w[4]>> /\ r = First(w, 4)
    BY <1>1, <1>4 DEF FormatValue, FormatRawValue, Wanted
  <2>3. First(w, 4) = <<w[1], w[2], w[3], w[4]>>
    BY <1>1, <2>1, First4
  <2> HIDE DEF v, r
  <2>4. <<v[1], v[2], v[3], v[4]>> = <<r[1] % 256, r[2], r[3], r[4]>>
    BY <2>2, <2>3
  <2>5. Encodes(form, v, r)
    BY <2>4, <1>4 DEF Encodes
  <2>6. QED BY <2>5 DEF v, r
<1>5. CASE form = "ascii"
  <2>1. v = Text(w) /\ r = Characters(w)
    BY <1>1, <1>5 DEF FormatValue, FormatRawValue, Wanted
  <2>2. r \in Seq(Nat) /\ Len(r) \in Nat
    BY <1>1, <2>1, CharactersType
  <2> HIDE DEF v, r
  <2>3. PICK n \in 0..Len(r) : /\ v = SubSeq(r, 1, n)
                               /\ n < Len(r) => r[n + 1] \in {Zero, Blank}
                               /\ n > 0 => r[n] # Blank
    BY <1>1, <2>1, TextIs
  <2>4. n \in Nat /\ n <= Len(r) /\ \A i \in 1..n : r[i] \in Nat
    BY <2>2, ElementOfSeq
  <2>5. Len(v) = (IF 1 <= n THEN n - 1 + 1 ELSE 0) /\ \A i \in 1..(n - 1 + 1) : v[i] = r[1 + i - 1]
    BY <2>3, <2>4, SubSeqProperties
  <2>6. Len(v) = n
    BY <2>4, <2>5
  <2>7. n > 0 => v[n] = r[n]
    <3> HAVE n > 0
    <3>1. n \in 1..(n - 1 + 1) /\ 1 + n - 1 = n
      BY <2>4
    <3>2. QED BY <3>1, <2>5
  <2>8. n > 0 => v[n] # Blank
    BY <2>3, <2>7
  <2>9. Encodes(form, v, r)
    BY <2>3, <2>6, <2>8, <1>5 DEF Encodes
  <2>10. QED BY <2>9 DEF v, r
<1>6. CASE form \in {"u32", "s32"}
  <2>1. Len(w) >= 2 /\ ~(Len(w) < 2)
    BY <1>1, <1>6 DEF Wanted
  <2>2. v = <<IF form = "s32" THEN Signed(w[1]) ELSE w[1], w[2]>> /\ r = First(w, 2)
    BY <1>1, <1>6 DEF FormatValue, FormatRawValue, Wanted
  <2>3. w[1] \in Nat /\ w[2] \in Nat /\ First(w, 2) = <<w[1], w[2]>>
    BY <1>1, <2>1, First2
  <2>4. w[1] < 65536 /\ w[2] < 65536
    BY <1>1, <2>1
  <2> HIDE DEF v, r
  <2>5. v[1] % 65536 = w[1] /\ v[2] % 65536 = w[2] /\ DOMAIN v = {1, 2}
    BY <2>2, <2>3, <2>4, SignKept
  <2>6. Words16(v) = <<v[1] % 65536, v[2] % 65536>>
    BY <2>5 DEF Words16
  <2>7. Encodes(form, v, r)
    BY <2>2, <2>3, <2>5, <2>6, <1>6 DEF Encodes
  <2>8. QED BY <2>7 DEF v, r
<1>8. CASE form \in {"millivolts", "factor"}
  <2>1. Len(w) >= 1 /\ ~(Len(w) < 1)
    BY <1>1, <1>8 DEF Wanted
  <2> DEFINE n == IF form = "factor" THEN Signed(w[1]) ELSE w[1]
  <2>2. v = <<Rounded(form, n)>> /\ r = First(w, 1)
    BY <1>1, <1>8 DEF FormatValue, FormatRawValue, Wanted
  <2>3. w[1] \in Nat /\ First(w, 1) = <<w[1]>>
    BY <1>1, <2>1, First1
  <2>4. n \in Int
    BY <2>3 DEF Signed
  <2>5. Near(Rounded(form, n), n)
    BY <2>4, RoundedNear
  <2> HIDE DEF v, r
  <2>6. v[1] = Rounded(form, n) /\ Len(r) = 1 /\ r[1] = w[1]
    BY <2>2, <2>3
  <2>7. Encodes(form, v, r)
    BY <2>5, <2>6, <1>8 DEF Encodes
  <2>8. QED BY <2>7 DEF v, r
<1>7. CASE form \notin {"system_time", "bms_clock", "bms_sw_version", "ascii", "u32", "s32", "millivolts", "factor"}
  <2>1. Len(w) >= 1 /\ ~(Len(w) < 1)
    BY <1>1, <1>7 DEF Wanted
  <2>2. v = <<IF form = "signed" THEN Signed(w[1]) ELSE w[1]>> /\ r = First(w, 1)
    BY <1>1, <1>7 DEF FormatValue, FormatRawValue, Wanted
  <2>3. w[1] \in Nat /\ First(w, 1) = <<w[1]>>
    BY <1>1, <2>1, First1
  <2>4. w[1] < 65536
    BY <1>1, <2>1
  <2> HIDE DEF v, r
  <2>5. v[1] % 65536 = w[1] /\ DOMAIN v = {1}
    BY <2>2, <2>3, <2>4, SignKept
  <2>6. Words16(v) = <<v[1] % 65536>>
    BY <2>5 DEF Words16
  <2>7. Encodes(form, v, r)
    BY <2>2, <2>3, <2>5, <2>6, <1>7 DEF Encodes
  <2>8. QED BY <2>7 DEF v, r
<1>9. QED BY <1>2, <1>3, <1>4, <1>5, <1>6, <1>7, <1>8

-----------------------------------------------------------------------------
(* The values on the results channel. *)

\* Each message is an error that has a reason, or the value of a leading part of the register's own words.
Sound(m, s) ==
  \A i \in DOMAIN s :
    IF s[i].error THEN m.short > 0 \/ i = m.probe
    ELSE \E n \in 0..probes[i].count :
           LET words == SubSeq(Data(m, probes[i].addr, probes[i].count), 1, n)
           IN  s[i] = Value(i, words) /\ IsWords(words) /\ (m.short = 0 => n = probes[i].count)

\* What a memory is.
LEMMA ContentsType ==
  ASSUME NEW j, NEW m \in Contents(j)
  PROVE  m.probe = j /\ m.short \in Nat /\ IsWord(m.even) /\ IsWord(m.odd)
<1>1. m.probe \in {j} /\ m.even \in Words /\ m.short \in ShortBy
  BY DEF Contents
<1>2. m.odd \in (IF probes[j].count = 1 THEN {0} ELSE Words)
  BY DEF Contents
<1>3. m.odd = 0 \/ m.odd \in Words
  BY <1>2
<1>4. (\A w \in Words : IsWord(w)) /\ IsWord(0)
  BY WordsAssumption DEF IsWord
<1>5. \A s \in ShortBy : s \in Nat
  BY WordsAssumption
<1>6. m.short \in Nat
  BY <1>1, <1>5
<1>7. QED BY <1>1, <1>3, <1>4, <1>6

LEMMA WordType ==
  ASSUME NEW j, NEW m \in Contents(j), NEW a, IsWord(a)
  PROVE  IsWord(Word(m, a))
<1>1. IsWord(m.even) /\ IsWord(m.odd)
  BY ContentsType
<1>2. Word(m, a) = m.even \/ Word(m, a) = m.odd \/ Word(m, a) = a
  BY DEF Word
<1>3. QED BY <1>1, <1>2

LEMMA AnsweredType ==
  ASSUME NEW j, NEW m \in Contents(j), NEW n \in Nat
  PROVE  Answered(m, n) \in 0..n /\ (m.short = 0 => Answered(m, n) = n)
<1>1. m.short \in Nat
  BY ContentsType
<1>2. QED BY <1>1 DEF Answered

\* The registers of a probe have addresses of 16 bits.
LEMMA AddressType ==
  ASSUME probes \in Layout, NEW i \in Real
  PROVE  probes[i].addr \in Nat /\ probes[i].count \in Nat /\ probes[i].count > 0
         /\ probes[i].addr + probes[i].count < 65536
<1>1. i \in DOMAIN probes /\ probes[i].addr \in Nat /\ probes[i].count \in Nat /\ probes[i].count > 0
  BY ProbeType
<1>2. probes[i].addr + probes[i].count < AddressSpace
  BY <1>1, TablesAssumption
<1>3. QED BY <1>1, <1>2 DEF AddressSpace

\* The first n of a probe's own words.
LEMMA OwnWords ==
  ASSUME probes \in Layout, NEW i \in Real, NEW j, NEW m \in Contents(j), NEW n \in 0..probes[i].count
  PROVE  LET words == SubSeq(Data(m, probes[i].addr, probes[i].count), 1, n)
         IN  /\ IsWords(words) /\ Len(words) = n
             /\ \A k \in 1..n : words[k] = Word(m, probes[i].addr + k - 1)
<1> DEFINE a == probes[i].addr
           c == probes[i].count
           d == Data(m, a, c)
           words == SubSeq(d, 1, n)
<1>1. a \in Nat /\ c \in Nat /\ a + c < 65536 /\ n \in Nat /\ n <= c
  BY AddressType
<1>2. d = [k \in 1..c |-> Word(m, a + k - 1)]
  BY DEF Data
<1> HIDE DEF a, c, d
<1>3. \A k \in 1..n : k \in 1..c /\ IsWord(a + k - 1)
  BY <1>1 DEF IsWord
<1>4. \A k \in 1..n : d[k] = Word(m, a + k - 1) /\ IsWord(d[k])
  BY <1>2, <1>3, WordType
<1>11. \A k \in 1..n : d[k] \in Nat
  BY <1>4 DEF IsWord
<1>5. /\ words \in Seq(Nat) /\ Len(words) = (IF 1 <= n THEN n - 1 + 1 ELSE 0)
      /\ \A k \in 1..(n - 1 + 1) : words[k] = d[1 + k - 1]
  BY <1>1, <1>11, SubSeqProperties
<1>6. Len(words) = n
  BY <1>1, <1>5
<1> HIDE DEF words
<1>7. \A k \in 1..n : words[k] = d[k]
  <2> TAKE k \in 1..n
  <2>1. k \in 1..(n - 1 + 1) /\ 1 + k - 1 = k
    BY <1>1
  <2>2. QED BY <2>1, <1>5
<1>8. \A k \in 1..n : words[k] = Word(m, a + k - 1)
  BY <1>4, <1>7
<1>9. IsWords(words)
  BY <1>4, <1>5, <1>6, <1>7 DEF IsWords
<1>10. QED BY <1>6, <1>8, <1>9 DEF words, d, a, c

\* A span that was read: each probe is cut out of the answer at its own registers.
LEMMA SpanSound ==
  ASSUME IInv, NEW k \in DOMAIN spans, ReadSpan(k)
  PROVE  Sound(memory', shown')
<1> DEFINE s == spans[k]
           of(i) == CHOOSE part \in s.parts : part.probe = i
<1>1. probes \in Layout /\ s \in SpanType /\ Good(s)
  BY DEF IInv, TypeOK, SpansGood
<1>2. s.start \in Nat /\ s.total \in Nat
  BY <1>1 DEF SpanType
<1>14. PICK p \in s.parts : \E m \in Contents(p.probe) :
        LET n == Answered(m, s.total)
            data == Data(m, s.start, n)
            cut(part) == SubSeq(data, part.offset \div 2 + 1, (part.offset + part.length) \div 2)
        IN  /\ memory' = m
            /\ shown' = [i \in {part.probe : part \in s.parts} |->
                           IF of(i).offset + of(i).length > 2 * n THEN Error ELSE Value(i, cut(of(i)))]
  BY DEF ReadSpan
<1>3. PICK m \in Contents(p.probe) :
        LET n == Answered(m, s.total)
            data == Data(m, s.start, n)
            cut(part) == SubSeq(data, part.offset \div 2 + 1, (part.offset + part.length) \div 2)
        IN  /\ memory' = m
            /\ shown' = [i \in {part.probe : part \in s.parts} |->
                           IF of(i).offset + of(i).length > 2 * n THEN Error ELSE Value(i, cut(of(i)))]
  BY <1>14
<1> DEFINE n == Answered(m, s.total)
           data == Data(m, s.start, n)
           cut(part) == SubSeq(data, part.offset \div 2 + 1, (part.offset + part.length) \div 2)
<1>4. n \in 0..s.total /\ (m.short = 0 => n = s.total) /\ m.short \in Nat
  BY <1>2, AnsweredType, ContentsType
<1>15. memory' = m /\ DOMAIN shown' = {part.probe : part \in s.parts}
  BY <1>3, Zenon
<1> HIDE DEF s
<1>5. SUFFICES ASSUME NEW i \in {part.probe : part \in s.parts}
               PROVE  IF shown'[i].error THEN m.short > 0 \/ i = m.probe
                      ELSE \E q \in 0..probes[i].count :
                             LET words == SubSeq(Data(m, probes[i].addr, probes[i].count), 1, q)
                             IN  shown'[i] = Value(i, words) /\ IsWords(words) /\ (m.short = 0 => q = probes[i].count)
  BY <1>15, Zenon DEF Sound
<1>6. of(i) \in s.parts /\ of(i).probe = i
  <2>1. \E part \in s.parts : part.probe = i
    OBVIOUS
  <2>2. QED BY <2>1
<1> DEFINE part == of(i)
           a == probes[i].addr
           c == probes[i].count
<1> HIDE DEF of
<1>7. /\ i \in Real /\ part.offset = 2 * (a - s.start) /\ part.length = 2 * c
      /\ s.start <= a /\ ProbeEnd(i) <= End(s)
  BY <1>1, <1>6 DEF Good, ByteLength
<1>8. a \in Nat /\ c \in Nat /\ c > 0 /\ a + c <= s.start + s.total
  BY <1>1, <1>7, AddressType DEF ProbeEnd, End
<1>9. shown'[i] = IF part.offset + part.length > 2 * n THEN Error ELSE Value(i, cut(part))
  BY <1>3
<1> HIDE DEF part, n, data, s
<1> DEFINE h == a - s.start
<1>10. h \in Nat /\ part.offset \div 2 + 1 = h + 1 /\ (part.offset + part.length) \div 2 = h + c
       /\ part.offset + part.length = 2 * (h + c) /\ h + c <= s.total
  <2>1. \A x \in Nat : (2 * x) \div 2 = x
    OBVIOUS
  <2>2. h \in Nat /\ c \in Nat /\ h + c \in Nat /\ h + c <= s.total
    BY <1>2, <1>7, <1>8
  <2>3. part.offset = 2 * h /\ part.offset + part.length = 2 * (h + c)
    BY <1>7, <2>2
  <2>4. part.offset \div 2 = h /\ (part.offset + part.length) \div 2 = h + c
    BY <2>1, <2>2, <2>3
  <2>5. QED BY <2>2, <2>3, <2>4
<1>11. CASE part.offset + part.length > 2 * n
  <2>1. m.short > 0
    BY <1>2, <1>4, <1>10, <1>11, <1>8
  <2>2. shown'[i].error
    BY <1>9, <1>11 DEF Error
  <2>3. QED BY <2>1, <2>2
<1>12. CASE ~(part.offset + part.length > 2 * n)
  <2> DEFINE words == SubSeq(Data(m, a, c), 1, c)
  <2>1. shown'[i] = Value(i, cut(part)) /\ ~shown'[i].error
    BY <1>9, <1>12 DEF Value
  <2>2. h + c <= n /\ n \in Nat
    BY <1>2, <1>4, <1>8, <1>10, <1>12
  <2>3. /\ IsWords(words) /\ Len(words) = c
        /\ \A j \in 1..c : words[j] = Word(m, a + j - 1)
    BY <1>1, <1>7, <1>8, OwnWords
  <2>4. cut(part) = SubSeq(data, h + 1, h + c)
    BY <1>10
  <2>5. \A x \in 1..n : data[x] = Word(m, s.start + x - 1)
    BY DEF data, Data
  <2> HIDE DEF words, h
  <2>6. \A x \in (h + 1)..(h + c) : data[x] = words[x - h] /\ words[x - h] \in Nat
    <3> TAKE x \in (h + 1)..(h + c)
    <3>1. x \in 1..n /\ x - h \in 1..c /\ a + (x - h) - 1 = s.start + x - 1
      BY <1>2, <1>8, <1>10, <2>2 DEF h
    <3>2. data[x] = Word(m, s.start + x - 1) /\ words[x - h] = Word(m, a + (x - h) - 1)
      BY <3>1, <2>3, <2>5
    <3>3. words \in Seq(Nat) /\ x - h \in 1..Len(words)
      BY <2>3, <3>1 DEF IsWords
    <3>4. QED BY <3>1, <3>2, <3>3, ElementOfSeq
  <2> DEFINE got == SubSeq(data, h + 1, h + c)
  <2>7. got \in Seq(Nat) /\ Len(got) = c /\ \A j \in 1..c : got[j] = data[h + j]
    <3>1. h + 1 \in Int /\ h + c \in Int /\ \A x \in (h + 1)..(h + c) : data[x] \in Nat
      BY <1>8, <1>10, <2>6
    <3> DEFINE lo == h + 1
               hi == h + c
    <3> HIDE DEF lo, hi
    <3>2. lo \in Int /\ hi \in Int /\ \A x \in lo..hi : data[x] \in Nat
      BY <3>1 DEF lo, hi
    <3>3. /\ SubSeq(data, lo, hi) \in Seq(Nat) /\ Len(SubSeq(data, lo, hi)) = (IF lo <= hi THEN hi - lo + 1 ELSE 0)
          /\ \A j \in 1..(hi - lo + 1) : SubSeq(data, lo, hi)[j] = data[lo + j - 1]
      BY <3>2, SubSeqProperties
    <3>4. got = SubSeq(data, lo, hi)
      BY DEF lo, hi
    <3> HIDE DEF got
    <3>5. hi - lo + 1 = c /\ lo <= hi /\ \A j \in 1..c : lo + j - 1 = h + j
      BY <1>8, <1>10 DEF lo, hi
    <3>6. QED BY <3>3, <3>4, <3>5
  <2> HIDE DEF got
  <2>8. words \in Seq(Nat)
    BY <2>3 DEF IsWords
  <2>9. \A j \in 1..c : got[j] = words[j]
    <3> TAKE j \in 1..c
    <3>1. h + j \in (h + 1)..(h + c) /\ (h + j) - h = j
      BY <1>8, <1>10
    <3>2. QED BY <3>1, <2>6, <2>7
  <2>10. got = words
    BY <2>3, <2>7, <2>8, <2>9, SeqEqual
  <2>11. shown'[i] = Value(i, words)
    BY <2>1, <2>4, <2>10 DEF got
  <2>12. c \in 0..c
    BY <1>8
  <2>13. QED BY <2>1, <2>3, <2>11, <2>12 DEF words
<1>13. QED BY <1>11, <1>12

\* Probes that were read one by one: each answer holds the probe's own registers, as many as came.
LEMMA SinglySound ==
  ASSUME IInv, NEW k \in DOMAIN spans, ReadSingly(k)
  PROVE  Sound(memory', shown')
<1> DEFINE s == spans[k]
<1>1. probes \in Layout /\ s \in SpanType /\ Good(s)
  BY DEF IInv, TypeOK, SpansGood
<1>12. PICK p \in s.parts : \E m \in Contents(p.probe), failed \in SUBSET {p.probe} :
        /\ memory' = m
        /\ shown' = [i \in {part.probe : part \in s.parts} |->
                       IF i \in failed THEN Error
                       ELSE Value(i, Data(m, probes[i].addr, Answered(m, probes[i].count)))]
  BY DEF ReadSingly
<1>2. PICK m \in Contents(p.probe), failed \in SUBSET {p.probe} :
        /\ memory' = m
        /\ shown' = [i \in {part.probe : part \in s.parts} |->
                       IF i \in failed THEN Error
                       ELSE Value(i, Data(m, probes[i].addr, Answered(m, probes[i].count)))]
  BY <1>12
<1>3. SUFFICES ASSUME NEW i \in {part.probe : part \in s.parts}
               PROVE  IF shown'[i].error THEN m.short > 0 \/ i = m.probe
                      ELSE \E q \in 0..probes[i].count :
                             LET words == SubSeq(Data(m, probes[i].addr, probes[i].count), 1, q)
                             IN  shown'[i] = Value(i, words) /\ IsWords(words) /\ (m.short = 0 => q = probes[i].count)
  BY <1>2, Zenon DEF Sound
<1>4. i \in Real
  BY <1>1 DEF Good
<1> DEFINE a == probes[i].addr
           c == probes[i].count
           n == Answered(m, c)
           words == SubSeq(Data(m, a, c), 1, n)
<1>5. c \in Nat /\ n \in 0..c /\ (m.short = 0 => n = c)
  BY <1>1, <1>4, AddressType, AnsweredType
<1>6. shown'[i] = IF i \in failed THEN Error ELSE Value(i, Data(m, a, n))
  BY <1>2
<1>7. /\ IsWords(words) /\ Len(words) = n
      /\ \A j \in 1..n : words[j] = Word(m, a + j - 1)
  BY <1>1, <1>4, <1>5, OwnWords
<1>8. Data(m, a, n) = words
  <2>1. Data(m, a, n) = [j \in 1..n |-> words[j]]
    BY <1>7 DEF Data
  <2> HIDE DEF words
  <2>2. words = [j \in 1..n |-> words[j]]
    <3>1. words \in Seq(Nat)
      BY <1>7 DEF IsWords
    <3>2. words \in [1..n -> Nat]
      BY <3>1, <1>7, LenProperties
    <3>3. QED BY <3>2
  <2>3. QED BY <2>1, <2>2
<1>9. CASE i \in failed
  <2>1. i = m.probe
    BY <1>9, ContentsType
  <2>2. shown'[i].error
    BY <1>6, <1>9 DEF Error
  <2>3. QED BY <2>1, <2>2
<1>10. CASE i \notin failed
  <2>1. shown'[i] = Value(i, words) /\ ~shown'[i].error
    BY <1>6, <1>8, <1>10 DEF Value
  <2>2. QED BY <2>1, <1>5, <1>7
<1>11. QED BY <1>9, <1>10

-----------------------------------------------------------------------------
(* The faults. *)

\* A bit of a fault register is one when it is the bit that is on, or not the bit that is off.
LEMMA FaultBit ==
  ASSUME NEW a, NEW b \in All, NEW on \in BOOLEAN, NEW short, NEW e, NEW c \in All
  PROVE  Bits(FaultWord([register |-> a, bit |-> b, on |-> on, short |-> short], e), c, 1) = 1
           <=> IF on THEN <<e, c>> = <<a, b>> ELSE <<e, c>> # <<a, b>>
<1> DEFINE f == [register |-> a, bit |-> b, on |-> on, short |-> short]
<1>1. f.register = a /\ f.bit = b /\ f.on = on
  OBVIOUS
<1> HIDE DEF f
<1>2. <<e, c>> = <<a, b>> <=> e = a /\ c = b
  OBVIOUS
<1>3. CASE e # a /\ on
  <2>1. FaultWord(f, e) = 0
    BY <1>1, <1>3 DEF FaultWord
  <2>2. Bits(FaultWord(f, e), c, 1) = 0
    BY <2>1, NoAndAllBits
  <2>3. QED BY <2>2, <1>2, <1>3 DEF f
<1>4. CASE e # a /\ ~on
  <2>1. FaultWord(f, e) = 65535
    BY <1>1, <1>4 DEF FaultWord
  <2>2. Bits(FaultWord(f, e), c, 1) = 1
    BY <2>1, NoAndAllBits
  <2>3. QED BY <2>2, <1>2, <1>4 DEF f
<1>5. CASE e = a /\ on
  <2>1. FaultWord(f, e) = Pow(b)
    BY <1>1, <1>5 DEF FaultWord, Pow
  <2>2. Bits(FaultWord(f, e), c, 1) = 1 <=> c = b
    BY <2>1, OneBit
  <2>3. QED BY <2>2, <1>2, <1>5 DEF f
<1>6. CASE e = a /\ ~on
  <2>1. FaultWord(f, e) = 65535 - Pow(b)
    BY <1>1, <1>6 DEF FaultWord, Pow
  <2>2. Bits(FaultWord(f, e), c, 1) = 1 <=> c # b
    BY <2>1, OtherBits
  <2>3. QED BY <2>2, <1>2, <1>6 DEF f
<1>7. QED BY <1>3, <1>4, <1>5, <1>6

\* The registers with described faults: all of those of the first read are below 0420 hex, those of the second above.
LEMMA DescribedRegisters ==
  ASSUME NEW d \in Described
  PROVE  /\ d[2] \in All /\ d = <<d[1], d[2]>>
         /\ d[1] \in Int
         /\ (\h0405 <= d[1] /\ d[1] <= \h0413) \/ (\h0433 <= d[1] /\ d[1] <= \h043D)
<1>1. /\ d \in FaultAddrs \X All
      /\ d[1] \in DOMAIN FaultTable1 \/ d[1] \in DOMAIN FaultTable2
  BY DEF Described
<1>2. d[2] \in All /\ d = <<d[1], d[2]>>
  BY <1>1
<1>3. DOMAIN FaultTable1 = \h0405..\h0413 /\ DOMAIN FaultTable2 = {\h0433, \h0434} \cup (\h0437..\h043D)
  BY DEF FaultTable1, FaultTable2
<1>4. QED BY <1>1, <1>2, <1>3

\* The faults after both reads.
LEMMA FaultsRead ==
  ASSUME ReadFaults
  PROVE  FaultsReported'
<1>14. PICK a \in FaultAddrs : \E b \in All, on \in BOOLEAN, failed \in SUBSET {1, 2}, short \in ShortBy :
        LET f == [register |-> a, bit |-> b, on |-> on, short |-> short]
            read == UNION {Upto(FaultRegisters[r], Answered(f, FaultRegisters[r].count)) : r \in {1, 2} \ failed}
        IN  faults' = [failed |-> failed, bits |-> f, active |-> DecodeFaults([g \in read |-> FaultWord(f, g)])]
  BY DEF ReadFaults
<1>1. PICK b \in All, on \in BOOLEAN, failed \in SUBSET {1, 2}, short \in ShortBy :
        LET f == [register |-> a, bit |-> b, on |-> on, short |-> short]
            read == UNION {Upto(FaultRegisters[r], Answered(f, FaultRegisters[r].count)) : r \in {1, 2} \ failed}
        IN  faults' = [failed |-> failed, bits |-> f, active |-> DecodeFaults([g \in read |-> FaultWord(f, g)])]
  BY <1>14
<1> DEFINE f == [register |-> a, bit |-> b, on |-> on, short |-> short]
           got(r) == Upto(FaultRegisters[r], Answered(f, FaultRegisters[r].count))
           read == UNION {got(r) : r \in {1, 2} \ failed}
<1>2. /\ f.register = a /\ f.bit = b /\ f.on = on /\ f.short = short
      /\ faults'.failed = failed /\ faults'.bits = f
      /\ faults'.active = DecodeFaults([g \in read |-> FaultWord(f, g)])
  BY <1>1
<1>3. \A s \in ShortBy : s \in Nat
  BY WordsAssumption
<1>4. \A n \in Nat : Answered(f, n) \in 0..n /\ (short = 0 => Answered(f, n) = n)
  BY <1>2, <1>3 DEF Answered
<1>5. /\ \A e \in got(1) : e \in Int /\ e < \h0420
      /\ \A e \in got(2) : e \in Int /\ \h0420 <= e
      /\ short = 0 => \A e \in Int : /\ \h0405 <= e /\ e <= \h0413 => e \in got(1)
                                     /\ \h0433 <= e /\ e <= \h043D => e \in got(2)
  <2>1. /\ FaultRegisters[1].addr = \h0405 /\ FaultRegisters[1].count = 18
        /\ FaultRegisters[2].addr = \h0432 /\ FaultRegisters[2].count = 12
    BY DEF FaultRegisters, Probe
  <2>2. /\ Answered(f, 18) \in 0..18 /\ (short = 0 => Answered(f, 18) = 18)
        /\ Answered(f, 12) \in 0..12 /\ (short = 0 => Answered(f, 12) = 12)
    BY <1>4
  <2> HIDE DEF f
  <2>3. got(1) = \h0405..(\h0405 + Answered(f, 18) - 1) /\ got(2) = \h0432..(\h0432 + Answered(f, 12) - 1)
    BY <2>1 DEF Upto
  <2> DEFINE x == Answered(f, 18)
             y == Answered(f, 12)
  <2>4. /\ x \in Int /\ x <= 18 /\ (short = 0 => x = 18)
        /\ y \in Int /\ y <= 12 /\ (short = 0 => y = 12)
    BY <2>2
  <2> HIDE DEF x, y
  <2>5. /\ \A e : e \in got(1) <=> e \in Int /\ \h0405 <= e /\ e < \h0405 + x
        /\ \A e : e \in got(2) <=> e \in Int /\ \h0432 <= e /\ e < \h0432 + y
    BY <2>3, <2>4 DEF x, y
  <2> HIDE DEF got
  <2>6. QED BY <2>4, <2>5
<1>6. \A e, c : c \in All => (Bits(FaultWord(f, e), c, 1) = 1 <=> IF on THEN <<e, c>> = <<a, b>> ELSE <<e, c>> # <<a, b>>)
  <2> TAKE e, c
  <2> HAVE c \in All
  <2>1. Bits(FaultWord(f, e), c, 1) = 1 <=> IF on THEN <<e, c>> = <<a, b>> ELSE <<e, c>> # <<a, b>>
    BY FaultBit
  <2>2. QED BY <2>1
<1> HIDE DEF f, got
<1>7. \A d : d \in faults'.active <=> d \in Described /\ d[1] \in read /\ Bits(FaultWord(f, d[1]), d[2], 1) = 1
  BY <1>2 DEF DecodeFaults
<1> DEFINE On == {d \in Described : IF on THEN d = <<a, b>> ELSE d # <<a, b>>}
           Read == {d \in Described : (IF d[1] < \h0420 THEN 1 ELSE 2) \notin failed}
<1>8. \A d \in Described : Bits(FaultWord(f, d[1]), d[2], 1) = 1 <=> d \in On
  <2> TAKE d \in Described
  <2>1. d[2] \in All /\ d = <<d[1], d[2]>>
    BY DescribedRegisters
  <2>2. Bits(FaultWord(f, d[1]), d[2], 1) = 1
                <=> IF on THEN <<d[1], d[2]>> = <<a, b>> ELSE <<d[1], d[2]>> # <<a, b>>
    BY <1>6, <2>1
  <2>3. Bits(FaultWord(f, d[1]), d[2], 1) = 1 <=> IF on THEN d = <<a, b>> ELSE d # <<a, b>>
    BY <2>1, <2>2, Zenon
  <2>4. QED BY <2>3
<1>9. \A d \in Described : d[1] \in read => d \in Read
  <2> TAKE d \in Described
  <2> HAVE d[1] \in read
  <2>1. PICK r \in {1, 2} \ failed : d[1] \in got(r)
    OBVIOUS
  <2>2. CASE r = 1
    <3>1. d[1] < \h0420
      BY <1>5, <2>1, <2>2
    <3>2. QED BY <3>1, <2>2
  <2>3. CASE r = 2
    <3>1. ~(d[1] < \h0420)
      BY <1>5, <2>1, <2>3
    <3>2. QED BY <3>1, <2>3
  <2>4. QED BY <2>2, <2>3
<1>10. short = 0 => \A d \in Read : d[1] \in read
  <2> SUFFICES ASSUME short = 0, NEW d \in Read PROVE d[1] \in read
    OBVIOUS
  <2>1. d[1] \in Int /\ ((\h0405 <= d[1] /\ d[1] <= \h0413) \/ (\h0433 <= d[1] /\ d[1] <= \h043D))
    BY DescribedRegisters
  <2>2. CASE \h0405 <= d[1] /\ d[1] <= \h0413
    <3>1. d[1] < \h0420 /\ d[1] \in got(1)
      BY <1>5, <2>1, <2>2
    <3>2. 1 \in {1, 2} \ failed
      BY <3>1
    <3>3. QED BY <3>1, <3>2
  <2>3. CASE \h0433 <= d[1] /\ d[1] <= \h043D
    <3>1. ~(d[1] < \h0420) /\ d[1] \in got(2)
      BY <1>5, <2>1, <2>3
    <3>2. 2 \in {1, 2} \ failed
      BY <3>1
    <3>3. QED BY <3>1, <3>2
  <2>4. QED BY <2>1, <2>2, <2>3
<1> HIDE DEF read
<1>11. faults'.active \subseteq On \cap Read
  BY <1>7, <1>8, <1>9
<1>12. short = 0 => faults'.active = On \cap Read
  <2> HAVE short = 0
  <2>1. On \cap Read \subseteq faults'.active
    BY <1>7, <1>8, <1>10
  <2>2. QED BY <2>1, <1>11
<1>13. QED
  <2>1. Described' = Described
    BY DEF Described, FaultTable1, FaultTable2
  <2>5. \A d : (IF on THEN d = <<a, b>> ELSE d # <<a, b>>) <=> (d = <<a, b>>) = on
    <3> TAKE d
    <3>1. CASE on = TRUE
      BY <3>1
    <3>2. CASE on = FALSE
      BY <3>2
    <3>3. QED BY <3>1, <3>2
  <2>6. On = {d \in Described : (d = <<a, b>>) = on}
    BY <2>5
  <2> HIDE DEF On
  <2>2. /\ On = {d \in Described : (d = <<faults'.bits.register, faults'.bits.bit>>) = faults'.bits.on}
        /\ Read = {d \in Described : (IF d[1] < \h0420 THEN 1 ELSE 2) \notin faults'.failed}
    BY <1>2, <2>6
  <2> HIDE DEF Read
  <2>3. IF faults'.bits.short = 0 THEN faults'.active = On \cap Read ELSE faults'.active \subseteq On \cap Read
    BY <1>2, <1>11, <1>12
  <2>4. QED BY <2>2, <2>3 DEF FaultsReported

-----------------------------------------------------------------------------
(* The topology. *)

\* The word that selects a pack of the first input names the group in its upper byte, counted from zero.
LEMMA GroupOfQuery ==
  ASSUME NEW t \in 1..16, NEW p \in 1..16, NEW T \in Nat
  PROVE  EncodePackQuery(1, t, p, T) \div 256 = t - 1
<1>1. (1 - 1) * T + t - 1 = t - 1
  BY SMT
<1>2. (t - 1) % 16 = t - 1 /\ (p - 1) % 256 = p - 1
  <2>1. \A q \in Nat : (q < 16 => q % 16 = q) /\ (q < 256 => q % 256 = q)
    OBVIOUS
  <2>2. t - 1 \in Nat /\ t - 1 < 16 /\ p - 1 \in Nat /\ p - 1 < 256
    OBVIOUS
  <2>3. QED BY <2>1, <2>2
<1>3. EncodePackQuery(1, t, p, T) = 256 * (t - 1) + (p - 1)
  BY <1>1, <1>2 DEF EncodePackQuery
<1>4. (256 * (t - 1) + (p - 1)) \div 256 = t - 1
  <2>1. \A x, y \in Nat : y < 256 => (256 * x + y) \div 256 = x
    OBVIOUS
  <2>2. t - 1 \in Nat /\ p - 1 \in Nat /\ p - 1 < 256
    OBVIOUS
  <2>3. QED BY <2>1, <2>2
<1>5. QED BY <1>3, <1>4

LEMMA TopologyShown ==
  ASSUME ShowTopology
  PROVE  OnlineMatchesQuery'
<1>1. PICK read \in SUBSET (ProtectionAddrs \cup {TopologyAddr, BitmapAddr}), towers \in Words,
           topo \in Words \cup {256 * TopoTowers + TopoPacksPerTower} :
        topology' = [read |-> read, topo |-> topo, towers |-> towers, cards |-> Cards(read, topo, towers)]
  BY DEF ShowTopology
<1>2. topology'.read = read /\ topology'.towers = towers /\ topology'.cards = Cards(read, topo, towers)
  BY <1>1
<1>3. TopoTowers \in 1..16 /\ TopoPacksPerTower \in 1..16 /\ TopoTowers \in Nat
  BY TopologyAssumption
<1> SUFFICES ASSUME NEW t \in 1..TopoTowers, NEW p \in 1..TopoPacksPerTower
             PROVE  (Bits(topology'.cards.online[t], p - 1, 1) = 1)
                      <=> (/\ BitmapAddr \in topology'.read
                           /\ Bits(topology'.towers, EncodePackQuery(1, t, p, TopoTowers) \div 256, 1) = 1)
  BY DEF OnlineMatchesQuery
<1>4. t \in 1..16 /\ p \in 1..16 /\ p - 1 \in All /\ p - 1 \in 0..(TopoPacksPerTower - 1)
  BY <1>3 DEF All
<1>5. EncodePackQuery(1, t, p, TopoTowers) \div 256 = t - 1
  BY <1>3, <1>4, GroupOfQuery
<1>6. topology'.cards.online[t] =
        IF BitmapAddr \in read /\ Bits(towers, t - 1, 1) = 1 THEN Pow(TopoPacksPerTower) - 1 ELSE 0
  BY <1>2 DEF Cards, Pow
<1>7. Bits(Pow(TopoPacksPerTower) - 1, p - 1, 1) = 1 /\ Bits(0, p - 1, 1) = 0
  BY <1>3, <1>4, LowBits, NoAndAllBits
<1>8. QED BY <1>2, <1>5, <1>6, <1>7

-----------------------------------------------------------------------------
(* The invariant of the values, and the theorems about them. *)

VInv == IInv /\ Sound(memory, shown) /\ FaultsReported /\ OnlineMatchesQuery

LEMMA InitVInv == ValuesInit => VInv
<1> SUFFICES ASSUME ValuesInit PROVE VInv
  OBVIOUS
<1>1. Init /\ shown = <<>> /\ faults = NotRead /\ topology = NoCards
  BY DEF ValuesInit
<1>2. Sound(memory, shown)
  BY <1>1 DEF Sound
<1>3. FaultsReported /\ OnlineMatchesQuery
  BY <1>1 DEF FaultsReported, OnlineMatchesQuery
<1> QED  BY <1>1, <1>2, <1>3, InitIInv DEF VInv

\* Whether a message is sound depends on the table, and on the memory it was read from.
LEMMA SoundKept ==
  ASSUME probes' = probes, NEW m, NEW s, Sound(m, s), memory' = m, shown' = s
  PROVE  Sound(memory, shown)'
<1>1. \A mm, a, n : Data(mm, a, n)' = Data(mm, a, n)
  BY DEF Data, Word, Registers, ProbeEnd
<1>2. \A i, w : Value(i, w)' = Value(i, w)
  BY DEF Value
<1> QED  BY <1>1, <1>2 DEF Sound

LEMMA FaultsKept ==
  ASSUME FaultsReported, faults' = faults
  PROVE  FaultsReported'
BY DEF FaultsReported, Described, FaultTable1, FaultTable2

LEMMA TopologyKept ==
  ASSUME OnlineMatchesQuery, topology' = topology
  PROVE  OnlineMatchesQuery'
BY DEF OnlineMatchesQuery

LEMMA NextVInv == VInv /\ [ValuesNext]_allVars => VInv'
<1> SUFFICES ASSUME VInv, [ValuesNext]_allVars PROVE VInv'
  OBVIOUS
<1> USE DEF VInv
<1>1. ASSUME UNCHANGED vars PROVE IInv' /\ probes' = probes
  BY <1>1, NextIInv DEF vars
<1>2. CASE Next /\ UNCHANGED valueVars
  <2>1. memory' = memory /\ shown' = shown /\ faults' = faults /\ topology' = topology
    BY <1>2 DEF valueVars
  <2>2. probes' = probes
    BY <1>2 DEF Next, Begin, Overlap, Extend, Restart, Walk, Finish
  <2>3. IInv'
    BY <1>2, NextIInv
  <2> QED  BY <2>1, <2>2, <2>3, SoundKept, FaultsKept, TopologyKept
<1>3. ASSUME NEW k \in DOMAIN spans, ReadSpan(k) PROVE VInv'
  <2>1. UNCHANGED vars /\ faults' = faults /\ topology' = topology
    BY <1>3 DEF ReadSpan
  <2>2. Sound(memory', shown')
    BY <1>3, SpanSound
  <2> QED  BY <2>1, <2>2, <1>1, SoundKept, FaultsKept, TopologyKept
<1>4. ASSUME NEW k \in DOMAIN spans, ReadSingly(k) PROVE VInv'
  <2>1. UNCHANGED vars /\ faults' = faults /\ topology' = topology
    BY <1>4 DEF ReadSingly
  <2>2. Sound(memory', shown')
    BY <1>4, SinglySound
  <2> QED  BY <2>1, <2>2, <1>1, SoundKept, FaultsKept, TopologyKept
<1>5. CASE ReadFaults
  <2>1. UNCHANGED vars /\ memory' = memory /\ shown' = shown /\ topology' = topology
    BY <1>5 DEF ReadFaults
  <2>2. FaultsReported'
    BY <1>5, FaultsRead
  <2> QED  BY <2>1, <2>2, <1>1, SoundKept, TopologyKept
<1>6. CASE ShowTopology
  <2>1. UNCHANGED vars /\ memory' = memory /\ shown' = shown /\ faults' = faults
    BY <1>6 DEF ShowTopology
  <2>2. OnlineMatchesQuery'
    BY <1>6, TopologyShown
  <2> QED  BY <2>1, <2>2, <1>1, SoundKept, FaultsKept
<1>7. CASE Sent
  <2>1. UNCHANGED vars /\ shown' = <<>> /\ faults' = NotRead /\ topology' = NoCards
    BY <1>7 DEF Sent
  <2>2. Sound(memory, shown)'
    BY <2>1 DEF Sound
  <2>3. FaultsReported' /\ OnlineMatchesQuery'
    BY <2>1 DEF FaultsReported, OnlineMatchesQuery, NotRead, NoCards
  <2> QED  BY <2>1, <2>2, <2>3, <1>1
<1>8. CASE UNCHANGED allVars
  <2>1. UNCHANGED vars /\ memory' = memory /\ shown' = shown /\ faults' = faults /\ topology' = topology
    BY <1>8 DEF allVars, valueVars
  <2> QED  BY <2>1, <1>1, SoundKept, FaultsKept, TopologyKept
<1> QED  BY <1>2, <1>3, <1>4, <1>5, <1>6, <1>7, <1>8 DEF ValuesNext

LEMMA VInvariant == ValuesSpec => []VInv
<1>1. ValuesInit => VInv
  BY InitVInv
<1>2. VInv /\ [ValuesNext]_allVars => VInv'
  BY NextVInv
<1> QED  BY <1>1, <1>2, PTL DEF ValuesSpec

\* For every table, memory and word: what the browser shows for a register is made of that register's own words and
\* no others, also when its span was read with others or its answer was too short.
THEOREM ShownCorrect == ValuesSpec => []ShownIsOwn
<1>1. VInv => ShownIsOwn
  <2> SUFFICES ASSUME VInv, NEW i \in DOMAIN shown
               PROVE  IF shown[i].error THEN memory.short > 0 \/ i = memory.probe
                      ELSE \E n \in 0..probes[i].count :
                             /\ shown[i] = Value(i, SubSeq(Own(i), 1, n))
                             /\ memory.short = 0 => n = probes[i].count
    BY DEF ShownIsOwn
  <2> QED  BY DEF VInv, Sound, Own
<1> QED  BY <1>1, VInvariant, PTL

\* For every word: the value shown and the raw value beside it say the same.
THEOREM RawMatches == ValuesSpec => []ValueMatchesRaw
<1>1. VInv => ValueMatchesRaw
  <2> SUFFICES ASSUME VInv, NEW i \in DOMAIN shown, ~shown[i].error, shown[i].value # NoData
               PROVE  Encodes(probes[i].form, shown[i].value, shown[i].raw)
    BY DEF ValueMatchesRaw
  <2>1. PICK n \in 0..probes[i].count :
          LET words == SubSeq(Data(memory, probes[i].addr, probes[i].count), 1, n)
          IN  shown[i] = Value(i, words) /\ IsWords(words)
    BY DEF VInv, Sound
  <2> DEFINE words == SubSeq(Data(memory, probes[i].addr, probes[i].count), 1, n)
  <2>2. shown[i] = Value(i, words) /\ IsWords(words)
    BY <2>1
  <2> HIDE DEF words
  <2>3. shown[i].value = FormatValue(probes[i].form, words) /\ shown[i].raw = FormatRawValue(probes[i].form, words)
    BY <2>2 DEF Value
  <2> QED  BY <2>2, <2>3, EncodesAlways
<1> QED  BY <1>1, VInvariant, PTL

\* For every fault bit and every shortfall of the answers: the faults reported are those that are on in the registers
\* that were read, and no others.
THEOREM FaultsCorrect == ValuesSpec => []FaultsReported
<1>1. VInv => FaultsReported
  BY DEF VInv
<1> QED  BY <1>1, VInvariant, PTL

\* For every bitmap of towers and every topology of at most 16 towers of 16 packs: a pack is shown online when the
\* bit of the group that its query names is set.
THEOREM OnlineCorrect == ValuesSpec => []OnlineMatchesQuery
<1>1. VInv => OnlineMatchesQuery
  BY DEF VInv
<1> QED  BY <1>1, VInvariant, PTL
=============================================================================
