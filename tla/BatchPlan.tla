------------------------------ MODULE BatchPlan ------------------------------
(***************************************************************************)
(* internal/register/batch.go: AnalyzeBatchPlan, which merges the probes   *)
(* of a section into spans, each read with one request.                    *)
(*                                                                         *)
(* The walk over the sorted probes takes one step per probe.  sort.Slice   *)
(* is not stable: of the probes left the walk takes any with the smallest  *)
(* address.  A part of a span is a ProbeMapping.  Addresses are uint16 in  *)
(* the code; TablesAssumption says that no probe reaches beyond them, and  *)
(* no sum wraps.                                                           *)
(***************************************************************************)
EXTENDS Integers, Sequences, FiniteSets

CONSTANTS
  Layout,             \* the flattened probe groups to plan for
  MaxBatchRegisters   \* 60

AddressSpace == 65536

ASSUME LimitAssumption == MaxBatchRegisters \in Nat \ {0}
ASSUME TablesAssumption ==
  \A l \in Layout :
    /\ l \in Seq([addr : 0..AddressSpace - 1, count : 0..AddressSpace - 1, form : STRING])
    /\ \A i \in DOMAIN l : l[i].addr + l[i].count < AddressSpace

VARIABLES
  probes,  \* the probes of the section
  todo,    \* those the walk has not reached
  spans,   \* the closed spans
  cur,     \* the span being built
  done     \* AnalyzeBatchPlan has returned

vars == <<probes, todo, spans, cur, done>>

NoSpan == [start |-> 0, total |-> 0, parts |-> {}]

\* Probes that are read; the others (Count == 0) go to Unbatchable.
Real == {i \in DOMAIN probes : probes[i].count # 0}
Unbatchable == DOMAIN probes \ Real

Init ==
  /\ probes \in Layout
  /\ todo = Real
  /\ spans = <<>>
  /\ cur = NoSpan
  /\ done = FALSE

-----------------------------------------------------------------------------
ByteLength(i) == 2 * probes[i].count

\* Mutant: the offset is counted in registers.
Part_Registers(i, start) == [probe |-> i, offset |-> probes[i].addr - start, length |-> ByteLength(i)]

Part(i, start) == [probe |-> i, offset |-> 2 * (probes[i].addr - start), length |-> ByteLength(i)]
NewSpan(i) == [start |-> probes[i].addr, total |-> probes[i].count, parts |-> {Part(i, probes[i].addr)}]
End(s) == s.start + s.total
ProbeEnd(i) == probes[i].addr + probes[i].count

\* Probe i comes next in the order of the addresses.
Walk(i) ==
  /\ i \in todo
  /\ \A j \in todo : probes[i].addr <= probes[j].addr
  /\ todo' = todo \ {i}
  /\ UNCHANGED <<probes, done>>

Begin(i) ==
  /\ Walk(i)
  /\ cur = NoSpan
  /\ cur' = NewSpan(i)
  /\ UNCHANGED spans

\* Mutant: a probe inside the span gets the offset of the span's end.
Overlap_AtEnd(i) ==
  /\ Walk(i)
  /\ cur # NoSpan /\ probes[i].addr < End(cur)
  /\ cur' = [cur EXCEPT !.parts = @ \cup {[Part(i, cur.start) EXCEPT !.offset = 2 * cur.total]},
                        !.total = IF ProbeEnd(i) > End(cur) THEN ProbeEnd(i) - cur.start ELSE @]
  /\ UNCHANGED spans

\* The probe starts inside the span, which grows if the probe reaches beyond it, whatever the limit.
Overlap(i) ==
  /\ Walk(i)
  /\ cur # NoSpan /\ probes[i].addr < End(cur)
  /\ cur' = [cur EXCEPT !.parts = @ \cup {Part(i, cur.start)},
                        !.total = IF ProbeEnd(i) > End(cur) THEN ProbeEnd(i) - cur.start ELSE @]
  /\ UNCHANGED spans

\* Mutant: the limit is tested before the probe is added.
Extend_Limit(i) ==
  /\ Walk(i)
  /\ cur # NoSpan /\ probes[i].addr = End(cur)
  /\ cur.total <= MaxBatchRegisters
  /\ cur' = [cur EXCEPT !.parts = @ \cup {Part(i, cur.start)}, !.total = @ + probes[i].count]
  /\ UNCHANGED spans

\* The probe follows the span and fits.
Extend(i) ==
  /\ Walk(i)
  /\ cur # NoSpan /\ probes[i].addr = End(cur)
  /\ cur.total + probes[i].count <= MaxBatchRegisters
  /\ cur' = [cur EXCEPT !.parts = @ \cup {Part(i, cur.start)}, !.total = @ + probes[i].count]
  /\ UNCHANGED spans

\* Mutant: the span before a gap is not closed.
Restart_Drop(i) ==
  /\ Walk(i)
  /\ cur # NoSpan
  /\ \/ probes[i].addr > End(cur)
     \/ probes[i].addr = End(cur) /\ cur.total + probes[i].count > MaxBatchRegisters
  /\ spans' = IF probes[i].addr > End(cur) THEN spans ELSE Append(spans, cur)
  /\ cur' = NewSpan(i)

\* After a gap, or when the probe does not fit, the span is closed and the next one begins.
Restart(i) ==
  /\ Walk(i)
  /\ cur # NoSpan
  /\ \/ probes[i].addr > End(cur)
     \/ probes[i].addr = End(cur) /\ cur.total + probes[i].count > MaxBatchRegisters
  /\ spans' = Append(spans, cur)
  /\ cur' = NewSpan(i)

Finish ==
  /\ todo = {} /\ ~done
  /\ spans' = IF cur = NoSpan THEN spans ELSE Append(spans, cur)
  /\ cur' = NoSpan
  /\ done' = TRUE
  /\ UNCHANGED <<probes, todo>>

Next ==
  \/ \E i \in todo : Begin(i) \/ Overlap(i) \/ Extend(i) \/ Restart(i)
  \/ Finish

Spec == Init /\ [][Next]_vars

-----------------------------------------------------------------------------
(* Properties. *)

\* The spans built so far.
Built == {spans[k] : k \in DOMAIN spans} \cup (IF cur = NoSpan THEN {} ELSE {cur})

\* The probes a span holds.
Held(s) == {p.probe : p \in s.parts}

PartType == [probe : DOMAIN probes, offset : Nat, length : Nat]
SpanType == [start : Nat, total : Nat, parts : SUBSET PartType]

TypeOK ==
  /\ probes \in Layout
  /\ todo \subseteq Real
  /\ spans \in Seq(SpanType)
  /\ cur \in SpanType
  /\ done \in BOOLEAN

\* Every register the walk has passed is read by one span and no other, so that it is shown once per cycle and
\* no later span overwrites it; those still ahead are in none.
PlacedOnce ==
  /\ UNION {Held(s) : s \in Built} = Real \ todo
  /\ \A s, t \in Built : s # t => Held(s) \cap Held(t) = {}

\* The bytes of each probe lie inside the answer to its span's request, at the probe's own registers: a complete
\* answer never gives a "short response", and no probe shows another's bytes.
SlicesInside ==
  \A s \in Built : \A p \in s.parts :
    /\ p.offset = 2 * (probes[p.probe].addr - s.start)
    /\ p.length = ByteLength(p.probe)
    /\ 0 <= p.offset /\ p.offset + p.length <= 2 * s.total

\* Spans ascend and do not share a register.  In particular their start addresses, by which the span tracker
\* knows them, are distinct.
SpansApart ==
  /\ \A j, k \in DOMAIN spans : j < k => End(spans[j]) <= spans[k].start
  /\ cur # NoSpan => \A j \in DOMAIN spans : End(spans[j]) <= cur.start

Registers(i) == probes[i].addr..(ProbeEnd(i) - 1)

\* A span reads no register that its section does not list: one the inverter does not have would make it refuse
\* the whole span.
OnlyListed == \A s \in Built : s.start..(End(s) - 1) \subseteq UNION {Registers(i) : i \in Held(s)}

\* No probe is longer than a request may be, and a probe that begins inside another ends there too.
NestedTable(l) ==
  \A i \in DOMAIN l : l[i].count # 0 =>
    /\ l[i].count <= MaxBatchRegisters
    /\ \A j \in DOMAIN l : l[j].count # 0 /\ l[j].addr \in l[i].addr..(l[i].addr + l[i].count - 1) =>
         l[j].addr + l[j].count <= l[i].addr + l[i].count
Nested == NestedTable(probes)

\* The inverter's limit per request holds for every table whose probes overlap only by nesting (the serial number
\* and the hardware version do), as in every section of the hub (NestedAssumption of MCSectionValues); the branch for
\* overlaps does not test it.
WithinLimit == (\A s \in Built : s.total <= MaxBatchRegisters) \/ ~Nested
=============================================================================
