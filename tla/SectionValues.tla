---------------------------- MODULE SectionValues ----------------------------
(***************************************************************************)
(* From the registers of the inverter to what the browser is sent: the     *)
(* plan of a section (BatchPlan), the answers to its spans cut into probes *)
(* and formatted (hub_streaming.go: readBatchSpans, or probe by probe in   *)
(* readSpanIndividualFallbackAccum), the faults of the system section and  *)
(* the topology of the bms section.                                        *)
(*                                                                         *)
(* In memory every register holds its own number, except those of one      *)
(* probe: a value made of anything else's registers shows.  Which span is  *)
(* read and when is SpanTracker's; here any span of a finished plan is.    *)
(***************************************************************************)
EXTENDS BatchPlan, RegisterTables

CONSTANTS
  Words,              \* the words a probe's registers may hold
  ShortBy,            \* by how many registers an answer may be too short
  TopoTowers,         \* 2
  TopoPacksPerTower   \* 10

ASSUME WordsAssumption == (\A w \in Words : w \in Nat /\ w < 65536) /\ ShortBy \subseteq Nat

\* The packs of a tower are the bits of a word.
ASSUME TopologyAssumption == TopoTowers \in 1..16 /\ TopoPacksPerTower \in 1..16

VARIABLES
  memory,    \* the probe, the words of its registers at even and odd distance, how much the answers lack
  shown,     \* the register values on the results channel, by probe
  faults,    \* the fault bits of the inverter, the reads of them that failed, the faults reported
  topology   \* the registers of the bms section that were read, two of their words, the cards made of them

valueVars == <<memory, shown, faults, topology>>
allVars == <<vars, valueVars>>

None == [probe |-> 0]
NotRead == [failed |-> {}]
NoCards == [read |-> {}]

ValuesInit ==
  /\ Init
  /\ memory = None
  /\ shown = <<>>
  /\ faults = NotRead
  /\ topology = NoCards

\* The word of register a.
Word(m, a) ==
  IF a \in Registers(m.probe) THEN IF (a - probes[m.probe].addr) % 2 = 0 THEN m.even ELSE m.odd ELSE a

\* What an inverter that answers n registers from a on sends.
Data(m, a, n) == [j \in 1..n |-> Word(m, a + j - 1)]

\* A probe of one register has no odd one.
Contents(i) ==
  [probe : {i}, even : Words, odd : IF probes[i].count = 1 THEN {0} ELSE Words, short : ShortBy]

Answered(m, n) == IF m.short < n THEN n - m.short ELSE 0

\* The message NewRegisterValue: a value and its raw form, or an error.
Value(i, words) ==
  [error |-> FALSE, value |-> FormatValue(probes[i].form, words), raw |-> FormatRawValue(probes[i].form, words)]
Error == [error |-> TRUE, value |-> <<>>, raw |-> <<>>]

Idle == done /\ shown = <<>> /\ faults = NotRead /\ topology = NoCards

\* A span is read with one request; a probe that the answer does not reach is a "short response".
ReadSpan(k) ==
  /\ Idle
  /\ \E p \in spans[k].parts : \E m \in Contents(p.probe) :
       LET n == Answered(m, spans[k].total)
           data == Data(m, spans[k].start, n)
           cut(part) == SubSeq(data, part.offset \div 2 + 1, (part.offset + part.length) \div 2)
           of(i) == CHOOSE part \in spans[k].parts : part.probe = i
       IN  /\ memory' = m
           /\ shown' = [i \in {part.probe : part \in spans[k].parts} |->
                          IF of(i).offset + of(i).length > 2 * n THEN Error ELSE Value(i, cut(of(i)))]
  /\ UNCHANGED <<vars, faults, topology>>

\* The probes of a span are read one by one; a read may fail, and nobody checks the length of an answer.
ReadSingly(k) ==
  /\ Idle
  /\ \E p \in spans[k].parts : \E m \in Contents(p.probe), failed \in SUBSET {p.probe} :
       /\ memory' = m
       /\ shown' = [i \in {part.probe : part \in spans[k].parts} |->
                      IF i \in failed THEN Error
                      ELSE Value(i, Data(m, probes[i].addr, Answered(m, probes[i].count)))]
  /\ UNCHANGED <<vars, faults, topology>>

-----------------------------------------------------------------------------
(* The system section ends with the faults. *)

FaultSection == probes = SystemProbes \o StatisticsProbes

Upto(probe, n) == probe.addr..(probe.addr + n - 1)

\* A register of fault bits with one bit on, or all but one.
FaultWord(f, a) ==
  IF a # f.register THEN IF f.on THEN 0 ELSE 65535
  ELSE IF f.on THEN 2^f.bit ELSE 65535 - 2^f.bit

\* Both reads go out together; what one that failed, or the end of a short answer, would have said is missing.
ReadFaults ==
  /\ Idle /\ FaultSection
  /\ \E a \in FaultAddrs, b \in All, on \in BOOLEAN, failed \in SUBSET {1, 2}, short \in ShortBy :
       LET f == [register |-> a, bit |-> b, on |-> on, short |-> short]
           read == UNION {Upto(FaultRegisters[r], Answered(f, FaultRegisters[r].count)) : r \in {1, 2} \ failed}
       IN  faults' = [failed |-> failed, bits |-> f, active |-> DecodeFaults([g \in read |-> FaultWord(f, g)])]
  /\ UNCHANGED <<vars, memory, shown, topology>>

-----------------------------------------------------------------------------
(* The bms section ends with the topology and the protection registers. *)

BMSSection == probes = BMSProbes

ProtectionAddrs == {\h9014, \h9015, \h9016, \h9017, \h901C, \h901D}
TopologyAddr == \h900D
BitmapAddr == \h9022

\* Mutant: the towers of the bitmap count from one.
Cards_FromOne(read, topo, towers) ==
  [detected   |-> IF TopologyAddr \in read THEN DecodeTopology(topo) ELSE <<>>,
   mismatch   |-> TopologyAddr \in read /\ DecodeTopology(topo) # <<TopoTowers, TopoPacksPerTower>>,
   online     |-> [t \in 1..TopoTowers |->
                     IF BitmapAddr \in read /\ Bits(towers, t, 1) = 1 THEN 2^TopoPacksPerTower - 1 ELSE 0],
   protection |-> read \cap ProtectionAddrs]

\* What is made of the registers read; the others count as zero, also when they failed.
Cards(read, topo, towers) ==
  [detected   |-> IF TopologyAddr \in read THEN DecodeTopology(topo) ELSE <<>>,
   mismatch   |-> TopologyAddr \in read /\ DecodeTopology(topo) # <<TopoTowers, TopoPacksPerTower>>,
   online     |-> [t \in 1..TopoTowers |->
                     IF BitmapAddr \in read /\ Bits(towers, t - 1, 1) = 1 THEN 2^TopoPacksPerTower - 1 ELSE 0],
   protection |-> read \cap ProtectionAddrs]

ShowTopology ==
  /\ Idle /\ BMSSection
  /\ \E read \in SUBSET (ProtectionAddrs \cup {TopologyAddr, BitmapAddr}), towers \in Words,
        topo \in Words \cup {256 * TopoTowers + TopoPacksPerTower} :
       topology' = [read |-> read, topo |-> topo, towers |-> towers, cards |-> Cards(read, topo, towers)]
  /\ UNCHANGED <<vars, memory, shown, faults>>

\* The hub takes the messages from the results channel.
Sent ==
  /\ ~Idle /\ done
  /\ memory' = None /\ shown' = <<>> /\ faults' = NotRead /\ topology' = NoCards
  /\ UNCHANGED vars

ValuesNext ==
  \/ Next /\ UNCHANGED valueVars
  \/ \E k \in DOMAIN spans : ReadSpan(k) \/ ReadSingly(k)
  \/ ReadFaults
  \/ ShowTopology
  \/ Sent

ValuesSpec == ValuesInit /\ [][ValuesNext]_allVars

-----------------------------------------------------------------------------
(* Properties. *)

Own(i) == Data(memory, probes[i].addr, probes[i].count)

\* What the browser shows for a register is made of that register's own words and no others, whether its span
\* was read or it alone; a complete answer gives no error, and of an answer that is too short nothing is made up.
ShownIsOwn ==
  \A i \in DOMAIN shown :
    IF shown[i].error THEN memory.short > 0 \/ i = memory.probe
    ELSE \E n \in 0..probes[i].count :
           /\ shown[i] = Value(i, SubSeq(Own(i), 1, n))
           /\ memory.short = 0 => n = probes[i].count

\* The number n was shown as q, without its last digit.
Near(q, n) == 10 * q - n \in -5..5

\* The words that a value stands for.
Words16(v) == [j \in DOMAIN v |-> v[j] % 65536]
Encodes(form, value, raw) ==
  CASE form = "system_time"    -> <<(value[6] - 2000) % 65536, value[5], value[4], value[1], value[2], value[3]>> = raw
    [] form = "bms_clock"      -> raw = <<(value[1] - 2000) * 1024 + value[2] * 64 + value[3] * 2 + (value[4] \div 16),
                                          (value[4] % 16) * 4096 + value[5] * 64 + value[6]>>
    [] form = "bms_sw_version" -> <<value[1], value[2], value[3], value[4]>> = <<raw[1] % 256, raw[2], raw[3], raw[4]>>
    [] form = "ascii"          -> LET n == Len(value) IN
                                  /\ value = SubSeq(raw, 1, n)
                                  /\ n < Len(raw) => raw[n + 1] \in {Zero, Blank}
                                  /\ n > 0 => value[n] # Blank
    [] form = "millivolts"     -> Len(raw) = 1 /\ Near(value[1], raw[1])
    [] form = "factor"         -> Len(raw) = 1 /\ Near(value[1], Signed(raw[1]))
    [] OTHER                   -> Words16(value) = raw

\* The value shown and the raw value beside it say the same: no bit of a clock or of a sign is lost, the two agree on
\* what part of an answer they read, and a number that loses its last digit is the nearest of those that are left.  A
\* year is the word's, counted from 2000, up to 65535; the words beyond are shown as the years from 0 to 1999.
ValueMatchesRaw ==
  \A i \in DOMAIN shown :
    ~shown[i].error /\ shown[i].value # NoData => Encodes(probes[i].form, shown[i].value, shown[i].raw)

\* Every described fault that is on in a register that was read is reported and no other; if one of the two reads
\* fails the faults of the other are still reported.
FaultsReported ==
  faults # NotRead =>
    LET f == faults.bits
        on == {d \in Described : (d = <<f.register, f.bit>>) = f.on}
        read == {d \in Described : (IF d[1] < \h0420 THEN 1 ELSE 2) \notin faults.failed}
    IN  IF f.short = 0 THEN faults.active = on \cap read ELSE faults.active \subseteq on \cap read

\* A pack is shown online when the bit of its group, as the word that would select it names the group, is set in
\* the bitmap of the towers; the browser that clicks on it asks for a pack of that tower.
OnlineMatchesQuery ==
  topology # NoCards =>
    \A t \in 1..TopoTowers, p \in 1..TopoPacksPerTower :
      LET group == EncodePackQuery(1, t, p, TopoTowers) \div 256
      IN  (Bits(topology.cards.online[t], p - 1, 1) = 1)
            <=> (BitmapAddr \in topology.read /\ Bits(topology.towers, group, 1) = 1)
=============================================================================
