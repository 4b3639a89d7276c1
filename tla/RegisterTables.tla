--------------------------- MODULE RegisterTables ---------------------------
(***************************************************************************)
(* internal/register: which registers each section reads, how the bytes of *)
(* a probe become the value shown for it, and the table of fault bits.     *)
(*                                                                         *)
(* A probe is its first register, the number of registers and its form.    *)
(* Names, units and labels are left out; an enum is shown by the number it *)
(* is looked up with.  A number is counted in units of its last digit      *)
(* shown.  That is the unit of the register, so that the scale is left     *)
(* out, but for two kinds of probe that show one digit less: volts from    *)
(* millivolts, "millivolts", and a factor from ten thousandths, "factor".  *)
(* Groups stay in the order of the tables.                                 *)
(***************************************************************************)
EXTENDS Integers, Sequences, FiniteSets, SequencesExt

\* The forms and numbers ending in 5 that Sprintf rounds up: a product of floating-point numbers is on one side of the
\* tie or the other.
CONSTANT TiesUp

Form == {"word", "signed", "millivolts", "factor", "u32", "s32", "ascii", "system_time", "bms_clock", "bms_sw_version"}

Probe(addr, count, form) == [addr |-> addr, count |-> count, form |-> form]

\* n probes of one register each from addr on: unsigned or enum (U), signed (S), millivolts (V), a factor (F).
U(addr, n) == [i \in 1..n |-> Probe(addr + i - 1, 1, "word")]
S(addr, n) == [i \in 1..n |-> Probe(addr + i - 1, 1, "signed")]
V(addr, n) == [i \in 1..n |-> Probe(addr + i - 1, 1, "millivolts")]
F(addr)    == <<Probe(addr, 1, "factor")>>

\* Probes of several registers: text, 32 bits without and with sign, the composites.
A(addr, n)     == <<Probe(addr, n, "ascii")>>
D(addr)        == <<Probe(addr, 2, "u32")>>
SD(addr)       == <<Probe(addr, 2, "s32")>>
Time(addr)     == <<Probe(addr, 6, "system_time")>>
Clock(addr)    == <<Probe(addr, 2, "bms_clock")>>
Version(addr)  == <<Probe(addr, 4, "bms_sw_version")>>

-----------------------------------------------------------------------------
(* The probes of each section, in the order of its groups (flattenProbeGroups). *)

SystemProbes ==
  A(\h0445, 10)                                                                             \* Identity
  \o A(\h044D, 2) \o A(\h044F, 4) \o A(\h0453, 4) \o A(\h0457, 4) \o A(\h045B, 2)           \* Firmware
  \o U(\h0404, 1) \o U(\h0417, 1) \o U(\h0426, 1) \o Time(\h042C)                           \* Status
  \o U(\h045D, 3) \o A(\h0460, 4) \o A(\h0467, 6)                                           \* Firmware (Extended)
  \o S(\h0418, 3) \o S(\h0420, 1)                                                           \* Temperatures
  \o U(\h042B, 1) \o U(\h043E, 1)                                                           \* Protection

\* Six metrics of 32 bits, today and total, interleaved.
StatisticsProbes == FlattenSeq([i \in 1..6 |-> D(\h0684 + 4 * (i - 1))])
  \o FlattenSeq([i \in 1..6 |-> D(\h0686 + 4 * (i - 1))])

GridProbes ==
  U(\h0484, 1) \o S(\h0485, 3)                                                              \* General
  \o U(\h048D, 2) \o S(\h048F, 3) \o U(\h0498, 2) \o S(\h049A, 3)                           \* Phase R, S
  \o U(\h04A3, 2) \o S(\h04A5, 3)                                                           \* Phase T
  \o S(\h0488, 4) \o U(\h0492, 1) \o S(\h0493, 2)                                           \* PCC Power
  \o U(\h04BA, 3)                                                                           \* Line Voltages
  \o U(\h04AE, 2) \o S(\h04BD, 1) \o U(\h04BF, 1)                                           \* Load

EPSProbes ==
  S(\h0504, 3) \o U(\h0507, 1)                                                              \* General
  \o U(\h050A, 1) \o S(\h050B, 2) \o U(\h0512, 1) \o S(\h0513, 1)                           \* Phase R, S
  \o U(\h051A, 1) \o S(\h051B, 1)                                                           \* Phase T
  \o U(\h0510, 1) \o U(\h0518, 1) \o U(\h0520, 1)                                           \* Emergency Load

PVChannel(ch) == U(\h0584 + 3 * (ch - 1), 1) \o S(\h0585 + 3 * (ch - 1), 1) \o U(\h0586 + 3 * (ch - 1), 1)
PVProbes(channels) == FlattenSeq([ch \in 1..channels |-> PVChannel(ch)]) \o U(\h05C4, 1)

BatteryChannel(ch) ==
  LET base == \h0604 + 7 * (ch - 1)
      state == \h0644 + 4 * (ch - 1)
  IN  U(base, 1) \o S(base + 1, 3) \o U(base + 4, 3) \o U(state, 3)
GlobalStats == S(\h0667, 1) \o U(\h0668, 4)
BatteryProbes(channels) == FlattenSeq([ch \in 1..channels |-> BatteryChannel(ch)]) \o GlobalStats

InternalInfoProbes == U(\h06CC, 3) \o S(\h06D0, 1) \o U(\h06ED, 1)

BMSProbes ==
  Clock(\h9004) \o U(\h9006, 1) \o A(\h9007, 4) \o U(\h900B, 5) \o S(\h9010, 2) \o U(\h9012, 2)
  \o Version(\h9018) \o A(\h9024, 10) \o U(\h9022, 2) \o S(\h902F, 2)                       \* BMS Info
  \o U(\h9014, 4) \o U(\h901C, 2)                                                           \* Protection

PackProbes ==
  U(\h9044, 1) \o A(\h9047, 10) \o U(\h9079, 2) \o S(\h9071, 1) \o U(\h9072, 3) \o U(\h907B, 2)
  \o U(\h9104, 1) \o S(\h9105, 1) \o A(\h9106, 4) \o U(\h910A, 2)                           \* Pack Info
  \o V(\h9051, 16) \o V(\h9069, 2)                                                          \* Cell Voltages
  \o U(\h9075, 1)                                                                           \* Balance State
  \o S(\h906B, 6) \o S(\h90BC, 4)                                                           \* Temperatures
  \o U(\h9076, 3) \o U(\h9124, 3)                                                           \* Pack Status

PCUProbes ==
  U(\h6004, 1) \o U(\h6010, 1) \o U(\h6020, 1) \o U(\h6021, 1) \o S(\h6022, 2)              \* Info, Temperatures
  \o U(\h6024, 4) \o U(\h6028, 4) \o U(\h602C, 2) \o S(\h602E, 2)                           \* Alarms, Faults, DC

BDUProbes ==
  U(\h6084, 1) \o U(\h6090, 1) \o A(\h6091, 10) \o A(\h609B, 4) \o U(\h609F, 1) \o U(\h60A0, 3)

MeterProbes == U(\h7080, 2)

ConfigurationProbes ==
  U(\h100B, 4) \o U(\h1010, 3) \o U(\h1023, 1) \o S(\h1024, 1) \o U(\h1025, 1) \o U(\h1028, 4)
  \o U(\h102F, 1) \o U(\h1034, 10)                                                          \* System Config
  \o U(\h1044, 15) \o U(\h1054, 3) \o S(\h1057, 1) \o U(\h1058, 1) \o U(\h105A, 2)          \* Battery Config
  \o U(\h1110, 1) \o U(\h1184, 2) \o SD(\h1187) \o SD(\h1189) \o SD(\h118B) \o SD(\h118D)
  \o SD(\h118F)                                                                             \* Energy Storage Mode
  \o U(\h1060, 9) \o S(\h1069, 1) \o U(\h106A, 3) \o U(\h106F, 3) \o U(\h1073, 1)
  \o U(\h1075, 2)                                                                           \* Function Config

ConfigurationProbes2 ==
  U(\h1084, 9) \o U(\h10A0, 1) \o U(\h10A5, 1) \o U(\h10AF, 2) \o U(\h10B9, 5)              \* Function Config 2
  \o U(\h1104, 4) \o S(\h1108, 2) \o U(\h110A, 2) \o S(\h110C, 2)                           \* Remote Control
  \o U(\h1111, 6) \o D(\h1117) \o D(\h1119)                                                 \* Timed Charge/Discharge
  \o U(\h1120, 5) \o D(\h1125) \o U(\h1127, 5)                                              \* Time Sharing Control
  \o D(\h1130) \o D(\h1132) \o U(\h1134, 2) \o D(\h113A)                                    \* Peak Shaving, Feeding
  \o U(\h1144, 3) \o U(\h11C4, 4)                                                           \* Off-Grid, Communication

SafetyProbes ==
  U(\h0800, 12) \o U(\h0840, 18) \o U(\h0880, 22)                                           \* Power On, Voltage, Frequency
  \o U(\h08C0, 7) \o S(\h08C7, 3) \o U(\h08CA, 3) \o U(\h0A00, 10)                          \* DCI, Island/GFCI/ISO
  \o U(\h0980, 1) \o FlattenSeq([i \in 1..5 |-> F(\h097F + 2 * i) \o S(\h0980 + 2 * i, 1)])
  \o U(\h098B, 2) \o U(\h099F, 3)                                                         \* Reactive Power

\* The sections of the hub, the battery and PV sections with every number of channels they can have,
\* and the pack drill-down of the bms section.
Sections ==
  {SystemProbes \o StatisticsProbes, ConfigurationProbes \o ConfigurationProbes2 \o SafetyProbes,
   GridProbes, EPSProbes, BMSProbes, PackProbes, MeterProbes, PCUProbes, BDUProbes}
  \cup {PVProbes(n) : n \in 2..16}
  \cup {BatteryProbes(n) \o InternalInfoProbes : n \in 1..8}

-----------------------------------------------------------------------------
(* The value shown for the words of a probe.  Values are tuples of numbers. *)

\* Shown as "<no data>"; the raw value is then "" or what there is.
NoData == <<>>

\* int16 of a word.
Signed(w) == IF w >= 32768 THEN w - 65536 ELSE w

\* Bits lo to lo + n - 1 of a word, for fields that do not cross it.
Bits(w, lo, n) == (w \div 2^lo) % 2^n

\* Mutant: the hour is taken from the low word alone.
DecodeBMSClock_Hour(hi, lo) ==
  <<2000 + Bits(hi, 10, 6), Bits(hi, 6, 4), Bits(hi, 1, 5), Bits(lo, 12, 4), Bits(lo, 6, 6), Bits(lo, 0, 6)>>

\* The words hi and lo as year, month, day, hour, minute and second; the hour straddles the two.
DecodeBMSClock(hi, lo) ==
  <<2000 + Bits(hi, 10, 6), Bits(hi, 6, 4), Bits(hi, 1, 5), 16 * Bits(hi, 0, 1) + Bits(lo, 12, 4),
    Bits(lo, 6, 6), Bits(lo, 0, 6)>>

\* Parallel strings and packs per string.
DecodeTopology(w) == <<w \div 256, w % 256>>

\* Two characters to a word.
Characters(words) ==
  [i \in 1..2 * Len(words) |-> IF i % 2 = 1 THEN words[(i + 1) \div 2] \div 256 ELSE words[i \div 2] % 256]

\* The text ends at the first zero; trailing blanks are cut.
Zero == 0
Blank == 32
Text(words) ==
  LET chars == Characters(words)
      end == CHOOSE n \in 0..Len(chars) : /\ \A i \in 1..n : chars[i] # Zero
                                          /\ n = Len(chars) \/ chars[n + 1] = Zero
      last == CHOOSE n \in 0..end : /\ \A i \in n + 1..end : chars[i] = Blank
                                    /\ n = 0 \/ chars[n] # Blank
  IN  SubSeq(chars, 1, last)

\* How many words FormatValue wants before it looks at them.
Wanted(form) ==
  CASE form = "system_time" -> 6 [] form = "bms_sw_version" -> 4 [] form \in {"bms_clock", "u32", "s32"} -> 2
    [] form = "ascii" -> 0 [] OTHER -> 1

\* n without its last digit, to the nearest.
Magnitude(n) == IF n < 0 THEN -n ELSE n
Rounded(form, n) ==
  LET m == Magnitude(n)
      up == m % 10 > 5 \/ (m % 10 = 5 /\ <<form, m>> \in TiesUp)
      q == (m \div 10) + (IF up THEN 1 ELSE 0)
  IN  IF n < 0 THEN -q ELSE q

\* The year of a time is a uint16, as the word it is counted in from 2000.
Year(w) == (w + 2000) % 65536

\* A 32-bit number is a pair, the high word with the sign.
FormatValue(form, words) ==
  IF Len(words) < Wanted(form) THEN NoData ELSE
  CASE form = "system_time"    -> <<words[4], words[5], words[6], words[3], words[2], Year(words[1])>>
    [] form = "bms_clock"      -> DecodeBMSClock(words[1], words[2])
    [] form = "bms_sw_version" -> <<words[1] % 256, words[2], words[3], words[4]>>
    [] form = "ascii"          -> Text(words)
    [] form = "u32"            -> <<words[1], words[2]>>
    [] form = "s32"            -> <<Signed(words[1]), words[2]>>
    [] form = "signed"         -> <<Signed(words[1])>>
    [] form = "millivolts"     -> <<Rounded(form, words[1])>>
    [] form = "factor"         -> <<Rounded(form, Signed(words[1]))>>
    [] OTHER                   -> <<words[1]>>

First(words, n) == SubSeq(words, 1, IF Len(words) < n THEN Len(words) ELSE n)

\* The composites want all their words, text is its bytes in hexadecimal, and one word of two will do for a number.
FormatRawValue(form, words) ==
  CASE form \in {"system_time", "bms_clock", "bms_sw_version"} ->
         IF Len(words) < Wanted(form) THEN NoData ELSE First(words, Wanted(form))
    [] form = "ascii"          -> Characters(words)
    [] form \in {"u32", "s32"} -> First(words, 2)
    [] OTHER                   -> First(words, 1)

\* The word that selects a pack: groups and packs count from zero, from one in the browser.
EncodePackQuery(input, tower, pack, towersPerInput) ==
  256 * (((input - 1) * towersPerInput + tower - 1) % 16) + ((pack - 1) % 256)

-----------------------------------------------------------------------------
(* Faults. *)

All == 0..15

\* The fault bits that have a description, by register: those of the first read, and of the second.
FaultTable1 ==
  [a \in \h0405..\h0413 |->
     CASE a = \h0408 -> 0..13 [] a = \h0409 -> 0..11
       [] a = \h040C -> All \ {6, 7, 13, 14} [] a = \h040F -> All \ {4, 5, 6} [] OTHER -> All]
FaultTable2 ==
  [a \in {\h0433, \h0434} \cup (\h0437..\h043D) |->
     CASE a = \h0433 -> (0..5) \cup (8..10) [] a = \h0434 -> 0..14
       [] a = \h0437 -> 8..15 [] a = \h0438 -> 0..1
       [] a = \h043B -> (0..1) \cup (8..11) [] a = \h043C -> 0..14
       [] a = \h043D -> (0..3) \cup (8..13) [] OTHER -> All]
FaultAddrs == \h0405..\h043D
Described == {f \in FaultAddrs \X All :
                \/ f[1] \in DOMAIN FaultTable1 /\ f[2] \in FaultTable1[f[1]]
                \/ f[1] \in DOMAIN FaultTable2 /\ f[2] \in FaultTable2[f[1]]}

\* Mutant: the second read is one register short.
FaultRegisters_Short == <<Probe(\h0405, 18, "word"), Probe(\h0432, 11, "word")>>

\* The two reads that fetch the fault registers.
FaultRegisters == <<Probe(\h0405, 18, "word"), Probe(\h0432, 12, "word")>>

\* DecodeFaults of what was read: faultData maps the registers read to their words.
DecodeFaults(faultData) ==
  {f \in Described : f[1] \in DOMAIN faultData /\ Bits(faultData[f[1]], f[2], 1) = 1}
=============================================================================
