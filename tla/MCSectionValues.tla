--------------------------- MODULE MCSectionValues ---------------------------
(* The sections of the hub, and layouts of the tests of batch.go that no section has. *)
EXTENDS SectionValues

\* Nothing but a probe without registers; nothing at all; more contiguous probes than a request may read; an overlap
\* that reaches beyond its span; two probes of the same address and a gap of one register.
TestLayouts ==
  {<<Probe(\h042C, 0, "word")>>, <<>>, U(\h1000, 61),
   <<Probe(\h042C, 0, "word"), Probe(\h0404, 3, "ascii"), Probe(\h0406, 2, "u32")>>,
   <<Probe(\h0488, 1, "word"), Probe(\h0486, 1, "signed"), Probe(\h0486, 1, "word")>>}

\* The sections with fewer channels read a part of what these read.
Largest ==
  {SystemProbes \o StatisticsProbes, ConfigurationProbes \o ConfigurationProbes2 \o SafetyProbes,
   GridProbes, EPSProbes, BMSProbes, PackProbes, MeterProbes, PCUProbes, BDUProbes,
   PVProbes(16), BatteryProbes(2) \o InternalInfoProbes, BatteryProbes(8) \o InternalInfoProbes}

ASSUME SectionsAssumption == Largest \subseteq Sections

\* Probes of a section overlap by nesting only, which is what WithinLimit asks of a table.
ASSUME NestedAssumption == \A s \in Sections : NestedTable(s)

MCLayout == Largest \cup TestLayouts
MCWords == {1, 3304, 3305, 32768, 65535, \h4120, \h4100}

\* Sprintf shows 3305 * 0.001 as 3.31, 3305 * 0.0001 as 0.331 and 65535 * 0.001 as 65.53.
MCTiesUp == {<<"millivolts", 3305>>, <<"factor", 3305>>}
MCShortBy == {0, 1}
=============================================================================
