--------------------------- MODULE MCDiagnosisRules ---------------------------
(* Every combination of boot evidence, verdict, gap and readings.           *)
EXTENDS DiagnosisRules

Row(provider, id, text, row) ==
  [provider |-> {provider}, event_id |-> id, bugcheck |-> text, row |-> row]

\* Kernel-Power 41 and 6008 as the classic API returns them (signed), a
\* BugCheck 1001 known by its text only, a WHEA event far from the reboot.
MCTransitionRows ==
  { Row("kernel_power", 41 - 2147483647 - 1, FALSE, 1),
    Row("EventLog", 6008 - 2147483647 - 1, FALSE, 2),
    Row("Service Control Manager", 1001, TRUE, 3),
    Row("whea", 17, FALSE, 4) }

MCWindowRows ==
     {Row("whea", 17, FALSE, i) : i \in 5..7}
  \cup {Row("disk", 51, FALSE, 8), Row("display", 4101, FALSE, 9)}

\* Gaps of 0, just below and at each of the two thresholds, and none.
MCLastActivity == {None, 300, 241, 240, 151, 150}
MCReadings == {None, 89, 90}
==============================================================================
