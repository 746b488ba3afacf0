---------------------------- MODULE DiagnosisRules ----------------------------
(***************************************************************************)
(* run_diagnosis() as one step over arbitrary inputs: what the database    *)
(* and detect_boot() hand to the rules is chosen in Init, the persisted    *)
(* incident and the findings come out.  BootSession produces the inputs    *)
(* from a history of boots; here they range over every combination.        *)
(***************************************************************************)
EXTENDS Diagnosis

CONSTANTS
  TransitionRows, \* event rows that may be in the boot transition
  WindowRows,    \* event rows that may be in the configured incident window
  Interval,      \* collection_interval_seconds
  LastActivity,  \* timestamps of the last activity, and None
  Reboot,        \* reboot_timestamp
  Readings,      \* aggregated maxima, and None
  Warning        \* the (single) threshold of every reading

ASSUME RulesAssumption ==
  /\ IsFiniteSet(TransitionRows) /\ IsFiniteSet(WindowRows)
  /\ Interval \in Nat /\ Reboot \in Int /\ Warning \in Int
  /\ LastActivity \subseteq Int \cup {None} /\ Readings \subseteq Int \cup {None}

VARIABLES
  input,   \* what the database and detect_boot() supply
  result   \* what run_diagnosis() returns, None before it ran

vars == <<input, result>>

Config == [ temperature_critical_celsius |-> Warning,
            memory_warning_percent |-> Warning,
            cpu_warning_percent |-> Warning ]

Aggregates == [max_temperature: Readings, max_memory_percent: Readings,
               max_cpu_percent: Readings]

Inputs == [ transition: SUBSET TransitionRows, incident: SUBSET WindowRows,
            clean: {None, 0, 1}, last: LastActivity, aggregates: Aggregates ]

Init == input \in Inputs /\ result = None

Crash(in) == detect_crash(summarize(in.transition), in.clean)
Inferred(in) == infer_termination(Crash(in), in.last, Reboot, Interval)
\* Mutant: the findings draw on the whole transition, not on the window.
Findings_from_transition(in) ==
  build_findings(summarize(in.transition), in.aggregates, Inferred(in), Config)
Findings(in) ==
  build_findings(summarize(in.incident), in.aggregates, Inferred(in), Config)

\* Whether a warranted incident is also stored is the business of BootSession.
diagnosis(in) ==
  LET crash == Crash(in)
      inference == Inferred(in)
      incident ==
        [ type |-> incident_type(inference, crash),
          confidence |-> incident_confidence(inference, crash, Findings(in)),
          duration_estimate |-> inference.gap,
          evidence |-> evidence_of(summarize(in.incident), in.aggregates, inference, crash) ]
  IN [ incident |-> IF warranted(crash) THEN incident ELSE None,
       findings |-> IF warranted(crash) THEN Findings(in) ELSE <<>> ]

run_diagnosis ==
  /\ result = None
  /\ result' = diagnosis(input)
  /\ UNCHANGED input

Next == run_diagnosis

Spec == Init /\ [][Next]_vars
-------------------------------------------------------------------------------
Reported == result # None /\ result.incident # None
Explains(type) == \E i \in DOMAIN result.findings : result.findings[i].type = type

Incident == [ type: IncidentTypes, confidence: Confidences,
              duration_estimate: Nat \cup {None}, evidence: SUBSET EvidenceLines ]
Finding == [type: FindingTypes, severity: Confidences, confidence: Confidences]
Results == [incident: Incident \cup {None}, findings: Seq(Finding)]

\* None is neither an incident nor a result.
ASSUME ResultsAssumption == None \notin Incident /\ None \notin Results

\* The results are records of the expected shape.
TypeOK == input \in Inputs /\ result \in Results \cup {None}

\* The incident and its findings tell one story: a hang or a power loss is
\* explained by its own finding, at the incident's confidence and with the
\* highest severity, and a blue screen is never explained by either.
TypeMatchesFindings ==
  Reported =>
    LET hang == [type |-> "POSSIBLE_HARD_HANG", severity |-> "HIGH",
                 confidence |-> result.incident.confidence]
        power == [hang EXCEPT !.type = "POSSIBLE_POWER_LOSS"]
        found == {result.findings[i] : i \in DOMAIN result.findings}
    IN /\ result.incident.type = "HARD_HANG" <=> hang \in found
       /\ result.incident.type = "POWER_LOSS" <=> power \in found
       /\ result.incident.type = "BSOD" => ~Explains("POSSIBLE_HARD_HANG")

\* A longer silence before the reboot never weakens the verdict: among the
\* inputs that differ only in the time of the last activity, confidence grows
\* with the gap and a hang never turns back into a power loss.
LongerSilenceIsStronger ==
  Reported /\ input.last # None =>
    \A earlier \in LastActivity \ {None} :
      LET then == Inferred([input EXCEPT !.last = earlier])
          now == Inferred(input)
      IN earlier <= input.last =>
           /\ rank(now.confidence) <= rank(then.confidence)
           /\ now.mode = "hard_hang" => then.mode = "hard_hang"

\* Findings about the hardware, the disk and the GPU, and the severity of the first,
\* come from the configured window only: rows of the rest of the previous session
\* cannot add or strengthen one.
FindingsScopedToWindow ==
  Reported =>
    LET rows(category) == Cardinality({ev \in input.incident : classify_event(ev) = category})
    IN \A i \in DOMAIN result.findings :
         LET f == result.findings[i] IN
         /\ f.type = "POSSIBLE_HARDWARE_ERROR" =>
              IF f.severity = "HIGH" THEN rows("whea") >= 3 ELSE rows("whea") \in 1..2
         /\ f.type = "POSSIBLE_DISK_PROBLEM" => rows("disk") > 0
         /\ f.type = "POSSIBLE_GPU_PROBLEM" => rows("display") > 0

\* A clean verdict is overruled by a BugCheck and by nothing else, and a
\* BugCheck is a blue screen at HIGH confidence whatever the metric gap.
OnlyBugcheckOverrulesClean ==
  result # None =>
    LET bugcheck == \E ev \in input.transition : classify_event(ev) = "bugcheck" IN
    /\ Reported /\ input.clean = 1 => bugcheck
    /\ bugcheck => /\ Reported
                   /\ result.incident.type = "BSOD"
                   /\ result.incident.confidence = "HIGH"
==============================================================================
