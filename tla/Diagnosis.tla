------------------------------ MODULE Diagnosis ------------------------------
(***************************************************************************)
(* The rules that turn an event summary, a shutdown verdict and the age of *)
(* the last recorded activity into an incident: crash_detector.py,         *)
(* hang_detector.py and the pure part of diagnosis.py.                     *)
(*                                                                         *)
(* The four mutually exclusive flags of TerminationInference are one       *)
(* field, "mode".  Texts (explanations, wording of evidence) are left out; *)
(* an evidence line is the name of what it reports.                        *)
(***************************************************************************)
EXTENDS EventAnalyzer, Sequences

Modes == {"none", "normal_shutdown", "crash", "hard_hang", "power_loss"}
Confidences == {"LOW", "MEDIUM", "HIGH"}
IncidentTypes == {"HARD_HANG", "BSOD", "UNEXPECTED_REBOOT", "POWER_LOSS", "UNKNOWN"}
\* The code also names POSSIBLE_DRIVER_PROBLEM, which no rule builds.
FindingTypes ==
  { "POSSIBLE_HARDWARE_ERROR", "POSSIBLE_DISK_PROBLEM", "POSSIBLE_GPU_PROBLEM",
    "POSSIBLE_THERMAL_PROBLEM", "POSSIBLE_MEMORY_PRESSURE", "POSSIBLE_CPU_PRESSURE",
    "POSSIBLE_HARD_HANG", "POSSIBLE_POWER_LOSS", "POSSIBLE_CRASH", "INSUFFICIENT_EVIDENCE" }

\* previous_session_clean is the stored column: None, 0 or 1; bool() of it.
detect_crash(summary, previous_session_clean) ==
  LET clean == previous_session_clean = 1 IN
  [ bugcheck_detected     |-> summary.bugcheck_detected,
    kernel_power_detected |-> summary.kernel_power_detected,
    clean_shutdown        |-> clean,
    unexpected_shutdown   |-> /\ ~clean
                              /\ \/ summary.kernel_power_detected
                                 \/ summary.unexpected_shutdown_event ]

\* Seconds without activity before the reboot, never negative.
HangGap(last_activity, reboot) ==
  IF last_activity = None THEN None
  ELSE IF reboot > last_activity THEN reboot - last_activity ELSE 0

\* Mutant: the weaker threshold is tested first.
gap_verdict_swapped(gap, interval) ==
  IF gap >= 2 * interval THEN [mode |-> "hard_hang", confidence |-> "MEDIUM"]
  ELSE IF gap >= 5 * interval THEN [mode |-> "hard_hang", confidence |-> "HIGH"]
  ELSE [mode |-> "power_loss", confidence |-> "HIGH"]
\* Kernel-Power 41 with a known gap: a freeze when activity stopped well
\* before the reboot, a power cut when it did not.
gap_verdict(gap, interval) ==
  IF gap >= 5 * interval THEN [mode |-> "hard_hang", confidence |-> "HIGH"]
  ELSE IF gap >= 2 * interval THEN [mode |-> "hard_hang", confidence |-> "MEDIUM"]
  ELSE [mode |-> "power_loss", confidence |-> "LOW"]

infer_termination(crash, last_activity, reboot, interval) ==
  LET gap == HangGap(last_activity, reboot)
      Inference(mode, confidence, g) ==
        [mode |-> mode, confidence |-> confidence, gap |-> g]
      verdict == gap_verdict(gap, interval)
  IN IF crash.clean_shutdown THEN Inference("normal_shutdown", "HIGH", None)
     ELSE IF crash.bugcheck_detected THEN Inference("crash", "HIGH", None)
     ELSE IF ~crash.unexpected_shutdown THEN Inference("none", "LOW", None)
     ELSE IF ~crash.kernel_power_detected \/ gap = None
          THEN Inference("hard_hang", "LOW", gap)
     ELSE Inference(verdict.mode, verdict.confidence, gap)

\* Mutant: a Kernel-Power event warrants an incident by itself.
warranted_by_power(crash) ==
  crash.unexpected_shutdown \/ crash.bugcheck_detected \/ crash.kernel_power_detected
warranted(crash) == crash.unexpected_shutdown \/ crash.bugcheck_detected

\* Mutant: the inferred mode is asked before the BugCheck.
incident_type_by_mode(inference, crash) ==
  IF inference.mode \in {"hard_hang", "power_loss"} THEN "HARD_HANG"
  ELSE IF crash.bugcheck_detected THEN "BSOD"
  ELSE IF crash.unexpected_shutdown THEN "UNEXPECTED_REBOOT"
  ELSE "UNKNOWN"
\* Mutant: the incident is given the name of the finding.
incident_type_of_finding(inference, crash) ==
  IF crash.bugcheck_detected THEN "POSSIBLE_CRASH"
  ELSE IF inference.mode = "hard_hang" THEN "POSSIBLE_HARD_HANG"
  ELSE "UNKNOWN"
incident_type(inference, crash) ==
  IF crash.bugcheck_detected THEN "BSOD"
  ELSE IF inference.mode = "hard_hang" THEN "HARD_HANG"
  ELSE IF inference.mode = "power_loss" THEN "POWER_LOSS"
  ELSE IF crash.unexpected_shutdown THEN "UNEXPECTED_REBOOT"
  ELSE "UNKNOWN"

rank(confidence) == [HIGH |-> 3, MEDIUM |-> 2, LOW |-> 1][confidence]

\* Highest confidence among the findings when no rule of its own applies.
incident_confidence(inference, crash, findings) ==
  IF crash.bugcheck_detected THEN "HIGH"
  ELSE IF inference.mode \in {"hard_hang", "power_loss"} THEN inference.confidence
  ELSE LET all == {"LOW"} \cup {findings[i].confidence : i \in DOMAIN findings}
       IN CHOOSE c \in all : \A d \in all : rank(d) <= rank(c)

\* A measured maximum reaches a configured threshold, which is None for a NaN.
reached(maximum, threshold) == maximum # None /\ threshold # None /\ maximum >= threshold

\* A finding, if its condition holds.
finding_if(condition, type, severity, confidence) ==
  IF condition THEN <<[type |-> type, severity |-> severity, confidence |-> confidence]>>
  ELSE <<>>

\* _build_findings.  Only a hardware error has a severity that depends on the
\* evidence, so the stable sort by severity, highest first, has one outcome:
\* within each severity the order of the code.
build_findings(summary, aggregates, inference, config) ==
  LET found ==
           finding_if(summary.whea_count >= 3, "POSSIBLE_HARDWARE_ERROR", "HIGH", "HIGH")
        \o finding_if(reached(aggregates.max_temperature, config.temperature_critical_celsius),
                      "POSSIBLE_THERMAL_PROBLEM", "HIGH", "MEDIUM")
        \o finding_if(inference.mode = "hard_hang",
                      "POSSIBLE_HARD_HANG", "HIGH", inference.confidence)
        \o finding_if(inference.mode = "power_loss",
                      "POSSIBLE_POWER_LOSS", "HIGH", inference.confidence)
        \o finding_if(inference.mode = "crash", "POSSIBLE_CRASH", "HIGH", "HIGH")
        \o finding_if(summary.whea_count \in 1..2,
                      "POSSIBLE_HARDWARE_ERROR", "MEDIUM", "MEDIUM")
        \o finding_if(summary.disk_error_count > 0, "POSSIBLE_DISK_PROBLEM", "MEDIUM", "MEDIUM")
        \o finding_if(summary.display_error_count > 0, "POSSIBLE_GPU_PROBLEM", "MEDIUM", "MEDIUM")
        \o finding_if(reached(aggregates.max_memory_percent, config.memory_warning_percent),
                      "POSSIBLE_MEMORY_PRESSURE", "MEDIUM", "LOW")
        \o finding_if(reached(aggregates.max_cpu_percent, config.cpu_warning_percent),
                      "POSSIBLE_CPU_PRESSURE", "LOW", "LOW")
  IN IF found = <<>> THEN finding_if(TRUE, "INSUFFICIENT_EVIDENCE", "LOW", "LOW") ELSE found

EvidenceLines ==
  { "Kernel-Power 41 detected", "BugCheck detected", "WHEA events", "disk error events",
    "display error events", "No clean shutdown event", "Diagnostics stopped before reboot",
    "Max temperature", "Max RAM", "Max CPU" }

\* _evidence: the names of the evidence lines of an incident.
evidence_of(summary, aggregates, inference, crash) ==
  LET If(condition, line) == IF condition THEN {line} ELSE {} IN
       If(crash.kernel_power_detected, "Kernel-Power 41 detected")
  \cup If(crash.bugcheck_detected, "BugCheck detected")
  \cup If(summary.whea_count > 0, "WHEA events")
  \cup If(summary.disk_error_count > 0, "disk error events")
  \cup If(summary.display_error_count > 0, "display error events")
  \cup If(~crash.clean_shutdown, "No clean shutdown event")
  \cup If(inference.gap # None, "Diagnostics stopped before reboot")
  \cup If(aggregates.max_temperature # None, "Max temperature")
  \cup If(aggregates.max_memory_percent # None, "Max RAM")
  \cup If(aggregates.max_cpu_percent # None, "Max CPU")
==============================================================================
