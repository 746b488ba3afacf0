------------------------- MODULE DiagnosisRules_proofs -------------------------
(***************************************************************************)
(* The diagnosis rules for every input: any finite sets of event rows, any *)
(* interval, threshold, readings and times of the last activity.           *)
(***************************************************************************)
EXTENDS DiagnosisRules, FiniteSetTheorems, SequenceTheorems, TLAPS

USE NoneAssumption, RulesAssumption, ResultsAssumption
-------------------------------------------------------------------------------
(* What summarize() counts.                                                *)

\* A category has a count, and it is positive if a row of the category is there.
LEMMA CountPositive ==
  ASSUME NEW events, IsFiniteSet(events), NEW cat
  PROVE  LET n == Cardinality({ev \in events : classify_event(ev) = cat}) IN
         n \in Nat /\ (n > 0 <=> \E ev \in events : classify_event(ev) = cat)
<1> DEFINE S == {ev \in events : classify_event(ev) = cat}
<1>1. IsFiniteSet(S)
  BY FS_Subset
<1>2. S = {} <=> ~\E ev \in events : classify_event(ev) = cat
  OBVIOUS
<1> HIDE DEF S
<1>3. Cardinality(S) \in Nat /\ (Cardinality(S) = 0 <=> S = {})
  BY <1>1, FS_CardinalityType, FS_EmptySet
<1> QED
  BY <1>2, <1>3 DEF S

LEMMA SummaryFacts ==
  ASSUME NEW events, IsFiniteSet(events)
  PROVE  LET s == summarize(events) IN
         /\ s.whea_count \in Nat /\ s.disk_error_count \in Nat /\ s.display_error_count \in Nat
         /\ s.whea_count > 0 <=> \E ev \in events : classify_event(ev) = "whea"
         /\ s.bugcheck_detected <=> \E ev \in events : classify_event(ev) = "bugcheck"
<1> DEFINE Of(cat) == Cardinality({ev \in events : classify_event(ev) = cat})
<1>1. /\ summarize(events).whea_count = Of("whea")
      /\ summarize(events).disk_error_count = Of("disk")
      /\ summarize(events).display_error_count = Of("display")
      /\ summarize(events).bugcheck_detected = (Of("bugcheck") > 0)
  BY DEF summarize
<1>2. \A cat : Of(cat) \in Nat /\ (Of(cat) > 0 <=> \E ev \in events : classify_event(ev) = cat)
  BY CountPositive
<1> HIDE DEF Of
<1> QED
  BY <1>1, <1>2

LEMMA InputFacts ==
  ASSUME NEW in \in Inputs
  PROVE  /\ IsFiniteSet(in.transition) /\ IsFiniteSet(in.incident)
         /\ in.last \in Int \cup {None}
BY FS_Subset DEF Inputs
-------------------------------------------------------------------------------
(* What the termination is inferred from.                                  *)

LEMMA GapFacts ==
  ASSUME NEW last \in Int \cup {None}
  PROVE  /\ HangGap(last, Reboot) \in Nat \cup {None}
         /\ HangGap(last, Reboot) = None <=> last = None
BY DEF HangGap

LEMMA InferenceFacts ==
  ASSUME NEW in \in Inputs
  PROVE  LET crash == Crash(in)
             inference == Inferred(in)
         IN /\ inference.mode \in Modes /\ inference.confidence \in Confidences
            /\ inference.gap \in Nat \cup {None}
            /\ inference.mode \in {"hard_hang", "power_loss"} => ~crash.bugcheck_detected
            /\ warranted(crash) /\ ~crash.bugcheck_detected
                 => inference.mode \in {"hard_hang", "power_loss"}
<1>1. PICK gap \in Nat \cup {None} : gap = HangGap(in.last, Reboot)
  BY InputFacts, GapFacts
<1>2. gap_verdict(gap, Interval).mode \in {"hard_hang", "power_loss"}
      /\ gap_verdict(gap, Interval).confidence \in Confidences
  BY DEF gap_verdict, Confidences
<1>3. Crash(in).unexpected_shutdown => ~Crash(in).clean_shutdown
  BY DEF Crash, detect_crash
<1> QED
  BY <1>1, <1>2, <1>3 DEF Inferred, infer_termination, warranted, Modes, Confidences
-------------------------------------------------------------------------------
(* What is in the list of findings.                                        *)

Has(s, f) == \E i \in DOMAIN s : s[i] = f

LEMMA HasConcat ==
  ASSUME NEW S, NEW s \in Seq(S), NEW t \in Seq(S)
  PROVE  /\ s \o t \in Seq(S)
         /\ \A f : Has(s \o t, f) <=> Has(s, f) \/ Has(t, f)
<1> DEFINE m == Len(s)
           n == Len(t)
<1>1. /\ s \o t \in Seq(S) /\ m \in Nat /\ n \in Nat
      /\ DOMAIN s = 1..m /\ DOMAIN t = 1..n /\ DOMAIN (s \o t) = 1..(m + n)
      /\ \A i \in 1..(m + n) : (s \o t)[i] = IF i <= m THEN s[i] ELSE t[i - m]
  BY ConcatProperties, LenProperties
<1> HIDE DEF m, n
<1>2. ASSUME NEW f, Has(s \o t, f) PROVE Has(s, f) \/ Has(t, f)
  <2>1. PICK i \in 1..(m + n) : (s \o t)[i] = f
    BY <1>1, <1>2 DEF Has
  <2>2. CASE i <= m
    BY <1>1, <2>1, <2>2 DEF Has
  <2>3. CASE ~(i <= m)
    <3>1. i - m \in 1..n /\ t[i - m] = f
      BY <1>1, <2>1, <2>3
    <3> QED
      BY <1>1, <3>1 DEF Has
  <2> QED
    BY <2>2, <2>3
<1>3. ASSUME NEW f, NEW i \in 1..m, s[i] = f PROVE Has(s \o t, f)
  <2>1. i \in 1..(m + n) /\ (s \o t)[i] = f
    BY <1>1, <1>3
  <2> QED
    BY <1>1, <2>1 DEF Has
<1>4. ASSUME NEW f, NEW i \in 1..n, t[i] = f PROVE Has(s \o t, f)
  <2>1. i + m \in 1..(m + n) /\ (s \o t)[i + m] = f
    BY <1>1, <1>4
  <2> QED
    BY <1>1, <2>1 DEF Has
<1>5. \A f : Has(s, f) \/ Has(t, f) => Has(s \o t, f)
  BY <1>1, <1>3, <1>4 DEF Has
<1> QED
  BY <1>1, <1>2, <1>5

Made(type, severity, confidence) ==
  [type |-> type, severity |-> severity, confidence |-> confidence]

\* Four sequences in a row.
LEMMA HasConcat4 ==
  ASSUME NEW S, NEW s \in Seq(S), NEW t \in Seq(S), NEW u \in Seq(S), NEW v \in Seq(S)
  PROVE  /\ s \o t \o u \o v \in Seq(S)
         /\ \A f : Has(s \o t \o u \o v, f) <=> Has(s, f) \/ Has(t, f) \/ Has(u, f) \/ Has(v, f)
<1> DEFINE st == s \o t
           stu == st \o u
<1>1. st \in Seq(S) /\ \A f : Has(st, f) <=> Has(s, f) \/ Has(t, f)
  BY HasConcat
<1> HIDE DEF st
<1>2. stu \in Seq(S) /\ \A f : Has(stu, f) <=> Has(st, f) \/ Has(u, f)
  BY <1>1, HasConcat
<1> HIDE DEF stu
<1>3. stu \o v \in Seq(S) /\ \A f : Has(stu \o v, f) <=> Has(stu, f) \/ Has(v, f)
  BY <1>2, HasConcat
<1> QED
  BY <1>1, <1>2, <1>3, Zenon DEF stu, st

LEMMA MadeType ==
  ASSUME NEW type \in FindingTypes, NEW severity \in Confidences, NEW confidence \in Confidences
  PROVE  Made(type, severity, confidence) \in Finding
BY DEF Made, Finding

\* A sequence of one element or none.
LEMMA HasAtMostOne ==
  ASSUME NEW x \in Finding
  PROVE  /\ <<x>> \in Seq(Finding) /\ <<>> \in Seq(Finding)
         /\ \A f : ~Has(<<>>, f)
         /\ \A f : Has(<<x>>, f) <=> f = x
BY DEF Has

\* The findings that the code appends, before they are sorted.
Candidate(summary, aggregates, inference, config, f) ==
  \/ summary.whea_count >= 3 /\ f = Made("POSSIBLE_HARDWARE_ERROR", "HIGH", "HIGH")
  \/ summary.whea_count \in 1..2 /\ f = Made("POSSIBLE_HARDWARE_ERROR", "MEDIUM", "MEDIUM")
  \/ summary.disk_error_count > 0 /\ f = Made("POSSIBLE_DISK_PROBLEM", "MEDIUM", "MEDIUM")
  \/ summary.display_error_count > 0 /\ f = Made("POSSIBLE_GPU_PROBLEM", "MEDIUM", "MEDIUM")
  \/ /\ reached(aggregates.max_temperature, config.temperature_critical_celsius)
     /\ f = Made("POSSIBLE_THERMAL_PROBLEM", "HIGH", "MEDIUM")
  \/ /\ reached(aggregates.max_memory_percent, config.memory_warning_percent)
     /\ f = Made("POSSIBLE_MEMORY_PRESSURE", "MEDIUM", "LOW")
  \/ /\ reached(aggregates.max_cpu_percent, config.cpu_warning_percent)
     /\ f = Made("POSSIBLE_CPU_PRESSURE", "LOW", "LOW")
  \/ inference.mode = "hard_hang" /\ f = Made("POSSIBLE_HARD_HANG", "HIGH", inference.confidence)
  \/ inference.mode = "power_loss" /\ f = Made("POSSIBLE_POWER_LOSS", "HIGH", inference.confidence)
  \/ inference.mode = "crash" /\ f = Made("POSSIBLE_CRASH", "HIGH", "HIGH")

\* The sorted list has every candidate and, if there is none, that it has none.
LEMMA FindingsFacts ==
  ASSUME NEW summary, NEW aggregates, NEW inference, NEW config,
         inference.confidence \in Confidences
  PROVE  LET list == build_findings(summary, aggregates, inference, config) IN
         /\ list \in Seq(Finding)
         /\ \A f : Candidate(summary, aggregates, inference, config, f) => Has(list, f)
         /\ \A f : Has(list, f) => \/ Candidate(summary, aggregates, inference, config, f)
                                   \/ f = Made("INSUFFICIENT_EVIDENCE", "LOW", "LOW")
<1> DEFINE a == IF summary.whea_count >= 3
                THEN <<Made("POSSIBLE_HARDWARE_ERROR", "HIGH", "HIGH")>> ELSE <<>>
           b == IF reached(aggregates.max_temperature, config.temperature_critical_celsius)
                THEN <<Made("POSSIBLE_THERMAL_PROBLEM", "HIGH", "MEDIUM")>> ELSE <<>>
           c == IF inference.mode = "hard_hang"
                THEN <<Made("POSSIBLE_HARD_HANG", "HIGH", inference.confidence)>> ELSE <<>>
           d == IF inference.mode = "power_loss"
                THEN <<Made("POSSIBLE_POWER_LOSS", "HIGH", inference.confidence)>> ELSE <<>>
           e == IF inference.mode = "crash"
                THEN <<Made("POSSIBLE_CRASH", "HIGH", "HIGH")>> ELSE <<>>
           g == IF summary.whea_count \in 1..2
                THEN <<Made("POSSIBLE_HARDWARE_ERROR", "MEDIUM", "MEDIUM")>> ELSE <<>>
           h == IF summary.disk_error_count > 0
                THEN <<Made("POSSIBLE_DISK_PROBLEM", "MEDIUM", "MEDIUM")>> ELSE <<>>
           k == IF summary.display_error_count > 0
                THEN <<Made("POSSIBLE_GPU_PROBLEM", "MEDIUM", "MEDIUM")>> ELSE <<>>
           m == IF reached(aggregates.max_memory_percent, config.memory_warning_percent)
                THEN <<Made("POSSIBLE_MEMORY_PRESSURE", "MEDIUM", "LOW")>> ELSE <<>>
           n == IF reached(aggregates.max_cpu_percent, config.cpu_warning_percent)
                THEN <<Made("POSSIBLE_CPU_PRESSURE", "LOW", "LOW")>> ELSE <<>>
           found == a \o b \o c \o d \o e \o g \o h \o k \o m \o n
           none == <<Made("INSUFFICIENT_EVIDENCE", "LOW", "LOW")>>
<1>0. /\ "LOW" \in Confidences /\ "MEDIUM" \in Confidences /\ "HIGH" \in Confidences
      /\ "POSSIBLE_HARDWARE_ERROR" \in FindingTypes /\ "POSSIBLE_DISK_PROBLEM" \in FindingTypes
      /\ "POSSIBLE_GPU_PROBLEM" \in FindingTypes /\ "POSSIBLE_THERMAL_PROBLEM" \in FindingTypes
      /\ "POSSIBLE_MEMORY_PRESSURE" \in FindingTypes /\ "POSSIBLE_CPU_PRESSURE" \in FindingTypes
      /\ "POSSIBLE_HARD_HANG" \in FindingTypes /\ "POSSIBLE_POWER_LOSS" \in FindingTypes
      /\ "POSSIBLE_CRASH" \in FindingTypes /\ "INSUFFICIENT_EVIDENCE" \in FindingTypes
  BY DEF Confidences, FindingTypes
<1>1. build_findings(summary, aggregates, inference, config)
        = IF found = <<>> THEN none ELSE found
  BY DEF build_findings, finding_if, Made
<1>2. none \in Seq(Finding) /\ \A f : Has(none, f) <=> f = Made("INSUFFICIENT_EVIDENCE", "LOW", "LOW")
  BY <1>0, MadeType, HasAtMostOne
<1>3. /\ a \in Seq(Finding)
      /\ \A f : Has(a, f) <=> summary.whea_count >= 3
                            /\ f = Made("POSSIBLE_HARDWARE_ERROR", "HIGH", "HIGH")
  BY <1>0, MadeType, HasAtMostOne
<1>4. /\ b \in Seq(Finding)
      /\ \A f : Has(b, f) <=> reached(aggregates.max_temperature, config.temperature_critical_celsius)
                            /\ f = Made("POSSIBLE_THERMAL_PROBLEM", "HIGH", "MEDIUM")
  BY <1>0, MadeType, HasAtMostOne
<1>5. /\ c \in Seq(Finding)
      /\ \A f : Has(c, f) <=> inference.mode = "hard_hang"
                            /\ f = Made("POSSIBLE_HARD_HANG", "HIGH", inference.confidence)
  BY <1>0, MadeType, HasAtMostOne
<1>6. /\ d \in Seq(Finding)
      /\ \A f : Has(d, f) <=> inference.mode = "power_loss"
                            /\ f = Made("POSSIBLE_POWER_LOSS", "HIGH", inference.confidence)
  BY <1>0, MadeType, HasAtMostOne
<1>7. /\ e \in Seq(Finding)
      /\ \A f : Has(e, f) <=> inference.mode = "crash"
                            /\ f = Made("POSSIBLE_CRASH", "HIGH", "HIGH")
  BY <1>0, MadeType, HasAtMostOne
<1>8. /\ g \in Seq(Finding)
      /\ \A f : Has(g, f) <=> summary.whea_count \in 1..2
                            /\ f = Made("POSSIBLE_HARDWARE_ERROR", "MEDIUM", "MEDIUM")
  BY <1>0, MadeType, HasAtMostOne
<1>9. /\ h \in Seq(Finding)
      /\ \A f : Has(h, f) <=> summary.disk_error_count > 0
                            /\ f = Made("POSSIBLE_DISK_PROBLEM", "MEDIUM", "MEDIUM")
  BY <1>0, MadeType, HasAtMostOne
<1>10. /\ k \in Seq(Finding)
      /\ \A f : Has(k, f) <=> summary.display_error_count > 0
                            /\ f = Made("POSSIBLE_GPU_PROBLEM", "MEDIUM", "MEDIUM")
  BY <1>0, MadeType, HasAtMostOne
<1>11. /\ m \in Seq(Finding)
      /\ \A f : Has(m, f) <=> reached(aggregates.max_memory_percent, config.memory_warning_percent)
                            /\ f = Made("POSSIBLE_MEMORY_PRESSURE", "MEDIUM", "LOW")
  BY <1>0, MadeType, HasAtMostOne
<1>12. /\ n \in Seq(Finding)
      /\ \A f : Has(n, f) <=> reached(aggregates.max_cpu_percent, config.cpu_warning_percent)
                            /\ f = Made("POSSIBLE_CPU_PRESSURE", "LOW", "LOW")
  BY <1>0, MadeType, HasAtMostOne
<1> HIDE DEF a, b, c, d, e, g, h, k, m, n, none
<1>13. /\ found \in Seq(Finding)
       /\ \A f : Has(found, f) <=> Candidate(summary, aggregates, inference, config, f)
  <2> DEFINE s == a \o b \o c \o d
             t == s \o e \o g \o h
  <2>1. s \in Seq(Finding) /\ \A f : Has(s, f) <=> Has(a, f) \/ Has(b, f) \/ Has(c, f) \/ Has(d, f)
    BY <1>3, <1>4, <1>5, <1>6, HasConcat4
  <2> HIDE DEF s
  <2>2. t \in Seq(Finding) /\ \A f : Has(t, f) <=> Has(s, f) \/ Has(e, f) \/ Has(g, f) \/ Has(h, f)
    BY <2>1, <1>7, <1>8, <1>9, HasConcat4
  <2> HIDE DEF t
  <2>3. /\ t \o k \o m \o n \in Seq(Finding)
        /\ \A f : Has(t \o k \o m \o n, f) <=> Has(t, f) \/ Has(k, f) \/ Has(m, f) \/ Has(n, f)
    BY <2>2, <1>10, <1>11, <1>12, HasConcat4
  <2>4. found = t \o k \o m \o n
    BY DEF s, t
  <2> HIDE DEF found
  <2>5. ASSUME NEW f PROVE Has(found, f) <=> Candidate(summary, aggregates, inference, config, f)
    BY <2>1, <2>2, <2>3, <2>4, <1>3, <1>4, <1>5, <1>6, <1>7, <1>8, <1>9, <1>10, <1>11, <1>12
    DEF Candidate
  <2> QED
    BY <2>3, <2>4, <2>5
<1> HIDE DEF found
<1>14. \A f : Has(found, f) => found # <<>>
  BY DEF Has
<1> QED
  BY <1>1, <1>2, <1>13, <1>14
-------------------------------------------------------------------------------
(* What the rules return for an input.                                     *)

LEMMA HighestConfidence ==
  ASSUME NEW S, S \subseteq Confidences, "LOW" \in S
  PROVE  (CHOOSE c \in S : \A d \in S : rank(d) <= rank(c)) \in Confidences
<1>1. rank("LOW") = 1 /\ rank("MEDIUM") = 2 /\ rank("HIGH") = 3
  BY DEF rank
<1>2. \E c \in S : \A d \in S : rank(d) <= rank(c)
  BY <1>1 DEF Confidences
<1> QED
  BY <1>2

\* The findings of an input: a list of findings, each from a candidate.
Found(in, f) ==
  Candidate(summarize(in.incident), in.aggregates, Inferred(in), Config, f)

LEMMA ListFacts ==
  ASSUME NEW in \in Inputs
  PROVE  /\ Findings(in) \in Seq(Finding)
         /\ \A f : Found(in, f) => Has(Findings(in), f)
         /\ \A f : Has(Findings(in), f)
                     => Found(in, f) \/ f = Made("INSUFFICIENT_EVIDENCE", "LOW", "LOW")
BY InferenceFacts, FindingsFacts DEF Found, Findings

LEMMA ConfidenceType ==
  ASSUME NEW in \in Inputs
  PROVE  incident_confidence(Inferred(in), Crash(in), Findings(in)) \in Confidences
<1> DEFINE list == Findings(in)
           all == {"LOW"} \cup {list[i].confidence : i \in DOMAIN list}
<1>1. all \subseteq Confidences /\ "LOW" \in all
  <2>1. \A i \in DOMAIN list : list[i] \in Finding
    BY ListFacts, ElementOfSeq, LenProperties
  <2> QED
    BY <2>1 DEF Finding, Confidences
<1>2. incident_confidence(Inferred(in), Crash(in), list)
        = IF Crash(in).bugcheck_detected THEN "HIGH"
          ELSE IF Inferred(in).mode \in {"hard_hang", "power_loss"} THEN Inferred(in).confidence
          ELSE CHOOSE c \in all : \A d \in all : rank(d) <= rank(c)
  BY DEF incident_confidence
<1> HIDE DEF all, list
<1>3. (CHOOSE c \in all : \A d \in all : rank(d) <= rank(c)) \in Confidences
  BY <1>1, HighestConfidence
<1>4. "HIGH" \in Confidences
  BY DEF Confidences
<1> QED
  BY <1>2, <1>3, <1>4, InferenceFacts DEF list

LEMMA EvidenceType ==
  ASSUME NEW summary, NEW aggregates, NEW inference, NEW crash
  PROVE  evidence_of(summary, aggregates, inference, crash) \subseteq EvidenceLines
<1> SUFFICES ASSUME NEW line \in evidence_of(summary, aggregates, inference, crash)
    PROVE  line \in EvidenceLines
  OBVIOUS
<1> QED
  BY DEF evidence_of, EvidenceLines

\* The result is never None, and reports an incident if and only if one is warranted.
LEMMA DiagnosisFacts ==
  ASSUME NEW in \in Inputs
  PROVE  LET d == diagnosis(in)
             crash == Crash(in)
             inference == Inferred(in)
         IN /\ d \in Results /\ d # None
            /\ d.incident # None <=> warranted(crash)
            /\ warranted(crash) =>
                 /\ d.incident.type = incident_type(inference, crash)
                 /\ d.incident.confidence = incident_confidence(inference, crash, Findings(in))
                 /\ d.findings = Findings(in)
<1> DEFINE crash == Crash(in)
           inference == Inferred(in)
           incident ==
             [ type |-> incident_type(inference, crash),
               confidence |-> incident_confidence(inference, crash, Findings(in)),
               duration_estimate |-> inference.gap,
               evidence |-> evidence_of(summarize(in.incident), in.aggregates, inference, crash) ]
<1>1. incident \in Incident
  <2>1. incident_type(inference, crash) \in IncidentTypes
    BY DEF incident_type, IncidentTypes
  <2> QED
    BY <2>1, ConfidenceType, InferenceFacts, EvidenceType DEF Incident
<1>2. diagnosis(in) = [ incident |-> IF warranted(crash) THEN incident ELSE None,
                        findings |-> IF warranted(crash) THEN Findings(in) ELSE <<>> ]
  BY DEF diagnosis
<1>3. /\ incident.type = incident_type(inference, crash)
      /\ incident.confidence = incident_confidence(inference, crash, Findings(in))
  OBVIOUS
<1> HIDE DEF incident, crash, inference
<1>4. diagnosis(in) \in Results
  BY <1>1, <1>2, ListFacts DEF Results
<1> QED
  BY <1>1, <1>2, <1>3, <1>4 DEF crash, inference
-------------------------------------------------------------------------------
(* The theorems.                                                           *)

\* The result, once there is one, is the diagnosis of the input.
Ran == input \in Inputs /\ result \in {None, diagnosis(input)}

THEOREM Inductive == Spec => []Ran
<1>1. Init => Ran
  BY DEF Init, Ran
<1>2. Ran /\ [Next]_vars => Ran'
  BY DEF Ran, Next, run_diagnosis, vars
<1> QED
  BY <1>1, <1>2, PTL DEF Spec

\* The results are records of the expected shape, for every input.
THEOREM TypeCorrect == Spec => []TypeOK
<1>1. Ran => TypeOK
  BY DiagnosisFacts DEF Ran, TypeOK
<1> QED
  BY <1>1, Inductive, PTL

\* A hang and a power loss are explained by their own finding at the incident's
\* confidence, and a blue screen by neither.
THEOREM OneStory == Spec => []TypeMatchesFindings
<1>1. ASSUME Ran PROVE TypeMatchesFindings
  <2> DEFINE crash == Crash(input)
             inference == Inferred(input)
             hang == Made("POSSIBLE_HARD_HANG", "HIGH", result.incident.confidence)
             power == Made("POSSIBLE_POWER_LOSS", "HIGH", result.incident.confidence)
  <2> SUFFICES ASSUME Reported
      PROVE  /\ result.incident.type = "HARD_HANG" <=> Has(result.findings, hang)
             /\ result.incident.type = "POWER_LOSS" <=> Has(result.findings, power)
             /\ result.incident.type = "BSOD" => ~Explains("POSSIBLE_HARD_HANG")
    <3>1. [Made("POSSIBLE_HARD_HANG", "HIGH", result.incident.confidence)
             EXCEPT !.type = "POSSIBLE_POWER_LOSS"] = power
      BY DEF Made
    <3> QED
      BY <3>1 DEF TypeMatchesFindings, Has, Made
  <2>1. /\ warranted(crash) /\ result.findings = Findings(input)
        /\ result.incident.type = incident_type(inference, crash)
        /\ result.incident.confidence
             = incident_confidence(inference, crash, Findings(input))
    BY <1>1, DiagnosisFacts DEF Ran, Reported
  <2>2. /\ inference.mode \in Modes
        /\ inference.mode \in {"hard_hang", "power_loss"} => ~crash.bugcheck_detected
        /\ ~crash.bugcheck_detected => inference.mode \in {"hard_hang", "power_loss"}
    BY <1>1, <2>1, InferenceFacts DEF Ran
  <2> HIDE DEF crash, inference
  <2>3. /\ result.incident.type = "HARD_HANG" <=> inference.mode = "hard_hang"
        /\ result.incident.type = "POWER_LOSS" <=> inference.mode = "power_loss"
        /\ result.incident.type = "BSOD" <=> crash.bugcheck_detected
    BY <2>1, <2>2 DEF incident_type
  <2>4. inference.mode \in {"hard_hang", "power_loss"}
          => result.incident.confidence = inference.confidence
    BY <2>1, <2>2 DEF incident_confidence
  <2>5. \A f : Found(input, f) =>
          /\ f.type = "POSSIBLE_HARD_HANG" => inference.mode = "hard_hang"
          /\ f.type = "POSSIBLE_POWER_LOSS" => inference.mode = "power_loss"
    BY DEF Found, Candidate, Made, inference
  <2>6. \A f : Has(result.findings, f) =>
          /\ f.type = "POSSIBLE_HARD_HANG" => inference.mode = "hard_hang"
          /\ f.type = "POSSIBLE_POWER_LOSS" => inference.mode = "power_loss"
    BY <1>1, <2>1, <2>5, ListFacts DEF Made, Ran
  <2>7. ASSUME inference.mode = "hard_hang" PROVE Has(result.findings, hang)
    <3>1. Found(input, hang)
      BY <2>4, <2>7 DEF Found, Candidate, inference
    <3> QED
      BY <1>1, <2>1, <3>1, ListFacts DEF Ran
  <2>8. ASSUME inference.mode = "power_loss" PROVE Has(result.findings, power)
    <3>1. Found(input, power)
      BY <2>4, <2>8 DEF Found, Candidate, inference
    <3> QED
      BY <1>1, <2>1, <3>1, ListFacts DEF Ran
  <2>9. hang.type = "POSSIBLE_HARD_HANG" /\ power.type = "POSSIBLE_POWER_LOSS"
    BY DEF Made
  <2>10. Explains("POSSIBLE_HARD_HANG") => inference.mode = "hard_hang"
    BY <2>6 DEF Explains, Has
  <2> QED
    BY <2>2, <2>3, <2>6, <2>7, <2>8, <2>9, <2>10
<1> QED
  BY <1>1, Inductive, PTL

\* Inputs that differ only in the last activity have the same crash result.
LEMMA EarlierActivity ==
  ASSUME NEW in \in Inputs, NEW earlier \in LastActivity
  PROVE  LET then == [in EXCEPT !.last = earlier] IN
         /\ then \in Inputs /\ then.last = earlier
         /\ Crash(then) = Crash(in)
BY DEF Inputs, Crash

\* A longer gap has no weaker verdict.
LEMMA VerdictGrows ==
  ASSUME NEW short \in Nat, NEW long \in Nat, short <= long
  PROVE  /\ rank(gap_verdict(short, Interval).confidence)
               <= rank(gap_verdict(long, Interval).confidence)
         /\ gap_verdict(short, Interval).mode = "hard_hang"
              => gap_verdict(long, Interval).mode = "hard_hang"
<1>1. rank("LOW") = 1 /\ rank("MEDIUM") = 2 /\ rank("HIGH") = 3
  BY DEF rank
<1> QED
  BY <1>1 DEF gap_verdict

\* A longer silence before the reboot never weakens the verdict.
THEOREM SilenceStrengthens == Spec => []LongerSilenceIsStronger
<1>1. ASSUME Ran PROVE LongerSilenceIsStronger
  <2> SUFFICES ASSUME input.last # None, NEW earlier \in LastActivity \ {None},
                      earlier <= input.last
      PROVE  LET then == Inferred([input EXCEPT !.last = earlier])
                 now == Inferred(input)
             IN /\ rank(now.confidence) <= rank(then.confidence)
                /\ now.mode = "hard_hang" => then.mode = "hard_hang"
    BY DEF LongerSilenceIsStronger
  <2> DEFINE in == [input EXCEPT !.last = earlier]
  <2>1. in \in Inputs /\ in.last = earlier /\ Crash(in) = Crash(input)
    BY <1>1, EarlierActivity DEF Ran
  <2>2. earlier \in Int /\ input.last \in Int
    BY <1>1, InputFacts DEF Ran
  <2>3. PICK short \in Nat : short = HangGap(input.last, Reboot)
    BY <2>2 DEF HangGap
  <2>4. PICK long \in Nat : long = HangGap(earlier, Reboot)
    BY <2>2 DEF HangGap
  <2>5. short <= long
    BY <2>2, <2>3, <2>4 DEF HangGap
  <2>6. rank("LOW") = 1 /\ rank("HIGH") = 3
    BY DEF rank
  <2> HIDE DEF in
  <2>7. short # None /\ long # None
    OBVIOUS
  <2>8. /\ rank(Inferred(input).confidence) <= rank(Inferred(in).confidence)
        /\ Inferred(input).mode = "hard_hang" => Inferred(in).mode = "hard_hang"
    BY <2>1, <2>3, <2>4, <2>5, <2>6, <2>7, VerdictGrows DEF Inferred, infer_termination
  <2> QED
    BY <2>8 DEF in
<1> QED
  BY <1>1, Inductive, PTL

\* Findings about hardware, disk and GPU, at their severities, come from rows of the
\* configured window, however many rows of the boot transition there are.
THEOREM WindowOnly == Spec => []FindingsScopedToWindow
<1>1. ASSUME Ran PROVE FindingsScopedToWindow
  <2> DEFINE rows(category) == Cardinality({ev \in input.incident : classify_event(ev) = category})
             s == summarize(input.incident)
             Scoped(f) ==
               /\ f.type = "POSSIBLE_HARDWARE_ERROR" =>
                    IF f.severity = "HIGH" THEN rows("whea") >= 3 ELSE rows("whea") \in 1..2
               /\ f.type = "POSSIBLE_DISK_PROBLEM" => rows("disk") > 0
               /\ f.type = "POSSIBLE_GPU_PROBLEM" => rows("display") > 0
  <2> SUFFICES ASSUME Reported, NEW i \in DOMAIN result.findings
               PROVE  Scoped(result.findings[i])
    BY DEF FindingsScopedToWindow
  <2>1. result.findings = Findings(input) /\ input \in Inputs
    BY <1>1, DiagnosisFacts DEF Ran, Reported
  <2>2. /\ s.whea_count = rows("whea") /\ s.disk_error_count = rows("disk")
        /\ s.display_error_count = rows("display")
    BY DEF summarize
  <2> HIDE DEF s, rows
  <2>3. ASSUME NEW f, Found(input, f) PROVE Scoped(f)
    BY <2>2, <2>3 DEF Found, Candidate, Made, s
  <2>4. Scoped(Made("INSUFFICIENT_EVIDENCE", "LOW", "LOW"))
    BY DEF Made
  <2>5. Has(result.findings, result.findings[i])
    BY DEF Has
  <2> HIDE DEF Scoped
  <2> QED
    BY <2>1, <2>3, <2>4, <2>5, ListFacts
<1> QED
  BY <1>1, Inductive, PTL

\* A clean verdict is overruled by a BugCheck only, and a BugCheck is a blue screen.
THEOREM BugcheckOnly == Spec => []OnlyBugcheckOverrulesClean
<1>1. ASSUME Ran PROVE OnlyBugcheckOverrulesClean
  <2> DEFINE bugcheck == \E ev \in input.transition : classify_event(ev) = "bugcheck"
             crash == Crash(input)
  <2> SUFFICES ASSUME result # None
      PROVE  /\ Reported /\ input.clean = 1 => bugcheck
             /\ bugcheck => /\ Reported
                            /\ result.incident.type = "BSOD"
                            /\ result.incident.confidence = "HIGH"
    BY DEF OnlyBugcheckOverrulesClean
  <2>1. summarize(input.transition).bugcheck_detected <=> bugcheck
    BY <1>1, InputFacts, SummaryFacts DEF Ran
  <2> HIDE DEF bugcheck
  <2>2. /\ crash.bugcheck_detected <=> bugcheck
        /\ input.clean = 1 => ~crash.unexpected_shutdown
    BY <2>1 DEF Crash, detect_crash
  <2>3. /\ Reported <=> warranted(crash)
        /\ Reported => /\ result.incident.type = incident_type(Inferred(input), crash)
                       /\ result.incident.confidence
                            = incident_confidence(Inferred(input), crash, Findings(input))
    BY <1>1, DiagnosisFacts DEF Ran, Reported
  <2> HIDE DEF crash
  <2> QED
    BY <2>2, <2>3 DEF warranted, incident_type, incident_confidence
<1> QED
  BY <1>1, Inductive, PTL
===============================================================================
