----------------------------- MODULE Service_proofs -----------------------------
(***************************************************************************)
(* The evidence of a crash survives: what a session leaves behind until    *)
(* the next boot is analysed, and the window of a listed incident for      *)
(* good, for any files, margins, retention, boots and starts.              *)
(*                                                                         *)
(* EvidenceKept is not inductive.  That a pass spares the evidence takes   *)
(* three facts from before it: the incidents do not change while it runs   *)
(* (PassInv), the evidence lies in the window it protects, because the     *)
(* last activity is before the boot (Covered), and the worker starts only  *)
(* when the analysis has given up what the last session left (MachineInv). *)
(***************************************************************************)
EXTENDS Service, Migrations_proofs, Extremes

\* What a start may rely on, whatever config.yaml holds.
Usable(c) ==
  /\ DOMAIN c = Keys
  /\ c.retention_hours.n \in (Nat \ {0}) \cup {NaN}
  /\ c.incident_window_before_minutes.n \in Nat \cup {NaN}
  /\ c.incident_window_after_minutes.n \in Nat \cup {NaN}

LEMMA NaNIsNoNumber == NaN \notin Int
BY NumbersAssumption DEF UsualNumbers

\* One value that validated() lets pass, or its default.
LEMMA ValueUsable ==
  ASSUME NEW file \in Files, NEW key \in TopLevel,
         NEW x, x = from_dict(data_of(file))[key], acceptable(key, x)
  PROVE  x.n \in Nat \cup {NaN} /\ (key = "retention_hours" => x.n # 0)
<1>1. Number(x) /\ ~Below(x.n, 0) /\ (key = "retention_hours" => ~AtMost(x.n, 0))
  BY DEF acceptable
<1>2. key \in Keys
  BY DEF Keys
<1>3. x = Default[key] \/ x = data_of(file)[key]
  BY <1>2 DEF from_dict
<1>4. Default[key].n \in Nat
  BY DEF Default, TopLevel, Value
<1>5. Number(data_of(file)[key]) => data_of(file)[key].n \in Int \cup {NaN}
  BY <1>2, ServiceAssumption DEF data_of, Number, Value, Spelled
<1>6. x.n \in Int \cup {NaN}
  BY <1>1, <1>3, <1>4, <1>5
<1>7. QED
  BY <1>1, <1>6, NaNIsNoNumber DEF Below, AtMost

LEMMA LoadedUsable ==
  ASSUME NEW file \in Files
  PROVE  Usable(load_config(file))
<1> DEFINE loaded == from_dict(data_of(file))
<1> DEFINE checked == [key \in Keys |-> IF acceptable(key, loaded[key]) THEN loaded[key]
                                                                         ELSE Default[key]]
<1> DEFINE c == load_config(file)
<1>1. DOMAIN c = Keys /\ \A key \in Keys \ Temperatures : c[key] = checked[key]
  BY DEF load_config, validated, Temperatures
<1>2. ASSUME NEW key \in {"retention_hours", "incident_window_before_minutes",
                          "incident_window_after_minutes"}
      PROVE  c[key].n \in Nat \cup {NaN} /\ (key = "retention_hours" => c[key].n # 0)
  <2>1. key \in TopLevel /\ key \in Keys \ Temperatures
    BY DEF TopLevel, Keys, Temperatures
  <2>2. c[key] = (IF acceptable(key, loaded[key]) THEN loaded[key] ELSE Default[key])
    BY <1>1, <2>1
  <2>3. Default[key].n \in Nat \ {0}
    BY DEF Default, Value
  <2> HIDE DEF c
  <2>4. CASE acceptable(key, loaded[key])
    BY <2>1, <2>2, <2>4, ValueUsable
  <2>5. CASE ~acceptable(key, loaded[key])
    BY <2>2, <2>3, <2>5
  <2>6. QED
    BY <2>4, <2>5
<1> HIDE DEF c
<1>3. QED
  BY <1>1, <1>2 DEF Usable, c
-------------------------------------------------------------------------------
(* The invariant.                                                          *)

Metrics(now) == [table: {Tables[k] : k \in 1..Len(Tables)}, timestamp: 0..now]

\* Nothing lies ahead of the clock, and what a session leaves behind is only
\* given up by the analysis, which the worker comes after.
MachineInv ==
  /\ clock \in Nat /\ boot \in 0..clock
  /\ rows \subseteq Metrics(clock)
  /\ heartbeat \in 0..clock \cup {NoValue}
  /\ left \subseteq rows
  /\ agent \in {"off", "failed", "connect", "analyse", "running"}
  /\ ~Down => on
  /\ agent = "running" => left = {}

ConfigInv == ~Down => Usable(cfg)

\* An incident's evidence lies in the window that a pass protects.
Covered(i) ==
  /\ i.last_metric_timestamp \in Nat \cup {NoValue} /\ i.reboot_timestamp \in Nat
  /\ i.last_metric_timestamp # NoValue =>
       /\ i.last_metric_timestamp <= i.reboot_timestamp
       /\ \A r \in i.evidence : r.timestamp \in window(i)

IncidentInv ==
  /\ Len(incidents) \in Nat /\ DOMAIN incidents = 1..Len(incidents)
  /\ \A k \in DOMAIN incidents : Covered(incidents[k])

\* A pass knows the windows of the listed incidents, which do not change under it,
\* and its cutoff is one of the past.
PassInv ==
  pass # NoValue =>
    /\ agent = "running"
    /\ pass.table \in 1..Len(Tables)
    /\ pass.cutoff # NoValue =>
         /\ pass.cutoff \in Int /\ cfg.retention_hours.n # NaN
         /\ pass.cutoff <= clock - cfg.retention_hours.n
    /\ ~blind => pass.protected = protected(Listed)

ServiceInv == MachineInv /\ ConfigInv /\ IncidentInv /\ PassInv /\ EvidenceKept

LEMMA ListedIsListed ==
  ASSUME IncidentInv
  PROVE  list_incidents(Limit) = Listed /\ \A i \in Listed : Covered(i)
<1>1. \A j \in DOMAIN incidents : j > Len(incidents) - Limit <=> j + Limit > Len(incidents)
  BY RetentionAssumption DEF IncidentInv
<1>2. QED
  BY <1>1 DEF list_incidents, Listed, IncidentInv

\* The last activity lies before the boot.
LEMMA LastActivity ==
  ASSUME MachineInv
  PROVE  /\ last_metric_timestamp \in Nat \cup {NoValue}
         /\ last_metric_timestamp # NoValue => last_metric_timestamp < boot
<1> DEFINE seen == {t \in {r.timestamp : r \in {q \in rows : q.table = "metrics_cpu"}}
                           \cup ({heartbeat} \ {NoValue}) : t < boot}
<1>1. seen \subseteq 0..clock /\ clock \in Nat
  BY DEF MachineInv, Metrics
<1>2. \A t \in seen : t < boot
  OBVIOUS
<1>3. last_metric_timestamp = IF seen = {} THEN NoValue
                              ELSE CHOOSE t \in seen : \A u \in seen : u <= t
  BY DEF last_metric_timestamp
<1> HIDE DEF seen
<1>4. CASE seen = {}
  BY <1>3, <1>4
<1>5. CASE seen # {}
  <2>1. \E t \in seen : \A u \in seen : u <= t
    BY <1>1, <1>5, BoundedLargest
  <2>2. last_metric_timestamp \in seen
    BY <1>3, <1>5, <2>1
  <2>3. QED
    BY <1>1, <1>2, <2>2
<1>6. QED
  BY <1>4, <1>5

LEMMA ServiceInitially == Init => ServiceInv
<1> SUFFICES ASSUME Init PROVE ServiceInv
  OBVIOUS
<1>1. MachineInv
  BY DEF Init, MachineInv, Down
<1>2. ConfigInv
  BY DEF Init, ConfigInv, Down
<1>3. IncidentInv
  BY DEF Init, IncidentInv
<1>4. PassInv
  BY DEF Init, PassInv
<1>5. EvidenceKept
  BY DEF Init, EvidenceKept, Listed
<1>6. QED
  BY <1>1, <1>2, <1>3, <1>4, <1>5 DEF ServiceInv
-------------------------------------------------------------------------------
(* Steps.                                                                  *)

LEMMA MachineStep == ServiceInv /\ [Next]_vars => MachineInv'
<1> SUFFICES ASSUME ServiceInv, [Next]_vars PROVE MachineInv'
  OBVIOUS
<1>0. MachineInv
  BY DEF ServiceInv
<1> USE <1>0 DEF MachineInv, Down, machine, retention
<1>1. CASE Start
  BY <1>1 DEF Start
<1>2. CASE Initialize
  BY <1>2 DEF Initialize, first_step
<1>3. CASE AnalysisRaises
  BY <1>3 DEF AnalysisRaises
<1>4. CASE StartupAnalysis
  BY <1>4 DEF StartupAnalysis
<1>5. CASE CollectHigh
  <2>1. Row("metrics_cpu") \in Metrics(clock)
    BY ServiceAssumption DEF Row, Metrics
  <2>2. QED
    BY <1>5, <2>1 DEF CollectHigh, Insert, Working
<1>6. CASE CollectLow
  <2>1. Row("metrics_gpu") \in Metrics(clock)
    BY ServiceAssumption DEF Row, Metrics
  <2>2. QED
    BY <1>6, <2>1 DEF CollectLow, Insert, Working
<1>7. CASE CollectLowPrunes
  BY <1>7 DEF CollectLowPrunes
<1>8. CASE Prunes
  BY <1>8 DEF Prunes, PruneTable
<1>9. CASE Stop
  BY <1>9 DEF Stop
<1>10. CASE OpenDb
  BY <1>10 DEF OpenDb
<1>11. CASE Tick
  <2>1. clock' = clock + 1 /\ clock' \in Nat
    BY <1>11 DEF Tick
  <2>2. Metrics(clock) \subseteq Metrics(clock')
    BY <2>1 DEF Metrics
  <2>3. QED
    BY <1>11, <2>1, <2>2 DEF Tick
<1>12. CASE PowerOff
  BY <1>12 DEF PowerOff
<1>13. CASE PowerOn
  BY <1>13 DEF PowerOn
<1>14. CASE UNCHANGED vars
  BY <1>14 DEF vars
<1>15. QED
  BY <1>1, <1>2, <1>3, <1>4, <1>5, <1>6, <1>7, <1>8, <1>9, <1>10, <1>11, <1>12, <1>13, <1>14
     DEF Next

\* A configuration is only replaced by one that was loaded.
LEMMA ConfigStep == ServiceInv /\ [Next]_vars => ConfigInv'
<1> SUFFICES ASSUME ServiceInv, [Next]_vars PROVE ConfigInv'
  OBVIOUS
<1>0. ConfigInv
  BY DEF ServiceInv
<1>1. CASE Start
  BY <1>1, LoadedUsable DEF Start, ConfigInv, Down
<1>2. CASE Initialize \/ StartupAnalysis
  BY <1>0, <1>2 DEF Initialize, StartupAnalysis, ConfigInv, Down
<1>3. CASE AnalysisRaises \/ Stop \/ PowerOff
  BY <1>3 DEF AnalysisRaises, Stop, PowerOff, ConfigInv, Down
<1>4. CASE UNCHANGED <<agent, cfg>>
  BY <1>0, <1>4 DEF ConfigInv, Down
<1>5. QED
  BY <1>1, <1>2, <1>3, <1>4
     DEF Next, vars, CollectHigh, CollectLow, CollectLowPrunes, Prunes, OpenDb, Tick, PowerOn

\* The window that the analysis looks at is within the one that a pass protects,
\* because the last activity is before the boot.
LEMMA IncidentStep == ServiceInv /\ [Next]_vars => IncidentInv'
<1> SUFFICES ASSUME ServiceInv, [Next]_vars PROVE IncidentInv'
  OBVIOUS
<1>0. MachineInv /\ ConfigInv /\ IncidentInv
  BY DEF ServiceInv
<1>1. CASE UNCHANGED incidents
  BY <1>0, <1>1 DEF IncidentInv
<1>2. CASE StartupAnalysis /\ ~UNCHANGED incidents
  <2> DEFINE i == [ last_metric_timestamp |-> last_metric_timestamp, reboot_timestamp |-> boot,
                    evidence |-> Evidence ]
  <2>1. incidents' = Append(incidents, i) /\ Usable(cfg)
    BY <1>0, <1>2 DEF StartupAnalysis, ConfigInv, Down
  <2>2. ASSUME last_metric_timestamp # NoValue, NEW r \in Evidence
        PROVE  r.timestamp \in window(i)
    <3>1. r.timestamp \in Nat /\ boot \in Nat /\ last_metric_timestamp \in Nat
      BY <1>0, <2>2, LastActivity DEF Evidence, MachineInv, Metrics
    <3>2. last_metric_timestamp < boot
      BY <1>0, <2>2, LastActivity
    <3>3. boot - BeforeMargin <= r.timestamp /\ r.timestamp <= boot + AfterMargin
      BY <2>2 DEF Evidence
    <3>4. r.timestamp \in (last_metric_timestamp - BeforeMargin)..(boot + AfterMargin)
      BY <3>1, <3>2, <3>3, RetentionAssumption
    <3>5. QED
      BY <3>4 DEF window
  <2>3. Covered(i)
    <3>1. boot \in Nat
      BY <1>0 DEF MachineInv
    <3>2. QED
      BY <1>0, <2>2, <3>1, LastActivity DEF Covered
  <2> HIDE DEF i
  <2>4. /\ Len(incidents') = Len(incidents) + 1 /\ DOMAIN incidents' = 1..Len(incidents')
        /\ \A k \in DOMAIN incidents : incidents'[k] = incidents[k]
        /\ incidents'[Len(incidents')] = i
    BY <1>0, <2>1 DEF IncidentInv
  <2>5. \A k \in DOMAIN incidents' : k \in DOMAIN incidents \/ k = Len(incidents')
    BY <1>0, <2>4 DEF IncidentInv
  <2>6. \A k \in DOMAIN incidents' : Covered(incidents'[k])
    BY <1>0, <2>3, <2>4, <2>5 DEF IncidentInv
  <2>7. QED
    BY <1>0, <2>4, <2>6 DEF IncidentInv, Covered, window
<1>3. QED
  BY <1>1, <1>2
     DEF Next, vars, retention, Start, Initialize, AnalysisRaises, CollectHigh, CollectLow,
         CollectLowPrunes, BeginPrune, Prunes, PruneTable, Stop, OpenDb, Tick, PowerOff, PowerOn

\* During a pass the service runs: neither its configuration nor the incidents
\* change, and the clock only goes on.
LEMMA PassStep == ServiceInv /\ [Next]_vars => PassInv'
<1> SUFFICES ASSUME ServiceInv, [Next]_vars, pass' # NoValue PROVE PassInv'
  BY DEF PassInv
<1>0. MachineInv /\ ConfigInv /\ IncidentInv /\ PassInv
  BY DEF ServiceInv
<1>1. CASE CollectLowPrunes
  <2>1. /\ agent = "running" /\ Usable(cfg) /\ clock \in Nat
        /\ UNCHANGED <<agent, cfg, clock, incidents>>
    BY <1>0, <1>1 DEF CollectLowPrunes, Working, machine, ConfigInv, MachineInv, Down
  <2> DEFINE cutoff == cutoff_of(clock, cfg.retention_hours.n)
  <2>2. cutoff # NoValue => /\ cfg.retention_hours.n # NaN /\ cutoff \in Int
                            /\ cutoff = clock - cfg.retention_hours.n
    BY <2>1 DEF Usable, cutoff_of
  <2> HIDE DEF cutoff
  <2>3. \/ pass' = Pass(1, cutoff, protected(list_incidents(Limit)))
        \/ pass' = Pass(1, cutoff, {}) /\ blind' = TRUE
    BY <1>1 DEF CollectLowPrunes, BeginPrune, cutoff
  <2>4. /\ pass'.table = 1 /\ pass'.cutoff = cutoff
        /\ ~blind' => pass'.protected = protected(list_incidents(Limit))
    BY <2>3 DEF Pass
  <2>5. list_incidents(Limit) = Listed /\ Listed' = Listed
    BY <1>0, <2>1, ListedIsListed DEF Listed
  <2>6. protected(Listed)' = protected(Listed)
    BY <2>5 DEF protected, window
  <2>7. 1 \in 1..Len(Tables)
    BY RetentionAssumption
  <2>8. QED
    BY <2>1, <2>2, <2>4, <2>5, <2>6, <2>7 DEF PassInv
<1>2. CASE Prunes
  <2>1. /\ pass # NoValue
        /\ pass' = IF pass.table = last_table THEN NoValue ELSE [pass EXCEPT !.table = @ + 1]
        /\ UNCHANGED <<agent, cfg, clock, incidents, blind>>
    BY <1>2 DEF Prunes, PruneTable, machine
  <2>2. /\ pass.table \in 1..Len(Tables) /\ pass.table # Len(Tables)
        /\ pass' = [pass EXCEPT !.table = @ + 1]
    BY <1>0, <2>1 DEF PassInv, last_table
  <2>3. /\ pass'.table = pass.table + 1 /\ pass'.cutoff = pass.cutoff
        /\ pass'.protected = pass.protected
    BY <2>2
  <2>4. protected(Listed)' = protected(Listed)
    BY <2>1 DEF Listed, protected, window
  <2>5. pass'.table \in 1..Len(Tables)
    BY <2>2, <2>3, RetentionAssumption
  <2>6. QED
    BY <1>0, <2>1, <2>3, <2>4, <2>5 DEF PassInv
<1>3. CASE Tick
  <2>1. /\ clock' = clock + 1 /\ UNCHANGED <<agent, cfg, incidents, blind, pass>>
    BY <1>3 DEF Tick, retention
  <2>2. cfg.retention_hours.n \in Int \cup {NaN} /\ clock \in Nat
    BY <1>0, <2>1 DEF PassInv, ConfigInv, Usable, Down, MachineInv
  <2>3. protected(Listed)' = protected(Listed)
    BY <2>1 DEF Listed, protected, window
  <2>4. QED
    BY <1>0, <2>1, <2>2, <2>3 DEF PassInv
<1>4. CASE UNCHANGED <<agent, cfg, clock, incidents, blind, pass>>
  <2>1. protected(Listed)' = protected(Listed)
    BY <1>4 DEF Listed, protected, window
  <2>2. QED
    BY <1>0, <1>4, <2>1 DEF PassInv
<1>5. CASE Start \/ Initialize \/ AnalysisRaises \/ StartupAnalysis \/ PowerOn
  BY <1>0, <1>5 DEF Start, Initialize, AnalysisRaises, StartupAnalysis, PowerOn,
                    retention, PassInv, MachineInv, Down
<1>6. CASE Stop \/ PowerOff
  BY <1>6 DEF Stop, PowerOff
<1>7. QED
  BY <1>1, <1>2, <1>3, <1>4, <1>5, <1>6
     DEF Next, vars, retention, machine, CollectHigh, CollectLow, OpenDb

\* A row that a pass deletes is expired, and in no listed incident's window.
LEMMA DeletedRow ==
  ASSUME ServiceInv, Prunes, NEW r \in rows, r \notin rows'
  PROVE  /\ expired(r)
         /\ ~blind => \A i \in Listed : i.last_metric_timestamp # NoValue =>
                                          r.timestamp \notin window(i)
<1>0. MachineInv /\ ConfigInv /\ PassInv
  BY DEF ServiceInv
<1>1. pass # NoValue /\ agent = "running" /\ where(r)
  BY DEF Prunes, PruneTable
<1>2. r.timestamp \in Nat /\ clock \in Nat /\ cfg.retention_hours.n \in Nat \cup {NaN}
  BY <1>0, <1>1 DEF MachineInv, Metrics, ConfigInv, Usable, Down
<1>3. expired(r)
  BY <1>0, <1>1, <1>2 DEF PassInv, where, expired
<1>4. ~blind => r.timestamp \notin protected(Listed)
  BY <1>0, <1>1 DEF PassInv, where
<1>5. QED
  BY <1>3, <1>4 DEF protected

LEMMA KeptStep == ServiceInv /\ [Next]_vars => EvidenceKept'
<1> SUFFICES ASSUME ServiceInv, [Next]_vars PROVE EvidenceKept'
  OBVIOUS
<1>0. MachineInv /\ IncidentInv /\ PassInv /\ EvidenceKept
  BY DEF ServiceInv
<1>1. left' \subseteq rows'
  BY MachineStep DEF MachineInv
<1> DEFINE Complete(i) == i.last_metric_timestamp # NoValue => i.evidence \subseteq rows
<1>2. CASE Prunes
  <2>1. UNCHANGED <<incidents, blind>> /\ Listed' = Listed
    BY <1>2 DEF Prunes, PruneTable, Listed
  <2>2. ASSUME ~blind, NEW i \in Listed, i.last_metric_timestamp # NoValue, NEW r \in i.evidence
        PROVE  r \in rows'
    <3>1. r \in rows
      BY <1>0, <2>2 DEF EvidenceKept
    <3>2. r.timestamp \in window(i)
      BY <1>0, <2>2, ListedIsListed DEF Covered
    <3>3. QED
      BY <1>2, <2>2, <3>1, <3>2, DeletedRow
  <2>3. QED
    BY <1>1, <2>1, <2>2 DEF EvidenceKept
<1>3. CASE rows \subseteq rows' /\ UNCHANGED incidents /\ (blind => blind')
  <2>1. Listed' = Listed
    BY <1>3 DEF Listed
  <2>2. QED
    BY <1>0, <1>1, <1>3, <2>1 DEF EvidenceKept
<1>4. CASE StartupAnalysis /\ ~UNCHANGED incidents
  <2> DEFINE new == [ last_metric_timestamp |-> last_metric_timestamp, reboot_timestamp |-> boot,
                      evidence |-> Evidence ]
  <2>1. incidents' = Append(incidents, new) /\ UNCHANGED <<rows, blind>>
    BY <1>4 DEF StartupAnalysis
  <2>2. Complete(new)
    BY DEF Evidence
  <2> HIDE DEF new
  <2>3. /\ Len(incidents') = Len(incidents) + 1 /\ DOMAIN incidents' = 1..Len(incidents')
        /\ \A k \in DOMAIN incidents : incidents'[k] = incidents[k]
        /\ incidents'[Len(incidents')] = new
    BY <1>0, <2>1 DEF IncidentInv
  <2>4. ASSUME NEW k \in DOMAIN incidents', k + Limit > Len(incidents')
        PROVE  incidents'[k] \in Listed \cup {new}
    <3>1. CASE k = Len(incidents')
      BY <2>3, <3>1
    <3>2. CASE k # Len(incidents')
      <4>1. k \in DOMAIN incidents /\ k + Limit > Len(incidents)
        BY <1>0, <2>3, <2>4, <3>2, RetentionAssumption DEF IncidentInv
      <4>2. QED
        BY <2>3, <4>1 DEF Listed
    <3>3. QED
      BY <3>1, <3>2
  <2>5. Listed' \subseteq Listed \cup {new}
    BY <2>4 DEF Listed
  <2>6. QED
    BY <1>0, <1>1, <2>1, <2>2, <2>5 DEF EvidenceKept
<1>5. CASE CollectLowPrunes
  BY <1>3, <1>5 DEF CollectLowPrunes, BeginPrune
<1>6. QED
  BY <1>2, <1>3, <1>4, <1>5
     DEF Next, vars, retention, Start, Initialize, AnalysisRaises, StartupAnalysis, CollectHigh,
         CollectLow, Insert, Stop, OpenDb, Tick, PowerOff, PowerOn

LEMMA ServiceInvariant == Spec => []ServiceInv
<1>1. ServiceInv /\ [Next]_vars => ServiceInv'
  BY MachineStep, ConfigStep, IncidentStep, PassStep, KeptStep DEF ServiceInv
<1>2. QED
  BY ServiceInitially, <1>1, PTL DEF Spec
-------------------------------------------------------------------------------
\* What a session leaves behind is there until the next boot is analysed, and the
\* window of a listed incident stays complete for good, unless a listing failed.
THEOREM EvidenceSurvives == Spec => []EvidenceKept
<1>1. ServiceInv => EvidenceKept
  BY DEF ServiceInv
<1>2. QED
  BY <1>1, ServiceInvariant, PTL

\* Only a pass deletes, and only rows that are older than the retention and in no
\* stretch from the silence before a listed incident to its reboot.
THEOREM PruningIsSafe == Spec => PrunesOnlyExpired
<1> DEFINE Deletable(r) ==
      /\ expired(r)
      /\ ~blind => \A i \in Listed : i.last_metric_timestamp # NoValue =>
           r.timestamp \notin i.last_metric_timestamp..i.reboot_timestamp
<1>1. ServiceInv /\ [Next]_vars => [\A r \in rows \ rows' : Deletable(r)]_vars
  <2> SUFFICES ASSUME ServiceInv, Next, NEW r \in rows \ rows' PROVE Deletable(r)
    BY DEF vars, retention
  <2>1. Prunes
    BY DEF Next, retention, Start, Initialize, AnalysisRaises, StartupAnalysis, CollectHigh,
           CollectLow, CollectLowPrunes, Insert, Stop, OpenDb, Tick, PowerOff, PowerOn
  <2>2. ASSUME ~blind, NEW i \in Listed, i.last_metric_timestamp # NoValue
        PROVE  r.timestamp \notin i.last_metric_timestamp..i.reboot_timestamp
    <3>1. r.timestamp \notin window(i)
      BY <2>1, <2>2, DeletedRow
    <3>2. Covered(i)
      BY ListedIsListed DEF ServiceInv
    <3>3. i.last_metric_timestamp..i.reboot_timestamp \subseteq window(i)
      BY <2>2, <3>2, RetentionAssumption DEF Covered, window
    <3>4. QED
      BY <3>1, <3>3
  <2>3. QED
    BY <2>1, <2>2, DeletedRow
<1>2. QED
  BY ServiceInvariant, <1>1, PTL DEF Spec, PrunesOnlyExpired
-------------------------------------------------------------------------------
(* The schema under the service, the CLI and crashes.                      *)

OpenInv == agent \in {"analyse", "running"} => opening[Service].at = "open"

\* A step of the service is a step of the migrations, or a crash that closes
\* everything.
LEMMA SchemaStep == IInv /\ [Next]_vars => IInv'
<1> SUFFICES ASSUME IInv, [Next]_vars PROVE IInv'
  OBVIOUS
<1>1. CASE [MigrationsNext]_migration
  BY <1>1, Inductive
<1>2. CASE PowerOff
  <2>1. /\ opening' = [p \in Openers |-> Step("closed", 0)] /\ holder' = None
        /\ UNCHANGED <<schema, versions>>
    BY <1>2 DEF PowerOff
  <2>2. MigrationsTypeOK'
    BY <2>1, MigrationsAssumption DEF IInv, MigrationsTypeOK, Step
  <2>3. ProgressInv'
    BY <2>1 DEF IInv, ProgressInv, ProgressOf, Step
  <2>4. QED
    BY <2>2, <2>3 DEF IInv
<1>3. CASE Start \/ Initialize \/ AnalysisRaises \/ Stop
  BY <1>1, <1>3, ServiceAssumption
     DEF Start, Initialize, AnalysisRaises, Stop, MigrationsNext, Service
<1>4. CASE OpenDb
  BY <1>1, <1>4, ServiceAssumption DEF OpenDb, MigrationsNext, Cli
<1>5. QED
  BY <1>1, <1>2, <1>3, <1>4
     DEF Next, vars, StartupAnalysis, CollectHigh, CollectLow, CollectLowPrunes, Prunes, Tick, PowerOn

LEMMA OpenStep == IInv /\ OpenInv /\ [Next]_vars => OpenInv'
<1> SUFFICES ASSUME IInv, OpenInv, [Next]_vars PROVE OpenInv'
  OBVIOUS
<1>1. CASE Start \/ Initialize
  BY <1>1 DEF Start, Initialize, OpenInv, first_step
<1>2. CASE AnalysisRaises \/ Stop \/ PowerOff
  BY <1>2 DEF AnalysisRaises, Stop, PowerOff, OpenInv
<1>3. CASE StartupAnalysis
  BY <1>3 DEF StartupAnalysis, migration, OpenInv
<1>4. CASE OpenDb
  <2>1. Cli \in Openers /\ Service \in Openers /\ Service # Cli
    BY ServiceAssumption DEF Cli, Service
  <2>2. opening'[Service] = opening[Service]
    BY <1>4, <2>1 DEF OpenDb, Connect, Migrate, Leave, CreateVersionTable, SelectVersion, Execute,
                      InsertVersion, Commit, IInv, MigrationsTypeOK
  <2>3. QED
    BY <1>4, <2>2 DEF OpenDb, OpenInv
<1>5. CASE UNCHANGED <<agent, opening>>
  BY <1>5 DEF OpenInv
<1>6. QED
  BY <1>1, <1>2, <1>3, <1>4, <1>5
     DEF Next, vars, migration, CollectHigh, CollectLow, CollectLowPrunes, Prunes, Tick, PowerOn

LEMMA SchemaInvariant == Spec => [](IInv /\ OpenInv)
<1>1. Init => IInv /\ OpenInv
  BY Initially DEF Init, OpenInv
<1>2. IInv /\ OpenInv /\ [Next]_vars => (IInv /\ OpenInv)'
  BY SchemaStep, OpenStep
<1>3. QED
  BY <1>1, <1>2, PTL DEF Spec

\* The service never works on a database without its whole schema, whatever a
\* CLI command does beside it and wherever either is killed.
THEOREM ServiceHasSchema == Spec => []SchemaComplete
<1>1. IInv => SchemaComplete
  BY DEF IInv, ProgressInv, ProgressOf, SchemaComplete
<1>2. QED
  BY <1>1, SchemaInvariant, PTL

\* Every variable keeps its type.
THEOREM ServiceTypeCorrect == Spec => []TypeOK
<1>1. ServiceInv /\ IInv /\ OpenInv => TypeOK
  <2> SUFFICES ASSUME ServiceInv, IInv, OpenInv PROVE TypeOK
    OBVIOUS
  <2>1. MigrationsTypeOK /\ MachineInv /\ ConfigInv /\ PassInv
    BY DEF IInv, ServiceInv
  <2>2. QED
    BY <2>1 DEF TypeOK, MachineInv, Metrics, ConfigInv, Usable, PassInv, OpenInv
<1>2. QED
  BY <1>1, ServiceInvariant, SchemaInvariant, PTL
==============================================================================
