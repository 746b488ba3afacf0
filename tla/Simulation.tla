------------------------------ MODULE Simulation ------------------------------
(***************************************************************************)
(* `pcdiag simulate-incident` (cli/commands.py, simulation/): a synthetic  *)
(* previous session is written to a database of its own, which then goes   *)
(* through the same load_config(), detect_boot() and run_diagnosis() as    *)
(* the service.  The command is run again and again, with any scenario and *)
(* an edited config.yaml, over whatever the run before has left: it may    *)
(* have been killed at any step.  Times are seconds after T0.              *)
(***************************************************************************)
EXTENDS Diagnosis

CONSTANTS
  NaN, Exact, Infinity,  \* floats, see Config
  Files,                 \* states of config.yaml
  MaxRuns                \* bound: how often the command is run

INSTANCE Config

ASSUME NumbersAssumption == UsualNumbers

\* A file sets each key to a value, which spells a number if it is one.
Settings == [Keys -> [kind: Kinds, n: Int \cup {NaN, None}]]
ASSUME FilesAssumption ==
  /\ MaxRuns \in Nat \ {0}
  /\ \A f \in Files : f.data \in Settings /\ \A key \in Keys : Spelled(f.data[key])

Incident == [ incident_type: IncidentTypes, confidence: Confidences,
              previous_session_id: Nat \ {0}, reboot_timestamp: Nat,
              duration_estimate: Nat \cup {None} ]
\* None is neither a configuration nor an incident, nor the type of one.
ASSUME NoneIsNoRecord == None \notin Settings /\ None \notin Incident /\ None \notin IncidentTypes

VARIABLES
  file,      \* config.yaml
  scenario,  \* --type
  pc,        \* where the command is, or how it ended
  cfg,       \* the loaded configuration, or None
  db,        \* simulation.db, or None if there is no such file
  boot,      \* the boot_result, or None
  result,    \* what run_simulation() returns, or None
  runs       \* how often the command was run

vars == <<file, scenario, pc, cfg, db, boot, result, runs>>
-------------------------------------------------------------------------------
(* The scenarios.                                                          *)

COLLECTION_INTERVAL == 30
BootMargin == 120

Event(at, provider, id) ==
  [timestamp |-> at, provider |-> provider, event_id |-> id, bugcheck |-> id = 1001]

\* Every caller passes user_initiated_restart = False.
boot_events(at, kp41, bugcheck) ==
       {Event(at + 4, {"EventLog"}, id) : id \in {6009, 6005, 6013}}
  \cup {Event(at + 7, {"kernel_power"}, 109)}
  \cup (IF kp41 THEN {Event(at, {"kernel_power"}, 41)} ELSE {})
  \cup (IF bugcheck THEN {Event(at, {"bugcheck"}, 1001)} ELSE {})

started_event == Event(2, {"EventLog"}, 6005)

\* A sample, with readings in whole percents and degrees.
metric_rows(t, cpu, memory, temperature) ==
  [ timestamp |-> t, cpu |-> cpu, memory |-> memory, temperature |-> temperature ]

\* The times of the samples and of the heartbeats.
metric_stream(last_activity) ==
  {COLLECTION_INTERVAL * k : k \in 0..(last_activity \div COLLECTION_INTERVAL)}

Steady(cpu, memory, temperature, last_activity) ==
  {metric_rows(t, cpu, memory, temperature) : t \in metric_stream(last_activity)}

hard_hang ==
  LET cpu(t) == IF t < 600 THEN 35 ELSE IF t < 900 THEN 50 ELSE IF t < 1200 THEN 65 ELSE 91
      memory(t) == 55 + (17 * (IF t < 1200 THEN t ELSE 1200)) \div 1200
      temperature(t) == 52 + (11 * t) \div 1560
  IN [ expected_type |-> "HARD_HANG", expected_confidence |-> "HIGH",
       boot |-> 1560, last_activity |-> 1260,
       events |-> boot_events(1560, TRUE, FALSE) \cup {started_event},
       snapshots |-> {metric_rows(t, cpu(t), memory(t), temperature(t)) : t \in metric_stream(1260)} ]

power_loss ==
  [ expected_type |-> "POWER_LOSS", expected_confidence |-> "LOW",
    boot |-> 1260, last_activity |-> 1255,
    events |-> boot_events(1260, TRUE, FALSE) \cup {started_event},
    snapshots |-> Steady(35, 58, 51, 1255) ]

bsod ==
  [ expected_type |-> "BSOD", expected_confidence |-> "HIGH",
    boot |-> 1200, last_activity |-> 960,
    events |-> boot_events(1200, FALSE, TRUE) \cup {started_event},
    snapshots |-> Steady(40, 60, 50, 960) ]

normal_restart ==
  [ expected_type |-> None, expected_confidence |-> None,
    boot |-> 1500, last_activity |-> 1470,
    events |->      boot_events(1500, FALSE, FALSE) \cup {started_event}
               \cup {Event(1485, {}, 1074), Event(1485, {"EventLog"}, 6006)}
               \cup {Event(1492, {"kernel_power"}, 109), Event(1494, {"kernel_power"}, 172),
                     Event(1496, {"kernel_power"}, 521)},
    snapshots |-> Steady(25, 50, 48, 1470) ]

Scenarios == [ hard_hang |-> hard_hang, power_loss |-> power_loss,
               bsod |-> bsod, normal_restart |-> normal_restart ]

S == Scenarios[scenario]
-------------------------------------------------------------------------------
Init ==
  /\ file \in Files /\ scenario \in DOMAIN Scenarios
  /\ pc = "load" /\ cfg = None /\ db = None /\ boot = None /\ result = None
  /\ runs = 1

\* An exception of load_config() is a traceback: only OSError is caught.
Load ==
  /\ pc = "load"
  /\ IF load_raises(file) THEN pc' = "failed" /\ UNCHANGED cfg
                          ELSE pc' = "remove" /\ cfg' = load_config(file)
  /\ UNCHANGED <<file, scenario, db, boot, result, runs>>

\* Mutant: a database that is already there is used again.
removed_never(database) == database
\* The database file and SQLite's side files are deleted.
removed(database) == None

Remove ==
  /\ pc = "remove"
  /\ db' = removed(db)
  /\ pc' = "connect"
  /\ UNCHANGED <<file, scenario, cfg, boot, result, runs>>

Connect ==
  /\ pc = "connect"
  /\ db' = IF db # None THEN db
           ELSE [sessions |-> <<>>, events |-> {}, samples |-> {}, heartbeat |-> None,
                 incidents |-> <<>>]
  /\ pc' = "session"
  /\ UNCHANGED <<file, scenario, cfg, boot, result, runs>>

\* _seed(): one step for each kind of row.  Rows of one kind are committed one
\* by one; a kill among them leaves some of what the next step would leave.
Seed ==
  /\ \/ /\ pc = "session" /\ pc' = "events"
        /\ db' = [db EXCEPT !.sessions = Append(@, [boot_time |-> 0, clean |-> None])]
     \/ /\ pc = "events" /\ pc' = "snapshots"
        /\ db' = [db EXCEPT !.events = @ \cup S.events]
     \/ /\ pc = "snapshots" /\ pc' = "heartbeats"
        /\ db' = [db EXCEPT !.samples = @ \cup S.snapshots]
     \/ /\ pc = "heartbeats" /\ pc' = "detect"
        /\ db' = [db EXCEPT !.heartbeat =
                    COLLECTION_INTERVAL * (S.last_activity \div COLLECTION_INTERVAL)]
  /\ UNCHANGED <<file, scenario, cfg, boot, result, runs>>

Between(start, end) == {e \in db.events : start <= e.timestamp /\ e.timestamp <= end}

\* The seeded session is the latest one and far more than 60 s older.
DetectBoot ==
  /\ pc = "detect"
  /\ LET latest == Len(db.sessions)
         summary == summarize(Between(db.sessions[latest].boot_time, S.boot + BootMargin))
         clean == IF summary.clean_shutdown THEN 1 ELSE 0
     IN /\ db' = [db EXCEPT !.sessions =
                    Append([@ EXCEPT ![latest].clean = clean],
                           [boot_time |-> S.boot, clean |-> None])]
        /\ boot' = [ boot_time |-> S.boot, previous_session_id |-> latest,
                     previous_boot_time |-> db.sessions[latest].boot_time,
                     previous_session_clean |-> clean ]
  /\ pc' = "diagnose"
  /\ UNCHANGED <<file, scenario, cfg, result, runs>>

\* Between incident_start and incident_end.  SQLite takes NaN for NULL, with which
\* no timestamp compares.
in_window(t) ==
  LET before == cfg.incident_window_before_minutes.n
      after == cfg.incident_window_after_minutes.n
  IN /\ NaN \notin {before, after}
     /\ boot.boot_time - before * 60 <= t
     /\ t <= boot.boot_time + after * 60

\* The largest reading in the window, None without one.
max_of(field) ==
  LET rows == {r \in db.samples : in_window(r.timestamp)}
  IN IF rows = {} THEN None
     ELSE (CHOOSE r \in rows : \A q \in rows : q[field] <= r[field])[field]

aggregates ==
  [ max_cpu_percent    |-> max_of("cpu"),
    max_memory_percent |-> max_of("memory"),
    max_temperature    |-> max_of("temperature") ]

last_metric_timestamp ==
  LET seen == {t \in {r.timestamp : r \in db.samples} \cup ({db.heartbeat} \ {None}) :
                 t < boot.boot_time}
  IN IF seen = {} THEN None ELSE CHOOSE t \in seen : \A u \in seen : u <= t

\* A known maximum is compared with a threshold that is not a number.
comparison_raises ==
  \/ aggregates.max_memory_percent # None /\ ~Number(cfg.memory_warning_percent)
  \/ aggregates.max_cpu_percent # None /\ ~Number(cfg.cpu_warning_percent)

Windows == {"incident_window_before_minutes", "incident_window_after_minutes"}
\* The bounds of the window are no floats.
window_raises == \E key \in Windows : Overflows(cfg[key])

\* Nothing reaches a threshold that is NaN.
threshold(key) == IF cfg[key].n = NaN THEN None ELSE cfg[key].n

incident_exists ==
  \E i \in DOMAIN db.incidents : db.incidents[i].reboot_timestamp \in (S.boot - 5)..(S.boot + 5)

\* run_diagnosis(persist=True).  The findings are built before it is known
\* whether an incident is warranted.
RunDiagnosis ==
  /\ pc = "diagnose"
  /\ ~window_raises /\ ~comparison_raises
  /\ LET summary == summarize(Between(boot.previous_boot_time, boot.boot_time + BootMargin))
         incident_summary == summarize({e \in db.events : in_window(e.timestamp)})
         crash == detect_crash(summary, boot.previous_session_clean)
         inference == infer_termination(crash, last_metric_timestamp, boot.boot_time,
                                        cfg.collection_interval_seconds.n)
         findings == build_findings(incident_summary, aggregates, inference,
           [ temperature_critical_celsius |-> threshold("temperature_critical_celsius"),
             memory_warning_percent |-> threshold("memory_warning_percent"),
             cpu_warning_percent |-> threshold("cpu_warning_percent") ])
         incident ==
           [ incident_type |-> incident_type(inference, crash),
             confidence |-> incident_confidence(inference, crash, findings),
             previous_session_id |-> boot.previous_session_id,
             reboot_timestamp |-> boot.boot_time,
             duration_estimate |-> inference.gap ]
     IN /\ result' = [ incident |-> IF warranted(crash) THEN incident ELSE None,
                       findings |-> IF warranted(crash) THEN findings ELSE <<>> ]
        /\ db' = IF warranted(crash) /\ ~incident_exists
                 THEN [db EXCEPT !.incidents = Append(@, incident)] ELSE db
  /\ pc' = "report"
  /\ UNCHANGED <<file, scenario, cfg, boot, runs>>

\* The OverflowError of the window and the TypeError of the comparison are
\* tracebacks too.
DiagnosisRaises ==
  /\ pc = "diagnose"
  /\ window_raises \/ comparison_raises
  /\ pc' = "failed"
  /\ UNCHANGED <<file, scenario, cfg, db, boot, result, runs>>

\* What the report says of the incident by fixed wording, which depends on its type
\* only; what it prints from the database besides is not a claim of this text.
NoClaim ==
  [ confidence |-> None, least_gap |-> None, most_gap |-> None,
    hang_threshold |-> None, loss_threshold |-> None, clean |-> None,
    clean_signal |-> None, kernel_power |-> None, event_6008 |-> None, bugcheck |-> None ]
clean_text == [NoClaim EXCEPT !.clean = TRUE, !.clean_signal = TRUE, !.kernel_power = FALSE,
                              !.event_6008 = FALSE, !.bugcheck = FALSE]
hang_text == [NoClaim EXCEPT !.confidence = "HIGH", !.least_gap = 150, !.hang_threshold = 150,
                             !.clean = FALSE, !.kernel_power = TRUE, !.bugcheck = FALSE]
loss_text == [NoClaim EXCEPT !.confidence = "LOW", !.most_gap = 60, !.loss_threshold = 60,
                             !.clean = FALSE, !.kernel_power = TRUE, !.bugcheck = FALSE]
bsod_text == [NoClaim EXCEPT !.confidence = "HIGH", !.bugcheck = TRUE]

\* Mutant: the two wordings are exchanged.
inference_text_exchanged(incident) ==
  IF incident = None THEN clean_text
  ELSE CASE incident.incident_type = "HARD_HANG"  -> loss_text
         [] incident.incident_type = "POWER_LOSS" -> hang_text
         [] OTHER -> NoClaim
inference_text(incident) ==
  IF incident = None THEN clean_text
  ELSE CASE incident.incident_type = "HARD_HANG"  -> hang_text
         [] incident.incident_type = "POWER_LOSS" -> loss_text
         [] incident.incident_type = "BSOD"       -> bsod_text
         [] OTHER -> NoClaim

\* The timeline of an incident adds int minutes, times 60, to its timestamps: too
\* large for a float, though the minutes themselves may not be.
timeline_raises ==
  /\ result.incident # None
  /\ \E key \in Windows : cfg[key].kind = "int" /\ cfg[key].n * 60 >= Infinity

Report ==
  /\ pc = "report"
  /\ pc' = IF timeline_raises THEN "failed" ELSE "done"
  /\ UNCHANGED <<file, scenario, cfg, db, boot, result, runs>>

\* From connect() to close().
Open == {"connect", "session", "events", "snapshots", "heartbeats", "detect", "diagnose", "report"}

\* "Simulation failed": a file cannot be deleted, opened or written.
OSError ==
  /\ pc \in {"remove", "connect", "report"}
  /\ pc' = "exit"
  /\ UNCHANGED <<file, scenario, cfg, db, boot, result, runs>>

\* A sqlite3.Error is no OSError: a traceback, over whatever was committed.
DatabaseError ==
  /\ pc \in Open
  /\ pc' = "db_failed"
  /\ UNCHANGED <<file, scenario, cfg, db, boot, result, runs>>

Ended == {"done", "exit", "failed", "db_failed", "killed"}

Kill ==
  /\ pc \notin Ended
  /\ pc' = "killed"
  /\ UNCHANGED <<file, scenario, cfg, db, boot, result, runs>>

RunAgain ==
  /\ pc \in Ended /\ runs < MaxRuns
  /\ file' \in Files /\ scenario' \in DOMAIN Scenarios
  /\ pc' = "load" /\ cfg' = None /\ boot' = None /\ result' = None
  /\ runs' = runs + 1
  /\ UNCHANGED db

Next == \/ Load \/ Remove \/ Connect \/ Seed \/ DetectBoot \/ RunDiagnosis
        \/ DiagnosisRaises \/ Report \/ OSError \/ DatabaseError \/ Kill \/ RunAgain

Spec == Init /\ [][Next]_vars
-------------------------------------------------------------------------------
(* Properties.                                                             *)

Reported == pc \in {"report", "done"}

\* The variables have their types.
TypeOK ==
  /\ file \in Files /\ scenario \in DOMAIN Scenarios /\ runs \in 1..MaxRuns
  /\ pc \in Ended \cup {"load", "remove"} \cup Open
  /\ cfg \in Settings \cup {None}
  /\ Reported => /\ boot.previous_session_clean \in {0, 1}
                 /\ result.incident \in Incident \cup {None}

\* README, "Expected outcomes": each scenario is classified as it says,
\* whatever the rest of config.yaml holds and whatever an earlier run left,
\* as long as the service's interval is not below that of the samples.
ExpectedOutcome ==
  Reported /\ cfg.collection_interval_seconds.n >= COLLECTION_INTERVAL =>
    IF S.expected_type = None THEN result.incident = None
    ELSE /\ result.incident # None
         /\ result.incident.incident_type = S.expected_type
         /\ result.incident.confidence = S.expected_confidence

\* The fixed wording of the report is true of the incident it explains, and of the
\* records on which it rests: its confidence, the gap, the verdict on the shutdown
\* and which events there were.  The thresholds it names, "5 x collection interval =
\* 150s" and "2 x the collection interval (<= 60s)", are those of the rules at the
\* default interval and at no other: with 60, the rules use 300 s and 120 s.
WordingIsTrue ==
  Reported /\ cfg.collection_interval_seconds.n >= COLLECTION_INTERVAL =>
    LET text == inference_text(result.incident)
        interval == cfg.collection_interval_seconds.n
        recorded(ids) == \E e \in Between(0, S.boot + BootMargin) : event_id(e) \in ids
    IN /\ result.incident # None => text.confidence = result.incident.confidence
       /\ text.least_gap # None => result.incident.duration_estimate >= text.least_gap
       /\ text.most_gap # None => result.incident.duration_estimate <= text.most_gap
       /\ text.hang_threshold # None =>
            (text.hang_threshold = 5 * interval <=> interval = COLLECTION_INTERVAL)
       /\ text.loss_threshold # None =>
            (text.loss_threshold = 2 * interval <=> interval = COLLECTION_INTERVAL)
       /\ text.clean # None => text.clean = (boot.previous_session_clean = 1)
       /\ text.clean_signal # None => text.clean_signal = recorded({1074, 6006})
       /\ text.kernel_power # None => text.kernel_power = recorded({41})
       /\ text.event_6008 # None => text.event_6008 = recorded({6008})
       /\ text.bugcheck # None => text.bugcheck = recorded({1001})

\* runner.py: "Fresh, deterministic database for every run".  When the report is
\* written the database holds this scenario's rows and nothing of earlier runs,
\* however they ended.
OnlyOwnRows ==
  Reported =>
    /\ [i \in DOMAIN db.sessions |-> db.sessions[i].boot_time] = <<0, S.boot>>
    /\ db.events = S.events /\ db.samples = S.snapshots
    /\ db.incidents = IF result.incident = None THEN <<>> ELSE <<result.incident>>

\* config.yaml: "invalid values fall back to safe defaults", as far as it is true of
\* every file: an interval that the rules know, at least 30 s between the slow
\* collections, a retention and windows that are in range or NaN, of which no check
\* says that it is wrong, and temperatures that are in order, or NaN, or as large as
\* floats that 10 does not change.
LoadedIsSafe ==
  cfg # None =>
    /\ cfg.collection_interval_seconds.n \in ALLOWED_INTERVALS
    /\ cfg.low_frequency_interval_seconds.n >= 30
    /\ ~AtMost(cfg.retention_hours.n, 0)
    /\ \A key \in Windows : ~Below(cfg[key].n, 0)
    /\ LET warning == cfg.temperature_warning_celsius.n
           critical == cfg.temperature_critical_celsius.n
       IN AtMost(critical, warning) => ~(-Exact < warning /\ warning < Exact)

\* What config.yaml may hold, by its comments and by the checks that are meant.
Allowed(key, x) ==
  CASE key = "collection_interval_seconds"    -> Number(x) /\ x.n \in {10, 30, 60}
    [] key = "low_frequency_interval_seconds" -> x.kind = "int" /\ x.n >= 30
    [] key = "retention_hours"                -> Number(x) /\ Below(0, x.n)
    [] OTHER                                  -> Number(x) /\ AtMost(0, x.n)

\* One bad value does not cost the others: what the file sets to an allowed value
\* is what the agent uses, with its type, a window of zero included.
GoodValuesKept ==
  cfg # None /\ file.state = "yaml" =>
    \A key \in TopLevel : Allowed(key, file.data[key]) => cfg[key] = file.data[key]

\* What a bad file can still stop, and nothing else: the load, by its encoding, by a
\* scalar that cannot be constructed, or by a temperature that float() refuses; the
\* diagnosis, before it has stored an incident, by a window without a float or by a
\* threshold that is no number if the window holds a sample to compare with it; the
\* report of an incident, once it is stored, by a window without a float in seconds.
FailureIsExplained ==
  pc = "failed" =>
    \/ /\ cfg = None
       /\ \/ file.state \in {"not_utf8", "bad_scalar"}
          \/ /\ file.state = "yaml"
             /\ \E key \in Temperatures : file.data[key].kind # "absent" /\ ~Floats(file.data[key])
    \/ /\ cfg # None /\ db.incidents = <<>>
       /\ \/ \E key \in Windows : Overflows(cfg[key])
          \/ /\ \E key \in Thresholds : ~Number(cfg[key])
             /\ \E r \in db.samples : in_window(r.timestamp)
    \/ /\ cfg # None /\ db.incidents # <<>>
       /\ \E key \in Windows : cfg[key].kind = "int" /\ cfg[key].n * 60 >= Infinity
==============================================================================
