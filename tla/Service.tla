-------------------------------- MODULE Service --------------------------------
(***************************************************************************)
(* The life of the database beside that of the service: run_agent()        *)
(* (agent/main.py) loads config.yaml, opens the database through the       *)
(* migrations, analyses the boot before the worker starts, then collects   *)
(* and prunes; the CLI opens the same file at any time.  The machine       *)
(* crashes and boots, the service is killed and started again, with an     *)
(* edited config.yaml.                                                     *)
(*                                                                         *)
(* Which boots deserve an incident is the matter of BootSession; here an   *)
(* analysis may store one or not.  Hours and minutes are both ticks.       *)
(***************************************************************************)
EXTENDS Migrations, Retention, FiniteSets

CONSTANTS
  Exact, Infinity,   \* floats, see Config
  Files,             \* states of config.yaml
  MaxClock,          \* bounds: ticks,
  MaxBoots,          \*   boots,
  MaxStarts,         \*   starts of the service,
  MaxOpens,          \*   uses of the CLI
  MaxRows            \*   metric rows at a time

INSTANCE Config

VARIABLES
  clock, on, boot,   \* the time, whether the machine runs, and since when
  boots, starts, opens,
  agent,             \* off, failed, or where run_agent() is
  cfg,               \* its configuration
  heartbeat,
  left               \* history: the rows at the end of the previous session

ASSUME NumbersAssumption == UsualNumbers
ASSUME ServiceAssumption ==
  /\ {"service", "cli"} \subseteq Openers
  /\ {"metrics_cpu", "metrics_gpu"} \subseteq {Tables[k] : k \in 1..Len(Tables)}
  /\ \A file \in Files : \A key \in Keys : Spelled(file.data[key])

machine == <<clock, on, boot, boots>>
vars == <<migration, retention, machine, starts, opens, agent, cfg, heartbeat, left>>

Service == "service"
Cli == "cli"
Down == agent \in {"off", "failed"}
Working == agent = "running" /\ pass = NoValue

Row(table) == [table |-> table, timestamp |-> clock]
Insert(inserted) == rows' = rows \cup inserted /\ Cardinality(rows') <= MaxRows

Init ==
  /\ InitMigrations
  /\ rows = {} /\ incidents = <<>> /\ pass = NoValue /\ faults = 0 /\ blind = FALSE
  /\ clock = 0 /\ on = TRUE /\ boot = 0 /\ boots = 1 /\ starts = 0 /\ opens = 0
  /\ agent = "off" /\ cfg = None /\ heartbeat = NoValue /\ left = {}
-------------------------------------------------------------------------------
(* The service.                                                            *)

Start ==
  /\ on /\ Down /\ starts < MaxStarts
  /\ starts' = starts + 1
  /\ \E file \in Files :
       IF load_raises(file)
       THEN agent' = "failed" /\ UNCHANGED <<migration, cfg>>
       ELSE agent' = "connect" /\ cfg' = load_config(file) /\ Connect(Service)
  /\ UNCHANGED <<retention, machine, opens, heartbeat, left>>

\* Mutant: the worker runs before the analysis.
first_step_worker == "running"
\* What follows initialize(): startup_analysis(), then run().
first_step == "analyse"

Initialize ==
  /\ agent = "connect"
  /\ Migrate(Service)
  /\ agent' = IF opening'[Service].at = "open" THEN first_step ELSE "connect"
  /\ UNCHANGED <<retention, machine, starts, opens, cfg, heartbeat, left>>

\* Between incident_start and incident_end; nothing compares with NULL.
in_window(t) ==
  LET before == cfg.incident_window_before_minutes.n
      after == cfg.incident_window_after_minutes.n
  IN NaN \notin {before, after} /\ boot - before <= t /\ t <= boot + after

\* A window without a float, or a known maximum that is compared with a threshold
\* that is not a number.
diagnosis_raises ==
  \/ Overflows(cfg.incident_window_before_minutes) \/ Overflows(cfg.incident_window_after_minutes)
  \/ /\ ~Number(cfg.cpu_warning_percent)
     /\ \E r \in rows : r.table = "metrics_cpu" /\ in_window(r.timestamp)

\* The retention enters the analysis only without a previous session, which is not
\* followed here: then it raises too if it has no float.
AnalysisRaises ==
  /\ agent = "analyse"
  /\ diagnosis_raises \/ Overflows(cfg.retention_hours)
  /\ agent' = "failed" /\ cfg' = None
  /\ Leave(Service)
  /\ UNCHANGED <<retention, machine, starts, opens, heartbeat, left>>

last_metric_timestamp ==
  LET seen == {t \in {r.timestamp : r \in {q \in rows : q.table = "metrics_cpu"}}
                     \cup ({heartbeat} \ {NoValue}) : t < boot}
  IN IF seen = {} THEN NoValue ELSE CHOOSE t \in seen : \A u \in seen : u <= t

\* History: the rows in the configured window, as far as the margins reach.
Evidence ==
  {r \in rows : /\ in_window(r.timestamp)
                /\ boot - BeforeMargin <= r.timestamp /\ r.timestamp <= boot + AfterMargin}

\* startup_analysis(): an incident is stored once for a boot, if at all.
StartupAnalysis ==
  /\ agent = "analyse"
  /\ ~diagnosis_raises
  /\ \/ UNCHANGED incidents
     \/ /\ \A i \in DOMAIN incidents : incidents[i].reboot_timestamp # boot
        /\ incidents' = Append(incidents,
             [ last_metric_timestamp |-> last_metric_timestamp, reboot_timestamp |-> boot,
               evidence |-> Evidence ])
  /\ agent' = "running" /\ left' = {}
  /\ UNCHANGED <<migration, rows, pass, faults, blind, machine, starts, opens, cfg, heartbeat>>

CollectHigh ==
  /\ Working
  /\ Insert({Row("metrics_cpu")})
  /\ heartbeat' = clock
  /\ UNCHANGED <<migration, incidents, pass, faults, blind, machine, starts, opens, agent, cfg, left>>

CollectLow ==
  /\ Working
  /\ Insert({Row("metrics_gpu")})
  /\ UNCHANGED <<migration, incidents, pass, faults, blind, machine, starts, opens, agent, cfg,
                 heartbeat, left>>

\* The end of collect_low(), when the last pass is some minutes ago.  A retention
\* without a float raises before anything is done, and that is swallowed.
CollectLowPrunes ==
  /\ Working
  /\ ~Overflows(cfg.retention_hours)
  /\ BeginPrune(clock, cfg.retention_hours.n)
  /\ UNCHANGED <<migration, rows, incidents, machine, starts, opens, agent, cfg, heartbeat, left>>

Prunes ==
  /\ agent = "running"
  /\ PruneTable
  /\ UNCHANGED <<migration, machine, starts, opens, agent, cfg, heartbeat, left>>

\* A stop, a kill, or an exception of connect(): the process ends.
Stop ==
  /\ ~Down
  /\ agent' = "off" /\ cfg' = None /\ pass' = NoValue
  /\ Leave(Service)
  /\ UNCHANGED <<rows, incidents, faults, blind, machine, starts, opens, heartbeat, left>>
-------------------------------------------------------------------------------
(* The CLI and the machine.                                                *)

\* A command that finds the version changes nothing, and is not followed.
OpenDb ==
  /\ on
  /\ \/ opens < MaxOpens /\ ~current /\ Connect(Cli) /\ opens' = opens + 1
     \/ (Migrate(Cli) \/ Leave(Cli)) /\ UNCHANGED opens
  /\ UNCHANGED <<retention, machine, starts, agent, cfg, heartbeat, left>>

\* A command is shorter than a tick.
Tick ==
  /\ clock < MaxClock
  /\ opening[Cli].at = "closed"
  /\ clock' = clock + 1
  /\ UNCHANGED <<migration, retention, on, boot, boots, starts, opens, agent, cfg, heartbeat, left>>

PowerOff ==
  /\ on
  /\ on' = FALSE /\ agent' = "off" /\ cfg' = None /\ pass' = NoValue
  /\ opening' = [p \in Openers |-> Step("closed", 0)] /\ holder' = None
  /\ left' = rows
  /\ UNCHANGED <<schema, versions, rows, incidents, faults, blind, clock, boot, boots, starts,
                 opens, heartbeat>>

\* Booting takes a while.
PowerOn ==
  /\ ~on /\ boots < MaxBoots
  /\ \A r \in rows : r.timestamp < clock
  /\ heartbeat # NoValue => heartbeat < clock
  /\ on' = TRUE /\ boot' = clock /\ boots' = boots + 1
  /\ UNCHANGED <<migration, retention, clock, starts, opens, agent, cfg, heartbeat, left>>

Next == \/ Start \/ Initialize \/ AnalysisRaises \/ StartupAnalysis
        \/ CollectHigh \/ CollectLow \/ CollectLowPrunes \/ Prunes \/ Stop
        \/ OpenDb \/ Tick \/ PowerOff \/ PowerOn

Spec == Init /\ [][Next]_vars

\* The worker takes its steps; time passes, so that a pass becomes due.
Fairness == SF_vars(CollectLowPrunes) /\ WF_vars(Prunes)
FairSpec == Spec /\ Fairness
-------------------------------------------------------------------------------
(* Properties.                                                             *)

\* The variables have their types, those of the migrations included; a pass has
\* a table, and only a running service has a pass.
TypeOK ==
  /\ MigrationsTypeOK
  /\ rows \subseteq [table: {Tables[k] : k \in 1..Len(Tables)}, timestamp: 0..clock]
  /\ pass # NoValue => pass.table \in 1..Len(Tables) /\ agent = "running"
  /\ agent \in {"off", "failed", "connect", "analyse", "running"}
  /\ ~Down => on /\ DOMAIN cfg = Keys
  /\ agent \in {"analyse", "running"} => opening[Service].at = "open"
  /\ heartbeat \in 0..clock \cup {NoValue}

Listed == {incidents[i] : i \in {j \in DOMAIN incidents : j + Limit > Len(incidents)}}

\* TROUBLESHOOTING.md: "the incident window is preserved".  What a session leaves
\* behind is still there when the next boot is analysed, however long the machine was off
\* and however often the service failed to start; and the rows in the configured
\* window of a listed incident that the fixed margins reach are kept for good, whatever
\* retention and windows are configured later, unless a listing failed or nothing was
\* known before the boot.  config.yaml:15 promises it of the whole configured window
\* and without these exceptions; a wider window is not kept beyond the margins.
EvidenceKept ==
  /\ left \subseteq rows
  /\ ~blind => \A i \in Listed : i.last_metric_timestamp # NoValue => i.evidence \subseteq rows

expired(r) == cfg.retention_hours.n # NaN /\ r.timestamp < clock - cfg.retention_hours.n

\* A pass deletes a row only if it is older than the retention, at the time of the
\* deletion and not only when the pass began, and only if it lies in none of the
\* stretches from the silence before an incident to its reboot, unless a listing failed.
PrunesOnlyExpired ==
  [][\A r \in rows \ rows' :
       /\ expired(r)
       /\ ~blind => \A i \in Listed : i.last_metric_timestamp # NoValue =>
            r.timestamp \notin i.last_metric_timestamp..i.reboot_timestamp]_vars

\* retention.py: metrics are pruned "to keep the database bounded".  While the
\* service keeps running, every expired row outside the stretches that incidents
\* protect goes in the end, in every table, failing statements notwithstanding.
ExpiredRowsGo ==
  LET kept(r) == \/ ~expired(r)
                 \/ \E i \in Listed :
                      /\ i.last_metric_timestamp # NoValue
                      /\ r.timestamp >= i.last_metric_timestamp - BeforeMargin
                      /\ r.timestamp <= i.reboot_timestamp + AfterMargin
  IN <>[](agent = "running") => <>[](cfg # None => \A r \in rows : kept(r))

\* config.py: "so a bad config can never prevent the service from starting".
BadConfigNeverStops == agent # "failed"
==============================================================================
