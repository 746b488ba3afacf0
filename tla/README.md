# Verification of the PC Diagnostic Agent

TLA+ models, TLC runs and TLAPS proofs for the Windows service in `src/`: an
agent that samples a machine's health, tails its System event log, notices
after a reboot how the previous session ended and stores an incident when it
ended badly. Paths below are relative to `src/`.

## Inventory: the system and its parts

| Part | State it keeps | Operations | Correct when |
|---|---|---|---|
| Event analysis, `diagnostics/event_analyzer.py` | none | `event_id`, `classify_event`, `summarize` | signed ids and provider families map to one category |
| Diagnosis rules, `crash_detector.py`, `hang_detector.py`, `diagnosis.py` | none | `detect_crash`, `infer_termination`, `_build_findings`, `_incident_type`, `_incident_confidence` | type, confidence and findings tell one story; findings use the configured window only |
| Boot detection, `boot_detector.py` and `lifecycle.startup_analysis` | tables `sessions`, `incidents`, `events` | three commits of `detect_boot`, `collect`, `run_diagnosis` | one finalised session per boot, one incident per bad ending, none for a good one, whatever is killed in between |
| Event log collector, `collectors/windows_events.py` | cursor (record id, timestamp) in `agent_state` | backwards read, insert, two cursor writes | each record stored once; none lost |
| Scheduler, `agent/scheduler.py` | last high/low cycle, last retention | `collect_high`, `collect_low`, `loop` | heartbeat advances while the worker lives |
| Lifecycle and watchdog, `agent/lifecycle.py`, `watchdog/` | worker thread, shared stop event, restart count | `_start_worker`, `_restart_worker`, `run`, `_check` | one worker; a dead worker comes back; a stop ends the process |
| Storage, `storage/database.py` | SQLite connection, tables | one short transaction per write, under a lock | a commit is all or nothing |
| Retention, `storage/retention.py` | none | `prune_metrics` | evidence around incidents survives |
| Migrations, `storage/migrations.py` | `schema_version` | `_apply_migrations` | a recorded version implies its tables |
| Configuration, `agent/config.py` | none | `from_dict`, `validated` | a bad file never prevents the start |
| Simulation, `simulation/` | its own database | four scenarios | expected outcome for each |
| Collectors, reports, command line, `common/` | none of interest | read the system, print | pure input and output |

**How they interact.** `main.run_agent` loads the configuration, connects the
database (which applies migrations), runs `startup_analysis` on the main thread
and then `run`. `run` starts the scheduler's worker thread and the watchdog
thread; both share the database under its lock, and the worker's stop event
with the main thread. The worker writes metrics and the heartbeat, the watchdog
reads the heartbeat and calls back `_restart_worker`. The event collector is
called twice, once by `startup_analysis` and then by the worker. Sessions are
only written by `detect_boot`, incidents only by `run_diagnosis`. Windows
interacts through the event log and the boot time.

**What is hard here.** The machine may die at any point, so the process is killed
between any two commits; what happened is written by Windows only after the next boot,
partly after the agent has started; a service restart repeats the analysis of the same
boot; the boot time is computed from a clock that drifts, or cannot be read at all; the
collector's insert and its cursor are three commits; a stuck worker and its replacement
share a stop event.

## Modules

| Module | Models | Built on |
|---|---|---|
| `EventAnalyzer` | event rows and their categories, `summarize` | |
| `Diagnosis` | crash signals, termination inference, findings, type, confidence, evidence | `EventAnalyzer` |
| `DiagnosisRules` | `run_diagnosis` as one step over arbitrary inputs | `Diagnosis` |
| `BootSession` | the machine, Windows' log, `detect_boot`, `collect`, `run_diagnosis`, the scheduler's writes, stops and kills | `Diagnosis` |
| `DiagnosisRules_proofs` | the four properties of the rules, for every input | `DiagnosisRules` |
| `BootSession_proofs` | the session chain; sessions, incidents and crashes under bounds on the drift | `BootSession` |
| `EventStore` | what the collector promises: the table is a tail of the log without a gap | |
| `EventTail` | the log with appends and clears, the cursor, `collect` and `_read_new` call by call | `EventStore` |
| `EventTail_proofs` | types, the refinement of `EventStore`; cursor, copies and losses of one collector | `EventTail` |
| `Supervisor` | `Agent.run`, the watchdog, `_restart_worker`, the scheduler's workers and their heartbeat | |
| `Supervisor_proofs` | type correctness and the three safety properties of `Supervisor` | `Supervisor` |
| `Config` | YAML values and what `from_dict`, `validated` and `load_config` make of them | |
| `Simulation` | `simulate-incident`: the scenarios, `run_simulation` step by step, the report's wording | `Diagnosis`, `Config` |
| `Simulation_proofs` | configuration and scenarios, for every set of files | `Simulation` |
| `Migrations` | `connect` and `_apply_migrations` for several processes | |
| `Migrations_proofs` | the schema is complete for whoever works on it | `Migrations` |
| `Retention` | `prune_metrics` table by table | |
| `Service` | `run_agent` over the database's life: load, migrate, analyse, collect, prune; crashes, restarts, the CLI | `Migrations`, `Retention`, `Config` |
| `Service_proofs` | types, schema, the evidence survives, pruning is safe | `Service`, `Migrations_proofs` |
| `Extremes` | bounded sets of naturals have a largest element | |
| `MCDiagnosisRules`, `MCBootSession`, `MCEventTail`, `MCSupervisor`, `MCSimulation`, `MCService` | instances for TLC | |

### EventAnalyzer, Diagnosis, DiagnosisRules

A provider string is the set of families whose needles it contains. An event id
is an integer, possibly negative (the classic API's high bit), reduced modulo
2^16 as `& 0xFFFF` does. `classify_event` keeps the order of the tests in the
code. The four exclusive flags of `TerminationInference` are one `mode`; texts
are left out, an evidence line is its name. `build_findings` is the candidates in
the order in which the stable sort by severity leaves them: only the severity of a
hardware error depends on the evidence, all others are fixed, so that the sort is
written out. `finding_if` is the sequence of a finding that has its evidence, or
the empty one.

`DiagnosisRules` has two variables, the input and the result; its only action is
the whole of `run_diagnosis` without the insert, which is in `BootSession`.

### BootSession

The machine has a wall clock, an operating system that is up, stopping or down, a
sequence of `runs` (boot time and how it ended) and the event `log`. A user asks for a
shutdown (1074), which completes (6006) or not; `Halt` ends a run by a freeze, a power
loss or a blue screen. `PowerOn` writes Kernel-Power 41 or 6008 at the boot, stamped
with it; BugCheck 1001 is `pending` and is written up to `BugcheckDelay` after the boot,
so the agent may already have looked. All of this is external to `src/`, modelled from
the events the code asks for and the builders in `tests/mocks.py`.

The agent's `pc` walks through `startup_analysis`:

    off -> finalise -> create -> link -> collect -> diagnose -> running
                 (no session yet: create, collect)
                 (same boot: collect)

Each of `FinalisePrevious`, `CreateSession`, `LinkPrevious`, `RunDiagnosis` is one
commit. `StopAgent` and the end of a run return the agent to `off` from any step, and
lose its memory (`boot`) but not the tables. `boot` is the `boot_result` dictionary. The
`events` table is a prefix of the log (`tailed`): the summaries the code takes of it
only ask whether an event of a category exists, so that a record stored twice would make
no difference here. That the table is such a prefix is what `EventStore` promises and
`EventTail` is shown to keep while the log is readable. Not in the model: `session_id`
columns of metrics and events (never read by the analysis), the three flag columns
beside the verdict (only reported), reports, retention (days, where the model has
minutes).

`psutil.boot_time()` is computed from the clock. `MeasuredBootTimes` lets it be off by
`MaxDrift` either way at each start, so that two readings differ by up to twice
that. If `BootTimeReadable` is false it may also raise, and `detect_boot` takes the
time of its start instead. The first boot is late enough for a reading before it, and
`MinOffTime` is the least time between the end of a run and the next boot.

`runs`, the field `run` of sessions, incidents and log records, and `analysed`
are history that only properties use.

### EventTail

`written` is every record Windows ever wrote, `first` the position of the oldest
one the log still has. A record is its position in `written`; its `number` is
the record id, which restarts at 1 after a clear, and its `timestamp` has the
resolution of a second, may repeat, and may go back by `MaxSetback` (the clock
is set, daylight saving ends). `copies` counts the rows each record has in the
table `events`, which has no uniqueness constraint. `cursor_id` and `cursor_ts`
are the two rows of `agent_state`.

`pass` holds, for each thread that may be inside `collect()`, the step it is at
and its locals: the cursor it loaded and the range `low..high` it has taken.

    idle -> load -> open -> read (batches) -> insert -> set_id -> set_ts -> idle

`LoadId` and `LoadTs` are the two reads of the cursor; `OpenLog` fixes the newest
record; `ReadBatch` takes the records of one `ReadEventLog` call down to the
first `processed` one; `EndOfLog`, `CapReached` and `ReadError` are the other ends
of the loop, and a pass that took nothing returns without a commit. `Insert`,
`SetId` and `SetTs` are the three commits. `Abort` is a kill of the process or an
exception that `run_isolated` swallows. A log that cannot be opened is a
`ReadError` with nothing taken. There is more than one collector when a worker
that the watchdog gave up on comes back beside its replacement.

Left out: message texts, the overwriting of the oldest records by a full log
(it only removes records below the ones being read), and the fallback id of a
record without a number. `faults` and `skipped` (records that a failed or capped
pass passed over) are history for the bounds and the properties.

### Supervisor

Three kinds of threads: `main` (where `Agent.run` is), `watchdog` (its loop,
`_check` and the callback `_restart_worker`) and `workers`, the scheduler threads,
numbered in the order they start. `worker` is `Agent._worker`, which lags behind
`started` between `Thread.start` and the assignment.

    main      start -> start_watchdog -> loop -> stop_worker -> stop_watchdog
                    -> join (watchdog, then worker) -> close -> closed
    watchdog  top -> read -> decide -> set -> join -> clear -> spawn -> assign -> top
    a worker  top -> high -> low -> top, or dead

The steps are cut wherever another thread may come between: the heartbeat is read
in one and judged in the next; the shared stop event is set, waited on and
cleared in three. A method of `Database` runs under its lock and is one step, so
that `close` never cuts a transaction; after `closed` a cycle fails and changes
nothing. `CollectHigh` writes the `now` from before the collectors ran.

Time is kept as ages that `Tick` advances up to the last value the code
distinguishes, so the state space is finite without a bound on time. Steps take
any time. That covers hanging collectors, the collection intervals, the one
second waits and the check interval, which are all delays; a worker may `Die` at
any step. `given_up` is history: the threads on which a `join` timed out.

Left out: the failure counters in `agent_state` and the heartbeat file, which
nothing reads back; an interrupt from the console, which leaves the loop like a stop;
clock changes; and a system call that hangs while the database lock is held.

### Config

A YAML value is its Python type and a number: itself, or the one that a string
spells. `from_dict` takes the values of a file over the defaults, with the two
different treatments of null; `acceptable` is what `validated` leaves as it is,
for each key, a NaN included, of which no comparison is true. A bool is an `int`, as
in Python, so `retention_hours: true` is one hour.

Numbers are whole. A float may also be NaN. Up to `Exact` every number is a float,
beyond it every 32nd, so that adding 10 may do nothing (between doubles the distance
is 2 from 2^53 on, and doubles again and again); `.inf` has the value `Infinity`, and
an `int` that large has no float: `float()` of it, and arithmetic with floats, raises
an `OverflowError`. `to_float`, `rounded`, `Overflows` model Python's floats and are
external. Fractions are left out: the checks compare with whole limits, and a number
between two of them goes the way of its neighbours.

A file is missing, unreadable (or not YAML; both are caught), not UTF-8, or has a
scalar that PyYAML cannot construct, under any key (a date that does not exist, an
int of thousands of digits), or holds data. `load_raises` is what `load_config` does
not catch: the two `ValueError`s, and a temperature that `float()` refuses.

### Simulation

    load -> remove -> connect -> session -> events -> snapshots -> heartbeats
         -> detect -> diagnose -> report -> done

The scenarios are those of `scenarios.py`: the events with their times and families, the
samples with CPU, memory and temperature, the heartbeats. Times are seconds after `T0`.
`RunDiagnosis` uses the operators of `Diagnosis`, the same ones `BootSession` uses, on
the rows in the database; `Load` those of `Config`. The command may be killed at any
step. It may fail with an `OSError` where it touches files, which the command line
catches, or with a `sqlite3` error anywhere from `connect` on, which it does not; a
diagnosis raises on a window without a float or on a threshold that is text
(`DiagnosisRaises`), the timeline of the report on a window without a float in seconds
(`timeline_raises`). Then the command is run again, with another scenario or file, over
what is left. The incident check `_incident_exists` looks for the same boot time, and a
scenario's boot time never changes, so a leftover database would hide the next incident:
that is what `OnlyOwnRows` and `ExpectedOutcome` are about.

`inference_text` is what the fixed sentences of `_inference_text` and
`_inference_summary` claim of each type of incident: its confidence, the gap, the two
thresholds that they name, the verdict on the shutdown, and which of the events
6006/1074, 41, 6008 and 1001 there were. `WordingIsTrue` compares all of it with the
incident and the records; of the thresholds, which are fixed in the text and configured
in the rules, it says that they agree at the default interval only.

The two properties about outcomes suppose an interval of 30 s or more, that of the
samples. With `collection_interval_seconds: 10` the power-loss scenario, whose last
sample is 30 s before the boot, becomes a HARD_HANG of MEDIUM confidence, which
the text explains as HIGH with a gap of at least 150 s.

### Migrations, Retention and Service

`Migrations` keeps the tables that exist (`schema`), the rows of `schema_version`,
and the process that holds an uncommitted INSERT. Python's `sqlite3` opens a
transaction before an INSERT only, so every CREATE is visible at once and the
version at the end. `Leave` is a close, a kill, or a "database is locked".

`Retention` keeps the metric rows, the incidents and the locals of a pass. The
pass reads the clock and the incidents, then prunes one table after the other;
COUNT and DELETE are one step, since nobody else deletes. A failing listing or
DELETE is swallowed as in the code.

A retention that is NaN gives a cutoff that SQLite stores as NULL, with which no
timestamp compares, so that the pass deletes nothing; `in_window` does the same for
NaN windows.

`Service` puts them in the order of `run_agent`:

    off -> connect (migrations) -> analyse -> running, with or without a pass
           failed (load or analysis raised)

A tick is an hour and a minute of the configuration at once: what matters is
only which of the retention, the configured window and the fixed margins is
longer. Whether an analysis stores an incident is left open (that is
`BootSession`'s question), the incident's `last_metric_timestamp` is not: it is
the latest activity before the boot that is still in the database. `left` and the
field `evidence` of an incident are history: the rows at the end of the previous
session, and those in the configured window when the incident was stored, as far
as the margins reach. `Stop` also stands for the graceful stop, whose threads are
`Supervisor`'s. An analysis raises on windows without a
float and on a text threshold with a sample to compare (`diagnosis_raises`); the
retention enters it only without a previous session, so that one without a float may
raise or not. Left out: a second pass by a worker that was given up, which
deletes what the first one would; the failing collectors of `BootSession`.

What `EvidenceKept` does not promise, because the code does not do it:

- the configured incident window is preserved only within 60 minutes before the
  last activity and 10 minutes after the boot, whatever
  `incident_window_before_minutes` and `_after_minutes` say (`retention.py:34`), although
  `config.yaml` calls it the window "preserved around a detected incident";
- if `list_incidents` fails once, that pass protects nothing (`retention.py:37`):
  `blind` remembers it;
- an incident without any activity before its boot protects nothing.

## Runs

| Run | Question | Result |
|---|---|---|
| `DiagnosisRules` | Do type, confidence and findings agree; does a longer silence never weaken the verdict; do findings about hardware, disk and GPU, and their severity, have rows in the window; what overrules a clean verdict? | holds |
| `BootSession` | With three boots, every ending and kills between commits: is the chain of sessions finalised, is there one incident per boot, does it blame the last session, is no crash missed whose evidence was at hand? | holds |
| `BootDrift` | With boot times that are off either way, or cannot be read: when does a boot get a second session or incident? | holds |
| `EventTail` | With two overlapping passes, one of them cut short, and timestamps that go back: is the table always a tail of the log without a gap (`EventStore`), and does it catch up? | holds |
| `EventLogFaults` | With a clear, failing reads and rows, the cap and two passes cut short: is every loss explained, is a record stored at most once per attempt, does the cursor only advance? | holds |
| `Supervisor` | With workers that hang or die anywhere, restarts that fail, and a stop at any time: does only the newest worker run, is the stop clean, does the heartbeat advance, does a stop end and a dead worker come back? | holds |
| `CleanRestart` | Is there no incident after a clean shutdown? | violated |
| `ServiceRestart` | Does a service restart add no incident to a boot found clean? | violated |
| `Simulation` | For each scenario and 48 states of `config.yaml`, over two runs with kills: the outcomes the README promises, true wording, a fresh database, what a loaded configuration guarantees, good values kept, and only explained failures? | holds |
| `Service` | With two boots, two starts, five configurations, a CLI command, a failing statement: is the schema complete, does the evidence survive, are only expired rows deleted, and do they go in the end? | holds |
| `BadConfig` | Can no configuration keep the service from starting? | violated |
| `CrashedScheduler` | Is a crashed worker replaced, also before the first heartbeat? | violated |

**Bounds.** `MaxClock`, `MaxBoots`, `MaxStarts`, `MaxSamples` are in the guards.
Three boots are what it takes for a crash, its evidence at the second boot, and
a third boot whose window contains that evidence; four starts give one of the
boots a service restart. One tick is 60 s in runs without drift (tolerance 1,
margin 2, the 5 s of the incident check 0). `BootDrift` asks whether the bounds of
the theorems below are enough, so its tolerances are not the code's but the least
ones that a drift of one tick allows: two readings differ by two ticks, the boot
tolerance is 3, that of the incident check 2, boots are 5 ticks apart, runs 2, the
margin is 1. Two boots with a service restart in one of them fit into 8 ticks, and any
start may fail to read the boot time. There BugCheck 1001 comes with the boot;
in `BootSession` it may come a tick later, when the agent has looked. `BootSession`
takes one metric sample, with or without a heartbeat, the other runs none, since samples
only influence the type of an incident. `IncidentBlamesLastSession` and `NoMissedCrash`
are checked without a drift, and proved with one.
Deadlock is not checked in these runs because the bounds stop the models.

`EventTail` writes three records with two timestamps, so that two share a second
and one may go back, and reads them in batches of at most two: a pass may stop
inside a batch, between two, or at the end of the log. Two collectors with one
abort give every overlap in which the stale pass is the older or the younger
one, or does not finish. `EventLogFaults` has one collector, four records, a cap
of two, and one clear, one failing read, one insert with failing rows and two
aborts, in any order: the clear may fall between two batches of a pass that an
abort repeats. Collectors never stop, so deadlock is checked.

`Supervisor` allows two restarts, so three workers: one given up, its replacement
and the next. A heartbeat is stale after two ticks, the back-off and the
watchdog's join take two, the joins of `run` one, so that every timeout may
elapse before, with or after another. The heartbeat may initially be missing,
fresh or, as after a reboot, stale.

`Simulation` takes files that are good or bad in one or two keys, around every
limit, NaN, infinite, inexact and huge numbers among them, and two runs: the second
one meets every state the first can leave. `Exact` is 1024 and `Infinity` 1000000,
beyond every limit that the code knows.

`Service` has two tables and at most three rows, one per table and tick, the two
sessions and three ticks after the first boot: a row, a crash, an incident and a pass in
which the row has expired (retention 1 or 2). One incident is listed (`Limit` 1), and
both boots may have one, so that the first drops out. The margins are 1 and 0, the
windows 1 or 2 before and 0 or 1 after; of two more configurations one has a retention
that is NaN, the other no float and a NaN window. The CLI migrates once, as long as
there is a version to write, and within a tick. The proofs have none of these bounds.

**Fairness.** The safety runs need none. `EventTail` checks `CatchesUp` under weak
fairness of each collector's own steps: `collect_low` calls the collector at every
interval, no step of a pass waits for another thread beyond the database lock,
and threads are not starved. Nothing is assumed of Windows, aborts or errors; that
they end is due to their bounds, so `CatchesUp` is `<>[]`. `Supervisor` assumes weak
fairness of `Tick`, of the main thread and of the watchdog, none of which waits
without a timeout. It assumes nothing of the workers: `StopEnds` and
`DeadWorkerReplaced` hold although they hang. `Service` checks `ExpiredRowsGo` under
weak fairness of the steps of a pass, which the worker takes one after the other,
and strong fairness of beginning one: a pass is due when the last one is
`max(300, low_frequency_interval_seconds)` ago, so a worker that goes on with its
cycles begins one again and again. Nothing is assumed of the machine, the user,
starts and stops; the property asks for a service that stays.

### What the violations show

- `CleanRestart`. A crash, a boot (Kernel-Power 41 stamped at the boot), a clean
  shutdown whose 1074 was not polled, a boot. `detect_boot` runs before the
  events are collected and does not see the shutdown; its window starts at the
  previous boot and does see the old Kernel-Power 41. The README's "CLEAN /
  NORMAL RESTART — no incident" (`README.md:85`) fails.
- `ServiceRestart`. The verdict of a transition is stored in the row of the
  session that ended (`boot_detector.py:80`); a service restart reads it from
  the reused row (line 52), where it is NULL until the next boot. A boot
  correctly found clean gets an incident when the service restarts.
- `CrashedScheduler`. `_check` returns when there is no heartbeat yet. On a fresh
  database a worker that dies before its first heartbeat is never replaced,
  although the watchdog "can recover a crashed scheduler thread" (`README.md:383`).
  With a heartbeat in the table, `DeadWorkerReplaced` holds.
- `BadConfig`. `cpu_warning_percent: "90"` passes `validated`, which does not look
  at thresholds. The service starts on a fresh database, where there is no
  maximum to compare; at the next start in that boot, or after a reboot, the
  comparison of a sample with a text raises a `TypeError` that nothing catches.
  `config.py:4` promises that "a bad config can never prevent the service from
  starting". `FailureIsExplained` lists everything that may stop the simulation, which
  loads and diagnoses as the service does: the load stops at a file that is not
  UTF-8, at a scalar that PyYAML cannot construct and at a temperature that `float()`
  refuses (null, a list, a text, an int that is too large); the diagnosis at a window
  without a float and at a text threshold; the report at a window without a float in
  seconds.

More disagreements are known that no run violates, because a property says where
they begin:

- If `psutil.boot_time()` raises, the time of the start stands for the boot time
  (`boot_detector.py:24`). A service restart a minute later is then a new boot, and the
  session of this boot is finalised by it, although line 43 promises no "duplicate
  session". `OneSessionPerBoot` and `OneIncidentPerBoot` say that a second row takes
  such a start; without that part both fail in `BootDrift`.
- `validated` replaces what it finds wrong, and a NaN is never found wrong:
  `retention_hours: .nan` is loaded and nothing is pruned any more; with NaN windows no
  event or sample is found; NaN temperatures are not put in order. At infinity, or where
  floats are 32 apart, the warning plus 10 is the warning. `config.yaml:2` says that
  "invalid values fall back to safe defaults"; `LoadedIsSafe` says what does hold.
- With an interval of 60 s the rules ask for a silence of 300 s for a hang and 120 s for
  a power loss (`hang_detector.py:65`); the text goes on saying 150 s and 60 s
  (`runner.py:192`, `198`). `WordingIsTrue` says that they agree at 30 s only.
- Two readings of a boot time less than 60 s apart are one boot to `detect_boot`, but two
  incidents to `_incident_exists` if more than 5 s apart: the hypothesis of `OneIncident`.
- A pass of the collector cut short between its commits reads the same records again,
  which `StoredOncePerAttempt` bounds.

`_last_metric_timestamp` is not limited to the previous session; no property is about it.

## Proofs

`DiagnosisRules_proofs` proves the four properties of the rules for any finite sets
of event rows (any integers as ids, any families, any times), any interval,
warning threshold, readings and times of the last activity:

- `TypeCorrect`, `OneStory` (`TypeMatchesFindings`), `SilenceStrengthens`
  (`LongerSilenceIsStronger`), `WindowOnly` (`FindingsScopedToWindow`), `BugcheckOnly`
  (`OnlyBugcheckOverrulesClean`).

`WindowOnly` is about the findings that events give rise to: one about hardware has
one or two WHEA rows of the configured window at MEDIUM severity and three or more at
HIGH, one about the disk or the GPU has a row of its category; rows of the boot
transition outside the window do not count. The findings about memory, CPU and
temperature follow from the readings and are not part of it. No property would notice
a missing `& 0xFFFF` of an event id, since `classify_event` is on both sides of those
about evidence.

The inductive invariant is only that the result is the diagnosis of the input. The
work is in the lemmas: a count of `summarize` is positive exactly if a row of its
category is there (which needs the sets to be finite: `RulesAssumption`), which
findings the sorted sequence contains, and that the verdict of
`infer_termination` is monotone in the gap. `ResultsAssumption` says that `None` is
no incident and no result.

`BootSession_proofs` proves, for every value of the constants:

- `TypeCorrect`: `Spec => []TypeOK`;
- `SessionsChained`: `Spec => []SessionChain`, the crash safety of
  `detect_boot`: every session but the latest has its verdict, its uptime ends
  at its successor's boot, and the successor links back to it or to nothing.

`SessionChain` is not inductive: that a row may be appended depends on the row
before it having been finalised in the previous step. `StepInv` states, for
each value of `pc`, how the agent's memory relates to the table (at `create`
the latest row has its verdict and the uptime that ends at the boot about to be
inserted; at `link` the agent remembers the boot time of the row before last).
`ActivityInv` (no sample lies ahead of the clock, so the samples before any
time have a latest one) types the `CHOOSE` in `last_metric_timestamp`. The
lemmas `FinalisedRow`, `CreatedRow` and `LinkedRow` say what each commit does to
the table; the rest is one step per action. The assumptions are those of the
modules: the constants are naturals, the boot tolerance is positive, `None` is
not an integer.

The other properties depend on how good the measured boot time is. Each theorem
assumes the part of this that it needs, in terms of the code's tolerances (60 s in
`detect_boot`, 5 s in `_incident_exists`). Two readings differ by up to `2 * MaxDrift`.

| Theorem | States | Assumes |
|---|---|---|
| `OneSession` | `OneSessionPerBoot` | `2 * MaxDrift < BootTolerance` |
| `OneIncident` | `OneIncidentPerBoot` | `2 * MaxDrift <= IncidentTolerance` |
| `BlamesTheLast` | `IncidentBlamesLastSession` | both, `BootTimeReadable`, `MinBootGap >= BootTolerance + 2 * MaxDrift` |
| `CrashesAreFound` | `NoMissedCrash` | also `MinBootGap > IncidentTolerance + 2 * MaxDrift`, `MaxDrift < MinOffTime`, `MaxDrift <= BootMargin`, `MaxDrift <= RetentionPeriod` |

So a boot has one session while its readings differ by less than a minute, and one
incident while they differ by at most five seconds (beyond that `incident_exists` does
not recognise its own incident), unless it could not be read. The gap says that two
boots are never taken for one. The last line puts the boot on the right side of what it
is compared with: no reading of it lies before the end of the run before, none is so
early that the margin does not reach the boot, and a search without a previous boot
still reaches back to it. The constants of the run `BootSession` satisfy all of them,
without a drift; those of `BootDrift` the first two, with a drift of one tick and
nothing to spare.

`RowsInv` and `IncidentRuns` are what the first two need: a row is only added at a
distance from the row before that two readings of one boot never have, and rows of one
boot stand together. With `BootTimeReadable` the rest of the
invariants go from the machine to the verdict. `RunsInv`: boots follow one
another at their distance. `SessionsInv` and `IncidentsInv`: what a row or the
`boot_result` calls a boot time lies near the boot of its run, and the runs of the
rows ascend. `PreviousInv`: the previous session that `detect_boot` hands on is the
latest row until the session of this run is inserted, the row below afterwards.
For `CrashesAreFound`: `LogInv`, every record carries a time of its own run;
`EvidenceInv`, of the run before the log holds what its end calls for, or a BugCheck
is still pending; `WindowInv`, the window begins before the boot, so it holds that
evidence; `VerdictInv`, until the session of this run exists no record of this run
is collected, so a verdict of `clean` on a crash rests on a shutdown somebody had
asked for in that run; `AnalysedInv` carries the conclusion over later boots.

`EventTail_proofs` proves

- `TypeCorrect`: `Spec => []TypeOK`, for any number of threads, records and faults;
- `NoGap`: under `Reliable` (no clears, failing reads or failing rows, and a cap
  above the number of records), `Spec => StoresPrefix`, the refinement of
  `EventStore`, for any number of overlapping passes, any number of them cut
  short, and timestamps in any order that the setback allows.

That the table is a prefix is not inductive: an insert keeps it only if the pass
continues a stored part. `TailInv` therefore says that every record up to any id
that a cursor has seen, the one in the table or one loaded by a pass, is stored
(`StoredUpTo`), and so is everything below a pass that is about to insert. The
argument in one sentence: a read stops at a record only if its id is at most the
one loaded, whatever its timestamp, and so everything up to there was stored
before; the timestamp can only make a pass read more than it needs. `Reliable`
cannot be dropped: `LossIsExplained` names what is lost without it. The largest
element in `max_id` and `max_ts` exists because bounded sets of naturals have one
(`LargestExists`, from the well-foundedness of the naturals).

With one thread collecting (`Single`), and with any number of clears, failing reads
and rows, capped and aborted passes:

- `NeverBack`: `Spec => CursorAdvances`;
- `OncePerAttempt`: `Spec => []StoredOncePerAttempt`;
- `LossExplained`: `Spec => []LossIsExplained`, if timestamps do not go back
  (`MaxSetback = 0`).

`CursorInv` says that the cursor a pass has loaded is still the one in the table,
but for its own commits: this is what a second collector breaks, whose older pass
may write its cursor last. `OnceInv` says that a pass takes nothing that is behind
the cursor, and that a record stored once more than passes were cut short is behind
it or in the pass that is committing. `LossInv` says that what lies below the records
of a pass was processed before or is given up, that the cursor's timestamp is the
one of a record that is stored or skipped, and that what is behind the cursor is
stored, skipped, or has after a clear the second of an older one that is. A setback
would put new records behind the cursor's timestamp without any of these reasons
where an id has restarted, so it is excluded.

`Supervisor_proofs` proves, for any number of restarts and any timeouts,

- `TypeCorrect`: `Spec => []TypeOK`;
- `NewestWorkerOnly`: `Spec => []OneWorker`;
- `CleanStop`: `Spec => []StopIsClean`;
- `HeartbeatMoves`: `Spec => HeartbeatAdvances`.

`OneWorker` is kept by `Spawn` only because the worker before has ended or was
given up by then (`RestartInv`); that this is the worker `_restart_worker` waits
for is `StartInv` (`Agent._worker` is the newest one outside `assign`), which also
bounds the threads by the restarts counted so far. `StopInv` follows the order of
the joins: once the watchdog is done nothing starts a worker any more, so the
worker that is current then is the last one. `HeartbeatInv` compares ages: the
one worker in its high-frequency cycle began after the time in the table.

`StopIsClean` does not say that a stop leaves no worker behind. When it meets a
restart, `ClearStop` undoes the `StopWorker` of `run`, the new worker is never told
to stop, and the join gives up on it after five seconds: it is in `given_up`, and
the database is closed under it. Its cycles then fail, and the process ends.

`Migrations_proofs` proves `MigrationsSpec => []SchemaComplete` for any statements
and processes. `ProgressInv` says that the statements an opener has behind it have
taken effect; tables are only added, so the last one completes the schema.

`Service_proofs` proves, for any files, margins, limit, retention, boots and starts,

- `EvidenceSurvives`: `Spec => []EvidenceKept`;
- `PruningIsSafe`: `Spec => PrunesOnlyExpired`;
- `ServiceHasSchema`: `Spec => []SchemaComplete`, since every step of the service is
  one of the migrations or a crash that closes everything;
- `ServiceTypeCorrect`: `Spec => []TypeOK`.

That a pass spares the evidence does not follow from its WHERE clause alone. The
windows it holds are those of the listed incidents because incidents are only
stored before the worker starts (`PassInv`); the evidence lies in such a window
because the last activity is before the boot (`Covered`, whose `CHOOSE` needs that
bounded sets have a largest element); and the rows of the crashed session are not
touched before the analysis because only a worker prunes (`MachineInv`).
`LoadedUsable` is the lemma about `Config` that all rest on: whatever the file
holds, retention and windows are integers or NaN, and an integer retention is
positive. `NumbersAssumption` says of the model of floats that `Infinity` is beyond
`Exact` and this beyond the limits of the code; `ServiceAssumption` that files hold
numbers (`Spelled`) and that the two processes and tables exist.

`Simulation_proofs` proves, for every set of files (any numbers, NaN, infinite and
huge ones included), any number of runs of the command, killed or failing anywhere,

- `LoadedSafe`: `LoadedIsSafe`, an allowed interval, at least 30 s between slow
  collections, a retention and windows that are in range or NaN, and temperatures that
  are in order, unless one is NaN or the warning is beyond `Exact`;
- `ValuesKept`: `GoodValuesKept`, an allowed value is used whatever the other keys hold;
- `FailuresExplained`: `FailureIsExplained`, the list of everything that makes a command
  fail, and how far it had got;
- `AsExpected`, `OwnRows` and `TrueWording`: `ExpectedOutcome`, `OnlyOwnRows` and
  `WordingIsTrue`;
- `TypeCorrect`: `Spec => []TypeOK`.

The properties speak of the end of a run. `DatabaseInv` says at each value of `pc`
what the database holds, which from `remove` on does not depend on what was there,
and `OutcomeInv` which incident the diagnosis of each scenario is, as a function of
the interval, whatever number between the limits that is: the only place where it matters
is the power loss, whose type and confidence turn at 30 s. `CfgInv` keeps the loaded
configuration equal to `load_config` of the file, so that the lemmas about `Config`
(`ReadValue`, `LoadedIsTyped`) apply to it; `FailedInv` keeps, once a command has
failed, what made it fail. `NumbersAssumption` is the one of `Service`,
`FilesAssumption` says that there is a run and that files hold typed values,
`NoneIsNoRecord` that `None` is no
configuration, incident or type of one.

Only model-checked: the liveness properties `CatchesUp`, `StopEnds`,
`DeadWorkerReplaced` and `ExpiredRowsGo`, which are out of the prover's reach. The
theorems with hypotheses claim nothing without them; what happens then is in the runs
where it is a question (`EventTail` overlaps two passes) and in the disagreements above
where it is an answer.

## Plan

1. Done: `EventAnalyzer`, `Diagnosis`, `DiagnosisRules`, `BootSession`, proofs
   of types and of the session chain.
2. Done: `EventTail`, `EventStore`, types and refinement proved.
3. Done: `Supervisor`, its types and safety proved.
4. Done: `Config`, `Simulation`, `Migrations`, `Retention` and their composition
   `Service`; schema, evidence and pruning proved.
5. Done: the rules for every input; one session and one incident per boot, the
   blamed session and no missed crash under bounds on the drift; copies, losses and
   the cursor of one collector; configuration and scenarios for every file.
6. Open: how far the theorems about one collector carry over to the overlap of a
   stale pass with its replacement, in particular a bound on the copies by the number
   of passes.

## Not modelled

Metric collectors (`collectors/`, but for the event log), reports and `common/` read
the system or print; they keep no state that the properties depend on, and a
failing collector is an outcome of `CollectHigh`. Of the command line
`simulate-incident` is `Simulation`; the other commands open the database (`Service`)
and print. In configurations fractions are left out, as are `path` arguments and the
search for the file; in the simulation single rows that fail to insert. The lost
suffix of commits that `synchronous=NORMAL` allows after a power loss is, for a boot
that had not read them, the same as a kill some commits earlier, which is modelled.
