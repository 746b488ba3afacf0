----------------------------- MODULE BootSession -----------------------------
(***************************************************************************)
(* Sessions, boots and incidents.                                          *)
(*                                                                         *)
(* A Windows machine boots, works and ends in one of several ways; Windows *)
(* records some of this in its System event log, partly only after the     *)
(* next boot.  The agent may start in every boot, be stopped or killed     *)
(* between any two commits, and start again in the same boot.  At each     *)
(* start it runs Agent.startup_analysis() (agent/lifecycle.py):            *)
(*                                                                         *)
(*   detect_boot()    finalise the previous session, create a new one and  *)
(*                    link it: three commits, so three steps               *)
(*   collect()        copy new event log records into the events table     *)
(*   run_diagnosis()  store an incident when the evidence warrants it      *)
(*                                                                         *)
(* and then the scheduler samples metrics and tails the log.  Timestamps   *)
(* are multiples of one tick of the wall clock.                            *)
(***************************************************************************)
EXTENDS Diagnosis

CONSTANTS
  MaxClock,            \* bound: last tick of the clock
  MaxBoots,            \* bound: how often the machine boots
  MaxStarts,           \* bound: how often the agent starts
  MaxSamples,          \* bound: how many metric samples are taken
  BootTolerance,       \* 60 s: boot times closer than this are the same boot
  BootMargin,          \* 120 s: boot events are looked for until boot + margin
  IncidentTolerance,   \* 5 s: incidents this close are the same incident
  BootTimeReadable,    \* does psutil.boot_time() answer at every start?
  MaxDrift,            \* how far its answer may be off, in ticks
  MinBootGap,          \* least number of ticks between two boots
  MinOffTime,          \* least number of ticks between a run and the next boot
  BugcheckDelay,       \* how long after the boot BugCheck 1001 may be written
  CollectionInterval,  \* collection_interval_seconds
  RetentionPeriod      \* retention_hours

ASSUME BoundsAssumption ==
  /\ MaxClock \in Nat /\ MaxBoots \in Nat
  /\ MaxStarts \in Nat /\ MaxSamples \in Nat

ASSUME TimesAssumption ==
  /\ BootTolerance \in Nat \ {0} /\ BootMargin \in Nat
  /\ IncidentTolerance \in Nat /\ MaxDrift \in Nat /\ MinBootGap \in Nat
  /\ CollectionInterval \in Nat /\ RetentionPeriod \in Nat

ASSUME MachineAssumption ==
  /\ BootTimeReadable \in BOOLEAN
  /\ MinOffTime \in Nat \ {0} /\ BugcheckDelay \in Nat

VARIABLES
  clock,      \* the wall clock
  os,         \* "up", "stopping" (a shutdown was requested) or "down"
  runs,       \* every boot of the machine: when it started, how it ended
  pending,    \* records Windows has yet to write about the previous run
  log,        \* the System event log
  sessions,   \* table sessions, in the order of session_id
  tailed,     \* how much of the log is in table events (the cursor)
  incidents,  \* table incidents, in the order of incident_id
  metrics,    \* timestamps in the metric tables
  heartbeat,  \* the heartbeat row, or None
  pc,         \* what the agent does next; "off" when it does not run
  boot,       \* the boot_result of detect_boot() in this start, or None
  starts,     \* how often the agent has started
  analysed    \* runs whose startup analysis had all the evidence at hand

machine == <<clock, os, runs, pending, log>>
database == <<sessions, tailed, incidents, metrics, heartbeat>>
agent == <<pc, boot, starts, analysed>>
vars == <<machine, database, agent>>
-------------------------------------------------------------------------------
(* What Windows writes (with the identifiers of tests/mocks.py).           *)

Event(provider, id, text) ==
  [provider |-> provider, event_id |-> id, bugcheck |-> text]

user32_1074 == Event({}, 1074, FALSE)
clean_shutdown_6006 == Event({"EventLog"}, 6006, FALSE)
unexpected_shutdown_6008 == Event({"EventLog"}, 6008, FALSE)
kernel_power_41 == Event({"kernel_power"}, 41, FALSE)
bugcheck_1001 == Event({"bugcheck"}, 1001, TRUE)

EventKinds == {user32_1074, clean_shutdown_6006, unexpected_shutdown_6008,
               kernel_power_41, bugcheck_1001}

\* A freeze ended by a forced restart and a power cut leave the same records.
UncleanEnds == {"lost", "bsod"}

\* What the next boot records about the end of the previous run: one record at
\* once, and one some time later (error reporting writes BugCheck 1001 when it gets to it).
RecordedAtBoot(end) ==
  IF end = "lost" THEN {kernel_power_41, unexpected_shutdown_6008}
  ELSE IF end = "bsod" THEN {kernel_power_41} ELSE {}
RecordedLater(end) == IF end = "bsod" THEN {bugcheck_1001} ELSE {}

\* A log record: an event, its time and, for the properties, its run.
Stamped(kind) == [kind |-> kind, timestamp |-> clock, run |-> Len(runs)]

BootTime == runs[Len(runs)].boot
-------------------------------------------------------------------------------
(* Queries of the agent.                                                   *)

\* The session_id of the latest row, 0 when the table is empty.
latest_session == Len(sessions)

events_between(start, end) ==
  {i \in 1..tailed : start <= log[i].timestamp /\ log[i].timestamp <= end}

Row(i) == [ provider |-> log[i].kind.provider, event_id |-> log[i].kind.event_id,
            bugcheck |-> log[i].kind.bugcheck, row |-> i ]

\* Mutant: the margin after the boot is forgotten.
transition_summary_to_boot(start, boot_time) ==
  summarize({Row(i) : i \in events_between(start, boot_time - 1)})
\* What the events table says of the transition to the boot at boot_time.
transition_summary(start, boot_time) ==
  summarize({Row(i) : i \in events_between(start, boot_time + BootMargin)})

\* Latest activity before a time: metric samples, and the heartbeat if older.
last_metric_timestamp(before) ==
  LET seen == {t \in metrics \cup ({heartbeat} \ {None}) : t < before}
  IN IF seen = {} THEN None ELSE CHOOSE t \in seen : \A u \in seen : u <= t

Distance(a, b) == IF a >= b THEN a - b ELSE b - a

\* Mutant: the measured boot times are compared exactly.
same_boot_exact(boot_time) == sessions[latest_session].boot_time = boot_time
same_boot(boot_time) ==
  Distance(sessions[latest_session].boot_time, boot_time) < BootTolerance

\* Mutant: the incident is stored without looking for an earlier one.
incident_exists_never(reboot_timestamp) == FALSE
\* Mutant: only an incident with the very same time is found.
incident_exists_exact(reboot_timestamp) ==
  \E i \in DOMAIN incidents : incidents[i].reboot_timestamp = reboot_timestamp
incident_exists(reboot_timestamp) ==
  \E i \in DOMAIN incidents :
    Distance(incidents[i].reboot_timestamp, reboot_timestamp) <= IncidentTolerance
-------------------------------------------------------------------------------
\* The first boot is late enough for a measured time to lie before it.
FirstBoot == 1 + MaxDrift

Init ==
  /\ clock = FirstBoot /\ os = "up"
  /\ runs = <<[boot |-> FirstBoot, end |-> "running", at |-> None]>>
  /\ pending = {} /\ log = <<>>
  /\ sessions = <<>> /\ tailed = 0 /\ incidents = <<>>
  /\ metrics = {} /\ heartbeat = None
  /\ pc = "off" /\ boot = None /\ starts = 0 /\ analysed = {}
-------------------------------------------------------------------------------
(* The machine and Windows.                                                *)

Tick ==
  /\ clock < MaxClock
  /\ clock' = clock + 1
  /\ UNCHANGED <<os, runs, pending, log, database, agent>>

\* A user or an installer asks for a shutdown or a restart: User32 1074.
RequestShutdown ==
  /\ os = "up"
  /\ os' = "stopping"
  /\ log' = Append(log, Stamped(user32_1074))
  /\ UNCHANGED <<clock, runs, pending, database, agent>>

\* The run ends: the agent is gone, what its next step was is lost.
EndRun(end) ==
  /\ os' = "down"
  /\ runs' = [runs EXCEPT ![Len(runs)].end = end, ![Len(runs)].at = clock]
  /\ pc' = "off" /\ boot' = None
  /\ UNCHANGED <<clock, pending, database, starts, analysed>>

CompleteShutdown ==
  /\ os = "stopping"
  /\ EndRun("clean")
  /\ log' = Append(log, Stamped(clean_shutdown_6006))

Halt ==
  /\ os # "down"
  /\ \E end \in UncleanEnds : EndRun(end)
  /\ UNCHANGED log

\* The next boot; a record still pending about the run before is never written.
PowerOn ==
  /\ os = "down"
  /\ Len(runs) < MaxBoots
  /\ clock >= runs[Len(runs)].at + MinOffTime /\ clock >= BootTime + MinBootGap
  /\ os' = "up"
  /\ runs' = Append(runs, [boot |-> clock, end |-> "running", at |-> None])
  /\ LET end == runs[Len(runs)].end
         At(kind) == [kind |-> kind, timestamp |-> clock, run |-> Len(runs) + 1]
     IN /\ IF RecordedAtBoot(end) = {} THEN log' = log
           ELSE \E kind \in RecordedAtBoot(end) : log' = Append(log, At(kind))
        /\ pending' = RecordedLater(end)
  /\ UNCHANGED <<clock, database, agent>>

\* At the latest BugcheckDelay after the boot, possibly with the agent at work.
RecordBugcheck ==
  /\ os # "down"
  /\ clock <= BootTime + BugcheckDelay
  /\ \E kind \in pending : /\ pending' = pending \ {kind}
                           /\ log' = Append(log, Stamped(kind))
  /\ UNCHANGED <<clock, os, runs, database, agent>>
-------------------------------------------------------------------------------
(* Agent.startup_analysis(): detect_boot, collect, run_diagnosis.          *)

\* What detect_boot() finds out before its first commit.
Started(next, result) ==
  /\ pc' = next
  /\ boot' = result
  /\ starts' = starts + 1
  /\ UNCHANGED <<machine, database, analysed>>

\* psutil.boot_time() is computed from the clock and is off by up to MaxDrift
\* either way; when it raises, the time of this start is taken for it.
MeasuredBootTimes ==
  {t \in 1..clock : Distance(t, BootTime) <= MaxDrift}
    \cup (IF BootTimeReadable THEN {} ELSE {clock})

MayStart == os # "down" /\ pc = "off" /\ starts < MaxStarts

\* No session is stored yet.
StartFirst ==
  /\ MayStart
  /\ latest_session = 0
  /\ \E boot_time \in MeasuredBootTimes :
       Started("create",
               [ boot_time |-> boot_time, previous_boot_time |-> None,
                 previous_session_id |-> None, previous_session_clean |-> None ])

\* A boot that the sessions table does not have.
StartAfterReboot ==
  /\ MayStart
  /\ latest_session > 0
  /\ \E boot_time \in MeasuredBootTimes :
       /\ ~same_boot(boot_time)
       /\ Started("finalise",
                  [ boot_time |-> boot_time,
                    previous_boot_time |-> sessions[latest_session].boot_time,
                    previous_session_id |-> latest_session,
                    previous_session_clean |-> None ])

\* Mutant: the reused session is taken for the previous one.
previous_of_reused == latest_session
\* Mutant: the number below is taken for the session before.
previous_number == latest_session - 1
\* The session before the reused one, if any.
earlier_session == IF latest_session > 1 THEN latest_session - 1 ELSE None

\* The same boot again: the session is reused with its boot metadata.
RestartService ==
  /\ MayStart
  /\ latest_session > 0
  /\ \E boot_time \in MeasuredBootTimes :
       /\ same_boot(boot_time)
       /\ LET prev == sessions[latest_session] IN
          Started("collect",
                  [ boot_time |-> boot_time,
                    previous_boot_time |-> prev.previous_boot_time,
                    previous_session_id |-> earlier_session,
                    previous_session_clean |-> prev.previous_session_clean ])

\* Mutant: without a clean-shutdown record the verdict is left open.
verdict_if_clean(summary) == IF summary.clean_shutdown THEN 1 ELSE None
\* previous_session_clean as it is stored.
verdict(summary) == IF summary.clean_shutdown THEN 1 ELSE 0

\* First commit: the verdict on the previous session, in its own row.
FinalisePrevious ==
  /\ pc = "finalise"
  /\ LET clean == verdict(transition_summary(boot.previous_boot_time, boot.boot_time))
     IN /\ sessions' = [sessions EXCEPT ![boot.previous_session_id] =
             [@ EXCEPT !.previous_session_clean = clean,
                       !.uptime_before_boot = boot.boot_time - boot.previous_boot_time]]
        /\ boot' = [boot EXCEPT !.previous_session_clean = clean]
  /\ pc' = "create"
  /\ UNCHANGED <<machine, tailed, incidents, metrics, heartbeat, starts, analysed>>

\* Second commit: the new session, its own verdict still open.
CreateSession ==
  /\ pc = "create"
  /\ sessions' = Append(sessions,
       [ boot_time |-> boot.boot_time, previous_boot_time |-> None,
         previous_session_clean |-> None, uptime_before_boot |-> None,
         run |-> Len(runs) ])
  /\ pc' = IF boot.previous_boot_time = None THEN "collect" ELSE "link"
  /\ UNCHANGED <<machine, tailed, incidents, metrics, heartbeat, boot, starts, analysed>>

\* Third commit: the link back to the previous boot.
LinkPrevious ==
  /\ pc = "link"
  /\ sessions' = [sessions EXCEPT ![latest_session].previous_boot_time = boot.previous_boot_time]
  /\ pc' = "collect"
  /\ UNCHANGED <<machine, tailed, incidents, metrics, heartbeat, boot, starts, analysed>>

\* The isolated collector copies what is new in the log, or fails and is
\* ignored (run_isolated); EventTail has its reads and commits one by one.
CollectEvents ==
  /\ pc = "collect"
  /\ tailed' \in {tailed, Len(log)}
  /\ pc' = "diagnose"
  /\ UNCHANGED <<machine, sessions, incidents, metrics, heartbeat, boot, starts, analysed>>

\* Everything Windows has to say of the previous run is in table events.
EvidenceAtHand ==
  /\ pending = {}
  /\ \A i \in DOMAIN log :
       i <= tailed \/ log[i].kind \in {user32_1074, clean_shutdown_6006}

\* run_diagnosis() over the stored evidence; one commit if it stores anything.
RunDiagnosis ==
  /\ pc = "diagnose"
  /\ LET start == IF boot.previous_boot_time # None THEN boot.previous_boot_time
                  ELSE boot.boot_time - RetentionPeriod
         crash == detect_crash(transition_summary(start, boot.boot_time),
                               boot.previous_session_clean)
         last_activity == last_metric_timestamp(boot.boot_time)
         inference == infer_termination(crash, last_activity, boot.boot_time,
                                        CollectionInterval)
         incident == [ incident_type |-> incident_type(inference, crash),
                       previous_session_id |-> boot.previous_session_id,
                       last_metric_timestamp |-> last_activity,
                       reboot_timestamp |-> boot.boot_time,
                       run |-> Len(runs) ]
     IN incidents' = IF warranted(crash) /\ ~incident_exists(boot.boot_time)
                     THEN Append(incidents, incident) ELSE incidents
  /\ pc' = "running"
  /\ analysed' = IF EvidenceAtHand THEN analysed \cup {Len(runs)} ELSE analysed
  /\ UNCHANGED <<machine, sessions, tailed, metrics, heartbeat, boot, starts>>
-------------------------------------------------------------------------------
(* The scheduler, once the analysis is done.                               *)

\* collect_high(): insert_snapshot(), then update_heartbeat().  Every metric
\* collector may have failed, and the heartbeat write may fail on its own.
CollectHigh ==
  /\ pc = "running"
  /\ Cardinality(metrics) < MaxSamples
  /\ \/ metrics' = metrics \cup {clock} /\ heartbeat' = clock
     \/ metrics' = metrics /\ heartbeat' = clock
     \/ metrics' = metrics \cup {clock} /\ heartbeat' = heartbeat
  /\ UNCHANGED <<machine, sessions, tailed, incidents, agent>>

\* collect_low(): the event log collector again.
CollectLow ==
  /\ pc = "running"
  /\ tailed < Len(log)
  /\ tailed' = Len(log)
  /\ UNCHANGED <<machine, sessions, incidents, metrics, heartbeat, agent>>

\* The service is stopped, or the process dies between two commits.
StopAgent ==
  /\ pc # "off"
  /\ pc' = "off" /\ boot' = None
  /\ UNCHANGED <<machine, database, starts, analysed>>
-------------------------------------------------------------------------------
Machine == \/ Tick \/ RequestShutdown \/ CompleteShutdown \/ Halt
           \/ PowerOn \/ RecordBugcheck

DetectBoot == \/ StartFirst \/ StartAfterReboot \/ RestartService
              \/ FinalisePrevious \/ CreateSession \/ LinkPrevious

Next == \/ Machine \/ DetectBoot \/ CollectEvents \/ RunDiagnosis
        \/ CollectHigh \/ CollectLow \/ StopAgent

Spec == Init /\ [][Next]_vars
-------------------------------------------------------------------------------
(* Properties.                                                             *)

Time == Nat \ {0}
Optional(S) == S \cup {None}

Session == [ boot_time: Time, previous_boot_time: Optional(Time),
             previous_session_clean: {None, 0, 1}, uptime_before_boot: Optional(Int),
             run: Time ]
BootResult == [ boot_time: Time, previous_boot_time: Optional(Time),
                previous_session_id: Optional(Time), previous_session_clean: {None, 0, 1} ]
Run == [boot: Time, end: UncleanEnds \cup {"running", "clean"}, at: Optional(Time)]
Record == [kind: EventKinds, timestamp: Time, run: Time]
Incident == [ incident_type: IncidentTypes, previous_session_id: Optional(Time),
              last_metric_timestamp: Optional(Time), reboot_timestamp: Time, run: Time ]
Steps == {"off", "finalise", "create", "link", "collect", "diagnose", "running"}

\* Every variable has its type, and the table events is a prefix of the log.
TypeOK ==
  /\ clock \in Time /\ os \in {"up", "stopping", "down"}
  /\ runs \in Seq(Run) /\ runs # <<>> /\ pending \subseteq EventKinds
  /\ log \in Seq(Record) /\ tailed \in 0..Len(log)
  /\ sessions \in Seq(Session) /\ incidents \in Seq(Incident)
  /\ metrics \subseteq Time /\ heartbeat \in Optional(Time)
  /\ pc \in Steps /\ (pc = "off" => boot = None) /\ (pc # "off" => boot \in BootResult)
  /\ starts \in Nat /\ analysed \subseteq Time

\* Whatever the order of stops, kills and reboots, every session but the
\* latest has a verdict on how it ended, an uptime that ends at its
\* successor's boot, and a successor that links back to it or (killed before
\* the third commit) to nothing.
SessionChain ==
  \A i \in 1..(Len(sessions) - 1) :
    /\ sessions[i].previous_session_clean # None
    /\ sessions[i].uptime_before_boot = sessions[i + 1].boot_time - sessions[i].boot_time
    /\ sessions[i + 1].previous_boot_time \in {None, sessions[i].boot_time}

\* A stored boot time that was read, or a start that comes as close to the boot.
Read(boot_time, run) == Distance(boot_time, runs[run].boot) <= MaxDrift

\* boot_detector.py: a service restart reuses the session, "so no duplicate
\* session or spurious incident is created".  True of kills between commits and of
\* a boot time that drifts by less than the tolerance.  A second session of a boot
\* takes a start at which psutil.boot_time() raised, so that the time of the start
\* stands for the boot in one of the rows from the first session to the second.
OneSessionPerBoot ==
  \A i, j \in DOMAIN sessions :
    i < j /\ sessions[i].run = sessions[j].run =>
      \E k \in i..j : ~Read(sessions[k].boot_time, sessions[k].run)

\* However often the agent analyses a boot, it stores one incident for it, and
\* another one only if the boot time could not be read for one of the two.
OneIncidentPerBoot ==
  \A i, j \in DOMAIN incidents :
    i < j /\ incidents[i].run = incidents[j].run =>
      \/ ~Read(incidents[i].reboot_timestamp, incidents[i].run)
      \/ ~Read(incidents[j].reboot_timestamp, incidents[j].run)

\* An incident blames the session that came last before its boot, whether it
\* was found at the first start in that boot or by a later service restart, if
\* psutil.boot_time() answers (else an earlier start in the boot may be blamed).
IncidentBlamesLastSession ==
  \A i \in DOMAIN incidents :
    LET earlier == {k \in DOMAIN sessions : sessions[k].run < incidents[i].run}
        blamed == incidents[i].previous_session_id
    IN IF earlier = {} THEN blamed = None
       ELSE blamed \in earlier /\ \A k \in earlier : k <= blamed

\* A freeze, power loss or blue screen of a run that has a session, and in which
\* nobody had asked for a shutdown, has its incident as soon as the next boot
\* was analysed with all of Windows' evidence at hand, if psutil.boot_time() answers.
NoMissedCrash ==
  \A k \in analysed :
    /\ k > 1 /\ runs[k - 1].end \in UncleanEnds
    /\ \E i \in DOMAIN sessions : sessions[i].run = k - 1
    /\ \A i \in DOMAIN log : ~(log[i].run = k - 1 /\ log[i].kind = user32_1074)
    => \E j \in DOMAIN incidents : incidents[j].run = k

\* README: "CLEAN / NORMAL RESTART -- no incident".  The transition window
\* starts at the previous boot, where the evidence of the crash before that
\* boot is stamped, and the verdict is taken before the shutdown's own records
\* are collected.
CleanRestartHasNoIncident ==
  \A i \in DOMAIN incidents, k \in DOMAIN sessions :
    sessions[k].run = incidents[i].run - 1 => runs[sessions[k].run].end # "clean"

\* boot_detector.py: on a service restart "no duplicate session or spurious
\* incident is created".  The verdict of the transition is in the previous
\* row, but the restart reads it from the reused one, where it is still NULL:
\* a boot that follows a clean shutdown and was analysed, with all the
\* evidence at hand, without an incident gets one from a service restart.
RestartAddsNoIncident ==
  [][Len(incidents') > Len(incidents) =>
       ~(Len(runs) \in analysed /\ runs[Len(runs) - 1].end = "clean")]_vars
==============================================================================
