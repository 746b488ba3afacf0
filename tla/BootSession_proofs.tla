-------------------------- MODULE BootSession_proofs --------------------------
(***************************************************************************)
(* Proofs about BootSession, for every value of its constants.             *)
(*                                                                         *)
(* SessionChain is not inductive by itself: that a new row is appended     *)
(* behind a finalised one depends on what the agent found out before its   *)
(* previous commit, which StepInv relates to the table at each value of    *)
(* pc.  The type of an incident needs ActivityInv, because the time of the *)
(* last activity is the maximum of a set, which has one only because the   *)
(* clock does not run backwards.                                           *)
(*                                                                         *)
(* The other properties depend on how far the readings of the boot time    *)
(* drift and how far boots are apart, some also on its being readable, so  *)
(* their theorems assume what they need of MaxDrift, BootTimeReadable,     *)
(* MinBootGap and MinOffTime:                                              *)
(*                                                                         *)
(*   OneSessionPerBoot          RowsInv: a new row is far from the one     *)
(*                              before                                     *)
(*   OneIncidentPerBoot         IncidentRuns: every incident is of a run   *)
(*   with readable boot times   RunsInv, SessionsInv, IncidentsInv: rows,  *)
(*                              incidents and the boot result lie near the *)
(*                              boot of their run, each of another one     *)
(*   IncidentBlamesLastSession  PreviousInv: what detect_boot() hands on   *)
(*                              at each value of pc                        *)
(*   NoMissedCrash              LogInv, EvidenceInv: what Windows wrote;   *)
(*                              WindowInv: the window holds the evidence;  *)
(*                              VerdictInv: a clean verdict rests on a     *)
(*                              record of the run it is about              *)
(***************************************************************************)
EXTENDS BootSession, SequenceTheorems, FiniteSetTheorems, TLAPS

USE NoneAssumption, BoundsAssumption, TimesAssumption

\* What holds of the sessions table between two commits of detect_boot().
StepInv ==
  /\ pc = "finalise" =>
       /\ Len(sessions) > 0
       /\ boot.previous_session_id = Len(sessions)
       /\ boot.previous_boot_time = sessions[Len(sessions)].boot_time
  /\ pc = "create" =>
       IF Len(sessions) = 0 THEN boot.previous_boot_time = None
       ELSE LET prev == sessions[Len(sessions)] IN
            /\ boot.previous_boot_time = prev.boot_time
            /\ prev.previous_session_clean # None
            /\ prev.uptime_before_boot = boot.boot_time - prev.boot_time
  /\ pc = "link" =>
       /\ Len(sessions) > 1
       /\ boot.previous_boot_time = sessions[Len(sessions) - 1].boot_time

\* Samples taken before any given time: none, or there is a latest one.
Before(S, n) == {t \in S : t < n}
HasLatest(S) == S = {} \/ \E t \in S : \A u \in S : u <= t

ActivityInv ==
  /\ \A t \in metrics : t <= clock
  /\ \A n \in Nat : HasLatest(Before(metrics, n))

\* The operators of the machine's part return what the types promise.
LEMMA EventTypes ==
  /\ {user32_1074, clean_shutdown_6006, bugcheck_1001} \subseteq EventKinds
  /\ \A end : RecordedAtBoot(end) \subseteq EventKinds
  /\ \A end : RecordedLater(end) \subseteq EventKinds
BY DEF EventKinds, RecordedAtBoot, RecordedLater

\* The latest row exists when the table is not empty, and is a session.
LEMMA LatestSession ==
  ASSUME TypeOK, Len(sessions) > 0
  PROVE  /\ Len(sessions) \in 1..Len(sessions)
         /\ sessions[Len(sessions)] \in Session
BY LenProperties, ElementOfSeq DEF TypeOK

LEMMA LatestRun ==
  ASSUME TypeOK
  PROVE  /\ Len(runs) \in Nat \ {0}
         /\ runs[Len(runs)] \in Run
         /\ BootTime \in Time
<1>1. Len(runs) \in Nat \ {0}
  BY EmptySeq DEF TypeOK
<1>2. runs[Len(runs)] \in Run
  BY <1>1, ElementOfSeq DEF TypeOK
<1> QED
  BY <1>1, <1>2 DEF BootTime, Run

\* The timestamp in an incident is a time or None.
LEMMA LastMetricType ==
  ASSUME TypeOK, ActivityInv, NEW before \in Time
  PROVE  last_metric_timestamp(before) \in Optional(Time)
<1> DEFINE samples == Before(metrics, before)
           seen == Before(metrics \cup ({heartbeat} \ {None}), before)
<1>1. seen \subseteq Time /\ samples \subseteq Time /\ HasLatest(samples)
  BY DEF Before, TypeOK, Optional, ActivityInv, Time
<1>2. HasLatest(seen)
  <2>1. CASE seen = samples
    BY <1>1, <2>1
  <2>2. CASE seen = samples \cup {heartbeat} /\ heartbeat \in Time
    BY <1>1, <2>2 DEF HasLatest, Time
  <2> QED
    BY <2>1, <2>2 DEF Before, TypeOK, Optional
<1>3. last_metric_timestamp(before) =
        IF seen = {} THEN None ELSE CHOOSE t \in seen : \A u \in seen : u <= t
  BY DEF last_metric_timestamp, Before
<1>4. CASE seen = {}
  BY <1>3, <1>4 DEF Optional
<1>5. CASE seen # {}
  <2> HIDE DEF seen
  <2>1. (CHOOSE t \in seen : \A u \in seen : u <= t) \in seen
    BY <1>2, <1>5 DEF HasLatest
  <2> QED
    BY <1>1, <1>3, <1>5, <2>1 DEF Optional
<1> QED
  BY <1>4, <1>5

\* Ending a run keeps the type of the runs.
LEMMA EndRunType ==
  ASSUME TypeOK, NEW end \in UncleanEnds \cup {"clean"}, EndRun(end)
  PROVE  runs' \in Seq(Run) /\ runs' # <<>>
<1> DEFINE n == Len(runs)
           r == [runs[n] EXCEPT !.end = end, !.at = clock]
<1>1. n \in 1..Len(runs) /\ runs[n] \in Run
  BY LatestRun
<1>2. r \in Run
  BY <1>1 DEF Run, TypeOK, Optional
<1>3. runs' = [runs EXCEPT ![n] = r]
  BY DEF EndRun
<1>4. [runs EXCEPT ![n] = r] \in Seq(Run) /\ Len([runs EXCEPT ![n] = r]) = Len(runs)
  <2> HIDE DEF r, n
  <2> QED
    BY <1>1, <1>2, ExceptSeq DEF TypeOK
<1> QED
  BY <1>1, <1>3, <1>4, EmptySeq

\* The three ways to start produce a boot result of the right type.
LEMMA StartType ==
  ASSUME TypeOK, StartFirst \/ StartAfterReboot \/ RestartService
  PROVE  boot' \in BootResult /\ pc' \in Steps \ {"off"} /\ starts' \in Nat
<1>1. ASSUME NEW t \in MeasuredBootTimes PROVE t \in Time
  BY DEF MeasuredBootTimes, TypeOK, Time
<1>2. CASE StartFirst
  BY <1>1, <1>2 DEF StartFirst, Started, BootResult, Optional, Steps, TypeOK
<1>3. CASE StartAfterReboot
  <2>1. Len(sessions) \in Time /\ sessions[Len(sessions)].boot_time \in Time
    BY <1>3, LatestSession, LenProperties DEF StartAfterReboot, latest_session, Session, Time, TypeOK
  <2> QED
    BY <1>1, <1>3, <2>1
    DEF StartAfterReboot, Started, BootResult, Optional, Steps, TypeOK, latest_session
<1>4. CASE RestartService
  <2>1. /\ Len(sessions) \in Time /\ sessions[Len(sessions)] \in Session
        /\ earlier_session \in Optional(Time)
    BY <1>4, LatestSession, LenProperties
    DEF RestartService, latest_session, earlier_session, Optional, Time, TypeOK
  <2> QED
    BY <1>1, <1>4, <2>1
    DEF RestartService, Started, BootResult, Session, Optional, Steps, TypeOK, latest_session
<1> QED
  BY <1>2, <1>3, <1>4

\* What the three commits of detect_boot() do to the sessions table: one row
\* is changed or appended, every other row stays.
LEMMA FinalisedRow ==
  ASSUME TypeOK, StepInv, FinalisePrevious
  PROVE  LET n == Len(sessions) IN
         /\ n \in Nat \ {0}
         /\ sessions' \in Seq(Session) /\ Len(sessions') = n
         /\ sessions'[n].previous_session_clean # None
         /\ sessions'[n].uptime_before_boot = boot.boot_time - sessions[n].boot_time
         /\ sessions'[n].boot_time = sessions[n].boot_time
         /\ sessions'[n].previous_boot_time = sessions[n].previous_boot_time
         /\ sessions'[n].run = sessions[n].run
         /\ \A i \in 1..(n - 1) : sessions'[i] = sessions[i]
<1> DEFINE n == Len(sessions)
           clean == verdict(transition_summary(boot.previous_boot_time, boot.boot_time))
           row == [ boot_time |-> sessions[n].boot_time,
                    previous_boot_time |-> sessions[n].previous_boot_time,
                    previous_session_clean |-> clean,
                    uptime_before_boot |-> boot.boot_time - sessions[n].boot_time,
                    run |-> sessions[n].run ]
<1>1. /\ n \in Nat \ {0} /\ n \in 1..Len(sessions) /\ sessions[n] \in Session
      /\ boot.previous_session_id = n /\ boot.previous_boot_time = sessions[n].boot_time
      /\ boot \in BootResult
  <2>1. pc = "finalise"
    BY DEF FinalisePrevious
  <2>2. boot \in BootResult /\ Len(sessions) \in Nat
    BY <2>1, LenProperties DEF TypeOK
  <2>3. /\ Len(sessions) > 0 /\ boot.previous_session_id = Len(sessions)
        /\ boot.previous_boot_time = sessions[Len(sessions)].boot_time
    BY <2>1 DEF StepInv
  <2> QED
    BY <2>2, <2>3, LatestSession
<1>2. clean \in {0, 1}
  BY DEF verdict
<1>3. row \in Session /\ clean # None
  BY <1>1, <1>2 DEF Session, BootResult, Optional, Time
<1>4. sessions' = [sessions EXCEPT ![n] = row]
  <2> HIDE DEF clean
  <2>1. row = [sessions[n] EXCEPT !.previous_session_clean = clean,
                 !.uptime_before_boot = boot.boot_time - sessions[n].boot_time]
    <3> DEFINE judged == [ boot_time |-> sessions[n].boot_time,
                           previous_boot_time |-> sessions[n].previous_boot_time,
                           previous_session_clean |-> clean,
                           uptime_before_boot |-> sessions[n].uptime_before_boot,
                           run |-> sessions[n].run ]
    <3>1. judged = [sessions[n] EXCEPT !.previous_session_clean = clean]
      BY <1>1, SMTT(30) DEF Session
    <3>2. row = [judged EXCEPT !.uptime_before_boot = boot.boot_time - sessions[n].boot_time]
      BY SMTT(30)
    <3> QED
      BY <3>1, <3>2
  <2> HIDE DEF row
  <2> QED
    BY <1>1, <2>1 DEF FinalisePrevious, clean
<1>5. /\ sessions' \in Seq(Session) /\ Len(sessions') = n
      /\ \A i \in 1..n : sessions'[i] = IF i = n THEN row ELSE sessions[i]
  <2> HIDE DEF row, n
  <2> QED
    BY <1>1, <1>3, <1>4, ExceptSeq DEF TypeOK, n
<1> QED
  BY <1>1, <1>3, <1>5

LEMMA CreatedRow ==
  ASSUME TypeOK, CreateSession
  PROVE  LET n == Len(sessions) IN
         /\ n \in Nat
         /\ sessions' \in Seq(Session) /\ Len(sessions') = n + 1
         /\ sessions'[n + 1].boot_time = boot.boot_time
         /\ sessions'[n + 1].previous_boot_time = None
         /\ sessions'[n + 1].previous_session_clean = None
         /\ sessions'[n + 1].run = Len(runs)
         /\ \A i \in 1..n : sessions'[i] = sessions[i]
<1> DEFINE row == [ boot_time |-> boot.boot_time, previous_boot_time |-> None,
                    previous_session_clean |-> None, uptime_before_boot |-> None,
                    run |-> Len(runs) ]
<1>1. row \in Session
  BY LatestRun DEF CreateSession, TypeOK, BootResult, Session, Optional, Time
<1>2. sessions' = Append(sessions, row)
  BY DEF CreateSession
<1> QED
  BY <1>1, <1>2, AppendProperties, LenProperties DEF TypeOK

LEMMA LinkedSession ==
  ASSUME NEW r \in Session, NEW t
  PROVE  [r EXCEPT !.previous_boot_time = t] =
           [ boot_time |-> r.boot_time, previous_boot_time |-> t,
             previous_session_clean |-> r.previous_session_clean,
             uptime_before_boot |-> r.uptime_before_boot, run |-> r.run ]
BY DEF Session

LEMMA LinkedRow ==
  ASSUME TypeOK, StepInv, LinkPrevious
  PROVE  LET n == Len(sessions) IN
         /\ n \in Nat /\ n > 1
         /\ sessions' \in Seq(Session) /\ Len(sessions') = n
         /\ sessions'[n].boot_time = sessions[n].boot_time
         /\ sessions'[n].previous_boot_time = sessions[n - 1].boot_time
         /\ sessions'[n].previous_session_clean = sessions[n].previous_session_clean
         /\ sessions'[n].run = sessions[n].run
         /\ \A i \in 1..(n - 1) : sessions'[i] = sessions[i]
<1> DEFINE n == Len(sessions)
           row == [ boot_time |-> sessions[n].boot_time,
                    previous_boot_time |-> sessions[n - 1].boot_time,
                    previous_session_clean |-> sessions[n].previous_session_clean,
                    uptime_before_boot |-> sessions[n].uptime_before_boot,
                    run |-> sessions[n].run ]
<1>1. /\ n \in Nat /\ n > 1 /\ n \in 1..Len(sessions) /\ n - 1 \in 1..Len(sessions)
      /\ boot.previous_boot_time = sessions[n - 1].boot_time
  <2>1. n \in Nat
    BY LenProperties DEF TypeOK
  <2>2. n > 1 /\ boot.previous_boot_time = sessions[n - 1].boot_time
    BY DEF LinkPrevious, StepInv
  <2> QED
    BY <2>1, <2>2
<1>2. sessions[n] \in Session /\ sessions[n - 1] \in Session
  BY <1>1, ElementOfSeq DEF TypeOK
<1>3. row \in Session
  BY <1>2 DEF Session, Optional
<1>4. sessions' = [sessions EXCEPT ![n] = row]
  <2>1. row = [sessions[n] EXCEPT !.previous_boot_time = sessions[n - 1].boot_time]
    BY <1>2, LinkedSession
  <2>2. sessions' = [sessions EXCEPT ![n] =
                       [sessions[n] EXCEPT !.previous_boot_time = sessions[n - 1].boot_time]]
    BY <1>1 DEF LinkPrevious, latest_session
  <2> QED
    BY <2>1, <2>2
<1>5. /\ sessions' \in Seq(Session) /\ Len(sessions') = n
      /\ \A i \in 1..n : sessions'[i] = IF i = n THEN row ELSE sessions[i]
  <2> HIDE DEF row, n
  <2> QED
    BY <1>1, <1>3, <1>4, ExceptSeq DEF TypeOK, n
<1> QED
  BY <1>1, <1>5

LEMMA IncidentTypeType ==
  ASSUME NEW inference, NEW crash
  PROVE  incident_type(inference, crash) \in IncidentTypes
BY DEF incident_type, IncidentTypes

\* run_diagnosis() stores nothing, or one row behind the others.
LEMMA StoredIncident ==
  ASSUME TypeOK, ActivityInv, RunDiagnosis
  PROVE  LET n == Len(incidents) IN
         \/ UNCHANGED incidents
         \/ /\ ~incident_exists(boot.boot_time)
            /\ incidents' \in Seq(Incident) /\ Len(incidents') = n + 1
            /\ incidents'[n + 1].run = Len(runs)
            /\ incidents'[n + 1].reboot_timestamp = boot.boot_time
            /\ incidents'[n + 1].previous_session_id = boot.previous_session_id
            /\ \A i \in 1..n : incidents'[i] = incidents[i]
<1> DEFINE incident(inference, crash) ==
             [ incident_type |-> incident_type(inference, crash),
               previous_session_id |-> boot.previous_session_id,
               last_metric_timestamp |-> last_metric_timestamp(boot.boot_time),
               reboot_timestamp |-> boot.boot_time, run |-> Len(runs) ]
<1>1. boot \in BootResult
  BY DEF RunDiagnosis, TypeOK
<1>2. last_metric_timestamp(boot.boot_time) \in Optional(Time)
  BY <1>1, LastMetricType DEF BootResult
<1>3. Len(runs) \in Time
  BY LatestRun DEF Time
<1>4. ASSUME NEW inference, NEW crash PROVE incident(inference, crash) \in Incident
  BY <1>1, <1>2, <1>3, IncidentTypeType DEF Incident, BootResult
<1>5. \/ UNCHANGED incidents
      \/ /\ ~incident_exists(boot.boot_time)
         /\ \E inference, crash : incidents' = Append(incidents, incident(inference, crash))
  BY DEF RunDiagnosis
<1>6. ASSUME NEW inference, NEW crash,
             incidents' = Append(incidents, incident(inference, crash))
      PROVE  LET n == Len(incidents) IN
             /\ incidents' \in Seq(Incident) /\ Len(incidents') = n + 1
             /\ incidents'[n + 1] = incident(inference, crash)
             /\ \A i \in 1..n : incidents'[i] = incidents[i]
  <2>1. incident(inference, crash) \in Incident
    BY <1>4
  <2> HIDE DEF incident
  <2> QED
    BY <1>6, <2>1, AppendProperties DEF TypeOK
<1>7. ASSUME ~incident_exists(boot.boot_time), NEW inference, NEW crash,
             incidents' = Append(incidents, incident(inference, crash))
      PROVE  LET n == Len(incidents) IN
             /\ incidents' \in Seq(Incident) /\ Len(incidents') = n + 1
             /\ incidents'[n + 1].run = Len(runs)
             /\ incidents'[n + 1].reboot_timestamp = boot.boot_time
             /\ incidents'[n + 1].previous_session_id = boot.previous_session_id
             /\ \A i \in 1..n : incidents'[i] = incidents[i]
  BY <1>6, <1>7
<1> QED
  BY <1>5, <1>7

\* Every variable keeps its type.
LEMMA InitType == Init => TypeOK
<1> SUFFICES ASSUME Init PROVE TypeOK
  OBVIOUS
<1>0. FirstBoot \in Time
  BY DEF FirstBoot, Time
<1>1. runs \in Seq(Run) /\ runs # <<>>
  BY <1>0 DEF Init, Run, Time, Optional
<1>2. log \in Seq(Record) /\ sessions \in Seq(Session) /\ incidents \in Seq(Incident)
  BY DEF Init
<1> QED
  BY <1>0, <1>1, <1>2 DEF Init, TypeOK, Time, Optional, Steps

\* A log that only grows keeps the tail position inside it.
LEMMA TailedKept ==
  ASSUME TypeOK, tailed' = tailed, Len(log') \in Nat, Len(log') >= Len(log)
  PROVE  tailed' \in 0..Len(log')
<1>1. Len(log) \in Nat
  BY LenProperties DEF TypeOK
<1>2. tailed \in 0..Len(log)
  BY DEF TypeOK
<1> QED
  BY <1>1, <1>2

LEMMA NextType ==
  ASSUME TypeOK, ActivityInv, StepInv, [Next]_vars
  PROVE  TypeOK'
<1> USE DEF Time, Optional
<1>1. CASE Tick
  BY <1>1 DEF Tick, TypeOK, agent, database
<1>2. CASE RequestShutdown
  <2>1. Stamped(user32_1074) \in Record
    BY EventTypes, LatestRun DEF Stamped, Record, TypeOK
  <2>2. log' \in Seq(Record) /\ Len(log') = Len(log) + 1
    BY <1>2, <2>1, AppendProperties DEF RequestShutdown, TypeOK
  <2>3. tailed' \in 0..Len(log')
    <3>1. tailed' = tailed
      BY <1>2 DEF RequestShutdown, database
    <3>2. Len(log) \in Nat /\ Len(log') \in Nat /\ Len(log') >= Len(log)
      BY <2>2, LenProperties DEF TypeOK
    <3> QED
      BY <3>1, <3>2, TailedKept
  <2> QED
    BY <1>2, <2>2, <2>3 DEF RequestShutdown, TypeOK, agent, database
<1>3. CASE CompleteShutdown
  <2>1. Stamped(clean_shutdown_6006) \in Record
    BY EventTypes, LatestRun DEF Stamped, Record, TypeOK
  <2>2. log' \in Seq(Record) /\ Len(log') = Len(log) + 1
    BY <1>3, <2>1, AppendProperties DEF CompleteShutdown, TypeOK
  <2>3. tailed' \in 0..Len(log')
    <3>1. tailed' = tailed
      BY <1>3 DEF CompleteShutdown, EndRun, database
    <3>2. Len(log) \in Nat /\ Len(log') \in Nat /\ Len(log') >= Len(log)
      BY <2>2, LenProperties DEF TypeOK
    <3> QED
      BY <3>1, <3>2, TailedKept
  <2>4. runs' \in Seq(Run) /\ runs' # <<>>
    BY <1>3, EndRunType DEF CompleteShutdown
  <2> QED
    BY <1>3, <2>2, <2>3, <2>4 DEF CompleteShutdown, EndRun, TypeOK, database, Steps
<1>4. CASE Halt
  <2>1. PICK end \in UncleanEnds : EndRun(end)
    BY <1>4 DEF Halt
  <2>2. runs' \in Seq(Run) /\ runs' # <<>>
    BY <2>1, EndRunType
  <2> QED
    BY <1>4, <2>1, <2>2 DEF Halt, EndRun, TypeOK, database, Steps
<1>5. CASE PowerOn
  <2>1. runs' \in Seq(Run) /\ runs' # <<>>
    <3>1. [boot |-> clock, end |-> "running", at |-> None] \in Run
      BY DEF Run, TypeOK
    <3> QED
      BY <1>5, <3>1, AppendProperties, SMTT(30) DEF PowerOn, TypeOK
  <2>2. log' \in Seq(Record) /\ Len(log') >= Len(log)
    <3>1. CASE log' = log
      BY <3>1, LenProperties DEF TypeOK
    <3>2. ASSUME NEW kind \in EventKinds,
                 log' = Append(log, [kind |-> kind, timestamp |-> clock, run |-> Len(runs) + 1])
          PROVE  log' \in Seq(Record) /\ Len(log') >= Len(log)
      <4>1. [kind |-> kind, timestamp |-> clock, run |-> Len(runs) + 1] \in Record
        BY LatestRun DEF Record, TypeOK
      <4> QED
        BY <3>2, <4>1, AppendProperties, LenProperties DEF TypeOK
    <3> QED
      BY <1>5, <3>1, <3>2, EventTypes DEF PowerOn
  <2>3. tailed' \in 0..Len(log')
    <3>1. tailed' = tailed
      BY <1>5 DEF PowerOn, database
    <3>2. Len(log) \in Nat /\ Len(log') \in Nat /\ Len(log') >= Len(log)
      BY <2>2, LenProperties DEF TypeOK
    <3> QED
      BY <3>1, <3>2, TailedKept
  <2>4. pending' \subseteq EventKinds
    BY <1>5, EventTypes DEF PowerOn
  <2> QED
    BY <1>5, <2>1, <2>2, <2>3, <2>4 DEF PowerOn, TypeOK, database, agent
<1>6. CASE RecordBugcheck
  <2>1. PICK kind \in pending : pending' = pending \ {kind} /\ log' = Append(log, Stamped(kind))
    BY <1>6 DEF RecordBugcheck
  <2>2. Stamped(kind) \in Record
    BY LatestRun DEF Stamped, Record, TypeOK
  <2>3. log' \in Seq(Record) /\ Len(log') = Len(log) + 1
    BY <2>1, <2>2, AppendProperties DEF TypeOK
  <2>4. tailed' \in 0..Len(log')
    <3>1. tailed' = tailed
      BY <1>6 DEF RecordBugcheck, database
    <3>2. Len(log) \in Nat /\ Len(log') \in Nat /\ Len(log') >= Len(log)
      BY <2>3, LenProperties DEF TypeOK
    <3> QED
      BY <3>1, <3>2, TailedKept
  <2> QED
    BY <1>6, <2>1, <2>3, <2>4 DEF RecordBugcheck, TypeOK, database, agent
<1>7. CASE StartFirst \/ StartAfterReboot \/ RestartService
  <2>1. boot' \in BootResult /\ pc' \in Steps \ {"off"} /\ starts' \in Nat
    BY <1>7, StartType
  <2>2. UNCHANGED <<machine, database, analysed>>
    BY <1>7 DEF StartFirst, StartAfterReboot, RestartService, Started
  <2> QED
    BY <2>1, <2>2 DEF TypeOK, machine, database
<1>8. CASE FinalisePrevious
  <2>1. boot \in BootResult /\ boot.previous_boot_time \in Time
    BY <1>8, LatestSession, LenProperties DEF FinalisePrevious, StepInv, TypeOK, Session
  <2>2. sessions' \in Seq(Session)
    BY <1>8, FinalisedRow
  <2>3. boot' \in BootResult
    BY <1>8, <2>1 DEF FinalisePrevious, BootResult, verdict
  <2> QED
    BY <1>8, <2>2, <2>3 DEF FinalisePrevious, TypeOK, machine, Steps
<1>9. CASE CreateSession
  <2>1. sessions' \in Seq(Session)
    BY <1>9, CreatedRow
  <2> QED
    BY <1>9, <2>1 DEF CreateSession, TypeOK, machine, Steps
<1>10. CASE LinkPrevious
  <2>1. sessions' \in Seq(Session)
    BY <1>10, LinkedRow
  <2> QED
    BY <1>10, <2>1 DEF LinkPrevious, TypeOK, machine, Steps
<1>11. CASE CollectEvents
  <2>1. tailed' \in 0..Len(log')
    BY <1>11, LenProperties DEF CollectEvents, machine, TypeOK
  <2> QED
    BY <1>11, <2>1 DEF CollectEvents, TypeOK, machine, Steps
<1>12. CASE RunDiagnosis
  <2>1. incidents' \in Seq(Incident)
    BY <1>12, StoredIncident DEF TypeOK
  <2>2. analysed' \subseteq Time
    BY <1>12, LatestRun DEF RunDiagnosis, TypeOK
  <2> QED
    BY <1>12, <2>1, <2>2 DEF RunDiagnosis, TypeOK, machine, Steps
<1>13. CASE CollectHigh
  BY <1>13 DEF CollectHigh, TypeOK, machine, agent
<1>14. CASE CollectLow
  BY <1>14, LenProperties DEF CollectLow, TypeOK, machine, agent
<1>15. CASE StopAgent
  BY <1>15 DEF StopAgent, TypeOK, machine, database, Steps
<1>16. CASE UNCHANGED vars
  BY <1>16 DEF vars, machine, database, agent, TypeOK
<1> QED
  BY <1>1, <1>2, <1>3, <1>4, <1>5, <1>6, <1>7, <1>8, <1>9, <1>10, <1>11, <1>12,
     <1>13, <1>14, <1>15, <1>16 DEF Next, Machine, DetectBoot

\* The recorded activity never lies ahead of the clock, so it has a maximum.
LEMMA NextActivity ==
  ASSUME TypeOK, ActivityInv, [Next]_vars
  PROVE  ActivityInv'
<1>1. CASE CollectHigh
  <2>1. /\ clock' = clock /\ clock \in Nat /\ metrics \subseteq Nat
        /\ metrics' \in {metrics, metrics \cup {clock}}
    BY <1>1 DEF CollectHigh, machine, TypeOK, Time
  <2>2. \A t \in metrics' : t <= clock'
    BY <2>1 DEF ActivityInv
  <2>3. ASSUME NEW n \in Nat PROVE HasLatest(Before(metrics', n))
    <3>1. CASE clock < n /\ clock \in metrics'
      BY <2>1, <2>2, <3>1 DEF Before, HasLatest
    <3>2. CASE ~(clock < n /\ clock \in metrics')
      <4>1. Before(metrics', n) = Before(metrics, n)
        BY <2>1, <3>2 DEF Before
      <4> QED
        BY <4>1 DEF ActivityInv
    <3> QED
      BY <3>1, <3>2
  <2> QED
    BY <2>2, <2>3 DEF ActivityInv
<1>2. CASE UNCHANGED metrics /\ clock' \in {clock, clock + 1}
  BY <1>2 DEF ActivityInv, TypeOK, Time
<1> QED
  BY <1>1, <1>2
  DEF Next, Machine, DetectBoot, vars, machine, database, agent, Tick, RequestShutdown,
      CompleteShutdown, Halt, EndRun, PowerOn, RecordBugcheck, StartFirst, StartAfterReboot,
      RestartService, Started, FinalisePrevious, CreateSession, LinkPrevious,
      CollectEvents, RunDiagnosis, CollectLow, StopAgent

\* The steps between the commits of detect_boot() are the only ones that
\* change the sessions table; every other step leaves it alone, and either
\* keeps the agent where it is or moves it where StepInv asks nothing.
LEMMA NextChain ==
  ASSUME TypeOK, StepInv, SessionChain, [Next]_vars
  PROVE  StepInv' /\ SessionChain'
<1> DEFINE n == Len(sessions)
<1>1. CASE FinalisePrevious
  <2>1. pc' = "create" /\ boot'.previous_boot_time = boot.previous_boot_time
        /\ boot'.boot_time = boot.boot_time
        /\ boot.previous_boot_time = sessions[n].boot_time
    BY <1>1 DEF FinalisePrevious, StepInv, TypeOK, BootResult
  <2>2. StepInv'
    BY <1>1, <2>1, FinalisedRow DEF StepInv
  <2>3. SessionChain'
    <3> SUFFICES ASSUME NEW i \in 1..(n - 1)
        PROVE /\ sessions'[i].previous_session_clean # None
              /\ sessions'[i].uptime_before_boot = sessions'[i + 1].boot_time - sessions'[i].boot_time
              /\ sessions'[i + 1].previous_boot_time \in {None, sessions'[i].boot_time}
      BY <1>1, FinalisedRow DEF SessionChain
    <3>1. sessions'[i] = sessions[i] /\ n \in Nat
      BY <1>1, FinalisedRow
    <3>2. /\ sessions'[i + 1].boot_time = sessions[i + 1].boot_time
          /\ sessions'[i + 1].previous_boot_time = sessions[i + 1].previous_boot_time
      <4>1. CASE i + 1 = n
        BY <1>1, <4>1, FinalisedRow
      <4>2. CASE i + 1 \in 1..(n - 1)
        BY <1>1, <4>2, FinalisedRow
      <4> QED
        BY <3>1, <4>1, <4>2
    <3> QED
      BY <3>1, <3>2 DEF SessionChain
  <2> QED
    BY <2>2, <2>3
<1>2. CASE CreateSession
  <2>1. /\ pc' \in {"collect", "link"} /\ boot' = boot
        /\ pc' = "link" <=> boot.previous_boot_time # None
    BY <1>2 DEF CreateSession
  <2>2. n > 0 => /\ boot.previous_boot_time = sessions[n].boot_time
                 /\ sessions[n].previous_session_clean # None
                 /\ sessions[n].uptime_before_boot = boot.boot_time - sessions[n].boot_time
    BY <1>2 DEF CreateSession, StepInv
  <2>3. n = 0 => boot.previous_boot_time = None
    BY <1>2 DEF CreateSession, StepInv
  <2>4. StepInv'
    <3>1. CASE n = 0
      BY <2>1, <2>3, <3>1 DEF StepInv
    <3>2. CASE n > 0
      BY <1>2, <2>1, <2>2, <3>2, CreatedRow DEF StepInv
    <3> QED
      BY <1>2, <3>1, <3>2, CreatedRow
  <2>5. SessionChain'
    <3>. Len(sessions') - 1 = n
      BY <1>2, CreatedRow
    <3> SUFFICES ASSUME NEW i \in 1..n
        PROVE /\ sessions'[i].previous_session_clean # None
              /\ sessions'[i].uptime_before_boot = sessions'[i + 1].boot_time - sessions'[i].boot_time
              /\ sessions'[i + 1].previous_boot_time \in {None, sessions'[i].boot_time}
      BY DEF SessionChain
    <3>1. n \in Nat /\ sessions'[i] = sessions[i]
      BY <1>2, CreatedRow
    <3>2. CASE i = n
      BY <1>2, <2>2, <3>1, <3>2, CreatedRow
    <3>3. CASE i \in 1..(n - 1)
      <4>1. sessions'[i + 1] = sessions[i + 1]
        BY <1>2, <3>1, <3>3, CreatedRow
      <4> QED
        BY <3>1, <3>3, <4>1 DEF SessionChain
    <3> QED
      BY <3>1, <3>2, <3>3
  <2> QED
    BY <2>4, <2>5
<1>3. CASE LinkPrevious
  <2>1. pc' = "collect"
    BY <1>3 DEF LinkPrevious
  <2>2. StepInv'
    BY <2>1 DEF StepInv
  <2>3. SessionChain'
    <3> SUFFICES ASSUME NEW i \in 1..(n - 1)
        PROVE /\ sessions'[i].previous_session_clean # None
              /\ sessions'[i].uptime_before_boot = sessions'[i + 1].boot_time - sessions'[i].boot_time
              /\ sessions'[i + 1].previous_boot_time \in {None, sessions'[i].boot_time}
      BY <1>3, LinkedRow DEF SessionChain
    <3>1. n \in Nat /\ sessions'[i] = sessions[i]
      BY <1>3, LinkedRow
    <3>2. CASE i + 1 = n
      BY <1>3, <3>1, <3>2, LinkedRow DEF SessionChain
    <3>3. CASE i + 1 \in 1..(n - 1)
      <4>1. sessions'[i + 1] = sessions[i + 1]
        BY <1>3, <3>3, LinkedRow
      <4> QED
        BY <3>1, <4>1 DEF SessionChain
    <3> QED
      BY <3>1, <3>2, <3>3
  <2> QED
    BY <2>2, <2>3
<1>4. CASE StartFirst \/ StartAfterReboot \/ RestartService
  <2>1. sessions' = sessions
    BY <1>4 DEF StartFirst, StartAfterReboot, RestartService, Started, database
  <2>2. StepInv'
    <3>1. CASE StartFirst
      BY <2>1, <3>1 DEF StartFirst, Started, latest_session, StepInv
    <3>2. CASE StartAfterReboot
      BY <2>1, <3>2 DEF StartAfterReboot, Started, latest_session, StepInv
    <3>3. CASE RestartService
      BY <2>1, <3>3 DEF RestartService, Started, StepInv
    <3> QED
      BY <1>4, <3>1, <3>2, <3>3
  <2> QED
    BY <2>1, <2>2 DEF SessionChain
<1>5. CASE sessions' = sessions /\ UNCHANGED <<pc, boot>>
  BY <1>5 DEF StepInv, SessionChain
<1>6. CASE sessions' = sessions /\ pc' \in {"off", "diagnose", "running"}
  BY <1>6 DEF StepInv, SessionChain
<1> QED
  BY <1>1, <1>2, <1>3, <1>4, <1>5, <1>6
  DEF Next, Machine, DetectBoot, vars, machine, database, agent, Tick, RequestShutdown,
      CompleteShutdown, Halt, EndRun, PowerOn, RecordBugcheck, CollectEvents,
      RunDiagnosis, CollectHigh, CollectLow, StopAgent

\* The inductive invariant: types, activity, the table between two commits.
IInv == TypeOK /\ ActivityInv /\ StepInv /\ SessionChain

THEOREM Inductive == Spec => []IInv
<1>1. Init => IInv
  <2> SUFFICES ASSUME Init PROVE IInv
    OBVIOUS
  <2>1. ActivityInv
    BY DEF Init, ActivityInv, Before, HasLatest
  <2>2. StepInv /\ SessionChain
    BY DEF Init, StepInv, SessionChain
  <2> QED
    BY <2>1, <2>2, InitType DEF IInv
<1>2. IInv /\ [Next]_vars => IInv'
  BY NextType, NextActivity, NextChain DEF IInv
<1> QED
  BY <1>1, <1>2, PTL DEF Spec

\* Type correctness, for any number of boots, starts, samples and ticks.
THEOREM TypeCorrect == Spec => []TypeOK
BY Inductive, PTL DEF IInv

\* Killed between any two commits, in any boot, and restarted any number of
\* times, detect_boot() leaves a chain of finalised sessions.
THEOREM SessionsChained == Spec => []SessionChain
BY Inductive, PTL DEF IInv
-------------------------------------------------------------------------------
(* Boots and sessions.  A measured boot time lies within MaxDrift of the   *)
(* boot it belongs to; boots are at least MinBootGap apart.                *)

Near(t, k) == runs[k].boot - MaxDrift <= t /\ t <= runs[k].boot + MaxDrift

RunsInv ==
  /\ os = "down" => pc = "off" /\ runs[Len(runs)].at \in Nat /\ BootTime <= runs[Len(runs)].at
  /\ BootTime <= clock
  /\ \A i, j \in 1..Len(runs) :
       i < j => runs[i].boot + MinBootGap <= runs[j].boot /\ runs[i].boot < runs[j].boot

\* How a run ends, and how one begins.
LEMMA EndedRun ==
  ASSUME TypeOK, NEW end \in UncleanEnds \cup {"clean"}, EndRun(end)
  PROVE  LET n == Len(runs) IN
         /\ Len(runs') = n /\ \A i \in 1..(n - 1) : runs'[i] = runs[i]
         /\ runs'[n].boot = runs[n].boot /\ runs'[n].end = end /\ runs'[n].at = clock
<1> DEFINE n == Len(runs)
           r == [boot |-> runs[n].boot, end |-> end, at |-> clock]
<1>1. n \in 1..Len(runs) /\ runs[n] \in Run /\ n \in Nat
  BY LatestRun, LenProperties DEF TypeOK
<1>2. r = [runs[n] EXCEPT !.end = end, !.at = clock]
  <2> DEFINE ended == [boot |-> runs[n].boot, end |-> end, at |-> runs[n].at]
  <2>1. ended = [runs[n] EXCEPT !.end = end]
    BY <1>1 DEF Run
  <2>2. r = [ended EXCEPT !.at = clock]
    BY SMTT(30)
  <2> QED
    BY <2>1, <2>2
<1>3. r \in Run
  BY <1>1 DEF Run, TypeOK, Optional
<1>4. runs' = [runs EXCEPT ![n] = r]
  BY <1>2 DEF EndRun
<1>5. /\ Len(runs') = n
      /\ \A i \in 1..n : runs'[i] = IF i = n THEN r ELSE runs[i]
  <2> HIDE DEF r, n
  <2> QED
    BY <1>1, <1>3, <1>4, ExceptSeq DEF TypeOK, n
<1> QED
  BY <1>1, <1>5

LEMMA BegunRun ==
  ASSUME TypeOK, PowerOn
  PROVE  LET n == Len(runs) IN
         /\ n \in Nat /\ Len(runs') = n + 1 /\ \A i \in 1..n : runs'[i] = runs[i]
         /\ runs'[n + 1].boot = clock /\ runs'[n + 1].end = "running"
<1>1. runs' = Append(runs, [boot |-> clock, end |-> "running", at |-> None])
  BY DEF PowerOn
<1> QED
  BY <1>1, LatestRun, LenProperties DEF TypeOK

\* The other steps leave the machine's runs alone.
LEMMA OtherRuns ==
  ASSUME [Next]_vars
  PROVE  \/ \E end \in UncleanEnds \cup {"clean"} : EndRun(end)
         \/ PowerOn
         \/ UNCHANGED <<os, runs>> /\ (clock' = clock \/ Tick)
         \/ UNCHANGED <<runs, clock>> /\ RequestShutdown
BY DEF Next, Machine, DetectBoot, vars, machine, Tick, RequestShutdown, CompleteShutdown, Halt,
       RecordBugcheck, StartFirst, StartAfterReboot, RestartService, Started,
       FinalisePrevious, CreateSession, LinkPrevious, CollectEvents, RunDiagnosis,
       CollectHigh, CollectLow, StopAgent

\* Boots keep their times; only the latest run can end.
LEMMA RunsKept ==
  ASSUME TypeOK, [Next]_vars
  PROVE  /\ Len(runs) \in Nat \ {0} /\ Len(runs') \in Nat
         /\ Len(runs') = Len(runs) \/ (PowerOn /\ Len(runs') = Len(runs) + 1)
         /\ \A i \in 1..Len(runs) : runs'[i].boot = runs[i].boot
         /\ \A i \in 1..(Len(runs) - 1) : runs'[i] = runs[i]
<1>1. Len(runs) \in Nat \ {0}
  BY LatestRun
<1>2. ASSUME NEW end \in UncleanEnds \cup {"clean"}, EndRun(end)
      PROVE  /\ Len(runs') = Len(runs) /\ \A i \in 1..Len(runs) : runs'[i].boot = runs[i].boot
             /\ \A i \in 1..(Len(runs) - 1) : runs'[i] = runs[i]
  BY <1>1, <1>2, EndedRun
<1>3. ASSUME PowerOn
      PROVE  /\ Len(runs') = Len(runs) + 1 /\ \A i \in 1..Len(runs) : runs'[i] = runs[i]
  BY <1>3, BegunRun
<1>4. ASSUME UNCHANGED runs
      PROVE  /\ Len(runs') = Len(runs) /\ \A i \in 1..Len(runs) : runs'[i] = runs[i]
  BY <1>4
<1> QED
  BY <1>1, <1>2, <1>3, <1>4, OtherRuns

\* Boots follow one another, at the distance of MinBootGap.
LEMMA RunsNext ==
  ASSUME TypeOK, RunsInv, [Next]_vars
  PROVE  RunsInv'
<1>0. /\ Len(runs) \in Nat \ {0} /\ clock \in Nat
      /\ \A i \in 1..Len(runs) : runs[i].boot \in Nat
  <2>1. \A i \in 1..Len(runs) : runs[i] \in Run
    BY ElementOfSeq DEF TypeOK
  <2> QED
    BY <2>1, LatestRun DEF TypeOK, Time, Run
<1>1. ASSUME NEW end \in UncleanEnds \cup {"clean"}, EndRun(end) PROVE RunsInv'
  <2>1. /\ os' = "down" /\ pc' = "off" /\ UNCHANGED clock
        /\ Len(runs') = Len(runs) /\ \A i \in 1..Len(runs) : runs'[i].boot = runs[i].boot
        /\ runs'[Len(runs)].at = clock
    BY <1>0, <1>1, EndedRun, SMTT(30) DEF EndRun
  <2> QED
    BY <1>0, <2>1, SMTT(30) DEF RunsInv, BootTime
<1>2. CASE PowerOn
  <2>1. /\ Len(runs') = Len(runs) + 1 /\ \A i \in 1..Len(runs) : runs'[i] = runs[i]
        /\ runs'[Len(runs) + 1].boot = clock
    BY <1>2, BegunRun
  <2>2. /\ os' = "up" /\ clock' = clock /\ os = "down"
        /\ clock >= runs[Len(runs)].at + MinOffTime /\ clock >= BootTime + MinBootGap
    BY <1>2 DEF PowerOn
  <2>3. ASSUME NEW i \in 1..Len(runs)
        PROVE  runs[i].boot + MinBootGap <= clock /\ runs[i].boot < clock
    <3>1. runs[i].boot <= BootTime
      <4>1. CASE i = Len(runs)
        BY <1>0, <4>1 DEF BootTime
      <4>2. CASE i < Len(runs)
        BY <1>0, <4>2 DEF RunsInv, BootTime
      <4> QED
        BY <1>0, <4>1, <4>2
    <3>2. BootTime \in Nat /\ BootTime < clock
      BY <1>0, <2>2, MachineAssumption DEF RunsInv, BootTime
    <3> QED
      BY <1>0, <2>2, <3>1, <3>2
  <2>4. ASSUME NEW i \in 1..(Len(runs) + 1), NEW j \in 1..(Len(runs) + 1), i < j
        PROVE  runs'[i].boot + MinBootGap <= runs'[j].boot /\ runs'[i].boot < runs'[j].boot
    <3>1. i \in 1..Len(runs)
      BY <1>0, <2>4
    <3>2. CASE j \in 1..Len(runs)
      BY <2>1, <2>4, <3>1, <3>2 DEF RunsInv
    <3>3. CASE j = Len(runs) + 1
      BY <2>1, <2>3, <3>1, <3>3
    <3> QED
      BY <1>0, <3>2, <3>3
  <2> QED
    BY <1>0, <2>1, <2>2, <2>4 DEF RunsInv, BootTime
<1>3. ASSUME UNCHANGED <<os, runs>>, clock' = clock \/ clock' = clock + 1, os = "down" => pc' = "off"
      PROVE  RunsInv'
  <2>1. BootTime' = BootTime /\ BootTime \in Nat
    BY <1>0, <1>3 DEF BootTime
  <2> QED
    BY <1>0, <1>3, <2>1 DEF RunsInv
<1>4. CASE RequestShutdown
  BY <1>4 DEF RequestShutdown, RunsInv, BootTime
<1>5. CASE UNCHANGED <<os, runs>> /\ (clock' = clock \/ Tick)
  <2>1. clock' = clock \/ clock' = clock + 1
    BY <1>5 DEF Tick
  <2>2. os = "down" => pc = "off"
    BY DEF RunsInv
  <2>3. CASE pc' = pc
    BY <1>3, <1>5, <2>1, <2>2, <2>3
  <2>4. CASE os # "down" \/ pc # "off"
    BY <1>3, <1>5, <2>1, <2>2, <2>4
  <2> QED
    BY <2>3, <2>4
    DEF Next, Machine, DetectBoot, vars, agent, Tick, RequestShutdown, CompleteShutdown, Halt,
        PowerOn, RecordBugcheck, StartFirst, StartAfterReboot, RestartService, MayStart,
        FinalisePrevious, CreateSession, LinkPrevious, CollectEvents, RunDiagnosis,
        CollectHigh, CollectLow, StopAgent
<1> QED
  BY <1>1, <1>2, <1>4, <1>5, OtherRuns

\* A session keeps its run and its boot time; only CreateSession adds one.
LEMMA RowsKept ==
  ASSUME TypeOK, StepInv, [Next]_vars
  PROVE  /\ Len(sessions) \in Nat
         /\ Len(sessions') = Len(sessions) \/ (CreateSession /\ Len(sessions') = Len(sessions) + 1)
         /\ \A i \in 1..Len(sessions) : /\ sessions'[i].run = sessions[i].run
                                       /\ sessions'[i].boot_time = sessions[i].boot_time
<1>0. Len(sessions) \in Nat
  BY LenProperties DEF TypeOK
<1>1. CASE FinalisePrevious
  BY <1>0, <1>1, FinalisedRow
<1>2. CASE CreateSession
  BY <1>0, <1>2, CreatedRow
<1>3. CASE LinkPrevious
  BY <1>0, <1>3, LinkedRow
<1>4. CASE UNCHANGED sessions
  BY <1>0, <1>4
<1> QED
  BY <1>1, <1>2, <1>3, <1>4
  DEF Next, Machine, DetectBoot, vars, database, Tick, RequestShutdown, CompleteShutdown, Halt,
      EndRun, PowerOn, RecordBugcheck, StartFirst, StartAfterReboot, RestartService, Started,
      CollectEvents, RunDiagnosis, CollectHigh, CollectLow, StopAgent

\* An agent that runs after a step ran before it, in the same run and with the
\* same boot result or one that has the verdict, or has just started.
LEMMA AgentStep ==
  ASSUME TypeOK, RunsInv, [Next]_vars, pc' # "off"
  PROVE  /\ UNCHANGED runs
         /\ \/ /\ pc # "off" /\ boot'.boot_time = boot.boot_time
               /\ boot'.previous_session_id = boot.previous_session_id
            \/ StartFirst \/ StartAfterReboot \/ RestartService
<1>1. CASE UNCHANGED <<runs, pc, boot>>
  <2>1. pc # "off"
    BY <1>1
  <2> QED
    BY <1>1, <2>1
<1>2. CASE FinalisePrevious
  <2>1. pc # "off" /\ boot \in BootResult /\ UNCHANGED runs
    BY <1>2 DEF FinalisePrevious, TypeOK, machine
  <2>2. /\ boot'.boot_time = boot.boot_time
        /\ boot'.previous_session_id = boot.previous_session_id
    BY <1>2, <2>1 DEF FinalisePrevious, BootResult
  <2> QED
    BY <2>1, <2>2
<1>3. CASE CreateSession \/ LinkPrevious \/ CollectEvents \/ RunDiagnosis
  BY <1>3 DEF CreateSession, LinkPrevious, CollectEvents, RunDiagnosis, machine
<1>4. CASE StartFirst \/ StartAfterReboot \/ RestartService
  BY <1>4 DEF StartFirst, StartAfterReboot, RestartService, Started, machine
<1> QED
  BY <1>1, <1>2, <1>3, <1>4
  DEF RunsInv, Next, Machine, DetectBoot, vars, machine, agent, Tick, RequestShutdown,
      CompleteShutdown, Halt, EndRun, PowerOn, RecordBugcheck, CollectHigh, CollectLow, StopAgent

\* The sessions are those of different runs in the order of the runs, each
\* with a boot time near that of its run; while detect_boot() has not created
\* the session of this run, there is none.
SessionsInv ==
  /\ \A i \in 1..Len(sessions) : /\ sessions[i].run \in 1..Len(runs)
                                /\ Near(sessions[i].boot_time, sessions[i].run)
  /\ \A i, j \in 1..Len(sessions) : i < j => sessions[i].run < sessions[j].run
  /\ pc # "off" => Near(boot.boot_time, Len(runs))
  /\ pc \in {"finalise", "create"} =>
       \A i \in 1..Len(sessions) : sessions[i].run < Len(runs)

\* Two times within d of the same start are within 2 * d of one another.
LEMMA CloseTimes ==
  ASSUME NEW a \in Nat, NEW b \in Nat, NEW start \in Nat, NEW d \in Nat,
         start - d <= a, a <= start + d, start - d <= b, b <= start + d
  PROVE  Distance(a, b) <= 2 * d
BY DEF Distance

LEMMA MeasuredNear ==
  ASSUME BootTimeReadable, TypeOK, NEW t \in MeasuredBootTimes
  PROVE  Near(t, Len(runs)) /\ t \in Nat
<1>1. BootTime \in Nat /\ clock \in Nat /\ t \in 1..clock /\ Distance(t, BootTime) <= MaxDrift
  BY LatestRun DEF MeasuredBootTimes, TypeOK, Time
<1>2. BootTime - MaxDrift <= t /\ t <= BootTime + MaxDrift
  BY <1>1 DEF Distance
<1> QED
  BY <1>1, <1>2 DEF Near, BootTime

\* While the measured boot time drifts by less than the tolerance, a boot that
\* has a session is recognised.
LEMMA RebootIsNew ==
  ASSUME BootTimeReadable, 2 * MaxDrift < BootTolerance, TypeOK, SessionsInv,
         NEW t \in MeasuredBootTimes, Len(sessions) > 0, ~same_boot(t)
  PROVE  \A i \in 1..Len(sessions) : sessions[i].run < Len(runs)
<1> DEFINE n == Len(sessions)
           b == sessions[n].boot_time
<1>1. /\ n \in Nat /\ n \in 1..n /\ b \in Nat /\ Len(runs) \in Nat
      /\ \A i \in 1..n : sessions[i].run \in Nat
  <2>1. \A i \in 1..n : sessions[i] \in Session
    BY ElementOfSeq DEF TypeOK
  <2>2. n \in Nat /\ n \in 1..n /\ Len(runs) \in Nat
    BY LatestSession, LatestRun, LenProperties DEF TypeOK
  <2> QED
    BY <2>1, <2>2 DEF Session, Time
<1>2. ~(Distance(b, t) < BootTolerance)
  BY DEF same_boot, latest_session
<1>3. sessions[n].run # Len(runs)
  <2> SUFFICES ASSUME sessions[n].run = Len(runs) PROVE FALSE
    OBVIOUS
  <2>1. Near(b, Len(runs)) /\ Near(t, Len(runs)) /\ runs[Len(runs)].boot \in Nat /\ t \in Nat
    BY <1>1, MeasuredNear, LatestRun DEF SessionsInv, Run, Time
  <2>2. Distance(b, t) <= 2 * MaxDrift
    BY <1>1, <2>1, CloseTimes DEF Near
  <2> QED
    BY <1>1, <1>2, <2>1, <2>2 DEF Distance
<1>4. sessions[n].run < Len(runs)
  BY <1>1, <1>3 DEF SessionsInv
<1>5. ASSUME NEW i \in 1..n PROVE sessions[i].run <= sessions[n].run
  <2>1. CASE i = n
    BY <1>1, <2>1
  <2>2. CASE i < n
    BY <1>1, <2>2 DEF SessionsInv
  <2> QED
    BY <1>1, <2>1, <2>2
<1> QED
  BY <1>1, <1>4, <1>5

LEMMA SessionsNext ==
  ASSUME BootTimeReadable, 2 * MaxDrift < BootTolerance,
         TypeOK, StepInv, RunsInv, SessionsInv, [Next]_vars
  PROVE  SessionsInv'
<1> DEFINE n == Len(sessions)
           m == Len(runs)
<1>1. /\ m \in Nat \ {0} /\ n \in Nat /\ Len(runs') \in Nat
      /\ Len(runs') \in {m, m + 1}
      /\ \A k \in 1..m : runs'[k].boot = runs[k].boot
      /\ \A i \in 1..n : /\ sessions'[i].run = sessions[i].run
                        /\ sessions'[i].boot_time = sessions[i].boot_time
  BY RunsKept, RowsKept
<1>2. CreateSession =>
        /\ Len(sessions') = n + 1 /\ sessions'[n + 1].run = m
        /\ sessions'[n + 1].boot_time = boot.boot_time /\ UNCHANGED runs
        /\ Near(boot.boot_time, m) /\ \A i \in 1..n : sessions[i].run < m
  BY CreatedRow DEF CreateSession, SessionsInv, machine
<1>3. Len(sessions') = n \/ (CreateSession /\ Len(sessions') = n + 1)
  BY RowsKept
<1>4. ASSUME NEW i \in 1..n
      PROVE  sessions'[i].run \in 1..Len(runs') /\ Near(sessions[i].boot_time, sessions[i].run)'
  <2>1. sessions[i].run \in 1..m /\ Near(sessions[i].boot_time, sessions[i].run)
    BY DEF SessionsInv
  <2>2. runs'[sessions'[i].run].boot = runs[sessions[i].run].boot
    BY <1>1, <2>1
  <2>3. sessions'[i].boot_time = sessions[i].boot_time /\ sessions'[i].run = sessions[i].run
    BY <1>1
  <2> QED
    BY <1>1, <2>1, <2>2, <2>3 DEF Near
<1>5. ASSUME CreateSession, NEW i \in {n + 1}
      PROVE  sessions'[i].run \in 1..Len(runs') /\ Near(sessions[i].boot_time, sessions[i].run)'
  <2>1. /\ sessions'[i].run = m /\ sessions'[i].boot_time = boot.boot_time
        /\ UNCHANGED runs /\ Near(boot.boot_time, m)
    BY <1>2, <1>5
  <2>2. Near(sessions[i].boot_time, sessions[i].run)'
    BY <2>1 DEF Near
  <2> QED
    BY <1>1, <2>1, <2>2
<1>6. \A i \in 1..Len(sessions') : /\ sessions'[i].run \in 1..Len(runs')
                                  /\ Near(sessions[i].boot_time, sessions[i].run)'
  <2> SUFFICES ASSUME NEW i \in 1..Len(sessions')
      PROVE sessions'[i].run \in 1..Len(runs') /\ Near(sessions[i].boot_time, sessions[i].run)'
    OBVIOUS
  <2>1. i \in 1..n \/ (CreateSession /\ i \in {n + 1})
    BY <1>1, <1>3
  <2> QED
    BY <1>4, <1>5, <2>1
<1>7. \A i, j \in 1..Len(sessions') : i < j => sessions'[i].run < sessions'[j].run
  <2> SUFFICES ASSUME NEW i \in 1..Len(sessions'), NEW j \in 1..Len(sessions'), i < j
      PROVE sessions'[i].run < sessions'[j].run
    OBVIOUS
  <2>1. CASE j \in 1..n
    <3>1. i \in 1..n
      BY <1>1, <1>3, <2>1
    <3> QED
      BY <1>1, <2>1, <3>1 DEF SessionsInv
  <2>2. CASE CreateSession /\ j = n + 1
    <3>1. i \in 1..n
      BY <1>1, <1>2, <2>2
    <3> QED
      BY <1>1, <1>2, <2>2, <3>1
  <2>3. j \in 1..n \/ (CreateSession /\ j = n + 1)
    BY <1>1, <1>3, SMTT(30)
  <2> QED
    BY <2>1, <2>2, <2>3
<1>8. pc' # "off" => Near(boot.boot_time, Len(runs))'
  <2> SUFFICES ASSUME pc' # "off" PROVE Near(boot.boot_time, Len(runs))'
    OBVIOUS
  <2>1. UNCHANGED runs
    BY AgentStep
  <2>2. CASE pc # "off" /\ boot'.boot_time = boot.boot_time
    BY <2>1, <2>2 DEF SessionsInv, Near
  <2>3. CASE StartFirst \/ StartAfterReboot \/ RestartService
    <3>1. PICK t \in MeasuredBootTimes : boot'.boot_time = t
      BY <2>3 DEF StartFirst, StartAfterReboot, RestartService, Started
    <3> QED
      BY <2>1, <3>1, MeasuredNear DEF Near
  <2> QED
    BY <2>2, <2>3, AgentStep
<1>9. pc' \in {"finalise", "create"} => \A i \in 1..Len(sessions') : sessions'[i].run < Len(runs')
  <2> SUFFICES ASSUME pc' \in {"finalise", "create"}
      PROVE \A i \in 1..Len(sessions') : sessions'[i].run < Len(runs')
    OBVIOUS
  <2>1. UNCHANGED runs
    BY AgentStep
  <2>2. Len(sessions') = n
    BY <1>3 DEF CreateSession
  <2>3. \A i \in 1..n : sessions[i].run < m
    <3>1. CASE pc \in {"finalise", "create"}
      BY <3>1 DEF SessionsInv
    <3>2. CASE StartFirst
      BY <3>2 DEF StartFirst, latest_session
    <3>3. CASE StartAfterReboot
      <4>1. PICK t \in MeasuredBootTimes : ~same_boot(t)
        BY <3>3 DEF StartAfterReboot
      <4>2. n > 0
        BY <3>3 DEF StartAfterReboot, latest_session
      <4> QED
        BY <4>1, <4>2, RebootIsNew
    <3> QED
      BY <3>1, <3>2, <3>3
      DEF Next, Machine, DetectBoot, vars, agent, Tick, RequestShutdown, CompleteShutdown, Halt,
          EndRun, PowerOn, RecordBugcheck, RestartService, Started, FinalisePrevious,
          CreateSession, LinkPrevious, CollectEvents, RunDiagnosis, CollectHigh, CollectLow,
          StopAgent
  <2> QED
    BY <1>1, <2>1, <2>2, <2>3
<1> QED
  BY <1>6, <1>7, <1>8, <1>9 DEF SessionsInv

\* The incidents are those of different runs in the order of the runs, each
\* with a reboot near the boot of its run.
IncidentsInv ==
  /\ \A i \in 1..Len(incidents) : /\ incidents[i].run \in 1..Len(runs)
                                 /\ Near(incidents[i].reboot_timestamp, incidents[i].run)
  /\ \A i, j \in 1..Len(incidents) : i < j => incidents[i].run < incidents[j].run

\* While two measured times are no further apart than the tolerance, an incident of
\* this run is found again.
LEMMA NewIncident ==
  ASSUME 2 * MaxDrift <= IncidentTolerance, TypeOK, SessionsInv, IncidentsInv,
         pc # "off", ~incident_exists(boot.boot_time)
  PROVE  \A i \in 1..Len(incidents) : incidents[i].run < Len(runs)
<1> SUFFICES ASSUME NEW i \in 1..Len(incidents) PROVE incidents[i].run < Len(runs)
  OBVIOUS
<1>1. /\ incidents[i] \in Incident /\ boot \in BootResult /\ Len(runs) \in Nat
      /\ runs[Len(runs)].boot \in Nat
  BY ElementOfSeq, LatestRun DEF TypeOK, Run, Time
<1>2. /\ incidents[i].reboot_timestamp \in Nat /\ incidents[i].run \in Nat
      /\ boot.boot_time \in Nat
  BY <1>1 DEF Incident, BootResult, Time
<1>3. incidents[i].run <= Len(runs)
  BY <1>1, <1>2 DEF IncidentsInv
<1>4. incidents[i].run # Len(runs)
  <2> SUFFICES ASSUME incidents[i].run = Len(runs) PROVE FALSE
    OBVIOUS
  <2>1. /\ Near(incidents[i].reboot_timestamp, Len(runs))
        /\ Near(boot.boot_time, Len(runs))
    BY DEF IncidentsInv, SessionsInv
  <2>2. ~(Distance(incidents[i].reboot_timestamp, boot.boot_time) <= IncidentTolerance)
    BY LenProperties DEF incident_exists, TypeOK
  <2>3. Distance(incidents[i].reboot_timestamp, boot.boot_time) <= 2 * MaxDrift
    BY <1>1, <1>2, <2>1, CloseTimes, TimesAssumption DEF Near
  <2>4. Distance(incidents[i].reboot_timestamp, boot.boot_time) \in Nat
    BY <1>2, SMTT(30) DEF Distance
  <2> QED
    BY <2>2, <2>3, <2>4, TimesAssumption
<1> QED
  BY <1>1, <1>2, <1>3, <1>4

\* An incident stays; only RunDiagnosis adds one.
LEMMA IncidentsKept ==
  ASSUME [Next]_vars
  PROVE  UNCHANGED incidents \/ RunDiagnosis
BY DEF Next, Machine, DetectBoot, vars, database, Tick, RequestShutdown, CompleteShutdown, Halt,
       EndRun, PowerOn, RecordBugcheck, StartFirst, StartAfterReboot, RestartService, Started,
       FinalisePrevious, CreateSession, LinkPrevious, CollectEvents, CollectHigh, CollectLow,
       StopAgent

LEMMA IncidentsNext ==
  ASSUME 2 * MaxDrift <= IncidentTolerance, TypeOK, ActivityInv, SessionsInv, IncidentsInv,
         [Next]_vars
  PROVE  IncidentsInv'
<1> DEFINE n == Len(incidents)
           m == Len(runs)
<1>1. /\ m \in Nat \ {0} /\ n \in Nat /\ Len(runs') \in Nat
      /\ Len(runs') \in {m, m + 1}
      /\ \A k \in 1..m : runs'[k].boot = runs[k].boot
  BY RunsKept, LenProperties DEF TypeOK
<1>2. ASSUME NEW i \in 1..n, incidents'[i] = incidents[i]
      PROVE  /\ incidents'[i].run \in 1..Len(runs')
             /\ Near(incidents[i].reboot_timestamp, incidents[i].run)'
  <2>1. incidents[i].run \in 1..m /\ Near(incidents[i].reboot_timestamp, incidents[i].run)
    BY DEF IncidentsInv
  <2>2. runs'[incidents[i].run].boot = runs[incidents[i].run].boot
    BY <1>1, <2>1
  <2> QED
    BY <1>1, <1>2, <2>1, <2>2 DEF Near
<1>3. CASE UNCHANGED incidents
  BY <1>2, <1>3 DEF IncidentsInv
<1>4. CASE RunDiagnosis /\ incidents' # incidents
  <2>1. /\ Len(incidents') = n + 1 /\ \A i \in 1..n : incidents'[i] = incidents[i]
        /\ incidents'[n + 1].run = m /\ incidents'[n + 1].reboot_timestamp = boot.boot_time
    BY <1>4, StoredIncident
  <2>2. pc # "off" /\ UNCHANGED runs /\ ~incident_exists(boot.boot_time)
    BY <1>4, StoredIncident DEF RunDiagnosis, machine
  <2>3. \A i \in 1..n : incidents[i].run < m
    BY <2>2, NewIncident
  <2>4. ASSUME NEW i \in {n + 1}
        PROVE  /\ incidents'[i].run \in 1..Len(runs')
               /\ Near(incidents[i].reboot_timestamp, incidents[i].run)'
    <3>1. Near(boot.boot_time, m)
      BY <2>2 DEF SessionsInv
    <3>2. Near(incidents[i].reboot_timestamp, incidents[i].run)'
      BY <2>1, <2>2, <3>1 DEF Near
    <3> QED
      BY <1>1, <2>1, <2>2, <3>2
  <2>5. \A i \in 1..Len(incidents') :
          /\ incidents'[i].run \in 1..Len(runs')
          /\ Near(incidents[i].reboot_timestamp, incidents[i].run)'
    <3> SUFFICES ASSUME NEW i \in 1..Len(incidents')
        PROVE /\ incidents'[i].run \in 1..Len(runs')
              /\ Near(incidents[i].reboot_timestamp, incidents[i].run)'
      OBVIOUS
    <3>1. i \in 1..n \/ i \in {n + 1}
      BY <1>1, <2>1
    <3> QED
      BY <1>2, <2>1, <2>4, <3>1
  <2>6. \A i, j \in 1..Len(incidents') : i < j => incidents'[i].run < incidents'[j].run
    <3> SUFFICES ASSUME NEW i \in 1..Len(incidents'), NEW j \in 1..Len(incidents'), i < j
        PROVE incidents'[i].run < incidents'[j].run
      OBVIOUS
    <3>1. i \in 1..n
      BY <1>1, <2>1
    <3>2. CASE j \in 1..n
      BY <2>1, <3>1, <3>2 DEF IncidentsInv
    <3>3. CASE j = n + 1
      BY <2>1, <2>3, <3>1, <3>3
    <3> QED
      BY <1>1, <2>1, <3>2, <3>3
  <2> QED
    BY <2>5, <2>6 DEF IncidentsInv
<1> QED
  BY <1>3, <1>4, IncidentsKept
-------------------------------------------------------------------------------
(* Sessions and incidents of one boot, if its boot time may be unreadable: *)
(* a row or the boot result may be anywhere, but not near the row before.  *)

RowsInv ==
  /\ \A i \in 1..Len(sessions) : sessions[i].run \in 1..Len(runs)
  /\ \A i, j \in 1..Len(sessions) : i <= j => sessions[i].run <= sessions[j].run
  /\ pc \in {"finalise", "create"} /\ Len(sessions) > 0 =>
       ~(Distance(sessions[Len(sessions)].boot_time, boot.boot_time) < BootTolerance)

LEMMA RowsNext ==
  ASSUME TypeOK, StepInv, RunsInv, RowsInv, [Next]_vars
  PROVE  RowsInv'
<1> DEFINE n == Len(sessions)
           m == Len(runs)
<1>1. /\ m \in Nat \ {0} /\ n \in Nat /\ Len(runs') \in {m, m + 1}
      /\ \A i \in 1..n : /\ sessions'[i].run = sessions[i].run
                        /\ sessions'[i].boot_time = sessions[i].boot_time
      /\ Len(sessions') = n \/ (CreateSession /\ Len(sessions') = n + 1)
  BY RunsKept, RowsKept
<1>2. CreateSession => sessions'[n + 1].run = m /\ UNCHANGED runs
  BY CreatedRow DEF CreateSession, machine
<1>3. \A i \in 1..n : sessions[i].run \in 1..m
  BY DEF RowsInv
<1>4. ASSUME NEW i \in 1..Len(sessions')
      PROVE  sessions'[i].run \in 1..Len(runs')
  <2>1. CASE i \in 1..n
    BY <1>1, <1>3, <2>1
  <2>2. CASE CreateSession /\ i = n + 1
    BY <1>1, <1>2, <2>2
  <2> QED
    BY <1>1, <2>1, <2>2
<1>5. ASSUME NEW i \in 1..Len(sessions'), NEW j \in 1..Len(sessions'), i <= j
      PROVE  sessions'[i].run <= sessions'[j].run
  <2>1. CASE j \in 1..n
    <3>1. i \in 1..n
      BY <1>1, <1>5, <2>1
    <3> QED
      BY <1>1, <1>5, <2>1, <3>1 DEF RowsInv
  <2>2. CASE CreateSession /\ j = n + 1
    <3>1. CASE i = n + 1
      BY <1>1, <1>2, <2>2, <3>1
    <3>2. CASE i \in 1..n
      BY <1>1, <1>2, <1>3, <2>2, <3>2
    <3> QED
      BY <1>1, <1>5, <2>2, <3>1, <3>2
  <2> QED
    BY <1>1, <2>1, <2>2
<1>6. ASSUME pc' \in {"finalise", "create"}, Len(sessions') > 0
      PROVE  ~(Distance(sessions'[Len(sessions')].boot_time, boot'.boot_time) < BootTolerance)
  <2>1. Len(sessions') = n /\ n > 0
    BY <1>1, <1>6 DEF CreateSession
  <2>2. sessions'[Len(sessions')].boot_time = sessions[n].boot_time
    BY <1>1, <2>1
  <2>3. CASE StartAfterReboot
    <3>1. PICK t \in MeasuredBootTimes : ~same_boot(t) /\ boot'.boot_time = t
      BY <2>3 DEF StartAfterReboot, Started
    <3> QED
      BY <2>2, <3>1 DEF same_boot, latest_session
  <2>4. CASE pc \in {"finalise", "create"} /\ boot'.boot_time = boot.boot_time
    BY <2>1, <2>2, <2>4 DEF RowsInv
  <2>5. ~StartFirst /\ ~RestartService
    BY <1>6, <2>1 DEF StartFirst, RestartService, Started, latest_session
  <2>6. StartAfterReboot \/ boot'.boot_time = boot.boot_time
    BY <1>6, <2>5, AgentStep
  <2>7. StartAfterReboot \/ pc \in {"finalise", "create"}
    BY <1>6, <2>5
    DEF Next, Machine, DetectBoot, vars, agent, Tick, RequestShutdown, CompleteShutdown, Halt,
        EndRun, PowerOn, RecordBugcheck, FinalisePrevious, CreateSession, LinkPrevious,
        CollectEvents, RunDiagnosis, CollectHigh, CollectLow, StopAgent
  <2> QED
    BY <2>3, <2>4, <2>6, <2>7
<1> QED
  BY <1>4, <1>5, <1>6 DEF RowsInv

\* Two times that were read in the same run are close.
LEMMA ReadAreClose ==
  ASSUME TypeOK, NEW a \in Nat, NEW b \in Nat, NEW k \in 1..Len(runs), Read(a, k), Read(b, k)
  PROVE  Distance(a, b) <= 2 * MaxDrift /\ Distance(a, b) \in Nat
<1> DEFINE start == runs[k].boot
<1>1. start \in Nat
  <2>1. runs[k] \in Run
    BY ElementOfSeq DEF TypeOK
  <2> QED
    BY <2>1 DEF Run, Time
<1>2. start - MaxDrift <= a /\ a <= start + MaxDrift /\ start - MaxDrift <= b /\ b <= start + MaxDrift
  BY <1>1 DEF Read, Distance
<1> HIDE DEF start
<1>3. Distance(a, b) <= 2 * MaxDrift
  BY <1>1, <1>2, CloseTimes
<1> QED
  BY <1>3 DEF Distance

\* A new row is further from the one before than two readings of a boot are.
LEMMA OneSessionNext ==
  ASSUME 2 * MaxDrift < BootTolerance, TypeOK, StepInv, RowsInv, OneSessionPerBoot, [Next]_vars
  PROVE  OneSessionPerBoot'
<1> DEFINE n == Len(sessions)
           m == Len(runs)
           Unread(k) == ~Read(sessions[k].boot_time, sessions[k].run)
<1>1. /\ m \in Nat \ {0} /\ n \in Nat
      /\ \A k \in 1..m : runs'[k].boot = runs[k].boot
      /\ \A i \in 1..n : /\ sessions'[i].run = sessions[i].run
                        /\ sessions'[i].boot_time = sessions[i].boot_time
      /\ Len(sessions') = n \/ (CreateSession /\ Len(sessions') = n + 1)
      /\ DOMAIN sessions = 1..n
  BY RunsKept, RowsKept, LenProperties DEF TypeOK
<1>2. DOMAIN sessions' = 1..Len(sessions')
  BY NextType, LenProperties DEF TypeOK
<1>3. \A i \in 1..n : sessions[i].run \in 1..m
  BY DEF RowsInv
<1>4. ASSUME NEW k \in 1..n PROVE Unread(k)' <=> Unread(k)
  BY <1>1, <1>3, <1>4 DEF Read
<1>5. ASSUME NEW i \in DOMAIN sessions', NEW j \in DOMAIN sessions', i < j,
             sessions'[i].run = sessions'[j].run
      PROVE  \E k \in i..j : Unread(k)'
  <2>1. i \in 1..n /\ i \in Nat /\ j \in Nat
    <3>1. i \in 1..Len(sessions') /\ j \in 1..Len(sessions') /\ Len(sessions') \in {n, n + 1}
      BY <1>1, <1>2
    <3> HIDE DEF n
    <3> QED
      BY <1>1, <1>5, <3>1
  <2>2. CASE j \in 1..n
    <3>1. PICK k \in i..j : Unread(k)
      BY <1>1, <1>5, <2>1, <2>2 DEF OneSessionPerBoot
    <3>2. k \in 1..n
      BY <1>1, <2>1, <2>2, <3>1
    <3> QED
      BY <1>4, <3>1, <3>2
  <2>3. CASE CreateSession /\ j = n + 1
    <3>1. /\ sessions'[n + 1].run = m /\ sessions'[n + 1].boot_time = boot.boot_time
          /\ UNCHANGED runs /\ pc = "create"
      BY <2>3, CreatedRow DEF CreateSession, machine
    <3>2. n \in 1..n /\ sessions[n].run = m
      <4>1. sessions[i].run = m /\ sessions[i].run <= sessions[n].run
        BY <1>1, <1>5, <2>1, <2>3, <3>1 DEF RowsInv
      <4> QED
        BY <1>1, <1>3, <2>1, <4>1
    <3>3. ~(Distance(sessions[n].boot_time, boot.boot_time) < BootTolerance)
      BY <1>1, <3>1, <3>2 DEF RowsInv
    <3>4. sessions[n].boot_time \in Nat /\ boot.boot_time \in Nat
      <4>1. sessions[n] \in Session /\ boot \in BootResult
        BY <3>1, <3>2, LatestSession DEF TypeOK
      <4> QED
        BY <4>1 DEF Session, BootResult, Time
    <3>5. ~(Read(sessions[n].boot_time, m) /\ Read(boot.boot_time, m))
      <4> SUFFICES ASSUME Read(sessions[n].boot_time, m), Read(boot.boot_time, m) PROVE FALSE
        OBVIOUS
      <4>1. /\ Distance(sessions[n].boot_time, boot.boot_time) <= 2 * MaxDrift
            /\ Distance(sessions[n].boot_time, boot.boot_time) \in Nat
        BY <1>1, <3>4, ReadAreClose
      <4> QED
        BY <3>3, <4>1
    <3>6. CASE ~Read(sessions[n].boot_time, m)
      <4>1. Unread(n) /\ n \in i..j
        BY <1>1, <1>5, <2>1, <2>3, <3>2, <3>6
      <4> QED
        BY <1>4, <3>2, <4>1
    <3>7. CASE ~Read(boot.boot_time, m)
      <4>1. Unread(j)'
        BY <2>3, <3>1, <3>7 DEF Read
      <4>2. j \in i..j
        BY <1>5, <2>1
      <4> QED
        BY <4>1, <4>2
    <3> QED
      BY <3>5, <3>6, <3>7
  <2>4. Len(sessions') = n \/ (CreateSession /\ Len(sessions') = n + 1)
    BY <1>1
  <2>5. j \in 1..Len(sessions')
    BY <1>2
  <2>6. j \in 1..n \/ (CreateSession /\ j = n + 1)
    BY <1>1, <2>4, <2>5
  <2> QED
    BY <2>2, <2>3, <2>6
<1> QED
  BY <1>5 DEF OneSessionPerBoot

\* An incident is further from every other than two readings of a boot are.
IncidentRuns == \A i \in 1..Len(incidents) : incidents[i].run \in 1..Len(runs)

LEMMA OneIncidentNext ==
  ASSUME 2 * MaxDrift <= IncidentTolerance, TypeOK, ActivityInv, IncidentRuns,
         OneIncidentPerBoot, [Next]_vars
  PROVE  IncidentRuns' /\ OneIncidentPerBoot'
<1> DEFINE n == Len(incidents)
           m == Len(runs)
           Unread(k) == ~Read(incidents[k].reboot_timestamp, incidents[k].run)
<1>1. /\ m \in Nat \ {0} /\ n \in Nat /\ Len(runs') \in {m, m + 1}
      /\ \A k \in 1..m : runs'[k].boot = runs[k].boot
      /\ DOMAIN incidents = 1..n
  BY RunsKept, LenProperties DEF TypeOK
<1>2. DOMAIN incidents' = 1..Len(incidents')
  BY NextType, LenProperties DEF TypeOK
<1>3. ASSUME NEW k \in 1..n, incidents'[k] = incidents[k]
      PROVE  incidents'[k].run \in 1..Len(runs') /\ (Unread(k)' <=> Unread(k))
  BY <1>1, <1>3 DEF IncidentRuns, Read
<1>4. CASE UNCHANGED incidents
  <2>1. \A k \in 1..n : incidents'[k].run \in 1..Len(runs') /\ (Unread(k)' <=> Unread(k))
    BY <1>3, <1>4
  <2>2. IncidentRuns'
    BY <1>4, <2>1 DEF IncidentRuns
  <2> QED
    BY <1>1, <1>4, <2>1, <2>2 DEF OneIncidentPerBoot
<1>5. CASE RunDiagnosis /\ incidents' # incidents
  <2>1. /\ Len(incidents') = n + 1 /\ \A i \in 1..n : incidents'[i] = incidents[i]
        /\ incidents'[n + 1].run = m /\ incidents'[n + 1].reboot_timestamp = boot.boot_time
        /\ ~incident_exists(boot.boot_time)
    BY <1>5, StoredIncident
  <2>2. UNCHANGED runs /\ boot \in BootResult
    BY <1>5 DEF RunDiagnosis, machine, TypeOK
  <2>3. \A k \in 1..n : incidents'[k].run \in 1..Len(runs') /\ (Unread(k)' <=> Unread(k))
    BY <1>3, <2>1
  <2>4. IncidentRuns'
    BY <1>1, <2>1, <2>2, <2>3 DEF IncidentRuns
  <2>5. ASSUME NEW i \in 1..n, incidents[i].run = m
        PROVE  ~Read(incidents[i].reboot_timestamp, m) \/ ~Read(boot.boot_time, m)
    <3> DEFINE t == incidents[i].reboot_timestamp
    <3>1. t \in Nat /\ boot.boot_time \in Nat
      <4>1. incidents[i] \in Incident
        BY ElementOfSeq DEF TypeOK
      <4> QED
        BY <2>2, <4>1 DEF Incident, BootResult, Time
    <3>2. ~(Distance(t, boot.boot_time) <= IncidentTolerance)
      BY <1>1, <2>1 DEF incident_exists
    <3> SUFFICES ASSUME Read(t, m), Read(boot.boot_time, m) PROVE FALSE
      OBVIOUS
    <3>3. Distance(t, boot.boot_time) <= 2 * MaxDrift /\ Distance(t, boot.boot_time) \in Nat
      BY <1>1, <3>1, ReadAreClose
    <3> QED
      BY <3>2, <3>3
  <2>6. ASSUME NEW i \in DOMAIN incidents', NEW j \in DOMAIN incidents', i < j,
               incidents'[i].run = incidents'[j].run
        PROVE  Unread(i)' \/ Unread(j)'
    <3>1. i \in 1..n
      BY <1>1, <1>2, <2>1, <2>6
    <3>2. CASE j \in 1..n
      <4>1. Unread(i) \/ Unread(j)
        BY <1>1, <2>1, <2>6, <3>1, <3>2 DEF OneIncidentPerBoot
      <4> QED
        BY <2>3, <3>1, <3>2, <4>1
    <3>3. CASE j = n + 1
      <4>1. incidents[i].run = m
        BY <2>1, <2>6, <3>1, <3>3
      <4>2. ~Read(incidents[i].reboot_timestamp, m) => Unread(i)
        BY <4>1
      <4>3. ~Read(boot.boot_time, m) => Unread(j)'
        BY <2>1, <2>2, <3>3 DEF Read
      <4> QED
        BY <2>3, <2>5, <3>1, <4>1, <4>2, <4>3
    <3> QED
      BY <1>1, <1>2, <2>1, <3>2, <3>3
  <2> QED
    BY <2>4, <2>6 DEF OneIncidentPerBoot
<1> QED
  BY <1>4, <1>5, IncidentsKept
-------------------------------------------------------------------------------
(* The session an incident blames.                                         *)

\* What detect_boot() passes on as the previous session: the latest row until
\* the session of this run is there, the one below it afterwards.
PreviousInv ==
  /\ pc = "create" =>
       boot.previous_session_id = IF Len(sessions) = 0 THEN None ELSE Len(sessions)
  /\ pc \in {"link", "collect", "diagnose", "running"} =>
       /\ Len(sessions) > 0 /\ sessions[Len(sessions)].run = Len(runs)
       /\ boot.previous_session_id = earlier_session

\* Boots that are far enough apart are never taken for the same one.
LEMMA SameBootIsThisRun ==
  ASSUME BootTimeReadable, MinBootGap >= BootTolerance + 2 * MaxDrift,
         TypeOK, RunsInv, SessionsInv, NEW t \in MeasuredBootTimes, Len(sessions) > 0, same_boot(t)
  PROVE  sessions[Len(sessions)].run = Len(runs)
<1> DEFINE n == Len(sessions)
           b == sessions[n].boot_time
           k == sessions[n].run
<1>1. n \in 1..n /\ sessions[n] \in Session /\ Len(runs) \in 1..Len(runs)
  BY LatestSession, LatestRun
<1>2. k \in 1..Len(runs) /\ Near(b, k) /\ Near(t, Len(runs))
  BY <1>1, MeasuredNear DEF SessionsInv
<1>3. runs[k] \in Run /\ runs[Len(runs)] \in Run
  BY <1>1, <1>2, ElementOfSeq DEF TypeOK
<1>4. /\ b \in Nat /\ runs[k].boot \in Nat /\ runs[Len(runs)].boot \in Nat
      /\ t \in Nat /\ Len(runs) \in Nat /\ k \in Nat
  BY <1>1, <1>2, <1>3, LatestRun, MeasuredNear DEF Session, Run, Time
<1>5. Distance(b, t) < BootTolerance
  BY DEF same_boot, latest_session
<1>6. CASE k < Len(runs)
  <2>1. runs[k].boot + MinBootGap <= runs[Len(runs)].boot
    BY <1>1, <1>2, <1>6 DEF RunsInv
  <2> HIDE DEF b, k
  <2> QED
    BY <1>2, <1>4, <1>5, <2>1, SMTT(30) DEF Near, Distance
<1> QED
  BY <1>2, <1>4, <1>6

LEMMA PreviousNext ==
  ASSUME BootTimeReadable, MinBootGap >= BootTolerance + 2 * MaxDrift,
         TypeOK, StepInv, RunsInv, SessionsInv, PreviousInv, [Next]_vars
  PROVE  PreviousInv'
<1> DEFINE n == Len(sessions)
<1>0. n \in Nat
  BY RowsKept
<1>1. CASE UNCHANGED <<runs, sessions, pc, boot>>
  BY <1>1 DEF PreviousInv, earlier_session, latest_session
<1>2. CASE pc' \in {"off", "finalise"}
  BY <1>2 DEF PreviousInv
<1>3. CASE StartFirst
  <2>1. pc' = "create" /\ boot'.previous_session_id = None /\ n = 0 /\ UNCHANGED sessions
    BY <1>3 DEF StartFirst, Started, database, latest_session
  <2> QED
    BY <2>1 DEF PreviousInv
<1>4. CASE RestartService
  <2>1. PICK t \in MeasuredBootTimes : same_boot(t)
    BY <1>4 DEF RestartService
  <2>2. /\ pc' = "collect" /\ boot'.previous_session_id = earlier_session /\ n > 0
        /\ UNCHANGED <<runs, sessions>>
    BY <1>4 DEF RestartService, Started, machine, database, latest_session
  <2>3. sessions[n].run = Len(runs)
    BY <2>1, <2>2, SameBootIsThisRun
  <2> QED
    BY <2>2, <2>3 DEF PreviousInv, earlier_session, latest_session
<1>5. CASE FinalisePrevious
  <2>1. pc' = "create" /\ Len(sessions') = n /\ n > 0
    BY <1>0, <1>5, FinalisedRow DEF FinalisePrevious
  <2>2. boot'.previous_session_id = n
    <3>1. boot.previous_session_id = n /\ boot \in BootResult
      BY <1>5 DEF FinalisePrevious, StepInv, TypeOK
    <3> QED
      BY <1>5, <3>1 DEF FinalisePrevious, BootResult
  <2> QED
    BY <1>0, <2>1, <2>2 DEF PreviousInv
<1>6. CASE CreateSession
  <2>1. /\ pc' \in {"link", "collect"} /\ Len(sessions') = n + 1
        /\ sessions'[n + 1].run = Len(runs) /\ UNCHANGED <<boot, runs>>
        /\ boot.previous_session_id = IF n = 0 THEN None ELSE n
    BY <1>6, CreatedRow DEF CreateSession, PreviousInv, machine
  <2> QED
    BY <1>0, <2>1 DEF PreviousInv, earlier_session, latest_session
<1>7. CASE LinkPrevious
  <2>1. /\ pc' = "collect" /\ Len(sessions') = n /\ sessions'[n].run = sessions[n].run
        /\ UNCHANGED <<boot, runs>> /\ pc = "link"
    BY <1>7, LinkedRow DEF LinkPrevious, machine
  <2> QED
    BY <2>1 DEF PreviousInv, earlier_session, latest_session
<1>8. CASE CollectEvents \/ RunDiagnosis
  BY <1>8 DEF CollectEvents, RunDiagnosis, machine, PreviousInv, earlier_session, latest_session
<1>9. CASE PowerOn \/ RequestShutdown
  <2>1. CASE PowerOn
    BY <2>1, <1>2 DEF PowerOn, RunsInv, agent
  <2>2. CASE RequestShutdown
    BY <1>1, <2>2 DEF RequestShutdown, agent, database
  <2> QED
    BY <1>9, <2>1, <2>2
<1> QED
  BY <1>1, <1>2, <1>3, <1>4, <1>5, <1>6, <1>7, <1>8, <1>9
  DEF Next, Machine, DetectBoot, vars, machine, database, agent, Tick, CompleteShutdown, Halt,
      EndRun, RecordBugcheck, StartAfterReboot, Started, CollectHigh, CollectLow, StopAgent

\* An incident has found its session when it is stored, and later sessions are
\* of its run or of later ones.
LEMMA BlameNext ==
  ASSUME TypeOK, ActivityInv, StepInv, SessionsInv, IncidentsInv, PreviousInv,
         IncidentBlamesLastSession, [Next]_vars
  PROVE  IncidentBlamesLastSession'
<1> DEFINE n == Len(sessions)
           Blames(rows, incident) ==
             LET earlier == {k \in DOMAIN rows : rows[k].run < incident.run}
                 blamed == incident.previous_session_id
             IN IF earlier = {} THEN blamed = None
                ELSE blamed \in earlier /\ \A k \in earlier : k <= blamed
<1>0. /\ n \in Nat /\ DOMAIN sessions = 1..n
      /\ Len(incidents) \in Nat /\ DOMAIN incidents = 1..Len(incidents)
  BY LenProperties DEF TypeOK
<1>1. /\ TypeOK' => DOMAIN sessions' = 1..Len(sessions')
      /\ TypeOK' => DOMAIN incidents' = 1..Len(incidents')
  BY LenProperties DEF TypeOK
<1>2. TypeOK'
  BY NextType
<1>3. ASSUME NEW i \in 1..Len(incidents)
      PROVE  Blames(sessions', incidents[i])
  <2> DEFINE earlier == {k \in DOMAIN sessions : sessions[k].run < incidents[i].run}
             earlier2 == {k \in DOMAIN sessions' : sessions'[k].run < incidents[i].run}
  <2>1. Blames(sessions, incidents[i])
    BY <1>0 DEF IncidentBlamesLastSession
  <2>2. incidents[i].run \in 1..Len(runs)
    BY DEF IncidentsInv
  <2>3. earlier2 = earlier
    <3>1. CASE Len(sessions') = n
      BY <1>0, <1>1, <1>2, <3>1, RowsKept
    <3>2. CASE CreateSession
      <4>1. Len(sessions') = n + 1 /\ sessions'[n + 1].run = Len(runs)
        BY <3>2, CreatedRow
      <4>2. \A k \in 1..n : sessions'[k].run = sessions[k].run
        BY RowsKept
      <4>3. Len(runs) \in Nat
        BY LatestRun
      <4> QED
        BY <1>0, <1>1, <1>2, <2>2, <4>1, <4>2, <4>3
    <3> QED
      BY <3>1, <3>2, RowsKept
  <2> QED
    BY <2>1, <2>3
<1>4. CASE UNCHANGED incidents
  BY <1>0, <1>3, <1>4 DEF IncidentBlamesLastSession
<1>5. CASE RunDiagnosis /\ incidents' # incidents
  <2>1. /\ Len(incidents') = Len(incidents) + 1
        /\ \A i \in 1..Len(incidents) : incidents'[i] = incidents[i]
        /\ incidents'[Len(incidents) + 1].run = Len(runs)
        /\ incidents'[Len(incidents) + 1].previous_session_id = boot.previous_session_id
    BY <1>5, StoredIncident
  <2>2. /\ n > 0 /\ sessions[n].run = Len(runs) /\ boot.previous_session_id = earlier_session
        /\ UNCHANGED sessions
    BY <1>5 DEF RunDiagnosis, PreviousInv
  <2>3. Blames(sessions', incidents'[Len(incidents) + 1])
    <3> DEFINE earlier == {k \in DOMAIN sessions : sessions[k].run < Len(runs)}
    <3>1. earlier = 1..(n - 1)
      <4>1. \A k \in 1..(n - 1) : sessions[k].run < Len(runs)
        BY <1>0, <2>2 DEF SessionsInv
      <4>2. ~(sessions[n].run < Len(runs))
        BY <2>2, LatestRun
      <4> QED
        BY <1>0, <4>1, <4>2
    <3>2. boot.previous_session_id = IF n > 1 THEN n - 1 ELSE None
      BY <2>2 DEF earlier_session, latest_session
    <3>3. IF earlier = {} THEN boot.previous_session_id = None
          ELSE /\ boot.previous_session_id \in earlier
               /\ \A k \in earlier : k <= boot.previous_session_id
      <4> HIDE DEF earlier
      <4> QED
        BY <1>0, <2>2, <3>1, <3>2
    <3> QED
      BY <2>1, <2>2, <3>3
  <2>4. \A i \in DOMAIN incidents' : Blames(sessions', incidents'[i])
    <3> HIDE DEF Blames
    <3> QED
      BY <1>0, <1>1, <1>2, <1>3, <2>1, <2>3
  <2> QED
    BY <2>4 DEF IncidentBlamesLastSession
<1> QED
  BY <1>4, <1>5, IncidentsKept

THEOREM RunsInductive == Spec => [](IInv /\ RunsInv)
<1>1. Init => RunsInv
  BY DEF Init, RunsInv, BootTime, FirstBoot
<1>2. IInv /\ RunsInv /\ [Next]_vars => RunsInv'
  BY RunsNext DEF IInv
<1> QED
  BY <1>1, <1>2, Inductive, PTL DEF Spec

\* While two readings of the boot time differ by less than the 60 s that tell two
\* boots apart, a second session of a boot takes a start that could not read it,
\* whatever the restarts of the service and wherever it is killed.
THEOREM OneSession ==
  ASSUME 2 * MaxDrift < BootTolerance
  PROVE  Spec => []OneSessionPerBoot
<1> DEFINE Inv == RowsInv /\ OneSessionPerBoot
<1>1. Init => Inv
  BY DEF Init, RowsInv, OneSessionPerBoot
<1>2. IInv /\ RunsInv /\ Inv /\ [Next]_vars => Inv'
  BY RowsNext, OneSessionNext DEF IInv
<1> QED
  BY <1>1, <1>2, RunsInductive, PTL DEF Spec

\* While two readings differ by no more than the 5 s that tell two incidents apart,
\* a second incident of a boot takes a start that could not read the boot time.
THEOREM OneIncident ==
  ASSUME 2 * MaxDrift <= IncidentTolerance
  PROVE  Spec => []OneIncidentPerBoot
<1> DEFINE Inv == IncidentRuns /\ OneIncidentPerBoot
<1>1. Init => Inv
  BY DEF Init, IncidentRuns, OneIncidentPerBoot
<1>2. IInv /\ Inv /\ [Next]_vars => Inv'
  BY OneIncidentNext DEF IInv
<1> QED
  BY <1>1, <1>2, Inductive, PTL DEF Spec

\* While the boot time can be read at every start, the sessions, and the incidents,
\* are those of different boots, in their order, and near them.
THEOREM SessionsOfBoots ==
  ASSUME BootTimeReadable, 2 * MaxDrift < BootTolerance
  PROVE  Spec => [](IInv /\ RunsInv /\ SessionsInv)
<1>1. Init => SessionsInv
  BY DEF Init, SessionsInv
<1>2. IInv /\ RunsInv /\ SessionsInv /\ [Next]_vars => SessionsInv'
  BY SessionsNext DEF IInv
<1> QED
  BY <1>1, <1>2, RunsInductive, PTL DEF Spec

THEOREM IncidentsOfBoots ==
  ASSUME BootTimeReadable, 2 * MaxDrift < BootTolerance, 2 * MaxDrift <= IncidentTolerance
  PROVE  Spec => [](IInv /\ SessionsInv /\ IncidentsInv)
<1>1. Init => IncidentsInv
  BY DEF Init, IncidentsInv
<1>2. IInv /\ SessionsInv /\ IncidentsInv /\ [Next]_vars => IncidentsInv'
  BY IncidentsNext DEF IInv
<1> QED
  BY <1>1, <1>2, SessionsOfBoots, PTL DEF Spec

\* When boots are also so far apart that two of them are never taken for one,
\* every incident blames the session that came last before its boot.
THEOREM BlamesTheLast ==
  ASSUME BootTimeReadable, 2 * MaxDrift < BootTolerance, 2 * MaxDrift <= IncidentTolerance,
         MinBootGap >= BootTolerance + 2 * MaxDrift
  PROVE  Spec => []IncidentBlamesLastSession
<1> DEFINE Inv == PreviousInv /\ IncidentBlamesLastSession
<1>1. Init => Inv
  BY DEF Init, PreviousInv, IncidentBlamesLastSession
<1>2. IInv /\ RunsInv /\ SessionsInv /\ IncidentsInv /\ Inv /\ [Next]_vars => Inv'
  BY PreviousNext, BlameNext DEF IInv
<1> QED
  BY <1>1, <1>2, SessionsOfBoots, IncidentsOfBoots, PTL DEF Spec
-------------------------------------------------------------------------------
(* What the event log says of the runs.                                    *)

\* A record of a run was written at least MinOffTime before the runs after it
\* began, and the record of a completed shutdown belongs to a run that ended so.
Written(record, boots, now) ==
  /\ record.run \in 1..Len(boots)
  /\ record.timestamp <= now
  /\ \A k \in 1..Len(boots) : record.run < k => record.timestamp + MinOffTime <= boots[k].boot
  /\ record.kind = clean_shutdown_6006 => boots[record.run].end = "clean"

LogInv ==
  /\ os # "down" => runs[Len(runs)].end = "running"
  /\ os = "down" => \A i \in 1..Len(log) : log[i].timestamp <= runs[Len(runs)].at
  /\ \A i \in 1..Len(log) : Written(log[i], runs, clock)
  /\ pending \subseteq {bugcheck_1001}

\* The log only grows, by one record at a time.
LEMMA LogRows ==
  ASSUME TypeOK, [Next]_vars
  PROVE  LET n == Len(log) IN
         /\ n \in Nat /\ \A i \in 1..n : log'[i] = log[i]
         /\ \/ UNCHANGED log
            \/ /\ Len(log') = n + 1
               /\ \/ RequestShutdown /\ log'[n + 1] = Stamped(user32_1074)
                  \/ CompleteShutdown /\ log'[n + 1] = Stamped(clean_shutdown_6006)
                  \/ /\ RecordBugcheck
                     /\ \E kind \in pending : /\ log'[n + 1] = Stamped(kind)
                                             /\ pending' = pending \ {kind}
                  \/ /\ PowerOn
                     /\ \E kind \in RecordedAtBoot(runs[Len(runs)].end) :
                          log'[n + 1] = [kind |-> kind, timestamp |-> clock, run |-> Len(runs) + 1]
<1> DEFINE n == Len(log)
<1>1. n \in Nat
  BY LenProperties DEF TypeOK
<1>2. ASSUME NEW kind \in EventKinds, NEW run \in Time,
             log' = Append(log, [kind |-> kind, timestamp |-> clock, run |-> run])
      PROVE  /\ Len(log') = n + 1 /\ \A i \in 1..n : log'[i] = log[i]
             /\ log'[n + 1] = [kind |-> kind, timestamp |-> clock, run |-> run]
  <2>1. [kind |-> kind, timestamp |-> clock, run |-> run] \in Record
    BY DEF Record, TypeOK
  <2> QED
    BY <1>2, <2>1, AppendProperties DEF TypeOK
<1>3. Len(runs) \in Time /\ Len(runs) + 1 \in Time
  BY LatestRun DEF Time
<1>4. CASE RequestShutdown
  <2>1. log' = Append(log, Stamped(user32_1074)) /\ user32_1074 \in EventKinds
    BY <1>4, EventTypes DEF RequestShutdown
  <2> QED
    BY <1>1, <1>2, <1>3, <1>4, <2>1 DEF Stamped
<1>5. CASE CompleteShutdown
  <2>1. log' = Append(log, Stamped(clean_shutdown_6006)) /\ clean_shutdown_6006 \in EventKinds
    BY <1>5, EventTypes DEF CompleteShutdown
  <2> QED
    BY <1>1, <1>2, <1>3, <1>5, <2>1 DEF Stamped
<1>6. CASE RecordBugcheck
  <2>1. PICK kind \in pending : pending' = pending \ {kind} /\ log' = Append(log, Stamped(kind))
    BY <1>6 DEF RecordBugcheck
  <2>2. kind \in EventKinds
    BY DEF TypeOK
  <2>3. /\ Len(log') = n + 1 /\ \A i \in 1..n : log'[i] = log[i] /\ log'[n + 1] = Stamped(kind)
    BY <1>2, <1>3, <2>1, <2>2 DEF Stamped
  <2> QED
    BY <1>1, <1>6, <2>1, <2>3
<1>7. CASE PowerOn
  <2>1. CASE UNCHANGED log
    BY <1>1, <2>1
  <2>2. ASSUME NEW kind \in RecordedAtBoot(runs[Len(runs)].end),
               log' = Append(log, [kind |-> kind, timestamp |-> clock, run |-> Len(runs) + 1])
        PROVE  /\ Len(log') = n + 1 /\ \A i \in 1..n : log'[i] = log[i]
               /\ log'[n + 1] = [kind |-> kind, timestamp |-> clock, run |-> Len(runs) + 1]
    BY <1>2, <1>3, <2>2, EventTypes
  <2>3. \/ UNCHANGED log
        \/ \E kind \in RecordedAtBoot(runs[Len(runs)].end) :
             log' = Append(log, [kind |-> kind, timestamp |-> clock, run |-> Len(runs) + 1])
    BY <1>7 DEF PowerOn
  <2>4. CASE ~(UNCHANGED log)
    <3>1. PICK kind \in RecordedAtBoot(runs[Len(runs)].end) :
            log' = Append(log, [kind |-> kind, timestamp |-> clock, run |-> Len(runs) + 1])
      BY <2>3, <2>4
    <3>2. /\ Len(log') = n + 1 /\ \A i \in 1..n : log'[i] = log[i]
          /\ log'[n + 1] = [kind |-> kind, timestamp |-> clock, run |-> Len(runs) + 1]
      BY <2>2, <3>1
    <3> QED
      BY <1>1, <1>7, <3>2
  <2> QED
    BY <2>1, <2>4
<1>8. CASE UNCHANGED log
  BY <1>1, <1>8
<1> QED
  BY <1>4, <1>5, <1>6, <1>7, <1>8
  DEF Next, Machine, DetectBoot, vars, machine, Tick, Halt, StartFirst, StartAfterReboot,
      RestartService, Started, FinalisePrevious, CreateSession, LinkPrevious, CollectEvents,
      RunDiagnosis, CollectHigh, CollectLow, StopAgent

\* The kinds are told apart by their identifiers.
LEMMA KindsDiffer ==
  /\ clean_shutdown_6006 \notin {user32_1074, kernel_power_41, unexpected_shutdown_6008, bugcheck_1001}
  /\ user32_1074 \notin {kernel_power_41, unexpected_shutdown_6008, bugcheck_1001}
<1>1. /\ user32_1074.event_id = 1074 /\ clean_shutdown_6006.event_id = 6006
      /\ unexpected_shutdown_6008.event_id = 6008 /\ kernel_power_41.event_id = 41
      /\ bugcheck_1001.event_id = 1001
  BY DEF Event, user32_1074, clean_shutdown_6006, unexpected_shutdown_6008, kernel_power_41,
         bugcheck_1001
<1> QED
  BY <1>1

LEMMA LogNext ==
  ASSUME TypeOK, RunsInv, LogInv, [Next]_vars
  PROVE  LogInv'
<1> DEFINE n == Len(log)
           m == Len(runs)
<1>1. /\ m \in Nat \ {0} /\ n \in Nat /\ clock \in Nat
      /\ \A i \in 1..n : log[i].timestamp \in Nat /\ log[i].run \in 1..m
      /\ \A k \in 1..m : runs[k].boot \in Nat
  <2>1. \A i \in 1..n : log[i] \in Record
    BY ElementOfSeq DEF TypeOK
  <2>2. \A k \in 1..m : runs[k] \in Run
    BY ElementOfSeq DEF TypeOK
  <2>3. \A i \in 1..n : log[i].run \in 1..m
    BY DEF LogInv, Written
  <2> QED
    BY <2>1, <2>2, <2>3, LatestRun, LogRows DEF TypeOK, Time, Record, Run
<1>2. CASE CompleteShutdown \/ Halt
  <2>1. PICK end \in UncleanEnds \cup {"clean"} :
          EndRun(end) /\ ((CompleteShutdown /\ end = "clean") \/ Halt)
    BY <1>2 DEF CompleteShutdown, Halt
  <2>2. /\ Len(runs') = m /\ \A k \in 1..m : runs'[k].boot = runs[k].boot
        /\ \A k \in 1..(m - 1) : runs'[k] = runs[k]
        /\ runs'[m].end = end /\ runs'[m].at = clock
        /\ os' = "down" /\ clock' = clock /\ pending' = pending
    <3>1. /\ Len(runs') = m /\ \A k \in 1..(m - 1) : runs'[k] = runs[k]
          /\ runs'[m].boot = runs[m].boot /\ runs'[m].end = end /\ runs'[m].at = clock
      BY <2>1, EndedRun
    <3> QED
      BY <1>1, <2>1, <3>1, SMTT(30) DEF EndRun
  <2>3. os # "down" /\ (log' # log => CompleteShutdown /\ end = "clean")
    BY <2>1 DEF CompleteShutdown, Halt
  <2>4. ASSUME NEW i \in 1..n PROVE Written(log[i], runs', clock') /\ log[i].timestamp <= clock
    <3>1. Written(log[i], runs, clock)
      BY DEF LogInv
    <3>2. log[i].kind = clean_shutdown_6006 => runs'[log[i].run].end = "clean"
      <4> SUFFICES ASSUME log[i].kind = clean_shutdown_6006
          PROVE runs'[log[i].run].end = "clean"
        OBVIOUS
      <4>1. runs[log[i].run].end = "clean" /\ runs[m].end = "running"
        BY <2>3, <3>1 DEF Written, LogInv
      <4>2. log[i].run # m /\ log[i].run \in 1..m
        BY <1>1, <4>1
      <4>3. log[i].run \in 1..(m - 1)
        BY <1>1, <4>2
      <4> QED
        BY <2>2, <4>1, <4>3
    <3> QED
      BY <1>1, <2>2, <3>1, <3>2 DEF Written
  <2>5. CASE UNCHANGED log
    BY <1>1, <2>2, <2>4, <2>5 DEF LogInv
  <2>6. CASE log' # log
    <3>1. /\ Len(log') = n + 1 /\ log'[n + 1] = Stamped(clean_shutdown_6006)
          /\ \A i \in 1..n : log'[i] = log[i]
      BY <2>1, <2>3, <2>6, LogRows DEF CompleteShutdown, RequestShutdown, RecordBugcheck, PowerOn, EndRun
    <3>2. Written(log'[n + 1], runs', clock') /\ log'[n + 1].timestamp <= clock
      BY <1>1, <2>2, <2>3, <2>6, <3>1 DEF Written, Stamped
    <3>3. \A i \in 1..Len(log') : Written(log'[i], runs', clock') /\ log'[i].timestamp <= clock
      <4> SUFFICES ASSUME NEW i \in 1..Len(log')
          PROVE Written(log'[i], runs', clock') /\ log'[i].timestamp <= clock
        OBVIOUS
      <4>1. CASE i = n + 1
        BY <3>2, <4>1
      <4>2. CASE i \in 1..n
        BY <2>4, <3>1, <4>2
      <4> QED
        BY <1>1, <3>1, <4>1, <4>2
    <3> QED
      BY <2>2, <3>3 DEF LogInv
  <2> QED
    BY <2>5, <2>6
<1>3. CASE PowerOn
  <2>1. /\ Len(runs') = m + 1 /\ \A k \in 1..m : runs'[k] = runs[k]
        /\ runs'[m + 1].boot = clock /\ runs'[m + 1].end = "running"
        /\ os = "down" /\ os' = "up" /\ clock' = clock
        /\ runs[m].at + MinOffTime <= clock /\ runs[m].at \in Nat
        /\ pending' = RecordedLater(runs[m].end)
    BY <1>3, BegunRun DEF PowerOn, RunsInv
  <2>2. pending' \subseteq {bugcheck_1001}
    BY <2>1 DEF RecordedLater
  <2>3. ASSUME NEW i \in 1..n PROVE Written(log[i], runs', clock')
    <3>1. Written(log[i], runs, clock) /\ log[i].timestamp <= runs[m].at
      BY <2>1 DEF LogInv
    <3>2. log[i].timestamp + MinOffTime <= clock
      <4>1. log[i].timestamp \in Nat /\ MinOffTime \in Nat /\ clock \in Nat
        <5>1. log[i] \in Record
          BY ElementOfSeq DEF TypeOK
        <5> QED
          BY <5>1, MachineAssumption DEF Record, Time, TypeOK
      <4> QED
        BY <2>1, <3>1, <4>1
    <3>3. log[i].run \in 1..m /\ runs'[log[i].run] = runs[log[i].run]
      BY <1>1, <2>1
    <3>4. ASSUME NEW k \in 1..(m + 1), log[i].run < k
          PROVE  log[i].timestamp + MinOffTime <= runs'[k].boot
      <4>1. CASE k = m + 1
        BY <2>1, <3>2, <4>1
      <4>2. CASE k \in 1..m
        BY <2>1, <3>1, <3>4, <4>2 DEF Written
      <4> QED
        BY <1>1, <4>1, <4>2
    <3> QED
      BY <1>1, <2>1, <3>1, <3>3, <3>4 DEF Written
  <2>4. ASSUME Len(log') = n + 1,
               NEW kind \in RecordedAtBoot(runs[m].end),
               log'[n + 1] = [kind |-> kind, timestamp |-> clock, run |-> m + 1]
        PROVE  Written(log'[n + 1], runs', clock')
    <3>1. kind # clean_shutdown_6006
      BY KindsDiffer DEF RecordedAtBoot
    <3> QED
      BY <1>1, <2>1, <2>4, <3>1 DEF Written
  <2>5. CASE UNCHANGED log
    BY <2>1, <2>2, <2>3, <2>5 DEF LogInv
  <2>6. CASE log' # log
    <3>1. /\ Len(log') = n + 1 /\ \A i \in 1..n : log'[i] = log[i]
          /\ \E kind \in RecordedAtBoot(runs[m].end) :
               log'[n + 1] = [kind |-> kind, timestamp |-> clock, run |-> m + 1]
      BY <2>1, <2>6, LogRows DEF RequestShutdown, RecordBugcheck, CompleteShutdown
    <3>2. \A i \in 1..Len(log') : Written(log'[i], runs', clock')
      <4> SUFFICES ASSUME NEW i \in 1..Len(log') PROVE Written(log'[i], runs', clock')
        OBVIOUS
      <4>1. CASE i = n + 1
        BY <2>4, <3>1, <4>1
      <4>2. CASE i \in 1..n
        BY <2>3, <3>1, <4>2
      <4> QED
        BY <1>1, <3>1, <4>1, <4>2
    <3> QED
      BY <2>1, <2>2, <3>2 DEF LogInv
  <2> QED
    BY <2>5, <2>6
<1>4. CASE RequestShutdown \/ RecordBugcheck
  <2>1. /\ UNCHANGED <<runs, clock>> /\ os # "down" /\ os' # "down" /\ runs[m].end = "running"
        /\ pending' \subseteq pending
    BY <1>4 DEF RequestShutdown, RecordBugcheck, LogInv
  <2>2. CASE UNCHANGED log
    BY <2>1, <2>2 DEF LogInv
  <2>3. CASE log' # log
    <3>1. PICK kind \in {user32_1074, bugcheck_1001} :
            /\ Len(log') = n + 1 /\ \A i \in 1..n : log'[i] = log[i]
            /\ log'[n + 1] = Stamped(kind)
      BY <1>4, <2>1, <2>3, LogRows DEF CompleteShutdown, PowerOn, EndRun, LogInv
    <3>2. Written(log'[n + 1], runs', clock')
      BY <1>1, <2>1, <3>1, KindsDiffer DEF Written, Stamped
    <3>3. \A i \in 1..Len(log') : Written(log'[i], runs', clock')
      <4> SUFFICES ASSUME NEW i \in 1..Len(log') PROVE Written(log'[i], runs', clock')
        OBVIOUS
      <4>1. CASE i = n + 1
        BY <3>2, <4>1
      <4>2. CASE i \in 1..n
        BY <2>1, <3>1, <4>2 DEF LogInv
      <4> QED
        BY <1>1, <3>1, <4>1, <4>2
    <3> QED
      BY <2>1, <3>3 DEF LogInv
  <2> QED
    BY <2>2, <2>3
<1>5. CASE UNCHANGED <<os, runs, pending, log>> /\ (clock' = clock \/ clock' = clock + 1)
  <2>1. \A i \in 1..n : Written(log[i], runs, clock')
    BY <1>1, <1>5 DEF LogInv, Written
  <2> QED
    BY <1>5, <2>1 DEF LogInv
<1> QED
  BY <1>2, <1>3, <1>4, <1>5
  DEF Next, Machine, DetectBoot, vars, machine, Tick, CompleteShutdown, Halt, StartFirst,
      StartAfterReboot, RestartService, Started, FinalisePrevious, CreateSession, LinkPrevious,
      CollectEvents, RunDiagnosis, CollectHigh, CollectLow, StopAgent

\* What an unclean end of the run before leaves in the log at a boot.  The
\* BugCheck record that may follow is not needed: the rest is evidence enough.
Evidence(end, boot_time, rows) ==
  end \in UncleanEnds =>
    \E i \in 1..Len(rows) : /\ rows[i].kind \in {kernel_power_41, unexpected_shutdown_6008}
                           /\ rows[i].timestamp = boot_time

EvidenceInv ==
  Len(runs) > 1 => Evidence(runs[Len(runs) - 1].end, BootTime, log)

LEMMA EvidenceNext ==
  ASSUME TypeOK, EvidenceInv, [Next]_vars
  PROVE  EvidenceInv'
<1> DEFINE n == Len(log)
           m == Len(runs)
<1>1. /\ m \in Nat \ {0} /\ n \in Nat /\ \A i \in 1..n : log'[i] = log[i]
      /\ Len(log') \in Nat /\ Len(log') >= n
  BY LatestRun, LogRows
<1>2. CASE PowerOn
  <2>1. Len(runs') = m + 1 /\ runs'[m] = runs[m] /\ runs'[m + 1].boot = clock
    BY <1>1, <1>2, BegunRun
  <2>2. Evidence(runs[m].end, clock, log')
    <3> SUFFICES ASSUME runs[m].end \in UncleanEnds
        PROVE \E i \in 1..Len(log') :
                /\ log'[i].kind \in {kernel_power_41, unexpected_shutdown_6008}
                /\ log'[i].timestamp = clock
      BY DEF Evidence
    <3>1. /\ RecordedAtBoot(runs[m].end) # {}
          /\ RecordedAtBoot(runs[m].end) \subseteq {kernel_power_41, unexpected_shutdown_6008}
      BY DEF RecordedAtBoot, UncleanEnds
    <3>2. PICK kind \in {kernel_power_41, unexpected_shutdown_6008} :
            log' = Append(log, [kind |-> kind, timestamp |-> clock, run |-> m + 1])
      BY <1>2, <3>1 DEF PowerOn
    <3>3. [kind |-> kind, timestamp |-> clock, run |-> m + 1] \in Record
      BY <1>1 DEF Record, EventKinds, TypeOK, Time
    <3>4. /\ Len(log') = n + 1 /\ log'[n + 1].timestamp = clock
          /\ log'[n + 1].kind \in {kernel_power_41, unexpected_shutdown_6008}
      BY <3>2, <3>3, AppendProperties DEF TypeOK
    <3>5. n + 1 \in 1..Len(log')
      BY <1>1, <3>4
    <3> QED
      BY <3>4, <3>5
  <2> QED
    BY <1>1, <2>1, <2>2 DEF EvidenceInv, BootTime
<1>3. CASE ~PowerOn
  <2>1. /\ Len(runs') = m /\ runs'[m].boot = runs[m].boot
        /\ m > 1 => runs'[m - 1] = runs[m - 1]
    BY <1>1, <1>3, RunsKept
  <2>2. BootTime' = BootTime
    BY <2>1 DEF BootTime
  <2>3. ASSUME NEW end, Evidence(end, BootTime, log) PROVE Evidence(end, BootTime, log')
    <3> SUFFICES ASSUME end \in UncleanEnds
        PROVE \E i \in 1..Len(log') :
                /\ log'[i].kind \in {kernel_power_41, unexpected_shutdown_6008}
                /\ log'[i].timestamp = BootTime
      BY DEF Evidence
    <3>1. PICK i \in 1..n : /\ log[i].kind \in {kernel_power_41, unexpected_shutdown_6008}
                           /\ log[i].timestamp = BootTime
      BY <2>3 DEF Evidence
    <3>2. i \in 1..Len(log') /\ log'[i] = log[i]
      BY <1>1
    <3> QED
      BY <3>1, <3>2
  <2>4. m > 1 => Evidence(runs'[m - 1].end, BootTime, log')
    BY <2>1, <2>3 DEF EvidenceInv
  <2> QED
    BY <2>1, <2>2, <2>4 DEF EvidenceInv
<1> QED
  BY <1>2, <1>3

\* The category of each kind of record.
LEMMA KindCategories ==
  ASSUME NEW i
  PROVE  /\ log[i].kind \in EventKinds /\ classify_event(Row(i)) = "shutdown_clean" =>
              log[i].kind \in {user32_1074, clean_shutdown_6006}
         /\ log[i].kind = unexpected_shutdown_6008 => classify_event(Row(i)) = "shutdown_unexpected"
         /\ log[i].kind = kernel_power_41 => classify_event(Row(i)) = "kernel_power"
         /\ log[i].kind = bugcheck_1001 => classify_event(Row(i)) = "bugcheck"
<1>1. \A id \in Int : id # None
  OBVIOUS
<1>2. log[i].kind = unexpected_shutdown_6008 => classify_event(Row(i)) = "shutdown_unexpected"
  BY <1>1 DEF unexpected_shutdown_6008, Event, Row, classify_event, event_id,
              SHUTDOWN_CLEAN_IDS, SHUTDOWN_UNEXPECTED_IDS
<1>3. log[i].kind = kernel_power_41 => classify_event(Row(i)) = "kernel_power"
  BY <1>1 DEF kernel_power_41, Event, Row, classify_event, event_id
<1>4. log[i].kind = bugcheck_1001 => classify_event(Row(i)) = "bugcheck"
  BY <1>1 DEF bugcheck_1001, Event, Row, classify_event, event_id
<1> QED
  BY <1>2, <1>3, <1>4 DEF EventKinds

\* A flag of the summary is set exactly when the window has such a row.
LEMMA SummaryFlags ==
  ASSUME TypeOK, NEW start \in Int, NEW boot_time \in Int
  PROVE  LET summary == transition_summary(start, boot_time)
             seen == events_between(start, boot_time + BootMargin)
         IN /\ summary.clean_shutdown =>
                 \E i \in seen : log[i].kind \in {user32_1074, clean_shutdown_6006}
            /\ (\E i \in seen : log[i].kind = unexpected_shutdown_6008) =>
                 summary.unexpected_shutdown_event
            /\ (\E i \in seen : log[i].kind = kernel_power_41) => summary.kernel_power_detected
            /\ (\E i \in seen : log[i].kind = bugcheck_1001) => summary.bugcheck_detected
<1> DEFINE summary == transition_summary(start, boot_time)
           seen == events_between(start, boot_time + BootMargin)
           rows == {Row(i) : i \in seen}
           Of(cat) == {ev \in rows : classify_event(ev) = cat}
<1>1. seen \subseteq 1..tailed /\ tailed \in Nat /\ Len(log) \in Nat /\ tailed <= Len(log)
  BY LenProperties DEF events_between, TypeOK
<1>2. IsFiniteSet(rows)
  <2>1. IsFiniteSet(1..tailed)
    BY <1>1, FS_Interval
  <2>2. IsFiniteSet(seen)
    <3> HIDE DEF seen
    <3> QED
      BY <1>1, <2>1, FS_Subset
  <2> DEFINE f == [i \in seen |-> Row(i)]
  <2> HIDE DEF seen
  <2>3. f \in Surjection(seen, rows)
    BY DEF Surjection
  <2> HIDE DEF f, rows
  <2> QED
    BY <2>2, <2>3, FS_Surjection
<1>3. ASSUME NEW cat PROVE (Cardinality(Of(cat)) > 0) <=> (\E ev \in rows : classify_event(ev) = cat)
  <2> HIDE DEF rows
  <2>1. IsFiniteSet(Of(cat))
    BY <1>2, FS_Subset
  <2>2. Cardinality(Of(cat)) \in Nat /\ (Cardinality(Of(cat)) = 0 <=> Of(cat) = {})
    <3> HIDE DEF Of
    <3> QED
      BY <2>1, FS_CardinalityType, FS_EmptySet
  <2>3. Of(cat) = {} <=> ~(\E ev \in rows : classify_event(ev) = cat)
    OBVIOUS
  <2> QED
    BY <2>2, <2>3
<1>4. /\ summary.clean_shutdown = (Cardinality(Of("shutdown_clean")) > 0)
      /\ summary.unexpected_shutdown_event = (Cardinality(Of("shutdown_unexpected")) > 0)
      /\ summary.kernel_power_detected = (Cardinality(Of("kernel_power")) > 0)
      /\ summary.bugcheck_detected = (Cardinality(Of("bugcheck")) > 0)
  BY DEF transition_summary, summarize
<1> HIDE DEF summary, Of
<1>5. ASSUME NEW i \in seen PROVE log[i].kind \in EventKinds
  <2>1. i \in 1..Len(log) /\ log \in Seq(Record)
    BY <1>1 DEF TypeOK
  <2>2. log[i] \in Record
    BY <2>1, ElementOfSeq
  <2> QED
    BY <2>2 DEF Record
<1>6. summary.clean_shutdown =>
        \E i \in seen : log[i].kind \in {user32_1074, clean_shutdown_6006}
  <2> SUFFICES ASSUME summary.clean_shutdown
      PROVE \E i \in seen : log[i].kind \in {user32_1074, clean_shutdown_6006}
    OBVIOUS
  <2>1. PICK ev \in rows : classify_event(ev) = "shutdown_clean"
    BY <1>3, <1>4
  <2>2. PICK i \in seen : classify_event(Row(i)) = "shutdown_clean"
    BY <2>1
  <2> QED
    BY <1>5, <2>2, KindCategories
<1>7. (\E i \in seen : log[i].kind = unexpected_shutdown_6008) => summary.unexpected_shutdown_event
  <2> SUFFICES ASSUME NEW i \in seen, log[i].kind = unexpected_shutdown_6008
      PROVE summary.unexpected_shutdown_event
    OBVIOUS
  <2>1. Row(i) \in rows /\ classify_event(Row(i)) = "shutdown_unexpected"
    BY KindCategories
  <2> QED
    BY <1>3, <1>4, <2>1
<1>8. (\E i \in seen : log[i].kind = kernel_power_41) => summary.kernel_power_detected
  <2> SUFFICES ASSUME NEW i \in seen, log[i].kind = kernel_power_41
      PROVE summary.kernel_power_detected
    OBVIOUS
  <2>1. Row(i) \in rows /\ classify_event(Row(i)) = "kernel_power"
    BY KindCategories
  <2> QED
    BY <1>3, <1>4, <2>1
<1>9. (\E i \in seen : log[i].kind = bugcheck_1001) => summary.bugcheck_detected
  <2> SUFFICES ASSUME NEW i \in seen, log[i].kind = bugcheck_1001
      PROVE summary.bugcheck_detected
    OBVIOUS
  <2>1. Row(i) \in rows /\ classify_event(Row(i)) = "bugcheck"
    BY KindCategories
  <2> QED
    BY <1>3, <1>4, <2>1
<1> QED
  BY <1>6, <1>7, <1>8, <1>9 DEF summary
-------------------------------------------------------------------------------
(* The window of the evidence and the verdict on the previous run.         *)

\* A stored or found previous boot time lies before the boot it precedes.
WindowInv ==
  /\ \A i \in 1..Len(sessions) :
       sessions[i].previous_boot_time # None =>
         sessions[i].previous_boot_time < runs[sessions[i].run].boot
  /\ pc # "off" /\ boot.previous_boot_time # None => boot.previous_boot_time < BootTime

\* A measured boot time of an earlier run lies before the boot of a later one.
LEMMA EarlierBoot ==
  ASSUME MinBootGap >= BootTolerance + 2 * MaxDrift, TypeOK, RunsInv, SessionsInv,
         NEW i \in 1..Len(sessions), NEW k \in 1..Len(runs), sessions[i].run < k
  PROVE  sessions[i].boot_time < runs[k].boot
<1>1. /\ sessions[i].run \in 1..Len(runs)
      /\ Near(sessions[i].boot_time, sessions[i].run)
  BY DEF SessionsInv
<1>2. /\ sessions[i].boot_time \in Nat /\ runs[k].boot \in Nat
      /\ runs[sessions[i].run].boot \in Nat
  <2>1. sessions[i] \in Session /\ runs[k] \in Run /\ runs[sessions[i].run] \in Run
    BY <1>1, ElementOfSeq DEF TypeOK
  <2> QED
    BY <2>1 DEF Session, Run, Time
<1>3. runs[sessions[i].run].boot + MinBootGap <= runs[k].boot
  BY <1>1 DEF RunsInv
<1>4. sessions[i].boot_time <= runs[sessions[i].run].boot + MaxDrift
  BY <1>1 DEF Near
<1>5. ASSUME NEW t \in Nat, NEW a \in Nat, NEW b \in Nat,
             a + MinBootGap <= b, t <= a + MaxDrift
      PROVE  t < b
  BY <1>5
<1> QED
  BY <1>2, <1>3, <1>4, <1>5

LEMMA WindowNext ==
  ASSUME BootTimeReadable, 2 * MaxDrift < BootTolerance,
         MinBootGap >= BootTolerance + 2 * MaxDrift,
         TypeOK, StepInv, RunsInv, SessionsInv, PreviousInv, WindowInv, [Next]_vars
  PROVE  WindowInv'
<1> DEFINE n == Len(sessions)
           m == Len(runs)
<1>1. /\ n \in Nat /\ m \in Nat \ {0} /\ m \in 1..m
      /\ Len(sessions') = n \/ (CreateSession /\ Len(sessions') = n + 1)
      /\ \A i \in 1..n : sessions'[i].run = sessions[i].run
      /\ \A k \in 1..m : runs'[k].boot = runs[k].boot
  BY RowsKept, RunsKept
<1>2. ASSUME NEW i \in 1..n, sessions'[i].previous_boot_time # None
      PROVE  sessions'[i].previous_boot_time < runs'[sessions'[i].run].boot
  <2>1. sessions[i].run \in 1..m /\ runs'[sessions'[i].run].boot = runs[sessions[i].run].boot
    BY <1>1 DEF SessionsInv
  <2>2. CASE sessions'[i].previous_boot_time = sessions[i].previous_boot_time
    BY <1>2, <2>1, <2>2 DEF WindowInv
  <2>3. CASE LinkPrevious /\ i = n
    <3>1. /\ n > 1 /\ sessions'[n].previous_boot_time = sessions[n - 1].boot_time
          /\ n - 1 \in 1..n
      BY <2>3, LinkedRow
    <3>2. sessions[n - 1].run < sessions[n].run
      BY <1>1, <3>1, SMTT(30) DEF SessionsInv
    <3>3. sessions[n - 1].boot_time < runs[sessions[n].run].boot
      BY <2>1, <2>3, <3>1, <3>2, EarlierBoot
    <3> QED
      BY <2>1, <2>3, <3>1, <3>3
  <2>4. CASE FinalisePrevious
    <3>1. sessions'[i].previous_boot_time = sessions[i].previous_boot_time
      BY <1>1, <2>4, FinalisedRow
    <3> QED
      BY <2>2, <3>1
  <2>5. CASE LinkPrevious /\ i # n
    <3>1. sessions'[i] = sessions[i]
      BY <1>1, <2>5, LinkedRow
    <3> QED
      BY <2>2, <3>1
  <2>6. CASE CreateSession
    <3>1. sessions'[i] = sessions[i]
      BY <1>1, <2>6, CreatedRow
    <3> QED
      BY <2>2, <3>1
  <2>7. CASE UNCHANGED sessions
    BY <2>2, <2>7
  <2> QED
    BY <2>3, <2>4, <2>5, <2>6, <2>7
    DEF Next, Machine, DetectBoot, vars, database, Tick, RequestShutdown, CompleteShutdown, Halt,
        EndRun, PowerOn, RecordBugcheck, StartFirst, StartAfterReboot, RestartService, Started,
        CollectEvents, RunDiagnosis, CollectHigh, CollectLow, StopAgent
<1>3. CreateSession => sessions'[n + 1].previous_boot_time = None
  BY CreatedRow
<1>4. \A i \in 1..Len(sessions') : sessions'[i].previous_boot_time # None =>
        sessions'[i].previous_boot_time < runs'[sessions'[i].run].boot
  <2> SUFFICES ASSUME NEW i \in 1..Len(sessions'), sessions'[i].previous_boot_time # None
      PROVE sessions'[i].previous_boot_time < runs'[sessions'[i].run].boot
    OBVIOUS
  <2>1. i \in 1..n
    BY <1>1, <1>3
  <2> QED
    BY <1>2, <2>1
<1>5. pc' # "off" /\ boot'.previous_boot_time # None =>
        boot'.previous_boot_time < runs'[Len(runs')].boot
  <2> SUFFICES ASSUME pc' # "off", boot'.previous_boot_time # None
      PROVE boot'.previous_boot_time < runs'[Len(runs')].boot
    OBVIOUS
  <2>1. UNCHANGED runs
    BY AgentStep
  <2>2. CASE pc # "off" /\ boot'.previous_boot_time = boot.previous_boot_time
    BY <2>1, <2>2 DEF WindowInv, BootTime
  <2>3. CASE StartFirst
    BY <2>3 DEF StartFirst, Started
  <2>4. CASE StartAfterReboot
    <3>1. PICK t \in MeasuredBootTimes : ~same_boot(t)
      BY <2>4 DEF StartAfterReboot
    <3>2. n > 0 /\ boot'.previous_boot_time = sessions[n].boot_time
      BY <2>4 DEF StartAfterReboot, Started, latest_session
    <3>3. n \in 1..n /\ sessions[n].run < m
      BY <1>1, <3>1, <3>2, RebootIsNew
    <3> QED
      BY <1>1, <2>1, <3>2, <3>3, EarlierBoot
  <2>5. CASE RestartService
    <3>1. PICK t \in MeasuredBootTimes : same_boot(t)
      BY <2>5 DEF RestartService
    <3>2. n > 0 /\ boot'.previous_boot_time = sessions[n].previous_boot_time
      BY <2>5 DEF RestartService, Started, latest_session
    <3>3. n \in 1..n /\ sessions[n].run = m
      BY <1>1, <3>1, <3>2, SameBootIsThisRun
    <3> QED
      BY <2>1, <3>2, <3>3 DEF WindowInv
  <2>6. CASE FinalisePrevious
    <3>1. pc # "off" /\ boot \in BootResult
      BY <2>6 DEF FinalisePrevious, TypeOK
    <3>2. boot'.previous_boot_time = boot.previous_boot_time
      BY <2>6, <3>1 DEF FinalisePrevious, BootResult
    <3> QED
      BY <2>2, <3>1, <3>2
  <2>7. CASE CreateSession \/ LinkPrevious \/ CollectEvents \/ RunDiagnosis
    BY <2>2, <2>7 DEF CreateSession, LinkPrevious, CollectEvents, RunDiagnosis
  <2>8. CASE UNCHANGED <<pc, boot>>
    BY <2>2, <2>8
  <2> QED
    BY <2>3, <2>4, <2>5, <2>6, <2>7, <2>8
    DEF Next, Machine, DetectBoot, vars, agent, Tick, RequestShutdown, CompleteShutdown, Halt,
        EndRun, PowerOn, RecordBugcheck, CollectHigh, CollectLow, StopAgent
<1> QED
  BY <1>4, <1>5 DEF WindowInv, BootTime

\* If run k crashed and has a session, somebody had asked for a shutdown in it.
Excused(k, ends, rows, records) ==
  ends[k].end \in UncleanEnds /\ (\E s \in 1..Len(rows) : rows[s].run = k) =>
    \E i \in 1..Len(records) : records[i].run = k /\ records[i].kind = user32_1074

\* Until the session of this run exists, no record of this run is collected,
\* so a verdict of "clean" on the previous run rests on its own records; the
\* session of this run has no verdict yet.
VerdictInv ==
  /\ (\A s \in 1..Len(sessions) : sessions[s].run < Len(runs)) =>
       \A i \in 1..tailed : log[i].run < Len(runs)
  /\ Len(sessions) > 0 /\ sessions[Len(sessions)].run = Len(runs) =>
       sessions[Len(sessions)].previous_session_clean = None
  /\ pc # "off" /\ boot.previous_session_clean = 1 /\ Len(runs) > 1 =>
       Excused(Len(runs) - 1, runs, sessions, log)

\* The verdict of FinalisePrevious rests on a record of the run before.
LEMMA VerdictIsOfRun ==
  ASSUME MaxDrift < MinOffTime, TypeOK, StepInv, SessionsInv, LogInv, VerdictInv,
         FinalisePrevious, boot'.previous_session_clean = 1, Len(runs) > 1
  PROVE  Excused(Len(runs) - 1, runs, sessions, log)
<1> DEFINE n == Len(sessions)
           m == Len(runs)
           start == boot.previous_boot_time
           summary == transition_summary(start, boot.boot_time)
<1>1. /\ n > 0 /\ n \in 1..n /\ n \in Nat /\ start = sessions[n].boot_time /\ boot \in BootResult
      /\ \A i \in 1..n : sessions[i].run < m
  BY RowsKept, SMTT(30) DEF FinalisePrevious, StepInv, SessionsInv, TypeOK
<1>2. start \in Nat /\ boot.boot_time \in Nat /\ m \in Nat /\ m - 1 \in 1..m
  BY <1>1, LatestSession, LatestRun DEF Session, BootResult, Time
<1>3. summary.clean_shutdown
  <2>1. boot'.previous_session_clean = verdict(summary)
    BY <1>1 DEF FinalisePrevious, BootResult
  <2> HIDE DEF summary
  <2> QED
    BY <2>1 DEF verdict
<1>4. PICK i \in events_between(start, boot.boot_time + BootMargin) :
        log[i].kind \in {user32_1074, clean_shutdown_6006}
  BY <1>2, <1>3, SummaryFlags
<1>5. i \in 1..tailed /\ i \in 1..Len(log) /\ start <= log[i].timestamp
  BY LenProperties DEF events_between, TypeOK
<1>6. Written(log[i], runs, clock) /\ log[i].run < m
  BY <1>1, <1>5 DEF LogInv, VerdictInv
<1>7. SUFFICES ASSUME runs[m - 1].end \in UncleanEnds, NEW s \in 1..n, sessions[s].run = m - 1
      PROVE  \E j \in 1..Len(log) : log[j].run = m - 1 /\ log[j].kind = user32_1074
  BY DEF Excused
<1>8. sessions[n].run = m - 1
  <2>1. sessions[n].run \in 1..m /\ sessions[n].run < m
    BY <1>1 DEF SessionsInv
  <2>2. CASE s = n
    BY <1>7, <2>2
  <2>3. CASE s < n
    <3>1. sessions[s].run < sessions[n].run
      BY <1>1, <2>3 DEF SessionsInv
    <3> QED
      BY <1>2, <1>7, <2>1, <3>1
  <2> QED
    BY <1>1, <2>2, <2>3
<1>9. log[i].run = m - 1
  <2>1. runs[m - 1].boot - MaxDrift <= start
    BY <1>1, <1>8 DEF SessionsInv, Near
  <2>2. /\ log[i].run \in 1..m
        /\ log[i].run < m - 1 => log[i].timestamp + MinOffTime <= runs[m - 1].boot
    BY <1>2, <1>6 DEF Written
  <2>3. log[i].timestamp \in Nat /\ runs[m - 1].boot \in Nat
    <3>1. log[i] \in Record /\ runs[m - 1] \in Run
      BY <1>2, <1>5, ElementOfSeq DEF TypeOK
    <3> QED
      BY <3>1 DEF Record, Run, Time
  <2>4. ~(log[i].run < m - 1)
    <3>1. ASSUME NEW t \in Nat, NEW b \in Nat, t + MinOffTime <= b, b - MaxDrift <= start, start <= t
          PROVE  FALSE
      BY <1>2, <3>1, MachineAssumption
    <3> QED
      BY <1>5, <2>1, <2>2, <2>3, <3>1
  <2> QED
    BY <1>2, <1>6, <2>2, <2>4
<1>10. log[i].kind # clean_shutdown_6006
  BY <1>6, <1>7, <1>9 DEF Written, UncleanEnds
<1> QED
  BY <1>4, <1>5, <1>9, <1>10

\* The excuse of the run before this one stays as it is.
LEMMA ExcuseKept ==
  ASSUME TypeOK, StepInv, [Next]_vars, UNCHANGED runs, Len(runs) > 1,
         Excused(Len(runs) - 1, runs, sessions, log)
  PROVE  Excused(Len(runs) - 1, runs, sessions', log')
<1> DEFINE k == Len(runs) - 1
           n == Len(sessions)
<1>1. Len(runs) \in Nat
  BY LatestRun
<1>2. SUFFICES ASSUME runs[k].end \in UncleanEnds, NEW s \in 1..Len(sessions'), sessions'[s].run = k
      PROVE  \E i \in 1..Len(log') : log'[i].run = k /\ log'[i].kind = user32_1074
  BY DEF Excused
<1>3. s \in 1..n /\ sessions[s].run = k
  <2>1. CASE s \in 1..n
    BY <1>2, <2>1, RowsKept
  <2>2. CASE CreateSession /\ s = n + 1
    BY <1>1, <1>2, <2>2, CreatedRow
  <2>3. n \in Nat /\ (Len(sessions') = n \/ (CreateSession /\ Len(sessions') = n + 1))
    BY RowsKept
  <2> QED
    BY <2>1, <2>2, <2>3
<1>4. PICK i \in 1..Len(log) : log[i].run = k /\ log[i].kind = user32_1074
  BY <1>2, <1>3 DEF Excused
<1>5. i \in 1..Len(log') /\ log'[i] = log[i]
  BY LogRows
<1> QED
  BY <1>4, <1>5

LEMMA VerdictNext ==
  ASSUME BootTimeReadable, MinBootGap >= BootTolerance + 2 * MaxDrift, MaxDrift < MinOffTime,
         TypeOK, StepInv, RunsInv, SessionsInv, PreviousInv, LogInv, VerdictInv, [Next]_vars
  PROVE  VerdictInv'
<1> DEFINE n == Len(sessions)
           m == Len(runs)
<1>1. /\ n \in Nat /\ m \in Nat \ {0} /\ Len(log) \in Nat /\ tailed \in 0..Len(log)
      /\ Len(sessions') = n \/ (CreateSession /\ Len(sessions') = n + 1)
      /\ \A i \in 1..n : sessions'[i].run = sessions[i].run
      /\ \A i \in 1..Len(log) : log'[i] = log[i]
      /\ Len(runs') = m \/ (PowerOn /\ Len(runs') = m + 1)
      /\ \A i \in 1..n : sessions[i].run \in 1..m
  BY RowsKept, RunsKept, LogRows DEF TypeOK, SessionsInv
<1>2. tailed' = tailed \/ (pc \in {"collect", "running"} /\ UNCHANGED <<sessions, runs>>)
  BY DEF Next, Machine, DetectBoot, vars, machine, database, Tick, RequestShutdown,
         CompleteShutdown, Halt, EndRun, PowerOn, RecordBugcheck, StartFirst, StartAfterReboot,
         RestartService, Started, FinalisePrevious, CreateSession, LinkPrevious, CollectEvents,
         RunDiagnosis, CollectHigh, CollectLow, StopAgent
<1>3. (\A s \in 1..Len(sessions') : sessions'[s].run < Len(runs')) =>
        \A i \in 1..tailed' : log'[i].run < Len(runs')
  <2> SUFFICES ASSUME \A s \in 1..Len(sessions') : sessions'[s].run < Len(runs')
      PROVE \A i \in 1..tailed' : log'[i].run < Len(runs')
    OBVIOUS
  <2>1. tailed' = tailed
    <3> SUFFICES ASSUME pc \in {"collect", "running"}, UNCHANGED <<sessions, runs>> PROVE FALSE
      BY <1>2
    <3>1. n > 0 /\ sessions[n].run = m
      BY DEF PreviousInv
    <3> QED
      BY <1>1, <3>1
  <2>2. CASE PowerOn
    <3>1. \A i \in 1..tailed : log[i].run \in 1..m
      BY <1>1, SMTT(30) DEF LogInv, Written
    <3>2. Len(runs') = m + 1
      BY <2>2, BegunRun
    <3>3. \A i \in 1..tailed : log'[i] = log[i]
      BY <1>1
    <3> QED
      BY <1>1, <2>1, <3>1, <3>2, <3>3
  <2>3. CASE ~PowerOn
    <3>1. Len(runs') = m
      BY <1>1, <2>3
    <3>2. \A s \in 1..n : sessions[s].run < m
      <4> SUFFICES ASSUME NEW s \in 1..n PROVE sessions[s].run < m
        OBVIOUS
      <4>1. s \in 1..Len(sessions') /\ sessions'[s].run = sessions[s].run
        BY <1>1
      <4> QED
        BY <3>1, <4>1
    <3>3. \A i \in 1..tailed : log[i].run < m /\ log'[i] = log[i]
      BY <1>1, <3>2 DEF VerdictInv
    <3> QED
      BY <2>1, <3>1, <3>3
  <2> QED
    BY <2>2, <2>3
<1>4. Len(sessions') > 0 /\ sessions'[Len(sessions')].run = Len(runs') =>
        sessions'[Len(sessions')].previous_session_clean = None
  <2>1. CASE FinalisePrevious
    <3>1. Len(sessions') = n /\ n \in 1..n
      BY <1>1, <2>1, FinalisedRow
    <3>2. sessions[n].run < m /\ UNCHANGED runs
      BY <2>1, <3>1 DEF FinalisePrevious, SessionsInv, machine
    <3> QED
      BY <1>1, <3>1, <3>2
  <2>2. CASE CreateSession
    BY <2>2, CreatedRow
  <2>3. CASE LinkPrevious
    <3>1. /\ Len(sessions') = n /\ sessions'[n].run = sessions[n].run
          /\ sessions'[n].previous_session_clean = sessions[n].previous_session_clean
          /\ UNCHANGED runs
      BY <2>3, LinkedRow DEF LinkPrevious, machine
    <3> QED
      BY <3>1 DEF VerdictInv
  <2>4. CASE UNCHANGED sessions
    <3>1. CASE Len(runs') = m
      BY <2>4, <3>1 DEF VerdictInv
    <3>2. CASE Len(runs') = m + 1
      BY <1>1, <2>4, <3>2
    <3> QED
      BY <1>1, <3>1, <3>2
  <2> QED
    BY <2>1, <2>2, <2>3, <2>4
    DEF Next, Machine, DetectBoot, vars, database, Tick, RequestShutdown, CompleteShutdown, Halt,
        EndRun, PowerOn, RecordBugcheck, StartFirst, StartAfterReboot, RestartService, Started,
        CollectEvents, RunDiagnosis, CollectHigh, CollectLow, StopAgent
<1>5. pc' # "off" /\ boot'.previous_session_clean = 1 /\ Len(runs') > 1 =>
        Excused(Len(runs') - 1, runs', sessions', log')
  <2> SUFFICES ASSUME pc' # "off", boot'.previous_session_clean = 1, Len(runs') > 1
      PROVE Excused(Len(runs') - 1, runs', sessions', log')
    OBVIOUS
  <2>1. UNCHANGED runs /\ None # 1
    BY AgentStep
  <2>2. SUFFICES Excused(m - 1, runs, sessions, log)
    BY <2>1, ExcuseKept
  <2>3. CASE pc # "off" /\ boot'.previous_session_clean = boot.previous_session_clean
    BY <2>1, <2>3 DEF VerdictInv
  <2>4. CASE StartFirst \/ StartAfterReboot
    BY <2>1, <2>4 DEF StartFirst, StartAfterReboot, Started
  <2>5. CASE RestartService
    <3>1. PICK t \in MeasuredBootTimes : same_boot(t)
      BY <2>5 DEF RestartService
    <3>2. n > 0 /\ boot'.previous_session_clean = sessions[n].previous_session_clean
      BY <2>5 DEF RestartService, Started, latest_session
    <3>3. sessions[n].run = m
      BY <3>1, <3>2, SameBootIsThisRun
    <3> QED
      BY <2>1, <3>2, <3>3 DEF VerdictInv
  <2>6. CASE FinalisePrevious
    BY <2>1, <2>6, VerdictIsOfRun
  <2>7. CASE CreateSession \/ LinkPrevious \/ CollectEvents \/ RunDiagnosis
    BY <2>3, <2>7 DEF CreateSession, LinkPrevious, CollectEvents, RunDiagnosis
  <2>8. CASE UNCHANGED <<pc, boot>>
    BY <2>3, <2>8
  <2> QED
    BY <2>4, <2>5, <2>6, <2>7, <2>8
    DEF Next, Machine, DetectBoot, vars, agent, Tick, RequestShutdown, CompleteShutdown, Halt,
        EndRun, PowerOn, RecordBugcheck, CollectHigh, CollectLow, StopAgent
<1> QED
  BY <1>3, <1>4, <1>5 DEF VerdictInv
-------------------------------------------------------------------------------
(* No crash is missed.                                                     *)

\* Where run_diagnosis() begins to look for evidence.
EvidenceStart ==
  IF boot.previous_boot_time # None THEN boot.previous_boot_time
  ELSE boot.boot_time - RetentionPeriod

EvidenceOfCrash ==
  detect_crash(transition_summary(EvidenceStart, boot.boot_time), boot.previous_session_clean)

\* With all of Windows' evidence at hand, a crash of the run before warrants an
\* incident.
LEMMA CrashIsWarranted ==
  ASSUME MaxDrift <= RetentionPeriod, MaxDrift <= BootMargin, TypeOK, SessionsInv, EvidenceInv,
         WindowInv, VerdictInv,
         pc = "diagnose", EvidenceAtHand, Len(runs) > 1,
         runs[Len(runs) - 1].end \in UncleanEnds,
         \E s \in 1..Len(sessions) : sessions[s].run = Len(runs) - 1,
         \A i \in 1..Len(log) : ~(log[i].run = Len(runs) - 1 /\ log[i].kind = user32_1074)
  PROVE  warranted(EvidenceOfCrash)
<1> DEFINE m == Len(runs)
           seen == events_between(EvidenceStart, boot.boot_time + BootMargin)
           summary == transition_summary(EvidenceStart, boot.boot_time)
<1>1. /\ boot \in BootResult /\ boot.boot_time \in Nat /\ BootTime \in Nat
      /\ EvidenceStart \in Int /\ BootTime - MaxDrift <= boot.boot_time
      /\ boot.boot_time <= BootTime + MaxDrift
  BY LatestRun, SMTT(30) DEF TypeOK, BootResult, Optional, Time, EvidenceStart, SessionsInv, Near, BootTime
<1>2. EvidenceStart <= BootTime
  <2>1. CASE boot.previous_boot_time # None
    <3>1. boot.previous_boot_time < BootTime /\ boot.previous_boot_time \in Nat
      BY <1>1, <2>1 DEF WindowInv, BootResult, Optional, Time
    <3> QED
      BY <1>1, <2>1, <3>1 DEF EvidenceStart
  <2>2. CASE boot.previous_boot_time = None
    BY <1>1, <2>2 DEF EvidenceStart
  <2> QED
    BY <2>1, <2>2
<1>3. PICK i \in 1..Len(log) : /\ log[i].kind \in {kernel_power_41, unexpected_shutdown_6008}
                              /\ log[i].timestamp = BootTime
  BY DEF EvidenceInv, Evidence
<1>4. i \in seen
  <2>1. i <= tailed /\ tailed \in Nat
    BY <1>3, KindsDiffer, LenProperties DEF EvidenceAtHand, TypeOK
  <2>2. EvidenceStart <= log[i].timestamp /\ log[i].timestamp <= boot.boot_time + BootMargin
    BY <1>1, <1>2, <1>3, SMTT(30)
  <2> QED
    BY <2>1, <2>2 DEF events_between
<1>5. summary.unexpected_shutdown_event \/ summary.kernel_power_detected
  <2>1. CASE log[i].kind = kernel_power_41
    BY <1>1, <1>4, <2>1, SummaryFlags, SMTT(30)
  <2>2. CASE log[i].kind = unexpected_shutdown_6008
    BY <1>1, <1>4, <2>2, SummaryFlags, SMTT(30)
  <2> QED
    BY <1>3, <2>1, <2>2
<1>6. boot.previous_session_clean # 1
  BY DEF VerdictInv, Excused
<1> HIDE DEF summary
<1> QED
  BY <1>5, <1>6 DEF warranted, detect_crash, EvidenceOfCrash, summary

\* An incident that run_diagnosis() finds stored already is of this run.
LEMMA FoundIsThisRun ==
  ASSUME MinBootGap > IncidentTolerance + 2 * MaxDrift, TypeOK, RunsInv, SessionsInv,
         IncidentsInv, pc # "off", incident_exists(boot.boot_time)
  PROVE  \E j \in DOMAIN incidents : incidents[j].run = Len(runs)
<1> DEFINE m == Len(runs)
<1>1. PICK j \in DOMAIN incidents :
        Distance(incidents[j].reboot_timestamp, boot.boot_time) <= IncidentTolerance
  BY DEF incident_exists
<1>2. j \in 1..Len(incidents) /\ m \in Nat /\ m \in 1..m
  BY LenProperties, LatestRun DEF TypeOK
<1>3. /\ incidents[j].run \in 1..m
      /\ Near(incidents[j].reboot_timestamp, incidents[j].run)
      /\ Near(boot.boot_time, m)
  BY <1>2 DEF IncidentsInv, SessionsInv
<1>4. /\ incidents[j].reboot_timestamp \in Nat /\ boot.boot_time \in Nat
      /\ runs[m].boot \in Nat /\ runs[incidents[j].run].boot \in Nat
  <2>1. /\ incidents[j] \in Incident /\ boot \in BootResult
        /\ runs[m] \in Run /\ runs[incidents[j].run] \in Run
    BY <1>2, <1>3, ElementOfSeq DEF TypeOK
  <2> QED
    BY <2>1 DEF Incident, BootResult, Run, Time
<1>5. ASSUME NEW t \in Nat, NEW u \in Nat, NEW a \in Nat, NEW b \in Nat,
             a + MinBootGap <= b, t <= a + MaxDrift, b - MaxDrift <= u,
             Distance(t, u) <= IncidentTolerance
      PROVE  FALSE
  BY <1>5 DEF Distance
<1>6. ~(incidents[j].run < m)
  <2> SUFFICES ASSUME incidents[j].run < m PROVE FALSE
    OBVIOUS
  <2>1. runs[incidents[j].run].boot + MinBootGap <= runs[m].boot
    BY <1>2, <1>3 DEF RunsInv
  <2>2. /\ incidents[j].reboot_timestamp <= runs[incidents[j].run].boot + MaxDrift
        /\ runs[m].boot - MaxDrift <= boot.boot_time
    BY <1>3 DEF Near
  <2> QED
    BY <1>1, <1>4, <1>5, <2>1, <2>2
<1> QED
  BY <1>2, <1>3, <1>6

AnalysedInv == analysed \subseteq 1..Len(runs) /\ NoMissedCrash

LEMMA AnalysedNext ==
  ASSUME MaxDrift <= RetentionPeriod, MaxDrift <= BootMargin,
         MinBootGap > IncidentTolerance + 2 * MaxDrift,
         TypeOK, ActivityInv, StepInv, RunsInv, SessionsInv, IncidentsInv, EvidenceInv,
         WindowInv, VerdictInv, AnalysedInv, [Next]_vars
  PROVE  AnalysedInv'
<1> DEFINE m == Len(runs)
           Missed(k) ==
             /\ k > 1 /\ runs[k - 1].end \in UncleanEnds
             /\ \E s \in 1..Len(sessions) : sessions[s].run = k - 1
             /\ \A i \in 1..Len(log) : ~(log[i].run = k - 1 /\ log[i].kind = user32_1074)
             /\ ~ \E j \in 1..Len(incidents) : incidents[j].run = k
           MissedThen(k) ==
             /\ k > 1 /\ runs'[k - 1].end \in UncleanEnds
             /\ \E s \in 1..Len(sessions') : sessions'[s].run = k - 1
             /\ \A i \in 1..Len(log') : ~(log'[i].run = k - 1 /\ log'[i].kind = user32_1074)
             /\ ~ \E j \in 1..Len(incidents') : incidents'[j].run = k
<1>0. TypeOK'
  BY NextType
<1>1. /\ m \in Nat \ {0} /\ analysed \subseteq 1..m
      /\ Len(runs') = m \/ (PowerOn /\ Len(runs') = m + 1)
      /\ \A k \in 1..(m - 1) : runs'[k] = runs[k]
      /\ Len(incidents) \in Nat /\ Len(incidents') \in Nat
  BY <1>0, RunsKept, LenProperties DEF AnalysedInv, TypeOK
<1>2. /\ NoMissedCrash <=> \A k \in analysed : ~Missed(k)
      /\ NoMissedCrash' <=> \A k \in analysed' : ~MissedThen(k)
  <2>1. /\ DOMAIN sessions = 1..Len(sessions) /\ DOMAIN log = 1..Len(log)
        /\ DOMAIN incidents = 1..Len(incidents)
    BY LenProperties DEF TypeOK
  <2>2. /\ DOMAIN sessions' = 1..Len(sessions') /\ DOMAIN log' = 1..Len(log')
        /\ DOMAIN incidents' = 1..Len(incidents')
    BY <1>0, LenProperties DEF TypeOK
  <2> QED
    BY <2>1, <2>2 DEF NoMissedCrash
<1>3. /\ Len(incidents') >= Len(incidents)
      /\ \A j \in 1..Len(incidents) : incidents'[j] = incidents[j]
  BY <1>1, IncidentsKept, StoredIncident
<1>4. ASSUME NEW k \in 1..m, MissedThen(k) PROVE Missed(k)
  <2>1. k > 1 /\ runs[k - 1].end \in UncleanEnds
    <3>1. k - 1 \in 1..(m - 1)
      BY <1>1, <1>4
    <3> QED
      BY <1>1, <1>4, <3>1
  <2>2. \E s \in 1..Len(sessions) : sessions[s].run = k - 1
    <3>1. PICK s \in 1..Len(sessions') : sessions'[s].run = k - 1
      BY <1>4
    <3>2. s \in 1..Len(sessions) \/ (CreateSession /\ s = Len(sessions) + 1)
      BY RowsKept
    <3>3. ~(CreateSession /\ s = Len(sessions) + 1)
      BY <1>1, <3>1, CreatedRow
    <3> QED
      BY <3>1, <3>2, <3>3, RowsKept
  <2>3. \A i \in 1..Len(log) : ~(log[i].run = k - 1 /\ log[i].kind = user32_1074)
    <3>1. \A i \in 1..Len(log) : i \in 1..Len(log') /\ log'[i] = log[i]
      BY LogRows
    <3> QED
      BY <1>4, <3>1
  <2>4. ~ \E j \in 1..Len(incidents) : incidents[j].run = k
    <3>1. \A j \in 1..Len(incidents) : j \in 1..Len(incidents') /\ incidents'[j] = incidents[j]
      BY <1>1, <1>3
    <3> QED
      BY <1>4, <3>1
  <2> QED
    BY <2>1, <2>2, <2>3, <2>4
<1>5. CASE RunDiagnosis /\ EvidenceAtHand
  <2>1. /\ pc = "diagnose" /\ UNCHANGED <<runs, sessions, log>>
        /\ analysed' = analysed \cup {m}
    BY <1>5 DEF RunDiagnosis, machine
  <2>2. warranted(EvidenceOfCrash) /\ ~incident_exists(boot.boot_time) =>
          \E j \in 1..Len(incidents') : incidents'[j].run = m
    <3> SUFFICES ASSUME warranted(EvidenceOfCrash), ~incident_exists(boot.boot_time)
        PROVE \E j \in 1..Len(incidents') : incidents'[j].run = m
      OBVIOUS
    <3>1. \E incident : incidents' = Append(incidents, incident)
      BY <1>5 DEF RunDiagnosis, EvidenceOfCrash, EvidenceStart
    <3>2. incidents' # incidents
      <4>1. PICK incident : incidents' = Append(incidents, incident)
        BY <3>1
      <4>2. incidents \in Seq({incidents[i] : i \in 1..Len(incidents)} \cup {incident})
        BY <1>1, LenProperties DEF TypeOK
      <4>3. Len(Append(incidents, incident)) = Len(incidents) + 1
        BY <4>2, AppendProperties
      <4> QED
        BY <1>1, <4>1, <4>3
    <3> QED
      BY <1>1, <1>5, <3>2, StoredIncident
  <2>3. incident_exists(boot.boot_time) => \E j \in 1..Len(incidents) : incidents[j].run = m
    BY <2>1, FoundIsThisRun, LenProperties DEF TypeOK
  <2>4. Missed(m) => warranted(EvidenceOfCrash)
    BY <1>5, <2>1, CrashIsWarranted
  <2>5. ~MissedThen(m)
    <3> SUFFICES ASSUME MissedThen(m) PROVE FALSE
      OBVIOUS
    <3>1. Missed(m)
      <4>1. m \in 1..m
        BY <1>1
      <4> HIDE DEF Missed, MissedThen
      <4> QED
        BY <1>4, <4>1
    <3> HIDE DEF Missed
    <3>2. warranted(EvidenceOfCrash)
      BY <2>4, <3>1
    <3>3. ~incident_exists(boot.boot_time)
      BY <2>3, <3>1 DEF Missed
    <3> QED
      BY <2>2, <3>2, <3>3
  <2>6. \A k \in analysed : ~MissedThen(k)
    <3> HIDE DEF Missed, MissedThen
    <3> QED
      BY <1>1, <1>2, <1>4 DEF AnalysedInv
  <2>7. NoMissedCrash'
    <3> HIDE DEF Missed, MissedThen
    <3> QED
      BY <1>2, <2>1, <2>5, <2>6
  <2>8. analysed' \subseteq 1..Len(runs')
    <3>1. Len(runs') = m
      BY <2>1
    <3>2. m \in 1..m /\ analysed \subseteq 1..m
      BY <1>1
    <3>3. analysed' = analysed \cup {m}
      BY <2>1
    <3> HIDE DEF m
    <3> QED
      BY <3>1, <3>2, <3>3
  <2> QED
    BY <2>7, <2>8 DEF AnalysedInv
<1>6. CASE UNCHANGED analysed
  <2>1. NoMissedCrash'
    <3> HIDE DEF Missed, MissedThen
    <3> QED
      BY <1>1, <1>2, <1>4, <1>6 DEF AnalysedInv
  <2> QED
    BY <1>1, <1>6, <2>1 DEF AnalysedInv
<1> QED
  BY <1>5, <1>6
  DEF Next, Machine, DetectBoot, vars, agent, Tick, RequestShutdown, CompleteShutdown, Halt,
      EndRun, PowerOn, RecordBugcheck, StartFirst, StartAfterReboot, RestartService, Started,
      FinalisePrevious, CreateSession, LinkPrevious, CollectEvents, RunDiagnosis, CollectHigh,
      CollectLow, StopAgent

\* Under the same bounds on the drift and the distance of boots, when retention
\* and the margin after a boot are longer than the drift, and the machine is off
\* for longer than the drift before each boot (or the window would reach back to
\* an earlier run's shutdown records), a crash of a run that has a session and
\* in which nobody had asked for a shutdown gets its incident as soon as the
\* next boot was analysed with all of the evidence at hand: whatever the agent
\* was doing when the run ended, and however often it starts afterwards.
THEOREM CrashesAreFound ==
  ASSUME BootTimeReadable, 2 * MaxDrift < BootTolerance, 2 * MaxDrift <= IncidentTolerance,
         MinBootGap >= BootTolerance + 2 * MaxDrift,
         MinBootGap > IncidentTolerance + 2 * MaxDrift,
         MaxDrift < MinOffTime, MaxDrift <= BootMargin, MaxDrift <= RetentionPeriod
  PROVE  Spec => []NoMissedCrash
<1> DEFINE Inv == PreviousInv /\ LogInv /\ EvidenceInv /\ WindowInv /\ VerdictInv /\ AnalysedInv
<1>1. Init => Inv
  <2> SUFFICES ASSUME Init PROVE Inv
    OBVIOUS
  <2>1. Len(runs) = 1 /\ runs[1].end = "running" /\ log = <<>> /\ Len(log) = 0
    BY DEF Init
  <2>2. LogInv /\ EvidenceInv
    BY <2>1 DEF Init, LogInv, EvidenceInv
  <2>3. PreviousInv /\ WindowInv /\ VerdictInv
    BY <2>1 DEF Init, PreviousInv, WindowInv, VerdictInv
  <2>4. AnalysedInv
    BY DEF Init, AnalysedInv, NoMissedCrash
  <2> QED
    BY <2>2, <2>3, <2>4
<1>2. IInv /\ RunsInv /\ SessionsInv /\ IncidentsInv /\ Inv /\ [Next]_vars => Inv'
  BY PreviousNext, LogNext, EvidenceNext, WindowNext, VerdictNext, AnalysedNext DEF IInv
<1>3. Inv => NoMissedCrash
  BY DEF AnalysedInv
<1> QED
  BY <1>1, <1>2, <1>3, SessionsOfBoots, IncidentsOfBoots, PTL DEF Spec
===============================================================================
