------------------------------ MODULE EventTail ------------------------------
(***************************************************************************)
(* The event log collector (collectors/windows_events.py), call by call.   *)
(*                                                                         *)
(* Windows appends records to the System log, numbered from 1, and may     *)
(* clear it, which restarts the numbers.  A pass of the collector loads    *)
(* its cursor (two reads of agent_state), reads the log backwards batch by *)
(* batch until it meets a record behind the cursor, and then commits three *)
(* times: the rows, the record id, the timestamp.  The isolated call may   *)
(* end with an exception, or the process be killed, between any two steps. *)
(* Several passes overlap when a stuck worker was given up by the watchdog *)
(* and comes back beside its replacement.                                  *)
(***************************************************************************)
EXTENDS Integers, Sequences, FiniteSets

CONSTANTS
  Collectors,          \* threads that may be in collect() at the same time
  MAX_EVENTS_PER_RUN,  \* 1000: no batch is read once that many are taken
  MaxBatch,            \* records that one ReadEventLog() returns, at most
  MaxSetback,          \* how far timestamps may go back (clock set, end of DST)
  MaxRecords,          \* bound: records that Windows writes
  MaxTime,             \* bound: last timestamp
  MaxAborts,           \* bound: passes cut short by an exception or a kill
  MaxReadErrors,       \* bound: failing OpenEventLog() or ReadEventLog() calls
  MaxRowErrors,        \* bound: insert_events() calls in which rows fail
  MaxClears            \* bound: how often the log is cleared

ASSUME CollectorAssumption ==
  MAX_EVENTS_PER_RUN \in Nat \ {0} /\ MaxBatch \in Nat \ {0} /\ MaxSetback \in Nat

ASSUME BoundsAssumption ==
  /\ MaxRecords \in Nat /\ MaxTime \in Nat /\ MaxAborts \in Nat
  /\ MaxReadErrors \in Nat /\ MaxRowErrors \in Nat /\ MaxClears \in Nat

VARIABLES
  written,    \* every record Windows ever wrote to the channel
  first,      \* the log holds the records from this position on
  copies,     \* how many rows of table events each record has
  cursor_id,  \* agent_state event_last_record_id, 0 when there is none
  cursor_ts,  \* agent_state event_last_timestamp, 0 when there is none
  pass,       \* each collector's pass: its step and its local variables
  faults,     \* how often each kind of fault happened
  skipped     \* records that a failed or capped pass left out

log == <<written, first>>
database == <<copies, cursor_id, cursor_ts>>
vars == <<log, database, pass, faults, skipped>>
-------------------------------------------------------------------------------
MaxFaults == [ abort |-> MaxAborts, read |-> MaxReadErrors,
               row |-> MaxRowErrors, clear |-> MaxClears ]

Fault(kind) == /\ faults[kind] < MaxFaults[kind]
               /\ faults' = [faults EXCEPT ![kind] = @ + 1]

\* A pass takes the records low..high, downwards from high.
Idle == [step |-> "idle", last_id |-> 0, last_ts |-> 0, low |-> 1, high |-> 0]

taken(p) == p.low..p.high

Largest(S) == CHOOSE x \in S : \A y \in S : y <= x

\* Mutant: a record is taken for processed when either part of the cursor passed it.
processed_by_either(p, i) ==
  written[i].number <= p.last_id \/ written[i].timestamp <= p.last_ts
\* Mutant: the record at the cursor itself is taken again.
processed_strictly(p, i) ==
  written[i].number < p.last_id /\ written[i].timestamp <= p.last_ts
\* Mutant: only the record id is compared.
processed_by_id(p, i) == written[i].number <= p.last_id
\* The record lies behind the cursor that the pass has loaded.
processed(p, i) ==
  written[i].number <= p.last_id /\ written[i].timestamp <= p.last_ts

\* What the pass leaves out for good when it does not read on but moves the cursor.
unread(p) == {i \in first..(p.low - 1) : taken(p) # {} /\ ~processed(p, i)}

\* Mutant: the cursor takes the newest id without the larger one before.
max_id_of_batch(p) == Largest({written[i].number : i \in taken(p)})
\* Mutant: the cursor takes the id of the newest record in the log.
max_id_of_log(p) == written[Len(written)].number
\* The cursor after the pass: max_id and max_ts.
max_id(p) == Largest({p.last_id} \cup {written[i].number : i \in taken(p)})
max_ts(p) == Largest({p.last_ts} \cup {written[i].timestamp : i \in taken(p)})
-------------------------------------------------------------------------------
Init ==
  /\ written = <<>> /\ first = 1
  /\ copies = [i \in 1..MaxRecords |-> 0]
  /\ cursor_id = 0 /\ cursor_ts = 0
  /\ pass = [c \in Collectors |-> Idle]
  /\ faults = [kind \in DOMAIN MaxFaults |-> 0]
  /\ skipped = {}
-------------------------------------------------------------------------------
(* Windows.                                                                *)

Latest == IF written = <<>> THEN 0 ELSE written[Len(written)].timestamp

\* Timestamps have a resolution of one second; they may go back by MaxSetback.
Write ==
  /\ Len(written) < MaxRecords
  /\ \E t \in 1..MaxTime :
       /\ t >= Latest - MaxSetback
       /\ written' = Append(written, [ number |-> Len(written) + 2 - first, timestamp |-> t ])
  /\ UNCHANGED <<first, database, pass, faults, skipped>>

\* A read that goes on after this finds nothing more.
Clear ==
  /\ first <= Len(written)
  /\ Fault("clear")
  /\ first' = Len(written) + 1
  /\ UNCHANGED <<written, database, pass, skipped>>
-------------------------------------------------------------------------------
(* One pass: collect() and _read_new().                                    *)

LoadId(c) ==
  /\ pass[c].step = "idle"
  /\ pass' = [pass EXCEPT ![c] = [@ EXCEPT !.step = "load", !.last_id = cursor_id]]
  /\ UNCHANGED <<log, database, faults, skipped>>

LoadTs(c) ==
  /\ pass[c].step = "load"
  /\ pass' = [pass EXCEPT ![c] = [@ EXCEPT !.step = "open", !.last_ts = cursor_ts]]
  /\ UNCHANGED <<log, database, faults, skipped>>

\* The first backwards read starts at the newest record.
OpenLog(c) ==
  /\ pass[c].step = "open"
  /\ pass' = [pass EXCEPT ![c] = [@ EXCEPT !.step = "read", !.low = Len(written) + 1,
                                           !.high = Len(written)]]
  /\ UNCHANGED <<log, database, faults, skipped>>

\* Mutant: the pass goes on although nothing was taken.
ReadDone_always(p) == [p EXCEPT !.step = "insert"]
\* The pass is left without a trace when nothing was taken.
ReadDone(p) == IF taken(p) = {} THEN Idle ELSE [p EXCEPT !.step = "insert"]

\* Some positions below p.low; the loop over them stops at a processed one.
ReadBatch(c) ==
  LET p == pass[c] IN
  /\ p.step = "read"
  /\ Cardinality(taken(p)) < MAX_EVENTS_PER_RUN
  /\ \E bottom \in first..(p.low - 1) :
       /\ p.low - bottom <= MaxBatch
       /\ \/ /\ \A i \in bottom..(p.low - 1) : ~processed(p, i)
             /\ pass' = [pass EXCEPT ![c] = [p EXCEPT !.low = bottom]]
          \/ \E stop \in bottom..(p.low - 1) :
               /\ processed(p, stop)
               /\ \A i \in (stop + 1)..(p.low - 1) : ~processed(p, i)
               /\ pass' = [pass EXCEPT ![c] = ReadDone([p EXCEPT !.low = stop + 1])]
  /\ UNCHANGED <<log, database, faults, skipped>>

\* ReadEventLog() returns nothing: the oldest record was read, or the log was
\* cleared meanwhile.
EndOfLog(c) ==
  /\ pass[c].step = "read"
  /\ Cardinality(taken(pass[c])) < MAX_EVENTS_PER_RUN
  /\ pass[c].low <= first
  /\ pass' = [pass EXCEPT ![c] = ReadDone(@)]
  /\ UNCHANGED <<log, database, faults, skipped>>

\* The loop ends after a batch that reached the cap.
CapReached(c) ==
  /\ pass[c].step = "read"
  /\ Cardinality(taken(pass[c])) >= MAX_EVENTS_PER_RUN
  /\ pass' = [pass EXCEPT ![c] = ReadDone(@)]
  /\ skipped' = skipped \cup unread(pass[c])
  /\ UNCHANGED <<log, database, faults>>

\* An exception ends the read; what was taken so far is kept.
ReadError(c) ==
  /\ pass[c].step = "read"
  /\ Fault("read")
  /\ pass' = [pass EXCEPT ![c] = ReadDone(@)]
  /\ skipped' = skipped \cup unread(pass[c])
  /\ UNCHANGED <<log, database>>

\* insert_events(): one commit; a row that cannot be inserted is passed over.
Insert(c) ==
  /\ pass[c].step = "insert"
  /\ \E rows \in SUBSET taken(pass[c]) :
       /\ \/ rows = taken(pass[c]) /\ UNCHANGED faults
          \/ rows # taken(pass[c]) /\ Fault("row")
       /\ copies' = [i \in DOMAIN copies |-> IF i \in rows THEN copies[i] + 1 ELSE copies[i]]
       /\ skipped' = skipped \cup (taken(pass[c]) \ rows)
  /\ pass' = [pass EXCEPT ![c] = [@ EXCEPT !.step = "set_id"]]
  /\ UNCHANGED <<log, cursor_id, cursor_ts>>

SetId(c) ==
  /\ pass[c].step = "set_id"
  /\ cursor_id' = max_id(pass[c])
  /\ pass' = [pass EXCEPT ![c] = [@ EXCEPT !.step = "set_ts"]]
  /\ UNCHANGED <<log, copies, cursor_ts, faults, skipped>>

SetTs(c) ==
  /\ pass[c].step = "set_ts"
  /\ cursor_ts' = max_ts(pass[c])
  /\ pass' = [pass EXCEPT ![c] = Idle]
  /\ UNCHANGED <<log, copies, cursor_id, faults, skipped>>

\* The process is killed, or an exception leaves collect() for run_isolated().
Abort(c) ==
  /\ pass[c].step # "idle"
  /\ Fault("abort")
  /\ pass' = [pass EXCEPT ![c] = Idle]
  /\ UNCHANGED <<log, database, skipped>>
-------------------------------------------------------------------------------
Collect(c) ==
  \/ LoadId(c) \/ LoadTs(c) \/ OpenLog(c)
  \/ ReadBatch(c) \/ EndOfLog(c) \/ CapReached(c)
  \/ Insert(c) \/ SetId(c) \/ SetTs(c)

Next == \/ Write \/ Clear
        \/ \E c \in Collectors : Collect(c) \/ ReadError(c) \/ Abort(c)

\* collect_low() calls the collector again and again; threads are not starved.
Fairness == \A c \in Collectors : WF_vars(Collect(c))

Spec == Init /\ [][Next]_vars

FairSpec == Spec /\ Fairness
-------------------------------------------------------------------------------
(* Properties.                                                             *)

Stored == {i \in 1..Len(written) : copies[i] > 0}

Pass == [ step: {"idle", "load", "open", "read", "insert", "set_id", "set_ts"},
          last_id: 0..MaxRecords, last_ts: 0..MaxTime,
          low: 1..(MaxRecords + 1), high: 0..MaxRecords ]

\* A pass takes a range of the records; what it commits is not empty.
InRange(p) ==
  /\ p.low <= p.high + 1 /\ p.high <= Len(written)
  /\ p.step \in {"insert", "set_id", "set_ts"} => p.low <= p.high

\* Every variable has its type.
TypeOK ==
  /\ written \in Seq([number: 1..MaxRecords, timestamp: 1..MaxTime])
  /\ Len(written) <= MaxRecords /\ first \in 1..(Len(written) + 1)
  /\ copies \in [1..MaxRecords -> Nat]
  /\ cursor_id \in 0..MaxRecords /\ cursor_ts \in 0..MaxTime
  /\ pass \in [Collectors -> Pass] /\ \A c \in Collectors : InRange(pass[c])
  /\ faults \in [DOMAIN MaxFaults -> Nat] /\ skipped \subseteq 1..Len(written)

\* README: the table is a tail of the log without a gap: rows are only added,
\* and after the rows of older records, whatever passes overlap or are cut short.
ES == INSTANCE EventStore WITH stored <- Stored
StoresPrefix == ES!Spec

\* While the log is neither cleared nor unreadable, the table catches up with it
\* once Windows pauses, although passes overlap, abort between their commits and
\* timestamps go back.
CatchesUp == <>[](Stored = 1..Len(written))

\* With one thread collecting, a record is stored at most once for each time a
\* pass was cut short, and once more: no pass stores again what a completed one
\* has, whether the log was cleared or reads failed in between.
StoredOncePerAttempt ==
  \A i \in DOMAIN copies : copies[i] <= 1 + faults.abort

\* With one thread collecting, the cursor never moves back, also when a clear
\* restarts the record numbers.
CursorAdvances == [][cursor_id' >= cursor_id /\ cursor_ts' >= cursor_ts]_vars

\* No later pass looks at this record of the log.
Behind(i) == written[i].number <= cursor_id /\ written[i].timestamp <= cursor_ts

\* "Tolerates cleared logs": with timestamps that do not go back, a record is lost
\* only to a failed or capped pass, or when it was written after a clear in the
\* same second as a record that a pass took before.
LossIsExplained ==
  \A i \in first..Len(written) :
    Behind(i) /\ i \notin Stored =>
      \/ i \in skipped
      \/ /\ faults.clear > 0
         /\ \E j \in Stored \cup skipped : j < i /\ written[j].timestamp = written[i].timestamp
==============================================================================
