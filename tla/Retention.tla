------------------------------- MODULE Retention -------------------------------
(***************************************************************************)
(* prune_metrics() (storage/retention.py): rows of the metric tables older *)
(* than the retention are deleted, table by table, unless they lie in the  *)
(* protected window of an incident.  The clock and the retention are       *)
(* arguments: the module is used by Service.                               *)
(***************************************************************************)
EXTENDS Integers, Sequences

CONSTANTS
  NoValue,       \* NULL, and no pass
  NaN,           \* a float that is no number, as a retention
  Tables,        \* METRIC_TABLES, in their order
  Limit,         \* the incidents that list_incidents() is asked for, 200
  BeforeMargin,  \* 3600 s
  AfterMargin,   \* 600 s
  MaxFaults      \* bound: failing statements

ASSUME RetentionAssumption ==
  /\ NoValue \notin Int /\ NaN \notin Int
  /\ Len(Tables) \in Nat \ {0} /\ DOMAIN Tables = 1..Len(Tables)
  /\ Limit \in Nat \ {0} /\ BeforeMargin \in Nat /\ AfterMargin \in Nat
  /\ MaxFaults \in Nat

VARIABLES
  rows,       \* the metric rows: [table, timestamp]
  incidents,  \* the table incidents, by incident_id
  pass,       \* the locals of prune_metrics(), or NoValue outside it
  faults,     \* statements that failed
  blind       \* history: a listing has failed, so that a pass knew no window

retention == <<rows, incidents, pass, faults, blind>>

\* Mutant: ORDER BY incident_id without DESC.
list_incidents_oldest(limit) ==
  {incidents[i] : i \in {j \in DOMAIN incidents : j <= limit}}
list_incidents(limit) ==
  {incidents[i] : i \in {j \in DOMAIN incidents : j > Len(incidents) - limit}}

window(i) == (i.last_metric_timestamp - BeforeMargin)..(i.reboot_timestamp + AfterMargin)

protected(listed) ==
  UNION {window(i) : i \in {j \in listed : j.last_metric_timestamp # NoValue}}

Pass(table, cutoff, keep) == [table |-> table, cutoff |-> cutoff, protected |-> keep]

\* SQLite takes NaN for NULL.
cutoff_of(now, retention_hours) ==
  IF retention_hours = NaN THEN NoValue ELSE now - retention_hours

\* The clock is read, then the incidents; a failing listing protects nothing.
BeginPrune(now, retention_hours) ==
  /\ pass = NoValue
  /\ retention_hours # NaN => retention_hours > 0
  /\ \/ /\ pass' = Pass(1, cutoff_of(now, retention_hours), protected(list_incidents(Limit)))
        /\ UNCHANGED <<faults, blind>>
     \/ /\ faults < MaxFaults
        /\ pass' = Pass(1, cutoff_of(now, retention_hours), {})
        /\ faults' = faults + 1 /\ blind' = TRUE

\* Nothing compares with NULL.
where(row) ==
  /\ pass.cutoff # NoValue /\ row.timestamp < pass.cutoff
  /\ row.timestamp \notin pass.protected

\* Mutants: the pass ends one table late or early.
last_table_late == Len(Tables) + 1
last_table_missed == Len(Tables) - 1
last_table == Len(Tables)

\* The next table; a failing statement leaves it as it is.
PruneTable ==
  /\ pass # NoValue
  /\ \/ /\ rows' = {r \in rows : ~(r.table = Tables[pass.table] /\ where(r))}
        /\ UNCHANGED faults
     \/ /\ faults < MaxFaults
        /\ faults' = faults + 1
        /\ UNCHANGED rows
  /\ pass' = IF pass.table = last_table THEN NoValue ELSE [pass EXCEPT !.table = @ + 1]
  /\ UNCHANGED <<incidents, blind>>
==============================================================================
