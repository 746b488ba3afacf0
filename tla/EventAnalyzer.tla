---------------------------- MODULE EventAnalyzer ----------------------------
(***************************************************************************)
(* Categories of Windows event rows (diagnostics/event_analyzer.py).       *)
(*                                                                         *)
(* A provider string is abstracted to the set of names it matches: the     *)
(* families whose needles occur in it (_contains_any), and the two names   *)
(* that the code compares with =.  An event is a record with the fields    *)
(*   provider   a subset of Families                                       *)
(*   event_id   the stored integer (often signed), or None                 *)
(*   bugcheck   whether the message contains the word "bugcheck"           *)
(***************************************************************************)
EXTENDS Integers, FiniteSets

CONSTANT None  \* Python's None, SQL's NULL

ASSUME NoneAssumption == None \notin Int

Families == {"kernel_power", "bugcheck", "whea", "disk", "display",
             "EventLog", "Service Control Manager"}

DISK_ERROR_EVENT_IDS == {7, 9, 11, 15, 51, 52, 55, 98, 129, 140, 153, 157}
SHUTDOWN_CLEAN_IDS == {6006, 1074}
SHUTDOWN_UNEXPECTED_IDS == {6008}

Categories == {"kernel_power", "bugcheck", "whea", "disk", "display",
               "shutdown_clean", "shutdown_unexpected", "service_control", "other"}

\* int(raw) & 0xFFFF: the low 16 bits, for either sign of the stored integer.
event_id(ev) == IF ev.event_id = None THEN None ELSE ev.event_id % 65536

\* The order of the tests is the order of the code: the first match decides.
classify_event(ev) ==
  LET id == event_id(ev) IN
  IF id = 41 /\ ev.provider \cap {"kernel_power", "EventLog"} # {} THEN "kernel_power"
  ELSE IF "bugcheck" \in ev.provider \/ (id = 1001 /\ ev.bugcheck) THEN "bugcheck"
  ELSE IF "whea" \in ev.provider THEN "whea"
  ELSE IF "disk" \in ev.provider /\ id \in DISK_ERROR_EVENT_IDS THEN "disk"
  ELSE IF "display" \in ev.provider THEN "display"
  ELSE IF id \in SHUTDOWN_CLEAN_IDS THEN "shutdown_clean"
  ELSE IF id \in SHUTDOWN_UNEXPECTED_IDS THEN "shutdown_unexpected"
  ELSE IF "Service Control Manager" \in ev.provider THEN "service_control"
  ELSE "other"

\* The counts of summarize() over a set of rows; the flags are counts > 0.
summarize(events) ==
  LET Of(cat) == Cardinality({ev \in events : classify_event(ev) = cat}) IN
  [ whea_count          |-> Of("whea"),
    disk_error_count    |-> Of("disk"),
    display_error_count |-> Of("display"),
    clean_shutdown            |-> Of("shutdown_clean") > 0,
    unexpected_shutdown_event |-> Of("shutdown_unexpected") > 0,
    kernel_power_detected     |-> Of("kernel_power") > 0,
    bugcheck_detected         |-> Of("bugcheck") > 0 ]
==============================================================================
