-------------------------------- MODULE Config --------------------------------
(***************************************************************************)
(* config.yaml and what load_config() makes of it (agent/config.py).       *)
(*                                                                         *)
(* A YAML value is its Python type and a number n: the number itself (1 or *)
(* 0 for a bool) or, for a string, the number that it spells, for          *)
(* logging_level the position of the level that it spells in any case;     *)
(* None when it spells neither, and for null, lists and mappings.          *)
(*                                                                         *)
(* Numbers are whole, as ints and as floats, and a float may be NaN.  Up   *)
(* to Exact every number is a float; beyond it only every 32nd is, so that *)
(* adding 10 may do nothing (the spacing of doubles is 2 from 2^53 on and  *)
(* doubles again and again).  From Infinity on no finite float is left:    *)
(* .inf has that value, and an int that large has no float.                *)
(***************************************************************************)
EXTENDS Integers

CONSTANTS None, NaN, Exact, Infinity

\* What a module that uses this one assumes of its constants.
UsualNumbers ==
  /\ None \notin Int /\ NaN \notin Int /\ NaN # None
  /\ Exact \in Nat /\ Exact > 1000
  /\ Infinity \in Nat /\ Infinity > Exact + 100

TopLevel == {"collection_interval_seconds", "low_frequency_interval_seconds",
             "retention_hours", "incident_window_before_minutes",
             "incident_window_after_minutes"}
Temperatures == {"temperature_warning_celsius", "temperature_critical_celsius"}
Thresholds == {"cpu_warning_percent", "cpu_critical_percent", "memory_warning_percent",
               "memory_critical_percent", "disk_warning_percent", "disk_free_gb_warning"}
Keys == TopLevel \cup Temperatures \cup Thresholds \cup {"logging_level"}

Kinds == {"absent", "null", "bool", "int", "float", "str", "other"}
Value(kind, n) == [kind |-> kind, n |-> n]

ALLOWED_INTERVALS == {10, 30, 60}
ALLOWED_LOG_LEVELS == 1..4  \* DEBUG, INFO, WARNING, ERROR

Default ==
  [ collection_interval_seconds    |-> Value("int", 30),
    low_frequency_interval_seconds |-> Value("int", 300),
    retention_hours                |-> Value("int", 24),
    incident_window_before_minutes |-> Value("int", 30),
    incident_window_after_minutes  |-> Value("int", 5),
    temperature_warning_celsius    |-> Value("float", 85),
    temperature_critical_celsius   |-> Value("float", 95),
    cpu_warning_percent            |-> Value("float", 90),
    cpu_critical_percent           |-> Value("float", 98),
    memory_warning_percent         |-> Value("float", 90),
    memory_critical_percent        |-> Value("float", 95),
    disk_warning_percent           |-> Value("float", 90),
    disk_free_gb_warning           |-> Value("float", 5),
    logging_level                  |-> Value("str", 2) ]

\* isinstance(x, (int, float)): a bool is an int.
Number(x) == x.kind \in {"bool", "int", "float"}
\* isinstance(x, int)
Whole(x) == x.kind \in {"bool", "int"}
\* What the number of a value may be.
Spelled(x) == /\ x.n \in Int \cup {NaN, None}
              /\ Number(x) => x.n \in Int \/ (x.kind = "float" /\ x.n = NaN)
\* x <= y and x < y: nothing compares with NaN.
AtMost(x, y) == x # NaN /\ y # NaN /\ x <= y
Below(x, y) == x # NaN /\ y # NaN /\ x < y

\* An int for which float(), and arithmetic with floats, raises OverflowError.
Overflows(x) == x.kind = "int" /\ ~(-Infinity < x.n /\ x.n < Infinity)
\* float(x) returns: of a number that fits and of a string that spells one.
Floats(x) == (Number(x) /\ ~Overflows(x)) \/ (x.kind = "str" /\ x.n # None)

rounded(n) == IF -Exact < n /\ n < Exact THEN n ELSE Exact + 32 * ((n - Exact) \div 32)
to_float(n) ==
  IF n = NaN THEN NaN
  ELSE IF n >= Infinity THEN Infinity
  ELSE IF rounded(n) <= -Infinity THEN -Infinity
  ELSE rounded(n)
ten_more(float) == IF float \in {NaN, Infinity, -Infinity} THEN float ELSE to_float(float + 10)

\* Mutant: `data.get(key) or default`, which also drops a 0.
from_dict_falsy(data) ==
  [key \in Keys |-> IF data[key].kind \in {"absent", "null"} \/ data[key].n = 0
                    THEN Default[key] ELSE data[key]]
\* A null is as good as an absent key, except for temperatures and the level.
from_dict(data) ==
  LET missing(key) == \/ data[key].kind = "absent"
                      \/ data[key].kind = "null" /\ key \in TopLevel \cup Thresholds
  IN [key \in Keys |-> IF missing(key) THEN Default[key] ELSE data[key]]

\* Mutant: the types are checked and the least values are not.
acceptable_by_type(key, x) ==
  /\ key \in TopLevel => Number(x)
  /\ key = "low_frequency_interval_seconds" => Whole(x)
  /\ key = "logging_level" => x.kind = "str" /\ x.n \in ALLOWED_LOG_LEVELS
\* What validated() leaves as it is: each check asks for what is wrong, and of a
\* NaN no order is.  Thresholds are not looked at.
acceptable(key, x) ==
  /\ key \in TopLevel => Number(x) /\ ~Below(x.n, 0)
  /\ key = "collection_interval_seconds" => x.n \in ALLOWED_INTERVALS
  /\ key = "low_frequency_interval_seconds" => Whole(x) /\ x.n >= 30
  /\ key = "retention_hours" => ~AtMost(x.n, 0)
  /\ key = "logging_level" => x.kind = "str" /\ x.n \in ALLOWED_LOG_LEVELS

\* Mutant: the limits are compared before the types, so that a string raises.
validated_raises_on_text(cfg) ==
  ~Number(cfg.retention_hours) \/ \E key \in Temperatures : ~Floats(cfg[key])
validated_raises(cfg) == \E key \in Temperatures : ~Floats(cfg[key])

validated(cfg) ==
  LET checked == [key \in Keys |-> IF acceptable(key, cfg[key]) THEN cfg[key]
                                                                ELSE Default[key]]
      warning == to_float(cfg.temperature_warning_celsius.n)
      critical == to_float(cfg.temperature_critical_celsius.n)
  IN [checked EXCEPT
        !.temperature_warning_celsius = Value("float", warning),
        !.temperature_critical_celsius =
          Value("float", IF AtMost(critical, warning) THEN ten_more(warning) ELSE critical)]

\* The data of a file: none if there is none, it cannot be opened, or it is no
\* YAML.  What is caught is OSError and YAMLError; the ValueErrors of a file that
\* is not UTF-8, and of a scalar that PyYAML cannot construct (a date such as
\* 2026-02-30, an int of thousands of digits) under whatever key, are not.
data_of(file) == IF file.state = "yaml" THEN file.data
                 ELSE [key \in Keys |-> Value("absent", None)]

load_raises(file) ==
  \/ file.state \in {"not_utf8", "bad_scalar"}
  \/ validated_raises(from_dict(data_of(file)))

load_config(file) == validated(from_dict(data_of(file)))
==============================================================================
