----------------------------- MODULE MCSimulation -----------------------------
(* The four scenarios with files that are good, or bad in one or two keys.   *)
EXTENDS Simulation

Empty == [key \in Keys |-> Value("absent", None)]
Yaml(data) == [state |-> "yaml", data |-> data]
One(key, values) == {Yaml([Empty EXCEPT ![key] = x]) : x \in values}
Two(key, x, other, y) == Yaml([Empty EXCEPT ![key] = x, ![other] = y])

nan == Value("float", NaN)
inf == Value("float", Infinity)
huge == Value("int", Infinity)
Long == Infinity \div 50  \* minutes: a float, but not in seconds

MCFiles ==
       {Yaml(Empty)} \cup {[state |-> s, data |-> Empty] : s \in {"missing", "unreadable", "not_utf8", "bad_scalar"}}
  \cup One("collection_interval_seconds",
           {Value("int", 10), Value("float", 60), Value("int", 15), Value("str", 30)})
  \cup One("low_frequency_interval_seconds", {Value("int", 29), Value("float", 60), Value("bool", 1)})
  \cup One("retention_hours", {Value("int", 0), Value("str", 24), Value("bool", 1), Value("null", None), nan})
  \cup One("incident_window_before_minutes",
           {Value("int", 0), Value("int", -1), Value("int", 4), Value("int", Long), huge})
  \cup One("incident_window_after_minutes", {Value("int", 0), Value("int", -5), nan, inf})
  \cup One("temperature_warning_celsius",
           {Value("null", None), Value("str", 85), Value("str", None), Value("int", 100),
            nan, inf, Value("int", Exact), Value("int", Exact + 50)})
  \cup One("temperature_critical_celsius",
           {Value("int", 80), Value("other", None), Value("str", NaN), huge})
  \cup One("cpu_warning_percent", {Value("null", None), Value("str", 90), Value("int", 91), nan})
  \cup One("logging_level", {Value("str", 1), Value("str", None), Value("null", None)})
  \cup { Two("cpu_warning_percent", Value("str", 90), "incident_window_before_minutes", Value("int", 0)),
         Two("cpu_warning_percent", Value("str", 90), "collection_interval_seconds", Value("int", 15)),
         Two("retention_hours", Value("int", 0), "incident_window_after_minutes", Value("int", 0)) }
==============================================================================
