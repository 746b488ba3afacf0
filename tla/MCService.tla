------------------------------- MODULE MCService -------------------------------
(* Two tables, windows that reach as far as the margins or further, and one  *)
(* incident that is listed.                                                  *)
EXTENDS Service

MCOpeners == {"service", "cli"}
MCStatements == <<"schema_version", "metrics", "index">>
MCTables == <<"metrics_cpu", "metrics_gpu">>

Times(retention_ticks, before, after) ==
  [key \in Keys |->
     CASE key = "retention_hours" -> Value("int", retention_ticks)
       [] key = "incident_window_before_minutes" -> Value("int", before)
       [] key = "incident_window_after_minutes" -> Value("int", after)
       [] OTHER -> Value("absent", None)]
Yaml(data) == [state |-> "yaml", data |-> data]

Good == Yaml(Times(1, 1, 0))
Wide == Yaml(Times(2, 2, 1))
TextThreshold == Yaml([Times(1, 1, 0) EXCEPT !.cpu_warning_percent = Value("str", 90)])

NoNumbers == Yaml([Times(1, 1, 0) EXCEPT !.retention_hours = Value("float", NaN)])
NoFloat == Yaml([Times(1, 1, 0) EXCEPT !.retention_hours = Value("int", Infinity),
                                       !.incident_window_before_minutes = Value("float", NaN)])

MCFiles == {Good, Wide, TextThreshold, NoNumbers, NoFloat}
BadFiles == {TextThreshold}
==============================================================================
