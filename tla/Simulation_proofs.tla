--------------------------- MODULE Simulation_proofs ---------------------------
(***************************************************************************)
(* Proofs about Simulation, for every set of configuration files and any   *)
(* number of runs of the command: what load_config() guarantees of a file, *)
(* and that each scenario comes out as it is documented to, over whatever  *)
(* earlier runs have left.                                                 *)
(*                                                                         *)
(* The properties speak of the end of a run.  They follow from DatabaseInv *)
(* and OutcomeInv, which say at each value of pc what the database holds   *)
(* and, once the diagnosis is done, which incident it is, for each         *)
(* scenario and each of the allowed intervals.                             *)
(***************************************************************************)
EXTENDS Simulation, FiniteSetTheorems, SequenceTheorems, TLAPS

USE NoneAssumption

-------------------------------------------------------------------------------
(* Configuration.                                                          *)

Values == [kind: Kinds, n: Int \cup {NaN, None}]

LEMMA DefaultTypes == /\ Default \in Settings
                      /\ \A key \in Keys : Default[key].n \in Int
BY DEF Default, Settings, Keys, TopLevel, Temperatures, Thresholds, Value, Kinds

\* A key has the default or what the file says.
LEMMA ReadValue ==
  ASSUME NEW f \in Files, NEW key \in Keys
  PROVE  /\ from_dict(data_of(f))[key] \in Values
         /\ Spelled(from_dict(data_of(f))[key])
         /\ from_dict(data_of(f))[key] = Default[key] \/
              (f.state = "yaml" /\ from_dict(data_of(f))[key] = f.data[key]
                                /\ f.data[key].kind # "absent")
<1>1. Default[key] \in Values /\ Spelled(Default[key])
  BY DefaultTypes DEF Settings, Values, Spelled
<1>2. f.data[key] \in Values /\ Spelled(f.data[key])
  BY FilesAssumption DEF Settings, Values
<1>3. from_dict(data_of(f))[key] = Default[key] \/
        (f.state = "yaml" /\ from_dict(data_of(f))[key] = f.data[key]
                          /\ f.data[key].kind # "absent")
  <2>1. CASE f.state = "yaml"
    BY <2>1 DEF from_dict, data_of
  <2>2. CASE f.state # "yaml"
    BY <2>2 DEF from_dict, data_of, Value
  <2> QED
    BY <2>1, <2>2
<1> HIDE DEF Values
<1> QED
  BY <1>1, <1>2, <1>3

\* What validated() does to each key.
LEMMA ValidatedKeys ==
  ASSUME NEW c
  PROVE  LET warning == to_float(c.temperature_warning_celsius.n)
             critical == to_float(c.temperature_critical_celsius.n)
         IN /\ DOMAIN validated(c) = Keys
            /\ \A key \in Keys \ Temperatures :
                 validated(c)[key] = IF acceptable(key, c[key]) THEN c[key] ELSE Default[key]
            /\ validated(c).temperature_warning_celsius = Value("float", warning)
            /\ validated(c).temperature_critical_celsius =
                 Value("float", IF AtMost(critical, warning) THEN ten_more(warning) ELSE critical)
BY DEF validated, Keys, Temperatures

LEMMA KeyGroups ==
  /\ Keys \ Temperatures \subseteq Keys /\ TopLevel \subseteq Keys \ Temperatures
  /\ Thresholds \subseteq Keys \ Temperatures
  /\ "temperature_warning_celsius" \in Keys /\ "temperature_critical_celsius" \in Keys
  /\ Keys = (Keys \ Temperatures) \cup {"temperature_warning_celsius", "temperature_critical_celsius"}
BY DEF Keys, TopLevel, Temperatures, Thresholds

\* float() returns a float, and adding 10 to one that is not huge makes it larger.
LEMMA FloatFacts ==
  ASSUME NEW n \in Int \cup {NaN}
  PROVE  /\ to_float(n) \in Int \cup {NaN}
         /\ ten_more(to_float(n)) \in Int \cup {NaN}
         /\ to_float(n) # NaN /\ -Exact < to_float(n) /\ to_float(n) < Exact
              => ten_more(to_float(n)) > to_float(n)
<1>1. /\ Exact \in Nat /\ Infinity \in Nat /\ Exact > 1000 /\ Infinity > Exact + 100
      /\ NaN \notin Int
  BY NumbersAssumption DEF UsualNumbers
<1>2. ASSUME NEW i \in Int PROVE rounded(i) \in Int
  BY <1>1 DEF rounded
<1>3. ASSUME NEW m \in Int \cup {NaN} PROVE to_float(m) \in Int \cup {NaN}
  BY <1>1, <1>2, <1>3 DEF to_float
<1>4. ASSUME NEW i \in Int, -Exact < i, i < Exact PROVE ten_more(i) > i
  <2>1. to_float(i + 10) > i
    <3>1. CASE i + 10 < Exact
      BY <1>1, <1>4, <3>1 DEF to_float, rounded
    <3>2. CASE ~(i + 10 < Exact)
      <4>1. (i + 10 - Exact) \div 32 = 0
        BY <1>1, <1>4, <3>2
      <4>2. rounded(i + 10) = Exact
        BY <1>1, <1>4, <3>2, <4>1 DEF rounded
      <4> QED
        BY <1>1, <1>4, <3>2, <4>2 DEF to_float
    <3> QED
      BY <3>1, <3>2
  <2>2. i \notin {NaN, Infinity, -Infinity}
    BY <1>1, <1>4
  <2> QED
    BY <2>1, <2>2 DEF ten_more
<1> DEFINE x == to_float(n)
<1>5. x \in Int \cup {NaN}
  BY <1>3
<1> HIDE DEF x
<1>6. ten_more(x) \in Int \cup {NaN}
  <2>1. CASE x \in {NaN, Infinity, -Infinity}
    BY <1>5, <2>1 DEF ten_more
  <2>2. CASE x \notin {NaN, Infinity, -Infinity}
    <3>1. x + 10 \in Int /\ ten_more(x) = to_float(x + 10)
      BY <1>5, <2>2 DEF ten_more
    <3> QED
      BY <1>3, <3>1
  <2> QED
    BY <2>1, <2>2
<1>7. x # NaN /\ -Exact < x /\ x < Exact => ten_more(x) > x
  BY <1>4, <1>5
<1> QED
  BY <1>5, <1>6, <1>7 DEF x

\* The temperatures of a configuration that loads are floats.
LEMMA ReadTemperature ==
  ASSUME NEW f \in Files, ~load_raises(f), NEW key \in Temperatures
  PROVE  from_dict(data_of(f))[key].n \in Int \cup {NaN}
<1>1. key \in Keys
  BY DEF Keys
<1>2. Floats(from_dict(data_of(f))[key])
  BY DEF load_raises, validated_raises
<1> QED
  BY <1>1, <1>2, ReadValue DEF Floats, Spelled, Number

\* LoadedIsSafe of a configuration.
Safe(c) ==
  /\ c.collection_interval_seconds.n \in ALLOWED_INTERVALS
  /\ c.low_frequency_interval_seconds.n >= 30
  /\ ~AtMost(c.retention_hours.n, 0)
  /\ \A key \in Windows : ~Below(c[key].n, 0)
  /\ LET warning == c.temperature_warning_celsius.n
         critical == c.temperature_critical_celsius.n
     IN AtMost(critical, warning) => ~(-Exact < warning /\ warning < Exact)

\* Whatever the file holds, load_config() either raises or returns a
\* configuration whose values are in range.
LEMMA LoadedIsTyped ==
  ASSUME NEW f \in Files, ~load_raises(f)
  PROVE  load_config(f) \in Settings /\ Safe(load_config(f))
<1> DEFINE read == from_dict(data_of(f))
           c == load_config(f)
           warning == to_float(read.temperature_warning_celsius.n)
           critical == to_float(read.temperature_critical_celsius.n)
           ordered == IF AtMost(critical, warning) THEN ten_more(warning) ELSE critical
<1>1. /\ DOMAIN c = Keys
      /\ \A key \in Keys \ Temperatures :
           c[key] = IF acceptable(key, read[key]) THEN read[key] ELSE Default[key]
      /\ c.temperature_warning_celsius = Value("float", warning)
      /\ c.temperature_critical_celsius = Value("float", ordered)
  BY ValidatedKeys DEF load_config
<1>2. \A key \in Keys : read[key] \in Values /\ Default[key] \in Values
  BY ReadValue, DefaultTypes DEF Settings, Values
<1>3. /\ warning \in Int \cup {NaN} /\ critical \in Int \cup {NaN}
      /\ ordered \in Int \cup {NaN}
      /\ warning # NaN /\ -Exact < warning /\ warning < Exact => ten_more(warning) > warning
      /\ ten_more(warning) \in Int \cup {NaN}
  <2>1. /\ read.temperature_warning_celsius.n \in Int \cup {NaN}
        /\ read.temperature_critical_celsius.n \in Int \cup {NaN}
    BY ReadTemperature DEF Temperatures
  <2> HIDE DEF read
  <2> QED
    BY <2>1, FloatFacts
<1>4. c \in Settings
  <2> DEFINE checked == [key \in Keys |-> IF acceptable(key, read[key]) THEN read[key]
                                                                     ELSE Default[key]]
             low == Value("float", warning)
             high == Value("float", ordered)
  <2>1. c = [checked EXCEPT !.temperature_warning_celsius = low,
                            !.temperature_critical_celsius = high]
    BY DEF load_config, validated
  <2> HIDE DEF c, read, warning, ordered
  <2>2. checked \in [Keys -> Values]
    <3> HIDE DEF Values
    <3> QED
      BY <1>2
  <2>3. low \in Values /\ high \in Values
    BY <1>3 DEF Value, Values, Kinds
  <2> HIDE DEF checked, low, high
  <2>4. c \in [Keys -> Values]
    <3> HIDE DEF Values
    <3> QED
      BY <2>1, <2>2, <2>3
  <2> QED
    BY <2>4 DEF Settings, Values
<1> HIDE DEF c, read, warning, critical
<1>5. AtMost(c.temperature_critical_celsius.n, c.temperature_warning_celsius.n)
        => ~(-Exact < c.temperature_warning_celsius.n /\ c.temperature_warning_celsius.n < Exact)
  <2>1. c.temperature_warning_celsius.n = warning /\ c.temperature_critical_celsius.n = ordered
    BY <1>1 DEF Value
  <2>2. Exact \in Nat
    BY NumbersAssumption DEF UsualNumbers
  <2> QED
    BY <1>3, <2>1, <2>2 DEF AtMost
<1>6. ASSUME NEW key \in TopLevel
      PROVE  \/ c[key] = Default[key]
             \/ c[key] = read[key] /\ acceptable(key, c[key])
  BY <1>1, KeyGroups
<1>7. c.collection_interval_seconds.n \in ALLOWED_INTERVALS
  BY <1>6 DEF TopLevel, acceptable, Default, Value, ALLOWED_INTERVALS
<1>8. c.low_frequency_interval_seconds.n >= 30
  BY <1>6 DEF TopLevel, acceptable, Default, Value
<1>9. ~AtMost(c.retention_hours.n, 0)
  BY <1>6 DEF TopLevel, acceptable, Default, Value, AtMost
<1>10. \A key \in Windows : ~Below(c[key].n, 0)
  BY <1>6 DEF TopLevel, acceptable, Default, Value, Below, Windows
<1> QED
  BY <1>4, <1>5, <1>7, <1>8, <1>9, <1>10 DEF Safe, c

\* What is allowed passes the checks, also on either side of a NaN.
LEMMA AllowedPasses ==
  ASSUME NEW key \in TopLevel, NEW x, Spelled(x), Allowed(key, x)
  PROVE  acceptable(key, x) /\ x.kind \notin {"absent", "null"}
<1>1. Number(x) /\ AtMost(0, x.n) /\ x.n \in Int
  BY NumbersAssumption DEF UsualNumbers, Allowed, Number, AtMost, Below, Spelled, TopLevel
<1>2. x.kind \notin {"absent", "null"}
  BY <1>1 DEF Number
<1>3. key # "logging_level"
  BY DEF TopLevel
<1> QED
  BY <1>1, <1>2, <1>3
  DEF Allowed, acceptable, Number, Whole, AtMost, Below, ALLOWED_INTERVALS, TopLevel

\* An allowed value that the file sets is the one that is used.
LEMMA LoadedKeeps ==
  ASSUME NEW f \in Files, f.state = "yaml", NEW key \in TopLevel, Allowed(key, f.data[key])
  PROVE  load_config(f)[key] = f.data[key]
<1>1. acceptable(key, f.data[key]) /\ f.data[key].kind \notin {"absent", "null"}
  BY KeyGroups, FilesAssumption, AllowedPasses
<1>2. from_dict(data_of(f))[key] = f.data[key]
  BY <1>1, KeyGroups DEF from_dict, data_of
<1> QED
  BY <1>1, <1>2, ValidatedKeys, KeyGroups DEF load_config
-------------------------------------------------------------------------------
(* The evidence of each scenario.                                          *)

Ids == {41, 109, 172, 521, 1001, 1074, 6005, 6006, 6009, 6013}

LEMMA EventFields ==
  ASSUME NEW t, NEW p, NEW id \in Ids
  PROVE  /\ Event(t, p, id).timestamp = t
         /\ event_id(Event(t, p, id)) = id
<1>1. id \in Int /\ id % 65536 = id
  BY DEF Ids
<1>2. Event(t, p, id).timestamp = t /\ Event(t, p, id).event_id = id
  BY DEF Event
<1> QED
  BY <1>1, <1>2 DEF event_id

LEMMA EventCategories ==
  ASSUME NEW t
  PROVE  /\ classify_event(Event(t, {"EventLog"}, 6009)) = "other"
         /\ classify_event(Event(t, {"EventLog"}, 6005)) = "other"
         /\ classify_event(Event(t, {"EventLog"}, 6013)) = "other"
         /\ classify_event(Event(t, {"kernel_power"}, 109)) = "other"
         /\ classify_event(Event(t, {"kernel_power"}, 172)) = "other"
         /\ classify_event(Event(t, {"kernel_power"}, 521)) = "other"
         /\ classify_event(Event(t, {"kernel_power"}, 41)) = "kernel_power"
         /\ classify_event(Event(t, {"bugcheck"}, 1001)) = "bugcheck"
         /\ classify_event(Event(t, {}, 1074)) = "shutdown_clean"
         /\ classify_event(Event(t, {"EventLog"}, 6006)) = "shutdown_clean"
<1>1. \A id \in Int : id # None
  OBVIOUS
<1> QED
  BY <1>1 DEF Event, classify_event, event_id, SHUTDOWN_CLEAN_IDS, SHUTDOWN_UNEXPECTED_IDS

\* A flag of the summary is set exactly when there is such an event.
LEMMA SummaryFlags ==
  ASSUME NEW E, IsFiniteSet(E)
  PROVE  /\ summarize(E).clean_shutdown <=> \E e \in E : classify_event(e) = "shutdown_clean"
         /\ summarize(E).unexpected_shutdown_event <=>
              \E e \in E : classify_event(e) = "shutdown_unexpected"
         /\ summarize(E).kernel_power_detected <=> \E e \in E : classify_event(e) = "kernel_power"
         /\ summarize(E).bugcheck_detected <=> \E e \in E : classify_event(e) = "bugcheck"
<1> DEFINE Of(cat) == {e \in E : classify_event(e) = cat}
<1>1. ASSUME NEW cat PROVE (Cardinality(Of(cat)) > 0) <=> \E e \in E : classify_event(e) = cat
  <2>1. IsFiniteSet(Of(cat))
    BY FS_Subset
  <2>2. Cardinality(Of(cat)) \in Nat /\ (Cardinality(Of(cat)) = 0 <=> Of(cat) = {})
    <3> HIDE DEF Of
    <3> QED
      BY <2>1, FS_CardinalityType, FS_EmptySet
  <2>3. Of(cat) = {} <=> ~(\E e \in E : classify_event(e) = cat)
    OBVIOUS
  <2> QED
    BY <2>2, <2>3
<1>2. /\ summarize(E).clean_shutdown = (Cardinality(Of("shutdown_clean")) > 0)
      /\ summarize(E).unexpected_shutdown_event = (Cardinality(Of("shutdown_unexpected")) > 0)
      /\ summarize(E).kernel_power_detected = (Cardinality(Of("kernel_power")) > 0)
      /\ summarize(E).bugcheck_detected = (Cardinality(Of("bugcheck")) > 0)
  BY DEF summarize
<1> HIDE DEF Of
<1> QED
  BY <1>1, <1>2

LEMMA ScenarioNames == DOMAIN Scenarios = {"hard_hang", "power_loss", "bsod", "normal_restart"}
BY DEF Scenarios

\* The records that every boot writes say nothing about how the run before ended.
Neutral(boot_time) ==
  { Event(2, {"EventLog"}, 6005), Event(boot_time + 4, {"EventLog"}, 6009),
    Event(boot_time + 4, {"EventLog"}, 6005), Event(boot_time + 4, {"EventLog"}, 6013),
    Event(boot_time + 7, {"kernel_power"}, 109) }

LEMMA FiniteFive ==
  ASSUME NEW a, NEW b, NEW c, NEW d, NEW e
  PROVE  IsFiniteSet({a, b, c, d, e})
<1>1. ASSUME NEW x PROVE IsFiniteSet({x})
  BY FS_Singleton
<1>2. IsFiniteSet({d} \cup {e})
  BY <1>1, FS_Union
<1>3. IsFiniteSet({c} \cup ({d} \cup {e}))
  BY <1>1, <1>2, FS_Union
<1>4. IsFiniteSet({b} \cup ({c} \cup ({d} \cup {e})))
  BY <1>1, <1>3, FS_Union
<1>5. IsFiniteSet({a} \cup ({b} \cup ({c} \cup ({d} \cup {e}))))
  BY <1>1, <1>4, FS_Union
<1>6. {a, b, c, d, e} = {a} \cup ({b} \cup ({c} \cup ({d} \cup {e})))
  OBVIOUS
<1> QED
  BY <1>5, <1>6

\* What the scenarios add to them.
KernelPower(b) == {Event(b, {"kernel_power"}, 41)}
BugCheck(b) == {Event(b, {"bugcheck"}, 1001)}
CleanExit == { Event(1485, {}, 1074), Event(1485, {"EventLog"}, 6006),
               Event(1492, {"kernel_power"}, 109), Event(1494, {"kernel_power"}, 172),
               Event(1496, {"kernel_power"}, 521) }

\* The ids of which the report speaks.
Telling == {41, 1001, 1074, 6006, 6008}
Recorded(E, ids) == \E e \in E : event_id(e) \in ids

LEMMA NeutralEvents ==
  ASSUME NEW b \in Nat
  PROVE  /\ IsFiniteSet(Neutral(b))
         /\ \A e \in Neutral(b) : classify_event(e) = "other" /\ event_id(e) \notin Telling
<1>1. IsFiniteSet(Neutral(b))
  <2> DEFINE a1 == Event(2, {"EventLog"}, 6005)
             a2 == Event(b + 4, {"EventLog"}, 6009)
             a3 == Event(b + 4, {"EventLog"}, 6005)
             a4 == Event(b + 4, {"EventLog"}, 6013)
             a5 == Event(b + 7, {"kernel_power"}, 109)
  <2>1. Neutral(b) = {a1, a2, a3, a4, a5}
    BY DEF Neutral
  <2> HIDE DEF a1, a2, a3, a4, a5
  <2>2. IsFiniteSet({a1, a2, a3, a4, a5})
    BY FiniteFive
  <2> QED
    BY <2>1, <2>2
<1>2. \A e \in Neutral(b) : classify_event(e) = "other"
  BY EventCategories DEF Neutral
<1>3. \A e \in Neutral(b) : event_id(e) \notin Telling
  BY EventFields DEF Neutral, Ids, Telling
<1> QED
  BY <1>1, <1>2, <1>3

\* What boot_events() and the session's start give, with and without them.
PowerBoot(b) == boot_events(b, TRUE, FALSE) \cup {started_event}
BugBoot(b) == boot_events(b, FALSE, TRUE) \cup {started_event}
PlainBoot(b) == boot_events(b, FALSE, FALSE) \cup {started_event}
CleanBoot == PlainBoot(1500) \cup CleanExit

LEMMA BootEvents ==
  ASSUME NEW b \in Nat
  PROVE  /\ PowerBoot(b) = Neutral(b) \cup KernelPower(b)
         /\ BugBoot(b) = Neutral(b) \cup BugCheck(b)
         /\ PlainBoot(b) = Neutral(b)
<1>1. {Event(b + 4, {"EventLog"}, id) : id \in {6009, 6005, 6013}} =
        { Event(b + 4, {"EventLog"}, 6009), Event(b + 4, {"EventLog"}, 6005),
          Event(b + 4, {"EventLog"}, 6013) }
  OBVIOUS
<1>2. PowerBoot(b) = Neutral(b) \cup KernelPower(b)
  BY <1>1 DEF PowerBoot, boot_events, started_event, Neutral, KernelPower
<1>3. BugBoot(b) = Neutral(b) \cup BugCheck(b)
  BY <1>1 DEF BugBoot, boot_events, started_event, Neutral, BugCheck
<1>4. PlainBoot(b) = Neutral(b)
  BY <1>1 DEF PlainBoot, boot_events, started_event, Neutral
<1> QED
  BY <1>2, <1>3, <1>4

LEMMA ScenarioIs ==
  /\ scenario = "hard_hang" => S = hard_hang
  /\ scenario = "power_loss" => S = power_loss
  /\ scenario = "bsod" => S = bsod
  /\ scenario = "normal_restart" => S = normal_restart
BY DEF S, Scenarios

LEMMA BootTimes ==
  /\ hard_hang.boot = 1560 /\ power_loss.boot = 1260
  /\ bsod.boot = 1200 /\ normal_restart.boot = 1500
BY DEF hard_hang, power_loss, bsod, normal_restart

LEMMA EventSets ==
  /\ hard_hang.events = PowerBoot(1560) /\ power_loss.events = PowerBoot(1260)
  /\ bsod.events = BugBoot(1200) /\ normal_restart.events = CleanBoot
<1>1. hard_hang.events = PowerBoot(1560) /\ power_loss.events = PowerBoot(1260)
  <2>1. hard_hang.events = PowerBoot(1560)
    BY DEF hard_hang, PowerBoot
  <2>2. power_loss.events = PowerBoot(1260)
    BY DEF power_loss, PowerBoot
  <2> QED
    BY <2>1, <2>2
<1>2. bsod.events = BugBoot(1200)
  BY DEF bsod, BugBoot
<1>3. normal_restart.events = CleanBoot
  <2> DEFINE early == {Event(1485, {}, 1074), Event(1485, {"EventLog"}, 6006)}
             late == {Event(1492, {"kernel_power"}, 109), Event(1494, {"kernel_power"}, 172),
                      Event(1496, {"kernel_power"}, 521)}
  <2>1. normal_restart.events = (PlainBoot(1500) \cup early) \cup late
    BY DEF normal_restart, PlainBoot
  <2>2. CleanExit = early \cup late
    BY DEF CleanExit
  <2> HIDE DEF early, late
  <2> QED
    BY <2>1, <2>2 DEF CleanBoot
<1> QED
  BY <1>1, <1>2, <1>3

\* All that a set of events tells is of one category.
Shows(E, category) ==
  /\ IsFiniteSet(E)
  /\ \A e \in E : classify_event(e) \in {"other", category}
  /\ \E e \in E : classify_event(e) = category
  /\ Recorded(E, {41}) <=> category = "kernel_power"
  /\ Recorded(E, {1001}) <=> category = "bugcheck"
  /\ Recorded(E, {1074, 6006}) <=> category = "shutdown_clean"
  /\ ~Recorded(E, {6008})

\* All of a scenario's events lie in the window that is searched for evidence.
InWindow(E, boot_time) ==
  \A e \in E : 0 <= e.timestamp /\ e.timestamp <= boot_time + BootMargin

LEMMA ScenarioEvents ==
  ASSUME NEW b \in Nat
  PROVE  /\ Shows(PowerBoot(b), "kernel_power") /\ InWindow(PowerBoot(b), b)
         /\ Shows(BugBoot(b), "bugcheck") /\ InWindow(BugBoot(b), b)
         /\ Shows(CleanBoot, "shutdown_clean") /\ InWindow(CleanBoot, 1500)
<1>1. IsFiniteSet(KernelPower(b)) /\ IsFiniteSet(BugCheck(b))
  <2>1. ASSUME NEW x PROVE IsFiniteSet({x})
    BY FS_Singleton
  <2> QED
    BY <2>1, SMTT(30) DEF KernelPower, BugCheck
<1>2. IsFiniteSet(CleanExit)
  <2> DEFINE a1 == Event(1485, {}, 1074)
             a2 == Event(1485, {"EventLog"}, 6006)
             a3 == Event(1492, {"kernel_power"}, 109)
             a4 == Event(1494, {"kernel_power"}, 172)
             a5 == Event(1496, {"kernel_power"}, 521)
  <2>1. CleanExit = {a1, a2, a3, a4, a5}
    BY DEF CleanExit
  <2> HIDE DEF a1, a2, a3, a4, a5
  <2>2. IsFiniteSet({a1, a2, a3, a4, a5})
    BY FiniteFive
  <2> QED
    BY <2>1, <2>2
<1>3. \A e \in KernelPower(b) : classify_event(e) = "kernel_power" /\ event_id(e) = 41
  BY EventCategories, EventFields DEF KernelPower, Ids
<1>4. \A e \in BugCheck(b) : classify_event(e) = "bugcheck" /\ event_id(e) = 1001
  BY EventCategories, EventFields DEF BugCheck, Ids
<1>5. \A e \in CleanExit : /\ classify_event(e) \in {"other", "shutdown_clean"}
                          /\ event_id(e) \notin {41, 1001, 6008}
  BY EventCategories, EventFields DEF CleanExit, Ids
<1>6. \E e \in CleanExit : classify_event(e) = "shutdown_clean" /\ event_id(e) \in {1074, 6006}
  BY EventCategories, EventFields DEF CleanExit, Ids
<1>7. KernelPower(b) # {} /\ BugCheck(b) # {}
  BY DEF KernelPower, BugCheck
<1>8. ASSUME NEW c \in Nat
      PROVE  /\ IsFiniteSet(Neutral(c))
             /\ \A e \in Neutral(c) : classify_event(e) = "other" /\ event_id(e) \notin Telling
             /\ InWindow(Neutral(c), c)
  <2>1. InWindow(Neutral(c), c)
    BY EventFields DEF InWindow, Neutral, BootMargin, Ids
  <2> QED
    BY <2>1, NeutralEvents
<1>9. InWindow(KernelPower(b), b) /\ InWindow(BugCheck(b), b) /\ InWindow(CleanExit, 1500)
  BY EventFields DEF InWindow, KernelPower, BugCheck, CleanExit, BootMargin, Ids
<1>10. ASSUME NEW E, NEW F, IsFiniteSet(E), IsFiniteSet(F)
       PROVE  IsFiniteSet(E \cup F)
  BY <1>10, FS_Union
<1>11. PowerBoot(b) = Neutral(b) \cup KernelPower(b) /\ BugBoot(b) = Neutral(b) \cup BugCheck(b)
  BY BootEvents
<1>12. CleanBoot = Neutral(1500) \cup CleanExit
  BY BootEvents DEF CleanBoot
<1>13. Shows(PowerBoot(b), "kernel_power")
  BY <1>1, <1>3, <1>7, <1>8, <1>10, <1>11 DEF Shows, Recorded, Telling
<1>14. Shows(BugBoot(b), "bugcheck")
  BY <1>1, <1>4, <1>7, <1>8, <1>10, <1>11 DEF Shows, Recorded, Telling
<1>15. Shows(CleanBoot, "shutdown_clean")
  BY <1>2, <1>5, <1>6, <1>8, <1>10, <1>12 DEF Shows, Recorded, Telling
<1>16. InWindow(PowerBoot(b), b) /\ InWindow(BugBoot(b), b) /\ InWindow(CleanBoot, 1500)
  <2>1. InWindow(Neutral(b), b) /\ InWindow(Neutral(1500), 1500)
    BY <1>8
  <2> QED
    BY <2>1, <1>9, <1>11, <1>12 DEF InWindow
<1> QED
  BY <1>13, <1>14, <1>15, <1>16

\* What the evidence of each scenario amounts to.
LEMMA Evidence ==
  ASSUME scenario \in DOMAIN Scenarios
  PROVE  /\ scenario = "hard_hang"      => Shows(S.events, "kernel_power") /\ S.boot = 1560
         /\ scenario = "power_loss"     => Shows(S.events, "kernel_power") /\ S.boot = 1260
         /\ scenario = "bsod"           => Shows(S.events, "bugcheck") /\ S.boot = 1200
         /\ scenario = "normal_restart" => Shows(S.events, "shutdown_clean") /\ S.boot = 1500
         /\ IsFiniteSet(S.events) /\ InWindow(S.events, S.boot) /\ S.boot \in Nat
<1> DEFINE Is(E, category, b) ==
      S.events = E /\ S.boot = b /\ Shows(E, category) /\ InWindow(E, b)
<1>0. 1560 \in Nat /\ 1260 \in Nat /\ 1200 \in Nat /\ 1500 \in Nat
  OBVIOUS
<1>1. ASSUME scenario = "hard_hang"
      PROVE  Is(PowerBoot(1560), "kernel_power", 1560)
  BY <1>0, <1>1, ScenarioIs, BootTimes, EventSets, ScenarioEvents
<1>2. ASSUME scenario = "power_loss"
      PROVE  Is(PowerBoot(1260), "kernel_power", 1260)
  BY <1>0, <1>2, ScenarioIs, BootTimes, EventSets, ScenarioEvents
<1>3. ASSUME scenario = "bsod"
      PROVE  Is(BugBoot(1200), "bugcheck", 1200)
  BY <1>0, <1>3, ScenarioIs, BootTimes, EventSets, ScenarioEvents
<1>4. ASSUME scenario = "normal_restart"
      PROVE  Is(CleanBoot, "shutdown_clean", 1500)
  BY <1>0, <1>4, ScenarioIs, BootTimes, EventSets, ScenarioEvents
<1>5. ASSUME NEW E, NEW category, NEW b,
             Is(E, category, b)
      PROVE  /\ Shows(S.events, category) /\ S.boot = b
             /\ IsFiniteSet(S.events) /\ InWindow(S.events, S.boot)
  BY <1>5 DEF Shows
<1> HIDE DEF Is
<1> QED
  BY <1>1, <1>2, <1>3, <1>4, <1>5, ScenarioNames
-------------------------------------------------------------------------------
(* The activity of each scenario.                                          *)

\* The last heartbeat, at the time of the last sample.
LastBeat(s) == COLLECTION_INTERVAL * (s.last_activity \div COLLECTION_INTERVAL)

LEMMA LastBeats ==
  /\ hard_hang.last_activity = 1260 /\ LastBeat(hard_hang) = 1260
  /\ power_loss.last_activity = 1255 /\ LastBeat(power_loss) = 1230
<1>1. hard_hang.last_activity = 1260 /\ power_loss.last_activity = 1255
  BY DEF hard_hang, power_loss
<1>2. 1260 \div 30 = 42 /\ 1255 \div 30 = 41
  OBVIOUS
<1> QED
  BY <1>1, <1>2 DEF LastBeat, COLLECTION_INTERVAL

LEMMA SampleTimes ==
  /\ {r.timestamp : r \in hard_hang.snapshots} \subseteq metric_stream(1260)
  /\ {r.timestamp : r \in power_loss.snapshots} \subseteq metric_stream(1255)
<1>1. {r.timestamp : r \in hard_hang.snapshots} \subseteq metric_stream(1260)
  BY DEF hard_hang, metric_rows
<1>2. {r.timestamp : r \in power_loss.snapshots} \subseteq metric_stream(1255)
  BY DEF power_loss, metric_rows, Steady
<1> QED
  BY <1>1, <1>2

\* No sample is younger than the last heartbeat.
LEMMA StreamEnds ==
  /\ \A t \in metric_stream(1260) : t \in Nat /\ t <= 1260
  /\ \A t \in metric_stream(1255) : t \in Nat /\ t <= 1230
<1>1. 1260 \div 30 = 42 /\ 1255 \div 30 = 41
  OBVIOUS
<1> QED
  BY <1>1 DEF metric_stream, COLLECTION_INTERVAL
-------------------------------------------------------------------------------
(* The rules on that evidence.                                             *)

LEMMA CrashFlags ==
  ASSUME NEW summary, NEW clean
  PROVE  LET crash == detect_crash(summary, clean)
         IN /\ crash.clean_shutdown <=> clean = 1
            /\ crash.bugcheck_detected = summary.bugcheck_detected
            /\ crash.kernel_power_detected = summary.kernel_power_detected
            /\ crash.unexpected_shutdown <=> /\ clean # 1
                                            /\ \/ summary.kernel_power_detected
                                               \/ summary.unexpected_shutdown_event
BY DEF detect_crash

\* A clean shutdown without a BugCheck is no incident.
LEMMA CleanIsNone ==
  ASSUME NEW summary, ~summary.bugcheck_detected
  PROVE  ~warranted(detect_crash(summary, 1))
BY CrashFlags DEF warranted

\* A BugCheck is one, with high confidence and no gap.
LEMMA BugcheckIsBSOD ==
  ASSUME NEW summary, summary.bugcheck_detected, ~summary.kernel_power_detected,
         ~summary.unexpected_shutdown_event, NEW last, NEW b, NEW interval, NEW findings
  PROVE  LET crash == detect_crash(summary, 0)
             inference == infer_termination(crash, last, b, interval)
         IN /\ warranted(crash)
            /\ incident_type(inference, crash) = "BSOD"
            /\ incident_confidence(inference, crash, findings) = "HIGH"
            /\ inference.gap = None
<1> DEFINE crash == detect_crash(summary, 0)
<1>1. crash.bugcheck_detected /\ ~crash.clean_shutdown
  BY CrashFlags
<1> HIDE DEF crash
<1>2. infer_termination(crash, last, b, interval).gap = None
  BY <1>1 DEF infer_termination
<1> QED
  BY <1>1, <1>2 DEF warranted, incident_type, incident_confidence, crash

\* A Kernel-Power 41 with a known gap is a freeze or a power loss.
LEMMA FreezeByGap ==
  ASSUME NEW summary, ~summary.bugcheck_detected, summary.kernel_power_detected,
         NEW last \in Nat, NEW b \in Nat, last < b, NEW interval, NEW findings
  PROVE  LET crash == detect_crash(summary, 0)
             inference == infer_termination(crash, last, b, interval)
             verdict == gap_verdict(b - last, interval)
         IN /\ warranted(crash)
            /\ verdict.mode = "hard_hang" => incident_type(inference, crash) = "HARD_HANG"
            /\ verdict.mode = "power_loss" => incident_type(inference, crash) = "POWER_LOSS"
            /\ incident_confidence(inference, crash, findings) = verdict.confidence
            /\ inference.gap = b - last
<1> DEFINE crash == detect_crash(summary, 0)
           verdict == gap_verdict(b - last, interval)
           inference == infer_termination(crash, last, b, interval)
<1>1. /\ ~crash.bugcheck_detected /\ ~crash.clean_shutdown
      /\ crash.kernel_power_detected /\ crash.unexpected_shutdown
  BY CrashFlags
<1>2. HangGap(last, b) = b - last /\ b - last # None
  BY DEF HangGap
<1>3. verdict.mode \in {"hard_hang", "power_loss"}
  BY DEF gap_verdict
<1> HIDE DEF crash, verdict
<1>4. /\ inference.mode = verdict.mode /\ inference.confidence = verdict.confidence
      /\ inference.gap = b - last
  BY <1>1, <1>2 DEF infer_termination, verdict
<1> HIDE DEF inference
<1> QED
  BY <1>1, <1>3, <1>4 DEF warranted, incident_type, incident_confidence, crash, inference, verdict
-------------------------------------------------------------------------------
(* The invariant.                                                          *)

\* A configuration is held from the load on, and it is what load_config()
\* returned for the file.
CfgInv ==
  /\ file \in Files /\ scenario \in DOMAIN Scenarios
  /\ pc = "load" => cfg = None
  /\ cfg = None => pc \in Ended \cup {"load"} /\ pc # "done"
  /\ cfg # None => ~load_raises(file) /\ cfg = load_config(file)

Session(boot_time, clean) == [boot_time |-> boot_time, clean |-> clean]

Rows(sessions, events, samples, heartbeat, incidents) ==
  [ sessions |-> sessions, events |-> events, samples |-> samples,
    heartbeat |-> heartbeat, incidents |-> incidents ]

\* The scenario is in the database, and its boot is found.
Detected(clean, incidents) ==
  Rows(<<Session(0, clean), Session(S.boot, None)>>, S.events, S.snapshots, LastBeat(S), incidents)

BootResult(clean) ==
  [ boot_time |-> S.boot, previous_session_id |-> 1, previous_boot_time |-> 0,
    previous_session_clean |-> clean ]

Clean == IF scenario = "normal_restart" THEN 1 ELSE 0

\* At each step the database holds what this run has written so far, whatever
\* was there when it started.
DatabaseInv ==
  /\ pc = "connect" => db = None
  /\ pc = "session" => db = Rows(<<>>, {}, {}, None, <<>>)
  /\ pc = "events" => db = Rows(<<Session(0, None)>>, {}, {}, None, <<>>)
  /\ pc = "snapshots" => db = Rows(<<Session(0, None)>>, S.events, {}, None, <<>>)
  /\ pc = "heartbeats" => db = Rows(<<Session(0, None)>>, S.events, S.snapshots, None, <<>>)
  /\ pc = "detect" => db = Rows(<<Session(0, None)>>, S.events, S.snapshots, LastBeat(S), <<>>)
  /\ pc = "diagnose" => db = Detected(Clean, <<>>) /\ boot = BootResult(Clean)
  /\ Reported => /\ boot = BootResult(Clean)
                 /\ db = Detected(Clean, IF result.incident = None THEN <<>> ELSE <<result.incident>>)

Verdict(type, confidence, gap) ==
  [ incident_type |-> type, confidence |-> confidence, previous_session_id |-> 1,
    reboot_timestamp |-> S.boot, duration_estimate |-> gap ]

\* The incident of each scenario, for every interval: only the power loss is
\* taken for a freeze if the interval is shorter than that of the samples.
Outcome(interval) ==
  CASE scenario = "hard_hang"  -> Verdict("HARD_HANG", "HIGH", 300)
    [] scenario = "power_loss" -> IF interval >= COLLECTION_INTERVAL
                                  THEN Verdict("POWER_LOSS", "LOW", 30)
                                  ELSE Verdict("HARD_HANG", "MEDIUM", 30)
    [] scenario = "bsod"       -> Verdict("BSOD", "HIGH", None)
    [] OTHER                   -> None

OutcomeInv == Reported => result.incident = Outcome(cfg.collection_interval_seconds.n)

\* What has failed tells how far the run has come: the incident is stored by the
\* diagnosis that did not.
FailedInv ==
  pc = "failed" => IF cfg = None THEN load_raises(file)
                   ELSE IF db.incidents = <<>> THEN window_raises \/ comparison_raises
                   ELSE timeline_raises

RunsInv == runs \in 1..MaxRuns /\ pc \in Ended \cup {"load", "remove"} \cup Open

IInv == RunsInv /\ CfgInv /\ DatabaseInv /\ OutcomeInv /\ FailedInv
-------------------------------------------------------------------------------
(* The steps.                                                              *)

LEMMA Initially == Init => IInv
BY FilesAssumption DEF Init, IInv, RunsInv, CfgInv, DatabaseInv, OutcomeInv, FailedInv, Ended, Reported

\* Runs and configuration.
LEMMA CfgStep == IInv /\ [Next]_vars => RunsInv' /\ CfgInv'
<1> SUFFICES ASSUME IInv, [Next]_vars PROVE RunsInv' /\ CfgInv'
  OBVIOUS
<1> USE DEF IInv, RunsInv, CfgInv, Ended, Open
<1>1. CASE Load
  <2>1. CASE load_raises(file)
    BY <1>1, <2>1 DEF Load
  <2>2. CASE ~load_raises(file)
    <3>1. load_config(file) # None
      BY <2>2, LoadedIsTyped, NoneIsNoRecord
    <3> QED
      BY <1>1, <2>2, <3>1 DEF Load
  <2> QED
    BY <2>1, <2>2
<1>2. CASE Remove
  BY <1>2 DEF Remove
<1>3. CASE Connect
  BY <1>3 DEF Connect
<1>4. CASE Seed
  BY <1>4 DEF Seed
<1>5. CASE DetectBoot
  BY <1>5 DEF DetectBoot
<1>6. CASE RunDiagnosis
  BY <1>6 DEF RunDiagnosis
<1>7. CASE DiagnosisRaises
  BY <1>7 DEF DiagnosisRaises
<1>8. CASE Report
  BY <1>8 DEF Report
<1>9. CASE OSError
  BY <1>9 DEF OSError
<1>10. CASE Kill
  BY <1>10 DEF Kill
<1>11. CASE RunAgain
  BY <1>11, FilesAssumption DEF RunAgain
<1>12. CASE DatabaseError
  BY <1>12 DEF DatabaseError
<1>13. CASE UNCHANGED vars
  BY <1>13 DEF vars
<1> QED
  BY <1>1, <1>2, <1>3, <1>4, <1>5, <1>6, <1>7, <1>8, <1>9, <1>10, <1>11, <1>12, <1>13 DEF Next

\* Failures.
LEMMA FailedStep == IInv /\ [Next]_vars => FailedInv'
<1> SUFFICES ASSUME IInv, [Next]_vars, pc' = "failed"
             PROVE  IF cfg' = None THEN load_raises(file)'
                    ELSE IF db'.incidents = <<>> THEN window_raises' \/ comparison_raises'
                    ELSE timeline_raises'
  BY DEF FailedInv
<1>1. CASE Load
  BY <1>1 DEF Load, IInv, CfgInv
<1>2. ASSUME UNCHANGED <<cfg, db, boot, result>>
      PROVE  /\ window_raises' <=> window_raises
             /\ comparison_raises' <=> comparison_raises
             /\ timeline_raises' <=> timeline_raises
  <2>1. window_raises' <=> window_raises
    BY <1>2 DEF window_raises
  <2>2. comparison_raises' <=> comparison_raises
    BY <1>2 DEF comparison_raises, aggregates, max_of, in_window
  <2>3. timeline_raises' <=> timeline_raises
    BY <1>2 DEF timeline_raises
  <2> QED
    BY <2>1, <2>2, <2>3
<1>3. CASE DiagnosisRaises
  <2>1. cfg # None
    BY <1>3 DEF DiagnosisRaises, IInv, CfgInv, Ended
  <2>2. db.incidents = <<>>
    BY <1>3 DEF DiagnosisRaises, IInv, DatabaseInv, Detected, Rows
  <2> QED
    BY <1>2, <1>3, <2>1, <2>2 DEF DiagnosisRaises
<1>4. CASE Report
  <2>1. cfg # None /\ timeline_raises
    BY <1>4 DEF Report, IInv, CfgInv, Ended
  <2>2. db.incidents = <<result.incident>>
    BY <1>4, <2>1 DEF Report, IInv, DatabaseInv, Reported, Detected, Rows, timeline_raises
  <2>3. <<result.incident>> # <<>>
    OBVIOUS
  <2> QED
    BY <1>2, <1>4, <2>1, <2>2, <2>3 DEF Report
<1>5. CASE UNCHANGED vars
  <2>1. pc = "failed" /\ UNCHANGED <<cfg, db, boot, result, file>>
    BY <1>5 DEF vars
  <2> QED
    BY <1>2, <2>1 DEF IInv, FailedInv
<1>6. ~Remove /\ ~Connect /\ ~Seed /\ ~DetectBoot /\ ~RunDiagnosis
  BY DEF Remove, Connect, Seed, DetectBoot, RunDiagnosis
<1>7. ~OSError /\ ~DatabaseError /\ ~Kill /\ ~RunAgain
  BY DEF OSError, DatabaseError, Kill, RunAgain
<1> QED
  BY <1>1, <1>3, <1>4, <1>5, <1>6, <1>7 DEF Next

LEMMA SameScenario ==
  ASSUME UNCHANGED scenario
  PROVE  /\ S' = S /\ Clean' = Clean
         /\ \A clean, incidents : Detected(clean, incidents)' = Detected(clean, incidents)
         /\ \A clean : BootResult(clean)' = BootResult(clean)
         /\ \A interval : Outcome(interval)' = Outcome(interval)
<1>1. S' = S
  BY DEF S
<1> QED
  BY <1>1 DEF Clean, Detected, Rows, Session, LastBeat, BootResult, Outcome, Verdict

\* The window of the evidence holds all of the scenario's events.
LEMMA AllEvents ==
  ASSUME scenario \in DOMAIN Scenarios, db.events = S.events
  PROVE  Between(0, S.boot + BootMargin) = S.events
BY Evidence DEF Between, InWindow

LEMMA Flags ==
  ASSUME scenario \in DOMAIN Scenarios
  PROVE  LET summary == summarize(S.events)
         IN /\ summary.clean_shutdown <=> scenario = "normal_restart"
            /\ summary.bugcheck_detected <=> scenario = "bsod"
            /\ summary.kernel_power_detected <=> scenario \in {"hard_hang", "power_loss"}
            /\ ~summary.unexpected_shutdown_event
            /\ Recorded(S.events, {41}) <=> scenario \in {"hard_hang", "power_loss"}
            /\ Recorded(S.events, {1001}) <=> scenario = "bsod"
            /\ Recorded(S.events, {1074, 6006}) <=> scenario = "normal_restart"
            /\ ~Recorded(S.events, {6008})
<1> DEFINE summary == summarize(S.events)
<1>1. ASSUME NEW category, Shows(S.events, category),
             category \in {"kernel_power", "bugcheck", "shutdown_clean"}
      PROVE  /\ summary.clean_shutdown <=> category = "shutdown_clean"
             /\ summary.bugcheck_detected <=> category = "bugcheck"
             /\ summary.kernel_power_detected <=> category = "kernel_power"
             /\ ~summary.unexpected_shutdown_event
             /\ Recorded(S.events, {41}) <=> category = "kernel_power"
             /\ Recorded(S.events, {1001}) <=> category = "bugcheck"
             /\ Recorded(S.events, {1074, 6006}) <=> category = "shutdown_clean"
             /\ ~Recorded(S.events, {6008})
  BY <1>1, SummaryFlags DEF Shows
<1> HIDE DEF summary
<1>2. CASE scenario = "hard_hang"
  BY <1>1, <1>2, Evidence DEF summary
<1>3. CASE scenario = "power_loss"
  BY <1>1, <1>3, Evidence DEF summary
<1>4. CASE scenario = "bsod"
  BY <1>1, <1>4, Evidence DEF summary
<1>5. CASE scenario = "normal_restart"
  BY <1>1, <1>5, Evidence DEF summary
<1> QED
  BY <1>2, <1>3, <1>4, <1>5, ScenarioNames

\* Seeding, up to the detection of the boot.
LEMMA SeedStep ==
  ASSUME IInv, Remove \/ Connect \/ Seed
  PROVE  DatabaseInv'
<1> USE DEF IInv, DatabaseInv, Reported
<1>1. CASE Remove
  BY <1>1 DEF Remove, removed
<1>2. CASE Connect
  <2>1. db' = Rows(<<>>, {}, {}, None, <<>>)
    BY <1>2 DEF Connect, Rows
  <2> QED
    BY <1>2, <2>1 DEF Connect
<1>3. ASSUME NEW sessions, NEW events, NEW samples, NEW heartbeat, NEW incidents
      PROVE  LET d == Rows(sessions, events, samples, heartbeat, incidents)
             IN d.sessions = sessions /\ d.events = events /\ d.samples = samples
  BY DEF Rows
<1>4. CASE Seed
  <2>1. S' = S
    BY <1>4, SameScenario DEF Seed
  <2>2. CASE pc = "session"
    <3> DEFINE d == Rows(<<>>, {}, {}, None, <<>>)
    <3>1. db = d /\ d.sessions = <<>>
      BY <1>3, <2>2
    <3>2. Append(<<>>, Session(0, None)) = <<Session(0, None)>>
      OBVIOUS
    <3>3. db' = [db EXCEPT !.sessions = Append(db.sessions, Session(0, None))] /\ pc' = "events"
      BY <1>4, <2>2 DEF Seed, Session
    <3>4. [d EXCEPT !.sessions = <<Session(0, None)>>] = Rows(<<Session(0, None)>>, {}, {}, None, <<>>)
      <4> DEFINE empty == {}
      <4>1. \A x, y : [Rows(y, empty, empty, None, <<>>) EXCEPT !.sessions = x] = Rows(x, empty, empty, None, <<>>)
        <5> HIDE DEF empty
        <5> QED
          BY DEF Rows
      <4> QED
        BY <4>1
    <3> HIDE DEF d
    <3>5. db' = Rows(<<Session(0, None)>>, {}, {}, None, <<>>)
      BY <3>1, <3>2, <3>3, <3>4
    <3> QED
      BY <3>3, <3>5
  <2>3. CASE pc = "events"
    <3> DEFINE d == Rows(<<Session(0, None)>>, {}, {}, None, <<>>)
    <3>1. db = d /\ d.events \cup S.events = S.events
      BY <1>3, <2>3
    <3>2. db' = [db EXCEPT !.events = db.events \cup S.events] /\ pc' = "snapshots"
      BY <1>4, <2>3 DEF Seed
    <3>3. [d EXCEPT !.events = S.events] = Rows(<<Session(0, None)>>, S.events, {}, None, <<>>)
      <4> DEFINE empty == {}
      <4>1. \A x, y : [Rows(y, {}, empty, None, <<>>) EXCEPT !.events = x] = Rows(y, x, empty, None, <<>>)
        <5> HIDE DEF empty
        <5> QED
          BY DEF Rows
      <4> QED
        BY <4>1
    <3> HIDE DEF d
    <3>4. db' = Rows(<<Session(0, None)>>, S.events, {}, None, <<>>)
      BY <3>1, <3>2, <3>3
    <3> QED
      BY <2>1, <3>2, <3>4
  <2>4. CASE pc = "snapshots"
    <3> DEFINE d == Rows(<<Session(0, None)>>, S.events, {}, None, <<>>)
    <3>1. db = d /\ d.samples \cup S.snapshots = S.snapshots
      BY <1>3, <2>4
    <3>2. db' = [db EXCEPT !.samples = db.samples \cup S.snapshots] /\ pc' = "heartbeats"
      BY <1>4, <2>4 DEF Seed
    <3>3. [d EXCEPT !.samples = S.snapshots] = Rows(<<Session(0, None)>>, S.events, S.snapshots, None, <<>>)
      BY DEF Rows
    <3> HIDE DEF d
    <3>4. db' = Rows(<<Session(0, None)>>, S.events, S.snapshots, None, <<>>)
      BY <3>1, <3>2, <3>3
    <3> QED
      BY <2>1, <3>2, <3>4
  <2>5. CASE pc = "heartbeats"
    <3> DEFINE d == Rows(<<Session(0, None)>>, S.events, S.snapshots, None, <<>>)
    <3>1. db = d
      BY <2>5
    <3>2. db' = [db EXCEPT !.heartbeat = LastBeat(S)] /\ pc' = "detect"
      BY <1>4, <2>5 DEF Seed, LastBeat
    <3>3. [d EXCEPT !.heartbeat = LastBeat(S)] = Rows(<<Session(0, None)>>, S.events, S.snapshots, LastBeat(S), <<>>)
      BY DEF Rows
    <3> HIDE DEF d
    <3>4. db' = Rows(<<Session(0, None)>>, S.events, S.snapshots, LastBeat(S), <<>>)
      BY <3>1, <3>2, <3>3
    <3> QED
      BY <2>1, <3>2, <3>4 DEF LastBeat
  <2> QED
    BY <1>4, <2>2, <2>3, <2>4, <2>5 DEF Seed
<1> QED
  BY <1>1, <1>2, <1>4

LEMMA AppendToOne ==
  ASSUME NEW a, NEW b
  PROVE  Append(<<a>>, b) = <<a, b>>
<1> DEFINE s == Append(<<a>>, b)
           t == <<a, b>>
<1>1. <<a>> \in Seq({a, b}) /\ s \in Seq({a, b}) /\ t \in Seq({a, b})
  OBVIOUS
<1>2. Len(<<a>>) = 1 /\ <<a>>[1] = a /\ Len(t) = 2 /\ t[1] = a /\ t[2] = b
  OBVIOUS
<1>3. Len(s) = 2 /\ s[1] = a /\ s[2] = b
  BY <1>1, <1>2, AppendProperties
<1> HIDE DEF s, t
<1>4. s = t
  BY <1>1, <1>2, <1>3, SeqEqual
<1> QED
  BY <1>4 DEF s, t

\* The boot is detected: the seeded session is closed with its verdict.
LEMMA DetectStep ==
  ASSUME IInv, DetectBoot
  PROVE  DatabaseInv'
<1> DEFINE seeded == Rows(<<Session(0, None)>>, S.events, S.snapshots, LastBeat(S), <<>>)
<1>1. scenario \in DOMAIN Scenarios /\ pc = "detect" /\ db = seeded
  BY DEF IInv, CfgInv, DatabaseInv, DetectBoot
<1>2. /\ db.sessions = <<Session(0, None)>> /\ db.events = S.events
      /\ Len(db.sessions) = 1 /\ db.sessions[1].boot_time = 0
  BY <1>1 DEF Rows, Session
<1>3. (IF summarize(Between(0, S.boot + BootMargin)).clean_shutdown THEN 1 ELSE 0) = Clean
  BY <1>1, <1>2, AllEvents, Flags DEF Clean
<1>4. /\ db' = [db EXCEPT !.sessions = Append([db.sessions EXCEPT ![1].clean = Clean],
                                             Session(S.boot, None))]
      /\ boot' = BootResult(Clean)
      /\ pc' = "diagnose" /\ UNCHANGED scenario
  BY <1>2, <1>3 DEF DetectBoot, Session, BootResult
<1>5. [db.sessions EXCEPT ![1].clean = Clean] = <<Session(0, Clean)>>
  BY <1>2 DEF Session
<1>6. Append(<<Session(0, Clean)>>, Session(S.boot, None)) = <<Session(0, Clean), Session(S.boot, None)>>
  BY AppendToOne
<1>7. \A x : [seeded EXCEPT !.sessions = x] = Rows(x, S.events, S.snapshots, LastBeat(S), <<>>)
  BY DEF Rows
<1> HIDE DEF seeded
<1>8. db' = Detected(Clean, <<>>)
  BY <1>1, <1>4, <1>5, <1>6, <1>7 DEF Detected
<1>9. db' = Detected(Clean, <<>>)' /\ boot' = BootResult(Clean)'
  <2>1. Clean' = Clean /\ S' = S
    BY <1>4, SameScenario
  <2> QED
    BY <1>4, <1>8, <2>1 DEF Detected, Rows, Session, LastBeat, BootResult
<1> QED
  BY <1>4, <1>9 DEF DatabaseInv, Reported

\* The last activity before the reboot is the last heartbeat.
LEMMA Activity ==
  ASSUME scenario \in {"hard_hang", "power_loss"}, db = Detected(Clean, <<>>), boot = BootResult(Clean)
  PROVE  last_metric_timestamp = LastBeat(S)
<1> DEFINE beat == LastBeat(S)
           times == {r.timestamp : r \in db.samples}
           seen == {t \in times \cup ({db.heartbeat} \ {None}) : t < boot.boot_time}
<1>1. beat \in Nat /\ beat < S.boot
  BY ScenarioIs, BootTimes, LastBeats
<1>2. \A t \in times : t \in Nat /\ t <= beat
  BY ScenarioIs, SampleTimes, StreamEnds, LastBeats DEF Detected, Rows
<1>3. db.heartbeat = beat /\ boot.boot_time = S.boot
  BY DEF Detected, Rows, BootResult
<1> HIDE DEF beat, times
<1>4. beat \in seen /\ \A t \in seen : t \in Nat /\ t <= beat
  BY <1>1, <1>2, <1>3
<1>5. last_metric_timestamp = IF seen = {} THEN None ELSE CHOOSE t \in seen : \A u \in seen : u <= t
  BY DEF last_metric_timestamp, times
<1> HIDE DEF seen
<1>6. \A t \in seen : (\A u \in seen : u <= t) => t = beat
  BY <1>1, <1>4
<1>7. (CHOOSE t \in seen : \A u \in seen : u <= t) = beat
  BY <1>4, <1>6
<1> QED
  BY <1>4, <1>5, <1>7 DEF beat

LEMMA OutcomeTyped ==
  ASSUME NEW interval, scenario \in DOMAIN Scenarios
  PROVE  /\ scenario # "normal_restart" => Outcome(interval) \in Incident
         /\ scenario = "normal_restart" => Outcome(interval) = None
<1>1. S.boot \in Nat
  BY Evidence
<1>2. ASSUME NEW type \in IncidentTypes, NEW confidence \in Confidences, NEW gap \in Nat \cup {None}
      PROVE  Verdict(type, confidence, gap) \in Incident
  BY <1>1 DEF Verdict, Incident
<1>3. {"HARD_HANG", "POWER_LOSS", "BSOD"} \subseteq IncidentTypes
  BY DEF IncidentTypes
<1>4. {"LOW", "MEDIUM", "HIGH"} \subseteq Confidences
  BY DEF Confidences
<1> QED
  BY <1>2, <1>3, <1>4, ScenarioNames DEF Outcome

\* The diagnosis of each scenario's evidence, for every interval.
LEMMA Diagnosed ==
  ASSUME scenario \in DOMAIN Scenarios, db = Detected(Clean, <<>>), boot = BootResult(Clean),
         NEW interval \in ALLOWED_INTERVALS, NEW findings
  PROVE  LET summary == summarize(Between(boot.previous_boot_time, boot.boot_time + BootMargin))
             crash == detect_crash(summary, boot.previous_session_clean)
             inference == infer_termination(crash, last_metric_timestamp, boot.boot_time, interval)
         IN /\ scenario # "normal_restart" =>
                 /\ warranted(crash)
                 /\ Verdict(incident_type(inference, crash),
                            incident_confidence(inference, crash, findings),
                            inference.gap) = Outcome(interval)
            /\ scenario = "normal_restart" => ~warranted(crash)
<1> DEFINE summary == summarize(Between(boot.previous_boot_time, boot.boot_time + BootMargin))
           crash == detect_crash(summary, boot.previous_session_clean)
           last == last_metric_timestamp
           inference == infer_termination(crash, last, boot.boot_time, interval)
           type == incident_type(inference, crash)
           confidence == incident_confidence(inference, crash, findings)
<1>1. /\ boot.previous_boot_time = 0 /\ boot.boot_time = S.boot
      /\ boot.previous_session_clean = Clean /\ db.events = S.events
  BY DEF BootResult, Detected, Rows
<1>2. summary = summarize(S.events)
  BY <1>1, AllEvents
<1>3. /\ summary.bugcheck_detected <=> scenario = "bsod"
      /\ summary.kernel_power_detected <=> scenario \in {"hard_hang", "power_loss"}
      /\ ~summary.unexpected_shutdown_event
  BY <1>2, Flags
<1>4. Clean = IF scenario = "normal_restart" THEN 1 ELSE 0
  BY DEF Clean
<1>5. S.boot \in Nat
  BY Evidence
<1> HIDE DEF summary
<1>6. CASE scenario = "normal_restart"
  <2>1. ~warranted(detect_crash(summary, 1))
    BY <1>3, <1>6, CleanIsNone
  <2> QED
    BY <1>1, <1>4, <1>6, <2>1 DEF summary
<1>7. CASE scenario = "bsod"
  <2>1. crash = detect_crash(summary, 0)
    BY <1>1, <1>4, <1>7
  <2>2. warranted(crash) /\ type = "BSOD" /\ confidence = "HIGH" /\ inference.gap = None
    BY <1>3, <1>7, <2>1, BugcheckIsBSOD
  <2> HIDE DEF crash, last, inference, type, confidence
  <2> QED
    BY <1>7, <2>2 DEF Outcome, crash, last, inference, type, confidence, summary
<1>8. CASE scenario \in {"hard_hang", "power_loss"}
  <2> DEFINE gap == S.boot - last
             verdict == gap_verdict(gap, interval)
  <2>1. crash = detect_crash(summary, 0)
    BY <1>1, <1>4, <1>8
  <2>2. last = LastBeat(S) /\ last \in Nat /\ last < S.boot
    BY <1>8, Activity, ScenarioIs, BootTimes, LastBeats
  <2>3. inference = infer_termination(detect_crash(summary, 0), last, S.boot, interval)
    BY <1>1, <2>1
  <2> HIDE DEF last, crash
  <2>4. /\ warranted(crash) /\ inference.gap = gap /\ confidence = verdict.confidence
        /\ verdict.mode = "hard_hang" => type = "HARD_HANG"
        /\ verdict.mode = "power_loss" => type = "POWER_LOSS"
    BY <1>3, <1>5, <1>8, <2>1, <2>2, <2>3, FreezeByGap
  <2> HIDE DEF inference, type, confidence, verdict
  <2>5. interval \in {10, 30, 60}
    BY DEF ALLOWED_INTERVALS
  <2>6. CASE scenario = "hard_hang"
    <3>1. gap = 300
      BY <2>2, <2>6, ScenarioIs, BootTimes, LastBeats
    <3>2. verdict.mode = "hard_hang" /\ verdict.confidence = "HIGH"
      BY <2>5, <3>1 DEF verdict, gap_verdict
    <3>3. Outcome(interval) = Verdict("HARD_HANG", "HIGH", 300)
      BY <2>6 DEF Outcome
    <3> QED
      BY <2>4, <2>6, <3>1, <3>2, <3>3 DEF crash, last, inference, type, confidence, summary
  <2>7. CASE scenario = "power_loss"
    <3>1. gap = 30
      BY <2>2, <2>7, ScenarioIs, BootTimes, LastBeats
    <3>2. CASE interval = 10
      <4>1. verdict.mode = "hard_hang" /\ verdict.confidence = "MEDIUM"
        BY <3>1, <3>2 DEF verdict, gap_verdict
      <4>2. Outcome(interval) = Verdict("HARD_HANG", "MEDIUM", 30)
        BY <2>7, <3>2 DEF Outcome, COLLECTION_INTERVAL
      <4> QED
        BY <2>4, <2>7, <3>1, <4>1, <4>2 DEF crash, last, inference, type, confidence, summary
    <3>3. CASE interval \in {30, 60}
      <4>1. verdict.mode = "power_loss" /\ verdict.confidence = "LOW"
        BY <3>1, <3>3 DEF verdict, gap_verdict
      <4>2. Outcome(interval) = Verdict("POWER_LOSS", "LOW", 30)
        BY <2>7, <3>3 DEF Outcome, COLLECTION_INTERVAL
      <4> QED
        BY <2>4, <2>7, <3>1, <4>1, <4>2 DEF crash, last, inference, type, confidence, summary
    <3> QED
      BY <2>5, <3>2, <3>3
  <2> QED
    BY <1>8, <2>6, <2>7
<1> QED
  BY <1>6, <1>7, <1>8, ScenarioNames

\* A configuration at hand has an allowed interval.
LEMMA Interval ==
  ASSUME CfgInv, cfg # None
  PROVE  cfg \in Settings /\ Safe(cfg) /\ cfg.collection_interval_seconds.n \in ALLOWED_INTERVALS
BY LoadedIsTyped DEF CfgInv, Safe

\* The diagnosis: its incident, and no other, is in the database.
LEMMA DiagnosisStep ==
  ASSUME IInv, RunDiagnosis
  PROVE  DatabaseInv' /\ OutcomeInv'
<1> DEFINE interval == cfg.collection_interval_seconds.n
           outcome == Outcome(interval)
           clear == Detected(Clean, <<>>)
<1>1. /\ scenario \in DOMAIN Scenarios /\ cfg # None /\ CfgInv /\ pc = "diagnose"
      /\ db = clear /\ boot = BootResult(Clean)
  BY DEF IInv, CfgInv, DatabaseInv, RunDiagnosis, Ended
<1>2. interval \in ALLOWED_INTERVALS
  BY <1>1, Interval
<1>3. boot.previous_session_id = 1 /\ boot.boot_time = S.boot /\ db.incidents = <<>>
  BY <1>1 DEF BootResult, Detected, Rows
<1>4. ~incident_exists
  BY <1>3 DEF incident_exists
<1>5. /\ scenario # "normal_restart" => outcome # None
      /\ scenario = "normal_restart" => outcome = None
  BY <1>1, OutcomeTyped, NoneIsNoRecord
<1>6. /\ result'.incident = outcome
      /\ outcome = None => db' = db
      /\ outcome # None => db' = [db EXCEPT !.incidents = Append(db.incidents, outcome)]
  <2> DEFINE summary == summarize(Between(boot.previous_boot_time, boot.boot_time + BootMargin))
             incident_summary == summarize({e \in db.events : in_window(e.timestamp)})
             crash == detect_crash(summary, boot.previous_session_clean)
             inference == infer_termination(crash, last_metric_timestamp, boot.boot_time, interval)
             findings == build_findings(incident_summary, aggregates, inference,
               [ temperature_critical_celsius |-> threshold("temperature_critical_celsius"),
                 memory_warning_percent |-> threshold("memory_warning_percent"),
                 cpu_warning_percent |-> threshold("cpu_warning_percent") ])
             incident ==
               [ incident_type |-> incident_type(inference, crash),
                 confidence |-> incident_confidence(inference, crash, findings),
                 previous_session_id |-> boot.previous_session_id,
                 reboot_timestamp |-> boot.boot_time,
                 duration_estimate |-> inference.gap ]
  <2>1. /\ result' = [ incident |-> IF warranted(crash) THEN incident ELSE None,
                       findings |-> IF warranted(crash) THEN findings ELSE <<>> ]
        /\ db' = IF warranted(crash) /\ ~incident_exists
                 THEN [db EXCEPT !.incidents = Append(db.incidents, incident)] ELSE db
    BY DEF RunDiagnosis
  <2> HIDE DEF findings
  <2>2. incident = Verdict(incident_type(inference, crash),
                           incident_confidence(inference, crash, findings), inference.gap)
    BY <1>3 DEF Verdict
  <2>3. /\ scenario # "normal_restart" =>
             /\ warranted(crash)
             /\ Verdict(incident_type(inference, crash),
                        incident_confidence(inference, crash, findings), inference.gap) = outcome
        /\ scenario = "normal_restart" => ~warranted(crash)
    BY <1>1, <1>2, Diagnosed
  <2> HIDE DEF crash, inference, incident, outcome
  <2> QED
    BY <1>4, <1>5, <2>1, <2>2, <2>3
<1>7. Append(<<>>, outcome) = <<outcome>>
  OBVIOUS
<1>8. \A x : [clear EXCEPT !.incidents = x] = Detected(Clean, x)
  BY DEF Detected, Rows
<1>9. Detected(Clean, <<>>) = clear
  OBVIOUS
<1>10. pc' = "report" /\ boot' = boot /\ cfg' = cfg /\ UNCHANGED scenario
  BY DEF RunDiagnosis
<1>11. outcome' = outcome /\ S' = S /\ Clean' = Clean
  BY <1>10, SameScenario DEF Outcome, Verdict
<1> HIDE DEF outcome, clear
<1>12. db' = Detected(Clean, IF outcome = None THEN <<>> ELSE <<outcome>>)
  BY <1>1, <1>3, <1>6, <1>7, <1>8, <1>9
<1>13. db' = Detected(Clean, IF result.incident = None THEN <<>> ELSE <<result.incident>>)'
  BY <1>6, <1>11, <1>12 DEF Detected, Rows, Session, LastBeat
<1>14. boot' = BootResult(Clean)'
  BY <1>1, <1>10, <1>11 DEF BootResult
<1>15. DatabaseInv'
  BY <1>10, <1>13, <1>14 DEF DatabaseInv, Reported
<1>16. OutcomeInv'
  BY <1>6, <1>11 DEF OutcomeInv, outcome
<1> QED
  BY <1>15, <1>16

\* The other steps leave the rows and the incident alone.
LEMMA DatabaseStep == IInv /\ [Next]_vars => DatabaseInv' /\ OutcomeInv'
<1> SUFFICES ASSUME IInv, [Next]_vars PROVE DatabaseInv' /\ OutcomeInv'
  OBVIOUS
<1>1. CASE Load
  BY <1>1 DEF Load, DatabaseInv, OutcomeInv, Reported
<1>2. CASE Remove \/ Connect \/ Seed
  <2>1. OutcomeInv'
    BY <1>2 DEF Remove, Connect, Seed, OutcomeInv, Reported
  <2> QED
    BY <1>2, <2>1, SeedStep
<1>3. CASE DetectBoot
  <2>1. OutcomeInv'
    BY <1>3 DEF DetectBoot, OutcomeInv, Reported
  <2> QED
    BY <1>3, <2>1, DetectStep
<1>4. CASE RunDiagnosis
  BY <1>4, DiagnosisStep
<1>5. CASE DiagnosisRaises \/ OSError \/ DatabaseError \/ Kill \/ RunAgain
  BY <1>5 DEF DiagnosisRaises, OSError, DatabaseError, Kill, RunAgain, DatabaseInv, OutcomeInv, Reported
<1>6. CASE Report \/ UNCHANGED vars
  <2>1. /\ db' = db /\ boot' = boot /\ result' = result /\ cfg' = cfg /\ UNCHANGED scenario
        /\ pc' = pc \/ (pc = "report" /\ pc' \in {"done", "failed"})
    BY <1>6 DEF Report, vars
  <2>2. S' = S /\ Clean' = Clean
    BY <2>1, SameScenario
  <2>3. DatabaseInv'
    <3> DEFINE incidents == IF result.incident = None THEN <<>> ELSE <<result.incident>>
    <3>1. /\ LastBeat(S)' = LastBeat(S) /\ BootResult(Clean)' = BootResult(Clean)
          /\ Detected(Clean, <<>>)' = Detected(Clean, <<>>)
          /\ Detected(Clean, incidents)' = Detected(Clean, incidents)
      BY <2>1, <2>2 DEF LastBeat, BootResult, Detected, Rows, Session
    <3> QED
      BY <2>1, <2>2, <3>1 DEF IInv, DatabaseInv, Reported, Rows, Session
  <2>4. OutcomeInv'
    <3>1. Outcome(cfg.collection_interval_seconds.n)' = Outcome(cfg.collection_interval_seconds.n)
      BY <2>1, <2>2 DEF Outcome, Verdict
    <3> QED
      BY <2>1, <3>1 DEF IInv, OutcomeInv, Reported
  <2> QED
    BY <2>3, <2>4
<1> QED
  BY <1>1, <1>2, <1>3, <1>4, <1>5, <1>6 DEF Next

\* IInv is inductive.
THEOREM Inductive == Spec => []IInv
<1>1. IInv /\ [Next]_vars => IInv'
  BY CfgStep, DatabaseStep, FailedStep DEF IInv
<1> QED
  BY Initially, <1>1, PTL DEF Spec
-------------------------------------------------------------------------------
(* What follows from it.                                                   *)

\* While the report is written, and after it, the state is one of four.
LEMMA AtReport ==
  ASSUME IInv, Reported
  PROVE  /\ scenario \in DOMAIN Scenarios /\ cfg # None
         /\ cfg.collection_interval_seconds.n \in ALLOWED_INTERVALS
         /\ boot.previous_session_clean = Clean
         /\ result.incident = Outcome(cfg.collection_interval_seconds.n)
         /\ db = Detected(Clean, IF result.incident = None THEN <<>> ELSE <<result.incident>>)
<1>1. scenario \in DOMAIN Scenarios /\ cfg # None /\ CfgInv
  BY DEF IInv, CfgInv, Reported, Ended
<1>2. boot.previous_session_clean = Clean
  BY DEF IInv, DatabaseInv, BootResult
<1> QED
  BY <1>1, <1>2, Interval DEF IInv, DatabaseInv, OutcomeInv

\* The variables have their types: every configuration that is loaded is one of
\* well-typed values, and every incident is a well-formed record.
THEOREM TypeCorrect == Spec => []TypeOK
<1>1. IInv => TypeOK
  <2> SUFFICES ASSUME IInv PROVE TypeOK
    OBVIOUS
  <2>1. cfg \in Settings \cup {None}
    BY Interval DEF IInv
  <2>2. ASSUME Reported
        PROVE  boot.previous_session_clean \in {0, 1} /\ result.incident \in Incident \cup {None}
    BY <2>2, AtReport, OutcomeTyped DEF Clean
  <2> QED
    BY <2>1, <2>2 DEF IInv, RunsInv, CfgInv, TypeOK
<1> QED
  BY Inductive, <1>1, PTL

\* Whatever the file holds, the configuration that load_config() returns has
\* values in range, apart from what NaN and huge floats slip through.
THEOREM LoadedSafe == Spec => []LoadedIsSafe
<1>1. IInv => LoadedIsSafe
  BY Interval DEF IInv, LoadedIsSafe, Safe
<1> QED
  BY Inductive, <1>1, PTL

\* An allowed value of the file is used, whatever the other values are.
THEOREM ValuesKept == Spec => []GoodValuesKept
<1>1. IInv => GoodValuesKept
  BY LoadedKeeps DEF IInv, CfgInv, GoodValuesKept
<1> QED
  BY Inductive, <1>1, PTL

\* Over whatever an earlier run has left, the database that is reported on
\* holds the rows of this run and nothing else.
THEOREM OwnRows == Spec => []OnlyOwnRows
<1>1. IInv => OnlyOwnRows
  <2> SUFFICES ASSUME IInv, Reported
               PROVE  /\ [i \in DOMAIN db.sessions |-> db.sessions[i].boot_time] = <<0, S.boot>>
                      /\ db.events = S.events /\ db.samples = S.snapshots
                      /\ db.incidents = IF result.incident = None THEN <<>> ELSE <<result.incident>>
    BY DEF OnlyOwnRows
  <2> DEFINE incidents == IF result.incident = None THEN <<>> ELSE <<result.incident>>
  <2>1. db = Detected(Clean, incidents)
    BY AtReport
  <2> HIDE DEF incidents
  <2>2. /\ db.sessions = <<Session(0, Clean), Session(S.boot, None)>>
        /\ db.events = S.events /\ db.samples = S.snapshots /\ db.incidents = incidents
    BY <2>1 DEF Detected, Rows
  <2>3. [i \in DOMAIN db.sessions |-> db.sessions[i].boot_time] = <<0, S.boot>>
    BY <2>2 DEF Session
  <2> QED
    BY <2>2, <2>3 DEF incidents
<1> QED
  BY Inductive, <1>1, PTL

\* A load fails on the encoding, on a scalar that cannot be constructed, or on a
\* temperature that float() refuses.
LEMMA LoadFailure ==
  ASSUME NEW f \in Files, load_raises(f)
  PROVE  \/ f.state \in {"not_utf8", "bad_scalar"}
         \/ /\ f.state = "yaml"
            /\ \E key \in Temperatures : f.data[key].kind # "absent" /\ ~Floats(f.data[key])
<1> SUFFICES ASSUME f.state \notin {"not_utf8", "bad_scalar"}
             PROVE  /\ f.state = "yaml"
                    /\ \E key \in Temperatures : f.data[key].kind # "absent" /\ ~Floats(f.data[key])
  OBVIOUS
<1>1. PICK key \in Temperatures : ~Floats(from_dict(data_of(f))[key])
  BY DEF load_raises, validated_raises
<1>2. key \in Keys
  BY DEF Keys
<1>3. Floats(Default[key])
  BY DEF Temperatures, Default, Value, Floats, Number, Overflows
<1> QED
  BY <1>1, <1>2, <1>3, ReadValue

\* A command fails at the load, at the window or a threshold that the diagnosis
\* cannot use, or at the timeline of a stored incident, and nowhere else.
THEOREM FailuresExplained == Spec => []FailureIsExplained
<1>1. IInv => FailureIsExplained
  <2> SUFFICES ASSUME IInv, pc = "failed"
               PROVE  FailureIsExplained
    BY DEF FailureIsExplained
  <2>1. CASE cfg = None
    BY <2>1, LoadFailure DEF IInv, CfgInv, FailedInv, FailureIsExplained
  <2>2. CASE cfg # None /\ db.incidents = <<>>
    <3>1. window_raises \/ comparison_raises
      BY <2>2 DEF IInv, FailedInv
    <3>2. CASE window_raises
      BY <2>2, <3>2 DEF window_raises, FailureIsExplained
    <3>3. CASE comparison_raises
      <4>1. \E key \in Thresholds : ~Number(cfg[key])
        BY <3>3 DEF comparison_raises, Thresholds
      <4>2. ASSUME NEW field, max_of(field) # None
            PROVE  \E r \in db.samples : in_window(r.timestamp)
        BY <4>2 DEF max_of
      <4>3. max_of("memory") # None \/ max_of("cpu") # None
        BY <3>3 DEF comparison_raises, aggregates
      <4> QED
        BY <2>2, <4>1, <4>2, <4>3 DEF FailureIsExplained
    <3> QED
      BY <3>1, <3>2, <3>3
  <2>3. CASE cfg # None /\ db.incidents # <<>>
    <3>1. timeline_raises
      BY <2>3 DEF IInv, FailedInv
    <3> QED
      BY <2>3, <3>1 DEF timeline_raises, FailureIsExplained
  <2> QED
    BY <2>1, <2>2, <2>3
<1> QED
  BY Inductive, <1>1, PTL

LEMMA Expected ==
  /\ hard_hang.expected_type = "HARD_HANG" /\ hard_hang.expected_confidence = "HIGH"
  /\ power_loss.expected_type = "POWER_LOSS" /\ power_loss.expected_confidence = "LOW"
  /\ bsod.expected_type = "BSOD" /\ bsod.expected_confidence = "HIGH"
  /\ normal_restart.expected_type = None
<1>1. hard_hang.expected_type = "HARD_HANG" /\ hard_hang.expected_confidence = "HIGH"
  BY DEF hard_hang
<1>2. power_loss.expected_type = "POWER_LOSS" /\ power_loss.expected_confidence = "LOW"
  BY DEF power_loss
<1>3. bsod.expected_type = "BSOD" /\ bsod.expected_confidence = "HIGH"
  BY DEF bsod
<1>4. normal_restart.expected_type = None
  BY DEF normal_restart
<1> QED
  BY <1>1, <1>2, <1>3, <1>4

\* The outcomes for an interval that is not below that of the samples.
LEMMA Outcomes ==
  ASSUME NEW interval \in ALLOWED_INTERVALS, interval >= COLLECTION_INTERVAL
  PROVE  /\ scenario = "hard_hang" => Outcome(interval) = Verdict("HARD_HANG", "HIGH", 300)
         /\ scenario = "power_loss" => Outcome(interval) = Verdict("POWER_LOSS", "LOW", 30)
         /\ scenario = "bsod" => Outcome(interval) = Verdict("BSOD", "HIGH", None)
BY DEF Outcome

\* Each scenario is classified as documented, whatever else config.yaml holds
\* and whatever an earlier run has left.
THEOREM AsExpected == Spec => []ExpectedOutcome
<1>1. IInv => ExpectedOutcome
  <2> SUFFICES ASSUME IInv, Reported, cfg.collection_interval_seconds.n >= COLLECTION_INTERVAL
               PROVE  IF S.expected_type = None THEN result.incident = None
                      ELSE /\ result.incident # None
                           /\ result.incident.incident_type = S.expected_type
                           /\ result.incident.confidence = S.expected_confidence
    BY DEF ExpectedOutcome
  <2> DEFINE outcome == Outcome(cfg.collection_interval_seconds.n)
  <2>1. scenario \in DOMAIN Scenarios /\ result.incident = outcome
    BY AtReport
  <2>2. /\ scenario # "normal_restart" => outcome # None
        /\ scenario = "normal_restart" => outcome = None
    BY <2>1, OutcomeTyped, NoneIsNoRecord
  <2>3. /\ scenario = "hard_hang" => outcome = Verdict("HARD_HANG", "HIGH", 300)
        /\ scenario = "power_loss" => outcome = Verdict("POWER_LOSS", "LOW", 30)
        /\ scenario = "bsod" => outcome = Verdict("BSOD", "HIGH", None)
    BY AtReport, Outcomes
  <2>4. ASSUME NEW type, NEW confidence, NEW gap
        PROVE  /\ Verdict(type, confidence, gap).incident_type = type
               /\ Verdict(type, confidence, gap).confidence = confidence
    BY DEF Verdict
  <2>5. scenario # "normal_restart" => S.expected_type # None
    BY <2>1, ScenarioIs, ScenarioNames, Expected, NoneIsNoRecord DEF IncidentTypes
  <2>6. scenario = "normal_restart" => S.expected_type = None
    BY ScenarioIs, Expected
  <2>7. scenario # "normal_restart" => /\ outcome.incident_type = S.expected_type
                                      /\ outcome.confidence = S.expected_confidence
    <3> HIDE DEF outcome
    <3> QED
      BY <2>1, <2>3, <2>4, ScenarioIs, ScenarioNames, Expected
  <2> QED
    BY <2>1, <2>2, <2>5, <2>6, <2>7
<1> QED
  BY Inductive, <1>1, PTL

\* What each of the texts says.
LEMMA Texts ==
  /\ /\ hang_text.confidence = "HIGH" /\ hang_text.least_gap = 150 /\ hang_text.most_gap = None
     /\ hang_text.clean = FALSE /\ hang_text.clean_signal = None /\ hang_text.kernel_power = TRUE
     /\ hang_text.event_6008 = None /\ hang_text.bugcheck = FALSE
  /\ /\ loss_text.confidence = "LOW" /\ loss_text.least_gap = None /\ loss_text.most_gap = 60
     /\ loss_text.clean = FALSE /\ loss_text.clean_signal = None /\ loss_text.kernel_power = TRUE
     /\ loss_text.event_6008 = None /\ loss_text.bugcheck = FALSE
  /\ /\ bsod_text.confidence = "HIGH" /\ bsod_text.least_gap = None /\ bsod_text.most_gap = None
     /\ bsod_text.clean = None /\ bsod_text.clean_signal = None /\ bsod_text.kernel_power = None
     /\ bsod_text.event_6008 = None /\ bsod_text.bugcheck = TRUE
  /\ /\ clean_text.least_gap = None /\ clean_text.most_gap = None
     /\ clean_text.clean = TRUE /\ clean_text.clean_signal = TRUE /\ clean_text.kernel_power = FALSE
     /\ clean_text.event_6008 = FALSE /\ clean_text.bugcheck = FALSE
<1>1. /\ hang_text.confidence = "HIGH" /\ hang_text.least_gap = 150 /\ hang_text.most_gap = None
      /\ hang_text.clean = FALSE /\ hang_text.clean_signal = None /\ hang_text.kernel_power = TRUE
      /\ hang_text.event_6008 = None /\ hang_text.bugcheck = FALSE
  BY DEF hang_text, NoClaim
<1>2. /\ loss_text.confidence = "LOW" /\ loss_text.least_gap = None /\ loss_text.most_gap = 60
      /\ loss_text.clean = FALSE /\ loss_text.clean_signal = None /\ loss_text.kernel_power = TRUE
      /\ loss_text.event_6008 = None /\ loss_text.bugcheck = FALSE
  BY DEF loss_text, NoClaim
<1>3. /\ bsod_text.confidence = "HIGH" /\ bsod_text.least_gap = None /\ bsod_text.most_gap = None
      /\ bsod_text.clean = None /\ bsod_text.clean_signal = None /\ bsod_text.kernel_power = None
      /\ bsod_text.event_6008 = None /\ bsod_text.bugcheck = TRUE
  BY DEF bsod_text, NoClaim
<1>4. /\ clean_text.least_gap = None /\ clean_text.most_gap = None
      /\ clean_text.clean = TRUE /\ clean_text.clean_signal = TRUE /\ clean_text.kernel_power = FALSE
      /\ clean_text.event_6008 = FALSE /\ clean_text.bugcheck = FALSE
  BY DEF clean_text, NoClaim
<1> QED
  BY <1>1, <1>2, <1>3, <1>4

\* The thresholds that the texts name are those of the rules at the default interval.
LEMMA NamedThresholds ==
  ASSUME NEW interval \in Int
  PROVE  /\ hang_text.hang_threshold = 5 * interval <=> interval = COLLECTION_INTERVAL
         /\ loss_text.loss_threshold = 2 * interval <=> interval = COLLECTION_INTERVAL
         /\ hang_text.loss_threshold = None /\ loss_text.hang_threshold = None
         /\ bsod_text.hang_threshold = None /\ bsod_text.loss_threshold = None
         /\ clean_text.hang_threshold = None /\ clean_text.loss_threshold = None
<1>1. hang_text.hang_threshold = 150 /\ hang_text.loss_threshold = None
  BY DEF hang_text, NoClaim
<1>2. loss_text.loss_threshold = 60 /\ loss_text.hang_threshold = None
  BY DEF loss_text, NoClaim
<1>3. bsod_text.hang_threshold = None /\ bsod_text.loss_threshold = None
  BY DEF bsod_text, NoClaim
<1>4. clean_text.hang_threshold = None /\ clean_text.loss_threshold = None
  BY DEF clean_text, NoClaim
<1> QED
  BY <1>1, <1>2, <1>3, <1>4 DEF COLLECTION_INTERVAL

\* What a scenario's evidence holds is what the text of its incident says of it: the
\* confidence, the gap, the verdict and the events; and the thresholds it names are
\* used at the default interval only.
THEOREM TrueWording == Spec => []WordingIsTrue
<1>1. IInv => WordingIsTrue
  <2> DEFINE text == inference_text(result.incident)
             interval == cfg.collection_interval_seconds.n
             recorded(ids) == \E e \in Between(0, S.boot + BootMargin) : event_id(e) \in ids
             clean == boot.previous_session_clean = 1
             signal == recorded({1074, 6006})
             power == recorded({41})
             unexpected == recorded({6008})
             stop == recorded({1001})
             Says(t) ==
               /\ result.incident # None => t.confidence = result.incident.confidence
               /\ t.least_gap # None => result.incident.duration_estimate >= t.least_gap
               /\ t.most_gap # None => result.incident.duration_estimate <= t.most_gap
               /\ t.hang_threshold # None =>
                    (t.hang_threshold = 5 * interval <=> interval = COLLECTION_INTERVAL)
               /\ t.loss_threshold # None =>
                    (t.loss_threshold = 2 * interval <=> interval = COLLECTION_INTERVAL)
               /\ t.clean # None => t.clean = clean
               /\ t.clean_signal # None => t.clean_signal = signal
               /\ t.kernel_power # None => t.kernel_power = power
               /\ t.event_6008 # None => t.event_6008 = unexpected
               /\ t.bugcheck # None => t.bugcheck = stop
  <2> SUFFICES ASSUME IInv, Reported, cfg.collection_interval_seconds.n >= COLLECTION_INTERVAL
               PROVE  Says(text)
    BY ZenonT(30) DEF WordingIsTrue
  <2>1. /\ scenario \in DOMAIN Scenarios
        /\ result.incident = Outcome(cfg.collection_interval_seconds.n)
        /\ boot.previous_session_clean = Clean
    BY AtReport
  <2>2. /\ scenario # "normal_restart" => result.incident # None
        /\ scenario = "normal_restart" => result.incident = None
    BY <2>1, OutcomeTyped, NoneIsNoRecord
  <2>3. /\ scenario = "hard_hang" => result.incident = Verdict("HARD_HANG", "HIGH", 300)
        /\ scenario = "power_loss" => result.incident = Verdict("POWER_LOSS", "LOW", 30)
        /\ scenario = "bsod" => result.incident = Verdict("BSOD", "HIGH", None)
    BY <2>1, AtReport, Outcomes
  <2>4. ASSUME NEW type, NEW confidence, NEW gap
        PROVE  /\ Verdict(type, confidence, gap).incident_type = type
               /\ Verdict(type, confidence, gap).confidence = confidence
               /\ Verdict(type, confidence, gap).duration_estimate = gap
    BY DEF Verdict
  <2>5. db.events = S.events
    BY AtReport DEF Detected, Rows
  <2>6. /\ power <=> scenario \in {"hard_hang", "power_loss"}
        /\ stop <=> scenario = "bsod"
        /\ signal <=> scenario = "normal_restart"
        /\ ~unexpected
    BY <2>1, <2>5, AllEvents, Flags DEF Recorded
  <2>7. clean <=> scenario = "normal_restart"
    BY <2>1 DEF Clean
  <2>12. interval \in Int
    BY AtReport DEF ALLOWED_INTERVALS
  <2> HIDE DEF recorded, clean, signal, power, unexpected, stop, interval
  <2>8. CASE scenario = "hard_hang"
    <3>1. power = TRUE /\ stop = FALSE /\ clean = FALSE
      BY <2>6, <2>7, <2>8
    <3>2. /\ result.incident # None /\ result.incident.incident_type = "HARD_HANG"
          /\ result.incident.confidence = "HIGH" /\ result.incident.duration_estimate = 300
      BY <2>2, <2>3, <2>4, <2>8
    <3>3. text = hang_text
      BY <3>2 DEF inference_text
    <3> HIDE DEF text
    <3>4. hang_text.confidence = result.incident.confidence
      BY <3>2, Texts
    <3>5. result.incident.duration_estimate >= hang_text.least_gap
      BY <3>2, Texts
    <3>6. hang_text.most_gap = None
      BY Texts
    <3>7. /\ hang_text.clean = clean /\ hang_text.clean_signal = None
          /\ hang_text.kernel_power = power
          /\ hang_text.event_6008 = None /\ hang_text.bugcheck = stop
      BY <3>1, Texts
    <3>8. Says(hang_text)
      BY <2>12, <3>4, <3>5, <3>6, <3>7, NamedThresholds, Zenon
    <3> QED
      BY <3>3, <3>8
  <2>9. CASE scenario = "power_loss"
    <3>1. power = TRUE /\ stop = FALSE /\ clean = FALSE
      BY <2>6, <2>7, <2>9
    <3>2. /\ result.incident # None /\ result.incident.incident_type = "POWER_LOSS"
          /\ result.incident.confidence = "LOW" /\ result.incident.duration_estimate = 30
      BY <2>2, <2>3, <2>4, <2>9
    <3>3. text = loss_text
      BY <3>2 DEF inference_text
    <3> HIDE DEF text
    <3>4. loss_text.confidence = result.incident.confidence
      BY <3>2, Texts
    <3>5. result.incident.duration_estimate <= loss_text.most_gap
      BY <3>2, Texts
    <3>6. loss_text.least_gap = None
      BY Texts
    <3>7. /\ loss_text.clean = clean /\ loss_text.clean_signal = None
          /\ loss_text.kernel_power = power
          /\ loss_text.event_6008 = None /\ loss_text.bugcheck = stop
      BY <3>1, Texts
    <3>8. Says(loss_text)
      BY <2>12, <3>4, <3>5, <3>6, <3>7, NamedThresholds, Zenon
    <3> QED
      BY <3>3, <3>8
  <2>10. CASE scenario = "bsod"
    <3>1. stop = TRUE
      BY <2>6, <2>10
    <3>2. /\ result.incident # None /\ result.incident.incident_type = "BSOD"
          /\ result.incident.confidence = "HIGH"
      BY <2>2, <2>3, <2>4, <2>10
    <3>3. text = bsod_text
      BY <3>2 DEF inference_text
    <3> HIDE DEF text
    <3>4. Says(bsod_text)
      BY <2>12, <3>1, <3>2, Texts, NamedThresholds
    <3> QED
      BY <3>3, <3>4
  <2>11. CASE scenario = "normal_restart"
    <3>1. power = FALSE /\ stop = FALSE /\ clean = TRUE /\ signal = TRUE /\ unexpected = FALSE
      BY <2>6, <2>7, <2>11
    <3>2. result.incident = None
      BY <2>2, <2>11
    <3>3. text = clean_text
      BY <3>2 DEF inference_text
    <3> HIDE DEF text
    <3>4. Says(clean_text)
      BY <2>12, <3>1, <3>2, Texts, NamedThresholds
    <3> QED
      BY <3>3, <3>4
  <2> QED
    BY <2>1, <2>8, <2>9, <2>10, <2>11, ScenarioNames
<1> QED
  BY Inductive, <1>1, PTL
===============================================================================
