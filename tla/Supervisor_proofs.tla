-------------------------- MODULE Supervisor_proofs --------------------------
(***************************************************************************)
(* Type correctness of Supervisor, and for every limit, timeout and        *)
(* interleaving: one worker, a clean stop, and a heartbeat that advances.  *)
(***************************************************************************)
EXTENDS Supervisor, TLAPS

Steps == {"unborn", "top", "high", "low", "dead"}

\* How far the two starting threads are determines which workers there are.
StartInv ==
  /\ watchdog = "unborn" <=> main \in {"start", "start_watchdog"}
  /\ main = "start" => started = 0 /\ Live = {}
  /\ main # "start" => worker >= 1 /\ started >= 1
  /\ watchdog # "assign" => worker = started
  /\ started <= restarts + 1
  /\ watchdog \in {"set", "join", "clear", "spawn"} => started <= restarts

\* Before the next worker starts, the last one is dead or given up.
RestartInv == watchdog \in {"clear", "spawn"} => Live \subseteq given_up

\* What run() knows of the other threads once the watchdog is joined.
StopInv ==
  Dog \notin given_up =>
    /\ main = "join" /\ joining # Dog => watchdog = "done" /\ joining = started
    /\ main \in {"close", "closed"} => watchdog = "done" /\ Live \subseteq given_up

\* The only worker that may write a heartbeat has not begun before the last one.
HeartbeatInv ==
  given_up = {} /\ heartbeat # None =>
    \A w \in Workers : workers[w].at = "high" => workers[w].age <= heartbeat

IInv == TypeOK /\ StartInv /\ OneWorker /\ RestartInv /\ StopInv /\ HeartbeatInv
-------------------------------------------------------------------------------
LEMMA AgeType ==
  /\ 0 \in Age /\ Age \subseteq Int /\ None \notin Age
  /\ \A n \in Age : Older(n) \in Age
  /\ Older(None) = None
  /\ \A m, n \in Age : m <= n => Older(m) <= Older(n)
BY SupervisorAssumption DEF Age, Older, Capped

LEMMA WorkerIds ==
  Workers \subseteq Nat \ {0} /\ 1 \in Workers /\ Dog \notin Workers
BY SupervisorAssumption DEF Workers, Dog

LEMMA LiveWorker ==
  ASSUME TypeOK, NEW w \in Workers
  PROVE  w \in Live <=> workers[w].at \in {"top", "high", "low"}
BY DEF TypeOK, Live, Alive

\* One worker goes to another step.
LEMMA WorkerStep ==
  ASSUME TypeOK, NEW w \in Workers, NEW s \in Steps \ {"high"},
         workers' = [workers EXCEPT ![w] = At(s)]
  PROVE  /\ workers' \in [Workers -> [at: Steps, age: Age]]
         /\ Live' = IF s \in {"top", "low"} THEN Live \cup {w} ELSE Live \ {w}
         /\ \A v \in Workers : workers'[v].at = "high"
              => workers[v].at = "high" /\ workers'[v].age = workers[v].age
<1>1. At(s) \in [at: Steps, age: Age] /\ At(s).at = s
  BY AgeType DEF At
<1>2. workers' \in [Workers -> [at: Steps, age: Age]]
  BY <1>1 DEF TypeOK, Steps
<1>3. \A v \in Workers : workers'[v] = IF v = w THEN At(s) ELSE workers[v]
  BY DEF TypeOK
<1> QED
  BY <1>1, <1>2, <1>3 DEF Live, Alive, Steps

LEMMA DeadStep ==
  ASSUME TypeOK, NEW w \in Workers, workers' = [workers EXCEPT ![w] = At("dead")]
  PROVE  /\ workers' \in [Workers -> [at: Steps, age: Age]]
         /\ Live' = Live \ {w}
         /\ \A v \in Workers : workers'[v].at = "high"
              => workers[v].at = "high" /\ workers'[v].age = workers[v].age
<1>1. "dead" \in Steps \ {"high"} /\ "dead" \notin {"top", "low"}
  BY DEF Steps
<1> QED
  BY <1>1, WorkerStep

LEMMA LiveStep ==
  ASSUME TypeOK, NEW w \in Workers, NEW s \in {"top", "low"},
         workers' = [workers EXCEPT ![w] = At(s)]
  PROVE  /\ workers' \in [Workers -> [at: Steps, age: Age]]
         /\ Live' = Live \cup {w}
         /\ \A v \in Workers : workers'[v].at = "high"
              => workers[v].at = "high" /\ workers'[v].age = workers[v].age
<1>1. s \in Steps \ {"high"}
  BY DEF Steps
<1> QED
  BY <1>1, WorkerStep

\* A worker begins a high-frequency cycle.
LEMMA HighStep ==
  ASSUME TypeOK, NEW w \in Workers, Alive(w), workers' = [workers EXCEPT ![w] = At("high")]
  PROVE  /\ workers' \in [Workers -> [at: Steps, age: Age]]
         /\ Live' = Live
         /\ \A v \in Workers : workers'[v].at = "high"
              => \/ workers'[v].age = 0
                 \/ workers[v].at = "high" /\ workers'[v].age = workers[v].age
<1>1. At("high") \in [at: Steps, age: Age] /\ At("high").at = "high" /\ At("high").age = 0
  BY AgeType DEF At, Steps
<1>2. workers' \in [Workers -> [at: Steps, age: Age]]
  BY <1>1 DEF TypeOK, Steps
<1>3. \A v \in Workers : workers'[v] = IF v = w THEN At("high") ELSE workers[v]
  BY DEF TypeOK
<1> QED
  BY <1>1, <1>2, <1>3 DEF Live, Alive, Steps

LEMMA TickStep ==
  ASSUME TypeOK, Tick
  PROVE  /\ workers' \in [Workers -> [at: Steps, age: Age]]
         /\ Live' = Live
         /\ \A v \in Workers : workers'[v].at = "high"
              => workers[v].at = "high" /\ workers'[v].age = Older(workers[v].age)
<1>1. \A v \in Workers :
        /\ workers[v] \in [at: Steps, age: Age]
        /\ workers'[v] = IF workers[v].at = "high"
                           THEN [at |-> "high", age |-> Older(workers[v].age)]
                           ELSE workers[v]
  BY DEF TypeOK, Tick, Steps
<1>2. \A v \in Workers : /\ workers'[v] \in [at: Steps, age: Age]
                         /\ workers'[v].at = workers[v].at
                         /\ workers'[v].at = "high" => workers'[v].age = Older(workers[v].age)
  <2> TAKE v \in Workers
  <2>1. workers[v].at \in Steps /\ workers[v].age \in Age /\ Older(workers[v].age) \in Age
    BY <1>1, AgeType
  <2>2. [at |-> "high", age |-> Older(workers[v].age)] \in [at: Steps, age: Age]
    BY <2>1 DEF Steps
  <2>3. CASE workers[v].at = "high"
    <3>1. workers'[v] = [at |-> "high", age |-> Older(workers[v].age)]
      BY <1>1, <2>3
    <3>2. workers'[v] \in [at: Steps, age: Age]
      BY <2>2, <3>1
    <3>3. workers'[v].at = "high" /\ workers'[v].age = Older(workers[v].age)
      BY <3>1
    <3> QED
      BY <2>3, <3>2, <3>3
  <2>4. CASE workers[v].at # "high"
    BY <1>1, <2>4
  <2> QED
    BY <2>3, <2>4
<1>3. workers' \in [Workers -> [at: Steps, age: Age]]
  BY <1>2 DEF Tick
<1> QED
  BY <1>2, <1>3 DEF Live, Alive

\* The timers of the two joins.
LEMMA WaitType ==
  ASSUME TypeOK
  PROVE  /\ [waited EXCEPT !.main = 0] \in [main: 0..STOP_JOIN, watchdog: 0..RESTART_JOIN]
         /\ [waited EXCEPT !.watchdog = 0] \in [main: 0..STOP_JOIN, watchdog: 0..RESTART_JOIN]
         /\ Tick => waited' \in [main: 0..STOP_JOIN, watchdog: 0..RESTART_JOIN]
<1>1. waited.main \in 0..STOP_JOIN /\ waited.watchdog \in 0..RESTART_JOIN
  BY DEF TypeOK
<1>2. Capped(waited.main, STOP_JOIN) \in 0..STOP_JOIN
      /\ Capped(waited.watchdog, RESTART_JOIN) \in 0..RESTART_JOIN
      /\ 0 \in 0..STOP_JOIN /\ 0 \in 0..RESTART_JOIN
  BY <1>1, SupervisorAssumption DEF Capped
<1> QED
  BY <1>1, <1>2 DEF TypeOK, Tick
-------------------------------------------------------------------------------
LEMMA InitInv == Init => IInv
<1> SUFFICES ASSUME Init PROVE IInv
  OBVIOUS
<1>1. \A w \in Workers : workers[w] = At("unborn")
  BY DEF Init
<1>2. Live = {}
  BY <1>1 DEF Live, Alive, At
<1>3. workers \in [Workers -> [at: Steps, age: Age]]
  BY AgeType DEF Init, At, Steps
<1>4. TypeOK
  <2>1. 0 \in 0..STOP_JOIN /\ 0 \in 0..RESTART_JOIN /\ 0 \in 0..MAX_RESTARTS
        /\ BACKOFF \in 0..BACKOFF
    BY SupervisorAssumption
  <2>2. waited \in [main: 0..STOP_JOIN, watchdog: 0..RESTART_JOIN]
    BY <2>1 DEF Init
  <2> QED
    BY <1>3, <2>1, <2>2 DEF Init, TypeOK, Steps, Dog
<1>5. StartInv /\ RestartInv /\ OneWorker
  BY <1>2 DEF Init, StartInv, RestartInv, OneWorker
<1>6. StopInv
  BY DEF Init, StopInv
<1>7. HeartbeatInv
  BY <1>1 DEF HeartbeatInv, At
<1> QED
  BY <1>4, <1>5, <1>6, <1>7 DEF IInv
-------------------------------------------------------------------------------
\* A step of a worker.
LEMMA WorkerInv ==
  ASSUME IInv, NEW w \in Workers, Worker(w)
  PROVE  IInv'
<1> USE DEF IInv
<1>1. /\ workers' \in [Workers -> [at: Steps, age: Age]]
      /\ Live' \subseteq Live
  <2>1. CASE BeginCycle(w)
    <3>1. PICK due \in {"high", "low"} : workers' = [workers EXCEPT ![w] = At(due)]
      BY <2>1 DEF BeginCycle
    <3>2. w \in Live /\ Alive(w)
      BY <2>1 DEF BeginCycle, Live, Alive
    <3>3. CASE due = "high"
      BY <3>1, <3>2, <3>3, HighStep
    <3>4. CASE due = "low"
      <4>1. workers' = [workers EXCEPT ![w] = At("low")]
        BY <3>1, <3>4
      <4> QED
        BY <3>2, <4>1, LiveStep
    <3> QED
      BY <3>3, <3>4
  <2>2. CASE SeeStop(w)
    BY <2>2, DeadStep DEF SeeStop
  <2>3. CASE CollectHigh(w)
    <3>1. PICK next \in {"low", "top"} : workers' = [workers EXCEPT ![w] = At(next)]
      BY <2>3 DEF CollectHigh
    <3>2. w \in Live
      BY <2>3 DEF CollectHigh, Live, Alive
    <3> QED
      BY <3>1, <3>2, LiveStep
  <2>4. CASE CollectLow(w)
    BY <2>4, LiveStep DEF CollectLow, Live, Alive
  <2>5. CASE Die(w)
    BY <2>5, DeadStep DEF Die
  <2> QED
    BY <2>1, <2>2, <2>3, <2>4, <2>5 DEF Worker
<1>2. UNCHANGED <<flags, main, watchdog, seen, waited, joining, started, worker, control, given_up>>
  BY DEF Worker, BeginCycle, SeeStop, CollectHigh, CollectLow, Die
<1>3. heartbeat' \in Age \cup {None}
  <2>1. workers[w].age \in Age
    BY DEF TypeOK
  <2> QED
    BY <2>1 DEF TypeOK, Worker, BeginCycle, SeeStop, CollectHigh, CollectLow, Die
<1>4. TypeOK'
  BY <1>1, <1>2, <1>3 DEF TypeOK, Steps, flags, control
<1>5. StartInv' /\ OneWorker' /\ RestartInv' /\ StopInv'
  BY <1>1, <1>2 DEF StartInv, OneWorker, RestartInv, StopInv, control
<1>6. HeartbeatInv'
  <2> SUFFICES ASSUME given_up = {}, heartbeat' # None, NEW v \in Workers, workers'[v].at = "high"
               PROVE  workers'[v].age <= heartbeat'
    BY <1>2 DEF HeartbeatInv
  <2>1. CASE BeginCycle(w)
    <3>1. PICK due \in {"high", "low"} : workers' = [workers EXCEPT ![w] = At(due)]
      BY <2>1 DEF BeginCycle
    <3>2. Alive(w) /\ heartbeat' = heartbeat
      BY <2>1 DEF BeginCycle, Alive
    <3>3. CASE due = "high"
      <4>1. \/ workers'[v].age = 0
            \/ workers[v].at = "high" /\ workers'[v].age = workers[v].age
        BY <3>1, <3>2, <3>3, HighStep
      <4>2. heartbeat \in Nat
        BY <3>2 DEF TypeOK, Age
      <4> QED
        BY <3>2, <4>1, <4>2 DEF HeartbeatInv
    <3>4. CASE due = "low"
      BY <3>1, <3>2, <3>4, LiveStep DEF HeartbeatInv
    <3> QED
      BY <3>3, <3>4
  <2>2. CASE SeeStop(w)
    BY <2>2, DeadStep DEF SeeStop, HeartbeatInv
  <2>3. CASE CollectHigh(w)
    <3>1. PICK next \in {"low", "top"} : workers' = [workers EXCEPT ![w] = At(next)]
      BY <2>3 DEF CollectHigh
    <3>2. workers[v].at = "high"
      BY <3>1, LiveStep
    <3>3. v \in Live /\ w \in Live
      BY <2>3, <3>2 DEF CollectHigh, Live, Alive
    <3>4. v = w
      BY <3>3 DEF OneWorker
    <3>5. workers'[v] = At(next)
      BY <3>1, <3>4 DEF TypeOK
    <3> QED
      BY <3>5 DEF At
  <2>4. CASE CollectLow(w)
    BY <2>4, LiveStep DEF CollectLow, HeartbeatInv
  <2>5. CASE Die(w)
    BY <2>5, DeadStep DEF Die, HeartbeatInv
  <2> QED
    BY <2>1, <2>2, <2>3, <2>4, <2>5 DEF Worker
<1> QED
  BY <1>4, <1>5, <1>6
-------------------------------------------------------------------------------
\* Time passes.
LEMMA TickInv ==
  ASSUME IInv, Tick
  PROVE  IInv'
<1> USE DEF IInv
<1>1. /\ workers' \in [Workers -> [at: Steps, age: Age]] /\ Live' = Live
      /\ \A v \in Workers : workers'[v].at = "high"
           => workers[v].at = "high" /\ workers'[v].age = Older(workers[v].age)
  BY TickStep
<1>2. UNCHANGED <<flags, main, watchdog, joining, started, worker, restarts, given_up>>
  BY DEF Tick
<1>3. seen' = Older(seen) /\ heartbeat' = Older(heartbeat)
  BY DEF Tick
<1>4. seen' \in Age \cup {None} /\ heartbeat' \in Age \cup {None}
      /\ (seen # None => seen' # None) /\ (heartbeat' # None => heartbeat # None)
  BY <1>3, AgeType DEF TypeOK
<1>5. since_restart' \in 0..BACKOFF
  BY SupervisorAssumption DEF Tick, Capped, TypeOK
<1>6. waited' \in [main: 0..STOP_JOIN, watchdog: 0..RESTART_JOIN]
  BY WaitType
<1>7. TypeOK'
  BY <1>1, <1>2, <1>4, <1>5, <1>6 DEF TypeOK, Steps, flags
<1>8. StartInv' /\ OneWorker' /\ RestartInv' /\ StopInv'
  BY <1>1, <1>2 DEF StartInv, OneWorker, RestartInv, StopInv
<1>9. HeartbeatInv'
  <2> SUFFICES ASSUME given_up = {}, heartbeat' # None, NEW v \in Workers, workers'[v].at = "high"
               PROVE  workers'[v].age <= heartbeat'
    BY <1>2 DEF HeartbeatInv
  <2>1. workers[v].at = "high" /\ workers'[v].age = Older(workers[v].age)
    BY <1>1
  <2>2. workers[v].age \in Age /\ heartbeat \in Age
    BY <1>4 DEF TypeOK
  <2>3. workers[v].age <= heartbeat
    BY <1>4, <2>1 DEF HeartbeatInv
  <2> QED
    BY <1>3, <2>1, <2>2, <2>3, AgeType
<1> QED
  BY <1>7, <1>8, <1>9
-------------------------------------------------------------------------------
\* A step of the watchdog other than the start of a worker.
LEMMA WatchdogInv ==
  ASSUME IInv, Watchdog, ~Spawn
  PROVE  IInv'
<1> USE DEF IInv
<1>1. UNCHANGED <<stop_event, watchdog_stop, main, joining, workers, started, heartbeat>>
  BY DEF Watchdog, DogLoop, ReadHeartbeat, Decide, SetStop, JoinWorker, ClearStop, Spawn,
         Assign, flags, pool
<1>2. Live' = Live
  BY <1>1 DEF Live, Alive
<1>3. main \notin {"start", "start_watchdog"} /\ worker >= 1 /\ started >= 1
  BY DEF Watchdog, DogLoop, ReadHeartbeat, Decide, SetStop, JoinWorker, ClearStop, Spawn,
         Assign, StartInv
<1>4. given_up \subseteq given_up' /\ given_up' \subseteq given_up \cup {worker}
  BY DEF Watchdog, DogLoop, ReadHeartbeat, Decide, SetStop, JoinWorker, ClearStop, Spawn, Assign
<1>5. OneWorker' /\ HeartbeatInv'
  BY <1>1, <1>2, <1>4 DEF OneWorker, HeartbeatInv
<1>6. worker \in Workers /\ Dog \notin Workers
  BY <1>3, WorkerIds DEF TypeOK
<1>7. StopInv'
  BY <1>1, <1>2, <1>4, <1>6
     DEF StopInv, Watchdog, DogLoop, ReadHeartbeat, Decide, SetStop, JoinWorker, ClearStop,
         Spawn, Assign
<1>8. CASE DogLoop \/ ReadHeartbeat
  <2>1. UNCHANGED <<worker_stop, waited, worker, restarts, since_restart, given_up>>
    BY <1>8 DEF DogLoop, ReadHeartbeat, flags, pool, control
  <2>2. watchdog' \in {"top", "done", "read", "decide"} /\ watchdog \in {"top", "read"}
    BY <1>8 DEF DogLoop, ReadHeartbeat
  <2>3. seen' \in Age \cup {None} /\ (watchdog' = "decide" => seen' # None)
    BY <1>8 DEF DogLoop, ReadHeartbeat, TypeOK
  <2>4. TypeOK'
    BY <1>1, <2>1, <2>2, <2>3 DEF TypeOK
  <2> QED
    BY <1>1, <1>2, <1>3, <1>5, <1>7, <2>1, <2>2, <2>4 DEF StartInv, RestartInv
<1>9. CASE Decide
  <2>1. UNCHANGED <<worker_stop, waited, worker, given_up>> /\ seen' = None
    BY <1>9 DEF Decide, flags, pool
  <2>2. /\ watchdog = "decide"
        /\ \/ watchdog' = "top" /\ restarts' = restarts
           \/ watchdog' = "set" /\ restarts' = restarts + 1 /\ restarts < MAX_RESTARTS
    BY <1>9 DEF Decide, may_restart
  <2>3. since_restart' \in 0..BACKOFF
    BY <1>9, SupervisorAssumption DEF Decide, TypeOK
  <2>4. restarts' \in 0..MAX_RESTARTS
    BY <2>2, SupervisorAssumption DEF TypeOK
  <2>5. TypeOK'
    BY <1>1, <2>1, <2>2, <2>3, <2>4 DEF TypeOK
  <2>6. StartInv'
    BY <1>1, <1>2, <1>3, <2>1, <2>2, WorkerIds DEF StartInv, TypeOK
  <2> QED
    BY <1>5, <1>7, <2>2, <2>5, <2>6 DEF RestartInv
<1>10. CASE SetStop
  <2>1. UNCHANGED <<seen, worker, restarts, since_restart, given_up>> /\ worker_stop' = TRUE
    BY <1>10 DEF SetStop, pool, control
  <2>2. /\ watchdog = "set" /\ watchdog' \in {"join", "clear"}
        /\ watchdog' = "clear" => ~Alive(worker)
    BY <1>10 DEF SetStop, after_set
  <2>3. waited' \in [main: 0..STOP_JOIN, watchdog: 0..RESTART_JOIN]
    BY <1>10, WaitType DEF SetStop
  <2>4. TypeOK'
    BY <1>1, <2>1, <2>2, <2>3 DEF TypeOK
  <2>5. RestartInv'
    BY <1>2, <2>1, <2>2 DEF RestartInv, OneWorker, StartInv, Live
  <2> QED
    BY <1>1, <1>2, <1>3, <1>5, <1>7, <2>1, <2>2, <2>4, <2>5 DEF StartInv
<1>11. CASE JoinWorker
  <2>1. UNCHANGED <<worker_stop, seen, waited, worker, restarts, since_restart>>
    BY <1>11 DEF JoinWorker, flags, pool, control
  <2>2. /\ watchdog = "join" /\ watchdog' = "clear"
        /\ ~Alive(worker) \/ worker \in given_up'
    BY <1>11 DEF JoinWorker
  <2>3. TypeOK'
    BY <1>1, <1>4, <1>6, <2>1, <2>2 DEF TypeOK
  <2>4. RestartInv'
    BY <1>2, <1>4, <2>1, <2>2 DEF RestartInv, OneWorker, StartInv, Live
  <2> QED
    BY <1>1, <1>2, <1>3, <1>5, <1>7, <2>1, <2>2, <2>3, <2>4 DEF StartInv
<1>12. CASE ClearStop
  <2>1. UNCHANGED <<seen, waited, worker, restarts, since_restart, given_up>>
        /\ worker_stop' = FALSE /\ watchdog = "clear" /\ watchdog' = "spawn"
    BY <1>12 DEF ClearStop, pool, control
  <2>2. worker_stop' \in BOOLEAN
    BY <2>1
  <2>3. TypeOK'
    BY <1>1, <2>1, <2>2 DEF TypeOK
  <2> QED
    BY <1>1, <1>2, <1>3, <1>5, <1>7, <2>1, <2>3 DEF StartInv, RestartInv
<1>13. CASE Assign
  <2>1. UNCHANGED <<worker_stop, seen, waited, restarts, since_restart, given_up>>
        /\ watchdog = "assign" /\ watchdog' = "top" /\ worker' = started
    BY <1>13 DEF Assign, new_worker, flags, control
  <2>2. TypeOK'
    BY <1>1, <2>1 DEF TypeOK
  <2> QED
    BY <1>1, <1>2, <1>3, <1>5, <1>7, <2>1, <2>2 DEF StartInv, RestartInv
<1> QED
  BY <1>8, <1>9, <1>10, <1>11, <1>12, <1>13 DEF Watchdog
-------------------------------------------------------------------------------
\* The watchdog starts a worker, or fails to.
LEMMA SpawnInv ==
  ASSUME IInv, Spawn
  PROVE  IInv'
<1> USE DEF IInv
<1>1. UNCHANGED <<flags, main, seen, waited, joining, worker, heartbeat, control, given_up>>
  BY DEF Spawn
<1>2. watchdog = "spawn" /\ Live \subseteq given_up /\ started <= restarts
  BY DEF Spawn, RestartInv, StartInv
<1>3. main \notin {"start", "start_watchdog"} /\ worker >= 1 /\ started >= 1
  BY <1>2 DEF StartInv
<1>4. CASE UNCHANGED <<started, workers>> /\ watchdog' = "top"
  <2>1. Live' = Live
    BY <1>4 DEF Live, Alive
  <2>2. TypeOK'
    BY <1>1, <1>4 DEF TypeOK, flags, control
  <2> QED
    BY <1>1, <1>2, <1>4, <2>1, <2>2
       DEF StartInv, OneWorker, RestartInv, StopInv, HeartbeatInv, control
<1>5. CASE /\ started' = started + 1 /\ watchdog' = "assign"
           /\ workers' = [workers EXCEPT ![started + 1] = At("top")]
  <2>1. started' \in Workers
    BY <1>1, <1>2, <1>5, SupervisorAssumption, WorkerIds DEF TypeOK, Workers
  <2>2. /\ workers' \in [Workers -> [at: Steps, age: Age]]
        /\ Live' = Live \cup {started'}
        /\ \A v \in Workers : workers'[v].at = "high"
             => workers[v].at = "high" /\ workers'[v].age = workers[v].age
    BY <1>5, <2>1, LiveStep
  <2>3. TypeOK'
    BY <1>1, <1>5, <2>1, <2>2 DEF TypeOK, flags, control, Steps
  <2>4. StartInv'
    BY <1>1, <1>2, <1>3, <1>5, <2>1, WorkerIds DEF StartInv, control, TypeOK
  <2>5. OneWorker' /\ RestartInv' /\ StopInv' /\ HeartbeatInv'
    BY <1>1, <1>2, <1>5, <2>2 DEF OneWorker, RestartInv, StopInv, HeartbeatInv
  <2> QED
    BY <2>3, <2>4, <2>5
<1> QED
  BY <1>4, <1>5 DEF Spawn
-------------------------------------------------------------------------------
\* A step of the main thread.
LEMMA MainInv ==
  ASSUME IInv, Main
  PROVE  IInv'
<1> USE DEF IInv
<1>1. UNCHANGED <<seen, heartbeat, restarts, since_restart>> /\ stop_event' = stop_event
  BY DEF Main, StartWorker, StartWatchdog, LeaveLoop, StopWorker, StopWatchdog, Join, Close,
         flags, control
<1>2. CASE StartWorker
  <2>1. /\ main = "start" /\ main' = "start_watchdog" /\ started' = 1 /\ worker' = 1
        /\ worker_stop' = FALSE /\ workers' = [workers EXCEPT ![1] = At("top")]
        /\ UNCHANGED <<watchdog_stop, watchdog, waited, joining, given_up>>
    BY <1>2 DEF StartWorker
  <2>2. Live = {}
    BY <2>1 DEF StartInv
  <2>3. /\ workers' \in [Workers -> [at: Steps, age: Age]] /\ Live' = {1}
        /\ \A v \in Workers : workers'[v].at = "high"
             => workers[v].at = "high" /\ workers'[v].age = workers[v].age
    BY <2>1, <2>2, LiveStep, WorkerIds
  <2>4. TypeOK'
    BY <1>1, <2>1, <2>3, WorkerIds DEF TypeOK, Steps
  <2>5. StartInv'
    BY <1>1, <2>1, WorkerIds DEF StartInv, TypeOK
  <2> QED
    BY <1>1, <2>1, <2>3, <2>4, <2>5
       DEF OneWorker, RestartInv, StopInv, HeartbeatInv, StartInv
<1>3. CASE StartWatchdog
  <2>1. /\ main = "start_watchdog" /\ main' = "loop" /\ watchdog' = "top"
        /\ UNCHANGED <<worker_stop, watchdog_stop, waited, joining, workers, started, worker,
                       given_up>>
    BY <1>3 DEF StartWatchdog, flags, pool
  <2>2. Live' = Live
    BY <2>1 DEF Live, Alive
  <2>3. TypeOK'
    BY <1>1, <2>1 DEF TypeOK
  <2> QED
    BY <1>1, <2>1, <2>2, <2>3
       DEF StartInv, OneWorker, RestartInv, StopInv, HeartbeatInv
<1>4. CASE LeaveLoop \/ StopWorker \/ StopWatchdog
  <2>1. /\ main \in {"loop", "stop_worker", "stop_watchdog"}
        /\ main' \in {"stop_worker", "stop_watchdog", "join"}
        /\ main' = "join" => joining' = Dog
        /\ UNCHANGED <<watchdog, workers, started, worker, given_up>>
    BY <1>4 DEF LeaveLoop, StopWorker, StopWatchdog, first_join, pool
  <2>2. worker_stop' \in BOOLEAN /\ watchdog_stop' \in BOOLEAN /\ joining' \in Workers \cup {Dog}
    BY <1>4 DEF LeaveLoop, StopWorker, StopWatchdog, first_join, flags, TypeOK
  <2>3. waited' \in [main: 0..STOP_JOIN, watchdog: 0..RESTART_JOIN]
    BY <1>4, WaitType DEF LeaveLoop, StopWorker, StopWatchdog, TypeOK
  <2>4. Live' = Live
    BY <2>1 DEF Live, Alive
  <2>5. TypeOK'
    BY <1>1, <2>1, <2>2, <2>3 DEF TypeOK
  <2> QED
    BY <1>1, <2>1, <2>4, <2>5
       DEF StartInv, OneWorker, RestartInv, StopInv, HeartbeatInv
<1>5. CASE Join
  <2>1. /\ main = "join" /\ UNCHANGED <<worker_stop, watchdog_stop, watchdog, workers, started, worker>>
        /\ \/ joining = Dog /\ main' = "join" /\ joining' = worker
           \/ joining # Dog /\ main' = "close" /\ joining' = joining
    BY <1>5 DEF Join, flags, pool
  <2>2. \/ given_up' = given_up /\ Ended(joining)
        \/ given_up' = given_up \cup {joining}
    BY <1>5 DEF Join, join_returns
  <2>3. waited' \in [main: 0..STOP_JOIN, watchdog: 0..RESTART_JOIN]
    BY <1>5, WaitType DEF Join
  <2>4. Live' = Live /\ worker \in Workers
    BY <2>1, WorkerIds DEF Live, Alive, StartInv, TypeOK
  <2>5. TypeOK'
    BY <1>1, <2>1, <2>2, <2>3, <2>4 DEF TypeOK
  <2>6. StartInv' /\ OneWorker' /\ RestartInv' /\ HeartbeatInv'
    BY <1>1, <2>1, <2>2, <2>4 DEF StartInv, OneWorker, RestartInv, HeartbeatInv
  <2>7. StopInv'
    <3>1. CASE joining = Dog
      BY <2>1, <2>2, <3>1 DEF StopInv, StartInv, Ended
    <3>2. CASE joining # Dog
      BY <2>1, <2>2, <2>4, <3>2 DEF StopInv, OneWorker, Ended, Live
    <3> QED
      BY <3>1, <3>2
  <2> QED
    BY <2>5, <2>6, <2>7
<1>6. CASE Close
  <2>1. /\ main = "close" /\ main' = "closed"
        /\ UNCHANGED <<worker_stop, watchdog_stop, watchdog, waited, joining, workers, started,
                       worker, given_up>>
    BY <1>6 DEF Close, flags, pool
  <2>2. Live' = Live
    BY <2>1 DEF Live, Alive
  <2>3. TypeOK'
    BY <1>1, <2>1 DEF TypeOK
  <2> QED
    BY <1>1, <2>1, <2>2, <2>3
       DEF StartInv, OneWorker, RestartInv, StopInv, HeartbeatInv
<1> QED
  BY <1>2, <1>3, <1>4, <1>5, <1>6 DEF Main
-------------------------------------------------------------------------------
LEMMA NextInv == IInv /\ [Next]_vars => IInv'
<1> SUFFICES ASSUME IInv, [Next]_vars PROVE IInv'
  OBVIOUS
<1>1. CASE SvcStop \/ UNCHANGED vars
  <2>1. /\ stop_event' \in BOOLEAN
        /\ UNCHANGED <<worker_stop, watchdog_stop, main, watchdog, seen, waited, joining, pool,
                       heartbeat, control, given_up>>
    BY <1>1 DEF SvcStop, vars, flags, IInv, TypeOK
  <2>2. Live' = Live
    BY <2>1 DEF Live, Alive, pool
  <2> QED
    BY <2>1, <2>2 DEF IInv, TypeOK, StartInv, OneWorker, RestartInv, StopInv, HeartbeatInv,
                      pool, control
<1> QED
  BY <1>1, TickInv, MainInv, WatchdogInv, SpawnInv, WorkerInv DEF Next

THEOREM Inductive == Spec => []IInv
BY InitInv, NextInv, PTL DEF Spec

\* Type correctness, for any limits and timeouts.
THEOREM TypeCorrect == Spec => []TypeOK
<1>1. IInv => TypeOK
  BY DEF IInv
<1> QED
  BY <1>1, Inductive, PTL

\* Only the newest worker runs, except those a join() gave up on.
THEOREM NewestWorkerOnly == Spec => []OneWorker
<1>1. IInv => OneWorker
  BY DEF IInv
<1> QED
  BY <1>1, Inductive, PTL

\* No worker survives a stop unnoticed, also when the stop meets a restart.
THEOREM CleanStop == Spec => []StopIsClean
<1>1. IInv => StopIsClean
  BY DEF IInv, StopInv, StopIsClean
<1> QED
  BY <1>1, Inductive, PTL

\* The heartbeat never goes back while no join() gave up.
THEOREM HeartbeatMoves == Spec => HeartbeatAdvances
<1>1. ASSUME IInv, NEW w \in Workers, CollectHigh(w), given_up = {}, heartbeat # None
      PROVE  heartbeat' <= heartbeat
  <2>1. heartbeat \in Nat /\ workers[w].age <= heartbeat /\ workers[w].at = "high"
    BY <1>1 DEF IInv, TypeOK, HeartbeatInv, CollectHigh, Age
  <2> QED
    BY <1>1, <2>1 DEF CollectHigh
<1>2. IInv => ((\E w \in Workers : CollectHigh(w)) /\ given_up = {} /\ heartbeat # None
                 => heartbeat' <= heartbeat)
  BY <1>1
<1> QED
  BY <1>2, Inductive, PTL DEF HeartbeatAdvances
==============================================================================
