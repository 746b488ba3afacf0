----------------------------- MODULE Supervisor -----------------------------
(***************************************************************************)
(* The threads of the agent (agent/lifecycle.py, agent/scheduler.py,       *)
(* watchdog/watchdog.py): the main thread in Agent.run(), the watchdog,    *)
(* and the scheduler's worker threads, of which the watchdog starts a new  *)
(* one when the heartbeat is stale.  The workers share one stop event.     *)
(*                                                                         *)
(* Every step may take any time: a worker may hang inside a collector for  *)
(* good.  Time is kept as ages, counted in ticks up to the last value that *)
(* the code tells apart.  A method of Database runs under its lock and is  *)
(* one step; only the heartbeat matters here.                              *)
(***************************************************************************)
EXTENDS Integers, FiniteSets

CONSTANTS
  None,          \* get_heartbeat() before the first heartbeat
  MAX_RESTARTS,  \* max_restarts, 5
  STALE_AFTER,   \* stale_after, 90 s
  BACKOFF,       \* backoff_seconds, 60 s
  RESTART_JOIN,  \* join timeout in _restart_worker(), 10 s
  STOP_JOIN      \* join timeouts in run(), 5 s

ASSUME SupervisorAssumption ==
  /\ MAX_RESTARTS \in Nat /\ STALE_AFTER \in Nat /\ BACKOFF \in Nat
  /\ RESTART_JOIN \in Nat /\ STOP_JOIN \in Nat /\ None \notin Int

VARIABLES
  stop_event,     \* set by SvcStop()
  worker_stop,    \* Agent._worker_stop, shared by all workers
  watchdog_stop,  \* Watchdog._stop_event
  main,           \* where run() is
  watchdog,       \* where the watchdog thread is
  seen,           \* the watchdog's local heartbeat, as an age
  waited,         \* how long a thread has been in its join()
  joining,        \* the thread that run() waits for
  workers,        \* the worker threads: where they are, age of their `now`
  started,        \* how many of them were started
  worker,         \* Agent._worker
  heartbeat,      \* age of the timestamp in table heartbeat, or None
  restarts,       \* Watchdog._restarts
  since_restart,  \* time since Watchdog._last_restart
  given_up        \* threads that a join() gave up on, Dog for the watchdog

flags == <<stop_event, worker_stop, watchdog_stop>>
pool == <<workers, started, worker>>
control == <<restarts, since_restart>>
vars == <<flags, main, watchdog, seen, waited, joining, pool, heartbeat, control, given_up>>
-------------------------------------------------------------------------------
Workers == 1..(MAX_RESTARTS + 1)
Dog == 0

Age == 0..(STALE_AFTER + 1)

\* A worker at a step; its `now` matters only in the high-frequency cycle.
At(step) == [at |-> step, age |-> 0]
Alive(w) == workers[w].at \notin {"unborn", "dead"}

Capped(n, limit) == IF n < limit THEN n + 1 ELSE n
Older(age) == IF age = None THEN None ELSE Capped(age, STALE_AFTER + 1)

Init ==
  /\ stop_event \in BOOLEAN /\ worker_stop = FALSE /\ watchdog_stop = FALSE
  /\ main = "start" /\ watchdog = "unborn"
  /\ seen = None
  /\ waited = [main |-> 0, watchdog |-> 0]
  /\ joining = Dog
  /\ workers = [w \in Workers |-> At("unborn")]
  /\ started = 0 /\ worker = 0
  /\ heartbeat \in Age \cup {None}
  /\ restarts = 0 /\ since_restart = BACKOFF
  /\ given_up = {}

\* The service manager asks for a stop.
SvcStop ==
  /\ ~stop_event
  /\ stop_event' = TRUE
  /\ UNCHANGED <<worker_stop, watchdog_stop, main, watchdog, seen, waited, joining, pool,
                 heartbeat, control, given_up>>

Tick ==
  /\ waited' = [ main |-> IF main = "join" THEN Capped(waited.main, STOP_JOIN) ELSE 0,
                 watchdog |-> IF watchdog = "join" THEN Capped(waited.watchdog, RESTART_JOIN)
                                                   ELSE 0 ]
  /\ workers' = [w \in Workers |-> IF workers[w].at = "high"
                                     THEN [at |-> "high", age |-> Older(workers[w].age)]
                                     ELSE workers[w]]
  /\ seen' = Older(seen) /\ heartbeat' = Older(heartbeat)
  /\ since_restart' = Capped(since_restart, BACKOFF)
  /\ UNCHANGED <<flags, main, watchdog, joining, started, worker, restarts, given_up>>
-------------------------------------------------------------------------------
(* A worker: Scheduler.loop().                                             *)

\* A cycle begins with `now`; which collectors are due depends on the intervals.
BeginCycle(w) ==
  /\ workers[w].at = "top" /\ ~worker_stop
  /\ \E due \in {"high", "low"} : workers' = [workers EXCEPT ![w] = At(due)]
  /\ UNCHANGED <<flags, main, watchdog, seen, waited, joining, started, worker, heartbeat,
                 control, given_up>>

SeeStop(w) ==
  /\ workers[w].at = "top" /\ worker_stop
  /\ workers' = [workers EXCEPT ![w] = At("dead")]
  /\ UNCHANGED <<flags, main, watchdog, seen, waited, joining, started, worker, heartbeat,
                 control, given_up>>

\* update_heartbeat(now), with the `now` from before the collectors ran; a cycle
\* that fails, or finds the connection closed, leaves the heartbeat alone.
CollectHigh(w) ==
  /\ workers[w].at = "high"
  /\ \/ main # "closed" /\ heartbeat' = workers[w].age
     \/ UNCHANGED heartbeat
  /\ \E next \in {"low", "top"} : workers' = [workers EXCEPT ![w] = At(next)]
  /\ UNCHANGED <<flags, main, watchdog, seen, waited, joining, started, worker, control,
                 given_up>>

CollectLow(w) ==
  /\ workers[w].at = "low"
  /\ workers' = [workers EXCEPT ![w] = At("top")]
  /\ UNCHANGED <<flags, main, watchdog, seen, waited, joining, started, worker, heartbeat,
                 control, given_up>>

\* The watchdog's docstring: "the scheduler thread died on an unhandled error".
Die(w) ==
  /\ Alive(w)
  /\ workers' = [workers EXCEPT ![w] = At("dead")]
  /\ UNCHANGED <<flags, main, watchdog, seen, waited, joining, started, worker, heartbeat,
                 control, given_up>>

Worker(w) == BeginCycle(w) \/ SeeStop(w) \/ CollectHigh(w) \/ CollectLow(w) \/ Die(w)
-------------------------------------------------------------------------------
(* The watchdog: run(), _check() and, called back, _restart_worker().      *)

DogLoop ==
  /\ watchdog = "top"
  /\ watchdog' = IF watchdog_stop THEN "done" ELSE "read"
  /\ UNCHANGED <<flags, main, seen, waited, joining, pool, heartbeat, control, given_up>>

\* Without a heartbeat, or on a closed connection, nothing is checked.
ReadHeartbeat ==
  /\ watchdog = "read"
  /\ IF heartbeat = None \/ main = "closed"
       THEN watchdog' = "top" /\ UNCHANGED seen
       ELSE watchdog' = "decide" /\ seen' = heartbeat
  /\ UNCHANGED <<flags, main, waited, joining, pool, heartbeat, control, given_up>>

\* Mutant: the limit is reached one restart too late.
may_restart_once_more(stale) == stale /\ restarts <= MAX_RESTARTS /\ since_restart >= BACKOFF
may_restart(stale) == stale /\ restarts < MAX_RESTARTS /\ since_restart >= BACKOFF

\* Mutant: the time of the last restart is set whenever the heartbeat is stale.
last_restart_is_now_if_stale(stale) == stale
last_restart_is_now(stale) == may_restart(stale)

Decide ==
  LET stale == seen > STALE_AFTER IN
  /\ watchdog = "decide"
  /\ \/ may_restart(stale) /\ watchdog' = "set" /\ restarts' = restarts + 1
     \/ ~may_restart(stale) /\ watchdog' = "top" /\ UNCHANGED restarts
  /\ since_restart' = IF last_restart_is_now(stale) THEN 0 ELSE since_restart
  /\ seen' = None
  /\ UNCHANGED <<flags, main, waited, joining, pool, heartbeat, given_up>>

\* Mutant: a worker that is alive is not waited for.
after_set_without_join(w) == "clear"
after_set(w) == IF Alive(w) THEN "join" ELSE "clear"

SetStop ==
  /\ watchdog = "set"
  /\ worker_stop' = TRUE
  /\ watchdog' = after_set(worker)
  /\ waited' = [waited EXCEPT !.watchdog = 0]
  /\ UNCHANGED <<stop_event, watchdog_stop, main, seen, joining, pool, heartbeat, control,
                 given_up>>

JoinWorker ==
  /\ watchdog = "join"
  /\ \/ ~Alive(worker) /\ UNCHANGED given_up
     \/ Alive(worker) /\ waited.watchdog >= RESTART_JOIN /\ given_up' = given_up \cup {worker}
  /\ watchdog' = "clear"
  /\ UNCHANGED <<flags, main, seen, waited, joining, pool, heartbeat, control>>

ClearStop ==
  /\ watchdog = "clear"
  /\ worker_stop' = FALSE
  /\ watchdog' = "spawn"
  /\ UNCHANGED <<stop_event, watchdog_stop, main, seen, waited, joining, pool, heartbeat,
                 control, given_up>>

\* The new thread runs, or Thread.start() fails, which _check() swallows.
Spawn ==
  /\ watchdog = "spawn"
  /\ \/ /\ started' = started + 1
        /\ workers' = [workers EXCEPT ![started + 1] = At("top")]
        /\ watchdog' = "assign"
     \/ UNCHANGED <<started, workers>> /\ watchdog' = "top"
  /\ UNCHANGED <<flags, main, seen, waited, joining, worker, heartbeat, control, given_up>>

\* Mutant: the new thread is not remembered.
new_worker_forgotten == worker
new_worker == started

Assign ==
  /\ watchdog = "assign"
  /\ worker' = new_worker
  /\ watchdog' = "top"
  /\ UNCHANGED <<flags, main, seen, waited, joining, workers, started, heartbeat, control,
                 given_up>>

Watchdog == \/ DogLoop \/ ReadHeartbeat \/ Decide
            \/ SetStop \/ JoinWorker \/ ClearStop \/ Spawn \/ Assign
-------------------------------------------------------------------------------
(* The main thread: Agent.run().                                           *)

StartWorker ==
  /\ main = "start"
  /\ worker_stop' = FALSE
  /\ workers' = [workers EXCEPT ![1] = At("top")]
  /\ started' = 1 /\ worker' = 1
  /\ main' = "start_watchdog"
  /\ UNCHANGED <<stop_event, watchdog_stop, watchdog, seen, waited, joining, heartbeat,
                 control, given_up>>

StartWatchdog ==
  /\ main = "start_watchdog"
  /\ watchdog' = "top"
  /\ main' = "loop"
  /\ UNCHANGED <<flags, seen, waited, joining, pool, heartbeat, control, given_up>>

LeaveLoop ==
  /\ main = "loop" /\ stop_event
  /\ main' = "stop_worker"
  /\ UNCHANGED <<flags, watchdog, seen, waited, joining, pool, heartbeat, control, given_up>>

StopWorker ==
  /\ main = "stop_worker"
  /\ worker_stop' = TRUE
  /\ main' = "stop_watchdog"
  /\ UNCHANGED <<stop_event, watchdog_stop, watchdog, seen, waited, joining, pool, heartbeat,
                 control, given_up>>

\* Mutant: the worker is joined without stopping and joining the watchdog first.
first_join_worker == worker
first_join == Dog

StopWatchdog ==
  /\ main = "stop_watchdog"
  /\ watchdog_stop' = TRUE
  /\ main' = "join" /\ joining' = first_join
  /\ waited' = [waited EXCEPT !.main = 0]
  /\ UNCHANGED <<stop_event, worker_stop, watchdog, seen, pool, heartbeat, control, given_up>>

Ended(t) == IF t = Dog THEN watchdog = "done" ELSE ~Alive(t)

\* Mutant: join() without a timeout.
join_returns_late(t) == Ended(t) /\ UNCHANGED given_up
join_returns(t) ==
  \/ Ended(t) /\ UNCHANGED given_up
  \/ ~Ended(t) /\ waited.main >= STOP_JOIN /\ given_up' = given_up \cup {t}

\* First the watchdog is joined, then the worker that is current at that time.
Join ==
  /\ main = "join"
  /\ join_returns(joining)
  /\ IF joining = Dog THEN joining' = worker /\ UNCHANGED main
                      ELSE main' = "close" /\ UNCHANGED joining
  /\ waited' = [waited EXCEPT !.main = 0]
  /\ UNCHANGED <<flags, watchdog, seen, pool, heartbeat, control>>

Close ==
  /\ main = "close"
  /\ main' = "closed"
  /\ UNCHANGED <<flags, watchdog, seen, waited, joining, pool, heartbeat, control, given_up>>

Main == \/ StartWorker \/ StartWatchdog \/ LeaveLoop
        \/ StopWorker \/ StopWatchdog \/ Join \/ Close
-------------------------------------------------------------------------------
Next == SvcStop \/ Tick \/ Main \/ Watchdog \/ \E w \in Workers : Worker(w)

\* Time passes, and the main thread and the watchdog are scheduled; nothing is
\* assumed of the workers, which may hang.
Fairness == WF_vars(Tick) /\ WF_vars(Main) /\ WF_vars(Watchdog)

Spec == Init /\ [][Next]_vars

FairSpec == Spec /\ Fairness
-------------------------------------------------------------------------------
(* Properties.                                                             *)

\* Every variable has its type.
TypeOK ==
  /\ stop_event \in BOOLEAN /\ worker_stop \in BOOLEAN /\ watchdog_stop \in BOOLEAN
  /\ main \in {"start", "start_watchdog", "loop", "stop_worker", "stop_watchdog", "join",
               "close", "closed"}
  /\ watchdog \in {"unborn", "top", "read", "decide", "set", "join", "clear", "spawn",
                   "assign", "done"}
  /\ seen \in Age \cup {None} /\ (watchdog = "decide" => seen # None)
  /\ waited \in [main: 0..STOP_JOIN, watchdog: 0..RESTART_JOIN]
  /\ joining \in Workers \cup {Dog}
  /\ workers \in [Workers -> [at: {"unborn", "top", "high", "low", "dead"}, age: Age]]
  /\ started \in Workers \cup {0} /\ worker \in Workers \cup {0}
  /\ heartbeat \in Age \cup {None}
  /\ restarts \in 0..MAX_RESTARTS /\ since_restart \in 0..BACKOFF
  /\ given_up \subseteq Workers \cup {Dog}

Live == {w \in Workers : Alive(w)}

\* However the watchdog, its restarts and a stop interleave, at most the newest
\* worker runs, and others only when a join() gave up on them.
OneWorker == Live \subseteq given_up \cup {started}

\* A worker that outlives the closing of the database is one that a join() gave
\* up on, unless the join of the watchdog was given up.
StopIsClean == main = "closed" /\ Dog \notin given_up => Live \subseteq given_up

\* As long as no join() gave up on a thread, the heartbeat never goes back to an
\* older time: no leftover worker writes the start of its old cycle over a newer one.
HeartbeatAdvances ==
  [][(\E w \in Workers : CollectHigh(w)) /\ given_up = {} /\ heartbeat # None
       => heartbeat' <= heartbeat]_vars

\* A requested stop ends run(), though workers hang and a restart is in progress.
StopEnds == stop_event ~> main = "closed"

\* A worker that died after a heartbeat is replaced while restarts are left.
DeadWorkerReplaced ==
  main = "loop" /\ Live = {} /\ heartbeat # None
    ~> Live # {} \/ restarts = MAX_RESTARTS \/ stop_event

\* README: the watchdog "can recover a crashed scheduler thread".
CrashedSchedulerRecovers ==
  main = "loop" /\ Live = {} ~> Live # {} \/ restarts = MAX_RESTARTS \/ stop_event
==============================================================================
