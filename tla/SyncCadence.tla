---------------------------- MODULE SyncCadence ----------------------------
(***************************************************************************)
(* When sweeps of one term start.  Worker processes run the loop of        *)
(* src/easy_a/sync/runner.py; a deploy may overlap two of them.  Operators *)
(* run one `--once`, one `--dry-run` or one `--restore-crn` each.  They    *)
(* share a database: the transaction-scoped advisory lock and the          *)
(* IngestRun rows, of which only the latest start is ever read.            *)
(***************************************************************************)
EXTENDS RegistrationWindows

CONSTANTS
  Workers,        \* worker processes
  OnceOps,        \* operators running --once
  DryOps,         \* operators running --dry-run
  RestoreOps,     \* operators running --restore-crn
  MaxTime,        \* bound: the last instant of a behaviour
  MaxSweep,       \* bound: a transaction is over in this time (client timeouts)
  MaxLateness,    \* bound: how late a sleeping worker wakes
  MaxFailures,    \* bound: failed sweeps
  MaxCrashes,     \* bound: killed worker processes
  MaxLostRecords, \* bound: failed IngestRuns whose own write fails
  MaxStops        \* bound: SIGTERMs

SweepOps == OnceOps \cup DryOps
Operators == SweepOps \cup RestoreOps
Procs == Workers \cup Operators

ASSUME ProcsAssumption ==
  /\ Workers \cap Operators = {}
  /\ "free" \notin Procs
  /\ OnceOps \cap DryOps = {} /\ SweepOps \cap RestoreOps = {}

ASSUME BoundsAssumption ==
  /\ MaxTime \in Nat /\ MaxSweep \in Nat /\ MaxLateness \in Nat
  /\ MaxFailures \in Nat /\ MaxCrashes \in Nat
  /\ MaxLostRecords \in Nat /\ MaxStops \in Nat

VARIABLES
  now,        \* the clock all processes read
  recorded,   \* max(IngestRun.started_at) of the term, or None
  lock,       \* the process whose transaction holds the sweep lock, or Free
  pc,         \* what each process is doing
  last,       \* run_loop's last_start
  failures,   \* run_loop's consecutive failures
  target,     \* the start a worker sleeps until
  started,    \* started_at of the sweep in progress
  fetchedAt,  \* fetched_at of the page being applied
  stop,       \* the workers whose stop event is set
  verified,   \* Section.last_seen_at written by the latest committed sweep
  prevSweep,  \* history: the start of the latest sweep that got the lock
  faults      \* how many of each bounded fault have happened

cadenceVars == <<now, recorded, lock, pc, last, failures, target, started,
                 fetchedAt, stop, verified, prevSweep, faults>>

None == -1
Free == "free"
Instant == Nat \cup {None}

Bound == [fail |-> MaxFailures, crash |-> MaxCrashes,
          lost |-> MaxLostRecords, stop |-> MaxStops]
Fault(kind) == /\ faults[kind] < Bound[kind]
               /\ faults' = [faults EXCEPT ![kind] = @ + 1]

Asleep == {"down", "looping", "waiting", "idle", "done"}
InTransaction == {"fetching", "applying", "restoring"}
Sweeping == InTransaction \cup {"failing"}

CadenceTypeOK ==
  /\ now \in 0..MaxTime
  /\ {recorded, verified, prevSweep} \subseteq Instant
  /\ lock \in Procs \cup {Free}
  /\ pc \in [Procs -> Asleep \cup Sweeping \cup {"cleared"}]
  /\ last \in [Workers -> Instant]
  /\ failures \in [Workers -> Nat]
  /\ target \in [Workers -> Instant]
  /\ started \in [Procs -> Instant]
  /\ \A p \in Procs : started[p] # None <=> pc[p] \in Sweeping
  /\ fetchedAt \in [Procs -> Instant]
  /\ stop \subseteq Workers
  /\ faults \in [DOMAIN Bound -> Nat]

Init ==
  /\ now = 0
  /\ recorded = None /\ verified = None /\ prevSweep = None
  /\ lock = Free
  /\ pc = [p \in Procs |-> IF p \in Workers THEN "down" ELSE "idle"]
  /\ last = [w \in Workers |-> None]
  /\ failures = [w \in Workers |-> 0]
  /\ target = [w \in Workers |-> None]
  /\ started = [p \in Procs |-> None]
  /\ fetchedAt = [p \in Procs |-> None]
  /\ stop = {}
  /\ faults = [kind \in DOMAIN Bound |-> 0]

(* Where a process continues once its sweep is over *)
AfterSweep(p) == IF p \in Workers THEN "looping" ELSE "done"

---------------------------------------------------------------------------
(* Worker processes *)

(* Fault: a restarted worker sweeps without looking at the recorded starts *)
LaunchUnpaced(w) ==
  /\ pc[w] = "down"
  /\ pc' = [pc EXCEPT ![w] = "looping"]
  /\ last' = [last EXCEPT ![w] = None]
  /\ failures' = [failures EXCEPT ![w] = 0]
  /\ UNCHANGED <<now, recorded, lock, target, started, fetchedAt, stop,
                 verified, prevSweep, faults>>

(* _run_worker_loop: the only time a worker reads the recorded starts *)
Launch(w) ==
  /\ pc[w] = "down"
  /\ pc' = [pc EXCEPT ![w] = "looping"]
  /\ last' = [last EXCEPT ![w] = recorded]
  /\ failures' = [failures EXCEPT ![w] = 0]
  /\ UNCHANGED <<now, recorded, lock, target, started, fetchedAt, stop,
                 verified, prevSweep, faults>>

(* The head of run_loop's while: plan the next start and sleep *)
PlanNext(w, jitter) ==
  /\ pc[w] = "looping"
  /\ w \notin stop
  /\ target' = [target EXCEPT ![w] =
                  IF last[w] = None
                  THEN now
                  ELSE NextStart(last[w], now, jitter, failures[w])]
  /\ pc' = [pc EXCEPT ![w] = "waiting"]
  /\ UNCHANGED <<now, recorded, lock, last, failures, started, fetchedAt,
                 stop, verified, prevSweep, faults>>

(* SIGTERM only sets the stop event *)
Signal(w) ==
  /\ pc[w] # "down"
  /\ w \notin stop
  /\ Fault("stop")
  /\ stop' = stop \cup {w}
  /\ UNCHANGED <<now, recorded, lock, pc, last, failures, target, started,
                 fetchedAt, verified, prevSweep>>

(* The stop event ends a sleep at once and is tested at the loop head; a sweep
   in progress is never interrupted *)
Exit(w) ==
  /\ pc[w] \in {"looping", "waiting"}
  /\ w \in stop
  /\ pc' = [pc EXCEPT ![w] = "down"]
  /\ stop' = stop \ {w}
  /\ target' = [target EXCEPT ![w] = None]
  /\ UNCHANGED <<now, recorded, lock, last, failures, started, fetchedAt,
                 verified, prevSweep, faults>>

---------------------------------------------------------------------------
(* Operators *)

(* _run_single_sweep: the floor is tested before the lock is taken, against
   the instant EarliestNextStart computes from the recorded start alone *)
CheckFloor(o) ==
  /\ o \in SweepOps
  /\ pc[o] = "idle"
  /\ pc' = [pc EXCEPT ![o] =
              IF recorded = None \/ now >= EarliestNextStart(recorded)
              THEN "cleared" ELSE "done"]
  /\ UNCHANGED <<now, recorded, lock, last, failures, target, started,
                 fetchedAt, stop, verified, prevSweep, faults>>

(* _restore_crns takes the same lock, or gives up *)
BeginRestore(o) ==
  /\ o \in RestoreOps
  /\ pc[o] = "idle"
  /\ IF lock = Free
     THEN /\ lock' = o
          /\ pc' = [pc EXCEPT ![o] = "restoring"]
          /\ started' = [started EXCEPT ![o] = now]
     ELSE /\ pc' = [pc EXCEPT ![o] = "done"]
          /\ UNCHANGED <<lock, started>>
  /\ UNCHANGED <<now, recorded, last, failures, target, fetchedAt, stop,
                 verified, prevSweep, faults>>

EndRestore(o) ==
  /\ pc[o] = "restoring"
  /\ lock' = Free
  /\ pc' = [pc EXCEPT ![o] = "done"]
  /\ started' = [started EXCEPT ![o] = None]
  /\ UNCHANGED <<now, recorded, last, failures, target, fetchedAt, stop,
                 verified, prevSweep, faults>>

---------------------------------------------------------------------------
(* run_sweep, by a worker or an operator *)

Due(p) ==
  \/ pc[p] = "cleared"
  \/ pc[p] = "waiting" /\ p \notin stop /\ now >= target[p]

(* Fault: the result of try_sweep_lock is ignored *)
BeginSweepUnlocked(p) ==
  /\ Due(p)
  /\ lock' = p
  /\ pc' = [pc EXCEPT ![p] = "fetching"]
  /\ started' = [started EXCEPT ![p] = now]
  /\ prevSweep' = now
  /\ UNCHANGED <<now, recorded, last, failures, target, fetchedAt, stop,
                 verified, faults>>

BeginSweep(p) ==
  /\ Due(p)
  /\ lock = Free
  /\ lock' = p
  /\ pc' = [pc EXCEPT ![p] = "fetching"]
  /\ started' = [started EXCEPT ![p] = now]
  /\ prevSweep' = now
  /\ UNCHANGED <<now, recorded, last, failures, target, fetchedAt, stop,
                 verified, faults>>

(* The lock is held elsewhere: nothing is requested or recorded, and the loop
   paces itself from the attempt *)
Busy(p) ==
  /\ Due(p)
  /\ lock # Free
  /\ pc' = [pc EXCEPT ![p] = AfterSweep(p)]
  /\ last' = IF p \in Workers THEN [last EXCEPT ![p] = now] ELSE last
  /\ UNCHANGED <<now, recorded, lock, failures, target, started, fetchedAt,
                 stop, verified, prevSweep, faults>>

(* The one USF request has been answered *)
Fetch(p) ==
  /\ pc[p] = "fetching"
  /\ pc' = [pc EXCEPT ![p] = "applying"]
  /\ fetchedAt' = [fetchedAt EXCEPT ![p] = now]
  /\ UNCHANGED <<now, recorded, lock, last, failures, target, started, stop,
                 verified, prevSweep, faults>>

(* Fault: the sweep's start outlives the sweep *)
ReturnWithStart(p, count) ==
  /\ pc' = [pc EXCEPT ![p] = AfterSweep(p)]
  /\ fetchedAt' = [fetchedAt EXCEPT ![p] = None]
  /\ IF p \in Workers
     THEN /\ last' = [last EXCEPT ![p] = started[p]]
          /\ failures' = [failures EXCEPT ![p] = count]
     ELSE UNCHANGED <<last, failures>>
  /\ UNCHANGED started

(* run_loop after a sweep with the given count of consecutive failures *)
Return(p, count) ==
  /\ pc' = [pc EXCEPT ![p] = AfterSweep(p)]
  /\ started' = [started EXCEPT ![p] = None]
  /\ fetchedAt' = [fetchedAt EXCEPT ![p] = None]
  /\ IF p \in Workers
     THEN /\ last' = [last EXCEPT ![p] = started[p]]
          /\ failures' = [failures EXCEPT ![p] = count]
     ELSE UNCHANGED <<last, failures>>

Record(start) == recorded' = Later(recorded, start)

(* Fault: the sweep's end clears the stop event that arrived during it *)
CommitRearmed(p) ==
  /\ pc[p] = "applying"
  /\ IF p \in DryOps
     THEN UNCHANGED <<recorded, verified>>
     ELSE Record(started[p]) /\ verified' = fetchedAt[p]
  /\ lock' = Free
  /\ Return(p, 0)
  /\ stop' = stop \ {p}
  /\ UNCHANGED <<now, target, prevSweep, faults>>

(* Commit: the sections' last_seen_at, the IngestRun and the lock together.  A
   dry run rolls back instead and leaves nothing *)
Commit(p) ==
  /\ pc[p] = "applying"
  /\ IF p \in DryOps
     THEN UNCHANGED <<recorded, verified>>
     ELSE Record(started[p]) /\ verified' = fetchedAt[p]
  /\ lock' = Free
  /\ Return(p, 0)
  /\ UNCHANGED <<now, target, stop, prevSweep, faults>>

(* Any exception of the sweep: the transaction rolls back and frees the lock
   before the failure is recorded *)
Fail(p) ==
  /\ pc[p] \in {"fetching", "applying"}
  /\ Fault("fail")
  /\ lock' = Free
  /\ pc' = [pc EXCEPT ![p] = "failing"]
  /\ UNCHANGED <<now, recorded, last, failures, target, started, fetchedAt,
                 stop, verified, prevSweep>>

NextFailures(p) == IF p \in Workers THEN failures[p] + 1 ELSE 0

(* _record_failure, in a transaction of its own; not for a dry run *)
RecordFailure(p) ==
  /\ pc[p] = "failing"
  /\ IF p \in DryOps THEN UNCHANGED recorded ELSE Record(started[p])
  /\ Return(p, NextFailures(p))
  /\ UNCHANGED <<now, lock, target, stop, verified, prevSweep, faults>>

(* The failure's own write fails: it is logged and dropped *)
LoseFailure(p) ==
  /\ pc[p] = "failing"
  /\ p \notin DryOps
  /\ Fault("lost")
  /\ Return(p, NextFailures(p))
  /\ UNCHANGED <<now, recorded, lock, target, stop, verified, prevSweep>>

(* The process is killed: its transaction, lock and memory are gone *)
Crash(w) ==
  /\ pc[w] # "down"
  /\ Fault("crash")
  /\ pc' = [pc EXCEPT ![w] = "down"]
  /\ lock' = IF lock = w THEN Free ELSE lock
  /\ stop' = stop \ {w}
  /\ target' = [target EXCEPT ![w] = None]
  /\ started' = [started EXCEPT ![w] = None]
  /\ fetchedAt' = [fetchedAt EXCEPT ![w] = None]
  /\ UNCHANGED <<now, recorded, last, failures, verified, prevSweep>>

---------------------------------------------------------------------------
(* Time passes unless a process between two waits has a step to take, a worker
   has overslept by MaxLateness, or a transaction has been open for MaxSweep *)
MayWait(p) ==
  CASE pc[p] \in {"looping", "cleared", "failing"} -> FALSE
    [] pc[p] = "waiting" -> p \notin stop /\ now < target[p] + MaxLateness
    [] pc[p] \in InTransaction -> now < started[p] + MaxSweep
    [] OTHER -> TRUE

Tick ==
  /\ now < MaxTime
  /\ \A p \in Procs : MayWait(p)
  /\ now' = now + 1
  /\ UNCHANGED <<recorded, lock, pc, last, failures, target, started,
                 fetchedAt, stop, verified, prevSweep, faults>>

(* The bound on time is reached: the clock stands still *)
Horizon == now = MaxTime /\ UNCHANGED cadenceVars

WorkerStep(w) ==
  \/ Launch(w) \/ Exit(w)
  \/ \E jitter \in JitterPercent : PlanNext(w, jitter)

SweepStep(p) ==
  \/ BeginSweep(p) \/ Busy(p) \/ Fetch(p) \/ Commit(p)
  \/ Fail(p) \/ RecordFailure(p) \/ LoseFailure(p)

Next ==
  \/ \E w \in Workers : WorkerStep(w) \/ Signal(w) \/ Crash(w)
  \/ \E o \in Operators : CheckFloor(o) \/ BeginRestore(o) \/ EndRestore(o)
  \/ \E p \in Procs : SweepStep(p)
  \/ Tick
  \/ Horizon

(* Every process runs, and an open transaction ends: its HTTP calls time out.
   Nothing makes a sweep succeed. *)
Fairness ==
  /\ WF_cadenceVars(Tick)
  /\ \A w \in Workers : WF_cadenceVars(WorkerStep(w))
  /\ \A p \in Procs : WF_cadenceVars(SweepStep(p))
  /\ \A o \in RestoreOps : WF_cadenceVars(EndRestore(o))

Spec == Init /\ [][Next]_cadenceVars /\ Fairness

---------------------------------------------------------------------------
(* Properties *)

(* One sweep in flight: the advisory lock admits one transaction at a time,
   however many workers and operators run, crash or are restarted. *)
SingleFlight ==
  \A p, q \in Procs :
    pc[p] \in InTransaction /\ pc[q] \in InTransaction => p = q

(* The start a worker sleeps until keeps the floor of the tier it falls in,
   measured from the start the worker knows of: jitter, backoff, a late clock
   and the pull-back to a window's opening never undercut it. *)
TargetKeepsFloor ==
  \A w \in Workers :
    pc[w] = "waiting" /\ last[w] # None
      => target[w] - last[w] >= IntervalFor(target[w])

(* A window's opening is swept at once: a worker that has slept past an
   opening since its last sweep is due, neither the hourly interval nor a
   failure backoff holds it.  A sweep in progress at the opening and the
   in-window floor account for the slack. *)
OpeningIsSwept ==
  \A w \in Workers, window \in Windows :
    (/\ pc[w] = "waiting" /\ last[w] # None
     /\ last[w] < window.start
     /\ now > window.start + Later(InWindowInterval, MaxSweep))
    => target[w] <= now

(* No operator has swept the term, no other worker runs or has swept it *)
Alone(w) ==
  /\ \A o \in SweepOps : pc[o] = "idle"
  /\ \A v \in Workers \ {w} : pc[v] = "down" /\ last[v] = None

(* A killed process or a lost failure record has left the latest start neither
   in the database nor in the worker's memory *)
Forgotten(w) ==
  /\ faults["crash"] + faults["lost"] > 0
  /\ prevSweep > Later(recorded, last[w])

(* A worker that is alone starts its sweeps apart by the floor of the tier the
   later one was planned in (windows.py's hard rule): through failures, stops,
   restarts, restores beside it and kills between sweeps.  Not when a kill in
   mid-sweep or a lost record makes it forget the earlier one. *)
FloorBetweenSweeps ==
  [][\A w \in Workers :
       (/\ pc[w] # "fetching" /\ pc'[w] = "fetching" /\ prevSweep # None
        /\ Alone(w) /\ ~Forgotten(w))
         => now - prevSweep >= IntervalFor(target[w])]_cadenceVars

(* Nothing has failed, stopped a worker or competed for the lock yet *)
Healthy ==
  /\ \A kind \in DOMAIN Bound : faults[kind] = 0
  /\ \A o \in Operators : pc[o] = "idle"

(* While nothing fails, seat data never ages past the fresh limit the API
   reports: jitter and sweep time fit between the cadence and that limit, also
   across the opening and the closing of a window. *)
FreshWhileHealthy ==
  Healthy /\ verified # None => now - verified <= FreshWithin(verified, now)

(* A worker told to stop is gone in the end, whatever it was doing. *)
StopEndsWorker ==
  \A w \in Workers : w \in stop ~> pc[w] = "down"
=============================================================================
