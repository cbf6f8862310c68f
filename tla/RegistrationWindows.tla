------------------------ MODULE RegistrationWindows ------------------------
(***************************************************************************)
(* The cadence rules of src/easy_a/sync/windows.py: which tier an instant  *)
(* falls in, when the next sweep may start, and when seat data counts as   *)
(* stale.  Instants are whole seconds.  A registration window is the       *)
(* half-open interval from the local midnight that opens its first day to  *)
(* the local midnight that closes its last one, so the calendar and the    *)
(* time zone are already resolved here.                                    *)
(***************************************************************************)
EXTENDS Integers

CONSTANTS
  Windows,           \* set of [start : instant, end : instant], end excluded
  InWindowInterval,  \* seconds between sweeps inside a window (300)
  OutsideInterval,   \* seconds between sweeps outside every window (3600)
  MaxBackoff,        \* cap of the failure backoff (3600)
  JitterPercent      \* the jitter factors drawn, in percent (100 to 120)

ASSUME IntervalsAssumption ==
  /\ InWindowInterval \in Nat \ {0}
  /\ OutsideInterval \in Nat
  /\ InWindowInterval <= OutsideInterval
  /\ MaxBackoff \in Nat

(* Jitter only lengthens an interval. *)
ASSUME JitterAssumption == JitterPercent \subseteq {j \in Nat : j >= 100}

(* The validators of RegistrationWindow(s): a window covers whole days, so it
   outlasts the hourly interval, and windows are disjoint. *)
ASSUME WindowsAssumption ==
  /\ \A w \in Windows : /\ w.start \in Nat
                        /\ w.end \in Nat
                        /\ w.end - w.start >= OutsideInterval
  /\ \A v, w \in Windows : v # w => v.end <= w.start \/ w.end <= v.start

Later(a, b) == IF a >= b THEN a ELSE b

(* RegistrationWindows.contains *)
Contains(t) == \E w \in Windows : w.start <= t /\ t < w.end

(* RegistrationWindows.interval_for: the floor of the tier of t *)
IntervalFor(t) == IF Contains(t) THEN InWindowInterval ELSE OutsideInterval

(* RegistrationWindows.next_window_start_after: the first opening strictly
   after t as a singleton, or {} where the code returns None *)
FirstOpeningAfter(t) ==
  LET openings == {w.start : w \in {v \in Windows : v.start > t}}
  IN  {s \in openings : \A r \in openings : s <= r}

Jittered(interval, jitter) == (interval * jitter) \div 100

Powers == <<1, 2, 4, 8, 16, 32, 64, 128, 256, 512, 1024>>

(* backoff_seconds: doubles from InWindowInterval, at most ten times *)
Backoff(failures) ==
  LET doubled == InWindowInterval * Powers[1 + (IF failures > 10 THEN 10 ELSE failures)]
  IN  IF doubled < MaxBackoff THEN doubled ELSE MaxBackoff

(* The pause after a sweep that started at prev: the jittered interval of its
   tier, and after failures at least the backoff *)
Pause(prev, jitter, failures) ==
  LET interval == Jittered(IntervalFor(prev), jitter)
  IN  IF failures > 0 THEN Later(interval, Backoff(failures)) ELSE interval

(* Fault: the hourly interval is waited out inside a window too *)
FlooredAlways(target, prev, jitter) ==
  Later(target, prev + Jittered(OutsideInterval, jitter))

(* A target outside every window also waits out the hourly interval *)
Floored(target, prev, jitter) ==
  IF Contains(target)
  THEN target
  ELSE Later(target, prev + Jittered(OutsideInterval, jitter))

(* Fault: a window that opens in between does not pull the target back *)
NextStartWithoutPullBack(prev, now, jitter, failures) ==
  Floored(Later(prev + Pause(prev, jitter, failures), now), prev, jitter)

(* Fault: the pull-back goes to the opening however close prev is to it *)
NextStartAtOpening(prev, now, jitter, failures) ==
  LET target == Floored(Later(prev + Pause(prev, jitter, failures), now), prev, jitter)
      early  == {s \in FirstOpeningAfter(prev) : s < target}
  IN  IF early = {} THEN target ELSE Later(CHOOSE s \in early : TRUE, now)

(* RegistrationWindows.next_start.  A window that opens between prev and the
   target pulls the target back to its opening, or to InWindowInterval after
   prev, or to now, whichever is last *)
NextStart(prev, now, jitter, failures) ==
  LET paced  == Later(prev + Pause(prev, jitter, failures), now)
      target == Floored(paced, prev, jitter)
      early  == {s \in FirstOpeningAfter(prev) : s < target}
  IN  IF early = {}
      THEN target
      ELSE Later(Later(CHOOSE s \in early : TRUE, prev + InWindowInterval), now)

(* earliest_next_start of cli.py: no jitter, and the previous start as now *)
EarliestNextStart(lastStart) == NextStart(lastStart, lastStart, 100, 0)

(* RegistrationWindows.seat_thresholds, the fresh limit: 1.25 times the larger of
   the cadences at the verification and now *)
FreshWithin(verified, now) ==
  (5 * Later(IntervalFor(verified), IntervalFor(now))) \div 4
=============================================================================
