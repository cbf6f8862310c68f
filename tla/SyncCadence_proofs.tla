------------------------- MODULE SyncCadence_proofs -------------------------
(***************************************************************************)
(* Theorems about the processes that sweep: SyncCadence for every          *)
(* calendar, every set of processes and every bound on the faults, the     *)
(* planned starts of RegistrationWindows for every calendar, jitter,       *)
(* failure count and clock, and CourseAdder, which lives in the process    *)
(* beside the loop, for every set of courses, cap and pace.                *)
(***************************************************************************)
EXTENDS SyncCadence, CourseAdder, WellFoundedInduction, TLAPS

---------------------------------------------------------------------------
(* What next_start guarantees *)

(* A jitter factor of at least one hundred percent never shortens an interval. *)
LEMMA JitterOnlyLengthens ==
  ASSUME NEW interval \in Nat, NEW jitter \in JitterPercent
  PROVE  /\ Jittered(interval, jitter) \in Nat
         /\ Jittered(interval, jitter) >= interval
<1>1. jitter \in Nat /\ jitter >= 100
  BY JitterAssumption
<1>2. interval * jitter >= interval * 100 /\ interval * jitter \in Nat
  BY <1>1
<1> QED BY <1>2 DEF Jittered

(* Both tiers' floors are between the in-window and the hourly interval. *)
LEMMA IntervalRange ==
  ASSUME NEW t
  PROVE  /\ IntervalFor(t) \in Nat
         /\ IntervalFor(t) >= InWindowInterval
         /\ IntervalFor(t) <= OutsideInterval
BY IntervalsAssumption DEF IntervalFor

LEMMA BackoffType ==
  ASSUME NEW errors \in Nat
  PROVE  Backoff(errors) \in Nat
<1> DEFINE exponent == 1 + (IF errors > 10 THEN 10 ELSE errors)
<1>1. exponent \in 1..11
  OBVIOUS
<1>2. \A k \in 1..11 : Powers[k] \in Nat
  BY DEF Powers
<1>3. Powers[exponent] \in Nat
  BY <1>1, <1>2
<1>4. InWindowInterval * Powers[exponent] \in Nat
  BY <1>3, IntervalsAssumption
<1> QED BY <1>4, IntervalsAssumption DEF Backoff

(* The pause after a sweep is at least the floor of that sweep's tier. *)
LEMMA PauseKeepsInterval ==
  ASSUME NEW prev \in Nat, NEW jitter \in JitterPercent, NEW errors \in Nat
  PROVE  /\ Pause(prev, jitter, errors) \in Nat
         /\ Pause(prev, jitter, errors) >= IntervalFor(prev)
<1>1. IntervalFor(prev) \in Nat
  BY IntervalRange
<1>2. /\ Jittered(IntervalFor(prev), jitter) \in Nat
      /\ Jittered(IntervalFor(prev), jitter) >= IntervalFor(prev)
  BY <1>1, JitterOnlyLengthens
<1> QED BY <1>1, <1>2, BackoffType DEF Pause, Later

(* A floored target is never before its plain one, is at least the in-window
   interval after prev, and is a full hourly interval after it outside every
   window. *)
LEMMA FlooredKeepsFloor ==
  ASSUME NEW aim \in Nat, NEW prev \in Nat, NEW jitter \in JitterPercent,
         aim >= prev + InWindowInterval
  PROVE  LET floored == Floored(aim, prev, jitter)
         IN  /\ floored \in Nat
             /\ floored >= aim
             /\ floored - prev >= IntervalFor(floored)
<1> DEFINE floored == Floored(aim, prev, jitter)
<1>1. /\ Jittered(OutsideInterval, jitter) \in Nat
      /\ Jittered(OutsideInterval, jitter) >= OutsideInterval
  BY JitterOnlyLengthens, IntervalsAssumption
<1>2. CASE Contains(aim)
  <2>1. floored = aim
    BY <1>2 DEF Floored
  <2>2. IntervalFor(floored) = InWindowInterval
    BY <1>2, <2>1 DEF IntervalFor
  <2> QED BY <2>1, <2>2, IntervalsAssumption
<1>3. CASE ~Contains(aim)
  <2>1. floored = Later(aim, prev + Jittered(OutsideInterval, jitter))
    BY <1>3 DEF Floored
  <2>2. floored \in Nat /\ floored >= aim /\ floored - prev >= OutsideInterval
    BY <1>1, <2>1, IntervalsAssumption DEF Later
  <2>3. IntervalFor(floored) \in Nat /\ IntervalFor(floored) <= OutsideInterval
    BY IntervalRange
  <2> QED BY <2>2, <2>3, IntervalsAssumption
<1> QED BY <1>2, <1>3

(* A pulled-back start lies in the window it was pulled back to, or so late
   that it has outlasted that window and with it the hourly interval. *)
LEMMA PullBackKeepsFloor ==
  ASSUME NEW prev \in Nat, NEW clock \in Nat,
         NEW opening \in FirstOpeningAfter(prev)
  PROVE  LET start == Later(Later(opening, prev + InWindowInterval), clock)
         IN  /\ start \in Nat
             /\ start >= clock
             /\ start - prev >= IntervalFor(start)
<1> DEFINE start == Later(Later(opening, prev + InWindowInterval), clock)
<1>1. PICK w \in Windows : w.start = opening /\ w.start > prev
  BY DEF FirstOpeningAfter
<1>2. /\ w.start \in Nat /\ w.end \in Nat
      /\ w.end - w.start >= OutsideInterval
  BY WindowsAssumption
<1>3. /\ start \in Nat
      /\ start >= clock /\ start >= w.start /\ start >= prev + InWindowInterval
  BY <1>1, <1>2, IntervalsAssumption DEF Later
<1>4. CASE Contains(start)
  BY <1>3, <1>4, IntervalsAssumption DEF IntervalFor
<1>5. CASE ~Contains(start)
  <2>1. start >= w.end
    BY <1>2, <1>3, <1>5 DEF Contains
  <2>2. start - prev >= OutsideInterval
    BY <1>1, <1>2, <1>3, <2>1, IntervalsAssumption
  <2>3. IntervalFor(start) = OutsideInterval
    BY <1>5 DEF IntervalFor
  <2> QED BY <1>3, <2>2, <2>3
<1> QED BY <1>4, <1>5

(* The hard floor of windows.py: whatever the calendar, the jitter, the failure
   count and the clock, the next start is not in the past and is apart from
   the previous one by the floor of the tier it falls in. *)
THEOREM NextStartFloor ==
  ASSUME NEW prev \in Nat, NEW clock \in Nat,
         NEW jitter \in JitterPercent, NEW errors \in Nat
  PROVE  LET start == NextStart(prev, clock, jitter, errors)
         IN  /\ start \in Nat
             /\ start >= clock
             /\ start - prev >= IntervalFor(start)
<1> DEFINE paced == Later(prev + Pause(prev, jitter, errors), clock)
           aim == Floored(paced, prev, jitter)
           early == {s \in FirstOpeningAfter(prev) : s < aim}
           start == NextStart(prev, clock, jitter, errors)
<1>1. /\ Pause(prev, jitter, errors) \in Nat
      /\ Pause(prev, jitter, errors) >= InWindowInterval
  BY PauseKeepsInterval, IntervalRange, IntervalsAssumption
<1>2. paced \in Nat /\ paced >= clock /\ paced >= prev + InWindowInterval
  BY <1>1, IntervalsAssumption DEF Later
<1>3. aim \in Nat /\ aim >= paced /\ aim - prev >= IntervalFor(aim)
  <2> HIDE DEF paced
  <2> QED BY <1>2, FlooredKeepsFloor
<1>4. CASE early = {}
  <2>1. start = aim
    BY <1>4 DEF NextStart
  <2> QED BY <1>2, <1>3, <2>1
<1>5. CASE early # {}
  <2> DEFINE opening == CHOOSE s \in early : TRUE
  <2>1. opening \in FirstOpeningAfter(prev)
    BY <1>5
  <2>2. start = Later(Later(opening, prev + InWindowInterval), clock)
    BY <1>5 DEF NextStart
  <2> HIDE DEF opening, start
  <2>3. /\ start \in Nat /\ start >= clock
        /\ start - prev >= IntervalFor(start)
    BY <2>1, <2>2, PullBackKeepsFloor
  <2> QED BY <2>3 DEF start
<1> QED BY <1>4, <1>5

---------------------------------------------------------------------------
(* How far the next start can be *)

LEMMA NatHasLeast ==
  ASSUME NEW S \in SUBSET Nat, S # {}
  PROVE  \E m \in S : \A n \in S : m <= n
<1> DEFINE R == OpToRel(<, Nat)
<1>1. IsWellFoundedOn(R, Nat)
  BY NatLessThanWellFounded
<1>2. \A m, n \in Nat : <<m, n>> \in R <=> m < n
  BY DEF OpToRel
<1> HIDE DEF R
<1>3. PICK m \in S : \A n \in S : ~(<<n, m>> \in R)
  BY <1>1, WFMin
<1>4. \A n \in S : n \in Nat /\ m \in Nat /\ ~(n < m)
  BY <1>2, <1>3
<1> QED BY <1>4

(* A window that opens after prev gives a first opening *)
LEMMA FirstOpeningExists ==
  ASSUME NEW prev \in Nat, NEW window \in Windows, window.start > prev
  PROVE  \E s \in Nat : FirstOpeningAfter(prev) = {s} /\ s <= window.start
<1> DEFINE openings == {w.start : w \in {v \in Windows : v.start > prev}}
<1>1. openings \in SUBSET Nat /\ window.start \in openings
  BY WindowsAssumption
<1> HIDE DEF openings
<1>2. PICK s \in openings : \A r \in openings : s <= r
  BY <1>1, NatHasLeast
<1>3. FirstOpeningAfter(prev) = {t \in openings : \A r \in openings : t <= r}
  BY DEF FirstOpeningAfter, openings
<1>4. \A t \in openings : (\A r \in openings : t <= r) => t = s
  BY <1>1, <1>2
<1>5. FirstOpeningAfter(prev) = {s}
  BY <1>2, <1>3, <1>4
<1> QED BY <1>1, <1>2, <1>5

(* What next_start paces by, before the pull-back *)
PacedStart(prev, clock, jitter, errors) == Later(prev + Pause(prev, jitter, errors), clock)

LEMMA PacedType ==
  ASSUME NEW prev \in Nat, NEW clock \in Nat, NEW jitter \in JitterPercent, NEW errors \in Nat
  PROVE  LET paced == PacedStart(prev, clock, jitter, errors)
             aim == Floored(paced, prev, jitter)
         IN  /\ paced \in Nat /\ paced >= clock /\ paced >= prev + InWindowInterval
             /\ aim \in Nat /\ aim >= paced
<1>1. /\ Pause(prev, jitter, errors) \in Nat
      /\ Pause(prev, jitter, errors) >= InWindowInterval
  BY PauseKeepsInterval, IntervalRange, IntervalsAssumption
<1> DEFINE paced == PacedStart(prev, clock, jitter, errors)
<1>2. paced \in Nat /\ paced >= clock /\ paced >= prev + InWindowInterval
  BY <1>1, IntervalsAssumption DEF Later, PacedStart
<1> HIDE DEF paced
<1>3. Floored(paced, prev, jitter) \in Nat /\ Floored(paced, prev, jitter) >= paced
  BY <1>2, FlooredKeepsFloor
<1> QED BY <1>2, <1>3 DEF paced

(* The pull-back only ever brings the start forward *)
LEMMA StartAtMostFloored ==
  ASSUME NEW prev \in Nat, NEW clock \in Nat, NEW jitter \in JitterPercent, NEW errors \in Nat
  PROVE  NextStart(prev, clock, jitter, errors)
           <= Floored(PacedStart(prev, clock, jitter, errors), prev, jitter)
<1> DEFINE paced == PacedStart(prev, clock, jitter, errors)
<1> DEFINE aim == Floored(paced, prev, jitter)
<1> DEFINE early == {s \in FirstOpeningAfter(prev) : s < aim}
<1> DEFINE opening == CHOOSE s \in early : TRUE
<1>1. /\ paced \in Nat /\ paced >= clock /\ paced >= prev + InWindowInterval
      /\ aim \in Nat /\ aim >= paced
  BY PacedType
<1>2. NextStart(prev, clock, jitter, errors)
        = IF early = {} THEN aim ELSE Later(Later(opening, prev + InWindowInterval), clock)
  BY DEF NextStart, PacedStart
<1>3. CASE early = {}
  BY <1>1, <1>2, <1>3
<1>4. CASE early # {}
  <2>1. opening \in early
    BY <1>4
  <2>2. opening \in Nat
    BY <2>1, WindowsAssumption DEF FirstOpeningAfter
  <2>3. opening < aim
    BY <2>1
  <2>4. NextStart(prev, clock, jitter, errors) = Later(Later(opening, prev + InWindowInterval), clock)
    BY <1>2, <1>4
  <2> HIDE DEF opening, aim, paced, early
  <2>5. Later(Later(opening, prev + InWindowInterval), clock) <= aim
    BY <1>1, <2>2, <2>3, IntervalsAssumption DEF Later
  <2> QED BY <2>4, <2>5 DEF aim, paced
<1> QED BY <1>3, <1>4

(* The start is not held past an opening that comes after prev: neither the hourly
   interval nor a backoff is waited out, only the in-window floor. *)
LEMMA PulledBackToOpening ==
  ASSUME NEW prev \in Nat, NEW clock \in Nat, NEW jitter \in JitterPercent, NEW errors \in Nat,
         NEW window \in Windows, window.start > prev
  PROVE  NextStart(prev, clock, jitter, errors)
           <= Later(Later(window.start, prev + InWindowInterval), clock)
<1> DEFINE paced == PacedStart(prev, clock, jitter, errors)
<1> DEFINE aim == Floored(paced, prev, jitter)
<1> DEFINE early == {s \in FirstOpeningAfter(prev) : s < aim}
<1>1. aim \in Nat
  BY PacedType
<1>2. PICK s \in Nat : FirstOpeningAfter(prev) = {s} /\ s <= window.start
  BY FirstOpeningExists
<1>3. NextStart(prev, clock, jitter, errors)
        = IF early = {} THEN aim
          ELSE Later(Later(CHOOSE r \in early : TRUE, prev + InWindowInterval), clock)
  BY DEF NextStart, PacedStart
<1>4. window.start \in Nat
  BY WindowsAssumption
<1>5. CASE early = {}
  <2>1. aim <= s
    BY <1>1, <1>2, <1>5
  <2>2. NextStart(prev, clock, jitter, errors) = aim
    BY <1>3, <1>5
  <2> HIDE DEF aim
  <2> QED BY <1>1, <1>2, <1>4, <2>1, <2>2, IntervalsAssumption DEF Later
<1>6. CASE early # {}
  <2>1. early = {s}
    BY <1>2, <1>6
  <2>2. (CHOOSE r \in early : TRUE) = s
    BY <2>1
  <2>3. NextStart(prev, clock, jitter, errors) = Later(Later(s, prev + InWindowInterval), clock)
    BY <1>3, <1>6, <2>2
  <2> QED BY <1>2, <1>4, <2>3, IntervalsAssumption DEF Later
<1> QED BY <1>5, <1>6

---------------------------------------------------------------------------
(* Freshness *)

LEMMA JitteredMonotone ==
  ASSUME NEW a \in Nat, NEW b \in Nat, a <= b, NEW jitter \in JitterPercent
  PROVE  Jittered(a, jitter) <= Jittered(b, jitter)
<1>1. jitter \in Nat
  BY JitterAssumption
<1>2. a * jitter \in Nat /\ b * jitter \in Nat /\ a * jitter <= b * jitter
  BY <1>1
<1>3. \A x, y \in Nat : x <= y => x \div 100 <= y \div 100
  OBVIOUS
<1> QED BY <1>2, <1>3 DEF Jittered

(* What the fresh limit leaves over the jittered cadence of either tier covers the slack:
   the time a sweep takes and a sleep is overslept.  For the deployed values the
   in-window cadence leaves 15 seconds (375 less 1.2 times 300). *)
LimitCovers(slack) ==
  \A interval \in {InWindowInterval, OutsideInterval}, jitter \in JitterPercent :
    Jittered(interval, jitter) + slack <= (5 * interval) \div 4

(* Windows are of whole local days: two of them touch or are a day apart *)
GapsAreLong ==
  \A v, w \in Windows :
    v.end <= w.start => v.end = w.start \/ w.start - v.end >= (5 * OutsideInterval) \div 4

LEMMA FreshRange ==
  ASSUME NEW seen, NEW at
  PROVE  /\ FreshWithin(seen, at) \in Nat
         /\ FreshWithin(seen, at) >= InWindowInterval
         /\ FreshWithin(seen, at) = IF Contains(seen) /\ Contains(at)
                                    THEN (5 * InWindowInterval) \div 4
                                    ELSE (5 * OutsideInterval) \div 4
<1>1. Later(IntervalFor(seen), IntervalFor(at))
        = IF Contains(seen) /\ Contains(at) THEN InWindowInterval ELSE OutsideInterval
  BY IntervalsAssumption DEF Later, IntervalFor
<1>2. \A i \in Nat : (5 * i) \div 4 \in Nat /\ (5 * i) \div 4 >= i
  OBVIOUS
<1>3. /\ (5 * InWindowInterval) \div 4 \in Nat /\ (5 * InWindowInterval) \div 4 >= InWindowInterval
      /\ (5 * OutsideInterval) \div 4 \in Nat /\ (5 * OutsideInterval) \div 4 >= OutsideInterval
  BY <1>2, IntervalsAssumption
<1> QED BY <1>1, <1>3, IntervalsAssumption DEF FreshWithin

(* Seats seen by a sweep that started at prev are within the fresh limit until the next
   one is over: from planning at now, through a sleep of any jitter and the slack, into
   whatever tier the clock has come to. *)
LEMMA SeatsStayFresh ==
  ASSUME NEW prev \in Nat, NEW clock \in Nat, NEW jitter \in JitterPercent, NEW slack \in Nat,
         LimitCovers(slack), GapsAreLong, clock - prev <= InWindowInterval,
         NEW seen \in Nat, prev <= seen, seen <= clock,
         NEW at \in Nat, seen <= at, at <= NextStart(prev, clock, jitter, 0) + slack
  PROVE  at - seen <= FreshWithin(seen, at)
<1> DEFINE near == Jittered(InWindowInterval, jitter)
<1> DEFINE far == Jittered(OutsideInterval, jitter)
<1> DEFINE paced == PacedStart(prev, clock, jitter, 0)
<1> DEFINE start == NextStart(prev, clock, jitter, 0)
<1>1. /\ near \in Nat /\ near >= InWindowInterval /\ far \in Nat /\ far >= OutsideInterval
      /\ near <= far
  BY JitterOnlyLengthens, JitteredMonotone, IntervalsAssumption
<1>2. /\ near + slack <= (5 * InWindowInterval) \div 4
      /\ far + slack <= (5 * OutsideInterval) \div 4
  BY DEF LimitCovers
<1>3. paced = IF Contains(prev) THEN prev + near ELSE prev + far
  <2>1. Pause(prev, jitter, 0) = Jittered(IntervalFor(prev), jitter)
    BY DEF Pause
  <2>2. paced = Later(prev + Jittered(IntervalFor(prev), jitter), clock)
    BY <2>1 DEF PacedStart
  <2> HIDE DEF near, far, paced
  <2>3. Jittered(IntervalFor(prev), jitter) = IF Contains(prev) THEN near ELSE far
    BY DEF IntervalFor, near, far
  <2> QED BY <1>1, <2>2, <2>3, IntervalsAssumption DEF Later
<1>4. start \in Nat /\ start <= Floored(paced, prev, jitter)
  <2>1. start \in Nat
    BY NextStartFloor
  <2> QED BY <2>1, StartAtMostFloored
<1>5. Floored(paced, prev, jitter) = IF Contains(paced) THEN paced ELSE Later(paced, prev + far)
  BY DEF Floored
<1> HIDE DEF near, far, paced, start
<1>6. start <= prev + far
  BY <1>1, <1>3, <1>4, <1>5 DEF Later
<1>7. at <= start + slack
  BY DEF start
<1>8. CASE ~(Contains(seen) /\ Contains(at))
  <2>1. FreshWithin(seen, at) = (5 * OutsideInterval) \div 4
    BY <1>8, FreshRange
  <2> QED BY <1>1, <1>2, <1>4, <1>6, <1>7, <2>1, FreshRange, IntervalsAssumption
<1>9. CASE Contains(seen) /\ Contains(at)
  <2>1. FreshWithin(seen, at) = (5 * InWindowInterval) \div 4
    BY <1>9, FreshRange
  <2>2. SUFFICES at - prev <= near + slack
    BY <1>1, <1>2, <2>1, <2>2, FreshRange, IntervalsAssumption
  <2>3. PICK w \in Windows : w.start <= seen /\ seen < w.end
    BY <1>9 DEF Contains
  <2>4. PICK v \in Windows : v.start <= at /\ at < v.end
    BY <1>9 DEF Contains
  <2>5. w.start \in Nat /\ w.end \in Nat /\ v.start \in Nat /\ v.end \in Nat
    BY WindowsAssumption
  <2>6. CASE prev < w.start
    <3>1. start <= Later(Later(w.start, prev + InWindowInterval), clock)
      BY <2>5, <2>6, PulledBackToOpening DEF start
    <3>2. start <= prev + InWindowInterval
      BY <1>4, <2>3, <2>5, <3>1, IntervalsAssumption DEF Later
    <3> QED BY <1>1, <1>4, <1>7, <3>2, IntervalsAssumption
  <2>7. CASE w.start <= prev
    <3>1. Contains(prev) /\ paced = prev + near /\ prev < w.end
      BY <1>3, <2>3, <2>5, <2>7 DEF Contains
    <3>2. CASE start <= paced
      BY <1>1, <1>4, <1>7, <3>1, <3>2
    <3>3. CASE ~(start <= paced)
      <4>1. ~Contains(paced)
        BY <1>1, <1>4, <1>5, <3>1, <3>3
      <4>2. w.end <= paced
        BY <1>1, <2>5, <2>7, <3>1, <4>1 DEF Contains
      <4>3. CASE v = w
        BY <1>1, <2>4, <2>5, <3>1, <4>2, <4>3
      <4>4. CASE v # w
        <5>1. w.end <= v.start
          <6>1. w.end <= v.start \/ v.end <= w.start
            BY <4>4, WindowsAssumption
          <6> QED BY <2>3, <2>4, <2>5, <6>1
        <5>2. CASE w.end = v.start
          <6>1. start <= Later(Later(v.start, prev + InWindowInterval), clock)
            BY <2>5, <3>1, <5>2, PulledBackToOpening DEF start
          <6>2. start <= paced
            BY <1>1, <1>4, <2>5, <3>1, <4>2, <5>2, <6>1, IntervalsAssumption DEF Later
          <6> QED BY <3>3, <6>2
        <5>3. CASE v.start - w.end >= (5 * OutsideInterval) \div 4
          <6>1. at - prev <= far + slack
            BY <1>1, <1>4, <1>6, <1>7
          <6> QED BY <1>1, <1>2, <2>4, <2>5, <3>1, <5>3, <6>1, IntervalsAssumption
        <5> QED BY <5>1, <5>2, <5>3 DEF GapsAreLong
      <4> QED BY <4>3, <4>4
    <3> QED BY <3>2, <3>3
  <2> QED BY <2>5, <2>6, <2>7
<1> QED BY <1>8, <1>9

---------------------------------------------------------------------------
(* The worker and the command line *)

USE DEF None, Free

(* The target a worker plans is an instant, not in the past, that keeps the
   floor of its tier from the start the worker knows of. *)
LEMMA PlannedTarget ==
  ASSUME CadenceTypeOK, NEW w \in Workers, NEW jitter \in JitterPercent,
         PlanNext(w, jitter)
  PROVE  /\ target'[w] \in Nat
         /\ target'[w] >= now
         /\ last[w] # None => target'[w] - last[w] >= IntervalFor(target'[w])
<1>1. now \in Nat /\ last[w] \in Instant /\ failures[w] \in Nat
  BY DEF CadenceTypeOK
<1>2. target'[w] = IF last[w] = None THEN now
                   ELSE NextStart(last[w], now, jitter, failures[w])
  BY DEF PlanNext, CadenceTypeOK
<1>3. CASE last[w] = None
  BY <1>1, <1>2, <1>3
<1>4. CASE last[w] # None
  <2>1. last[w] \in Nat
    BY <1>1, <1>4 DEF Instant
  <2> DEFINE start == NextStart(last[w], now, jitter, failures[w])
  <2>2. start \in Nat /\ start >= now /\ start - last[w] >= IntervalFor(start)
    BY <1>1, <2>1, NextStartFloor
  <2> QED BY <1>2, <1>4, <2>2
<1> QED BY <1>3, <1>4

LEMMA RecordType ==
  ASSUME NEW start \in Instant, recorded \in Instant, Record(start)
  PROVE  recorded' \in Instant
BY DEF Record, Later

LEMMA FaultType ==
  ASSUME NEW kind, faults \in [DOMAIN Bound -> Nat], Fault(kind)
  PROVE  faults' \in [DOMAIN Bound -> Nat]
<1> DEFINE kinds == DOMAIN Bound
<1> HIDE DEF kinds
<1>1. faults \in [kinds -> Nat] /\ faults' = [faults EXCEPT ![kind] = @ + 1]
  BY DEF Fault, kinds
<1>2. CASE kind \in kinds
  <2>1. faults[kind] + 1 \in Nat
    BY <1>1, <1>2
  <2> QED BY <1>1, <2>1 DEF kinds
<1>3. CASE kind \notin kinds
  BY <1>1, <1>3 DEF kinds
<1> QED BY <1>2, <1>3

LEMMA InitType == Init => CadenceTypeOK
<1> SUFFICES ASSUME Init PROVE CadenceTypeOK
  OBVIOUS
<1> USE DEF Init, Instant
<1>1. now \in 0..MaxTime
  BY BoundsAssumption
<1>2. pc \in [Procs -> Asleep \cup Sweeping \cup {"cleared"}]
  BY DEF Asleep
<1>3. \A p \in Procs : started[p] # None <=> pc[p] \in Sweeping
  BY DEF Sweeping, InTransaction
<1>4. faults \in [DOMAIN Bound -> Nat]
  OBVIOUS
<1> QED BY <1>1, <1>2, <1>3, <1>4 DEF CadenceTypeOK

LEMMA NextType == CadenceTypeOK /\ [Next]_cadenceVars => CadenceTypeOK'
<1> SUFFICES ASSUME CadenceTypeOK, [Next]_cadenceVars PROVE CadenceTypeOK'
  OBVIOUS
<1> USE DEF CadenceTypeOK, Sweeping, InTransaction, Asleep
<1>0. now \in Instant
  BY DEF Instant
<1>1. ASSUME NEW w \in Workers, Launch(w) PROVE CadenceTypeOK'
  BY <1>1 DEF Launch, Procs
<1>2. ASSUME NEW w \in Workers, NEW jitter \in JitterPercent, PlanNext(w, jitter)
      PROVE  CadenceTypeOK'
  <2>1. target'[w] \in Instant
    BY <1>2, PlannedTarget DEF Instant
  <2>2. target' \in [Workers -> Instant]
    BY <1>2, <2>1 DEF PlanNext
  <2> QED BY <1>2, <2>2 DEF PlanNext, Procs
<1>3. ASSUME NEW w \in Workers, Exit(w) PROVE CadenceTypeOK'
  BY <1>3 DEF Exit, Procs, Instant
<1>4. ASSUME NEW w \in Workers, Signal(w) PROVE CadenceTypeOK'
  BY <1>4, FaultType DEF Signal
<1>5. ASSUME NEW w \in Workers, Crash(w) PROVE CadenceTypeOK'
  BY <1>5, FaultType DEF Crash, Procs, Instant
<1>6. ASSUME NEW o \in Operators, CheckFloor(o) PROVE CadenceTypeOK'
  BY <1>6 DEF CheckFloor, Procs
<1>7. ASSUME NEW o \in Operators, BeginRestore(o) PROVE CadenceTypeOK'
  BY <1>0, <1>7 DEF BeginRestore, Procs
<1>8. ASSUME NEW o \in Operators, EndRestore(o) PROVE CadenceTypeOK'
  BY <1>8 DEF EndRestore, Procs, Instant
<1>9. ASSUME NEW p \in Procs, BeginSweep(p) PROVE CadenceTypeOK'
  BY <1>0, <1>9 DEF BeginSweep, Due
<1>10. ASSUME NEW p \in Procs, Busy(p) PROVE CadenceTypeOK'
  BY <1>0, <1>10 DEF Busy, Due, AfterSweep
<1>11. ASSUME NEW p \in Procs, Fetch(p) PROVE CadenceTypeOK'
  BY <1>0, <1>11 DEF Fetch
<1>12. ASSUME NEW p \in Procs, Commit(p) PROVE CadenceTypeOK'
  <2>1. recorded' \in Instant
    BY <1>12, RecordType DEF Commit
  <2> QED BY <1>12, <2>1 DEF Commit, Return, AfterSweep, Instant
<1>13. ASSUME NEW p \in Procs, Fail(p) PROVE CadenceTypeOK'
  BY <1>13, FaultType DEF Fail
<1>14. ASSUME NEW p \in Procs, RecordFailure(p) PROVE CadenceTypeOK'
  <2>1. recorded' \in Instant
    BY <1>14, RecordType DEF RecordFailure
  <2> QED BY <1>14, <2>1 DEF RecordFailure, Return, AfterSweep, NextFailures, Instant
<1>15. ASSUME NEW p \in Procs, LoseFailure(p) PROVE CadenceTypeOK'
  BY <1>15, FaultType DEF LoseFailure, Return, AfterSweep, NextFailures, Instant
<1>16. CASE Tick
  BY <1>16, BoundsAssumption DEF Tick
<1>17. CASE UNCHANGED cadenceVars
  BY <1>17 DEF cadenceVars
<1> QED
  BY <1>1, <1>2, <1>3, <1>4, <1>5, <1>6, <1>7, <1>8, <1>9, <1>10, <1>11, <1>12,
     <1>13, <1>14, <1>15, <1>16, <1>17
     DEF Next, WorkerStep, SweepStep, Horizon

(* Every variable of the cadence keeps its type, and a process has a sweep's
   start exactly while it sweeps, restores or records a failure. *)
THEOREM CadenceTypeCorrect == Spec => []CadenceTypeOK
<1> QED BY InitType, NextType, PTL DEF Spec

---------------------------------------------------------------------------
(* SingleFlight is inductive once it is said who holds the lock *)

HolderInTransaction ==
  \A p \in Procs : pc[p] \in InTransaction => lock = p

LEMMA InitHolder == Init => HolderInTransaction
BY DEF Init, HolderInTransaction, InTransaction

LEMMA NextHolder ==
  CadenceTypeOK /\ HolderInTransaction /\ [Next]_cadenceVars
    => HolderInTransaction'
<1> SUFFICES ASSUME CadenceTypeOK, HolderInTransaction, [Next]_cadenceVars
             PROVE  HolderInTransaction'
  OBVIOUS
<1> USE DEF HolderInTransaction, InTransaction
<1>0. pc \in [Procs -> Asleep \cup Sweeping \cup {"cleared"}]
  BY DEF CadenceTypeOK
<1>1. ASSUME NEW w \in Workers, Launch(w) PROVE HolderInTransaction'
  BY <1>0, <1>1 DEF Launch, Procs
<1>2. ASSUME NEW w \in Workers, NEW jitter \in JitterPercent, PlanNext(w, jitter)
      PROVE  HolderInTransaction'
  BY <1>0, <1>2 DEF PlanNext, Procs
<1>3. ASSUME NEW w \in Workers, Exit(w) PROVE HolderInTransaction'
  BY <1>0, <1>3 DEF Exit, Procs
<1>4. ASSUME NEW w \in Workers, Signal(w) PROVE HolderInTransaction'
  BY <1>4 DEF Signal
<1>5. ASSUME NEW w \in Workers, Crash(w) PROVE HolderInTransaction'
  BY <1>0, <1>5 DEF Crash, Procs
<1>6. ASSUME NEW o \in Operators, CheckFloor(o) PROVE HolderInTransaction'
  BY <1>0, <1>6 DEF CheckFloor, Procs
<1>7. ASSUME NEW o \in Operators, BeginRestore(o) PROVE HolderInTransaction'
  BY <1>0, <1>7, ProcsAssumption DEF BeginRestore, Procs
<1>8. ASSUME NEW o \in Operators, EndRestore(o) PROVE HolderInTransaction'
  BY <1>0, <1>8 DEF EndRestore, Procs
<1>9. ASSUME NEW p \in Procs, BeginSweep(p) PROVE HolderInTransaction'
  BY <1>0, <1>9, ProcsAssumption DEF BeginSweep
<1>10. ASSUME NEW p \in Procs, Busy(p) PROVE HolderInTransaction'
  BY <1>0, <1>10 DEF Busy, AfterSweep
<1>11. ASSUME NEW p \in Procs, Fetch(p) PROVE HolderInTransaction'
  BY <1>0, <1>11 DEF Fetch
<1>12. ASSUME NEW p \in Procs, Commit(p) PROVE HolderInTransaction'
  BY <1>0, <1>12 DEF Commit, Return, AfterSweep
<1>13. ASSUME NEW p \in Procs, Fail(p) PROVE HolderInTransaction'
  BY <1>0, <1>13 DEF Fail
<1>14. ASSUME NEW p \in Procs, RecordFailure(p) PROVE HolderInTransaction'
  BY <1>0, <1>14 DEF RecordFailure, Return, AfterSweep
<1>15. ASSUME NEW p \in Procs, LoseFailure(p) PROVE HolderInTransaction'
  BY <1>0, <1>15 DEF LoseFailure, Return, AfterSweep
<1>16. CASE Tick
  BY <1>16 DEF Tick
<1>17. CASE UNCHANGED cadenceVars
  BY <1>17 DEF cadenceVars
<1> QED
  BY <1>1, <1>2, <1>3, <1>4, <1>5, <1>6, <1>7, <1>8, <1>9, <1>10, <1>11, <1>12,
     <1>13, <1>14, <1>15, <1>16, <1>17
     DEF Next, WorkerStep, SweepStep, Horizon

(* The transaction-scoped advisory lock keeps it to one sweep in flight,
   whatever the number of workers and operators, through crashes, failed
   sweeps and restarts. *)
THEOREM OneSweepInFlight == Spec => []SingleFlight
<1>1. HolderInTransaction => SingleFlight
  BY DEF HolderInTransaction, SingleFlight
<1> QED
  BY <1>1, InitHolder, NextHolder, CadenceTypeCorrect, PTL DEF Spec

---------------------------------------------------------------------------
(* The floor each worker plans by *)

(* A waiting worker was planning, or it waited already for the same target *)
LEMMA StillWaiting ==
  ASSUME CadenceTypeOK, [Next]_cadenceVars, NEW w \in Workers, pc'[w] = "waiting",
         ~\E jitter \in JitterPercent : PlanNext(w, jitter)
  PROVE  pc[w] = "waiting" /\ target'[w] = target[w] /\ last'[w] = last[w]
<1>0. /\ pc \in [Procs -> Asleep \cup Sweeping \cup {"cleared"}]
      /\ w \in Procs
  BY DEF CadenceTypeOK, Procs
<1>1. ASSUME NEW v \in Workers, v # w,
             WorkerStep(v) \/ Signal(v) \/ Crash(v)
      PROVE  pc[w] = "waiting" /\ target'[w] = target[w] /\ last'[w] = last[w]
  BY <1>0, <1>1 DEF WorkerStep, Launch, PlanNext, Exit, Signal, Crash,
                    CadenceTypeOK, Procs
<1>2. ASSUME WorkerStep(w) \/ Signal(w) \/ Crash(w)
      PROVE  pc[w] = "waiting" /\ target'[w] = target[w] /\ last'[w] = last[w]
  BY <1>0, <1>2 DEF WorkerStep, Launch, Exit, Signal, Crash
<1>3. ASSUME NEW o \in Operators,
             CheckFloor(o) \/ BeginRestore(o) \/ EndRestore(o)
      PROVE  pc[w] = "waiting" /\ target'[w] = target[w] /\ last'[w] = last[w]
  BY <1>0, <1>3, ProcsAssumption DEF CheckFloor, BeginRestore, EndRestore
<1>4. ASSUME NEW p \in Procs, SweepStep(p)
      PROVE  pc[w] = "waiting" /\ target'[w] = target[w] /\ last'[w] = last[w]
  <2>1. p # w
    BY <1>0, <1>4 DEF SweepStep, BeginSweep, Busy, Fetch, Commit, Fail,
       RecordFailure, LoseFailure, Return, AfterSweep
  <2> QED
    BY <1>0, <1>4, <2>1 DEF SweepStep, BeginSweep, Busy, Fetch, Commit, Fail,
       RecordFailure, LoseFailure, Return, AfterSweep, CadenceTypeOK
<1>5. ASSUME Tick \/ UNCHANGED cadenceVars
      PROVE  pc[w] = "waiting" /\ target'[w] = target[w] /\ last'[w] = last[w]
  BY <1>5 DEF Tick, cadenceVars
<1> QED BY <1>1, <1>2, <1>3, <1>4, <1>5 DEF Next, Horizon

LEMMA NextTarget ==
  CadenceTypeOK /\ TargetKeepsFloor /\ [Next]_cadenceVars => TargetKeepsFloor'
<1> SUFFICES ASSUME CadenceTypeOK, TargetKeepsFloor, [Next]_cadenceVars,
                    NEW w \in Workers, pc'[w] = "waiting", last'[w] # None
             PROVE  target'[w] - last'[w] >= IntervalFor(target'[w])
  BY DEF TargetKeepsFloor, IntervalFor, Contains
<1>1. CASE \E jitter \in JitterPercent : PlanNext(w, jitter)
  BY <1>1, PlannedTarget DEF PlanNext
<1>2. CASE ~\E jitter \in JitterPercent : PlanNext(w, jitter)
  <2>1. pc[w] = "waiting" /\ target'[w] = target[w] /\ last'[w] = last[w]
    BY <1>2, StillWaiting
  <2> QED BY <2>1 DEF TargetKeepsFloor
<1> QED BY <1>1, <1>2

(* No worker ever sleeps towards a start that undercuts the floor of the tier
   it falls in, measured from the latest start it knows of. *)
THEOREM TargetsKeepFloor == Spec => []TargetKeepsFloor
<1>1. Init => TargetKeepsFloor
  BY DEF Init, TargetKeepsFloor, Procs
<1> QED BY <1>1, NextTarget, CadenceTypeCorrect, PTL DEF Spec

---------------------------------------------------------------------------
(* Who knows the latest start *)

SweepStates == {"fetching", "applying", "failing"}

(* Nobody but w has recorded a start since the recorded starts were last read *)
OnlyRecorder(w) ==
  /\ \A o \in SweepOps : pc[o] = "idle"
  /\ \A v \in Workers \ {w} : last[v] = None

(* No sweep starts after the latest one, operators that restore never sweep, and a
   worker that records alone knows of everything on record *)
StartsOrdered ==
  /\ recorded <= prevSweep /\ prevSweep <= now
  /\ \A o \in RestoreOps : pc[o] \in {"idle", "restoring", "done"}
  /\ \A w \in Workers : pc[w] # "cleared"
  /\ \A p \in Procs : pc[p] \in SweepStates => started[p] <= prevSweep
  /\ \A w \in Workers : OnlyRecorder(w) =>
       /\ pc[w] \in {"looping", "waiting"} => recorded <= last[w]
       /\ pc[w] \in SweepStates => recorded <= started[w]

(* Until a process is killed or a record lost, the latest start of the workers is on
   record or its sweep is not over *)
StartsRecorded ==
  (/\ faults["crash"] = 0 /\ faults["lost"] = 0
   /\ \A o \in SweepOps : pc[o] = "idle")
    => \/ recorded = prevSweep
       \/ \E w \in Workers : pc[w] \in SweepStates /\ started[w] = prevSweep

SweepsKnown == StartsOrdered /\ StartsRecorded

LEMMA InitKnown == Init => SweepsKnown
<1> SUFFICES ASSUME Init PROVE SweepsKnown
  OBVIOUS
<1>1. /\ \A w \in Workers : pc[w] = "down"
      /\ \A p \in Procs : pc[p] \in {"down", "idle"}
      /\ \A o \in Operators : pc[o] = "idle"
  BY ProcsAssumption DEF Init, Procs
<1>2. StartsOrdered
  BY <1>1 DEF Init, StartsOrdered, SweepStates, Operators
<1>3. StartsRecorded
  BY DEF Init, StartsRecorded
<1> QED BY <1>2, <1>3 DEF SweepsKnown

(* A step after which no operator has swept found it so, and was none of theirs *)
LEMMA OperatorsStayIdle ==
  ASSUME CadenceTypeOK, [Next]_cadenceVars, \A o \in SweepOps : pc'[o] = "idle"
  PROVE  /\ \A o \in SweepOps : pc[o] = "idle"
         /\ \A o \in SweepOps : ~SweepStep(o)
<1>0. pc \in [Procs -> Asleep \cup Sweeping \cup {"cleared"}] /\ SweepOps \subseteq Procs
  BY DEF CadenceTypeOK, Procs, Operators
<1>1. ASSUME NEW o \in SweepOps, SweepStep(o) PROVE FALSE
  <2>1. pc'[o] # "idle"
    BY <1>0, <1>1, ProcsAssumption DEF SweepStep, BeginSweep, Busy, Fetch, Commit, Fail,
       RecordFailure, LoseFailure, Return, AfterSweep, Operators
  <2> QED BY <2>1
<1>2. ASSUME NEW o \in SweepOps, pc[o] # "idle" PROVE FALSE
  <2>1. \A p \in Procs : SweepStep(p) => p # o
    BY <1>1
  <2>2. \A p \in Procs : SweepStep(p) => pc'[o] = pc[o]
    BY <1>0, <2>1 DEF SweepStep, BeginSweep, Busy, Fetch, Commit, Fail,
       RecordFailure, LoseFailure, Return, AfterSweep
  <2>3. \A w \in Workers : WorkerStep(w) \/ Signal(w) \/ Crash(w) => pc'[o] = pc[o]
    BY <1>0, ProcsAssumption DEF WorkerStep, Launch, PlanNext, Exit, Signal, Crash, Operators
  <2>4. \A q \in Operators : CheckFloor(q) \/ BeginRestore(q) \/ EndRestore(q)
                               => pc'[o] = pc[o] \/ pc'[o] # "idle"
    BY <1>0 DEF CheckFloor, BeginRestore, EndRestore, Procs
  <2>5. Tick \/ UNCHANGED cadenceVars => pc'[o] = pc[o]
    BY DEF Tick, cadenceVars
  <2> QED BY <1>2, <2>2, <2>3, <2>4, <2>5 DEF Next, Horizon
<1> QED BY <1>1, <1>2

LEMMA NextOrdered ==
  CadenceTypeOK /\ StartsOrdered /\ [Next]_cadenceVars => StartsOrdered'
<1> SUFFICES ASSUME CadenceTypeOK, StartsOrdered, [Next]_cadenceVars
             PROVE  StartsOrdered'
  OBVIOUS
<1> USE DEF StartsOrdered, OnlyRecorder, SweepStates
<1>a. /\ pc \in [Procs -> Asleep \cup Sweeping \cup {"cleared"}]
      /\ now \in Nat /\ recorded \in Instant /\ prevSweep \in Instant
      /\ last \in [Workers -> Instant] /\ started \in [Procs -> Instant]
  BY BoundsAssumption DEF CadenceTypeOK
<1>b. /\ Workers \subseteq Procs /\ Operators \subseteq Procs
      /\ Workers \cap Operators = {} /\ SweepOps \subseteq Operators
  BY ProcsAssumption DEF Procs, Operators
<1>c. ASSUME UNCHANGED <<now, recorded, prevSweep, last>>,
             \A w \in Workers : pc'[w] \in {pc[w], "down"},
             \A o \in RestoreOps : pc'[o] \in {pc[o], "restoring", "done"},
             \A p \in Procs : pc'[p] \in SweepStates => pc'[p] = pc[p] /\ started'[p] = started[p]
      PROVE  StartsOrdered'
  <2>1. ASSUME NEW w \in Workers, OnlyRecorder(w)' PROVE OnlyRecorder(w)
    BY <1>c, <2>1, OperatorsStayIdle
  <2> QED BY <1>a, <1>b, <1>c, <2>1
<1>1. ASSUME NEW v \in Workers, Launch(v) PROVE StartsOrdered'
  <2>1. ASSUME NEW w \in Workers, OnlyRecorder(w)', pc'[w] \in {"looping", "waiting"}
        PROVE  recorded <= last'[w]
    BY <1>a, <1>b, <1>1, <2>1 DEF Launch, Instant
  <2>2. ASSUME NEW w \in Workers, OnlyRecorder(w)', pc'[w] \in SweepStates
        PROVE  recorded <= started[w]
    BY <1>a, <1>b, <1>1, <2>2 DEF Launch, Instant
  <2> QED BY <1>a, <1>b, <1>1, <2>1, <2>2 DEF Launch
<1>2. ASSUME NEW v \in Workers, NEW jitter \in JitterPercent, PlanNext(v, jitter)
      PROVE  StartsOrdered'
  BY <1>a, <1>b, <1>2 DEF PlanNext
<1>3. ASSUME NEW v \in Workers, Exit(v) \/ Signal(v) \/ Crash(v) PROVE StartsOrdered'
  <2>1. UNCHANGED <<now, recorded, prevSweep, last>>
    BY <1>3 DEF Exit, Signal, Crash
  <2>2. \A p \in Procs : p # v => pc'[p] = pc[p] /\ started'[p] = started[p]
    BY <1>a, <1>b, <1>3 DEF Exit, Signal, Crash
  <2>3. pc'[v] = "down" \/ (pc'[v] = pc[v] /\ started'[v] = started[v])
    BY <1>a, <1>b, <1>3 DEF Exit, Signal, Crash
  <2>4. v \notin RestoreOps
    BY <1>b DEF Operators
  <2> QED BY <1>b, <2>1, <2>2, <2>3, <2>4, <1>c DEF Operators
<1>5. ASSUME NEW o \in Operators, CheckFloor(o) \/ BeginRestore(o) \/ EndRestore(o)
      PROVE  StartsOrdered'
  <2>1. UNCHANGED <<now, recorded, prevSweep, last>>
    BY <1>5 DEF CheckFloor, BeginRestore, EndRestore
  <2>2. \A p \in Procs : p # o => pc'[p] = pc[p] /\ started'[p] = started[p]
    BY <1>a, <1>b, <1>5 DEF CheckFloor, BeginRestore, EndRestore
  <2>3. pc'[o] \in {"restoring", "done"} \/ (o \in SweepOps /\ pc'[o] = "cleared")
    BY <1>a, <1>b, <1>5 DEF CheckFloor, BeginRestore, EndRestore
  <2>4. RestoreOps \cap SweepOps = {} /\ o \notin Workers
    BY <1>b, ProcsAssumption
  <2> QED BY <1>b, <2>1, <2>2, <2>3, <2>4, <1>c DEF Operators
<1>6. ASSUME NEW p \in Procs, SweepStep(p) PROVE StartsOrdered'
  <2>1. ASSUME NEW w \in Workers, OnlyRecorder(w)'
        PROVE  p \in Workers /\ (\A o \in SweepOps : pc[o] = "idle")
    BY <1>a, <1>b, <1>6, <2>1, OperatorsStayIdle
       DEF SweepStep, BeginSweep, Busy, Fetch, Commit, Fail, RecordFailure, LoseFailure,
           Due, Procs, Operators
  <2>3. pc[p] \in SweepStates => started[p] \in Nat
    BY DEF CadenceTypeOK, Instant, Sweeping, InTransaction
  <2>4. CASE BeginSweep(p)
    BY <1>a, <1>b, <2>1, <2>4 DEF BeginSweep, Due, Instant
  <2>5. CASE Busy(p)
    BY <1>a, <1>b, <2>1, <2>5 DEF Busy, Due, AfterSweep, Instant
  <2>6. CASE Fetch(p) \/ Fail(p)
    <3>1. UNCHANGED <<now, recorded, prevSweep, last, started>>
      BY <2>6 DEF Fetch, Fail
    <3>2. pc[p] \in SweepStates /\ pc'[p] \in {"applying", "failing"}
      BY <1>a, <2>6 DEF Fetch, Fail
    <3>3. \A q \in Procs : q # p => pc'[q] = pc[q]
      BY <1>a, <2>6 DEF Fetch, Fail
    <3>4. p \notin RestoreOps
      BY <3>2
    <3>5. \A q \in Procs : pc'[q] \in SweepStates => pc[q] \in SweepStates
      BY <3>2, <3>3
    <3>6. ASSUME NEW w \in Workers, OnlyRecorder(w)'
          PROVE  /\ pc'[w] \in {"looping", "waiting"} => recorded' <= last'[w]
                 /\ pc'[w] \in SweepStates => recorded' <= started'[w]
      <4>1. OnlyRecorder(w)
        BY <2>1, <3>1, <3>6
      <4>2. pc'[w] \in {"looping", "waiting"} => pc[w] \in {"looping", "waiting"}
        BY <1>b, <3>2, <3>3
      <4> QED BY <1>b, <3>1, <3>5, <4>1, <4>2
    <3>7. /\ \A o \in RestoreOps : pc'[o] \in {"idle", "restoring", "done"}
          /\ \A w \in Workers : pc'[w] # "cleared"
      BY <1>b, <3>2, <3>3, <3>4 DEF Operators
    <3> QED BY <3>1, <3>5, <3>6, <3>7
  <2>7. CASE Commit(p)
    BY <1>a, <1>b, <2>1, <2>3, <2>7 DEF Commit, Return, AfterSweep, Record, Later, Instant
  <2>8. CASE RecordFailure(p)
    BY <1>a, <1>b, <2>1, <2>3, <2>8
       DEF RecordFailure, Return, AfterSweep, Record, Later, Instant
  <2>9. CASE LoseFailure(p)
    BY <1>a, <1>b, <2>1, <2>3, <2>9 DEF LoseFailure, Return, AfterSweep, Instant
  <2> QED BY <1>6, <2>4, <2>5, <2>6, <2>7, <2>8, <2>9 DEF SweepStep
<1>7. CASE Tick
  BY <1>a, <1>7 DEF Tick, Instant
<1>8. CASE UNCHANGED cadenceVars
  BY <1>8 DEF cadenceVars
<1> QED
  BY <1>b, <1>1, <1>2, <1>3, <1>5, <1>6, <1>7, <1>8 DEF Next, WorkerStep, Horizon

LEMMA NextRecorded ==
  CadenceTypeOK /\ SweepsKnown /\ [Next]_cadenceVars => StartsRecorded'
<1> SUFFICES ASSUME CadenceTypeOK, SweepsKnown, [Next]_cadenceVars,
                    faults'["crash"] = 0, faults'["lost"] = 0,
                    \A o \in SweepOps : pc'[o] = "idle"
             PROVE  \/ recorded' = prevSweep'
                    \/ \E w \in Workers : pc'[w] \in SweepStates /\ started'[w] = prevSweep'
  BY DEF StartsRecorded
<1>a. /\ pc \in [Procs -> Asleep \cup Sweeping \cup {"cleared"}]
      /\ now \in Nat /\ recorded \in Instant /\ prevSweep \in Instant
      /\ started \in [Procs -> Instant] /\ faults \in [DOMAIN Bound -> Nat]
  BY BoundsAssumption DEF CadenceTypeOK
<1>b. /\ Workers \subseteq Procs /\ Operators \subseteq Procs
      /\ Workers \cap Operators = {} /\ SweepOps \subseteq Operators
  BY ProcsAssumption DEF Procs, Operators
<1>c. {"crash", "lost"} \subseteq DOMAIN Bound
  BY DEF Bound
<1>d. ASSUME NEW kind \in {"crash", "lost"}, Fault(kind) PROVE FALSE
  BY <1>a, <1>c, <1>d DEF Fault
<1>e. faults["crash"] = 0 /\ faults["lost"] = 0
  <2>1. ASSUME NEW kind \in {"fail", "stop"}, Fault(kind)
        PROVE  faults["crash"] = faults'["crash"] /\ faults["lost"] = faults'["lost"]
    BY <1>a, <1>c, <2>1 DEF Fault
  <2>2. UNCHANGED faults \/ \E kind \in {"fail", "stop", "crash", "lost"} : Fault(kind)
    BY DEF Next, WorkerStep, SweepStep, Launch, PlanNext, Exit, Signal, Crash, CheckFloor,
           BeginRestore, EndRestore, BeginSweep, Busy, Fetch, Commit, Fail, RecordFailure,
           LoseFailure, Tick, Horizon, cadenceVars
  <2> QED BY <1>d, <2>1, <2>2
<1>f. /\ \A o \in SweepOps : pc[o] = "idle" /\ ~SweepStep(o)
      /\ \/ recorded = prevSweep
         \/ \E w \in Workers : pc[w] \in SweepStates /\ started[w] = prevSweep
  BY <1>e, OperatorsStayIdle DEF SweepsKnown, StartsRecorded
<1> USE DEF SweepStates
<1>1. ASSUME NEW v \in Workers, WorkerStep(v) \/ Signal(v)
      PROVE  UNCHANGED <<recorded, prevSweep, started>> /\ \A w \in Workers :
               pc[w] \in SweepStates => pc'[w] = pc[w]
  BY <1>a, <1>b, <1>1 DEF WorkerStep, Launch, PlanNext, Exit, Signal
<1>2. ASSUME NEW v \in Workers, Crash(v) PROVE FALSE
  BY <1>d, <1>2 DEF Crash
<1>3. ASSUME NEW o \in Operators, CheckFloor(o) \/ BeginRestore(o) \/ EndRestore(o)
      PROVE  UNCHANGED <<recorded, prevSweep>> /\ \A w \in Workers :
               pc'[w] = pc[w] /\ started'[w] = started[w]
  BY <1>a, <1>b, <1>3 DEF CheckFloor, BeginRestore, EndRestore
<1>4. ASSUME NEW p \in Procs, SweepStep(p)
      PROVE  \/ recorded' = prevSweep'
             \/ \E w \in Workers : pc'[w] \in SweepStates /\ started'[w] = prevSweep'
  <2>1. p \in Workers
    BY <1>f, <1>4 DEF Procs, Operators, SweepsKnown, StartsOrdered, SweepStep, BeginSweep,
           Busy, Fetch, Commit, Fail, RecordFailure, LoseFailure, Due
  <2>2. p \notin DryOps
    BY <1>b, <2>1 DEF SweepOps
  <2>3. recorded <= prevSweep /\ (pc[p] \in SweepStates => started[p] <= prevSweep)
    BY <1>b, <2>1 DEF SweepsKnown, StartsOrdered
  <2>4. pc[p] \in SweepStates => started[p] \in Nat
    BY DEF CadenceTypeOK, Instant, Sweeping, InTransaction
  <2>5. CASE BeginSweep(p)
    BY <1>a, <1>b, <2>1, <2>5 DEF BeginSweep
  <2>6. CASE Busy(p)
    BY <1>a, <1>b, <1>f, <2>1, <2>6 DEF Busy, Due
  <2>7. CASE Fetch(p) \/ Fail(p)
    BY <1>a, <1>b, <1>f, <2>1, <2>7 DEF Fetch, Fail
  <2>8. CASE Commit(p) \/ RecordFailure(p)
    <3>1. /\ recorded' = Later(recorded, started[p])
          /\ prevSweep' = prevSweep /\ pc[p] \in SweepStates
          /\ \A w \in Workers \ {p} : pc'[w] = pc[w] /\ started'[w] = started[w]
      BY <1>a, <1>b, <2>2, <2>8 DEF Commit, RecordFailure, Return, Record
    <3>2. CASE recorded = prevSweep \/ started[p] = prevSweep
      BY <1>a, <2>3, <2>4, <3>1, <3>2 DEF Later, Instant
    <3>3. CASE recorded # prevSweep /\ started[p] # prevSweep
      BY <1>f, <3>1, <3>3
    <3> QED BY <3>2, <3>3
  <2>9. ~LoseFailure(p)
    BY <1>d DEF LoseFailure
  <2> QED BY <1>4, <2>5, <2>6, <2>7, <2>8, <2>9 DEF SweepStep
<1>5. CASE Tick
  BY <1>f, <1>5 DEF Tick
<1>6. CASE UNCHANGED cadenceVars
  BY <1>f, <1>6 DEF cadenceVars
<1> QED
  BY <1>f, <1>1, <1>2, <1>3, <1>4, <1>5, <1>6 DEF Next, Horizon

(* The hard rule of windows.py: a worker that serves a term alone, is stopped and
   restarted at will, fails, wakes late and meets operators restoring sections, never
   sends USF two sweeps closer than the floor of the tier it planned the later one in,
   unless a kill or a lost record has made it forget the earlier one. *)
THEOREM LoneWorkerKeepsFloor == Spec => FloorBetweenSweeps
<1> DEFINE Floor == \A w \in Workers :
                      (/\ pc[w] # "fetching" /\ pc'[w] = "fetching" /\ prevSweep # None
                       /\ Alone(w) /\ ~Forgotten(w))
                        => now - prevSweep >= IntervalFor(target[w])
<1>1. CadenceTypeOK /\ SweepsKnown /\ TargetKeepsFloor /\ [Next]_cadenceVars
        => [Floor]_cadenceVars
  <2> SUFFICES ASSUME CadenceTypeOK, SweepsKnown, TargetKeepsFloor, Next,
                      NEW w \in Workers, pc[w] # "fetching", pc'[w] = "fetching",
                      prevSweep # None, Alone(w), ~Forgotten(w)
               PROVE  now - prevSweep >= IntervalFor(target[w])
    OBVIOUS
  <2>1. /\ pc \in [Procs -> Asleep \cup Sweeping \cup {"cleared"}]
        /\ now \in Nat /\ prevSweep \in Nat /\ recorded \in Instant
        /\ last \in [Workers -> Instant] /\ target \in [Workers -> Instant]
        /\ faults["crash"] \in Nat /\ faults["lost"] \in Nat /\ w \in Procs
    BY BoundsAssumption DEF CadenceTypeOK, Instant, Bound, Procs
  <2>2. BeginSweep(w)
    <3>1. ASSUME NEW v \in Workers, WorkerStep(v) \/ Signal(v) \/ Crash(v)
          PROVE  FALSE
      BY <2>1, <3>1 DEF WorkerStep, Launch, PlanNext, Exit, Signal, Crash, Procs
    <3>2. ASSUME NEW o \in Operators,
                 CheckFloor(o) \/ BeginRestore(o) \/ EndRestore(o)
          PROVE  FALSE
      BY <2>1, <3>2 DEF CheckFloor, BeginRestore, EndRestore, Procs
    <3>3. ASSUME NEW q \in Procs, SweepStep(q), ~BeginSweep(q)
          PROVE  FALSE
      BY <2>1, <3>3 DEF SweepStep, Busy, Fetch, Commit, Fail, RecordFailure,
                        LoseFailure, Return, AfterSweep
    <3>4. ASSUME NEW q \in Procs, BeginSweep(q)
          PROVE  q = w
      BY <2>1, <3>4 DEF BeginSweep
    <3>5. ~Tick /\ ~Horizon
      BY DEF Tick, Horizon, cadenceVars
    <3> QED BY <3>1, <3>2, <3>3, <3>4, <3>5 DEF Next, SweepStep
  <2>3. pc[w] = "waiting" /\ now >= target[w]
    BY <2>2 DEF BeginSweep, Due, SweepsKnown, StartsOrdered
  <2>4. prevSweep <= Later(recorded, last[w])
    <3>1. CASE faults["crash"] + faults["lost"] > 0
      BY <2>1, <3>1 DEF Forgotten, Later, Instant
    <3>2. CASE ~(faults["crash"] + faults["lost"] > 0)
      <4>1. recorded = prevSweep
        BY <2>1, <2>3, <3>2 DEF Alone, SweepsKnown, StartsRecorded, SweepStates
      <4> QED BY <2>1, <4>1 DEF Later, Instant
    <3> QED BY <3>1, <3>2
  <2>5. recorded <= last[w]
    BY <2>3 DEF Alone, OnlyRecorder, SweepsKnown, StartsOrdered
  <2>6. last[w] \in Nat /\ prevSweep <= last[w]
    BY <2>1, <2>4, <2>5 DEF Later, Instant
  <2>7. target[w] - last[w] >= IntervalFor(target[w]) /\ target[w] \in Nat \cup {None}
    BY <2>1, <2>3, <2>6 DEF TargetKeepsFloor, Instant
  <2>8. IntervalFor(target[w]) \in Nat
    BY IntervalRange
  <2> QED BY <2>1, <2>3, <2>6, <2>7, <2>8
<1>2. CadenceTypeOK /\ SweepsKnown /\ [Next]_cadenceVars => SweepsKnown'
  BY NextOrdered, NextRecorded DEF SweepsKnown
<1> QED
  BY <1>1, <1>2, InitKnown, CadenceTypeCorrect, TargetsKeepFloor, PTL
     DEF Spec, FloorBetweenSweeps

---------------------------------------------------------------------------
(* A window's opening *)

(* A target planned before an opening is due when the in-window floor after that opening
   is over, or it is due at once *)
PullsBack ==
  \A w \in Workers, window \in Windows :
    pc[w] = "waiting" /\ last[w] # None /\ last[w] < window.start
      => target[w] <= window.start + InWindowInterval \/ target[w] <= now

LEMMA PlanPullsBack ==
  ASSUME CadenceTypeOK, NEW w \in Workers, NEW jitter \in JitterPercent, PlanNext(w, jitter),
         NEW window \in Windows, last[w] # None, last[w] < window.start
  PROVE  target'[w] <= window.start + InWindowInterval \/ target'[w] <= now
<1>1. now \in Nat /\ last[w] \in Nat /\ failures[w] \in Nat
  BY DEF CadenceTypeOK, Instant
<1> DEFINE start == NextStart(last[w], now, jitter, failures[w])
<1>2. target'[w] = start
  BY DEF PlanNext, CadenceTypeOK
<1>3. start \in Nat /\ start <= Later(Later(window.start, last[w] + InWindowInterval), now)
  BY <1>1, NextStartFloor, PulledBackToOpening
<1>4. window.start \in Nat
  BY WindowsAssumption
<1> HIDE DEF start
<1> QED BY <1>1, <1>2, <1>3, <1>4, IntervalsAssumption DEF Later

LEMMA TimeAdvances ==
  ASSUME CadenceTypeOK, [Next]_cadenceVars
  PROVE  now \in Nat /\ now' \in Nat /\ now' \in {now, now + 1}
<1>1. now \in Nat
  BY DEF CadenceTypeOK
<1>2. now' \in {now, now + 1}
  BY DEF Next, WorkerStep, SweepStep, Launch, PlanNext, Exit, Signal, Crash, CheckFloor,
     BeginRestore, EndRestore, BeginSweep, Busy, Fetch, Commit, Fail, RecordFailure, LoseFailure,
     Tick, Horizon, cadenceVars
<1> QED BY <1>1, <1>2

LEMMA NextPullsBack ==
  CadenceTypeOK /\ PullsBack /\ [Next]_cadenceVars => PullsBack'
<1> SUFFICES ASSUME CadenceTypeOK, PullsBack, [Next]_cadenceVars,
                    NEW w \in Workers, NEW window \in Windows,
                    pc'[w] = "waiting", last'[w] # None, last'[w] < window.start
             PROVE  target'[w] <= window.start + InWindowInterval \/ target'[w] <= now'
  BY DEF PullsBack
<1>0. now \in Nat /\ now' \in Nat /\ now <= now' /\ target[w] \in Instant
  BY TimeAdvances DEF CadenceTypeOK
<1>1. ASSUME NEW jitter \in JitterPercent, PlanNext(w, jitter)
      PROVE  target'[w] <= window.start + InWindowInterval \/ target'[w] <= now'
  <2>1. last'[w] = last[w] /\ now' = now
    BY <1>1 DEF PlanNext
  <2> QED BY <1>1, <2>1, PlanPullsBack
<1>2. CASE ~\E jitter \in JitterPercent : PlanNext(w, jitter)
  <2>1. pc[w] = "waiting" /\ target'[w] = target[w] /\ last'[w] = last[w]
    BY <1>2, StillWaiting
  <2> QED BY <1>0, <2>1 DEF PullsBack, Instant
<1> QED BY <1>1, <1>2

(* A window's opening is swept at once, whatever failed before it: no worker that has
   slept past an opening is held by the hourly interval or by a failure backoff. *)
THEOREM OpeningsAreSwept == Spec => []OpeningIsSwept
<1>1. Init => PullsBack
  BY DEF Init, PullsBack, Procs
<1>2. CadenceTypeOK /\ PullsBack => OpeningIsSwept
  <2> SUFFICES ASSUME CadenceTypeOK, PullsBack, NEW w \in Workers, NEW window \in Windows,
                      pc[w] = "waiting", last[w] # None, last[w] < window.start,
                      now > window.start + Later(InWindowInterval, MaxSweep)
               PROVE  target[w] <= now
    BY DEF OpeningIsSwept
  <2>1. target[w] <= window.start + InWindowInterval \/ target[w] <= now
    BY DEF PullsBack
  <2>2. /\ now \in Nat /\ target[w] \in Instant /\ window.start \in Nat
        /\ InWindowInterval \in Nat /\ MaxSweep \in Nat
    BY WindowsAssumption, IntervalsAssumption, BoundsAssumption DEF CadenceTypeOK
  <2> QED BY <2>1, <2>2 DEF Later, Instant
<1> QED BY <1>1, <1>2, NextPullsBack, CadenceTypeCorrect, PTL DEF Spec

---------------------------------------------------------------------------
(* Freshness of the seats while nothing fails *)

(* What is verified stays within the fresh limit until a sweep planned for the given
   start is over *)
Covered(start) ==
  \A at \in Nat :
    verified <= at /\ at <= start + MaxLateness + MaxSweep
      => at - verified <= FreshWithin(verified, at)

HealthyShape(w) ==
  /\ pc[w] \in {"down", "looping", "waiting", "fetching", "applying"}
  /\ failures[w] = 0
  /\ stop = {}
  /\ lock # Free => pc[w] \in {"fetching", "applying"}
  /\ pc[w] = "down" => recorded = None /\ verified = None

(* A worker between two sweeps is early enough for the next one *)
HealthyPace(w) ==
  /\ pc[w] = "looping" /\ verified # None =>
       last[w] # None /\ last[w] <= verified /\ verified <= now /\ now <= last[w] + MaxSweep
  /\ pc[w] = "waiting" => now <= target[w] + MaxLateness
  /\ pc[w] \in {"fetching", "applying"} =>
       /\ started[w] <= now /\ now <= started[w] + MaxSweep
       /\ started[w] <= target[w] + MaxLateness
  /\ pc[w] = "applying" => fetchedAt[w] # None /\ started[w] <= fetchedAt[w] /\ fetchedAt[w] <= now
  /\ pc[w] \in {"waiting", "fetching", "applying"} /\ verified # None =>
       verified <= now /\ Covered(target[w])

FreshPacing == Healthy => \A w \in Workers : HealthyShape(w) /\ HealthyPace(w)

(* One worker, whose sweeps and lateness fit in the slack of the fresh limit *)
FitsTheLimit ==
  /\ \E worker : Workers = {worker}
  /\ LimitCovers(MaxLateness + MaxSweep) /\ MaxSweep <= InWindowInterval
  /\ GapsAreLong

LEMMA InitFresh == Init => FreshPacing
BY DEF Init, FreshPacing, HealthyShape, HealthyPace, Procs

(* Whatever made a run unhealthy stays *)
LEMMA HealthyBefore ==
  ASSUME CadenceTypeOK, [Next]_cadenceVars, Healthy'
  PROVE  Healthy
<1> DEFINE kinds == {"fail", "crash", "lost", "stop"}
<1>1. DOMAIN Bound = kinds
  BY DEF Bound
<1>2. faults \in [kinds -> Nat] /\ \A kind \in kinds : faults'[kind] = 0
  BY <1>1 DEF CadenceTypeOK, Healthy
<1>3. ASSUME NEW kind \in kinds PROVE ~Fault(kind)
  BY <1>2, <1>3 DEF Fault
<1>4. UNCHANGED faults
  BY <1>3 DEF Next, WorkerStep, SweepStep, Launch, PlanNext, Exit, Signal, Crash, CheckFloor,
     BeginRestore, EndRestore, BeginSweep, Busy, Fetch, Commit, Fail, RecordFailure, LoseFailure,
     Tick, Horizon, cadenceVars
<1>5. ASSUME NEW o \in Operators PROVE pc[o] = "idle"
  <2>1. pc'[o] = "idle" /\ o \in Procs /\ o \notin Workers
    BY ProcsAssumption DEF Healthy, Procs
  <2>2. pc \in [Procs -> Asleep \cup Sweeping \cup {"cleared"}]
    BY DEF CadenceTypeOK
  <2> QED BY <2>1, <2>2 DEF Next, WorkerStep, SweepStep, Launch, PlanNext, Exit, Signal, Crash,
     CheckFloor, BeginRestore, EndRestore, BeginSweep, Busy, Fetch, Commit, Fail, RecordFailure,
     LoseFailure, Return, AfterSweep, Procs, Tick, Horizon, cadenceVars
<1> QED BY <1>1, <1>2, <1>4, <1>5 DEF Healthy

(* The steps of a healthy run *)
LEMMA HealthySteps ==
  ASSUME CadenceTypeOK, [Next]_cadenceVars, Healthy, Healthy', NEW worker, Workers = {worker},
         HealthyShape(worker)
  PROVE  \/ Launch(worker)
         \/ \E jitter \in JitterPercent : PlanNext(worker, jitter)
         \/ BeginSweep(worker) \/ Fetch(worker) \/ Commit(worker)
         \/ Tick \/ UNCHANGED cadenceVars
<1> DEFINE kinds == {"fail", "crash", "lost", "stop"}
<1>1. DOMAIN Bound = kinds
  BY DEF Bound
<1>2. faults \in [kinds -> Nat] /\ \A kind \in kinds : faults'[kind] = 0
  BY <1>1 DEF CadenceTypeOK, Healthy
<1>3. ASSUME NEW kind \in kinds PROVE ~Fault(kind)
  BY <1>2, <1>3 DEF Fault
<1>4. pc \in [Procs -> Asleep \cup Sweeping \cup {"cleared"}]
  BY DEF CadenceTypeOK
<1>5. \A o \in Operators : pc[o] = "idle" /\ pc'[o] = "idle" /\ o \in Procs
  BY DEF Healthy, Procs
<1>6. ASSUME NEW o \in Operators
      PROVE  ~CheckFloor(o) /\ ~BeginRestore(o) /\ ~EndRestore(o) /\ ~SweepStep(o)
  <2>1. ~CheckFloor(o) /\ ~BeginRestore(o)
    BY <1>4, <1>5 DEF CheckFloor, BeginRestore
  <2>2. ~EndRestore(o) /\ ~SweepStep(o)
    BY <1>5 DEF EndRestore, SweepStep, BeginSweep, Busy, Due, Fetch, Commit, Fail, RecordFailure,
       LoseFailure
  <2> QED BY <2>1, <2>2
<1>7. /\ ~Signal(worker) /\ ~Crash(worker) /\ ~Fail(worker) /\ ~LoseFailure(worker)
  BY <1>3 DEF Signal, Crash, Fail, LoseFailure
<1>8. ~Exit(worker) /\ ~RecordFailure(worker) /\ ~Busy(worker)
  BY DEF HealthyShape, Exit, RecordFailure, Busy, Due
<1> QED BY <1>6, <1>7, <1>8 DEF Next, WorkerStep, SweepStep, Procs, Horizon

LEMMA NextFresh ==
  ASSUME FitsTheLimit, CadenceTypeOK, FreshPacing, [Next]_cadenceVars
  PROVE  FreshPacing'
<1> SUFFICES ASSUME Healthy', NEW w \in Workers PROVE HealthyShape(w)' /\ HealthyPace(w)'
  BY DEF FreshPacing
<1>1. Healthy /\ HealthyShape(w) /\ HealthyPace(w) /\ Workers = {w} /\ w \in Procs
  BY HealthyBefore DEF FreshPacing, FitsTheLimit, Procs
<1>2. /\ pc \in [Procs -> Asleep \cup Sweeping \cup {"cleared"}]
      /\ now \in Nat /\ recorded \in Instant /\ verified \in Instant
      /\ last \in [Workers -> Instant] /\ target \in [Workers -> Instant]
      /\ failures \in [Workers -> Nat]
      /\ started \in [Procs -> Instant] /\ fetchedAt \in [Procs -> Instant]
      /\ MaxSweep \in Nat /\ MaxLateness \in Nat
      /\ started[w] # None <=> pc[w] \in Sweeping
  BY <1>1, BoundsAssumption DEF CadenceTypeOK
<1>3. CASE Launch(w)
  <2>1. HealthyShape(w)'
    BY <1>1, <1>2, <1>3 DEF Launch, HealthyShape
  <2>2. HealthyPace(w)'
    BY <1>1, <1>2, <1>3 DEF Launch, HealthyShape, HealthyPace
  <2> QED BY <2>1, <2>2
<1>4. ASSUME NEW jitter \in JitterPercent, PlanNext(w, jitter)
      PROVE  HealthyShape(w)' /\ HealthyPace(w)'
  <2>1. /\ target'[w] \in Nat /\ target'[w] >= now
        /\ pc[w] = "looping" /\ pc'[w] = "waiting"
        /\ UNCHANGED <<now, recorded, lock, last, failures, started, fetchedAt, stop, verified>>
    BY <1>1, <1>2, <1>4, PlannedTarget DEF PlanNext
  <2>2. HealthyShape(w)'
    BY <1>1, <2>1 DEF HealthyShape
  <2>3. ASSUME verified # None PROVE verified <= now /\ Covered(target'[w])
    <3>1. /\ last[w] \in Nat /\ verified \in Nat /\ last[w] <= verified /\ verified <= now
          /\ now <= last[w] + MaxSweep /\ failures[w] = 0
      BY <1>1, <1>2, <2>1, <2>3 DEF HealthyPace, HealthyShape, Instant
    <3>2. target'[w] = NextStart(last[w], now, jitter, 0)
      BY <1>2, <1>4, <3>1 DEF PlanNext
    <3> DEFINE slack == MaxLateness + MaxSweep
    <3>3. slack \in Nat /\ LimitCovers(slack) /\ GapsAreLong /\ now - last[w] <= InWindowInterval
      BY <1>2, <3>1, IntervalsAssumption DEF FitsTheLimit
    <3>4. ASSUME NEW at \in Nat, verified <= at, at <= target'[w] + MaxLateness + MaxSweep
          PROVE  at - verified <= FreshWithin(verified, at)
      <4>1. at <= NextStart(last[w], now, jitter, 0) + slack
        BY <1>2, <2>1, <3>2, <3>4
      <4> HIDE DEF slack
      <4> QED BY <1>2, <3>1, <3>3, <3>4, <4>1, SeatsStayFresh
    <3> QED BY <3>1, <3>4 DEF Covered
  <2>4. HealthyPace(w)'
    <3>1. now' <= target'[w] + MaxLateness
      BY <1>2, <2>1
    <3>2. verified # None => (verified <= now /\ Covered(target[w]))'
      BY <2>1, <2>3 DEF Covered
    <3> QED BY <2>1, <3>1, <3>2 DEF HealthyPace
  <2> QED BY <2>2, <2>4
<1>5. CASE BeginSweep(w)
  <2>1. /\ pc[w] = "waiting" /\ pc'[w] = "fetching" /\ started'[w] = now
        /\ UNCHANGED <<now, recorded, last, failures, target, fetchedAt, stop, verified>>
    BY <1>1, <1>2, <1>5 DEF BeginSweep, Due, HealthyShape
  <2>2. HealthyShape(w)'
    BY <1>1, <2>1 DEF HealthyShape
  <2>3. HealthyPace(w)'
    BY <1>1, <1>2, <2>1 DEF HealthyPace, Covered
  <2> QED BY <2>2, <2>3
<1>6. CASE Fetch(w)
  <2>1. /\ pc[w] = "fetching" /\ pc'[w] = "applying" /\ fetchedAt'[w] = now
        /\ UNCHANGED <<now, recorded, lock, last, failures, target, started, stop, verified>>
    BY <1>1, <1>2, <1>6 DEF Fetch
  <2>2. HealthyShape(w)'
    BY <1>1, <2>1 DEF HealthyShape
  <2>3. HealthyPace(w)'
    BY <1>1, <1>2, <2>1 DEF HealthyPace, Covered
  <2> QED BY <2>2, <2>3
<1>7. CASE Commit(w)
  <2>1. w \notin DryOps
    BY <1>1, ProcsAssumption DEF Operators, SweepOps
  <2>2. /\ pc[w] = "applying" /\ pc'[w] = "looping" /\ lock' = Free
        /\ verified' = fetchedAt[w] /\ last'[w] = started[w] /\ failures'[w] = 0
        /\ UNCHANGED <<now, target, stop>>
    BY <1>1, <1>2, <1>7, <2>1 DEF Commit, Return, AfterSweep
  <2>3. HealthyShape(w)'
    BY <1>1, <2>2 DEF HealthyShape
  <2>4. started[w] # None
    BY <1>2, <2>2 DEF Sweeping, InTransaction
  <2>5. HealthyPace(w)'
    BY <1>1, <1>2, <2>2, <2>4 DEF HealthyPace
  <2> QED BY <2>3, <2>5
<1>8. CASE Tick
  <2>1. /\ now' = now + 1 /\ MayWait(w)
        /\ UNCHANGED <<recorded, lock, pc, last, failures, target, started, fetchedAt, stop, verified>>
    BY <1>1, <1>8 DEF Tick
  <2>2. HealthyShape(w)'
    BY <1>1, <2>1 DEF HealthyShape
  <2>3. pc[w] # "looping"
    BY <2>1, SMT DEF MayWait, InTransaction
  <2>4. ASSUME pc[w] = "waiting" PROVE now < target[w] + MaxLateness
    BY <2>1, <2>4, Zenon DEF MayWait, InTransaction
  <2>5. pc[w] \in {"fetching", "applying"} => now < started[w] + MaxSweep
    BY <2>1, Zenon DEF MayWait, InTransaction
  <2>6. HealthyPace(w)'
    <3>1. pc[w] = "waiting" => now' <= target[w] + MaxLateness
      BY <1>2, <2>1, <2>4 DEF Instant
    <3>2. pc[w] \in {"fetching", "applying"} => started[w] <= now' /\ now' <= started[w] + MaxSweep
      BY <1>1, <1>2, <2>1, <2>5 DEF Instant, HealthyPace
    <3>3. pc[w] = "applying" => fetchedAt[w] <= now'
      BY <1>1, <1>2, <2>1 DEF Instant, HealthyPace
    <3>4. verified <= now => verified <= now'
      BY <1>2, <2>1 DEF Instant
    <3>5. Covered(target[w])' <=> Covered(target[w])
      BY <2>1 DEF Covered
    <3> QED BY <1>1, <2>1, <2>3, <3>1, <3>2, <3>3, <3>4, <3>5 DEF HealthyPace
  <2> QED BY <2>2, <2>6
<1>9. CASE UNCHANGED cadenceVars
  BY <1>1, <1>9 DEF cadenceVars, HealthyShape, HealthyPace, Covered
<1> QED BY <1>1, <1>3, <1>4, <1>5, <1>6, <1>7, <1>8, <1>9, HealthySteps

(* While nothing fails, the seats the API serves never age past the fresh limit it reports,
   for every calendar of whole days, every jitter, and across openings and closings, if
   one worker's sweep and lateness fit in what that limit leaves over the jitter. *)
THEOREM SeatsAreFreshWhileHealthy ==
  ASSUME FitsTheLimit
  PROVE  Spec => []FreshWhileHealthy
<1>1. CadenceTypeOK /\ FreshPacing => FreshWhileHealthy
  <2> SUFFICES ASSUME CadenceTypeOK, FreshPacing, Healthy, verified # None
               PROVE  now - verified <= FreshWithin(verified, now)
    BY DEF FreshWhileHealthy
  <2>1. PICK w \in Workers : HealthyShape(w) /\ HealthyPace(w) /\ w \in Procs
    BY DEF FreshPacing, FitsTheLimit, Procs
  <2>2. /\ now \in Nat /\ verified \in Nat /\ last[w] \in Instant /\ target[w] \in Instant
        /\ started[w] \in Instant /\ MaxSweep \in Nat /\ MaxLateness \in Nat
    BY <2>1, BoundsAssumption DEF CadenceTypeOK, Instant
  <2>3. CASE pc[w] = "looping"
    <3>1. last[w] <= verified /\ verified <= now /\ now <= last[w] + MaxSweep
      BY <2>1, <2>3 DEF HealthyPace
    <3>2. /\ FreshWithin(verified, now) \in Nat /\ FreshWithin(verified, now) >= InWindowInterval
          /\ MaxSweep <= InWindowInterval
      BY FreshRange DEF FitsTheLimit
    <3> QED BY <2>2, <3>1, <3>2, IntervalsAssumption DEF Instant
  <2>4. CASE pc[w] = "waiting"
    <3>1. now <= target[w] + MaxLateness /\ verified <= now /\ Covered(target[w])
      BY <2>1, <2>4 DEF HealthyPace
    <3>2. now <= target[w] + MaxLateness + MaxSweep
      BY <2>2, <3>1 DEF Instant
    <3> QED BY <2>2, <3>1, <3>2 DEF Covered
  <2>5. CASE pc[w] \in {"fetching", "applying"}
    <3>1. /\ now <= started[w] + MaxSweep /\ started[w] <= target[w] + MaxLateness
          /\ verified <= now /\ Covered(target[w])
      BY <2>1, <2>5 DEF HealthyPace
    <3>2. now <= target[w] + MaxLateness + MaxSweep
      BY <2>2, <3>1 DEF Instant
    <3> QED BY <2>2, <3>1, <3>2 DEF Covered
  <2> QED BY <2>1, <2>3, <2>4, <2>5 DEF HealthyShape
<1>2. CadenceTypeOK /\ FreshPacing /\ [Next]_cadenceVars => FreshPacing'
  BY NextFresh
<1> QED BY <1>1, <1>2, InitFresh, CadenceTypeCorrect, PTL DEF Spec

---------------------------------------------------------------------------
(* The course adder of the worker's process, for any courses, cap, pace and retry time *)

LEMMA AdderInitType == AdderInit => AdderTypeOK
<1> SUFFICES ASSUME AdderInit PROVE AdderTypeOK
  OBVIOUS
<1>1. 0 \in 0..RetryAfter /\ RetryAfter \in 0..RetryAfter /\ 0 \in 0..MaxPerSweep
  BY AdderAssumption
<1> QED BY <1>1 DEF AdderInit, AdderTypeOK

LEMMA EndSweepType ==
  ASSUME AdderTypeOK, EndSweep
  PROVE  /\ added' \subseteq Courses /\ queue' \subseteq Courses
         /\ phase' \in {"idle", "adding"} /\ attempts' \in 0..MaxPerSweep
         /\ wait' \in Nat /\ asked' \in Courses \cup {NoCourse}
BY AdderAssumption DEF AdderTypeOK, EndSweep

LEMMA SpendType ==
  ASSUME AdderTypeOK, NEW kind \in DOMAIN AdderBound, Spend(kind)
  PROVE  spent' \in [DOMAIN AdderBound -> Nat]
BY DEF AdderTypeOK, Spend

LEMMA AdderNextType == AdderTypeOK /\ [AdderNext]_adderVars => AdderTypeOK'
<1> SUFFICES ASSUME AdderTypeOK, [AdderNext]_adderVars PROVE AdderTypeOK'
  OBVIOUS
<1>a. DOMAIN AdderBound = {"abort", "crash", "listing"}
  BY DEF AdderBound
<1>1. CASE BeginAdding
  BY <1>1, AdderAssumption DEF BeginAdding, AdderTypeOK
<1>2. ASSUME NEW key \in Courses, SkipFailed(key) \/ Defer(key) PROVE AdderTypeOK'
  BY <1>2 DEF SkipFailed, Defer, AdderTypeOK
<1>3. ASSUME NEW key \in Courses, NEW found \in BOOLEAN, Request(key, found)
      PROVE  AdderTypeOK'
  <2>1. attempts' \in 0..MaxPerSweep /\ wait' \in Nat
    BY <1>3, AdderAssumption DEF Request, NextToAsk, AdderTypeOK
  <2>2. 0 \in 0..RetryAfter /\ RetryAfter \in 0..RetryAfter
    BY AdderAssumption
  <2>3. /\ failed' \in [Courses -> 0..RetryAfter]
        /\ sinceAsk' \in [Courses -> 0..RetryAfter]
        /\ added' \subseteq Courses
    BY <1>3, <2>2 DEF Request, AdderTypeOK
  <2> QED BY <1>3, <2>1, <2>3 DEF Request, AdderTypeOK
<1>4. CASE CommitAdded
  BY <1>4, EndSweepType DEF CommitAdded, AdderTypeOK
<1>5. CASE Abort
  <2>1. spent' \in [DOMAIN AdderBound -> Nat]
    BY <1>5, <1>a, SpendType DEF Abort
  <2> QED BY <1>5, <2>1, EndSweepType DEF Abort, AdderTypeOK
<1>6. CASE Restart
  <2>1. spent' \in [DOMAIN AdderBound -> Nat]
    BY <1>6, <1>a, SpendType DEF Restart
  <2>2. failed' \in [Courses -> 0..RetryAfter]
    BY <1>6, AdderAssumption DEF Restart
  <2> QED BY <1>6, <2>1, <2>2, EndSweepType DEF Restart, AdderTypeOK
<1>7. ASSUME NEW keys \in SUBSET Courses, ListingChanges(keys) PROVE AdderTypeOK'
  <2>1. spent' \in [DOMAIN AdderBound -> Nat]
    BY <1>7, <1>a, SpendType DEF ListingChanges
  <2> QED BY <1>7, <2>1 DEF ListingChanges, AdderTypeOK
<1>8. CASE TimePasses
  <2>1. \A n \in 0..RetryAfter : Down(n) \in 0..RetryAfter
    BY AdderAssumption DEF Down
  <2>2. /\ failed' \in [Courses -> 0..RetryAfter]
        /\ sinceAsk' \in [Courses -> 0..RetryAfter]
    BY <1>8, <2>1, AdderAssumption DEF TimePasses, AdderTypeOK
  <2> QED BY <1>8, <2>2 DEF TimePasses, Sleeping, AdderTypeOK
<1>9. CASE UNCHANGED adderVars
  BY <1>9 DEF adderVars, AdderTypeOK
<1> QED BY <1>1, <1>2, <1>3, <1>4, <1>5, <1>6, <1>7, <1>8, <1>9
        DEF AdderNext, Progress

(* Every variable keeps its type; in particular a sweep never sends more than
   MaxPerSweep requests, however many new courses a page lists. *)
THEOREM AdderTypeCorrect == AdderSpec => []AdderTypeOK
BY AdderInitType, AdderNextType, PTL DEF AdderSpec

---------------------------------------------------------------------------
(* The negative cache remembers exactly the latest refusals, until the process
   is restarted *)
CacheCountsDown ==
  spent.crash = 0 => \A key \in Courses : failed[key] = RetryAfter - sinceAsk[key]

LEMMA InitCountsDown == AdderInit => CacheCountsDown
BY AdderAssumption DEF AdderInit, CacheCountsDown

LEMMA NextCountsDown ==
  AdderTypeOK /\ CacheCountsDown /\ [AdderNext]_adderVars => CacheCountsDown'
<1> SUFFICES ASSUME AdderTypeOK, CacheCountsDown, [AdderNext]_adderVars
             PROVE  CacheCountsDown'
  OBVIOUS
<1>a. /\ failed \in [Courses -> 0..RetryAfter] /\ sinceAsk \in [Courses -> 0..RetryAfter]
      /\ spent \in [{"abort", "crash", "listing"} -> Nat] /\ RetryAfter \in Nat
  BY AdderAssumption DEF AdderTypeOK, AdderBound
<1>1. CASE BeginAdding \/ CommitAdded \/ UNCHANGED adderVars
  BY <1>1 DEF BeginAdding, CommitAdded, adderVars, CacheCountsDown
<1>2. ASSUME NEW key \in Courses, SkipFailed(key) \/ Defer(key)
      PROVE  CacheCountsDown'
  BY <1>2 DEF SkipFailed, Defer, CacheCountsDown
<1>3. ASSUME NEW key \in Courses, NEW found \in BOOLEAN, Request(key, found)
      PROVE  CacheCountsDown'
  BY <1>3, <1>a DEF Request, NextToAsk, CacheCountsDown
<1>4. CASE Abort \/ \E keys \in SUBSET Courses : ListingChanges(keys)
  BY <1>4, <1>a DEF Abort, ListingChanges, Spend, CacheCountsDown
<1>5. CASE Restart
  <2>1. spent'.crash = spent.crash + 1 /\ spent.crash \in Nat
    BY <1>5, <1>a DEF Restart, Spend
  <2> QED BY <2>1 DEF CacheCountsDown
<1>6. CASE TimePasses
  BY <1>6, <1>a DEF TimePasses, Down, CacheCountsDown
<1> QED BY <1>1, <1>2, <1>3, <1>4, <1>5, <1>6 DEF AdderNext, Progress

LEMMA StepLeavesAlone ==
  AdderTypeOK /\ CacheCountsDown /\ [AdderNext]_adderVars
    => [\A key \in Courses :
          asked' = key /\ asked # key /\ spent.crash = 0
            => sinceAsk[key] = RetryAfter]_adderVars
<1> SUFFICES ASSUME AdderTypeOK, CacheCountsDown, AdderNext, NEW key \in Courses,
                    asked' = key, asked # key, spent.crash = 0
             PROVE  sinceAsk[key] = RetryAfter
  OBVIOUS
<1>1. PICK other \in Courses, found \in BOOLEAN : Request(other, found)
  BY AdderAssumption
     DEF AdderNext, Progress, BeginAdding, SkipFailed, Defer, CommitAdded, TimePasses, Abort,
         Restart, EndSweep, ListingChanges, NoCourse
<1>2. failed[key] = 0
  BY <1>1 DEF Request, NextToAsk
<1> QED BY <1>2, AdderAssumption DEF CacheCountsDown, AdderTypeOK

(* No crawling: over any run of sweeps, committed or failed, a process leaves a
   course the catalog refused alone for RetryAfter. *)
THEOREM RefusedLeftAlone == AdderSpec => RefusedIsLeftAlone
<1>1. AdderInit => AdderTypeOK /\ CacheCountsDown
  BY AdderInitType, InitCountsDown
<1>2. AdderTypeOK /\ CacheCountsDown /\ [AdderNext]_adderVars
        => (AdderTypeOK /\ CacheCountsDown)'
  BY AdderNextType, NextCountsDown
<1> QED BY <1>1, <1>2, StepLeavesAlone, PTL DEF AdderSpec, RefusedIsLeftAlone
=============================================================================
