---------------------------- MODULE CourseAdder ----------------------------
(***************************************************************************)
(* The auto-add of courses that a sweep lists and the catalog lacks        *)
(* (src/easy_a/sync/courses.py), over the sweeps of one worker process.    *)
(* The upserts belong to the sweep's transaction; the negative cache       *)
(* belongs to the process.  Time is counted down: to the next request, to  *)
(* the next sweep and to the end of each course's time in the cache.       *)
(***************************************************************************)
EXTENDS Integers, FiniteSets

CONSTANTS
  Courses,     \* course keys, as numbers in their sorted order
  MaxPerSweep, \* requests per sweep (10)
  Pace,        \* between two requests of a sweep (2 seconds)
  RetryAfter,  \* time a failed course is left alone (6 hours)
  Gap,         \* between two sweeps (the cadence)
  MaxAborts,   \* bound: sweeps that fail with courses to add
  MaxRestarts, \* bound: restarts of the process
  MaxListings  \* bound: changes of the new courses USF lists

ASSUME AdderAssumption ==
  /\ Courses \subseteq Nat /\ IsFiniteSet(Courses)
  /\ MaxPerSweep \in Nat \ {0} /\ RetryAfter \in Nat \ {0}
  /\ Pace \in Nat /\ Gap \in Nat
  /\ MaxAborts \in Nat /\ MaxRestarts \in Nat /\ MaxListings \in Nat

VARIABLES
  listed,   \* course keys of the page in scope
  catalog,  \* committed course rows
  added,    \* rows added by the transaction in progress
  failed,   \* _failed_at, as the time left until now - failed_at >= retry_after
  phase,    \* "idle" between sweeps, "adding" in add_missing
  queue,    \* keys add_missing has not decided yet
  attempts, \* its requests so far
  wait,     \* time until the next request, or until the next sweep
  asked,    \* history: the course requested last in this sweep, or NoCourse
  sinceAsk, \* history: for each course the time since its latest failed request
  spent     \* how often each bounded event has happened

adderVars == <<listed, catalog, added, failed, phase, queue, attempts, wait,
               asked, sinceAsk, spent>>

NoCourse == -1

AdderBound == [abort |-> MaxAborts, crash |-> MaxRestarts, listing |-> MaxListings]
Spend(kind) == /\ spent[kind] < AdderBound[kind]
               /\ spent' = [spent EXCEPT ![kind] = @ + 1]

AdderTypeOK ==
  /\ listed \subseteq Courses /\ catalog \subseteq Courses
  /\ added \subseteq Courses /\ queue \subseteq Courses
  /\ failed \in [Courses -> 0..RetryAfter]
  /\ sinceAsk \in [Courses -> 0..RetryAfter]
  /\ phase \in {"idle", "adding"}
  /\ attempts \in 0..MaxPerSweep
  /\ wait \in Nat
  /\ asked \in Courses \cup {NoCourse}
  /\ spent \in [DOMAIN AdderBound -> Nat]

AdderInit ==
  /\ listed \in SUBSET Courses
  /\ catalog = {} /\ added = {}
  /\ failed = [c \in Courses |-> 0]
  /\ phase = "idle"
  /\ queue = {} /\ attempts = 0 /\ wait = 0
  /\ asked = NoCourse
  /\ sinceAsk = [c \in Courses |-> RetryAfter]
  /\ spent = [kind \in DOMAIN AdderBound |-> 0]

First(key) == key \in queue /\ \A other \in queue : key <= other

(* Fault: no cap *)
NextToAskUncapped(key) == First(key) /\ failed[key] = 0

(* The next key is to be requested *)
NextToAsk(key) == First(key) /\ failed[key] = 0 /\ attempts < MaxPerSweep

(* new_course_keys, and the call of add_missing *)
BeginAdding ==
  /\ phase = "idle" /\ wait = 0
  /\ phase' = "adding"
  /\ queue' = listed \ catalog
  /\ attempts' = 0 /\ asked' = NoCourse
  /\ UNCHANGED <<listed, catalog, added, failed, wait, sinceAsk, spent>>

(* Negative-cached: reported without a request *)
SkipFailed(key) ==
  /\ phase = "adding" /\ First(key)
  /\ failed[key] > 0
  /\ queue' = queue \ {key}
  /\ UNCHANGED <<listed, catalog, added, failed, phase, attempts, wait, asked,
                 sinceAsk, spent>>

(* Fault: the cap counts the courses of a sweep that came before, asked or not *)
DeferByRank(key) ==
  /\ phase = "adding" /\ First(key)
  /\ failed[key] = 0
  /\ Cardinality({c \in listed \ catalog : c < key}) >= MaxPerSweep
  /\ queue' = queue \ {key}
  /\ UNCHANGED <<listed, catalog, added, failed, phase, attempts, wait, asked,
                 sinceAsk, spent>>

(* Over the sweep's cap: left for a later sweep *)
Defer(key) ==
  /\ phase = "adding" /\ First(key)
  /\ failed[key] = 0 /\ attempts >= MaxPerSweep
  /\ queue' = queue \ {key}
  /\ UNCHANGED <<listed, catalog, added, failed, phase, attempts, wait, asked,
                 sinceAsk, spent>>

(* Fault: a failure is not remembered *)
RequestForgetful(key, found) ==
  /\ phase = "adding" /\ wait = 0
  /\ NextToAsk(key)
  /\ queue' = queue \ {key}
  /\ attempts' = attempts + 1
  /\ wait' = Pace
  /\ asked' = key
  /\ IF found
     THEN added' = added \cup {key} /\ UNCHANGED sinceAsk
     ELSE /\ sinceAsk' = [sinceAsk EXCEPT ![key] = 0]
          /\ UNCHANGED added
  /\ UNCHANGED <<listed, catalog, failed, phase, spent>>

(* One paced request.  The page may be missing, broken or about another course *)
Request(key, found) ==
  /\ phase = "adding" /\ wait = 0
  /\ NextToAsk(key)
  /\ queue' = queue \ {key}
  /\ attempts' = attempts + 1
  /\ wait' = Pace
  /\ asked' = key
  /\ IF found
     THEN added' = added \cup {key} /\ UNCHANGED <<failed, sinceAsk>>
     ELSE /\ failed' = [failed EXCEPT ![key] = RetryAfter]
          /\ sinceAsk' = [sinceAsk EXCEPT ![key] = 0]
          /\ UNCHANGED added
  /\ UNCHANGED <<listed, catalog, phase, spent>>

EndSweep ==
  /\ phase' = "idle"
  /\ added' = {} /\ queue' = {}
  /\ attempts' = 0 /\ asked' = NoCourse
  /\ wait' = Gap

(* The plan with the added courses is applied and committed *)
CommitAdded ==
  /\ phase = "adding" /\ queue = {}
  /\ catalog' = catalog \cup added
  /\ EndSweep
  /\ UNCHANGED <<listed, failed, sinceAsk, spent>>

(* The sweep fails: its rows are rolled back, the negative cache stays *)
Abort ==
  /\ phase = "adding"
  /\ Spend("abort")
  /\ EndSweep
  /\ UNCHANGED <<listed, catalog, failed, sinceAsk>>

(* The process is restarted with an empty cache *)
Restart ==
  /\ Spend("crash")
  /\ failed' = [c \in Courses |-> 0]
  /\ EndSweep
  /\ UNCHANGED <<listed, catalog, sinceAsk>>

ListingChanges(keys) ==
  /\ keys # listed
  /\ Spend("listing")
  /\ listed' = keys
  /\ UNCHANGED <<catalog, added, failed, phase, queue, attempts, wait, asked,
                 sinceAsk>>

(* Time passes in the sleeps, before a sweep and before a request *)
Sleeping ==
  /\ wait > 0
  /\ \/ phase = "idle"
     \/ \E key \in queue : NextToAsk(key)

Down(n) == IF n > 0 THEN n - 1 ELSE 0

TimePasses ==
  /\ Sleeping
  /\ wait' = wait - 1
  /\ failed' = [c \in Courses |-> Down(failed[c])]
  /\ sinceAsk' = [c \in Courses |-> IF sinceAsk[c] < RetryAfter
                                    THEN sinceAsk[c] + 1 ELSE RetryAfter]
  /\ UNCHANGED <<listed, catalog, added, phase, queue, attempts, asked, spent>>

Progress ==
  \/ BeginAdding
  \/ \E key \in Courses : SkipFailed(key) \/ Defer(key)
  \/ \E key \in Courses, found \in BOOLEAN : Request(key, found)
  \/ CommitAdded
  \/ TimePasses

AdderNext ==
  \/ Progress
  \/ Abort \/ Restart
  \/ \E keys \in SUBSET Courses : ListingChanges(keys)

(* The worker keeps sweeping *)
AdderSpec == AdderInit /\ [][AdderNext]_adderVars /\ WF_adderVars(Progress)

---------------------------------------------------------------------------
(* Properties *)

(* No crawling: a course the catalog refused is left alone for RetryAfter by
   the process that asked, whatever becomes of the sweeps in between. *)
RefusedIsLeftAlone ==
  [][\A key \in Courses :
       asked' = key /\ asked # key /\ spent.crash = 0
         => sinceAsk[key] = RetryAfter]_adderVars

(* Every course that stays listed gets its turn: it is added in the end, or
   asked for again and again, although each sweep starts over in sorted order
   and stops at its cap. *)
EveryCourseGetsItsTurn ==
  \A key \in Courses :
    <>[](key \in listed) => <>(key \in catalog) \/ []<>(asked = key)
=============================================================================
