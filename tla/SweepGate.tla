----------------------------- MODULE SweepGate -----------------------------
(***************************************************************************)
(* The size gate of src/easy_a/sync/gate.py: the rules a page must satisfy *)
(* before a sweep may write.  Fractions are whole percentages.             *)
(***************************************************************************)
EXTENDS Integers, FiniteSets

CONSTANTS
  MaxMissing,   \* percent of the active sections a page may miss (10)
  MinRows,      \* percent of the last success's rows a page must have (90)
  MaxAbsent,    \* percent of the active subjects a page may miss (2)
  MinAbsent     \* absent subjects that are always allowed (2)

ASSUME GateAssumption ==
  /\ MaxMissing \in 0..100 /\ MinRows \in 0..100 /\ MaxAbsent \in 0..100
  /\ MinAbsent \in Nat

(* An override above MaxMissing loosens every rule. *)
ASSUME OverrideAssumption == MinRows >= 100 - MaxMissing /\ MaxAbsent <= MaxMissing

NoOverride == -1
NoSuccess == -1
Overrides == 0..100 \cup {NoOverride}

Larger(a, b) == IF a >= b THEN a ELSE b

(* GateThresholds with its defaults *)
DefaultThresholds ==
  [missing |-> MaxMissing, rows |-> MinRows, absent |-> MaxAbsent]

(* Fault: the override leaves the row floor where it is *)
GateThresholdsFixedFloor(override) ==
  IF override = NoOverride
  THEN DefaultThresholds
  ELSE [DefaultThresholds EXCEPT !.missing = override]

(* gate_thresholds: the operator's one fraction mapped onto every size rule *)
GateThresholds(override) ==
  CASE override = NoOverride -> DefaultThresholds
    [] override \in 0..MaxMissing ->
         [DefaultThresholds EXCEPT !.missing = override]
    [] OTHER ->
         [missing |-> override, rows |-> 100 - override, absent |-> override]

(* evaluate_gate, one operator per rule.  in is a GateInput:
   rows         in-scope rows of the page
   active       active in-scope sections of the database
   missing      those the page does not list
   lastSuccess  rows of the last succeeded sweep, or NoSuccess
   dbSubjects   subjects with an active section
   subjects     subjects of the page *)

(* Fault: one missing section is always let pass *)
MissingAllowedButOne(in, t) ==
  in.active > 0 /\ in.missing > 1 => 100 * in.missing <= t.missing * in.active

MissingAllowed(in, t) == in.active > 0 => 100 * in.missing <= t.missing * in.active

EnoughRows(in, t) ==
  in.lastSuccess # NoSuccess => 100 * in.rows >= t.rows * in.lastSuccess

SubjectsPresent(in, t) ==
  LET known == Cardinality(in.dbSubjects)
  IN  Cardinality(in.dbSubjects \ in.subjects)
        <= Larger(MinAbsent, (t.absent * known) \div 100)

GatePasses(in, override) ==
  LET t == GateThresholds(override)
  IN  /\ in.rows > 0
      /\ MissingAllowed(in, t)
      /\ EnoughRows(in, t)
      /\ SubjectsPresent(in, t)

---------------------------------------------------------------------------
(* Properties *)

(* A larger override never refuses a page a smaller one accepts, and none above
   MaxMissing refuses a page that passes without one: raising the fraction can
   only loosen the gate, across the jump where it starts to move the row floor
   and the subject limit. *)
LooserGateAccepts(in, override) ==
  \A other \in 0..100 :
    /\ override <= other
    /\ override = NoOverride => other >= MaxMissing
    /\ GatePasses(in, override)
    => GatePasses(in, other)

(* The smallest whole percentage not below a fraction *)
PercentUp(part, whole) == (100 * part + whole - 1) \div whole

(* Step 5 of the gate refusal runbook: at least the missing fraction and at
   least the rows' shortfall, rounded up to two decimals *)
ChosenOverride(in) ==
  Larger(IF in.active > 0 THEN PercentUp(in.missing, in.active) ELSE 0,
         IF in.lastSuccess > in.rows
         THEN PercentUp(in.lastSuccess - in.rows, in.lastSuccess) ELSE 0)

(* The runbook's recipe works: for a page the size rules refuse, the override
   it tells the operator to choose clears both of them at once, whichever of
   the two refused. *)
ChosenOverrideClears(in) ==
  LET refused == DefaultThresholds
      chosen == GateThresholds(ChosenOverride(in))
  IN  ~(MissingAllowed(in, refused) /\ EnoughRows(in, refused))
        => MissingAllowed(in, chosen) /\ EnoughRows(in, chosen)
=============================================================================
