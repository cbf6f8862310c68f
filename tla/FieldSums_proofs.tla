-------------------------- MODULE FieldSums_proofs --------------------------
(***************************************************************************)
(* What FieldSum computes, for every finite set of rows.  FieldSum is a    *)
(* fold; it is reasoned about through a set of subsets that contains the   *)
(* empty one and every one whose proper subsets it contains.               *)
(***************************************************************************)
EXTENDS FieldSums, FiniteSetTheorems, WellFoundedInduction, TLAPS

---------------------------------------------------------------------------
(* Least elements and induction over finite sets *)

LEMMA NatHasLeast ==
  ASSUME NEW S \in SUBSET Nat, S # {}
  PROVE  \E m \in S : \A n \in S : m <= n
<1> DEFINE R == OpToRel(<, Nat)
<1>1. IsWellFoundedOn(R, Nat)
  BY NatLessThanWellFounded
<1>2. \A m, n \in Nat : <<m, n>> \in R <=> m < n
  BY DEF OpToRel
<1> HIDE DEF R
<1>3. PICK m \in S : \A n \in S : ~(<<n, m>> \in R)
  BY <1>1, WFMin
<1>4. \A n \in S : n \in Nat /\ m \in Nat /\ ~(n < m)
  BY <1>2, <1>3
<1> QED BY <1>4

(* A set of subsets that contains each subset whose proper subsets it contains has
   them all *)
LEMMA SubsetInduction ==
  ASSUME NEW S, IsFiniteSet(S), NEW Good \in SUBSET (SUBSET S),
         \A T \in SUBSET S : (\A U \in SUBSET T : U # T => U \in Good) => T \in Good
  PROVE  \A T \in SUBSET S : T \in Good
<1> SUFFICES ASSUME NEW bad \in SUBSET S, bad \notin Good PROVE FALSE
  OBVIOUS
<1> DEFINE Bad == (SUBSET S) \ Good
           sizes == {Cardinality(T) : T \in Bad}
<1>1. \A T \in SUBSET S : IsFiniteSet(T) /\ Cardinality(T) \in Nat
  BY FS_Subset, FS_CardinalityType
<1>2. sizes \in SUBSET Nat /\ sizes # {}
  BY <1>1
<1>3. PICK least \in sizes : \A n \in sizes : least <= n
  BY <1>2, NatHasLeast
<1>4. PICK T \in Bad : Cardinality(T) = least
  BY <1>3
<1>5. ASSUME NEW U \in SUBSET T, U # T
      PROVE  U \in Good
  <2>1. Cardinality(U) < Cardinality(T)
    BY <1>1, <1>4, <1>5, FS_Subset
  <2>2. Cardinality(U) \in Nat /\ Cardinality(T) \in Nat
    BY <1>1, <1>4
  <2>3. U \in Bad => Cardinality(T) <= Cardinality(U)
    BY <1>3, <1>4
  <2> QED BY <2>1, <2>2, <2>3
<1>6. T \in Good
  BY <1>4, <1>5
<1> QED BY <1>4, <1>6

---------------------------------------------------------------------------
(* The recursion behind a sum *)

First(s) == CHOOSE x \in s : TRUE

IsPartial(g, rows, S, field) ==
  g = [s \in SUBSET S |->
         IF s = {} THEN 0
         ELSE rows[First(s)][field] + g[s \ {First(s)}]]

Partial(rows, S, field) == CHOOSE g : IsPartial(g, rows, S, field)

LEMMA SumIsPartial ==
  ASSUME NEW rows, NEW S, NEW field
  PROVE  FieldSum(rows, S, field) = Partial(rows, S, field)[S]
BY DEF FieldSum, MapThenSumSet, MapThenFoldSet, Partial, IsPartial, First

LEMMA PartialAt ==
  ASSUME NEW rows, NEW S, NEW field, NEW g, IsPartial(g, rows, S, field), NEW s \in SUBSET S
  PROVE  /\ s = {} => g[s] = 0
         /\ s # {} => /\ First(s) \in s
                      /\ g[s] = rows[First(s)][field] + g[s \ {First(s)}]
<1> DEFINE h == [t \in SUBSET S |->
                   IF t = {} THEN 0 ELSE rows[First(t)][field] + g[t \ {First(t)}]]
<1>1. g = h
  BY DEF IsPartial
<1>2. h[s] = IF s = {} THEN 0 ELSE rows[First(s)][field] + g[s \ {First(s)}]
  OBVIOUS
<1>3. s # {} => First(s) \in s
  BY DEF First
<1> HIDE DEF h
<1> QED BY <1>1, <1>2, <1>3

LEMMA PartialsAgree ==
  ASSUME NEW rows, NEW field, NEW U, NEW V, NEW g, NEW h, IsFiniteSet(V), V \subseteq U,
         IsPartial(g, rows, U, field), IsPartial(h, rows, V, field)
  PROVE  \A T \in SUBSET V : g[T] = h[T]
<1> DEFINE Good == {T \in SUBSET V : g[T] = h[T]}
<1>1. ASSUME NEW T \in SUBSET V, \A W \in SUBSET T : W # T => W \in Good
      PROVE  T \in Good
  <2>1. CASE T = {}
    <3>1. g[T] = 0 /\ h[T] = 0
      BY <2>1, PartialAt
    <3> QED BY <3>1
  <2>2. CASE T # {}
    <3> DEFINE rest == T \ {First(T)}
    <3>1. /\ First(T) \in T
          /\ g[T] = rows[First(T)][field] + g[rest]
          /\ h[T] = rows[First(T)][field] + h[rest]
      BY <2>2, PartialAt
    <3>2. rest \in Good
      BY <1>1, <3>1
    <3> QED BY <3>1, <3>2
  <2> QED BY <2>1, <2>2
<1>a. Good \in SUBSET (SUBSET V)
  OBVIOUS
<1> HIDE DEF Good
<1>2. \A T \in SUBSET V : T \in Good
  BY <1>1, <1>a, SubsetInduction
<1> QED BY <1>2 DEF Good

LEMMA PartialExists ==
  ASSUME NEW rows, NEW field, NEW S, IsFiniteSet(S)
  PROVE  \A T \in SUBSET S : IsPartial(Partial(rows, T, field), rows, T, field)
<1> DEFINE Good == {T \in SUBSET S : IsPartial(Partial(rows, T, field), rows, T, field)}
<1>1. ASSUME NEW T \in SUBSET S, \A U \in SUBSET T : U # T => U \in Good
      PROVE  T \in Good
  <2> DEFINE Total(U) == Partial(rows, U, field)[U]
             g == [s \in SUBSET T |->
                     IF s = {} THEN 0 ELSE rows[First(s)][field] + Total(s \ {First(s)})]
  <2>1. ASSUME NEW U \in SUBSET T, U # T
        PROVE  g[U] = Total(U)
    <3> DEFINE p == Partial(rows, U, field)
    <3>1. IsPartial(p, rows, U, field)
      BY <1>1, <2>1
    <3> HIDE DEF p
    <3>2. CASE U = {}
      <4>1. p[U] = 0
        BY <3>1, <3>2, PartialAt
      <4> QED BY <3>2, <4>1 DEF p
    <3>3. CASE U # {}
      <4> DEFINE rest == U \ {First(U)}
                 q == Partial(rows, rest, field)
      <4>1. First(U) \in U /\ p[U] = rows[First(U)][field] + p[rest]
        BY <3>1, <3>3, PartialAt
      <4>2. rest \in SUBSET T /\ rest # T /\ rest \subseteq U /\ IsFiniteSet(rest)
        BY <2>1, <4>1, FS_Subset
      <4>3. IsPartial(q, rows, rest, field)
        BY <1>1, <4>2
      <4> HIDE DEF q
      <4>4. p[rest] = q[rest]
        BY <3>1, <4>2, <4>3, PartialsAgree
      <4>5. g[U] = rows[First(U)][field] + Total(rest)
        BY <3>3
      <4> QED BY <4>1, <4>4, <4>5 DEF p, q
    <3> QED BY <3>2, <3>3
  <2>2. \A s \in SUBSET T : s # {} => g[s \ {First(s)}] = Total(s \ {First(s)})
    <3> TAKE s \in SUBSET T
    <3> HAVE s # {}
    <3>1. First(s) \in s
      BY DEF First
    <3>2. s \ {First(s)} \in SUBSET T /\ s \ {First(s)} # T
      BY <3>1
    <3> HIDE DEF g, Total
    <3> QED BY <2>1, <3>2
  <2>3. g = [s \in SUBSET T |->
               IF s = {} THEN 0 ELSE rows[First(s)][field] + g[s \ {First(s)}]]
    BY <2>2
  <2> HIDE DEF g
  <2>4. IsPartial(g, rows, T, field)
    BY <2>3 DEF IsPartial
  <2>5. IsPartial(Partial(rows, T, field), rows, T, field)
    BY <2>4 DEF Partial
  <2> QED BY <2>5
<1>a. Good \in SUBSET (SUBSET S)
  OBVIOUS
<1> HIDE DEF Good
<1>2. \A T \in SUBSET S : T \in Good
  BY <1>1, <1>a, SubsetInduction
<1> QED BY <1>2 DEF Good

---------------------------------------------------------------------------
(* What a sum is *)

LEMMA SumEmpty ==
  ASSUME NEW rows, NEW field
  PROVE  FieldSum(rows, {}, field) = 0
<1>1. IsFiniteSet({})
  BY FS_EmptySet
<1>2. IsPartial(Partial(rows, {}, field), rows, {}, field)
  BY <1>1, PartialExists
<1>3. Partial(rows, {}, field)[{}] = 0
  BY <1>2, PartialAt
<1> QED BY <1>3, SumIsPartial

LEMMA SumFirst ==
  ASSUME NEW rows, NEW field, NEW S, IsFiniteSet(S), S # {}
  PROVE  /\ First(S) \in S
         /\ FieldSum(rows, S, field)
              = rows[First(S)][field] + FieldSum(rows, S \ {First(S)}, field)
<1> DEFINE rest == S \ {First(S)}
           p == Partial(rows, S, field)
           q == Partial(rows, rest, field)
<1>1. IsPartial(p, rows, S, field) /\ IsPartial(q, rows, rest, field)
  BY PartialExists
<1>2. IsFiniteSet(rest)
  BY FS_Subset
<1>3. FieldSum(rows, S, field) = p[S] /\ FieldSum(rows, rest, field) = q[rest]
  BY SumIsPartial
<1> HIDE DEF p, q
<1>4. First(S) \in S /\ p[S] = rows[First(S)][field] + p[rest]
  BY <1>1, PartialAt
<1>5. p[rest] = q[rest]
  BY <1>1, <1>2, PartialsAgree
<1> QED BY <1>3, <1>4, <1>5

LEMMA SumType ==
  ASSUME NEW rows, NEW field, NEW S, IsFiniteSet(S), \A x \in S : rows[x][field] \in Nat
  PROVE  FieldSum(rows, S, field) \in Nat
<1> DEFINE Good == {T \in SUBSET S : FieldSum(rows, T, field) \in Nat}
<1>1. ASSUME NEW T \in SUBSET S, \A U \in SUBSET T : U # T => U \in Good
      PROVE  T \in Good
  <2>1. CASE T = {}
    BY <2>1, SumEmpty
  <2>2. CASE T # {}
    <3>1. IsFiniteSet(T)
      BY FS_Subset
    <3>2. First(T) \in T /\ FieldSum(rows, T, field)
            = rows[First(T)][field] + FieldSum(rows, T \ {First(T)}, field)
      BY <2>2, <3>1, SumFirst
    <3>3. FieldSum(rows, T \ {First(T)}, field) \in Nat
      BY <1>1, <3>2
    <3> QED BY <3>2, <3>3
  <2> QED BY <2>1, <2>2
<1>a. Good \in SUBSET (SUBSET S)
  OBVIOUS
<1> HIDE DEF Good
<1>2. \A T \in SUBSET S : T \in Good
  BY <1>1, <1>a, SubsetInduction
<1> QED BY <1>2 DEF Good

(* Any row may be taken out first *)
LEMMA SumRemove ==
  ASSUME NEW rows, NEW field, NEW S, IsFiniteSet(S), \A x \in S : rows[x][field] \in Nat,
         NEW x \in S
  PROVE  FieldSum(rows, S, field) = rows[x][field] + FieldSum(rows, S \ {x}, field)
<1> DEFINE Total(T) == FieldSum(rows, T, field)
           Good == {T \in SUBSET S : \A y \in T : Total(T) = rows[y][field] + Total(T \ {y})}
<1>0. \A T \in SUBSET S : IsFiniteSet(T) /\ Total(T) \in Nat
  <2> TAKE T \in SUBSET S
  <2>1. IsFiniteSet(T) /\ \A y \in T : rows[y][field] \in Nat
    BY FS_Subset
  <2> QED BY <2>1, SumType
<1>1. ASSUME NEW T \in SUBSET S, \A U \in SUBSET T : U # T => U \in Good
      PROVE  T \in Good
  <2> SUFFICES ASSUME NEW y \in T PROVE Total(T) = rows[y][field] + Total(T \ {y})
    OBVIOUS
  <2> DEFINE z == First(T)
  <2>1. z \in T /\ Total(T) = rows[z][field] + Total(T \ {z})
    BY <1>0, SumFirst
  <2> HIDE DEF z
  <2>2. CASE y = z
    BY <2>1, <2>2
  <2>3. CASE y # z
    <3> DEFINE both == T \ {y, z}
    <3>1. (T \ {z}) \ {y} = both /\ (T \ {y}) \ {z} = both
      OBVIOUS
    <3>2. T \ {z} \in Good /\ T \ {y} \in Good
      BY <1>1, <2>1
    <3>3. Total(T \ {z}) = rows[y][field] + Total(both)
      BY <2>3, <3>1, <3>2
    <3>4. Total(T \ {y}) = rows[z][field] + Total(both)
      BY <2>1, <2>3, <3>1, <3>2
    <3>5. rows[y][field] \in Nat /\ rows[z][field] \in Nat /\ Total(both) \in Nat
      BY <1>0, <2>1
    <3> HIDE DEF Total, both
    <3> QED BY <2>1, <3>3, <3>4, <3>5
  <2> QED BY <2>2, <2>3
<1>a. Good \in SUBSET (SUBSET S)
  OBVIOUS
<1> HIDE DEF Good
<1>2. \A T \in SUBSET S : T \in Good
  BY <1>1, <1>a, SubsetInduction
<1> QED BY <1>2 DEF Good

(* A part and the rest make the whole *)
LEMMA SumSplit ==
  ASSUME NEW rows, NEW field, NEW S, IsFiniteSet(S), \A x \in S : rows[x][field] \in Nat,
         NEW T \in SUBSET S
  PROVE  /\ FieldSum(rows, S, field) = FieldSum(rows, T, field) + FieldSum(rows, S \ T, field)
         /\ FieldSum(rows, T, field) \in Nat /\ FieldSum(rows, S \ T, field) \in Nat
<1> DEFINE Total(U) == FieldSum(rows, U, field)
           Good == {U \in SUBSET T : Total(S) = Total(U) + Total(S \ U)}
<1>0. \A U \in SUBSET S : IsFiniteSet(U) /\ Total(U) \in Nat /\ \A x \in U : rows[x][field] \in Nat
  <2> TAKE U \in SUBSET S
  <2>1. IsFiniteSet(U) /\ \A y \in U : rows[y][field] \in Nat
    BY FS_Subset
  <2> QED BY <2>1, SumType
<1>1. ASSUME NEW U \in SUBSET T, \A V \in SUBSET U : V # U => V \in Good
      PROVE  U \in Good
  <2>1. CASE U = {}
    <3>1. Total(U) = 0 /\ S \ U = S /\ Total(S) \in Nat
      BY <1>0, <2>1, SumEmpty
    <3>2. Total(S) = Total(U) + Total(S \ U)
      <4> HIDE DEF Total
      <4> QED BY <3>1
    <3> QED BY <3>2
  <2>2. CASE U # {}
    <3>1. PICK x \in U : TRUE
      BY <2>2
    <3> DEFINE V == U \ {x}
    <3>2. V \in Good
      BY <1>1, <3>1
    <3>3. Total(U) = rows[x][field] + Total(V)
      BY <1>0, <3>1, SumRemove
    <3>4. x \in S \ V /\ S \ V \in SUBSET S /\ (S \ V) \ {x} = S \ U
      BY <3>1
    <3>5. Total(S \ V) = rows[x][field] + Total(S \ U)
      BY <1>0, <3>4, SumRemove
    <3>6. /\ rows[x][field] \in Nat /\ Total(V) \in Nat /\ Total(S \ U) \in Nat
          /\ Total(S) = Total(V) + Total(S \ V)
      BY <1>0, <3>1, <3>2
    <3> HIDE DEF Total, V
    <3>7. Total(S) = Total(U) + Total(S \ U)
      BY <3>3, <3>5, <3>6
    <3> QED BY <3>7
  <2> QED BY <2>1, <2>2
<1>a. Good \in SUBSET (SUBSET T)
  OBVIOUS
<1> HIDE DEF Good
<1>2. \A U \in SUBSET T : U \in Good
  <2>1. IsFiniteSet(T)
    BY <1>0
  <2> QED BY <1>1, <2>1, <1>a, SubsetInduction
<1> QED BY <1>0, <1>2 DEF Good

(* More rows add up to no less *)
LEMMA SumGrows ==
  ASSUME NEW rows, NEW field, NEW S, IsFiniteSet(S), \A x \in S : rows[x][field] \in Nat,
         NEW T \in SUBSET S
  PROVE  /\ FieldSum(rows, T, field) \in Nat /\ FieldSum(rows, S, field) \in Nat
         /\ FieldSum(rows, T, field) <= FieldSum(rows, S, field)
<1> DEFINE part == FieldSum(rows, T, field)
           rest == FieldSum(rows, S \ T, field)
           all == FieldSum(rows, S, field)
<1>1. all = part + rest /\ part \in Nat /\ rest \in Nat
  BY SumSplit
<1> HIDE DEF part, rest, all
<1>2. part \in Nat /\ all \in Nat /\ part <= all
  BY <1>1
<1> QED BY <1>2 DEF part, all

(* Only the summed rows matter *)
LEMMA SumSame ==
  ASSUME NEW rows, NEW others, NEW field, NEW S, IsFiniteSet(S),
         \A x \in S : rows[x][field] = others[x][field]
  PROVE  FieldSum(rows, S, field) = FieldSum(others, S, field)
<1> DEFINE Good == {T \in SUBSET S : FieldSum(rows, T, field) = FieldSum(others, T, field)}
<1>1. ASSUME NEW T \in SUBSET S, \A U \in SUBSET T : U # T => U \in Good
      PROVE  T \in Good
  <2>1. CASE T = {}
    BY <2>1, SumEmpty
  <2>2. CASE T # {}
    <3>1. IsFiniteSet(T)
      BY FS_Subset
    <3>2. /\ First(T) \in T
          /\ FieldSum(rows, T, field)
               = rows[First(T)][field] + FieldSum(rows, T \ {First(T)}, field)
          /\ FieldSum(others, T, field)
               = others[First(T)][field] + FieldSum(others, T \ {First(T)}, field)
      BY <2>2, <3>1, SumFirst
    <3>3. FieldSum(rows, T \ {First(T)}, field) = FieldSum(others, T \ {First(T)}, field)
      BY <1>1, <3>2
    <3>4. rows[First(T)][field] = others[First(T)][field]
      BY <3>2
    <3> QED BY <3>2, <3>3, <3>4
  <2> QED BY <2>1, <2>2
<1>a. Good \in SUBSET (SUBSET S)
  OBVIOUS
<1> HIDE DEF Good
<1>2. \A T \in SUBSET S : T \in Good
  BY <1>1, <1>a, SubsetInduction
<1> QED BY <1>2 DEF Good
=============================================================================
