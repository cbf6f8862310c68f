------------------------ MODULE ResponseCache_proofs ------------------------
(***************************************************************************)
(* Proofs about ResponseCache, for any keys, requests, sizes, budget and   *)
(* ttl, and about SearchPages, whose requests pass such a cache: for any   *)
(* term, routes, commits and number of loads.                              *)
(***************************************************************************)
EXTENDS ResponseCache, SearchPages, FieldSums_proofs, SequenceTheorems

LEMMA InitType == CacheInit => CacheTypeOK
BY DEF CacheInit, CacheTypeOK, RequestState

LEMMA StoreType ==
  ASSUME NEW table \in [Keys -> Entry \cup {Empty}], NEW line, NEW size,
         Store(table, line, size)
  PROVE  /\ entries' \in [Keys -> Entry \cup {Empty}]
         /\ \A k \in Keys : entries'[k] \in {Empty, table[k]}
BY DEF Store

(* What put leaves in the cache: older entries, and the new one *)
LEMMA PutType ==
  ASSUME CacheTypeOK, NEW key \in Keys, NEW body,
         body.size \in Sizes, body.readAt \in Nat, Put(key, body)
  PROVE  /\ entries' \in [Keys -> Entry \cup {Empty}]
         /\ \A k \in Keys :
              \/ entries'[k] \in {Empty, entries[k]}
              \/ entries'[k].readAt = body.readAt /\ entries'[k].expires = now + Ttl
<1> DEFINE entry == [cached |-> TRUE, size |-> body.size, readAt |-> body.readAt,
                     expires |-> now + Ttl]
           table == [entries EXCEPT ![key] = entry]
<1>1. CASE body.size > Limit
  BY <1>1 DEF Put, CacheTypeOK
<1>2. CASE ~(body.size > Limit)
  <2>1. entry \in Entry
    BY CacheAssumption DEF CacheTypeOK, Entry
  <2>2. table \in [Keys -> Entry \cup {Empty}]
    BY <2>1 DEF CacheTypeOK
  <2>3. \E line, size : Store(table, line, size)
    BY <1>2 DEF Put
  <2>4. /\ entries' \in [Keys -> Entry \cup {Empty}]
        /\ \A k \in Keys : entries'[k] \in {Empty, table[k]}
    <3> HIDE DEF table
    <3> QED BY <2>2, <2>3, StoreType
  <2>5. \A k \in Keys : table[k] = entries[k] \/ table[k] = entry
    BY DEF CacheTypeOK
  <2> QED BY <2>4, <2>5
<1> QED BY <1>1, <1>2

LEMMA NextType == CacheTypeOK /\ [CacheNext]_cacheVars => CacheTypeOK'
<1> SUFFICES ASSUME CacheTypeOK, [CacheNext]_cacheVars PROVE CacheTypeOK'
  OBVIOUS
<1>a. /\ now \in Nat /\ entries \in [Keys -> Entry \cup {Empty}]
      /\ requests \in [Requests -> RequestState]
  BY DEF CacheTypeOK
<1>1. ASSUME NEW r \in Requests, NEW key \in Keys, Hit(r, key)
      PROVE  CacheTypeOK'
  <2>1. entries[key].readAt \in Nat
    BY <1>1, <1>a DEF Hit, Servable, Entry
  <2> QED BY <1>1, <1>a, <2>1 DEF Hit, CacheTypeOK, RequestState
<1>2. ASSUME NEW r \in Requests, NEW key \in Keys, Miss(r, key)
      PROVE  CacheTypeOK'
  <2>1. entries' \in [Keys -> Entry \cup {Empty}]
    BY <1>2, <1>a DEF Miss, Drop
  <2>2. [phase |-> "calling", key |-> key, since |-> now] \in RequestState
    BY <1>a DEF RequestState
  <2> QED BY <1>2, <1>a, <2>1, <2>2 DEF Miss, CacheTypeOK
<1>3. ASSUME NEW r \in Requests, NEW size \in Sizes, Read(r, size)
      PROVE  CacheTypeOK'
  <2>1. requests[r].key \in Keys /\ requests[r].since \in Nat
    BY <1>3, <1>a DEF Read, RequestState, Idle
  <2>2. [phase |-> "read", key |-> requests[r].key, since |-> requests[r].since,
         size |-> size, readAt |-> now] \in RequestState
    BY <1>a, <2>1 DEF RequestState
  <2> QED BY <1>3, <1>a, <2>2 DEF Read, CacheTypeOK
<1>4. ASSUME NEW r \in Requests, Remember(r) PROVE CacheTypeOK'
  <2>1. /\ requests[r].key \in Keys /\ requests[r].size \in Sizes
        /\ requests[r].readAt \in Nat
    BY <1>4, <1>a DEF Remember, RequestState, Idle
  <2>2. entries' \in [Keys -> Entry \cup {Empty}]
    BY <1>4, <2>1, PutType DEF Remember
  <2> QED BY <1>4, <1>a, <2>2 DEF Remember, CacheTypeOK, RequestState
<1>5. ASSUME NEW r \in Requests, Answer(r) PROVE CacheTypeOK'
  BY <1>5, <1>a DEF Answer, CacheTypeOK, RequestState
<1>6. CASE Tick
  BY <1>6 DEF Tick, CacheTypeOK
<1>7. CASE UNCHANGED cacheVars
  BY <1>7 DEF cacheVars, CacheTypeOK
<1> QED BY <1>1, <1>2, <1>3, <1>4, <1>5, <1>6, <1>7 DEF CacheNext

(* Every entry and every request in flight keeps its shape; what eviction
   leaves is made of entries that were put. *)
THEOREM CacheTypeCorrect == CacheSpec => []CacheTypeOK
BY InitType, NextType, PTL DEF CacheSpec

---------------------------------------------------------------------------
(* A request in flight has read within its own handling time, so an entry
   expires within its ttl and a handling time of the read *)
AgesBounded ==
  /\ \A k \in Keys :
       entries[k] # Empty
         => entries[k].expires <= entries[k].readAt + Ttl + MaxHandling
  /\ \A r \in Requests :
       requests[r] # Idle => /\ requests[r].since <= now
                             /\ now <= requests[r].since + MaxHandling
  /\ \A r \in Requests :
       requests[r].phase = "read" => requests[r].since <= requests[r].readAt

LEMMA InitAges == CacheInit => AgesBounded
BY DEF CacheInit, AgesBounded, Idle

LEMMA NextAges ==
  CacheTypeOK /\ AgesBounded /\ [CacheNext]_cacheVars => AgesBounded'
<1> SUFFICES ASSUME CacheTypeOK, AgesBounded, [CacheNext]_cacheVars
             PROVE  AgesBounded'
  OBVIOUS
<1>a. /\ now \in Nat /\ entries \in [Keys -> Entry \cup {Empty}]
      /\ requests \in [Requests -> RequestState]
      /\ Ttl \in Nat /\ MaxHandling \in Nat
  BY CacheAssumption DEF CacheTypeOK
<1>1. ASSUME NEW r \in Requests, NEW key \in Keys, Hit(r, key)
      PROVE  AgesBounded'
  BY <1>1, <1>a DEF Hit, AgesBounded, Idle
<1>2. ASSUME NEW r \in Requests, NEW key \in Keys, Miss(r, key)
      PROVE  AgesBounded'
  <2>1. \A k \in Keys : entries'[k] \in {Empty, entries[k]}
    BY <1>2, <1>a DEF Miss, Drop
  <2> QED BY <1>2, <1>a, <2>1 DEF Miss, AgesBounded, Idle
<1>3. ASSUME NEW r \in Requests, NEW size \in Sizes, Read(r, size)
      PROVE  AgesBounded'
  <2>1. requests[r] # Idle /\ requests[r].since \in Nat
    BY <1>3, <1>a DEF Read, Idle, RequestState
  <2>2. requests[r].since <= now
    BY <2>1 DEF AgesBounded
  <2> QED BY <1>3, <1>a, <2>1, <2>2 DEF Read, AgesBounded, Idle
<1>4. ASSUME NEW r \in Requests, Remember(r) PROVE AgesBounded'
  <2>1. /\ requests[r].key \in Keys /\ requests[r].size \in Sizes
        /\ requests[r].readAt \in Nat /\ requests[r].since \in Nat
        /\ requests[r] # Idle
    BY <1>4, <1>a DEF Remember, RequestState, Idle
  <2>2. \A k \in Keys :
          \/ entries'[k] \in {Empty, entries[k]}
          \/ /\ entries'[k].readAt = requests[r].readAt
             /\ entries'[k].expires = now + Ttl
    BY <1>4, <2>1, PutType DEF Remember
  <2>3. now + Ttl <= requests[r].readAt + Ttl + MaxHandling
    BY <1>4, <1>a, <2>1 DEF Remember, AgesBounded
  <2>4. \A k \in Keys :
          entries'[k] # Empty
            => entries'[k].expires <= entries'[k].readAt + Ttl + MaxHandling
    BY <2>2, <2>3 DEF AgesBounded
  <2> QED BY <1>4, <1>a, <2>4 DEF Remember, AgesBounded, Idle
<1>5. ASSUME NEW r \in Requests, Answer(r) PROVE AgesBounded'
  BY <1>5, <1>a DEF Answer, AgesBounded, Idle
<1>6. CASE Tick
  <2>1. \A r \in Requests : requests[r] # Idle => requests[r].since \in Nat
    BY <1>a DEF RequestState
  <2>2. ASSUME NEW r \in Requests, requests[r] # Idle
        PROVE  requests[r].since <= now + 1 /\ now + 1 <= requests[r].since + MaxHandling
    BY <1>6, <1>a, <2>1, <2>2 DEF Tick, AgesBounded
  <2> QED BY <1>6, <2>2 DEF Tick, AgesBounded
<1>7. CASE UNCHANGED cacheVars
  BY <1>7 DEF cacheVars, AgesBounded
<1> QED BY <1>1, <1>2, <1>3, <1>4, <1>5, <1>6, <1>7 DEF CacheNext

LEMMA HitAge ==
  CacheTypeOK /\ AgesBounded /\ [CacheNext]_cacheVars
    => [ServedWithin(Ttl + MaxHandling)]_cacheVars
<1> SUFFICES ASSUME CacheTypeOK, AgesBounded, CacheNext, NEW r \in Requests,
                    requests[r] = Idle, requests'[r] # Idle,
                    requests'[r].phase = "served"
             PROVE  now - requests'[r].readAt <= Ttl + MaxHandling
  BY DEF ServedWithin
<1>a. /\ now \in Nat /\ entries \in [Keys -> Entry \cup {Empty}]
      /\ requests \in [Requests -> RequestState]
      /\ Ttl \in Nat /\ MaxHandling \in Nat
  BY CacheAssumption DEF CacheTypeOK
<1>1. PICK key \in Keys : Hit(r, key)
  BY <1>a DEF CacheNext, Hit, Miss, Read, Remember, Answer, Tick, Idle
<1>2. entries[key].readAt \in Nat /\ entries[key].expires \in Nat
  BY <1>1, <1>a DEF Hit, Servable, Entry
<1>3. requests'[r].readAt = entries[key].readAt
  BY <1>1, <1>a DEF Hit
<1> QED BY <1>1, <1>2, <1>3, <1>a DEF Hit, Servable, AgesBounded

(* For any number of overlapping requests, any ttl and any eviction, a hit is
   older than the database by at most the ttl and one handling time. *)
THEOREM ServedAgeIsBounded == CacheSpec => ServedAgeBounded
<1>1. CacheInit => CacheTypeOK /\ AgesBounded
  BY InitType, InitAges
<1>2. CacheTypeOK /\ AgesBounded /\ [CacheNext]_cacheVars
        => (CacheTypeOK /\ AgesBounded)'
  BY NextType, NextAges
<1> QED BY <1>1, <1>2, HitAge, PTL DEF CacheSpec, ServedAgeBounded

---------------------------------------------------------------------------
(* Lines: sequences of the keys of a set, each once *)

IsLine(line, S) ==
  /\ line \in Seq(Keys)
  /\ S = {line[i] : i \in 1..Len(line)}
  /\ \A i, j \in 1..Len(line) : line[i] = line[j] => i = j

(* Keys of one line come in the same order in the other *)
KeepsOrder(rest, line) ==
  \A i, j \in 1..Len(rest) : i <= j =>
    \E m, n \in 1..Len(line) : m <= n /\ rest[i] = line[m] /\ rest[j] = line[n]

LEMMA LineSize ==
  ASSUME NEW line, NEW S, IsLine(line, S)
  PROVE  IsFiniteSet(S) /\ Cardinality(S) = Len(line) /\ ToSet(line) = S
<1>1. Len(line) \in Nat /\ DOMAIN line = 1..Len(line)
  BY LenProperties DEF IsLine
<1> DEFINE f == [i \in 1..Len(line) |-> line[i]]
<1>2. f \in Bijection(1..Len(line), S)
  BY DEF IsLine, Bijection, Injection, Surjection, IsInjective
<1>3. ExistsBijection(1..Len(line), S)
  BY <1>2 DEF ExistsBijection
<1>4. IsFiniteSet(S) /\ Cardinality(S) = Len(line)
  BY <1>1, <1>3, FS_NatBijection, FS_CountingElements
<1>5. ToSet(line) = S
  BY <1>1 DEF ToSet, IsLine
<1> QED BY <1>4, <1>5

(* Taking a key out keeps the others in their order *)
LEMMA LineWithout ==
  ASSUME NEW line, NEW S, IsLine(line, S), NEW key \in Keys
  PROVE  LET rest == RemoveFirst(line, key)
         IN  IsLine(rest, S \ {key}) /\ KeepsOrder(rest, line)
<1> DEFINE rest == RemoveFirst(line, key)
<1>0. line \in Seq(Keys) /\ Len(line) \in Nat
  BY LenProperties DEF IsLine
<1>1. CASE ~\E i \in 1..Len(line) : line[i] = key
  <2>1. rest = line /\ S \ {key} = S
    BY <1>1 DEF RemoveFirst, IsLine
  <2> HIDE DEF rest
  <2>2. IsLine(rest, S \ {key}) /\ KeepsOrder(rest, line)
    BY <2>1 DEF KeepsOrder
  <2> QED BY <2>2 DEF rest
<1>2. CASE \E i \in 1..Len(line) : line[i] = key
  <2> DEFINE at == {i \in 1..Len(line) : line[i] = key}
  <2>1. PICK p \in 1..Len(line) : at = {p} /\ line[p] = key
    BY <1>2 DEF IsLine
  <2>2. Min(at) = p
    BY <1>0, <2>1 DEF Min
  <2>3. SelectInSeq(line, LAMBDA v : v = key) = p
    BY <2>1, <2>2 DEF SelectInSeq
  <2>4. rest = SubSeq(line, 1, p - 1) \o SubSeq(line, p + 1, Len(line))
    BY <1>2, <2>3 DEF RemoveFirst, RemoveAt
  <2> DEFINE before == SubSeq(line, 1, p - 1)
             after == SubSeq(line, p + 1, Len(line))
  <2>5. /\ before \in Seq(Keys) /\ Len(before) = p - 1
        /\ \A i \in 1..(p - 1) : before[i] = line[i]
    BY <1>0
  <2>6. /\ after \in Seq(Keys) /\ Len(after) = Len(line) - p
        /\ \A i \in 1..(Len(line) - p) : after[i] = line[p + i]
    BY <1>0
  <2> HIDE DEF before, after
  <2>7. /\ rest \in Seq(Keys) /\ Len(rest) = Len(line) - 1
        /\ \A i \in 1..Len(rest) : rest[i] = line[IF i < p THEN i ELSE i + 1]
    <3>1. rest = before \o after
      BY <2>4 DEF before, after
    <3>2. /\ rest \in Seq(Keys) /\ Len(rest) = Len(before) + Len(after)
          /\ \A i \in 1..Len(rest) :
               rest[i] = IF i <= Len(before) THEN before[i] ELSE after[i - Len(before)]
      <4>1. /\ before \o after \in Seq(Keys) /\ Len(before \o after) = Len(before) + Len(after)
            /\ \A i \in 1..Len(before) + Len(after) :
                 (before \o after)[i] = IF i <= Len(before) THEN before[i] ELSE after[i - Len(before)]
        BY <2>5, <2>6, ConcatProperties
      <4> HIDE DEF rest
      <4> QED BY <3>1, <4>1
    <3> HIDE DEF rest
    <3>3. Len(rest) = Len(line) - 1
      BY <1>0, <2>5, <2>6, <3>2
    <3>4. ASSUME NEW i \in 1..Len(rest)
          PROVE  rest[i] = line[IF i < p THEN i ELSE i + 1]
      <4>1. CASE i < p
        BY <1>0, <2>5, <3>2, <4>1
      <4>2. CASE ~(i < p)
        <5>1. rest[i] = after[i - (p - 1)]
          BY <2>5, <3>2, <4>2
        <5>2. i - (p - 1) \in 1..(Len(line) - p) /\ p + (i - (p - 1)) = i + 1
          BY <1>0, <3>3, <4>2
        <5> QED BY <2>6, <4>2, <5>1, <5>2
      <4> QED BY <4>1, <4>2
    <3> QED BY <3>2, <3>3, <3>4
  <2> HIDE DEF rest
  <2>8. \A i \in 1..Len(rest) : (IF i < p THEN i ELSE i + 1) \in 1..Len(line) \ {p}
    BY <1>0, <2>7
  <2>9. IsLine(rest, S \ {key})
    <3>1. \A i, j \in 1..Len(rest) : rest[i] = rest[j] => i = j
      <4> TAKE i, j \in 1..Len(rest)
      <4>1. rest[i] = rest[j] => (IF i < p THEN i ELSE i + 1) = (IF j < p THEN j ELSE j + 1)
        BY <2>7, <2>8 DEF IsLine
      <4> QED BY <4>1
    <3>2. \A i \in 1..Len(rest) : rest[i] \in S \ {key}
      <4> TAKE i \in 1..Len(rest)
      <4> DEFINE m == IF i < p THEN i ELSE i + 1
      <4>1. m \in 1..Len(line) /\ m # p /\ rest[i] = line[m]
        BY <2>7, <2>8
      <4> HIDE DEF m
      <4> QED BY <2>1, <4>1 DEF IsLine
    <3>3. ASSUME NEW k \in S \ {key} PROVE \E i \in 1..Len(rest) : rest[i] = k
      <4>1. PICK m \in 1..Len(line) : line[m] = k /\ m # p
        BY <2>1 DEF IsLine
      <4>2. CASE m < p
        <5>1. m \in 1..Len(rest) /\ rest[m] = k
          BY <1>0, <2>7, <4>1, <4>2
        <5> QED BY <5>1
      <4>3. CASE m > p
        <5>1. m - 1 \in 1..Len(rest) /\ ~(m - 1 < p) /\ (m - 1) + 1 = m
          BY <1>0, <2>7, <4>1, <4>3
        <5>2. rest[m - 1] = k
          BY <2>7, <4>1, <5>1
        <5> QED BY <5>1, <5>2
      <4> QED BY <4>1, <4>2, <4>3
    <3>4. S \ {key} = {rest[i] : i \in 1..Len(rest)}
      BY <3>2, <3>3
    <3> QED BY <2>7, <3>1, <3>4 DEF IsLine
  <2>10. KeepsOrder(rest, line)
    <3> SUFFICES \A i, j \in 1..Len(rest) : i <= j =>
                   \E m, n \in 1..Len(line) : m <= n /\ rest[i] = line[m] /\ rest[j] = line[n]
      BY DEF KeepsOrder
    <3> TAKE i, j \in 1..Len(rest)
    <3> HAVE i <= j
    <3> DEFINE m == IF i < p THEN i ELSE i + 1
               n == IF j < p THEN j ELSE j + 1
    <3>1. m \in 1..Len(line) /\ n \in 1..Len(line) /\ m <= n
      BY <2>8
    <3>2. rest[i] = line[m] /\ rest[j] = line[n]
      BY <2>7
    <3> HIDE DEF m, n
    <3> QED BY <3>1, <3>2
  <2> QED BY <2>9, <2>10 DEF rest
<1> QED BY <1>1, <1>2

(* A new key goes to the end *)
LEMMA LineAppend ==
  ASSUME NEW line, NEW S, IsLine(line, S), NEW key \in Keys, key \notin S
  PROVE  LET longer == Append(line, key)
         IN  /\ IsLine(longer, S \cup {key})
             /\ Len(longer) = Len(line) + 1 /\ longer[Len(longer)] = key
             /\ \A i \in 1..Len(line) : longer[i] = line[i]
<1> DEFINE longer == Append(line, key)
<1>1. line \in Seq(Keys) /\ Len(line) \in Nat
  BY LenProperties DEF IsLine
<1>2. /\ longer \in Seq(Keys) /\ Len(longer) = Len(line) + 1
      /\ longer[Len(line) + 1] = key /\ \A i \in 1..Len(line) : longer[i] = line[i]
  BY <1>1, AppendProperties
<1> HIDE DEF longer
<1>3. 1..Len(longer) = 1..Len(line) \cup {Len(line) + 1}
  BY <1>1, <1>2
<1>4. \A i \in 1..Len(line) : longer[i] \in S
  BY <1>2 DEF IsLine
<1>5. \A i, j \in 1..Len(longer) : longer[i] = longer[j] => i = j
  <2> TAKE i, j \in 1..Len(longer)
  <2>1. CASE i \in 1..Len(line) /\ j \in 1..Len(line)
    BY <1>2, <2>1 DEF IsLine
  <2>2. CASE i = Len(line) + 1 /\ j \in 1..Len(line)
    BY <1>2, <1>4, <2>2
  <2>3. CASE j = Len(line) + 1 /\ i \in 1..Len(line)
    BY <1>2, <1>4, <2>3
  <2>4. CASE i = Len(line) + 1 /\ j = Len(line) + 1
    BY <2>4
  <2> QED BY <1>3, <2>1, <2>2, <2>3, <2>4
<1>6. S \cup {key} = {longer[i] : i \in 1..Len(longer)}
  <2>1. \A k \in S : \E i \in 1..Len(line) : line[i] = k
    BY DEF IsLine
  <2> QED BY <1>2, <1>3, <1>4, <2>1
<1> QED BY <1>2, <1>5, <1>6 DEF IsLine

(* The oldest keys go *)
LEMMA LineFrom ==
  ASSUME NEW line, NEW S, IsLine(line, S), NEW n \in 0..Len(line)
  PROVE  LET gone == ToSet(SubSeq(line, 1, n))
             rest == SubSeq(line, n + 1, Len(line))
         IN  /\ gone = {line[i] : i \in 1..n} /\ gone \subseteq S
             /\ IsLine(rest, S \ gone) /\ Len(rest) = Len(line) - n
             /\ \A i \in 1..Len(rest) : rest[i] = line[n + i]
<1> DEFINE old == SubSeq(line, 1, n)
           gone == ToSet(old)
           rest == SubSeq(line, n + 1, Len(line))
<1>0. line \in Seq(Keys) /\ Len(line) \in Nat
  BY LenProperties DEF IsLine
<1>1. old \in Seq(Keys) /\ Len(old) = n /\ \A i \in 1..n : old[i] = line[i]
  BY <1>0
<1>2. /\ rest \in Seq(Keys) /\ Len(rest) = Len(line) - n
      /\ \A i \in 1..(Len(line) - n) : rest[i] = line[n + i]
  BY <1>0
<1> HIDE DEF old, rest
<1>3. DOMAIN old = 1..n
  BY <1>1, LenProperties
<1>4. gone = {line[i] : i \in 1..n}
  BY <1>1, <1>3 DEF ToSet
<1>5. gone \subseteq S
  BY <1>0, <1>4 DEF IsLine
<1> HIDE DEF gone
<1>6. \A i \in 1..Len(rest) : n + i \in 1..Len(line) /\ n + i \notin 1..n
  BY <1>0, <1>2
<1>7. \A i, j \in 1..Len(rest) : rest[i] = rest[j] => i = j
  <2> TAKE i, j \in 1..Len(rest)
  <2>1. rest[i] = rest[j] => n + i = n + j
    BY <1>2, <1>6 DEF IsLine
  <2> QED BY <1>0, <1>2, <2>1
<1>8. S \ gone = {rest[i] : i \in 1..Len(rest)}
  <2>1. \A i \in 1..Len(rest) : rest[i] \in S \ gone
    <3> TAKE i \in 1..Len(rest)
    <3>1. rest[i] = line[n + i] /\ n + i \in 1..Len(line) /\ n + i \notin 1..n
      BY <1>2, <1>6
    <3>2. 1..n \subseteq 1..Len(line)
      BY <1>0
    <3> QED BY <1>4, <3>1, <3>2 DEF IsLine
  <2>2. ASSUME NEW k \in S \ gone PROVE \E i \in 1..Len(rest) : rest[i] = k
    <3>1. PICK m \in 1..Len(line) : line[m] = k
      BY DEF IsLine
    <3>2. m \notin 1..n
      BY <1>4, <3>1
    <3>3. m - n \in 1..Len(rest) /\ n + (m - n) = m
      BY <1>0, <1>2, <3>1, <3>2
    <3> QED BY <1>2, <3>1, <3>3
  <2> QED BY <2>1, <2>2
<1>9. IsLine(rest, S \ gone)
  BY <1>2, <1>7, <1>8 DEF IsLine
<1> QED BY <1>2, <1>4, <1>5, <1>9 DEF gone, rest, old

---------------------------------------------------------------------------
(* The books of the cache *)

(* The line holds the cached keys, the longest unused first; the counter adds up
   their sizes, none of which is over the limit of one body *)
Books ==
  /\ IsLine(order, Held(entries))
  /\ bytes = Volume(entries, Held(entries)) /\ bytes <= MaxBytes
  /\ \A k \in Held(entries) : entries[k].size <= Limit
  /\ usedAt \in [Keys -> Nat] /\ \A k \in Keys : usedAt[k] <= now
  /\ \A i, j \in 1..Len(order) : i <= j => usedAt[order[i]] <= usedAt[order[j]]

LEMMA LimitFits == Limit \in Nat /\ Limit <= MaxBytes
<1>1. MaxBytes \in Nat /\ Share \in Nat /\ Share >= 1
  BY CacheAssumption
<1>2. MaxBytes \div Share \in Nat /\ MaxBytes \div Share <= MaxBytes
  BY <1>1
<1> QED BY <1>2 DEF Limit

LEMMA HeldSizes ==
  ASSUME NEW table \in [Keys -> Entry \cup {Empty}]
  PROVE  \A k \in Held(table) : table[k]["size"] \in Nat /\ table[k].size = table[k]["size"]
BY CacheAssumption DEF Held, Entry

(* Eviction drops the oldest entries of the line, as few as the budget allows *)
LEMMA StoreBooks ==
  ASSUME NEW table \in [Keys -> Entry \cup {Empty}], NEW line, IsLine(line, Held(table)),
         Store(table, line, Volume(table, Held(table)))
  PROVE  \E n \in 0..Len(line) :
           LET gone == {line[i] : i \in 1..n}
           IN  /\ entries' = [k \in Keys |-> IF k \in gone THEN Empty ELSE table[k]]
               /\ Held(entries') = Held(table) \ gone
               /\ order' = SubSeq(line, n + 1, Len(line))
               /\ bytes' = Volume(entries', Held(entries')) /\ bytes' <= MaxBytes
               /\ n > 0 => bytes' + table[line[n]].size > MaxBytes
<1> DEFINE held == Held(table)
           size == Volume(table, held)
           Prefix(n) == ToSet(SubSeq(line, 1, n))
           fits == {n \in 0..Len(line) : size - Volume(table, Prefix(n)) <= MaxBytes}
           n == Evicted(table, line, size)
           gone == Prefix(n)
<1>0. line \in Seq(Keys) /\ Len(line) \in Nat /\ MaxBytes \in Nat
  BY LenProperties, CacheAssumption DEF IsLine
<1>1. IsFiniteSet(held) /\ \A k \in held : table[k]["size"] \in Nat
  BY LineSize, HeldSizes
<1>2. \A m \in 0..Len(line) :
        /\ Prefix(m) = {line[i] : i \in 1..m} /\ Prefix(m) \subseteq held
        /\ Volume(table, Prefix(m)) \in Nat
        /\ size = Volume(table, Prefix(m)) + Volume(table, held \ Prefix(m))
        /\ Volume(table, held \ Prefix(m)) \in Nat
  <2> TAKE m \in 0..Len(line)
  <2>1. Prefix(m) = {line[i] : i \in 1..m} /\ Prefix(m) \subseteq held
    BY LineFrom
  <2> DEFINE P == Prefix(m)
  <2> HIDE DEF Prefix, P, held
  <2>2. P \in SUBSET held
    BY <2>1 DEF P
  <2>3. /\ FieldSum(table, held, "size") = FieldSum(table, P, "size") + FieldSum(table, held \ P, "size")
        /\ FieldSum(table, P, "size") \in Nat /\ FieldSum(table, held \ P, "size") \in Nat
    BY <1>1, <2>2, SumSplit
  <2>4. /\ Volume(table, held) = Volume(table, P) + Volume(table, held \ P)
        /\ Volume(table, P) \in Nat /\ Volume(table, held \ P) \in Nat
    BY <2>3 DEF Volume
  <2> QED BY <2>1, <2>4 DEF P
<1>3. size \in Nat
  BY <1>1, SumType DEF Volume
<1>4. Len(line) \in fits
  <2>1. Prefix(Len(line)) = held
    <3> HIDE DEF Prefix
    <3>1. Len(line) \in 0..Len(line)
      BY <1>0
    <3>2. Prefix(Len(line)) = {line[i] : i \in 1..Len(line)}
      BY <1>2, <3>1
    <3> QED BY <3>2 DEF IsLine
  <2>2. size - Volume(table, Prefix(Len(line))) = 0
    BY <1>3, <2>1
  <2> QED BY <1>0, <2>2
<1> HIDE DEF Prefix, held, size
<1>5. PICK least \in fits : \A m \in fits : least <= m
  <2>1. fits \in SUBSET Nat /\ fits # {}
    BY <1>0, <1>4
  <2> HIDE DEF fits
  <2> QED BY <2>1, NatHasLeast
<1>6. /\ least \in 0..Len(line) /\ size - Volume(table, Prefix(least)) <= MaxBytes
      /\ \A m \in 0..(least - 1) : size - Volume(table, Prefix(m)) > MaxBytes
  <2>1. \A m \in 0..(least - 1) : m \in 0..Len(line) /\ m \notin fits
    BY <1>0, <1>5
  <2>2. \A m \in 0..(least - 1) :
          /\ Volume(table, Prefix(m)) \in Nat
          /\ ~(size - Volume(table, Prefix(m)) <= MaxBytes)
    BY <1>2, <2>1
  <2> QED BY <1>0, <1>3, <1>5, <2>2
<1>7. /\ n \in 0..Len(line) /\ size - Volume(table, Prefix(n)) <= MaxBytes
      /\ \A m \in 0..(n - 1) : size - Volume(table, Prefix(m)) > MaxBytes
  BY <1>6 DEF Evicted, Prefix
<1>8. /\ entries' = [k \in Keys |-> IF k \in gone THEN Empty ELSE table[k]]
      /\ order' = SubSeq(line, n + 1, Len(line))
      /\ bytes' = size - Volume(table, gone)
  BY DEF Store, Prefix, size, held
<1> HIDE DEF n, fits
<1>9. gone = {line[i] : i \in 1..n} /\ gone \subseteq held
  BY <1>2, <1>7
<1>10. Held(entries') = held \ gone
  BY <1>8, <1>9 DEF Held, held
<1>11. bytes' = Volume(table, held \ gone)
  <2>1. /\ size = Volume(table, gone) + Volume(table, held \ gone)
        /\ Volume(table, gone) \in Nat /\ Volume(table, held \ gone) \in Nat
    BY <1>2, <1>7
  <2>2. bytes' = size - Volume(table, gone)
    BY <1>8
  <2> HIDE DEF gone
  <2> QED BY <2>1, <2>2
<1>12. Volume(table, held \ gone) = Volume(entries', held \ gone)
  <2>1. \A k \in held \ gone : table[k]["size"] = entries'[k]["size"]
    BY <1>8 DEF held, Held
  <2>2. IsFiniteSet(held \ gone)
    BY <1>1, FS_Subset
  <2> QED BY <2>1, <2>2, SumSame DEF Volume
<1>13. bytes' <= MaxBytes
  BY <1>7, <1>8
<1>14. ASSUME n > 0 PROVE bytes' + table[line[n]].size > MaxBytes
  <2>1. n - 1 \in 0..(n - 1) /\ n - 1 \in 0..Len(line) /\ n \in 1..Len(line)
    BY <1>0, <1>7, <1>14
  <2>2. size - Volume(table, Prefix(n - 1)) > MaxBytes
    BY <1>7, <2>1
  <2>3. line[n] \in held /\ line[n] \in gone /\ gone \ {line[n]} = Prefix(n - 1)
    <3>1. line[n] \in held /\ line[n] \in gone
      BY <1>9, <1>14, <2>1 DEF IsLine, held
    <3>2. Prefix(n - 1) = {line[i] : i \in 1..(n - 1)}
      BY <1>2, <2>1
    <3>3. \A i \in 1..n : line[i] = line[n] <=> i = n
      BY <1>0, <2>1 DEF IsLine
    <3>4. 1..n = 1..(n - 1) \cup {n} /\ n \notin 1..(n - 1)
      BY <2>1
    <3> QED BY <1>9, <3>1, <3>2, <3>3, <3>4
  <2>4. Volume(table, gone) = table[line[n]]["size"] + Volume(table, gone \ {line[n]})
    <3>1. IsFiniteSet(gone) /\ \A k \in gone : table[k]["size"] \in Nat
      BY <1>1, <1>9, FS_Subset
    <3> QED BY <2>3, <3>1, SumRemove DEF Volume
  <2>5. table[line[n]].size \in Nat /\ table[line[n]].size = table[line[n]]["size"]
    BY <2>3, HeldSizes DEF held
  <2>6. Volume(table, Prefix(n - 1)) \in Nat
    BY <1>2, <2>1
  <2> DEFINE last == table[line[n]].size
             before == Volume(table, Prefix(n - 1))
  <2>7. Volume(table, gone) = last + before
    BY <2>3, <2>4, <2>5
  <2>8. last \in Nat /\ before \in Nat /\ size - before > MaxBytes /\ bytes' = size - Volume(table, gone)
    BY <1>8, <2>2, <2>5, <2>6
  <2> HIDE DEF last, before, gone
  <2>9. bytes' + last > MaxBytes
    BY <1>0, <1>3, <2>7, <2>8
  <2> QED BY <2>9 DEF last
<1> QED BY <1>7, <1>8, <1>9, <1>10, <1>11, <1>12, <1>13, <1>14 DEF held

LEMMA InitBooks == CacheInit => Books
<1> SUFFICES ASSUME CacheInit PROVE Books
  OBVIOUS
<1>1. Held(entries) = {} /\ Len(order) = 0 /\ order \in Seq(Keys)
  BY DEF CacheInit, Held
<1>2. IsLine(order, Held(entries))
  BY <1>1 DEF IsLine
<1>3. Volume(entries, Held(entries)) = 0
  BY <1>1, SumEmpty DEF Volume
<1> QED BY <1>1, <1>2, <1>3, CacheAssumption DEF CacheInit, Books

(* A key that was used just now goes to the end of the line *)
LEMMA UsedLast ==
  ASSUME Books, NEW key \in Keys, now \in Nat
  PROVE  LET line == Append(RemoveFirst(order, key), key)
             used == [usedAt EXCEPT ![key] = now]
         IN  /\ IsLine(line, Held(entries) \cup {key})
             /\ used \in [Keys -> Nat] /\ \A k \in Keys : usedAt[k] <= used[k] /\ used[k] <= now
             /\ \A i, j \in 1..Len(line) : i <= j => used[line[i]] <= used[line[j]]
<1> DEFINE rest == RemoveFirst(order, key)
           line == Append(rest, key)
           used == [usedAt EXCEPT ![key] = now]
<1>1. IsLine(rest, Held(entries) \ {key}) /\ KeepsOrder(rest, order)
  <2>1. IsLine(order, Held(entries))
    BY DEF Books
  <2> QED BY <2>1, LineWithout
<1>2. rest \in Seq(Keys) /\ Len(rest) \in Nat
  BY <1>1, LenProperties DEF IsLine
<1> HIDE DEF rest
<1>3. /\ IsLine(line, (Held(entries) \ {key}) \cup {key})
      /\ Len(line) = Len(rest) + 1 /\ line[Len(line)] = key
      /\ \A i \in 1..Len(rest) : line[i] = rest[i]
  BY <1>1, LineAppend
<1>4. (Held(entries) \ {key}) \cup {key} = Held(entries) \cup {key}
  OBVIOUS
<1> HIDE DEF line
<1>5. /\ used \in [Keys -> Nat] /\ used[key] = now
      /\ \A k \in Keys : (k # key => used[k] = usedAt[k]) /\ usedAt[k] <= used[k] /\ used[k] <= now
  BY DEF Books
<1> HIDE DEF used
<1>6. ASSUME NEW i \in 1..Len(line), NEW j \in 1..Len(line), i <= j
      PROVE  used[line[i]] <= used[line[j]]
  <2>1. CASE j = Len(line)
    <3>1. line[i] \in Keys
      BY <1>3 DEF IsLine
    <3> QED BY <1>3, <1>5, <2>1, <3>1
  <2>2. CASE j # Len(line)
    <3>1. i \in 1..Len(rest) /\ j \in 1..Len(rest)
      BY <1>2, <1>3, <1>6, <2>2
    <3>2. PICK m \in 1..Len(order), n \in 1..Len(order) :
            m <= n /\ rest[i] = order[m] /\ rest[j] = order[n]
      BY <1>1, <1>6, <3>1 DEF KeepsOrder
    <3>3. usedAt[rest[i]] <= usedAt[rest[j]]
      BY <3>2 DEF Books
    <3>4. rest[i] \in Keys /\ rest[j] \in Keys /\ rest[i] # key /\ rest[j] # key
      BY <1>1, <3>1 DEF IsLine, Held
    <3> QED BY <1>3, <1>5, <3>1, <3>3, <3>4
  <2> QED BY <2>1, <2>2
<1> QED BY <1>3, <1>4, <1>5, <1>6 DEF line, used, rest

LEMMA PutBooks ==
  ASSUME CacheTypeOK, Books, UNCHANGED now,
         NEW key \in Keys, NEW body, body.size \in Sizes, body.readAt \in Nat, Put(key, body)
  PROVE  /\ Books'
         /\ \A j \in Gone, k \in Held(entries') : usedAt[j] <= usedAt'[k]
         /\ Gone # {} => bytes' > MaxBytes - Limit
<1> DEFINE entry == [cached |-> TRUE, size |-> body.size, readAt |-> body.readAt,
                     expires |-> now + Ttl]
           table == [entries EXCEPT ![key] = entry]
           line == Append(RemoveFirst(order, key), key)
           held == Held(entries)
           old == IF entries[key] = Empty THEN 0 ELSE entries[key].size
           others == held \ {key}
<1>0. /\ now \in Nat /\ entries \in [Keys -> Entry \cup {Empty}] /\ MaxBytes \in Nat
      /\ Limit \in Nat /\ Limit <= MaxBytes /\ body.size \in Nat
  BY LimitFits, CacheAssumption DEF CacheTypeOK
<1>1. CASE body.size > Limit
  <2>1. UNCHANGED <<entries, order, bytes, usedAt>>
    BY <1>1 DEF Put
  <2>2. Held(entries') = Held(entries) /\ Gone = {}
    BY <2>1 DEF Gone
  <2>3. Books'
    BY <2>1 DEF Books
  <2> QED BY <2>2, <2>3
<1>2. CASE ~(body.size > Limit)
  <2>1. /\ Store(table, line, bytes - old + body.size)
        /\ usedAt' = [usedAt EXCEPT ![key] = now]
    BY <1>2 DEF Put
  <2>2. entry \in Entry /\ entry # Empty /\ entry.size = body.size /\ entry["size"] = body.size
    BY <1>0, CacheAssumption DEF Entry, Empty
  <2> HIDE DEF entry
  <2>3. /\ table \in [Keys -> Entry \cup {Empty}] /\ table[key] = entry
        /\ \A k \in Keys : k # key => table[k] = entries[k]
    BY <1>0, <2>2
  <2> HIDE DEF table
  <2>4. Held(table) = held \cup {key}
    BY <2>2, <2>3 DEF Held
  <2> DEFINE used == [usedAt EXCEPT ![key] = now]
  <2>5. /\ IsLine(line, held \cup {key})
        /\ used \in [Keys -> Nat] /\ \A k \in Keys : usedAt[k] <= used[k] /\ used[k] <= now
        /\ \A i, j \in 1..Len(line) : i <= j => used[line[i]] <= used[line[j]]
    BY <1>0, UsedLast
  <2>6. usedAt' = used
    BY <2>1
  <2> HIDE DEF line, used
  <2>7. bytes - old + body.size = Volume(table, Held(table))
    <3>1. IsFiniteSet(Held(table)) /\ IsFiniteSet(held)
      BY <2>4, <2>5, LineSize DEF Books
    <3>2. Volume(table, Held(table)) = body.size + Volume(table, others)
      <4>1. \A k \in Held(table) : table[k]["size"] \in Nat
        BY <2>3, HeldSizes
      <4>2. Held(table) \ {key} = others /\ key \in Held(table)
        BY <2>4
      <4> QED BY <2>2, <2>3, <3>1, <4>1, <4>2, SumRemove DEF Volume
    <3>3. Volume(table, others) = Volume(entries, others)
      <4>1. IsFiniteSet(others) /\ \A k \in others : table[k]["size"] = entries[k]["size"]
        BY <2>3, <3>1, FS_Subset DEF Held
      <4> QED BY <4>1, SumSame DEF Volume
    <3>4. bytes = old + Volume(entries, others) /\ old \in Nat
      <4>1. bytes = Volume(entries, held)
        BY DEF Books
      <4>2. CASE key \notin held
        <5>1. others = held /\ old = 0
          BY <4>2 DEF Held
        <5>2. Volume(entries, held) \in Nat
          BY <1>0, <3>1, HeldSizes, SumType DEF Volume
        <5> QED BY <4>1, <5>1, <5>2
      <4>3. CASE key \in held
        <5>1. \A k \in held : entries[k]["size"] \in Nat /\ entries[k].size = entries[k]["size"]
          BY <1>0, HeldSizes
        <5>2. old = entries[key]["size"] /\ old \in Nat
          BY <4>3, <5>1 DEF Held
        <5>3. Volume(entries, held) = entries[key]["size"] + Volume(entries, others)
          BY <3>1, <4>3, <5>1, SumRemove DEF Volume
        <5> QED BY <4>1, <5>2, <5>3
      <4> QED BY <4>2, <4>3
    <3>5. Volume(entries, others) \in Nat
      <4>1. IsFiniteSet(others) /\ \A k \in others : entries[k]["size"] \in Nat
        BY <1>0, <3>1, HeldSizes, FS_Subset
      <4> QED BY <4>1, SumType DEF Volume
    <3> DEFINE rest == Volume(entries, others)
    <3>6. Volume(table, Held(table)) = body.size + rest /\ bytes = old + rest
      BY <3>2, <3>3, <3>4
    <3>7. rest \in Nat /\ old \in Nat
      BY <3>4, <3>5
    <3> HIDE DEF rest, old
    <3> QED BY <1>0, <3>6, <3>7
  <2>8. PICK n \in 0..Len(line) :
          LET gone == {line[i] : i \in 1..n}
          IN  /\ entries' = [k \in Keys |-> IF k \in gone THEN Empty ELSE table[k]]
              /\ Held(entries') = Held(table) \ gone
              /\ order' = SubSeq(line, n + 1, Len(line))
              /\ bytes' = Volume(entries', Held(entries')) /\ bytes' <= MaxBytes
              /\ n > 0 => bytes' + table[line[n]].size > MaxBytes
    BY <2>1, <2>3, <2>4, <2>5, <2>7, StoreBooks
  <2> DEFINE gone == {line[i] : i \in 1..n}
  <2>9. /\ gone = ToSet(SubSeq(line, 1, n))
        /\ IsLine(order', Held(entries')) /\ Len(order') = Len(line) - n
        /\ \A i \in 1..Len(order') : order'[i] = line[n + i]
    <3>1. IsLine(line, Held(table))
      BY <2>4, <2>5
    <3>2. /\ ToSet(SubSeq(line, 1, n)) = gone
          /\ IsLine(SubSeq(line, n + 1, Len(line)), Held(table) \ ToSet(SubSeq(line, 1, n)))
          /\ Len(SubSeq(line, n + 1, Len(line))) = Len(line) - n
          /\ \A i \in 1..Len(SubSeq(line, n + 1, Len(line))) :
               SubSeq(line, n + 1, Len(line))[i] = line[n + i]
      BY <3>1, LineFrom
    <3>3. order' = SubSeq(line, n + 1, Len(line)) /\ Held(entries') = Held(table) \ gone
      BY <2>8
    <3> HIDE DEF gone
    <3> QED BY <3>2, <3>3
  <2>10. \A k \in Held(table) : table[k].size <= Limit /\ table[k].size \in Nat
    <3>1. table[key].size <= Limit
      BY <1>0, <1>2, <2>2, <2>3
    <3>2. \A k \in held : k # key => table[k].size <= Limit
      BY <2>3 DEF Books, Held
    <3> QED BY <2>3, <2>4, <3>1, <3>2, HeldSizes
  <2>11. \A k \in Held(entries') : entries'[k].size <= Limit
    BY <2>8, <2>10 DEF Held
  <2>12. Len(line) \in Nat
    BY <2>5, LenProperties DEF IsLine
  <2>13. ASSUME NEW i \in 1..Len(order'), NEW j \in 1..Len(order'), i <= j
         PROVE  usedAt'[order'[i]] <= usedAt'[order'[j]]
    <3>1. n + i \in 1..Len(line) /\ n + j \in 1..Len(line) /\ n + i <= n + j
      BY <2>9, <2>12, <2>13
    <3> QED BY <2>5, <2>6, <2>9, <3>1
  <2>14. Books'
    BY <2>5, <2>6, <2>8, <2>9, <2>11, <2>13 DEF Books
  <2>15. ASSUME NEW j \in Gone, NEW k \in Held(entries')
         PROVE  usedAt[j] <= usedAt'[k]
    <3>1. j \in gone /\ j \in Keys
      BY <2>4, <2>8 DEF Gone, Held
    <3>2. PICK a \in 1..n : j = line[a]
      BY <3>1
    <3>3. PICK i \in 1..Len(order') : k = line[n + i]
      BY <2>9 DEF IsLine
    <3>4. a \in 1..Len(line) /\ n + i \in 1..Len(line) /\ a <= n + i
      BY <2>9, <2>12
    <3>5. used[j] <= used[k]
      BY <2>5, <3>2, <3>3, <3>4
    <3>6. usedAt[j] <= used[j] /\ used[j] \in Nat /\ used[k] \in Nat /\ usedAt[j] \in Nat
      BY <2>5, <3>1 DEF Held, Books
    <3> QED BY <2>6, <3>5, <3>6
  <2>16. ASSUME Gone # {} PROVE bytes' > MaxBytes - Limit
    <3>1. PICK j \in gone : TRUE
      BY <2>4, <2>8, <2>16 DEF Gone
    <3>2. n > 0 /\ n \in 1..Len(line)
      BY <2>12, <3>1
    <3>3. line[n] \in Held(table)
      BY <2>4, <2>5, <3>2 DEF IsLine
    <3>4. bytes' + table[line[n]].size > MaxBytes
      BY <2>8, <3>2
    <3>5. bytes' \in Nat
      <4>1. IsFiniteSet(Held(entries'))
        BY <2>9, LineSize
      <4>2. \A k \in Held(entries') : entries'[k]["size"] \in Nat
        BY <2>3, <2>8, HeldSizes DEF Held
      <4> QED BY <2>8, <4>1, <4>2, SumType DEF Volume
    <3> DEFINE last == table[line[n]].size
    <3>6. last \in Nat /\ last <= Limit /\ bytes' + last > MaxBytes
      BY <2>10, <3>3, <3>4
    <3> HIDE DEF last
    <3>7. \A x, y, m, l \in Nat : x + y > m /\ y <= l => x > m - l
      OBVIOUS
    <3> QED BY <1>0, <3>5, <3>6, <3>7
  <2> QED BY <2>14, <2>15, <2>16
<1> QED BY <1>1, <1>2

LEMMA NextBooks == CacheTypeOK /\ Books /\ [CacheNext]_cacheVars => Books'
<1> SUFFICES ASSUME CacheTypeOK, Books, [CacheNext]_cacheVars PROVE Books'
  OBVIOUS
<1>a. /\ now \in Nat /\ entries \in [Keys -> Entry \cup {Empty}]
      /\ requests \in [Requests -> RequestState]
  BY DEF CacheTypeOK
<1>1. ASSUME NEW r \in Requests, NEW key \in Keys, Hit(r, key)
      PROVE  Books'
  <2> DEFINE line == Append(RemoveFirst(order, key), key)
             used == [usedAt EXCEPT ![key] = now]
  <2>1. /\ order' = line /\ usedAt' = used /\ UNCHANGED <<now, entries, bytes>>
        /\ key \in Held(entries)
    BY <1>1 DEF Hit, Servable, Held
  <2>2. /\ IsLine(line, Held(entries) \cup {key})
        /\ used \in [Keys -> Nat] /\ \A k \in Keys : used[k] <= now
        /\ \A i, j \in 1..Len(line) : i <= j => used[line[i]] <= used[line[j]]
    BY <1>a, UsedLast
  <2>3. Held(entries) \cup {key} = Held(entries)
    BY <2>1
  <2> HIDE DEF line, used
  <2> QED BY <2>1, <2>2, <2>3 DEF Books
<1>2. ASSUME NEW r \in Requests, NEW key \in Keys, Miss(r, key)
      PROVE  Books'
  <2>1. CASE entries[key] = Empty
    <3>1. UNCHANGED <<now, entries, order, bytes, usedAt>>
      BY <1>2, <2>1 DEF Miss, Drop
    <3> QED BY <3>1 DEF Books
  <2>2. CASE entries[key] # Empty
    <3> DEFINE rest == RemoveFirst(order, key)
               held == Held(entries)
    <3>1. /\ entries' = [entries EXCEPT ![key] = Empty] /\ order' = rest
          /\ bytes' = bytes - entries[key].size /\ UNCHANGED <<now, usedAt>>
      BY <1>2, <2>2 DEF Miss, Drop
    <3>2. key \in held /\ Held(entries') = held \ {key}
          /\ \A k \in held \ {key} : entries'[k] = entries[k]
      BY <1>a, <2>2, <3>1 DEF Held
    <3>3. IsLine(order, held)
      BY DEF Books
    <3>4. IsLine(rest, held \ {key}) /\ KeepsOrder(rest, order)
      BY <3>3, LineWithout
    <3>5. IsFiniteSet(held) /\ IsFiniteSet(held \ {key})
      BY <3>3, LineSize, FS_Subset
    <3>6. \A k \in held : entries[k]["size"] \in Nat /\ entries[k].size = entries[k]["size"]
      BY <1>a, HeldSizes
    <3>7. Volume(entries, held) = entries[key]["size"] + Volume(entries, held \ {key})
      BY <3>2, <3>5, <3>6, SumRemove DEF Volume
    <3>8. Volume(entries, held \ {key}) \in Nat
      BY <3>5, <3>6, SumType DEF Volume
    <3>9. Volume(entries', held \ {key}) = Volume(entries, held \ {key})
      BY <3>2, <3>5, SumSame DEF Volume
    <3>10. bytes' = Volume(entries', Held(entries')) /\ bytes' <= MaxBytes
      <4> DEFINE left == Volume(entries, held \ {key})
                 size == entries[key].size
      <4>1. bytes = size + left /\ bytes' = bytes - size /\ bytes <= MaxBytes
        BY <3>1, <3>2, <3>6, <3>7 DEF Books
      <4>2. size \in Nat /\ left \in Nat /\ MaxBytes \in Nat
        BY <3>2, <3>6, <3>8, CacheAssumption
      <4> HIDE DEF left, size
      <4>3. bytes' = left /\ bytes' <= MaxBytes
        BY <4>1, <4>2
      <4> QED BY <3>2, <3>9, <4>3 DEF left
    <3>11. ASSUME NEW i \in 1..Len(order'), NEW j \in 1..Len(order'), i <= j
           PROVE  usedAt'[order'[i]] <= usedAt'[order'[j]]
      <4>1. PICK m \in 1..Len(order), n \in 1..Len(order) :
              m <= n /\ rest[i] = order[m] /\ rest[j] = order[n]
        BY <3>1, <3>4, <3>11 DEF KeepsOrder
      <4> QED BY <3>1, <4>1 DEF Books
    <3>12. /\ \A k \in Held(entries') : entries'[k].size <= Limit
           /\ usedAt' \in [Keys -> Nat] /\ \A k \in Keys : usedAt'[k] <= now'
      BY <3>1, <3>2 DEF Books
    <3>13. IsLine(order', Held(entries'))
      BY <3>1, <3>2, <3>4
    <3> QED BY <3>10, <3>11, <3>12, <3>13 DEF Books
  <2> QED BY <2>1, <2>2
<1>3. ASSUME NEW r \in Requests, NEW size \in Sizes, Read(r, size)
      PROVE  Books'
  BY <1>3 DEF Read, Books
<1>4. ASSUME NEW r \in Requests, Remember(r) PROVE Books'
  <2>1. /\ requests[r].key \in Keys /\ requests[r].size \in Sizes
        /\ requests[r].readAt \in Nat
    BY <1>4, <1>a DEF Remember, RequestState, Idle
  <2>2. Put(requests[r].key, requests[r]) /\ UNCHANGED now
    BY <1>4 DEF Remember
  <2> QED BY <2>1, <2>2, PutBooks
<1>5. ASSUME NEW r \in Requests, Answer(r) PROVE Books'
  BY <1>5 DEF Answer, Books
<1>6. CASE Tick
  <2>1. now' = now + 1 /\ UNCHANGED <<entries, order, bytes, usedAt>>
    BY <1>6 DEF Tick
  <2>2. \A k \in Keys : usedAt[k] \in Nat /\ usedAt[k] <= now + 1
    BY <1>a DEF Books
  <2> QED BY <2>1, <2>2 DEF Books
<1>7. CASE UNCHANGED cacheVars
  BY <1>7 DEF cacheVars, Books
<1> QED BY <1>1, <1>2, <1>3, <1>4, <1>5, <1>6, <1>7 DEF CacheNext

LEMMA CacheInvariant == CacheSpec => [](CacheTypeOK /\ Books)
<1>1. CacheInit => CacheTypeOK /\ Books
  BY InitType, InitBooks
<1>2. CacheTypeOK /\ Books /\ [CacheNext]_cacheVars => (CacheTypeOK /\ Books)'
  BY NextType, NextBooks
<1> QED BY <1>1, <1>2, PTL DEF CacheSpec

(* Whatever hits, expiries, overlapping puts and evictions follow one another, the byte
   counter is the size of the cached bodies, within the budget, and the line of keys
   has exactly the cached ones, each once. *)
THEOREM BooksAlwaysBalance == CacheSpec => []BooksBalance
<1>1. Books => BooksBalance
  <2> SUFFICES ASSUME Books PROVE BooksBalance
    OBVIOUS
  <2>1. IsLine(order, Held(entries))
    BY DEF Books
  <2>2. Cardinality(Held(entries)) = Len(order) /\ ToSet(order) = Held(entries)
    BY <2>1, LineSize
  <2> QED BY <2>2 DEF Books, BooksBalance
<1> QED BY <1>1, CacheInvariant, PTL

(* A request that was read and is now idle has been remembered or only answered *)
LEMMA EvictionStep ==
  CacheTypeOK /\ Books /\ [CacheNext]_cacheVars
    => [\A r \in Requests :
          requests[r].phase = "read" /\ requests'[r] = Idle
            => /\ \A j \in Gone, k \in Held(entries') : usedAt[j] <= usedAt'[k]
               /\ Gone # {} => bytes' > MaxBytes - Limit]_cacheVars
<1> SUFFICES ASSUME CacheTypeOK, Books, CacheNext, NEW r \in Requests,
                    requests[r].phase = "read", requests'[r] = Idle
             PROVE  /\ \A j \in Gone, k \in Held(entries') : usedAt[j] <= usedAt'[k]
                    /\ Gone # {} => bytes' > MaxBytes - Limit
  OBVIOUS
<1>a. requests \in [Requests -> RequestState]
  BY DEF CacheTypeOK
<1>b. requests[r] # Idle /\ requests'[r] # requests[r]
  BY DEF Idle
<1>1. Remember(r) \/ Answer(r)
  <2>1. ASSUME NEW q \in Requests, NEW key \in Keys, Hit(q, key) \/ Miss(q, key)
        PROVE  FALSE
    BY <1>a, <1>b, <2>1 DEF Hit, Miss, Idle
  <2>2. ASSUME NEW q \in Requests, NEW size \in Sizes, Read(q, size)
        PROVE  FALSE
    BY <1>a, <1>b, <2>2 DEF Read, Idle
  <2>3. ASSUME NEW q \in Requests, Remember(q) \/ Answer(q)
        PROVE  q = r
    BY <1>a, <1>b, <2>3 DEF Remember, Answer
  <2>4. ~Tick
    BY <1>b DEF Tick
  <2> QED BY <2>1, <2>2, <2>3, <2>4 DEF CacheNext
<1>2. CASE Remember(r)
  <2>1. /\ requests[r].key \in Keys /\ requests[r].size \in Sizes
        /\ requests[r].readAt \in Nat
    BY <1>2, <1>a DEF Remember, RequestState, Idle
  <2>2. Put(requests[r].key, requests[r]) /\ UNCHANGED now
    BY <1>2 DEF Remember
  <2> QED BY <2>1, <2>2, PutBooks
<1>3. CASE Answer(r)
  <2>1. Gone = {}
    BY <1>3 DEF Answer, Gone
  <2> QED BY <2>1
<1> QED BY <1>1, <1>2, <1>3

(* A put evicts in the order of use and no more than it must, for any sizes, any budget
   and any number of keys: what goes was last used before everything that stays, and the
   cache is left full up to one body's limit. *)
THEOREM EvictionIsFair == CacheSpec => EvictsLeastRecent
<1> QED BY CacheInvariant, EvictionStep, PTL DEF EvictsLeastRecent, CacheSpec

---------------------------------------------------------------------------
(* The order of a search *)

LEMMA BeforeOrders ==
  ASSUME NEW f, NEW table \in Tables
  PROVE  /\ \A c, d \in Crns : c # d => Before(f, table, c, d) \/ Before(f, table, d, c)
         /\ \A c \in Crns : ~Before(f, table, c, c)
         /\ \A c, d, e \in Crns : Before(f, table, c, d) /\ Before(f, table, d, e) => Before(f, table, c, e)
<1>1. \A c \in Crns : c \in Nat /\ table[c].score \in Int
  BY SearchAssumption DEF Tables
<1> QED BY <1>1 DEF Before

Above(f, table, c) == {d \in Listed(f, table) : Before(f, table, d, c)}

LEMMA ListedFinite ==
  ASSUME NEW f, NEW table, NEW S \in SUBSET Listed(f, table)
  PROVE  IsFiniteSet(S) /\ Cardinality(S) \in Nat
<1>1. S \in SUBSET Crns
  BY DEF Listed
<1>2. IsFiniteSet(S)
  BY <1>1, SearchAssumption, FS_Subset
<1> QED BY <1>2, FS_CardinalityType

LEMMA RankIs ==
  ASSUME NEW f, NEW table, NEW c
  PROVE  Rank(f, table, c) = Cardinality(Above(f, table, c)) /\ Rank(f, table, c) \in Nat
<1>1. Above(f, table, c) \in SUBSET Listed(f, table)
  BY DEF Above
<1> QED BY <1>1, ListedFinite DEF Rank, Above

LEMMA RankGrows ==
  ASSUME NEW f, NEW table \in Tables, NEW c \in Listed(f, table), NEW d \in Listed(f, table),
         Before(f, table, c, d)
  PROVE  Rank(f, table, c) < Rank(f, table, d)
<1> DEFINE A == Above(f, table, c)
           B == Above(f, table, d)
<1>1. A \in SUBSET B /\ c \in B /\ c \notin A
  <2>1. Listed(f, table) \subseteq Crns
    BY DEF Listed
  <2> QED BY <2>1, BeforeOrders DEF Above
<1>2. IsFiniteSet(B)
  <2>1. B \in SUBSET Listed(f, table)
    BY DEF Above
  <2> QED BY <2>1, ListedFinite
<1> HIDE DEF A, B
<1>3. Cardinality(A) <= Cardinality(B) /\ Cardinality(A) # Cardinality(B)
  BY <1>1, <1>2, FS_Subset
<1> QED BY <1>3, RankIs DEF A, B

LEMMA RankInjective ==
  ASSUME NEW f, NEW table \in Tables, NEW c \in Listed(f, table), NEW d \in Listed(f, table),
         Rank(f, table, c) = Rank(f, table, d)
  PROVE  c = d
<1>1. c \in Crns /\ d \in Crns
  BY DEF Listed
<1>2. Rank(f, table, c) \in Nat
  BY RankIs
<1> QED BY <1>1, <1>2, RankGrows, BeforeOrders

(* No more than n rows have n smaller ranks *)
LEMMA FewBelow ==
  ASSUME NEW f, NEW table \in Tables, NEW m \in Nat, NEW n \in Nat, m <= n,
         NEW S \in SUBSET Listed(f, table),
         \A c \in S : m <= Rank(f, table, c) /\ Rank(f, table, c) < n
  PROVE  Cardinality(S) <= n - m
<1>1. SUFFICES ASSUME Cardinality(S) > n - m PROVE FALSE
  BY ListedFinite
<1> DEFINE T == m..(n - 1)
           g == [c \in S |-> Rank(f, table, c)]
<1>2. IsFiniteSet(T) /\ Cardinality(T) = n - m
  <2>1. m \in Int /\ n - 1 \in Int
    OBVIOUS
  <2>2. IsFiniteSet(T) /\ Cardinality(T) = (IF m > n - 1 THEN 0 ELSE (n - 1) - m + 1)
    BY <2>1, FS_Interval
  <2> QED BY <2>2
<1>3. g \in [S -> T]
  BY RankIs
<1>4. IsFiniteSet(S)
  BY ListedFinite
<1>5. PICK x, y \in S : x # y /\ g[x] = g[y]
  <2> HIDE DEF g, T
  <2> QED BY <1>1, <1>2, <1>3, <1>4, FS_PigeonHole
<1> QED BY <1>5, RankInjective

(* The rows that the first n of a filter's order are *)
Top(f, n, table) == {c \in Listed(f, table) : Rank(f, table, c) < n}

LEMMA RankBelowCount ==
  ASSUME NEW f, NEW table \in Tables, NEW c \in Listed(f, table)
  PROVE  Rank(f, table, c) < Cardinality(Listed(f, table))
<1> DEFINE A == Above(f, table, c)
           B == Listed(f, table)
<1>1. A \in SUBSET B /\ c \notin A
  <2>1. c \in Crns
    BY DEF Listed
  <2> QED BY <2>1, BeforeOrders DEF Above
<1>2. IsFiniteSet(B) /\ Cardinality(B) \in Nat /\ Cardinality(A) \in Nat
  BY <1>1, ListedFinite
<1> HIDE DEF A, B
<1>3. Cardinality(A) <= Cardinality(B) /\ Cardinality(A) # Cardinality(B)
  BY <1>1, <1>2, FS_Subset DEF B
<1> QED BY <1>2, <1>3, RankIs DEF A, B

(* A page that is not full is the last one *)
LEMMA ShortPageIsLast ==
  ASSUME NEW f, NEW table \in Tables, NEW offset \in Nat,
         Cardinality(PageOf(f, offset, table)) < PageSize
  PROVE  \A c \in Listed(f, table) : Rank(f, table, c) < offset + PageSize
<1> DEFINE L == Listed(f, table)
           R(c) == Rank(f, table, c)
           end == offset + PageSize
           Beyond == {c \in L : R(c) >= end}
<1>1. SUFFICES ASSUME Beyond # {} PROVE FALSE
  <2>1. \A c \in L : R(c) \in Nat
    BY RankIs
  <2> QED BY <1>1, <2>1, SearchAssumption
<1>2. PageSize \in Nat
  BY SearchAssumption
<1>3. PICK c \in Beyond : \A d \in Beyond : R(c) <= R(d)
  <2> DEFINE Ranks == {R(d) : d \in Beyond}
  <2>1. Ranks \in SUBSET Nat /\ Ranks # {}
    BY <1>1, RankIs
  <2>2. PICK m \in Ranks : \A n \in Ranks : m <= n
    <3> HIDE DEF Ranks
    <3> QED BY <2>1, NatHasLeast
  <2> QED BY <2>2
<1>4. c \in L /\ R(c) >= end /\ R(c) \in Nat
  BY <1>3, RankIs
<1> DEFINE A == Above(f, table, c)
           Page == PageOf(f, offset, table)
           Rest == {d \in L : R(d) < offset}
<1>5. A \in SUBSET L /\ Page \in SUBSET L /\ Rest \in SUBSET L
  BY DEF Above, PageOf
<1>6. A \subseteq Rest \cup Page
  <2> SUFFICES ASSUME NEW d \in A PROVE d \in Rest \cup Page
    OBVIOUS
  <2>1. d \in L /\ Before(f, table, d, c)
    BY DEF Above
  <2>2. R(d) < R(c) /\ R(d) \in Nat
    BY <1>4, <2>1, RankGrows, RankIs
  <2>3. d \notin Beyond
    BY <1>3, <1>4, <2>2
  <2>4. R(d) < end
    BY <1>2, <2>1, <2>2, <2>3
  <2>5. CASE R(d) < offset
    BY <2>1, <2>5
  <2>6. CASE R(d) >= offset
    <3>1. R(d) \in offset..(offset + PageSize - 1)
      BY <1>2, <2>2, <2>4, <2>6
    <3> QED BY <2>1, <3>1 DEF PageOf
  <2> QED BY <2>2, <2>5, <2>6
<1>7. Cardinality(Rest) <= offset - 0
  <2>1. \A d \in Rest : 0 <= R(d) /\ R(d) < offset
    BY RankIs
  <2> HIDE DEF Rest
  <2> QED BY <1>5, <2>1, FewBelow
<1>8. /\ IsFiniteSet(Rest) /\ IsFiniteSet(Page) /\ IsFiniteSet(A)
      /\ Cardinality(Rest) \in Nat /\ Cardinality(Page) \in Nat /\ Cardinality(A) \in Nat
  BY <1>5, ListedFinite
<1>9. Cardinality(A) = R(c)
  BY RankIs
<1> HIDE DEF A, Rest, Page
<1>10. /\ IsFiniteSet(Rest \cup Page)
       /\ Cardinality(Rest \cup Page) = Cardinality(Rest) + Cardinality(Page) - Cardinality(Rest \cap Page)
  BY <1>8, FS_Union
<1>11. Cardinality(Rest \cap Page) \in Nat
  BY <1>8, FS_Intersection, FS_CardinalityType
<1>12. Cardinality(A) <= Cardinality(Rest \cup Page)
  BY <1>6, <1>10, FS_Subset
<1>13. Cardinality(Page) < PageSize
  BY DEF Page
<1> QED BY <1>2, <1>4, <1>7, <1>8, <1>9, <1>10, <1>11, <1>12, <1>13

(* An offset at which a page is asked for *)
Offsets == {n \in 0..MaxSections : n < MaxSections /\ \E k \in 0..MaxSections : n = k * PageSize}

LEMMA OffsetsStep ==
  ASSUME NEW n \in Offsets
  PROVE  /\ n \in Nat
         /\ n + PageSize >= MaxSections => n + PageSize = MaxSections
         /\ n + PageSize < MaxSections => n + PageSize \in Offsets
<1>1. PageSize \in Nat \ {0} /\ MaxSections \in Nat
  BY SearchAssumption
<1>2. PICK pages \in 1..MaxSections : MaxSections = pages * PageSize
  BY SearchAssumption
<1>3. PICK k \in 0..MaxSections : n = k * PageSize
  BY DEF Offsets
<1>4. n \in Nat /\ n < MaxSections /\ k \in Nat /\ pages \in Nat
  BY <1>1 DEF Offsets
<1>5. n + PageSize = (k + 1) * PageSize
  BY <1>1, <1>3, <1>4
<1>6. k < pages
  <2> SUFFICES ASSUME k >= pages PROVE FALSE
    BY <1>4
  <2>1. k * PageSize >= pages * PageSize
    BY <1>1, <1>4
  <2> QED BY <1>1, <1>2, <1>3, <1>4, <2>1
<1>7. CASE k + 1 = pages
  <2>1. n + PageSize = MaxSections
    BY <1>2, <1>5, <1>7
  <2>2. ~(n + PageSize < MaxSections)
    BY <1>1, <1>4, <2>1
  <2> QED BY <1>4, <2>1, <2>2
<1>8. CASE k + 1 < pages
  <2>1. pages * PageSize = (k + 2) * PageSize + (pages - (k + 2)) * PageSize
    BY <1>1, <1>4
  <2>2. (pages - (k + 2)) * PageSize >= 0
    BY <1>1, <1>4, <1>8
  <2>3. (k + 2) * PageSize = (k + 1) * PageSize + PageSize
    BY <1>1, <1>4
  <2>4. n + PageSize < MaxSections
    BY <1>1, <1>2, <1>4, <1>5, <2>1, <2>2, <2>3
  <2>5. k + 1 \in 0..MaxSections
    <3>1. k + 1 <= MaxSections
      BY <1>2, <1>4, <1>8
    <3> QED BY <1>4, <3>1
  <2>6. n + PageSize \in 0..MaxSections /\ ~(n + PageSize >= MaxSections)
    BY <1>1, <1>4, <2>4
  <2>7. n + PageSize \in Offsets
    <3>1. \E j \in 0..MaxSections : n + PageSize = j * PageSize
      BY <1>5, <2>5
    <3> QED BY <2>4, <2>6, <3>1 DEF Offsets
  <2> QED BY <1>4, <2>6, <2>7
<1>9. k + 1 = pages \/ k + 1 < pages
  BY <1>4, <1>6
<1> QED BY <1>7, <1>8, <1>9

LEMMA ZeroOffset == 0 \in Offsets
<1>1. MaxSections \in Nat /\ MaxSections > 0 /\ 0 = 0 * PageSize
  BY SearchAssumption
<1> QED BY <1>1 DEF Offsets

(* A page adds the next rows of the order *)
LEMMA PageAdds ==
  ASSUME NEW f, NEW table, NEW offset \in Nat
  PROVE  Top(f, offset, table) \cup PageOf(f, offset, table) = Top(f, offset + PageSize, table)
<1>1. PageSize \in Nat \ {0} /\ \A c : Rank(f, table, c) \in Nat
  BY SearchAssumption, RankIs
<1> QED BY <1>1 DEF Top, PageOf

(* The client stops where a filter has no more rows, or at its limit *)
LEMMA LastPageCompletes ==
  ASSUME NEW f, NEW table \in Tables, NEW offset \in Offsets, NEW body,
         body.items = PageOf(f, offset, table), body.total = Cardinality(Listed(f, table))
  PROVE  Top(f, offset, table) \cup body.items =
           Top(f, IF IsLastPage(offset, body) THEN MaxSections ELSE offset + PageSize, table)
<1>1. offset \in Nat /\ PageSize \in Nat /\ MaxSections \in Nat
  BY OffsetsStep, SearchAssumption
<1>2. \A c : Rank(f, table, c) \in Nat
  BY RankIs
<1>3. Top(f, offset, table) \cup body.items = Top(f, offset + PageSize, table)
  BY <1>1, PageAdds
<1>4. ASSUME \A c \in Listed(f, table) : Rank(f, table, c) < offset + PageSize,
             offset + PageSize <= MaxSections
      PROVE  Top(f, offset + PageSize, table) = Top(f, MaxSections, table)
  BY <1>1, <1>2, <1>4 DEF Top
<1>5. offset + PageSize <= MaxSections
  BY <1>1, OffsetsStep
<1>6. CASE Cardinality(body.items) < PageSize
  <2>1. \A c \in Listed(f, table) : Rank(f, table, c) < offset + PageSize
    BY <1>1, <1>6, ShortPageIsLast
  <2>2. IsLastPage(offset, body)
    BY <1>6 DEF IsLastPage
  <2> QED BY <1>3, <1>4, <1>5, <2>1, <2>2
<1>7. CASE offset + PageSize >= body.total
  <2>0. Cardinality(Listed(f, table)) \in Nat
    BY ListedFinite
  <2>1. \A c \in Listed(f, table) : Rank(f, table, c) < offset + PageSize
    BY <1>1, <1>2, <1>7, <2>0, RankBelowCount
  <2>2. IsLastPage(offset, body)
    BY <1>7 DEF IsLastPage
  <2> QED BY <1>3, <1>4, <1>5, <2>1, <2>2
<1>8. CASE offset + PageSize >= MaxSections
  <2>1. offset + PageSize = MaxSections
    BY <1>8, OffsetsStep
  <2>2. IsLastPage(offset, body)
    BY <1>8 DEF IsLastPage
  <2> QED BY <1>3, <2>1, <2>2
<1> QED BY <1>3, <1>6, <1>7, <1>8 DEF IsLastPage

---------------------------------------------------------------------------
(* What discovery offers *)

(* No course has more sections than the client loads of one filter *)
CoursesFit ==
  \A course \in Courses : Cardinality({c \in Crns : CourseOf[c] = course}) <= MaxSections

LEMMA CourseRankFits ==
  ASSUME CoursesFit, NEW table \in Tables, NEW course \in Courses, NEW f,
         f.kind # "code", f.keys = {course}, NEW c \in Listed(f, table)
  PROVE  c \in Top(f, MaxSections, table)
<1> DEFINE S == {d \in Crns : CourseOf[d] = course}
<1>1. Listed(f, table) \in SUBSET S
  BY DEF Listed
<1>2. IsFiniteSet(S)
  <2>1. S \in SUBSET Crns
    OBVIOUS
  <2> QED BY <2>1, SearchAssumption, FS_Subset
<1>3. Cardinality(S) <= MaxSections
  BY DEF CoursesFit
<1> HIDE DEF S
<1>4. Cardinality(Listed(f, table)) <= Cardinality(S)
  BY <1>1, <1>2, FS_Subset
<1>5. Cardinality(Listed(f, table)) \in Nat /\ Cardinality(S) \in Nat /\ MaxSections \in Nat
  BY <1>2, ListedFinite, FS_CardinalityType, SearchAssumption
<1>6. Rank(f, table, c) < Cardinality(Listed(f, table)) /\ Rank(f, table, c) \in Nat
  BY RankBelowCount, RankIs
<1> QED BY <1>3, <1>4, <1>5, <1>6 DEF Top

(* Two rules for the teacher of a section agree where discovery names one *)
LEMMA AssignedIsCurrent ==
  ASSUME NEW names, Assigned(names) # NoName
  PROVE  CurrentName(names) = Assigned(names)
<1>1. Cardinality(Folded(names)) = 1 /\ Folded(names) \cap Unavailable = {}
  BY DEF Assigned
<1>2. Blank \notin names
  BY <1>1, SearchAssumption DEF Folded
<1>3. names \ {Blank} = names
  BY <1>2
<1> QED BY <1>1, <1>3 DEF Assigned, CurrentName

LEMMA OffersFound ==
  ASSUME CoursesFit, NEW table \in Tables, NEW c \in OfferedTo(table)
  PROVE  \E f \in SectionFilters(table) : c \in Top(f, MaxSections, table)
<1> DEFINE course == CourseOf[c]
           name == Assigned(table[c].names)
           m == [course |-> course, name |-> name]
           offered == {k \in CoursePage : CurrentSections(k, table) # {}}
<1>1. c \in Crns /\ ~table[c].removed /\ course \in Courses
  BY SearchAssumption DEF OfferedTo
<1>2. c \in CurrentSections(course, table)
  BY <1>1 DEF CurrentSections
<1>3. CASE course \in CoursePage
  <2>1. CourseFilter(course) \in SectionFilters(table)
    BY <1>2, <1>3 DEF SectionFilters
  <2>2. c \in Listed(CourseFilter(course), table)
    BY <1>1 DEF Listed, CourseFilter, Filter
  <2>3. CourseFilter(course).kind # "code" /\ CourseFilter(course).keys = {course}
    BY DEF CourseFilter, Filter
  <2> QED BY <1>1, <2>1, <2>2, <2>3, CourseRankFits
<1>4. CASE course \notin CoursePage
  <2>1. m \in PeoplePage(table)
    BY <1>4 DEF OfferedTo
  <2>2. m \in [course : Courses, name : NameHits]
    BY <2>1 DEF PeoplePage, MatchedPeople
  <2>3. name # NoName
    <3>1. name \in NameHits
      BY <2>2
    <3> QED BY <3>1, SearchAssumption
  <2>4. c \in TaughtBy(course, name, table)
    BY <1>2 DEF TaughtBy
  <2>5. m.course = course /\ m.name = name /\ m.course \notin offered
    BY <1>4
  <2>6. PersonFilter(course, name) \in SectionFilters(table)
    BY <2>1, <2>4, <2>5 DEF SectionFilters
  <2>7. CurrentName(table[c].names) = name
    BY <2>3, AssignedIsCurrent
  <2>8. c \in Listed(PersonFilter(course, name), table)
    BY <1>1, <2>7 DEF Listed, PersonFilter, Filter
  <2>9. PersonFilter(course, name).kind # "code" /\ PersonFilter(course, name).keys = {course}
    BY DEF PersonFilter, Filter
  <2> QED BY <1>1, <2>6, <2>8, <2>9, CourseRankFits
<1> QED BY <1>3, <1>4

---------------------------------------------------------------------------
(* The invariant of a load, over the committed states so far *)

(* What an answer says was read of which states *)
BodyFits(history, f, offset, body) ==
  IF f = Discovery
  THEN /\ body.seen \subseteq DOMAIN history
       /\ \E w \in body.seen : body.items = SectionFilters(history[w])
  ELSE \E u, w \in DOMAIN history :
         /\ body.seen = {u, w}
         /\ body.items = PageOf(f, offset, history[w])
         /\ body.total = Total(f, history[u])

TaskFits(history, f, task) ==
  /\ {"phase", "offset"} \subseteq DOMAIN task
  /\ task.phase \in {"ask", "count", "page", "answer", "done"}
  /\ task.offset \in Offsets
  /\ task.phase = "page" =>
       task.counted \in DOMAIN history /\ task.total = Total(f, history[task.counted])
  /\ task.phase = "answer" => BodyFits(history, f, task.offset, task.body)

(* A load asks for the filters of its route, or discovers, or asks for what was offered *)
Own(load) == load.route.view # "text" /\ DOMAIN load.tasks = load.route.filters
Discovers(load) == DOMAIN load.tasks = {Discovery} /\ load.merged = {}
OffersAsked(history, load) ==
  \E w \in load.seen : DOMAIN load.tasks = SectionFilters(history[w])

LoadFits(history, load) ==
  /\ DOMAIN load = {"route", "merged", "seen", "failed", "tasks"}
  /\ load.route \in Routes /\ load.failed \in BOOLEAN
  /\ load.seen \subseteq DOMAIN history
  /\ \/ Own(load)
     \/ load.route.view \in {"text", "subject"} /\ (Discovers(load) \/ OffersAsked(history, load))
  /\ \A f \in DOMAIN load.tasks : TaskFits(history, f, load.tasks[f])
  /\ ~load.failed /\ Discovery \in DOMAIN load.tasks => load.tasks[Discovery].phase # "done"

(* What is merged was listed in a state that was read *)
MergedFits(history, load) ==
  Own(load) => \A c \in load.merged :
                 \E v \in load.seen, f \in DOMAIN load.tasks : c \in Listed(f, history[v])

(* A load that has seen no answer, and one that has seen a single state: of each filter
   it has the first rows, as far as it has come *)
Fresh(load) ==
  /\ load.merged = {}
  /\ \A f \in DOMAIN load.tasks : load.tasks[f].phase # "done" /\ load.tasks[f].offset = 0
  /\ load.route.view = "subject" => Own(load)

Reached(task) == IF task.phase = "done" THEN MaxSections ELSE task.offset

QuietIn(load, table) ==
  /\ load.merged =
       UNION {Top(f, Reached(load.tasks[f]), table) : f \in DOMAIN load.tasks \ {Discovery}}
  /\ load.route.view = "subject" /\ ~Own(load) => Expected(load.route, table) = {}

QuietFits(history, load) ==
  ~load.failed => /\ load.seen = {} => Fresh(load)
                  /\ \A v \in DOMAIN history : load.seen = {v} => QuietIn(load, history[v])

LoadOK(history, load) ==
  LoadFits(history, load) /\ MergedFits(history, load) /\ QuietFits(history, load)

---------------------------------------------------------------------------
(* Each step of a load keeps it *)

LEMMA FilterKinds ==
  /\ \A route \in Routes : \A f \in route.filters : f.kind \in {"code", "course", "person", "subject"}
  /\ \A table : \A f \in SectionFilters(table) : f.kind \in {"course", "person"}
  /\ Discovery.kind = "discovery"
<1>1. \A route \in Routes : \A f \in route.filters : f.kind \in {"code", "course", "person", "subject"}
  BY RoutesAssumption
<1>2. \A table : \A f \in SectionFilters(table) : f.kind \in {"course", "person"}
  BY DEF SectionFilters, CourseFilter, PersonFilter, Filter
<1>3. Discovery.kind = "discovery"
  BY DEF Discovery, Filter
<1> QED BY <1>1, <1>2, <1>3

LEMMA NeverDiscovery ==
  /\ \A route \in Routes : Discovery \notin route.filters
  /\ \A table : Discovery \notin SectionFilters(table)
  /\ \A route \in Routes : \A table : route.view = "subject" => SectionFilters(table) # route.filters
<1>1. /\ \A route \in Routes : Discovery \notin route.filters
      /\ \A table : Discovery \notin SectionFilters(table)
  <2>1. ~("discovery" \in {"code", "course", "person", "subject"}) /\ ~("discovery" \in {"course", "person"})
    OBVIOUS
  <2> QED BY <2>1, FilterKinds
<1>2. ASSUME NEW route \in Routes, NEW table, route.view = "subject"
      PROVE  SectionFilters(table) # route.filters
  <2>1. PICK f \in route.filters : f.kind = "subject"
    BY <1>2, RoutesAssumption
  <2>2. f \notin SectionFilters(table)
    BY <2>1, FilterKinds
  <2> QED BY <2>1, <2>2
<1> QED BY <1>1, <1>2

LEMMA FreshIsQuiet ==
  ASSUME NEW load, Fresh(load), NEW table
  PROVE  QuietIn(load, table)
<1>1. \A f : Top(f, 0, table) = {}
  BY RankIs DEF Top
<1>2. \A f \in DOMAIN load.tasks : Reached(load.tasks[f]) = 0
  BY DEF Fresh, Reached
<1> QED BY <1>1, <1>2 DEF QuietIn, Fresh

LEMMA QuietBefore ==
  ASSUME NEW history, NEW load, QuietFits(history, load), ~load.failed,
         NEW v \in DOMAIN history, load.seen \subseteq {v}
  PROVE  QuietIn(load, history[v])
<1>1. CASE load.seen = {}
  BY <1>1, FreshIsQuiet DEF QuietFits
<1>2. CASE load.seen = {v}
  BY <1>2 DEF QuietFits
<1> QED BY <1>1, <1>2

LEMMA NewLoadOK ==
  ASSUME NEW history, NEW route \in Routes
  PROVE  LoadOK(history, NewLoad(route)) /\ NewLoad(route).route = route
<1> DEFINE load == NewLoad(route)
           asked == IF route.view = "text" THEN {Discovery} ELSE route.filters
<1>1. /\ DOMAIN load = {"route", "merged", "seen", "failed", "tasks"}
      /\ load.route = route /\ load.merged = {} /\ load.seen = {} /\ load.failed = FALSE
      /\ load.tasks = Asked(asked)
  BY DEF NewLoad
<1>2. DOMAIN load.tasks = asked
  BY <1>1 DEF Asked
<1>3. \A f \in asked : load.tasks[f] = [phase |-> "ask", offset |-> 0]
  BY <1>1 DEF Asked
<1> HIDE DEF load
<1>4. \A f \in DOMAIN load.tasks : TaskFits(history, f, load.tasks[f])
  BY <1>2, <1>3, ZeroOffset DEF TaskFits
<1>5. Own(load) \/ (load.route.view = "text" /\ Discovers(load))
  BY <1>1, <1>2 DEF Own, Discovers
<1>6. LoadFits(history, load)
  <2>1. /\ load.route \in Routes /\ load.failed \in BOOLEAN
        /\ load.seen \subseteq DOMAIN history
    BY <1>1
  <2>2. \/ Own(load)
        \/ load.route.view \in {"text", "subject"} /\ (Discovers(load) \/ OffersAsked(history, load))
    BY <1>5
  <2>3. Discovery \in DOMAIN load.tasks => load.tasks[Discovery].phase # "done"
    BY <1>2, <1>3
  <2> QED BY <1>1, <1>4, <2>1, <2>2, <2>3 DEF LoadFits
<1>7. Fresh(load)
  BY <1>1, <1>2, <1>3, <1>5 DEF Fresh
<1>8. QuietFits(history, load) /\ MergedFits(history, load)
  BY <1>1, <1>7 DEF QuietFits, MergedFits
<1> QED BY <1>1, <1>6, <1>8 DEF LoadOK, load

(* A request gets on without an answer being merged *)
LEMMA TaskStepOK ==
  ASSUME NEW history, NEW load, LoadOK(history, load), NEW f \in DOMAIN load.tasks, NEW task,
         TaskFits(history, f, task), task.offset = load.tasks[f].offset,
         task.phase # "done", load.tasks[f].phase # "done"
  PROVE  LET after == [load EXCEPT !.tasks[f] = task]
         IN  LoadOK(history, after) /\ after.route = load.route
<1> DEFINE after == [load EXCEPT !.tasks[f] = task]
<1>1. /\ DOMAIN after = DOMAIN load /\ after.route = load.route /\ after.merged = load.merged
      /\ after.seen = load.seen /\ after.failed = load.failed
      /\ DOMAIN after.tasks = DOMAIN load.tasks
      /\ \A g \in DOMAIN load.tasks : after.tasks[g] = IF g = f THEN task ELSE load.tasks[g]
  BY DEF LoadOK, LoadFits
<1> HIDE DEF after
<1>2. Own(after) <=> Own(load)
  BY <1>1 DEF Own
<1>3. LoadFits(history, after)
  BY <1>1, <1>2 DEF LoadOK, LoadFits, Discovers, OffersAsked
<1>4. MergedFits(history, after)
  BY <1>1, <1>2 DEF LoadOK, MergedFits
<1>5. \A g \in DOMAIN load.tasks : Reached(after.tasks[g]) = Reached(load.tasks[g])
  BY <1>1 DEF Reached
<1>6. \A table : QuietIn(load, table) => QuietIn(after, table)
  BY <1>1, <1>2, <1>5 DEF QuietIn
<1>7. Fresh(load) => Fresh(after)
  BY <1>1, <1>2 DEF Fresh
<1>8. QuietFits(history, after)
  BY <1>1, <1>6, <1>7 DEF LoadOK, QuietFits
<1> QED BY <1>1, <1>3, <1>4, <1>8 DEF LoadOK, after

(* A page is merged *)
LEMMA MergeOK ==
  ASSUME NEW history, \A v \in DOMAIN history : history[v] \in Tables,
         NEW load, LoadOK(history, load), NEW f \in DOMAIN load.tasks, f # Discovery,
         load.tasks[f].phase = "answer"
  PROVE  LoadOK(history, Merge(load, f)) /\ Merge(load, f).route = load.route
<1> DEFINE task == load.tasks[f]
           body == load.tasks[f].body
           next == IF IsLastPage(task.offset, body)
                   THEN [phase |-> "done", offset |-> task.offset]
                   ELSE [phase |-> "ask", offset |-> task.offset + PageSize]
           after == Merge(load, f)
<1>1. /\ DOMAIN after = DOMAIN load /\ after.route = load.route
      /\ after.merged = load.merged \cup body.items
      /\ after.seen = load.seen \cup body.seen /\ after.failed = load.failed
      /\ DOMAIN after.tasks = DOMAIN load.tasks
      /\ \A g \in DOMAIN load.tasks : after.tasks[g] = IF g = f THEN next ELSE load.tasks[g]
  BY DEF LoadOK, LoadFits, Merge
<1> HIDE DEF after
<1>2. TaskFits(history, f, task) /\ task.offset \in Offsets
  BY DEF LoadOK, LoadFits, TaskFits
<1>3. PICK u \in DOMAIN history, w \in DOMAIN history :
        /\ body.seen = {u, w} /\ body.items = PageOf(f, task.offset, history[w])
        /\ body.total = Total(f, history[u])
  BY <1>2 DEF TaskFits, BodyFits
<1>4. body.total = Cardinality(Listed(f, history[u]))
  BY <1>3 DEF Total
<1>5. Own(after) <=> Own(load)
  BY <1>1 DEF Own
<1>6. TaskFits(history, f, next)
  <2>1. CASE IsLastPage(task.offset, body)
    BY <1>2, <2>1 DEF TaskFits
  <2>2. CASE ~IsLastPage(task.offset, body)
    <3>1. task.offset + PageSize < MaxSections
      <4>1. ~(task.offset + PageSize >= MaxSections)
        BY <2>2 DEF IsLastPage
      <4> QED BY <1>2, <4>1, OffsetsStep, SearchAssumption
    <3>2. task.offset + PageSize \in Offsets
      BY <1>2, <3>1, OffsetsStep
    <3> QED BY <2>2, <3>2 DEF TaskFits
  <2> QED BY <2>1, <2>2
<1>7. LoadFits(history, after)
  <2>1. after.seen \subseteq DOMAIN history
    BY <1>1, <1>3 DEF LoadOK, LoadFits
  <2>2. \A g \in DOMAIN after.tasks : TaskFits(history, g, after.tasks[g])
    BY <1>1, <1>6 DEF LoadOK, LoadFits
  <2>3. ~after.failed /\ Discovery \in DOMAIN after.tasks => after.tasks[Discovery].phase # "done"
    BY <1>1 DEF LoadOK, LoadFits
  <2>4. ~Discovers(load)
    BY DEF Discovers
  <2>5. OffersAsked(history, load) => OffersAsked(history, after)
    BY <1>1 DEF OffersAsked
  <2> HIDE DEF next
  <2> QED BY <1>1, <1>5, <2>1, <2>2, <2>3, <2>4, <2>5 DEF LoadOK, LoadFits
<1>8. MergedFits(history, after)
  <2>1. \A c \in body.items : c \in Listed(f, history[w])
    BY <1>3 DEF PageOf
  <2> HIDE DEF next
  <2> QED BY <1>1, <1>3, <1>5, <2>1 DEF LoadOK, MergedFits
<1>9. QuietFits(history, after)
  <2> SUFFICES ASSUME ~after.failed PROVE /\ after.seen # {}
                                         /\ \A v \in DOMAIN history : after.seen = {v} => QuietIn(after, history[v])
    BY DEF QuietFits
  <2>1. after.seen # {}
    BY <1>1, <1>3
  <2>2. ASSUME NEW v \in DOMAIN history, after.seen = {v} PROVE QuietIn(after, history[v])
    <3>1. u = v /\ w = v /\ load.seen \subseteq {v}
      BY <1>1, <1>3, <2>2
    <3>2. QuietIn(load, history[v])
      BY <1>1, <3>1, QuietBefore DEF LoadOK
    <3> DEFINE table == history[v]
               T == DOMAIN load.tasks \ {Discovery}
    <3>3. table \in Tables
      OBVIOUS
    <3>4. \A g \in T : g # f => Reached(after.tasks[g]) = Reached(load.tasks[g])
      BY <1>1 DEF Reached
    <3>5. Reached(load.tasks[f]) = task.offset
      BY DEF Reached
    <3>6. Reached(after.tasks[f]) =
            IF IsLastPage(task.offset, body) THEN MaxSections ELSE task.offset + PageSize
      BY <1>1 DEF Reached
    <3>7. Top(f, task.offset, table) \cup body.items = Top(f, Reached(after.tasks[f]), table)
      <4> HIDE DEF table, next
      <4> QED BY <1>2, <1>3, <1>4, <3>1, <3>3, <3>6, LastPageCompletes DEF table
    <3>8. load.merged = UNION {Top(g, Reached(load.tasks[g]), table) : g \in T}
      BY <3>2 DEF QuietIn
    <3>9. after.merged = UNION {Top(g, Reached(after.tasks[g]), table) : g \in T}
      <4> DEFINE Had(g) == Top(g, Reached(load.tasks[g]), table)
                 Has(g) == Top(g, Reached(after.tasks[g]), table)
      <4>1. \A g \in T : g # f => Had(g) = Has(g)
        BY <3>4
      <4>2. f \in T /\ Had(f) \cup body.items = Has(f)
        BY <3>5, <3>7
      <4>3. load.merged = UNION {Had(g) : g \in T}
        BY <3>8
      <4> HIDE DEF Had, Has, T
      <4>4. load.merged \cup body.items = UNION {Has(g) : g \in T}
        BY <4>1, <4>2, <4>3
      <4> QED BY <1>1, <4>4 DEF Has
    <3>10. after.route.view = "subject" /\ ~Own(after) => Expected(after.route, table) = {}
      BY <1>1, <1>5, <3>2 DEF QuietIn
    <3> QED BY <1>1, <3>9, <3>10 DEF QuietIn
  <2> QED BY <2>1, <2>2
<1> QED BY <1>1, <1>7, <1>8, <1>9 DEF LoadOK, after

(* The filters that were offered are asked for *)
LEMMA OffersOK ==
  ASSUME NEW history, NEW load, LoadOK(history, load), Discovery \in DOMAIN load.tasks,
         load.tasks[Discovery].phase = "answer"
  PROVE  LET after == WithFilters(load, load.tasks[Discovery].body)
         IN  /\ LoadOK(history, after) /\ after.route = load.route
             /\ ~FallsBack(after)
<1> DEFINE body == load.tasks[Discovery].body
           after == WithFilters(load, body)
<1>1. /\ DOMAIN after = DOMAIN load /\ after.route = load.route /\ after.merged = load.merged
      /\ after.seen = load.seen \cup body.seen /\ after.failed = load.failed
      /\ after.tasks = Asked(body.items)
  BY DEF LoadOK, LoadFits, WithFilters
<1> HIDE DEF after
<1>2. load.route \in Routes
  BY DEF LoadOK, LoadFits
<1>3. body.seen \subseteq DOMAIN history /\ \E w \in body.seen : body.items = SectionFilters(history[w])
  BY DEF LoadOK, LoadFits, TaskFits, BodyFits
<1>4. PICK w \in body.seen : body.items = SectionFilters(history[w])
  BY <1>3
<1>5. ~Own(load) /\ ~OffersAsked(history, load)
  BY <1>2, NeverDiscovery DEF Own, OffersAsked
<1>6. load.merged = {} /\ load.route.view \in {"text", "subject"} /\ DOMAIN load.tasks = {Discovery}
  BY <1>5 DEF LoadOK, LoadFits, Discovers
<1>7. /\ DOMAIN after.tasks = body.items
      /\ \A f \in body.items : after.tasks[f] = [phase |-> "ask", offset |-> 0]
  BY <1>1 DEF Asked
<1>8. OffersAsked(history, after)
  BY <1>1, <1>4, <1>7 DEF OffersAsked
<1>9. \A f \in DOMAIN after.tasks : TaskFits(history, f, after.tasks[f])
  BY <1>7, ZeroOffset DEF TaskFits
<1>10. Discovery \notin DOMAIN after.tasks
  BY <1>4, <1>7, NeverDiscovery
<1>11. LoadFits(history, after)
  BY <1>1, <1>3, <1>6, <1>8, <1>9, <1>10 DEF LoadOK, LoadFits
<1>12. MergedFits(history, after)
  BY <1>1, <1>6 DEF MergedFits
<1>13. QuietFits(history, after)
  <2> SUFFICES ASSUME ~after.failed PROVE /\ after.seen # {}
                                         /\ \A v \in DOMAIN history : after.seen = {v} => QuietIn(after, history[v])
    BY DEF QuietFits
  <2>1. after.seen # {}
    BY <1>1, <1>4
  <2>2. ASSUME NEW v \in DOMAIN history, after.seen = {v} PROVE QuietIn(after, history[v])
    <3>1. QuietIn(load, history[v])
      BY <1>1, <2>2, QuietBefore DEF LoadOK
    <3>2. \A f : Top(f, 0, history[v]) = {}
      BY RankIs DEF Top
    <3>3. \A f \in DOMAIN after.tasks : Reached(after.tasks[f]) = 0
      BY <1>7 DEF Reached
    <3>4. after.merged = UNION {Top(f, Reached(after.tasks[f]), history[v]) : f \in DOMAIN after.tasks \ {Discovery}}
      BY <1>1, <1>6, <3>2, <3>3
    <3> QED BY <1>1, <1>5, <3>1, <3>4 DEF QuietIn
  <2> QED BY <2>1, <2>2
<1>14. ~FallsBack(after)
  BY <1>1, <1>2, <1>4, <1>7, NeverDiscovery DEF FallsBack
<1> QED BY <1>1, <1>11, <1>12, <1>13, <1>14 DEF LoadOK, after

(* The page of a subject without sections hands over to discovery *)
LEMMA FallbackOK ==
  ASSUME NEW history, NEW load, LoadOK(history, load), AllDone(load), FallsBack(load)
  PROVE  LET after == [load EXCEPT !.tasks = Asked({Discovery})]
         IN  LoadOK(history, after) /\ after.route = load.route
<1> DEFINE after == [load EXCEPT !.tasks = Asked({Discovery})]
<1>1. /\ DOMAIN after = DOMAIN load /\ after.route = load.route /\ after.merged = load.merged
      /\ after.seen = load.seen /\ after.failed = load.failed
      /\ after.tasks = Asked({Discovery})
  BY DEF LoadOK, LoadFits
<1> HIDE DEF after
<1>2. /\ DOMAIN after.tasks = {Discovery}
      /\ after.tasks[Discovery] = [phase |-> "ask", offset |-> 0]
  BY <1>1 DEF Asked
<1>3. /\ load.route \in Routes /\ load.route.view = "subject" /\ load.merged = {}
      /\ DOMAIN load.tasks = load.route.filters
  BY DEF FallsBack, LoadOK, LoadFits
<1>4. Discovery \notin load.route.filters /\ load.route.filters # {}
  BY <1>3, NeverDiscovery, RoutesAssumption
<1>5. ~Own(after) /\ Own(load)
  BY <1>1, <1>2, <1>3, <1>4 DEF Own
<1>6. LoadFits(history, after)
  <2>1. Discovers(after)
    BY <1>1, <1>2, <1>3 DEF Discovers
  <2>2. \A f \in DOMAIN after.tasks : TaskFits(history, f, after.tasks[f])
    BY <1>2, ZeroOffset DEF TaskFits
  <2>3. after.tasks[Discovery].phase # "done"
    BY <1>2
  <2>4. after.route.view \in {"text", "subject"}
    BY <1>1, <1>3
  <2> QED BY <1>1, <2>1, <2>2, <2>3, <2>4 DEF LoadOK, LoadFits
<1>7. MergedFits(history, after)
  BY <1>5 DEF MergedFits
<1>8. QuietFits(history, after)
  <2> SUFFICES ASSUME ~after.failed PROVE /\ after.seen # {}
                                         /\ \A v \in DOMAIN history : after.seen = {v} => QuietIn(after, history[v])
    BY DEF QuietFits
  <2>1. ~Fresh(load)
    BY <1>3, <1>4 DEF Fresh, AllDone
  <2>2. after.seen # {}
    BY <1>1, <2>1 DEF LoadOK, QuietFits
  <2>3. ASSUME NEW v \in DOMAIN history, after.seen = {v} PROVE QuietIn(after, history[v])
    <3>1. QuietIn(load, history[v])
      BY <1>1, <2>3, QuietBefore DEF LoadOK
    <3>2. \A f \in load.route.filters : Reached(load.tasks[f]) = MaxSections
      BY <1>3 DEF AllDone, Reached
    <3>3. UNION {Top(f, Reached(load.tasks[f]), history[v]) : f \in load.route.filters} = {}
      <4>1. DOMAIN load.tasks \ {Discovery} = load.route.filters
        BY <1>3, <1>4
      <4> QED BY <1>3, <3>1, <4>1 DEF QuietIn
    <3>4. \A f \in load.route.filters : FirstOf(f, history[v]) = {}
      BY <3>2, <3>3 DEF FirstOf, Top
    <3>5. Expected(after.route, history[v]) = {}
      BY <1>1, <3>4 DEF Expected
    <3>6. {Top(f, Reached(after.tasks[f]), history[v]) : f \in DOMAIN after.tasks \ {Discovery}} = {}
      BY <1>2
    <3>7. after.merged = {}
      BY <1>1, <1>3
    <3> QED BY <3>5, <3>6, <3>7 DEF QuietIn
  <2> QED BY <2>2, <2>3
<1> QED BY <1>1, <1>6, <1>7, <1>8 DEF LoadOK, after

(* A request fails *)
LEMMA FailureOK ==
  ASSUME NEW history, NEW load, LoadOK(history, load), NEW f \in DOMAIN load.tasks
  PROVE  LET after == [load EXCEPT !.failed = TRUE, !.tasks[f].phase = "done"]
         IN  LoadOK(history, after) /\ after.route = load.route /\ ~AllDone(after)
<1> DEFINE after == [load EXCEPT !.failed = TRUE, !.tasks[f].phase = "done"]
           task == [load.tasks[f] EXCEPT !.phase = "done"]
<1>1. /\ DOMAIN after = DOMAIN load /\ after.route = load.route /\ after.merged = load.merged
      /\ after.seen = load.seen /\ after.failed = TRUE
      /\ DOMAIN after.tasks = DOMAIN load.tasks
      /\ \A g \in DOMAIN load.tasks : after.tasks[g] = IF g = f THEN task ELSE load.tasks[g]
  BY DEF LoadOK, LoadFits
<1>2. TaskFits(history, f, load.tasks[f])
  BY DEF LoadOK, LoadFits
<1>3. DOMAIN task = DOMAIN load.tasks[f] /\ task.phase = "done" /\ task.offset = load.tasks[f].offset
  BY <1>2 DEF TaskFits
<1> HIDE DEF after, task
<1>4. TaskFits(history, f, task)
  BY <1>2, <1>3 DEF TaskFits
<1>5. Own(after) <=> Own(load)
  BY <1>1 DEF Own
<1>6. LoadFits(history, after)
  BY <1>1, <1>4, <1>5 DEF LoadOK, LoadFits, Discovers, OffersAsked
<1>7. MergedFits(history, after)
  BY <1>1, <1>5 DEF LoadOK, MergedFits
<1>8. QuietFits(history, after) /\ ~AllDone(after)
  BY <1>1 DEF QuietFits, AllDone
<1> QED BY <1>1, <1>6, <1>7, <1>8 DEF LoadOK, after

(* More states are committed *)
Grows(old, new) ==
  DOMAIN old \subseteq DOMAIN new /\ \A v \in DOMAIN old : new[v] = old[v]

LEMMA BodyStays ==
  ASSUME NEW old, NEW new, Grows(old, new), NEW f, NEW offset, NEW body, BodyFits(old, f, offset, body)
  PROVE  BodyFits(new, f, offset, body)
<1>1. CASE f = Discovery
  BY <1>1 DEF BodyFits, Grows
<1>2. CASE f # Discovery
  BY <1>2 DEF BodyFits, Grows
<1> QED BY <1>1, <1>2

LEMMA LoadStays ==
  ASSUME NEW old, NEW new, Grows(old, new), NEW load, LoadOK(old, load)
  PROVE  LoadOK(new, load)
<1>1. load.seen \subseteq DOMAIN old /\ load.seen \subseteq DOMAIN new
  BY DEF LoadOK, LoadFits, Grows
<1>2. \A f \in DOMAIN load.tasks : TaskFits(new, f, load.tasks[f])
  <2> SUFFICES ASSUME NEW f \in DOMAIN load.tasks PROVE TaskFits(new, f, load.tasks[f])
    OBVIOUS
  <2>1. TaskFits(old, f, load.tasks[f])
    BY DEF LoadOK, LoadFits
  <2> QED BY <2>1, BodyStays DEF TaskFits, Grows
<1>3. OffersAsked(old, load) => OffersAsked(new, load)
  BY <1>1 DEF OffersAsked, Grows
<1>4. LoadFits(new, load)
  BY <1>1, <1>2, <1>3 DEF LoadOK, LoadFits
<1>5. MergedFits(new, load)
  BY <1>1 DEF LoadOK, MergedFits, Grows
<1>6. QuietFits(new, load)
  <2> SUFFICES ASSUME ~load.failed, NEW v \in DOMAIN new, load.seen = {v} PROVE QuietIn(load, new[v])
    BY DEF LoadOK, QuietFits
  <2>1. v \in DOMAIN old /\ new[v] = old[v]
    BY <1>1 DEF Grows
  <2> QED BY <2>1 DEF LoadOK, QuietFits
<1> QED BY <1>4, <1>5, <1>6 DEF LoadOK

---------------------------------------------------------------------------
(* The invariant *)

CacheFits(history, answers) ==
  \A key \in DOMAIN answers : BodyFits(history, key[1], key[2], answers[key])

(* What is shown is what the current load has merged, and it has ended *)
ViewFits ==
  /\ DOMAIN view = {"status", "route", "crns", "seen"}
  /\ view.status \in {"home", "loading", "error", "ready"}
  /\ loads = <<>> => view.status = "home"
  /\ loads # <<>> => view.status # "home" /\ view.route = loads[current].route
  /\ view.status = "ready" =>
       /\ AllDone(loads[current]) /\ ~FallsBack(loads[current])
       /\ view.crns = loads[current].merged /\ view.seen = loads[current].seen

HistoryFits == tables \in Seq(Tables) /\ tables # <<>>
LoadsFit == loads \in Seq({loads[l] : l \in DOMAIN loads}) /\ \A l \in DOMAIN loads : LoadOK(tables, loads[l])

SearchInv == HistoryFits /\ CacheFits(tables, cache) /\ LoadsFit /\ ViewFits

LEMMA InitSearch == Init => SearchInv
<1> SUFFICES ASSUME Init PROVE SearchInv
  OBVIOUS
<1>1. HistoryFits
  <2>1. PICK table \in FirstTables : tables = <<table>>
    BY DEF Init
  <2>2. table \in Tables
    BY RoutesAssumption
  <2> QED BY <2>1, <2>2 DEF HistoryFits
<1>2. CacheFits(tables, cache)
  BY DEF Init, CacheFits
<1>3. LoadsFit
  BY DEF Init, LoadsFit
<1>4. ViewFits
  BY DEF Init, ViewFits
<1> QED BY <1>1, <1>2, <1>3, <1>4 DEF SearchInv

LEMMA Versions ==
  ASSUME SearchInv
  PROVE  /\ version \in DOMAIN tables /\ DOMAIN tables = 1..version /\ version \in Nat
         /\ current \in Nat /\ DOMAIN loads = 1..current
         /\ loads # <<>> <=> current \in DOMAIN loads
         /\ \A v \in DOMAIN tables : tables[v] \in Tables
<1>1. tables \in Seq(Tables) /\ tables # <<>>
  BY DEF SearchInv, HistoryFits
<1>2. Len(tables) \in Nat /\ DOMAIN tables = 1..Len(tables) /\ Len(tables) # 0
  BY <1>1, LenProperties, EmptySeq
<1>3. \A v \in DOMAIN tables : tables[v] \in Tables
  BY <1>1, <1>2, ElementOfSeq
<1> DEFINE S == {loads[l] : l \in DOMAIN loads}
<1>4. loads \in Seq(S)
  BY DEF SearchInv, LoadsFit
<1> HIDE DEF S
<1>5. Len(loads) \in Nat /\ DOMAIN loads = 1..Len(loads) /\ (Len(loads) = 0 <=> loads = <<>>)
  BY <1>4, LenProperties, EmptySeq
<1>6. loads # <<>> <=> Len(loads) \in DOMAIN loads
  BY <1>5
<1> QED BY <1>2, <1>3, <1>5, <1>6 DEF version, current

(* A load changes in place *)
LEMMA LoadsChange ==
  ASSUME SearchInv, UNCHANGED tables, NEW l \in DOMAIN loads, NEW after,
         loads' = [loads EXCEPT ![l] = after], LoadOK(tables, after)
  PROVE  /\ LoadsFit' /\ HistoryFits' /\ current' = current /\ DOMAIN loads' = DOMAIN loads
         /\ loads'[l] = after /\ \A k \in DOMAIN loads : k # l => loads'[k] = loads[k]
<1>1. /\ DOMAIN loads' = DOMAIN loads /\ loads'[l] = after
      /\ \A k \in DOMAIN loads : k # l => loads'[k] = loads[k]
  OBVIOUS
<1>2. DOMAIN loads = 1..current /\ current \in Nat
  BY Versions
<1> DEFINE S == {loads'[k] : k \in DOMAIN loads'}
<1>3. loads' \in [1..current -> S]
  BY <1>1, <1>2
<1>4. loads' \in Seq(S)
  <2> HIDE DEF S
  <2> QED BY <1>2, <1>3, SeqDef
<1>5. \A k \in DOMAIN loads' : LoadOK(tables, loads'[k])
  BY <1>1 DEF SearchInv, LoadsFit
<1>6. current' = current
  <2>1. Len(loads') \in Nat /\ DOMAIN loads' = 1..Len(loads')
    <3> HIDE DEF S
    <3> QED BY <1>4, LenProperties
  <2> QED BY <1>1, <1>2, <2>1 DEF current
<1> QED BY <1>1, <1>4, <1>5, <1>6 DEF LoadsFit, HistoryFits, SearchInv

(* While the view is not settled anew, it shows nothing of a load that still works *)
LEMMA ViewStays ==
  ASSUME SearchInv, UNCHANGED view, NEW l \in DOMAIN loads, NEW after,
         current' = current, DOMAIN loads' = DOMAIN loads, loads # <<>>, loads' # <<>>,
         loads'[l] = after, \A k \in DOMAIN loads : k # l => loads'[k] = loads[k],
         after.route = loads[l].route, ~AllDone(loads[l])
  PROVE  ViewFits'
<1>1. current \in DOMAIN loads
  BY Versions
<1>2. loads'[current].route = loads[current].route
  BY <1>1
<1>3. view.status = "ready" => current # l
  BY DEF SearchInv, ViewFits
<1>4. view.status = "ready" => loads'[current] = loads[current]
  BY <1>1, <1>3
<1> QED BY <1>2, <1>4 DEF SearchInv, ViewFits

LEMMA NavigateKeeps ==
  ASSUME SearchInv, NEW route \in Routes, Navigate(route)
  PROVE  SearchInv'
<1> DEFINE load == NewLoad(route)
           S == {loads[l] : l \in DOMAIN loads}
           R == S \cup {load}
<1>1. /\ loads' = Append(loads, load) /\ UNCHANGED <<tables, cache>>
      /\ view' = [status |-> "loading", route |-> route, crns |-> {}, seen |-> {}]
  BY DEF Navigate
<1>2. LoadOK(tables, load) /\ load.route = route
  BY NewLoadOK
<1>3. loads \in Seq(R)
  <2>1. loads \in Seq(S)
    BY DEF SearchInv, LoadsFit
  <2> HIDE DEF S
  <2>2. S \subseteq R
    OBVIOUS
  <2> HIDE DEF R
  <2> QED BY <2>1, <2>2, SeqMonotonic
<1>4. DOMAIN loads = 1..current /\ current \in Nat
  BY Versions
<1>5. /\ Len(loads') = current + 1 /\ DOMAIN loads' = 1..(current + 1)
      /\ loads'[current + 1] = load
      /\ \A l \in 1..current : loads'[l] = loads[l]
  <2>1. load \in R
    OBVIOUS
  <2> HIDE DEF R, load
  <2> QED BY <1>1, <1>3, <1>4, <2>1, AppendProperties, LenProperties DEF current
<1>6. current' = current + 1 /\ current' \in DOMAIN loads'
  BY <1>4, <1>5 DEF current
<1> HIDE DEF load
<1>7. \A l \in DOMAIN loads' : LoadOK(tables, loads'[l])
  BY <1>2, <1>4, <1>5 DEF SearchInv, LoadsFit
<1>8. loads' \in Seq({loads'[l] : l \in DOMAIN loads'})
  <2> DEFINE S2 == {loads'[l] : l \in DOMAIN loads'}
  <2>1. loads' \in [1..(current + 1) -> S2]
    <3>1. loads' \in Seq(R)
      BY <1>1, <1>3, AppendProperties
    <3> HIDE DEF R
    <3>2. loads' = [l \in DOMAIN loads' |-> loads'[l]]
      BY <3>1, LenProperties
    <3> QED BY <1>5, <3>2
  <2>2. current + 1 \in Nat
    BY <1>4
  <2> HIDE DEF S2
  <2> QED BY <2>1, <2>2, SeqDef DEF S2
<1>9. LoadsFit' /\ HistoryFits' /\ CacheFits(tables, cache)'
  BY <1>1, <1>7, <1>8 DEF SearchInv, LoadsFit, HistoryFits
<1>10. loads' # <<>>
  BY <1>5, <1>6
<1>11. ViewFits'
  BY <1>1, <1>2, <1>5, <1>6, <1>10 DEF ViewFits
<1> QED BY <1>9, <1>11 DEF SearchInv

LEMMA RetryKeeps ==
  ASSUME SearchInv, Retry
  PROVE  SearchInv'
<1>1. view.status = "error" /\ Navigate(view.route)
  BY DEF Retry
<1>2. loads # <<>> /\ view.route = loads[current].route
  BY <1>1 DEF SearchInv, ViewFits
<1>3. view.route \in Routes
  BY <1>2, Versions DEF SearchInv, LoadsFit, LoadOK, LoadFits
<1> QED BY <1>1, <1>3, NavigateKeeps

(* A request gets on *)
LEMMA RequestKeeps ==
  ASSUME SearchInv, NEW l \in DOMAIN loads, NEW f \in DOMAIN loads[l].tasks, NEW task,
         SetTask(l, f, task), UNCHANGED <<tables, view>>,
         TaskFits(tables, f, task), task.offset = loads[l].tasks[f].offset,
         task.phase # "done", Phase(l, f) # "done", CacheFits(tables, cache')
  PROVE  SearchInv'
<1> DEFINE after == [loads[l] EXCEPT !.tasks[f] = task]
<1>1. loads' = [loads EXCEPT ![l] = after]
  BY DEF SetTask
<1>2. LoadOK(tables, loads[l])
  BY DEF SearchInv, LoadsFit
<1>3. LoadOK(tables, after) /\ after.route = loads[l].route
  BY <1>2, TaskStepOK DEF Phase
<1> HIDE DEF after
<1>4. ~AllDone(loads[l])
  BY DEF AllDone, Phase
<1>5. /\ LoadsFit' /\ HistoryFits' /\ current' = current /\ DOMAIN loads' = DOMAIN loads
      /\ loads'[l] = after /\ \A k \in DOMAIN loads : k # l => loads'[k] = loads[k]
  BY <1>1, <1>3, LoadsChange
<1>6. loads # <<>> /\ loads' # <<>>
  BY <1>5
<1>7. ViewFits'
  BY <1>3, <1>4, <1>5, <1>6, ViewStays
<1> QED BY <1>5, <1>7 DEF SearchInv

LEMMA AskKeeps ==
  ASSUME SearchInv, NEW l \in DOMAIN loads, NEW f \in DOMAIN loads[l].tasks, Ask(l, f)
  PROVE  SearchInv'
<1> DEFINE key == Request(l, f)
           task == loads[l].tasks[f]
<1>1. Phase(l, f) = "ask" /\ UNCHANGED <<tables, cache, view>>
  BY DEF Ask
<1>2. task.offset \in Offsets
  BY DEF SearchInv, LoadsFit, LoadOK, LoadFits, TaskFits
<1>3. CacheFits(tables, cache')
  BY <1>1 DEF SearchInv
<1>4. CASE key \in DOMAIN cache /\ SetTask(l, f, [phase |-> "answer", offset |-> task.offset, body |-> cache[key]])
  <2>1. BodyFits(tables, f, task.offset, cache[key])
    BY <1>4 DEF SearchInv, CacheFits, Request
  <2>2. TaskFits(tables, f, [phase |-> "answer", offset |-> task.offset, body |-> cache[key]])
    BY <1>2, <2>1 DEF TaskFits
  <2> QED BY <1>1, <1>3, <1>4, <2>2, RequestKeeps
<1>5. CASE SetTask(l, f, [phase |-> "count", offset |-> task.offset])
  <2>1. TaskFits(tables, f, [phase |-> "count", offset |-> task.offset])
    BY <1>2 DEF TaskFits
  <2> QED BY <1>1, <1>3, <1>5, <2>1, RequestKeeps
<1> QED BY <1>4, <1>5 DEF Ask

LEMMA CountKeeps ==
  ASSUME SearchInv, NEW l \in DOMAIN loads, NEW f \in DOMAIN loads[l].tasks, CountRows(l, f)
  PROVE  SearchInv'
<1> DEFINE task == [phase |-> "page", offset |-> loads[l].tasks[f].offset,
                    total |-> Total(f, tables[version]), counted |-> version]
<1>1. Phase(l, f) = "count" /\ SetTask(l, f, task) /\ UNCHANGED <<tables, cache, view>>
  BY DEF CountRows
<1>2. loads[l].tasks[f].offset \in Offsets
  BY DEF SearchInv, LoadsFit, LoadOK, LoadFits, TaskFits
<1>3. TaskFits(tables, f, task)
  BY <1>2, Versions DEF TaskFits
<1>4. CacheFits(tables, cache')
  BY <1>1 DEF SearchInv
<1> QED BY <1>1, <1>3, <1>4, RequestKeeps

LEMMA ReadKeeps ==
  ASSUME SearchInv, NEW l \in DOMAIN loads, NEW f \in DOMAIN loads[l].tasks, ReadPage(l, f)
  PROVE  SearchInv'
<1> DEFINE task == loads[l].tasks[f]
           items == IF f = Discovery THEN SectionFilters(tables[version])
                    ELSE PageOf(f, task.offset, tables[version])
           body == [items |-> items, total |-> task.total, seen |-> {task.counted, version}]
           after == [phase |-> "answer", offset |-> task.offset, body |-> body]
<1>1. /\ Phase(l, f) = "page" /\ SetTask(l, f, after) /\ UNCHANGED <<tables, view>>
      /\ cache' = [key \in DOMAIN cache \cup {Request(l, f)} |->
                     IF key = Request(l, f) THEN body ELSE cache[key]]
  BY DEF ReadPage
<1>2. TaskFits(tables, f, task)
  BY DEF SearchInv, LoadsFit, LoadOK, LoadFits
<1>3. task.counted \in DOMAIN tables /\ task.total = Total(f, tables[task.counted])
  BY <1>1, <1>2 DEF TaskFits, Phase
<1>4. version \in DOMAIN tables
  BY Versions
<1>5. BodyFits(tables, f, task.offset, body)
  BY <1>3, <1>4 DEF BodyFits
<1> HIDE DEF body
<1>6. TaskFits(tables, f, after)
  BY <1>2, <1>5 DEF TaskFits
<1>7. CacheFits(tables, cache')
  <2> SUFFICES ASSUME NEW key \in DOMAIN cache'
               PROVE  BodyFits(tables, key[1], key[2], cache'[key])
    BY DEF CacheFits
  <2>1. CASE key = Request(l, f)
    BY <1>1, <1>5, <2>1 DEF Request
  <2>2. CASE key # Request(l, f)
    BY <1>1, <2>2 DEF SearchInv, CacheFits
  <2> QED BY <2>1, <2>2
<1> QED BY <1>1, <1>6, <1>7, RequestKeeps

(* An answer is merged, and the page is settled when it was the last one *)
LEMMA SettleKeeps ==
  ASSUME SearchInv, NEW l \in DOMAIN loads, NEW after, UNCHANGED <<tables, cache>>,
         loads' = [loads EXCEPT ![l] = after], LoadOK(tables, after),
         after.route = loads[l].route, ~AllDone(loads[l]),
         AllDone(after) /\ l = current => ~FallsBack(after),
         IF AllDone(after) THEN Settle(l, after) ELSE UNCHANGED view
  PROVE  SearchInv'
<1>1. /\ LoadsFit' /\ HistoryFits' /\ current' = current /\ DOMAIN loads' = DOMAIN loads
      /\ loads'[l] = after /\ \A k \in DOMAIN loads : k # l => loads'[k] = loads[k]
  BY LoadsChange
<1>2. loads # <<>> /\ loads' # <<>>
  BY <1>1
<1>3. CASE UNCHANGED view
  <2>1. ViewFits'
    BY <1>1, <1>2, <1>3, ViewStays
  <2> QED BY <1>1, <2>1 DEF SearchInv
<1>4. CASE /\ AllDone(after) /\ l = current
           /\ view' = [status |-> "ready", route |-> view.route, crns |-> after.merged, seen |-> after.seen]
  <2>1. view.route = loads[current].route
    BY <1>2 DEF SearchInv, ViewFits
  <2>2. ViewFits'
    BY <1>1, <1>2, <1>4, <2>1 DEF ViewFits
  <2> QED BY <1>1, <2>2 DEF SearchInv
<1> QED BY <1>3, <1>4 DEF Settle

LEMMA ReceiveDiscoveryKeeps ==
  ASSUME SearchInv, NEW l \in DOMAIN loads, ReceiveDiscovery(l)
  PROVE  SearchInv'
<1> DEFINE load == loads[l]
           after == WithFilters(load, load.tasks[Discovery].body)
<1>1. /\ Discovery \in DOMAIN load.tasks /\ load.tasks[Discovery].phase = "answer"
      /\ loads' = [loads EXCEPT ![l] = after] /\ UNCHANGED <<tables, cache>>
      /\ IF AllDone(after) THEN Settle(l, after) ELSE UNCHANGED view
  BY DEF ReceiveDiscovery, Phase
<1>2. LoadOK(tables, load)
  BY DEF SearchInv, LoadsFit
<1>3. LoadOK(tables, after) /\ after.route = load.route /\ ~FallsBack(after)
  BY <1>1, <1>2, OffersOK
<1>4. ~AllDone(load)
  BY <1>1 DEF AllDone
<1> HIDE DEF after
<1> QED BY <1>1, <1>3, <1>4, SettleKeeps

LEMMA ReceivePageKeeps ==
  ASSUME SearchInv, NEW l \in DOMAIN loads, NEW f \in DOMAIN loads[l].tasks, ReceivePage(l, f)
  PROVE  SearchInv'
<1> DEFINE load == Merge(loads[l], f)
           fallback == [load EXCEPT !.tasks = Asked({Discovery})]
<1>1. f # Discovery /\ loads[l].tasks[f].phase = "answer" /\ UNCHANGED <<tables, cache>>
  BY DEF ReceivePage, Phase
<1>2. LoadOK(tables, loads[l])
  BY DEF SearchInv, LoadsFit
<1>3. LoadOK(tables, load) /\ load.route = loads[l].route
  BY <1>1, <1>2, Versions, MergeOK
<1>4. ~AllDone(loads[l])
  BY <1>1 DEF AllDone
<1>5. CASE AllDone(load) /\ FallsBack(load) /\ l = current
  <2>1. loads' = [loads EXCEPT ![l] = fallback] /\ UNCHANGED view
    BY <1>5 DEF ReceivePage
  <2>2. LoadOK(tables, fallback) /\ fallback.route = loads[l].route
    BY <1>3, <1>5, FallbackOK
  <2>3. ~AllDone(fallback)
    <3>1. fallback.tasks = Asked({Discovery})
      BY <1>3 DEF LoadOK, LoadFits
    <3>2. Discovery \in DOMAIN fallback.tasks /\ fallback.tasks[Discovery].phase = "ask"
      BY <3>1 DEF Asked
    <3> HIDE DEF fallback
    <3> QED BY <3>2 DEF AllDone
  <2> HIDE DEF fallback
  <2> QED BY <1>1, <1>4, <2>1, <2>2, <2>3, SettleKeeps
<1>6. CASE ~(AllDone(load) /\ FallsBack(load) /\ l = current)
  <2>1. /\ loads' = [loads EXCEPT ![l] = load]
        /\ IF AllDone(load) THEN Settle(l, load) ELSE UNCHANGED view
    BY <1>6 DEF ReceivePage
  <2> HIDE DEF load
  <2> QED BY <1>1, <1>3, <1>4, <1>6, <2>1, SettleKeeps
<1> QED BY <1>5, <1>6

LEMMA FailKeeps ==
  ASSUME SearchInv, NEW l \in DOMAIN loads, NEW f \in DOMAIN loads[l].tasks, FailRequest(l, f)
  PROVE  SearchInv'
<1> DEFINE after == [loads[l] EXCEPT !.failed = TRUE, !.tasks[f].phase = "done"]
<1>1. /\ l = current /\ UNCHANGED <<tables, cache>>
      /\ loads' = [loads EXCEPT ![l].failed = TRUE, ![l].tasks[f].phase = "done"]
      /\ view' = [view EXCEPT !.status = "error"]
  BY DEF FailRequest, ReportError
<1>2. LoadOK(tables, loads[l])
  BY DEF SearchInv, LoadsFit
<1>3. LoadOK(tables, after) /\ after.route = loads[l].route
  BY <1>2, FailureOK
<1>4. loads' = [loads EXCEPT ![l] = after]
  BY <1>1, <1>2 DEF LoadOK, LoadFits
<1> HIDE DEF after
<1>5. /\ LoadsFit' /\ HistoryFits' /\ current' = current /\ DOMAIN loads' = DOMAIN loads
      /\ loads'[l] = after /\ \A k \in DOMAIN loads : k # l => loads'[k] = loads[k]
  BY <1>1, <1>3, <1>4, LoadsChange
<1>6. loads # <<>> /\ loads' # <<>>
  BY <1>5
<1>7. ViewFits'
  BY <1>1, <1>3, <1>5, <1>6 DEF SearchInv, ViewFits
<1> QED BY <1>1, <1>5, <1>7 DEF SearchInv

LEMMA CommitKeeps ==
  ASSUME SearchInv, CommitSweep
  PROVE  SearchInv'
<1>1. PICK table \in Tables : tables' = Append(tables, table)
  BY DEF CommitSweep
<1>2. UNCHANGED <<cache, loads, view>>
  BY DEF CommitSweep
<1>3. tables \in Seq(Tables)
  BY DEF SearchInv, HistoryFits
<1>4. /\ tables' \in Seq(Tables) /\ Len(tables') = Len(tables) + 1
      /\ \A i \in 1..Len(tables) : tables'[i] = tables[i]
  BY <1>1, <1>3, AppendProperties
<1>5. DOMAIN tables = 1..Len(tables) /\ DOMAIN tables' = 1..Len(tables') /\ Len(tables) \in Nat
  BY <1>3, <1>4, LenProperties
<1>6. Grows(tables, tables')
  BY <1>4, <1>5 DEF Grows
<1>7. HistoryFits'
  <2>1. tables' # <<>>
    BY <1>4, <1>5, EmptySeq
  <2> QED BY <1>4, <2>1 DEF HistoryFits
<1>8. CacheFits(tables', cache')
  BY <1>2, <1>6, BodyStays DEF SearchInv, CacheFits
<1>9. LoadsFit'
  BY <1>2, <1>6, LoadStays DEF SearchInv, LoadsFit
<1>10. ViewFits'
  BY <1>2 DEF SearchInv, ViewFits, current
<1> QED BY <1>7, <1>8, <1>9, <1>10 DEF SearchInv

LEMMA StepSearch == SearchInv /\ [Next]_searchVars => SearchInv'
<1> SUFFICES ASSUME SearchInv, [Next]_searchVars PROVE SearchInv'
  OBVIOUS
<1>1. CASE Next
  BY <1>1, NavigateKeeps, RetryKeeps, AskKeeps, CountKeeps, ReadKeeps, ReceivePageKeeps,
     FailKeeps, ReceiveDiscoveryKeeps, CommitKeeps DEF Next
<1>2. CASE UNCHANGED searchVars
  BY <1>2 DEF searchVars, SearchInv, HistoryFits, CacheFits, LoadsFit, ViewFits, current
<1> QED BY <1>1, <1>2

LEMMA SearchInvariant == Spec => []SearchInv
BY InitSearch, StepSearch, PTL DEF Spec

LEMMA ListedFollows == SearchInv => ShownWasListed
<1> SUFFICES ASSUME SearchInv, view.status = "ready", view.route.view = "area", NEW c \in view.crns
             PROVE  \E v \in loads[current].seen, f \in view.route.filters : c \in Listed(f, tables[v])
  BY DEF ShownWasListed
<1>1. loads # <<>> /\ view.route = loads[current].route /\ view.crns = loads[current].merged
  BY DEF SearchInv, ViewFits
<1>2. LoadOK(tables, loads[current])
  BY <1>1, Versions DEF SearchInv, LoadsFit
<1>3. Own(loads[current])
  BY <1>1, <1>2 DEF LoadOK, LoadFits
<1> QED BY <1>1, <1>2, <1>3 DEF LoadOK, MergedFits, Own

(* A section that an area's page shows was listed by the route in one of the states that
   the route's own load has read, whatever was committed, cached or left behind. *)
THEOREM ShownWereListed == Spec => []ShownWasListed
BY SearchInvariant, ListedFollows, PTL

LEMMA QuietFollows ==
  ASSUME CoursesFit
  PROVE  SearchInv => QuietLoadIsExact
<1> SUFFICES ASSUME SearchInv, NEW v \in DOMAIN tables, view.status = "ready", view.seen = {v}
             PROVE  LET expected == Expected(view.route, tables[v])
                    IN IF view.route.view = "text" \/ (view.route.view = "subject" /\ expected = {})
                       THEN OfferedTo(tables[v]) \subseteq view.crns
                       ELSE view.crns = expected
  BY DEF QuietLoadIsExact
<1> DEFINE load == loads[current]
           table == tables[v]
           T == DOMAIN load.tasks
<1>1. /\ loads # <<>> /\ view.route = load.route /\ view.crns = load.merged /\ load.seen = {v}
      /\ AllDone(load) /\ ~FallsBack(load)
  BY DEF SearchInv, ViewFits
<1>2. LoadOK(tables, load) /\ table \in Tables
  BY <1>1, Versions DEF SearchInv, LoadsFit
<1>3. ~load.failed /\ \A f \in T : load.tasks[f].phase = "done"
  BY <1>1 DEF AllDone
<1>4. Discovery \notin T
  BY <1>2, <1>3 DEF LoadOK, LoadFits
<1>5. QuietIn(load, table)
  BY <1>1, <1>2, <1>3 DEF LoadOK, QuietFits
<1>6. load.merged = UNION {FirstOf(f, table) : f \in T}
  <2>1. \A f \in T : Top(f, Reached(load.tasks[f]), table) = FirstOf(f, table)
    BY <1>3 DEF Reached, Top, FirstOf
  <2>2. T \ {Discovery} = T
    BY <1>4
  <2>3. load.merged = UNION {Top(f, Reached(load.tasks[f]), table) : f \in T}
    BY <1>5, <2>2 DEF QuietIn
  <2> HIDE DEF load, table, T
  <2> QED BY <2>1, <2>3
<1>7. CASE Own(load)
  <2>1. load.merged = Expected(load.route, table)
    BY <1>6, <1>7 DEF Own, Expected
  <2>2. load.route.view # "text" /\ (load.route.view = "subject" => load.merged # {})
    BY <1>1, <1>7 DEF Own, FallsBack
  <2> QED BY <1>1, <2>1, <2>2
<1>8. CASE ~Own(load)
  <2>1. load.route.view \in {"text", "subject"}
    BY <1>2, <1>8 DEF LoadOK, LoadFits
  <2>2. load.route.view = "subject" => Expected(load.route, table) = {}
    BY <1>5, <1>8 DEF QuietIn
  <2>3. T = SectionFilters(table)
    BY <1>1, <1>2, <1>4, <1>8 DEF LoadOK, LoadFits, Discovers, OffersAsked
  <2>4. OfferedTo(table) \subseteq load.merged
    <3> SUFFICES ASSUME NEW c \in OfferedTo(table) PROVE c \in load.merged
      OBVIOUS
    <3>1. PICK f \in SectionFilters(table) : c \in Top(f, MaxSections, table)
      BY <1>2, OffersFound
    <3>2. c \in FirstOf(f, table)
      BY <3>1 DEF Top, FirstOf
    <3> HIDE DEF load, table, T
    <3> QED BY <1>6, <2>3, <3>1, <3>2
  <2> QED BY <1>1, <2>1, <2>2, <2>4
<1> QED BY <1>7, <1>8

(* A page whose answers all come from one committed state shows exactly what the route
   lists in it, up to the client's limit; for a text, at least all sections of the courses
   and by the people on discovery's page, which is cut to DiscoveryLimit of each.  The
   latter needs that no course has more sections than the client asks for. *)
THEOREM QuietLoadsAreExact ==
  ASSUME CoursesFit
  PROVE  Spec => []QuietLoadIsExact
BY SearchInvariant, QuietFollows, PTL

---------------------------------------------------------------------------
(* What LoadEnds rests on beside fairness: each answer brings its load nearer to the
   end, and a page that loads has a request to wait for *)

(* The listing of a subject, then discovery, then what was offered *)
Stage(load) ==
  IF Discovery \in DOMAIN load.tasks THEN 1
  ELSE IF load.route.view = "subject" /\ Own(load) THEN 2 ELSE 0

StepsLeft == [ask |-> 4, count |-> 3, page |-> 2, answer |-> 1, done |-> 0]
Effort(task) == 5 * (MaxSections - task.offset) + StepsLeft[task.phase]

(* One request gets on while the others wait, or the next stage begins *)
Advances(load, after) ==
  \/ Stage(after) < Stage(load)
  \/ /\ Stage(after) = Stage(load) /\ DOMAIN after.tasks = DOMAIN load.tasks
     /\ \E f \in DOMAIN load.tasks :
          /\ Effort(after.tasks[f]) < Effort(load.tasks[f])
          /\ \A g \in DOMAIN load.tasks : g # f => after.tasks[g] = load.tasks[g]

LoadsAdvance ==
  [][\A l \in DOMAIN loads : loads'[l] # loads[l] => Advances(loads[l], loads'[l])]_searchVars

(* A page that loads has a request under way and none that failed, and what is left of
   each request is a natural number *)
LoadingHasWork ==
  /\ view.status = "loading" =>
       /\ ~loads[current].failed
       /\ \E f \in DOMAIN loads[current].tasks : Phase(current, f) # "done"
  /\ \A l \in DOMAIN loads : \A f \in DOMAIN loads[l].tasks : Effort(loads[l].tasks[f]) \in Nat

(* A step of one load, as far as both need it *)
Turn(l, after) ==
  /\ loads' = [loads EXCEPT ![l] = after]
  /\ Advances(loads[l], after)
  /\ \/ view'.status # "loading"
     \/ UNCHANGED view /\ (l = current => ~AllDone(after) /\ after.failed = loads[l].failed)

LEMMA EffortIs ==
  ASSUME NEW history, NEW f, NEW task, TaskFits(history, f, task)
  PROVE  Effort(task) \in Nat
<1>1. task.offset \in Nat /\ task.offset < MaxSections /\ MaxSections \in Nat
  BY OffsetsStep, SearchAssumption DEF TaskFits, Offsets
<1>2. StepsLeft[task.phase] \in 0..4
  BY DEF TaskFits, StepsLeft
<1> QED BY <1>1, <1>2 DEF Effort

LEMMA TaskAdvances ==
  ASSUME NEW load, NEW after, after.route = load.route, DOMAIN after.tasks = DOMAIN load.tasks,
         NEW f \in DOMAIN load.tasks, Effort(after.tasks[f]) < Effort(load.tasks[f]),
         \A g \in DOMAIN load.tasks : g # f => after.tasks[g] = load.tasks[g]
  PROVE  Advances(load, after)
<1>1. Stage(after) = Stage(load)
  BY DEF Stage, Own
<1> QED BY <1>1 DEF Advances

(* A request gets on without an answer being merged *)
LEMMA RequestTurns ==
  ASSUME SearchInv, NEW l \in DOMAIN loads, NEW f \in DOMAIN loads[l].tasks, NEW task,
         SetTask(l, f, task), UNCHANGED view, task.phase # "done",
         task.offset = loads[l].tasks[f].offset,
         StepsLeft[task.phase] < StepsLeft[Phase(l, f)],
         StepsLeft[task.phase] \in Nat, StepsLeft[Phase(l, f)] \in Nat
  PROVE  \E after : Turn(l, after)
<1> DEFINE load == loads[l]
           after == [load EXCEPT !.tasks[f] = task]
<1>1. loads' = [loads EXCEPT ![l] = after]
  BY DEF SetTask
<1>2. /\ DOMAIN load = {"route", "merged", "seen", "failed", "tasks"}
      /\ TaskFits(tables, f, load.tasks[f])
  BY DEF SearchInv, LoadsFit, LoadOK, LoadFits
<1>3. /\ after.route = load.route /\ after.failed = load.failed
      /\ DOMAIN after.tasks = DOMAIN load.tasks
      /\ \A g \in DOMAIN load.tasks : after.tasks[g] = IF g = f THEN task ELSE load.tasks[g]
  BY <1>2
<1> HIDE DEF after
<1>4. Effort(after.tasks[f]) < Effort(load.tasks[f])
  <2>1. task.offset \in Nat /\ MaxSections \in Nat
    BY <1>2, OffsetsStep, SearchAssumption DEF TaskFits
  <2> DEFINE rest == 5 * (MaxSections - task.offset)
  <2>2. rest \in Int
    BY <2>1
  <2>3. Effort(after.tasks[f]) = rest + StepsLeft[task.phase] /\ Effort(load.tasks[f]) = rest + StepsLeft[Phase(l, f)]
    BY <1>3 DEF Effort, Phase
  <2> HIDE DEF rest
  <2> QED BY <2>2, <2>3
<1>5. Advances(load, after)
  <2>1. \A g \in DOMAIN load.tasks : g # f => after.tasks[g] = load.tasks[g]
    BY <1>3
  <2> QED BY <1>3, <1>4, <2>1, TaskAdvances
<1>6. ~AllDone(after)
  BY <1>3 DEF AllDone
<1> QED BY <1>1, <1>3, <1>5, <1>6 DEF Turn

LEMMA WaitingTurns ==
  ASSUME SearchInv, NEW l \in DOMAIN loads, NEW f \in DOMAIN loads[l].tasks,
         Ask(l, f) \/ CountRows(l, f) \/ ReadPage(l, f)
  PROVE  \E after : Turn(l, after)
<1>1. ASSUME NEW task, NEW earlier, Phase(l, f) = earlier, SetTask(l, f, task), UNCHANGED view,
             task.offset = loads[l].tasks[f].offset,
             \/ earlier = "ask" /\ task.phase \in {"count", "answer"}
             \/ earlier = "count" /\ task.phase = "page"
             \/ earlier = "page" /\ task.phase = "answer"
      PROVE  \E after : Turn(l, after)
  <2>1. /\ StepsLeft["ask"] = 4 /\ StepsLeft["count"] = 3 /\ StepsLeft["page"] = 2
        /\ StepsLeft["answer"] = 1
    BY DEF StepsLeft
  <2>2. /\ StepsLeft[task.phase] < StepsLeft[Phase(l, f)] /\ task.phase # "done"
        /\ StepsLeft[task.phase] \in Nat /\ StepsLeft[Phase(l, f)] \in Nat
    BY <1>1, <2>1
  <2> QED BY <1>1, <2>2, RequestTurns
<1>2. CASE Ask(l, f)
  <2>1. Phase(l, f) = "ask" /\ UNCHANGED view
    BY <1>2 DEF Ask
  <2>2. PICK task : SetTask(l, f, task) /\ task.offset = loads[l].tasks[f].offset /\ task.phase \in {"count", "answer"}
    BY <1>2 DEF Ask
  <2> QED BY <1>1, <2>1, <2>2
<1>3. CASE CountRows(l, f)
  <2>1. Phase(l, f) = "count" /\ UNCHANGED view
    BY <1>3 DEF CountRows
  <2>2. PICK task : SetTask(l, f, task) /\ task.offset = loads[l].tasks[f].offset /\ task.phase = "page"
    BY <1>3 DEF CountRows
  <2> QED BY <1>1, <2>1, <2>2
<1>4. CASE ReadPage(l, f)
  <2>1. Phase(l, f) = "page" /\ UNCHANGED view
    BY <1>4 DEF ReadPage
  <2>2. PICK task : SetTask(l, f, task) /\ task.offset = loads[l].tasks[f].offset /\ task.phase = "answer"
    BY <1>4 DEF ReadPage
  <2> QED BY <1>1, <2>1, <2>2
<1> QED BY <1>2, <1>3, <1>4

(* A merged page leaves less to ask for *)
LEMMA MergeAdvances ==
  ASSUME NEW history, NEW load, LoadOK(history, load), NEW f \in DOMAIN load.tasks,
         load.tasks[f].phase = "answer"
  PROVE  Advances(load, Merge(load, f)) /\ Merge(load, f).failed = load.failed
<1> DEFINE task == load.tasks[f]
           next == IF IsLastPage(task.offset, task.body)
                   THEN [phase |-> "done", offset |-> task.offset]
                   ELSE [phase |-> "ask", offset |-> task.offset + PageSize]
           after == Merge(load, f)
<1>1. /\ after.route = load.route /\ after.failed = load.failed
      /\ DOMAIN after.tasks = DOMAIN load.tasks
      /\ \A g \in DOMAIN load.tasks : after.tasks[g] = IF g = f THEN next ELSE load.tasks[g]
  BY DEF LoadOK, LoadFits, Merge
<1>2. /\ task.offset \in Nat /\ MaxSections \in Nat /\ PageSize \in Nat \ {0}
  BY OffsetsStep, SearchAssumption DEF LoadOK, LoadFits, TaskFits
<1>3. Effort(task) = 5 * (MaxSections - task.offset) + 1
  BY DEF Effort, StepsLeft
<1>4. Effort(next) < Effort(task)
  <2>1. CASE IsLastPage(task.offset, task.body)
    <3>1. Effort(next) = 5 * (MaxSections - task.offset) + 0
      BY <2>1 DEF Effort, StepsLeft
    <3> HIDE DEF next, task
    <3> QED BY <1>2, <1>3, <3>1
  <2>2. CASE ~IsLastPage(task.offset, task.body)
    <3>1. Effort(next) = 5 * (MaxSections - (task.offset + PageSize)) + 4
      BY <2>2 DEF Effort, StepsLeft
    <3> HIDE DEF next, task
    <3> QED BY <1>2, <1>3, <3>1
  <2> QED BY <2>1, <2>2
<1> HIDE DEF after, next
<1>5. \A g \in DOMAIN load.tasks : g # f => after.tasks[g] = load.tasks[g]
  BY <1>1
<1>6. Effort(after.tasks[f]) < Effort(load.tasks[f])
  BY <1>1, <1>4
<1> QED BY <1>1, <1>5, <1>6, TaskAdvances DEF after

LEMMA ReceivePageTurns ==
  ASSUME SearchInv, NEW l \in DOMAIN loads, NEW f \in DOMAIN loads[l].tasks, ReceivePage(l, f)
  PROVE  \E after : Turn(l, after)
<1> DEFINE load == Merge(loads[l], f)
           fallback == [load EXCEPT !.tasks = Asked({Discovery})]
<1>1. f # Discovery /\ loads[l].tasks[f].phase = "answer"
  BY DEF ReceivePage, Phase
<1>2. LoadOK(tables, loads[l])
  BY DEF SearchInv, LoadsFit
<1>3. Advances(loads[l], load) /\ load.failed = loads[l].failed
  BY <1>1, <1>2, MergeAdvances
<1>4. LoadOK(tables, load) /\ load.route = loads[l].route
  BY <1>1, <1>2, Versions, MergeOK
<1>5. CASE AllDone(load) /\ FallsBack(load) /\ l = current
  <2>1. loads' = [loads EXCEPT ![l] = fallback] /\ UNCHANGED view
    BY <1>5 DEF ReceivePage
  <2>2. DOMAIN load.tasks = DOMAIN loads[l].tasks
    BY <1>2 DEF Merge, LoadOK, LoadFits
  <2> HIDE DEF load
  <2>3. /\ fallback.failed = load.failed /\ fallback.route = load.route
        /\ DOMAIN fallback.tasks = {Discovery} /\ fallback.tasks[Discovery].phase = "ask"
    <3>1. DOMAIN load = {"route", "merged", "seen", "failed", "tasks"}
      BY <1>4 DEF LoadOK, LoadFits
    <3> QED BY <3>1 DEF Asked
  <2> HIDE DEF fallback
  <2>4. load.route \in Routes /\ load.route.view = "subject" /\ DOMAIN loads[l].tasks = load.route.filters
    BY <1>4, <1>5, <2>2 DEF FallsBack, LoadOK, LoadFits
  <2>5. Stage(loads[l]) = 2
    BY <1>4, <2>4, NeverDiscovery DEF Stage, Own
  <2>6. Stage(fallback) = 1
    BY <2>3 DEF Stage
  <2>7. Advances(loads[l], fallback)
    BY <2>5, <2>6 DEF Advances
  <2>8. ~AllDone(fallback)
    BY <2>3 DEF AllDone
  <2> QED BY <1>3, <2>1, <2>3, <2>7, <2>8 DEF Turn
<1>6. CASE ~(AllDone(load) /\ FallsBack(load) /\ l = current)
  <2>1. /\ loads' = [loads EXCEPT ![l] = load]
        /\ IF AllDone(load) THEN Settle(l, load) ELSE UNCHANGED view
    BY <1>6 DEF ReceivePage
  <2> HIDE DEF load
  <2>2. CASE AllDone(load) /\ l = current
    <3>1. view'.status = "ready"
      BY <2>1, <2>2 DEF Settle
    <3> QED BY <1>3, <2>1, <3>1 DEF Turn
  <2>3. CASE ~(AllDone(load) /\ l = current)
    <3>1. UNCHANGED view
      BY <2>1, <2>3 DEF Settle
    <3> QED BY <1>3, <2>1, <2>3, <3>1 DEF Turn
  <2> QED BY <2>2, <2>3
<1> QED BY <1>5, <1>6

LEMMA ReceiveDiscoveryTurns ==
  ASSUME SearchInv, NEW l \in DOMAIN loads, ReceiveDiscovery(l)
  PROVE  \E after : Turn(l, after)
<1> DEFINE load == loads[l]
           body == load.tasks[Discovery].body
           after == WithFilters(load, body)
<1>1. /\ Discovery \in DOMAIN load.tasks /\ load.tasks[Discovery].phase = "answer"
      /\ loads' = [loads EXCEPT ![l] = after]
      /\ IF AllDone(after) THEN Settle(l, after) ELSE UNCHANGED view
  BY DEF ReceiveDiscovery, Phase
<1>2. LoadOK(tables, load)
  BY DEF SearchInv, LoadsFit
<1>3. load.route \in Routes /\ \E w \in body.seen : body.items = SectionFilters(tables[w])
  BY <1>1, <1>2 DEF LoadOK, LoadFits, TaskFits, BodyFits
<1>4. /\ after.route = load.route /\ after.failed = load.failed
      /\ DOMAIN after.tasks = body.items
  BY <1>2 DEF WithFilters, Asked, LoadOK, LoadFits
<1> HIDE DEF after
<1>5. Stage(load) = 1
  BY <1>1 DEF Stage
<1>6. Stage(after) = 0
  <2>1. PICK w : body.items = SectionFilters(tables[w])
    BY <1>3
  <2>2. Discovery \notin DOMAIN after.tasks
    BY <1>4, <2>1, NeverDiscovery
  <2>3. after.route.view = "subject" => ~Own(after)
    BY <1>3, <1>4, <2>1, NeverDiscovery DEF Own
  <2> QED BY <2>2, <2>3 DEF Stage
<1>7. Advances(load, after)
  BY <1>5, <1>6 DEF Advances
<1>8. CASE AllDone(after) /\ l = current
  <2>1. view'.status = "ready"
    BY <1>1, <1>8 DEF Settle
  <2> QED BY <1>1, <1>7, <2>1 DEF Turn
<1>9. CASE ~(AllDone(after) /\ l = current)
  <2>1. UNCHANGED view
    BY <1>1, <1>9 DEF Settle
  <2> QED BY <1>1, <1>4, <1>7, <1>9, <2>1 DEF Turn
<1> QED BY <1>8, <1>9

LEMMA FailTurns ==
  ASSUME SearchInv, NEW l \in DOMAIN loads, NEW f \in DOMAIN loads[l].tasks, FailRequest(l, f)
  PROVE  \E after : Turn(l, after)
<1> DEFINE load == loads[l]
           after == [load EXCEPT !.failed = TRUE, !.tasks[f].phase = "done"]
           task == [load.tasks[f] EXCEPT !.phase = "done"]
<1>1. /\ DOMAIN load = {"route", "merged", "seen", "failed", "tasks"}
      /\ TaskFits(tables, f, load.tasks[f])
  BY DEF SearchInv, LoadsFit, LoadOK, LoadFits
<1>2. /\ loads' = [loads EXCEPT ![l] = after] /\ Phase(l, f) = "count"
  BY <1>1 DEF FailRequest
<1>3. view'.status = "error"
  BY DEF FailRequest, ReportError, SearchInv, ViewFits
<1>4. /\ after.route = load.route /\ DOMAIN after.tasks = DOMAIN load.tasks
      /\ \A g \in DOMAIN load.tasks : after.tasks[g] = IF g = f THEN task ELSE load.tasks[g]
  BY <1>1
<1>5. task.phase = "done" /\ task.offset = load.tasks[f].offset
  BY <1>1 DEF TaskFits
<1> HIDE DEF after, task
<1>6. Effort(after.tasks[f]) < Effort(load.tasks[f])
  <2>1. load.tasks[f].offset \in Nat /\ MaxSections \in Nat
    BY <1>1, OffsetsStep, SearchAssumption DEF TaskFits
  <2>2. Effort(task) = 5 * (MaxSections - load.tasks[f].offset) + 0
    BY <1>5 DEF Effort, StepsLeft
  <2>3. Effort(load.tasks[f]) = 5 * (MaxSections - load.tasks[f].offset) + 3
    BY <1>2 DEF Effort, StepsLeft, Phase
  <2> QED BY <1>4, <2>1, <2>2, <2>3
<1>7. \A g \in DOMAIN load.tasks : g # f => after.tasks[g] = load.tasks[g]
  BY <1>4
<1>8. Advances(load, after)
  BY <1>4, <1>6, <1>7, TaskAdvances
<1> QED BY <1>2, <1>3, <1>8 DEF Turn

(* A step leaves all loads alone, or is the turn of one, or starts another *)
LEMMA StepTurns ==
  ASSUME SearchInv, Next
  PROVE  \/ UNCHANGED <<loads, view>>
         \/ \E l \in DOMAIN loads : \E after : Turn(l, after)
         \/ \E route \in Routes : Navigate(route)
<1>1. CASE Retry
  <2>1. Navigate(view.route) /\ loads # <<>> /\ view.route = loads[current].route
    BY <1>1 DEF Retry, SearchInv, ViewFits
  <2>2. view.route \in Routes
    BY <2>1, Versions DEF SearchInv, LoadsFit, LoadOK, LoadFits
  <2> QED BY <2>1, <2>2
<1>2. CASE CommitSweep
  BY <1>2 DEF CommitSweep
<1>3. CASE \E l \in DOMAIN loads :
             \/ \E f \in DOMAIN loads[l].tasks :
                  Ask(l, f) \/ CountRows(l, f) \/ ReadPage(l, f) \/ ReceivePage(l, f) \/ FailRequest(l, f)
             \/ ReceiveDiscovery(l)
  BY <1>3, WaitingTurns, ReceivePageTurns, ReceiveDiscoveryTurns, FailTurns
<1> QED BY <1>1, <1>2, <1>3 DEF Next

LEMMA StartedLoad ==
  ASSUME SearchInv, NEW route \in Routes, Navigate(route)
  PROVE  /\ current' \in DOMAIN loads' /\ loads'[current'] = NewLoad(route)
         /\ \A l \in DOMAIN loads : loads'[l] = loads[l]
<1> DEFINE load == NewLoad(route)
           S == {loads[l] : l \in DOMAIN loads}
           R == S \cup {load}
<1>1. loads \in Seq(S) /\ S \subseteq R /\ load \in R
  BY DEF SearchInv, LoadsFit
<1>2. loads' = Append(loads, load)
  BY DEF Navigate
<1> HIDE DEF S, R, load
<1>3. loads \in Seq(R)
  BY <1>1, SeqMonotonic
<1>4. /\ Len(loads) \in Nat /\ DOMAIN loads = 1..Len(loads)
      /\ Len(loads') = Len(loads) + 1 /\ DOMAIN loads' = 1..Len(loads')
      /\ loads'[Len(loads) + 1] = load /\ \A l \in 1..Len(loads) : loads'[l] = loads[l]
  BY <1>1, <1>2, <1>3, AppendProperties, LenProperties
<1> QED BY <1>4 DEF current, load

(* Each change of a load brings it nearer to its end: one of its requests advances while
   the others wait, or it enters the next of at most three stages.  The steps of requests
   (useLoad, loadAll, DiscoveryPage) cannot go round in circles. *)
THEOREM LoadsKeepAdvancing == Spec => LoadsAdvance
<1> DEFINE Moves == \A l \in DOMAIN loads : loads'[l] # loads[l] => Advances(loads[l], loads'[l])
<1>1. SearchInv /\ [Next]_searchVars => [Moves]_searchVars
  <2> SUFFICES ASSUME SearchInv, Next PROVE Moves
    BY DEF searchVars
  <2>1. CASE UNCHANGED <<loads, view>>
    BY <2>1
  <2>2. CASE \E l \in DOMAIN loads : \E after : Turn(l, after)
    BY <2>2 DEF Turn
  <2>3. CASE \E route \in Routes : Navigate(route)
    BY <2>3, StartedLoad
  <2> QED BY <2>1, <2>2, <2>3, StepTurns
<1> QED BY <1>1, SearchInvariant, PTL DEF Spec, LoadsAdvance

Waits == view.status = "loading" => ~loads[current].failed /\ ~AllDone(loads[current])

LEMMA SameLength ==
  ASSUME NEW m \in Nat, NEW n \in Nat, NEW D, D = 1..m, D = 1..n
  PROVE  m = n
OBVIOUS

LEMMA StepWaits == SearchInv /\ Waits /\ [Next]_searchVars => Waits'
<1> SUFFICES ASSUME SearchInv, Waits, [Next]_searchVars PROVE Waits'
  OBVIOUS
<1>1. CASE UNCHANGED <<loads, view>>
  BY <1>1 DEF Waits, current, AllDone
<1>2. ASSUME NEW l \in DOMAIN loads, NEW after, Turn(l, after) PROVE Waits'
  <2>1. DOMAIN loads' = DOMAIN loads /\ loads'[l] = after /\ \A k \in DOMAIN loads : k # l => loads'[k] = loads[k]
    BY <1>2 DEF Turn
  <2>2. current' = current
    <3>1. SearchInv'
      BY StepSearch
    <3> DEFINE S == {loads'[k] : k \in DOMAIN loads'}
    <3>2. loads' \in Seq(S)
      BY <3>1 DEF SearchInv, LoadsFit
    <3> HIDE DEF S
    <3>3. Len(loads') \in Nat /\ DOMAIN loads' = 1..Len(loads')
      BY <3>2, LenProperties
    <3>4. Len(loads) \in Nat /\ DOMAIN loads = 1..Len(loads)
      BY Versions DEF current
    <3>5. DOMAIN loads = 1..Len(loads')
      BY <2>1, <3>3, Zenon
    <3> QED BY <3>3, <3>4, <3>5, SameLength, Zenon DEF current
  <2> SUFFICES ASSUME view'.status = "loading" PROVE ~loads'[current].failed /\ ~AllDone(loads'[current])
    BY <2>2 DEF Waits, AllDone
  <2>3. UNCHANGED view /\ (l = current => ~AllDone(after) /\ after.failed = loads[l].failed)
    BY <1>2 DEF Turn
  <2>4. ~loads[current].failed /\ ~AllDone(loads[current])
    BY <2>3 DEF Waits
  <2>5. current \in DOMAIN loads
    BY Versions, <2>1
  <2> QED BY <2>1, <2>3, <2>4, <2>5
<1>3. ASSUME NEW route \in Routes, Navigate(route) PROVE Waits'
  <2>1. loads'[current'] = NewLoad(route)
    BY <1>3, StartedLoad
  <2>2. ~NewLoad(route).failed /\ ~AllDone(NewLoad(route))
    <3> DEFINE asked == IF route.view = "text" THEN {Discovery} ELSE route.filters
               load == NewLoad(route)
    <3>1. load.failed = FALSE /\ load.tasks = Asked(asked)
      BY DEF NewLoad
    <3>2. DOMAIN load.tasks = asked /\ \A f \in asked : load.tasks[f].phase = "ask"
      BY <3>1 DEF Asked
    <3>3. asked # {}
      BY RoutesAssumption
    <3> HIDE DEF asked, load
    <3> QED BY <3>1, <3>2, <3>3 DEF AllDone, load
  <2> QED BY <2>1, <2>2 DEF Waits, AllDone
<1> QED BY <1>1, <1>2, <1>3, StepTurns DEF searchVars

(* While a page shows that it loads, none of its requests has failed and one is still to
   be answered or merged: the page never waits for nothing.  With LoadsKeepAdvancing this is
   what LoadEnds needs beside the fairness of the answers. *)
THEOREM LoadingLoadsWork == Spec => []LoadingHasWork
<1>1. Init => Waits
  BY DEF Init, Waits
<1>2. SearchInv /\ Waits => LoadingHasWork
  <2> SUFFICES ASSUME SearchInv, Waits PROVE LoadingHasWork
    OBVIOUS
  <2>1. \A l \in DOMAIN loads : \A f \in DOMAIN loads[l].tasks : Effort(loads[l].tasks[f]) \in Nat
    BY EffortIs DEF SearchInv, LoadsFit, LoadOK, LoadFits
  <2> QED BY <2>1 DEF LoadingHasWork, Waits, AllDone, Phase
<1> QED BY <1>1, <1>2, SearchInvariant, StepWaits, PTL DEF Spec
=============================================================================
