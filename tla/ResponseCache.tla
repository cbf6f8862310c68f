--------------------------- MODULE ResponseCache ---------------------------
(***************************************************************************)
(* The API's in-process response cache (src/easy_a/api/response_cache.py)  *)
(* and the requests around it.  Handlers run in threads, the middleware on *)
(* the event loop: get and put are atomic, and any number of requests of   *)
(* one key may be between the two.  A body is abstracted to its size and   *)
(* to the instant its handler read the database.                           *)
(***************************************************************************)
EXTENDS FieldSums, SequencesExt

CONSTANTS
  Keys,        \* cache keys: path and sorted query
  Requests,    \* requests in flight
  Sizes,       \* body sizes
  MaxBytes,    \* bytes the cache may hold
  Share,       \* the budget's fraction one body may use (8)
  Ttl,         \* ttl_seconds
  MaxHandling, \* bound: a request is answered in this time
  MaxTime      \* bound: the last instant

ASSUME CacheAssumption ==
  /\ Sizes \subseteq Nat
  /\ MaxBytes \in Nat /\ Share \in Nat \ {0}
  /\ Ttl \in Nat \ {0}
  /\ MaxHandling \in Nat /\ MaxTime \in Nat

VARIABLES
  now,      \* time.monotonic
  entries,  \* _entries: the entry of each key, or Empty
  order,    \* the order of _entries, the least recently used first
  bytes,    \* _bytes
  requests, \* what each request is doing
  usedAt    \* history: when each key was last hit or put

cacheVars == <<now, entries, order, bytes, requests, usedAt>>

Empty == [cached |-> FALSE]
Idle == [phase |-> "idle"]

Limit == MaxBytes \div Share
Held(table) == {k \in Keys : table[k] # Empty}
Volume(table, keys) == FieldSum(table, keys, "size")

CacheInit ==
  /\ now = 0
  /\ entries = [k \in Keys |-> Empty]
  /\ order = <<>>
  /\ bytes = 0
  /\ requests = [r \in Requests |-> Idle]
  /\ usedAt = [k \in Keys |-> 0]

---------------------------------------------------------------------------
(* The cache *)

(* The entry get would return *)
Servable(key) == entries[key] # Empty /\ entries[key].expires > now

(* Fault: the entry is marked instead of removed *)
DropKeepingEntry(key) ==
  IF entries[key] = Empty
  THEN UNCHANGED <<entries, order, bytes>>
  ELSE /\ entries' = [entries EXCEPT ![key].cached = FALSE]
       /\ order' = RemoveFirst(order, key)
       /\ bytes' = bytes - entries[key].size

(* _drop *)
Drop(key) ==
  IF entries[key] = Empty
  THEN UNCHANGED <<entries, order, bytes>>
  ELSE /\ entries' = [entries EXCEPT ![key] = Empty]
       /\ order' = RemoveFirst(order, key)
       /\ bytes' = bytes - entries[key].size

(* How many of the oldest entries of a line go, until at most MaxBytes of the
   given number of bytes are left *)
Evicted(table, line, size) ==
  CHOOSE n \in 0..Len(line) :
    /\ size - Volume(table, ToSet(SubSeq(line, 1, n))) <= MaxBytes
    /\ \A m \in 0..(n - 1) :
         size - Volume(table, ToSet(SubSeq(line, 1, m))) > MaxBytes

(* The entry is stored and all but the kept keys are dropped *)
Store(table, line, size) ==
  LET n == Evicted(table, line, size)
      gone == ToSet(SubSeq(line, 1, n))
  IN  /\ entries' = [k \in Keys |-> IF k \in gone THEN Empty ELSE table[k]]
      /\ order' = SubSeq(line, n + 1, Len(line))
      /\ bytes' = size - Volume(table, gone)

(* Fault: a key that is put again is not dropped first *)
PutTwice(key, body) ==
  LET entry == [cached |-> TRUE, size |-> body.size, readAt |-> body.readAt,
                expires |-> now + Ttl]
  IN  IF body.size > Limit
      THEN UNCHANGED <<entries, order, bytes, usedAt>>
      ELSE /\ Store([entries EXCEPT ![key] = entry],
                    Append(RemoveFirst(order, key), key), bytes + body.size)
           /\ usedAt' = [usedAt EXCEPT ![key] = now]

(* put: a body over the limit is not kept, and leaves an older one in place *)
Put(key, body) ==
  LET old == IF entries[key] = Empty THEN 0 ELSE entries[key].size
      entry == [cached |-> TRUE, size |-> body.size, readAt |-> body.readAt,
                expires |-> now + Ttl]
  IN  IF body.size > Limit
      THEN UNCHANGED <<entries, order, bytes, usedAt>>
      ELSE /\ Store([entries EXCEPT ![key] = entry],
                    Append(RemoveFirst(order, key), key), bytes - old + body.size)
           /\ usedAt' = [usedAt EXCEPT ![key] = now]

---------------------------------------------------------------------------
(* cache_get_responses, the middleware *)

(* Fault: an entry is served whatever its age *)
HitAnyAge(r, key) ==
  /\ requests[r] = Idle
  /\ entries[key] # Empty
  /\ order' = Append(RemoveFirst(order, key), key)
  /\ usedAt' = [usedAt EXCEPT ![key] = now]
  /\ requests' = [requests EXCEPT
                    ![r] = [phase |-> "served", since |-> now,
                            readAt |-> entries[key].readAt]]
  /\ UNCHANGED <<now, entries, bytes>>

(* Fault: a hit does not move the entry to the end *)
HitInPlace(r, key) ==
  /\ requests[r] = Idle
  /\ Servable(key)
  /\ usedAt' = [usedAt EXCEPT ![key] = now]
  /\ requests' = [requests EXCEPT
                    ![r] = [phase |-> "served", since |-> now,
                            readAt |-> entries[key].readAt]]
  /\ UNCHANGED <<now, entries, order, bytes>>

Hit(r, key) ==
  /\ requests[r] = Idle
  /\ Servable(key)
  /\ order' = Append(RemoveFirst(order, key), key)
  /\ usedAt' = [usedAt EXCEPT ![key] = now]
  /\ requests' = [requests EXCEPT
                    ![r] = [phase |-> "served", since |-> now,
                            readAt |-> entries[key].readAt]]
  /\ UNCHANGED <<now, entries, bytes>>

(* No entry, or an expired one, which is dropped: the handler is called *)
Miss(r, key) ==
  /\ requests[r] = Idle
  /\ ~Servable(key)
  /\ Drop(key)
  /\ requests' = [requests EXCEPT
                    ![r] = [phase |-> "calling", key |-> key, since |-> now]]
  /\ UNCHANGED <<now, usedAt>>

(* The handler reads the database and builds the response *)
Read(r, size) ==
  /\ requests[r].phase = "calling"
  /\ requests' = [requests EXCEPT
                    ![r] = [phase |-> "read", key |-> requests[r].key,
                            since |-> requests[r].since,
                            size |-> size, readAt |-> now]]
  /\ UNCHANGED <<now, entries, order, bytes, usedAt>>

(* A 200 response is remembered once its body has been collected *)
Remember(r) ==
  /\ requests[r].phase = "read"
  /\ Put(requests[r].key, requests[r])
  /\ requests' = [requests EXCEPT ![r] = Idle]
  /\ UNCHANGED now

(* A hit has been sent, or a handler raised or answered another status *)
Answer(r) ==
  /\ requests[r] # Idle
  /\ requests' = [requests EXCEPT ![r] = Idle]
  /\ UNCHANGED <<now, entries, order, bytes, usedAt>>

Tick ==
  /\ now < MaxTime
  /\ \A r \in Requests :
       requests[r] # Idle => now < requests[r].since + MaxHandling
  /\ now' = now + 1
  /\ UNCHANGED <<entries, order, bytes, requests, usedAt>>

CacheNext ==
  \/ \E r \in Requests, key \in Keys : Hit(r, key) \/ Miss(r, key)
  \/ \E r \in Requests, size \in Sizes : Read(r, size)
  \/ \E r \in Requests : Remember(r) \/ Answer(r)
  \/ Tick

CacheSpec == CacheInit /\ [][CacheNext]_cacheVars

---------------------------------------------------------------------------
(* Properties *)

Entry == [cached : {TRUE}, size : Sizes, readAt : Nat, expires : Nat]

RequestState ==
  {Idle}
    \cup [phase : {"served"}, since : Nat, readAt : Nat]
    \cup [phase : {"calling"}, key : Keys, since : Nat]
    \cup [phase : {"read"}, key : Keys, since : Nat, size : Sizes, readAt : Nat]

CacheTypeOK ==
  /\ now \in Nat
  /\ entries \in [Keys -> Entry \cup {Empty}]
  /\ requests \in [Requests -> RequestState]

(* The byte counter and the line of keys, each kept up to date on its own by
   get, put and eviction, agree with the entries, and the budget is kept. *)
BooksBalance ==
  /\ bytes = Volume(entries, Held(entries))
  /\ bytes <= MaxBytes
  /\ Len(order) = Cardinality(Held(entries)) /\ ToSet(order) = Held(entries)

Gone == Held(entries) \ Held(entries')

(* A put that evicts drops no key that was used after one it keeps, and stops
   while the cache is still full up to one body's limit: however large the
   responses, a few huge pages never evict everything else. *)
EvictsLeastRecent ==
  [][\A r \in Requests :
       requests[r].phase = "read" /\ requests'[r] = Idle
         => /\ \A j \in Gone, k \in Held(entries') : usedAt[j] <= usedAt'[k]
            /\ Gone # {} => bytes' > MaxBytes - Limit]_cacheVars

ServedWithin(age) ==
  \A r \in Requests :
    requests[r] = Idle /\ requests'[r] # Idle /\ requests'[r].phase = "served"
      => now - requests'[r].readAt <= age

(* A cached response is older than the database by at most ttl_seconds and the
   time its own request took after it had read, also when requests of one key
   overlap and an older body replaces a newer one. *)
ServedAgeBounded == [][ServedWithin(Ttl + MaxHandling)]_cacheVars

(* The module's and the runbook's claim: at most ttl_seconds older.  It holds only
   if MaxHandling = 0. *)
ServedWithinTtl == [][ServedWithin(Ttl)]_cacheVars
=============================================================================
