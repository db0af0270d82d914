------------------------- MODULE RequestPathProofs -------------------------
(***************************************************************************)
(* TLAPS proofs about what a request passes on its way: the drain gate of  *)
(* Lifecycle, for every finite set of requests, and the idempotency of the *)
(* exec route, ExecIdempotency, for every set of requests and keys, every  *)
(* TTL and every cap.                                                      *)
(*                                                                         *)
(* AtMostOncePerTTL speaks of executions that may have ended long ago; it  *)
(* holds because of what became of their responses since: an execution     *)
(* that was not evicted is still in the cache or past its TTL (KeptInv),   *)
(* and a key that executes is not cached (InflightInv).                    *)
(*                                                                         *)
(* The exit code is decided by a counter, and what it says is about the    *)
(* requests: CountExact ties the two together, and DrainInv says in which  *)
(* of its phases the shutdown may believe that the gate is empty.          *)
(***************************************************************************)
EXTENDS ExecIdempotency, Lifecycle, TLAPS, FiniteSetTheorems, WellFoundedInduction

(* The exec route. *)

\* The map of executions in flight is exact for requests with a key.
InflightInv ==
  /\ \A r \in Reqs : pc[r] = "exec" /\ keyOf[r] # None => inflight[keyOf[r]] = r
  /\ \A k \in Keys : inflight[k] # None =>
       pc[inflight[k]] = "exec" /\ keyOf[inflight[k]] = k /\ cached[k] = None

\* What a request's place says of its execution and of the one it waits for.
RequestInv ==
  \A r \in Reqs :
    /\ pc[r] = "exec" <=> result[r] = "running"
    /\ pc[r] = "idle" => result[r] = "none"
    /\ pc[r] = "exec" => source[r] = r
    /\ pc[r] # "idle" => source[r] \in Reqs
    /\ pc[r] = "wait" => pc[source[r]] = "exec" /\ SameKey(r, source[r])
    /\ endAt[r] <= now /\ arrivedAt[r] <= now

\* A cache entry is the response of a finished execution of its key.
CacheInv ==
  \A k \in Present :
    /\ result[cached[k].by] = "ok" /\ keyOf[cached[k].by] = k
    /\ cached[k].expires = endAt[cached[k].by] + TTL
    /\ cached[k].seq < puts

\* The Map's insertion order is the order of the expiry times.
OrderInv ==
  \A j, k \in Present :
    cached[j].seq <= cached[k].seq => cached[j].expires <= cached[k].expires

\* A response leaves the cache by eviction or when its time is over.
KeptInv ==
  \A a \in Reqs :
    result[a] = "ok" /\ keyOf[a] # None /\ a \notin evicted =>
      \/ endAt[a] + TTL < now
      \/ cached[keyOf[a]] # None /\ cached[keyOf[a]].by = a

\* The executions of a key come one after the other.
SerialInv ==
  \A r, c \in Reqs :
    pc[r] = "exec" /\ c # r /\ SameKey(r, c) /\ result[c] # "none" =>
      result[c] # "running" /\ endAt[c] <= arrivedAt[r]

SizeInv == IsFiniteSet(Present) /\ Cardinality(Present) <= MaxEntries

IInv ==
  /\ TypeOK
  /\ InflightInv
  /\ RequestInv
  /\ CacheInv
  /\ OrderInv
  /\ KeptInv
  /\ SerialInv
  /\ SizeInv
  /\ HitIsFresh
  /\ AtMostOncePerTTL
-----------------------------------------------------------------------------
(* The cache. *)

\* The types of one entry.
LEMMA EntryType ==
  ASSUME TypeOK, NEW k \in Present
  PROVE  /\ k \in Keys /\ cached[k] \in Entry
         /\ cached[k].by \in Reqs /\ cached[k].expires \in Nat /\ cached[k].seq \in Nat
  BY DEF TypeOK, Present, Entry

\* A set of natural numbers that is not empty has a least element.
LEMMA LeastNatural ==
  ASSUME NEW S \in SUBSET Nat, S # {}
  PROVE  \E m \in S : \A n \in S : m <= n
  <1>1. PICK m \in S : \A n \in S : <<n, m>> \notin OpToRel(<, Nat)
    BY NatLessThanWellFounded, WFMin
  <1>2. \A n \in S : ~(n < m)
    BY <1>1 DEF OpToRel
  <1>3. QED
    BY <1>2

\* A cache that is not empty has an entry that is next in the Map's order.
LEMMA OldestExists ==
  ASSUME TypeOK, Present # {}
  PROVE  \E k \in Present : Oldest(k)
  <1> DEFINE S == {cached[k].seq : k \in Present}
  <1>1. PICK k \in Present : TRUE
    OBVIOUS
  <1>2. S \in SUBSET Nat /\ cached[k].seq \in S
    BY EntryType
  <1>3. PICK m \in S : \A n \in S : m <= n
    BY <1>2, LeastNatural
  <1>4. PICK j \in Present : cached[j].seq = m
    BY <1>3
  <1>5. QED
    BY <1>3, <1>4 DEF Oldest

\* idempotencyPut under a key that is not cached: the cache as it is after.
LEMMA PutFacts ==
  ASSUME IInv, NEW k \in Keys, NEW r \in Reqs, Put(k, r), cached[k] = None
  PROVE  /\ cached' \in [Keys -> Entry \cup {None}] /\ puts' \in Nat /\ puts' = puts + 1
         /\ cached'[k] = [by |-> r, expires |-> now + TTL, seq |-> puts]
         /\ cached'[k] \in Entry /\ cached'[k] # None
         /\ \A j \in Keys \ {k} : cached'[j] = IF j \in Victims(k) THEN None ELSE cached[j]
         /\ Present' = (Present \ Victims(k)) \cup {k}
         /\ k \notin Present
         /\ evicted' = evicted \cup {cached[j].by : j \in Victims(k)}
         /\ evicted' \subseteq Reqs
  <1>1. now \in Nat /\ puts \in Nat /\ cached \in [Keys -> Entry \cup {None}] /\ evicted \subseteq Reqs
    BY DEF IInv, TypeOK
  <1>2. None \notin Entry
    BY ConstantsAssumption
  <1>3. k \notin Present /\ Victims(k) \subseteq Present /\ k \notin Victims(k)
    BY DEF Present, Victims
  <1>4. [by |-> r, expires |-> now + TTL, seq |-> puts] \in Entry
    BY <1>1, ConstantsAssumption DEF Entry
  <1>5. /\ puts' = puts + 1
        /\ cached'[k] = [by |-> r, expires |-> now + TTL, seq |-> puts]
        /\ \A j \in Keys \ {k} : cached'[j] = IF j \in Victims(k) THEN None ELSE cached[j]
    BY <1>1, <1>3 DEF Put, ExpiresAt
  <1>6. cached' \in [Keys -> Entry \cup {None}]
    BY <1>1, <1>4, <1>5 DEF Put, ExpiresAt
  <1>7. Present' = (Present \ Victims(k)) \cup {k}
    BY <1>2, <1>4, <1>5, <1>3 DEF Present
  <1>8. evicted' = evicted \cup {cached[j].by : j \in Victims(k)}
    BY DEF Put
  <1>9. evicted' \subseteq Reqs
    BY <1>1, <1>3, <1>8, EntryType DEF IInv
  <1>10. QED
    BY <1>1, <1>2, <1>3, <1>4, <1>5, <1>6, <1>7, <1>8, <1>9

\* ... and it stays within its cap.
LEMMA PutKeepsSize ==
  ASSUME IInv, NEW k \in Keys, NEW r \in Reqs, Put(k, r), cached[k] = None
  PROVE  SizeInv'
  <1>1. Present' = (Present \ Victims(k)) \cup {k} /\ k \notin Present
    BY PutFacts
  <1>2. IsFiniteSet(Present) /\ Cardinality(Present) <= MaxEntries
          /\ Cardinality(Present) \in Nat /\ MaxEntries \in Nat \ {0}
    BY FS_CardinalityType, ConstantsAssumption DEF IInv, SizeInv
  <1> DEFINE Rest == Present \ Victims(k)
  <1>3. IsFiniteSet(Rest) /\ Cardinality(Rest) \in Nat /\ Cardinality(Rest) <= Cardinality(Present)
    BY <1>2, FS_Subset, FS_CardinalityType
  <1>4. IsFiniteSet(Present') /\ Cardinality(Present') = Cardinality(Rest) + 1
    BY <1>1, <1>3, FS_AddElement
  <1>5. Cardinality(Rest) < MaxEntries
    <2>1. CASE Cardinality(Present) < MaxEntries
      BY <1>2, <1>3, <2>1
    <2>2. CASE Cardinality(Present) >= MaxEntries
      <3>1. Present # {}
        BY <1>2, <2>2, FS_EmptySet
      <3>2. PICK j \in Present : Oldest(j)
        BY <3>1, OldestExists DEF IInv
      <3>3. j \in Victims(k)
        BY <2>2, <3>2 DEF Victims
      <3>4. Rest # Present
        BY <3>3
      <3>5. Cardinality(Rest) # Cardinality(Present)
        BY <1>2, <3>4, FS_Subset
      <3>6. QED
        BY <1>2, <1>3, <3>5
    <2>3. QED
      BY <1>2, <2>1, <2>2
  <1>6. QED
    BY <1>2, <1>3, <1>4, <1>5 DEF SizeInv

\* A miss removes the entry of the key, which was none or past its time.
LEMMA MissFacts ==
  ASSUME IInv, NEW k \in Keys, ~Hits(k), cached' = AfterMiss(k)
  PROVE  /\ cached' \in [Keys -> Entry \cup {None}]
         /\ cached'[k] = None /\ \A j \in Keys \ {k} : cached'[j] = cached[j]
         /\ Present' = Present \ {k}
         /\ SizeInv'
         /\ k \in Present => cached[k].expires < now
  <1>1. /\ cached' \in [Keys -> Entry \cup {None}]
        /\ cached'[k] = None /\ \A j \in Keys \ {k} : cached'[j] = cached[j]
    BY DEF IInv, TypeOK, AfterMiss
  <1>2. Present' = Present \ {k}
    BY <1>1 DEF Present
  <1>3. SizeInv'
    <2>1. IsFiniteSet(Present) /\ Cardinality(Present) \in Nat
      BY FS_CardinalityType DEF IInv, SizeInv
    <2>2. IsFiniteSet(Present') /\ Cardinality(Present') <= Cardinality(Present)
            /\ Cardinality(Present') \in Nat
      BY <1>2, <2>1, FS_Subset, FS_CardinalityType
    <2>3. QED
      BY <2>1, <2>2, ConstantsAssumption DEF IInv, SizeInv
  <1>4. k \in Present => cached[k].expires < now
    BY DEF Hits, Expired, Present
  <1>5. QED
    BY <1>1, <1>2, <1>3, <1>4
-----------------------------------------------------------------------------
(* A request arrives. *)

\* Request s is as it was.
SameRequest(s) ==
  /\ pc'[s] = pc[s] /\ keyOf'[s] = keyOf[s] /\ source'[s] = source[s]
  /\ endAt'[s] = endAt[s] /\ result'[s] = result[s] /\ arrivedAt'[s] = arrivedAt[s]

\* The invariants of requests that have arrived do not depend on one that has
\* not, whatever it does next without executing.
LEMMA QuietArrival ==
  ASSUME IInv, NEW r \in Reqs, pc[r] = "idle", pc'[r] \in {"append", "wait"},
         result'[r] = "none", endAt'[r] = endAt[r], arrivedAt'[r] = now, now' = now,
         \A s \in Reqs \ {r} : SameRequest(s),
         inflight' = inflight, evicted' = evicted, source'[r] \in Reqs,
         \A k \in Keys : inflight[k] # None => cached'[k] = None,
         pc'[r] = "wait" => /\ source'[r] # r /\ pc[source'[r]] = "exec"
                            /\ keyOf'[r] = keyOf[source'[r]] /\ keyOf'[r] # None,
         pc'[r] = "append" => HitIsFresh'
  PROVE  InflightInv' /\ RequestInv' /\ SerialInv' /\ HitIsFresh' /\ AtMostOncePerTTL'
  <1>1. /\ InflightInv /\ RequestInv /\ SerialInv /\ HitIsFresh /\ AtMostOncePerTTL
        /\ result[r] = "none" /\ now \in Nat /\ endAt[r] <= now
        /\ inflight \in [Keys -> Reqs \cup {None}] /\ keyOf \in [Reqs -> Keys \cup {None}]
    BY DEF IInv, TypeOK, RequestInv
  <1>2. InflightInv'
    <2>1. \A s \in Reqs : pc'[s] = "exec" => s # r
      OBVIOUS
    <2>2. \A k \in Keys : inflight[k] # None => inflight[k] \in Reqs \ {r}
      BY <1>1 DEF InflightInv
    <2>3. QED
      BY <1>1, <2>1, <2>2 DEF InflightInv, SameRequest
  <1>3. RequestInv'
    <2>1. ASSUME NEW s \in Reqs, s # r, pc'[s] = "wait"
          PROVE  pc'[source'[s]] = "exec" /\ SameKey(s, source[s])'
      <3>1. source[s] \in Reqs \ {r} /\ pc[source[s]] = "exec" /\ SameKey(s, source[s])
        BY <1>1, <2>1 DEF RequestInv, SameRequest
      <3>2. QED
        BY <2>1, <3>1 DEF SameRequest, SameKey
    <2>2. pc'[r] = "wait" => pc'[source'[r]] = "exec" /\ SameKey(r, source[r])'
      BY DEF SameRequest, SameKey
    <2>3. QED
      BY <1>1, <2>1, <2>2 DEF RequestInv, SameRequest
  <1>4. SerialInv'
    BY <1>1 DEF SerialInv, SameRequest, SameKey
  <1>5. AtMostOncePerTTL'
    BY <1>1 DEF AtMostOncePerTTL, SameRequest, SameKey
  <1>6. HitIsFresh'
    <2>1. CASE pc'[r] = "append"
      BY <2>1
    <2>2. CASE pc'[r] = "wait"
      <3>1. ASSUME NEW s \in Reqs, pc'[s] = "append", source'[s] # s
            PROVE  /\ SameKey(s, source[s])' /\ result'[source'[s]] = "ok"
                   /\ arrivedAt'[s] <= endAt'[source'[s]] + TTL
        <4>1. s # r /\ SameRequest(s)
          BY <2>2, <3>1
        <4>2. /\ SameKey(s, source[s]) /\ result[source[s]] = "ok"
              /\ arrivedAt[s] <= endAt[source[s]] + TTL
          BY <1>1, <3>1, <4>1 DEF HitIsFresh, SameRequest
        <4>3. source[s] \in Reqs \ {r}
          BY <1>1, <3>1, <4>1, <4>2 DEF RequestInv, SameRequest
        <4>4. QED
          BY <4>1, <4>2, <4>3 DEF SameRequest, SameKey
      <3>2. QED
        BY <3>1 DEF HitIsFresh
    <2>3. QED
      BY <2>1, <2>2
  <1>7. QED
    BY <1>2, <1>3, <1>4, <1>5, <1>6

\* Entries that stay in the cache keep their invariants while the executions
\* that made them are as they were.
LEMMA CacheShrinks ==
  ASSUME IInv, NEW r \in Reqs, result[r] = "none", puts' = puts,
         \A s \in Reqs \ {r} : SameRequest(s),
         Present' \subseteq Present, \A k \in Present' : cached'[k] = cached[k]
  PROVE  CacheInv' /\ OrderInv'
  <1>1. ASSUME NEW k \in Present' PROVE cached[k].by \in Reqs \ {r}
    <2>1. k \in Present /\ result[cached[k].by] = "ok"
      BY <1>1 DEF IInv, CacheInv
    <2>2. QED
      BY <2>1, EntryType DEF IInv
  <1>2. CacheInv'
    BY <1>1 DEF IInv, CacheInv, SameRequest
  <1>3. OrderInv'
    BY DEF IInv, OrderInv
  <1>4. QED
    BY <1>2, <1>3

\* A hit binds the answer of a finished execution that is still fresh.
LEMMA HitCachedIInv ==
  ASSUME IInv, NEW r \in Reqs, NEW k \in Keys, HitCached(r, k) PROVE IInv'
  <1>1. /\ pc[r] = "idle" /\ Hits(k) /\ result[r] = "none" /\ k # None
        /\ UNCHANGED <<now, cached, puts, inflight, endAt, result, evicted>>
    BY ConstantsAssumption DEF HitCached, cacheVars, IInv, RequestInv
  <1>2. /\ TypeOK' /\ pc'[r] = "append" /\ keyOf'[r] = k /\ source'[r] = cached[k].by
        /\ arrivedAt'[r] = now /\ cached[k].by \in Reqs
        /\ \A s \in Reqs \ {r} : SameRequest(s)
    <2>1. k \in Present /\ cached[k].by \in Reqs
      BY <1>1, EntryType DEF Hits, Present, IInv
    <2>2. QED
      BY <1>1, <2>1 DEF HitCached, IInv, TypeOK, SameRequest
  <1>3. /\ result[cached[k].by] = "ok" /\ keyOf[cached[k].by] = k /\ cached[k].by # r
        /\ cached[k].expires = endAt[cached[k].by] + TTL
        /\ ~(cached[k].expires < now) /\ cached[k].expires \in Nat /\ now \in Nat
    <2>1. k \in Present /\ ~(cached[k].expires < now)
      BY <1>1 DEF Hits, Expired, Present
    <2>2. QED
      BY <1>1, <2>1, EntryType DEF IInv, CacheInv, TypeOK
  <1>4. HitIsFresh'
    <2>1. ASSUME NEW s \in Reqs, pc'[s] = "append", source'[s] # s
          PROVE  /\ SameKey(s, source[s])' /\ result'[source'[s]] = "ok"
                 /\ arrivedAt'[s] <= endAt'[source'[s]] + TTL
      <3>1. CASE s = r
        BY <1>1, <1>2, <1>3, <3>1 DEF SameKey, SameRequest
      <3>2. CASE s # r
        <4>1. SameRequest(s) /\ source[s] \in Reqs
          BY <1>2, <2>1, <3>2 DEF IInv, RequestInv, SameRequest
        <4>2. /\ SameKey(s, source[s]) /\ result[source[s]] = "ok"
              /\ arrivedAt[s] <= endAt[source[s]] + TTL
          BY <2>1, <4>1 DEF IInv, HitIsFresh, SameRequest
        <4>3. source[s] \in Reqs \ {r}
          BY <1>1, <4>1, <4>2
        <4>4. QED
          BY <1>2, <4>1, <4>2, <4>3 DEF SameRequest, SameKey
      <3>3. QED
        BY <3>1, <3>2
    <2>2. QED
      BY <2>1 DEF HitIsFresh
  <1>5. InflightInv' /\ RequestInv' /\ SerialInv' /\ AtMostOncePerTTL'
    BY <1>1, <1>2, <1>4, QuietArrival DEF IInv, InflightInv
  <1>6. Present' = Present
    BY <1>1 DEF Present
  <1>7. CacheInv' /\ OrderInv'
    BY <1>1, <1>2, <1>6, CacheShrinks
  <1>8. KeptInv'
    BY <1>1, <1>2 DEF IInv, KeptInv, SameRequest
  <1>9. SizeInv'
    BY <1>6 DEF IInv, SizeInv
  <1>10. QED
    BY <1>2, <1>4, <1>5, <1>7, <1>8, <1>9 DEF IInv

\* A miss drops only a response that is past its time.
LEMMA MissKeeps ==
  ASSUME IInv, NEW r \in Reqs, NEW k \in Keys, result[r] = "none", ~Hits(k),
         cached' = AfterMiss(k), result'[r] # "ok",
         \A s \in Reqs \ {r} : SameRequest(s), UNCHANGED <<now, puts, evicted>>
  PROVE  CacheInv' /\ OrderInv' /\ KeptInv' /\ SizeInv'
  <1>1. /\ cached'[k] = None /\ \A j \in Keys \ {k} : cached'[j] = cached[j]
        /\ Present' = Present \ {k} /\ SizeInv'
        /\ k \in Present => cached[k].expires < now
    BY MissFacts
  <1>2. CacheInv' /\ OrderInv'
    <2>1. Present' \subseteq Present /\ \A j \in Present' : cached'[j] = cached[j]
      BY <1>1 DEF Present
    <2>2. QED
      BY <2>1, CacheShrinks
  <1>3. KeptInv'
    <2>1. ASSUME NEW a \in Reqs, result'[a] = "ok", keyOf'[a] # None, a \notin evicted'
          PROVE  \/ endAt'[a] + TTL < now'
                 \/ cached'[keyOf'[a]] # None /\ cached'[keyOf'[a]].by = a
      <3>1. a # r /\ SameRequest(a)
        BY <2>1
      <3>2. keyOf[a] \in Keys
        BY <2>1, <3>1 DEF IInv, TypeOK, SameRequest
      <3>3. endAt[a] + TTL < now \/ (cached[keyOf[a]] # None /\ cached[keyOf[a]].by = a)
        BY <2>1, <3>1 DEF IInv, KeptInv, SameRequest
      <3>4. CASE keyOf[a] # k
        BY <1>1, <3>1, <3>2, <3>3, <3>4 DEF SameRequest
      <3>5. CASE keyOf[a] = k /\ cached[k] # None /\ cached[k].by = a
        <4>1. k \in Present
          BY <3>5 DEF Present
        <4>2. endAt[a] + TTL < now
          BY <1>1, <3>5, <4>1 DEF IInv, CacheInv
        <4>3. QED
          BY <3>1, <4>2 DEF SameRequest
      <3>6. QED
        BY <3>1, <3>3, <3>4, <3>5 DEF SameRequest
    <2>2. QED
      BY <2>1 DEF KeptInv
  <1>4. QED
    BY <1>1, <1>2, <1>3

\* A join waits for an execution of the same key.
LEMMA JoinInflightIInv ==
  ASSUME IInv, NEW r \in Reqs, NEW k \in Keys, JoinInflight(r, k) PROVE IInv'
  <1>1. /\ pc[r] = "idle" /\ ~Hits(k) /\ result[r] = "none" /\ k # None
        /\ inflight[k] # None /\ cached' = AfterMiss(k)
        /\ UNCHANGED <<now, puts, inflight, endAt, result, evicted>>
    BY ConstantsAssumption DEF JoinInflight, IInv, RequestInv
  <1>2. /\ inflight[k] \in Reqs /\ pc[inflight[k]] = "exec" /\ keyOf[inflight[k]] = k
        /\ inflight[k] # r
    BY <1>1 DEF IInv, TypeOK, InflightInv
  <1>3. /\ cached' \in [Keys -> Entry \cup {None}] /\ cached'[k] = None
        /\ \A j \in Keys \ {k} : cached'[j] = cached[j]
    BY <1>1, MissFacts
  <1>4. /\ TypeOK' /\ pc'[r] = "wait" /\ keyOf'[r] = k /\ source'[r] = inflight[k]
        /\ arrivedAt'[r] = now
        /\ \A s \in Reqs \ {r} : SameRequest(s)
    BY <1>1, <1>2, <1>3 DEF JoinInflight, IInv, TypeOK, SameRequest
  <1>5. \A j \in Keys : inflight[j] # None => cached'[j] = None
    BY <1>3 DEF IInv, InflightInv
  <1>6. InflightInv' /\ RequestInv' /\ SerialInv' /\ HitIsFresh' /\ AtMostOncePerTTL'
    BY <1>1, <1>2, <1>4, <1>5, QuietArrival
  <1>7. CacheInv' /\ OrderInv' /\ KeptInv' /\ SizeInv'
    BY <1>1, <1>4, MissKeeps
  <1>8. QED
    BY <1>4, <1>6, <1>7 DEF IInv
-----------------------------------------------------------------------------
(* An execution starts. *)

\* A request with no key, or with a key that neither executes nor has a fresh
\* response, starts its execution.
LEMMA StartFacts ==
  ASSUME IInv, NEW r \in Reqs, NEW k \in Keys \cup {None}, pc[r] = "idle", StartExec(r, k),
         k # None =>
           /\ inflight[k] = None
           /\ \A a \in Reqs : result[a] = "ok" /\ keyOf[a] = k /\ a \notin evicted
                                => endAt[a] + TTL < now
  PROVE  /\ pc'[r] = "exec" /\ keyOf'[r] = k /\ result'[r] = "running" /\ result[r] = "none"
         /\ \A s \in Reqs \ {r} : SameRequest(s)
         /\ pc' \in [Reqs -> {"idle", "exec", "wait", "append", "over"}]
         /\ keyOf' \in [Reqs -> Keys \cup {None}]
         /\ source' \in [Reqs -> Reqs \cup {None}]
         /\ arrivedAt' \in [Reqs -> Nat]
         /\ result' \in [Reqs -> {"none", "running", "ok", "err"}]
         /\ UNCHANGED <<now, puts, endAt, evicted>>
         /\ RequestInv' /\ SerialInv' /\ HitIsFresh' /\ AtMostOncePerTTL'
  <1>1. /\ UNCHANGED <<now, puts, endAt, evicted>> /\ result[r] = "none" /\ now \in Nat
        /\ endAt \in [Reqs -> Nat] /\ keyOf \in [Reqs -> Keys \cup {None}]
    BY DEF StartExec, IInv, TypeOK, RequestInv
  <1>2. /\ pc'[r] = "exec" /\ keyOf'[r] = k /\ source'[r] = r /\ arrivedAt'[r] = now
        /\ result'[r] = "running" /\ endAt'[r] = endAt[r]
        /\ \A s \in Reqs \ {r} : SameRequest(s)
    BY <1>1 DEF StartExec, IInv, TypeOK, SameRequest
  <1>3. /\ pc' \in [Reqs -> {"idle", "exec", "wait", "append", "over"}]
        /\ keyOf' \in [Reqs -> Keys \cup {None}]
        /\ source' \in [Reqs -> Reqs \cup {None}]
        /\ arrivedAt' \in [Reqs -> Nat]
        /\ result' \in [Reqs -> {"none", "running", "ok", "err"}]
    BY <1>1 DEF StartExec, IInv, TypeOK
  <1>4. RequestInv'
    <2>1. ASSUME NEW s \in Reqs, s # r, pc'[s] = "wait"
          PROVE  pc'[source'[s]] = "exec" /\ SameKey(s, source[s])'
      <3>1. source[s] \in Reqs \ {r} /\ pc[source[s]] = "exec" /\ SameKey(s, source[s])
        BY <1>2, <2>1 DEF IInv, RequestInv, SameRequest
      <3>2. QED
        BY <1>2, <2>1, <3>1 DEF SameRequest, SameKey
    <2>2. QED
      BY <1>1, <1>2, <2>1 DEF IInv, RequestInv, SameRequest
  <1>5. SerialInv'
    <2>1. ASSUME NEW s \in Reqs, NEW c \in Reqs, pc'[s] = "exec", c # s,
                 SameKey(s, c)', result'[c] # "none"
          PROVE  result'[c] # "running" /\ endAt'[c] <= arrivedAt'[s]
      <3>1. CASE s # r /\ c # r
        BY <1>2, <2>1, <3>1 DEF IInv, SerialInv, SameRequest, SameKey
      <3>2. CASE s = r
        <4>1. SameRequest(c) /\ keyOf[c] = k /\ k # None
          BY <1>2, <2>1, <3>2 DEF SameRequest, SameKey
        <4>2. pc[c] # "exec"
          BY <4>1, ConstantsAssumption DEF IInv, InflightInv
        <4>3. QED
          BY <1>2, <3>2, <4>1, <4>2 DEF IInv, RequestInv, SameRequest
      <3>3. CASE c = r
        <4>1. SameRequest(s) /\ keyOf[s] = k /\ k # None /\ pc[s] = "exec"
          BY <1>2, <2>1, <3>3 DEF SameRequest, SameKey
        <4>2. FALSE
          BY <4>1, ConstantsAssumption DEF IInv, InflightInv
        <4>3. QED
          BY <4>2
      <3>4. QED
        BY <3>1, <3>2, <3>3
    <2>2. QED
      BY <2>1 DEF SerialInv
  <1>6. HitIsFresh'
    <2>1. ASSUME NEW s \in Reqs, pc'[s] = "append", source'[s] # s
          PROVE  /\ SameKey(s, source[s])' /\ result'[source'[s]] = "ok"
                 /\ arrivedAt'[s] <= endAt'[source'[s]] + TTL
      <3>1. s # r /\ SameRequest(s)
        BY <1>2, <2>1
      <3>2. /\ SameKey(s, source[s]) /\ result[source[s]] = "ok" /\ source[s] \in Reqs
            /\ arrivedAt[s] <= endAt[source[s]] + TTL
        BY <2>1, <3>1 DEF IInv, HitIsFresh, RequestInv, SameRequest
      <3>3. source[s] \in Reqs \ {r}
        BY <1>1, <3>2
      <3>4. QED
        BY <1>2, <3>1, <3>2, <3>3 DEF SameRequest, SameKey
    <2>2. QED
      BY <2>1 DEF HitIsFresh
  <1>7. AtMostOncePerTTL'
    <2>1. ASSUME NEW a \in Reqs, NEW b \in Reqs, a # b, SameKey(a, b)',
                 result'[a] = "ok", result'[b] # "none", a \notin evicted'
          PROVE  \/ endAt'[a] + TTL < arrivedAt'[b]
                 \/ result'[b] # "running" /\ endAt'[b] <= arrivedAt'[a]
      <3>1. a # r /\ SameRequest(a)
        BY <1>2, <2>1
      <3>2. CASE b = r
        <4>1. keyOf[a] = k /\ k # None /\ result[a] = "ok" /\ a \notin evicted
          BY <1>1, <1>2, <2>1, <3>1, <3>2 DEF SameKey, SameRequest
        <4>2. QED
          BY <1>2, <3>1, <3>2, <4>1 DEF SameRequest
      <3>3. CASE b # r
        BY <1>1, <1>2, <2>1, <3>1, <3>3 DEF IInv, AtMostOncePerTTL, SameRequest, SameKey
      <3>4. QED
        BY <3>2, <3>3
    <2>2. QED
      BY <2>1 DEF AtMostOncePerTTL
  <1>8. QED
    BY <1>1, <1>2, <1>3, <1>4, <1>5, <1>6, <1>7

\* The cold path: look up, find nothing, register, all in one run.
LEMMA ColdStartIInv ==
  ASSUME IInv, NEW r \in Reqs, NEW k \in Keys, ColdStart(r, k) PROVE IInv'
  <1>1. /\ pc[r] = "idle" /\ ~Hits(k) /\ inflight[k] = None /\ k # None
        /\ cached' = AfterMiss(k) /\ inflight' = [inflight EXCEPT ![k] = r] /\ StartExec(r, k)
    BY ConstantsAssumption DEF ColdStart, Register
  <1>2. /\ cached' \in [Keys -> Entry \cup {None}] /\ cached'[k] = None
        /\ \A j \in Keys \ {k} : cached'[j] = cached[j]
        /\ k \in Present => cached[k].expires < now
    BY <1>1, MissFacts
  <1>3. \A a \in Reqs : result[a] = "ok" /\ keyOf[a] = k /\ a \notin evicted
                          => endAt[a] + TTL < now
    <2> SUFFICES ASSUME NEW a \in Reqs, result[a] = "ok", keyOf[a] = k, a \notin evicted,
                        cached[k] # None, cached[k].by = a
                 PROVE  endAt[a] + TTL < now
      BY <1>1 DEF IInv, KeptInv
    <2>1. k \in Present
      BY DEF Present
    <2>2. QED
      BY <1>2, <2>1 DEF IInv, CacheInv
  <1>4. /\ pc'[r] = "exec" /\ keyOf'[r] = k /\ result'[r] = "running" /\ result[r] = "none"
        /\ \A s \in Reqs \ {r} : SameRequest(s)
        /\ pc' \in [Reqs -> {"idle", "exec", "wait", "append", "over"}]
        /\ keyOf' \in [Reqs -> Keys \cup {None}]
        /\ source' \in [Reqs -> Reqs \cup {None}]
        /\ arrivedAt' \in [Reqs -> Nat]
        /\ result' \in [Reqs -> {"none", "running", "ok", "err"}]
        /\ UNCHANGED <<now, puts, endAt, evicted>>
        /\ RequestInv' /\ SerialInv' /\ HitIsFresh' /\ AtMostOncePerTTL'
    BY <1>1, <1>3, StartFacts
  <1>5. inflight' \in [Keys -> Reqs \cup {None}] /\ inflight'[k] = r
          /\ \A j \in Keys \ {k} : inflight'[j] = inflight[j]
    BY <1>1 DEF IInv, TypeOK
  <1>6. TypeOK'
    BY <1>2, <1>4, <1>5 DEF IInv, TypeOK
  <1>7. InflightInv'
    <2>1. ASSUME NEW s \in Reqs, pc'[s] = "exec", keyOf'[s] # None
          PROVE  inflight'[keyOf'[s]] = s
      <3>1. CASE s = r
        BY <1>4, <1>5, <3>1
      <3>2. CASE s # r
        <4>1. pc[s] = "exec" /\ keyOf[s] = keyOf'[s] /\ keyOf[s] \in Keys
          BY <1>4, <2>1, <3>2 DEF SameRequest, IInv, TypeOK
        <4>2. inflight[keyOf[s]] = s /\ keyOf[s] # k
          BY <1>1, <2>1, <4>1, ConstantsAssumption DEF IInv, InflightInv
        <4>3. QED
          BY <1>5, <4>1, <4>2
      <3>3. QED
        BY <3>1, <3>2
    <2>2. ASSUME NEW j \in Keys, inflight'[j] # None
          PROVE  pc'[inflight'[j]] = "exec" /\ keyOf'[inflight'[j]] = j /\ cached'[j] = None
      <3>1. CASE j = k
        BY <1>2, <1>4, <1>5, <3>1
      <3>2. CASE j # k
        <4>1. /\ inflight'[j] = inflight[j] /\ inflight[j] \in Reqs /\ pc[inflight[j]] = "exec"
              /\ keyOf[inflight[j]] = j /\ cached[j] = None
          BY <1>5, <2>2, <3>2 DEF IInv, TypeOK, InflightInv
        <4>2. SameRequest(inflight[j])
          BY <1>1, <1>4, <4>1
        <4>3. QED
          BY <1>2, <3>2, <4>1, <4>2 DEF SameRequest
      <3>3. QED
        BY <3>1, <3>2
    <2>3. QED
      BY <2>1, <2>2 DEF InflightInv
  <1>8. CacheInv' /\ OrderInv' /\ KeptInv' /\ SizeInv'
    BY <1>1, <1>4, MissKeeps
  <1>9. QED
    BY <1>4, <1>6, <1>7, <1>8 DEF IInv

\* A request without a key touches neither map.
LEMMA KeylessStartIInv ==
  ASSUME IInv, NEW r \in Reqs, KeylessStart(r) PROVE IInv'
  <1>1. pc[r] = "idle" /\ StartExec(r, None) /\ UNCHANGED <<cached, inflight>>
    BY DEF KeylessStart
  <1>2. /\ pc'[r] = "exec" /\ keyOf'[r] = None /\ result'[r] = "running" /\ result[r] = "none"
        /\ \A s \in Reqs \ {r} : SameRequest(s)
        /\ pc' \in [Reqs -> {"idle", "exec", "wait", "append", "over"}]
        /\ keyOf' \in [Reqs -> Keys \cup {None}]
        /\ source' \in [Reqs -> Reqs \cup {None}]
        /\ arrivedAt' \in [Reqs -> Nat]
        /\ result' \in [Reqs -> {"none", "running", "ok", "err"}]
        /\ UNCHANGED <<now, puts, endAt, evicted>>
        /\ RequestInv' /\ SerialInv' /\ HitIsFresh' /\ AtMostOncePerTTL'
    BY <1>1, StartFacts
  <1>3. TypeOK' /\ Present' = Present
    BY <1>1, <1>2 DEF IInv, TypeOK, Present
  <1>4. InflightInv'
    <2>1. \A k \in Keys : inflight[k] # None => inflight[k] \in Reqs \ {r}
      BY <1>1 DEF IInv, TypeOK, InflightInv
    <2>2. QED
      BY <1>1, <1>2, <2>1 DEF IInv, InflightInv, SameRequest
  <1>5. CacheInv' /\ OrderInv'
    BY <1>1, <1>2, <1>3, CacheShrinks
  <1>6. KeptInv' /\ SizeInv'
    BY <1>1, <1>2, <1>3 DEF IInv, KeptInv, SizeInv, SameRequest
  <1>7. QED
    BY <1>2, <1>3, <1>4, <1>5, <1>6 DEF IInv
-----------------------------------------------------------------------------
(* An execution settles. *)

\* The execution of r ends with outcome v, and r goes on at q together with the
\* requests that joined it.
LEMMA SettleFacts ==
  ASSUME IInv, NEW r \in Reqs, pc[r] = "exec", inflight' = Release(r),
         NEW q \in {"append", "over"}, NEW v \in {"ok", "err"}, q = "append" => v = "ok",
         pc' = [w \in Reqs |-> IF w = r \/ w \in Joined(r) THEN q ELSE pc[w]],
         endAt' = [endAt EXCEPT ![r] = now], result' = [result EXCEPT ![r] = v],
         UNCHANGED <<now, keyOf, source, arrivedAt>>, evicted \subseteq evicted',
         \A k \in Keys : inflight'[k] # None => cached'[k] = None
  PROVE  /\ inflight' \in [Keys -> Reqs \cup {None}]
         /\ pc' \in [Reqs -> {"idle", "exec", "wait", "append", "over"}]
         /\ endAt' \in [Reqs -> Nat]
         /\ result' \in [Reqs -> {"none", "running", "ok", "err"}]
         /\ result[r] = "running" /\ result'[r] = v /\ endAt'[r] = now
         /\ \A s \in Reqs \ {r} : result'[s] = result[s] /\ endAt'[s] = endAt[s]
         /\ InflightInv' /\ RequestInv' /\ SerialInv' /\ HitIsFresh' /\ AtMostOncePerTTL'
  <1>1. /\ inflight \in [Keys -> Reqs \cup {None}] /\ now \in Nat /\ result[r] = "running"
        /\ pc \in [Reqs -> {"idle", "exec", "wait", "append", "over"}]
        /\ endAt \in [Reqs -> Nat] /\ arrivedAt \in [Reqs -> Nat]
        /\ result \in [Reqs -> {"none", "running", "ok", "err"}]
        /\ keyOf \in [Reqs -> Keys \cup {None}]
        /\ InflightInv /\ RequestInv /\ SerialInv /\ HitIsFresh /\ AtMostOncePerTTL
    BY DEF IInv, TypeOK, RequestInv
  <1>2. /\ inflight' \in [Keys -> Reqs \cup {None}]
        /\ \A k \in Keys : inflight'[k] = IF inflight[k] = r THEN None ELSE inflight[k]
    BY <1>1 DEF Release
  <1>3. /\ pc' \in [Reqs -> {"idle", "exec", "wait", "append", "over"}]
        /\ pc'[r] = q
        /\ \A s \in Reqs : s \in Joined(r) => pc[s] = "wait" /\ source[s] = r /\ pc'[s] = q
        /\ \A s \in Reqs : s # r /\ s \notin Joined(r) =>
             pc'[s] = pc[s] /\ ~(pc[s] = "wait" /\ source[s] = r)
    BY <1>1 DEF Joined
  <1>4. /\ endAt' \in [Reqs -> Nat] /\ endAt'[r] = now /\ result'[r] = v
        /\ result' \in [Reqs -> {"none", "running", "ok", "err"}]
        /\ \A s \in Reqs \ {r} : result'[s] = result[s] /\ endAt'[s] = endAt[s]
    BY <1>1
  <1>5. \A s \in Reqs : pc'[s] = "exec" => pc[s] = "exec" /\ s # r
    BY <1>3
  <1>6. \A s \in Reqs : pc[s] = "exec" /\ s # r => pc'[s] = "exec"
    BY <1>3
  <1>7. InflightInv'
    <2>1. ASSUME NEW s \in Reqs, pc'[s] = "exec", keyOf'[s] # None
          PROVE  inflight'[keyOf'[s]] = s
      <3>1. inflight[keyOf[s]] = s /\ s # r /\ keyOf[s] \in Keys
        BY <1>1, <1>5, <2>1 DEF InflightInv
      <3>2. QED
        BY <1>2, <3>1
    <2>2. ASSUME NEW k \in Keys, inflight'[k] # None
          PROVE  pc'[inflight'[k]] = "exec" /\ keyOf'[inflight'[k]] = k
      <3>1. /\ inflight'[k] = inflight[k] /\ inflight[k] \in Reqs \ {r}
            /\ pc[inflight[k]] = "exec" /\ keyOf[inflight[k]] = k
        BY <1>1, <1>2, <2>2 DEF InflightInv
      <3>2. QED
        BY <1>6, <3>1
    <2>3. QED
      BY <2>1, <2>2 DEF InflightInv
  <1>8. RequestInv'
    <2>1. ASSUME NEW s \in Reqs
          PROVE  /\ pc'[s] = "exec" <=> result'[s] = "running"
                 /\ pc'[s] = "idle" => result'[s] = "none"
                 /\ pc'[s] = "exec" => source'[s] = s
                 /\ pc'[s] # "idle" => source'[s] \in Reqs
                 /\ endAt'[s] <= now' /\ arrivedAt'[s] <= now'
      <3>1. CASE s = r
        BY <1>1, <1>3, <1>4, <3>1 DEF RequestInv
      <3>2. CASE s # r /\ s \in Joined(r)
        BY <1>1, <1>3, <1>4, <3>2 DEF RequestInv
      <3>3. CASE s # r /\ s \notin Joined(r)
        BY <1>1, <1>3, <1>4, <3>3 DEF RequestInv
      <3>4. QED
        BY <3>1, <3>2, <3>3
    <2>2. ASSUME NEW s \in Reqs, pc'[s] = "wait"
          PROVE  pc'[source'[s]] = "exec" /\ SameKey(s, source[s])'
      <3>1. pc[s] = "wait" /\ source[s] # r
        BY <1>3, <2>2
      <3>2. source[s] \in Reqs /\ pc[source[s]] = "exec" /\ SameKey(s, source[s])
        BY <1>1, <3>1 DEF RequestInv
      <3>3. QED
        BY <1>6, <3>1, <3>2 DEF SameKey
    <2>3. QED
      BY <2>1, <2>2 DEF RequestInv
  <1>9. SerialInv'
    <2>1. ASSUME NEW s \in Reqs, NEW c \in Reqs, pc'[s] = "exec", c # s,
                 SameKey(s, c)', result'[c] # "none"
          PROVE  result'[c] # "running" /\ endAt'[c] <= arrivedAt'[s]
      <3>1. pc[s] = "exec" /\ SameKey(s, c)
        BY <1>5, <2>1 DEF SameKey
      <3>2. c # r
        BY <1>1, <2>1, <3>1 DEF SerialInv
      <3>3. QED
        BY <1>1, <1>4, <2>1, <3>1, <3>2 DEF SerialInv
    <2>2. QED
      BY <2>1 DEF SerialInv
  <1>10. AtMostOncePerTTL'
    <2>1. ASSUME NEW a \in Reqs, NEW b \in Reqs, a # b, SameKey(a, b)',
                 result'[a] = "ok", result'[b] # "none", a \notin evicted'
          PROVE  \/ endAt'[a] + TTL < arrivedAt'[b]
                 \/ result'[b] # "running" /\ endAt'[b] <= arrivedAt'[a]
      <3>1. SameKey(a, b) /\ a \notin evicted
        BY <2>1 DEF SameKey
      <3>2. CASE a = r
        BY <1>1, <1>4, <2>1, <3>1, <3>2 DEF SerialInv
      <3>3. CASE b = r
        BY <1>1, <1>4, <2>1, <3>1, <3>3 DEF AtMostOncePerTTL
      <3>4. CASE a # r /\ b # r
        BY <1>1, <1>4, <2>1, <3>1, <3>4 DEF AtMostOncePerTTL
      <3>5. QED
        BY <3>2, <3>3, <3>4
    <2>2. QED
      BY <2>1 DEF AtMostOncePerTTL
  <1>11. HitIsFresh'
    <2>1. ASSUME NEW s \in Reqs, pc'[s] = "append", source'[s] # s
          PROVE  /\ SameKey(s, source[s])' /\ result'[source'[s]] = "ok"
                 /\ arrivedAt'[s] <= endAt'[source'[s]] + TTL
      <3>1. s # r /\ source'[s] = source[s]
        BY <1>1, <2>1 DEF RequestInv
      <3>2. CASE s \in Joined(r)
        <4>1. source[s] = r /\ SameKey(s, r) /\ v = "ok" /\ arrivedAt[s] <= now
          BY <1>1, <1>3, <2>1, <3>2 DEF RequestInv
        <4>2. QED
          BY <1>1, <1>4, <3>1, <4>1, ConstantsAssumption DEF SameKey
      <3>3. CASE s \notin Joined(r)
        <4>1. pc[s] = "append"
          BY <1>3, <2>1, <3>1, <3>3
        <4>2. /\ SameKey(s, source[s]) /\ result[source[s]] = "ok" /\ source[s] \in Reqs
              /\ arrivedAt[s] <= endAt[source[s]] + TTL
          BY <1>1, <2>1, <3>1, <4>1 DEF HitIsFresh, RequestInv
        <4>3. source[s] # r
          BY <1>1, <4>2
        <4>4. QED
          BY <1>4, <3>1, <4>2, <4>3 DEF SameKey
      <3>4. QED
        BY <3>2, <3>3
    <2>2. QED
      BY <2>1 DEF HitIsFresh
  <1>12. QED
    BY <1>1, <1>2, <1>3, <1>4, <1>7, <1>8, <1>9, <1>10, <1>11

\* The cache does not care about an execution that is not in it.
LEMMA CacheKept ==
  ASSUME IInv, NEW r \in Reqs, result[r] = "running", result'[r] # "ok" \/ keyOf[r] = None,
         \A s \in Reqs \ {r} : result'[s] = result[s] /\ endAt'[s] = endAt[s],
         UNCHANGED <<now, cached, puts, keyOf, evicted>>
  PROVE  CacheInv' /\ OrderInv' /\ KeptInv' /\ SizeInv'
  <1>1. Present' = Present
    BY DEF Present
  <1>2. \A k \in Present : cached[k].by \in Reqs \ {r}
    BY EntryType DEF IInv, CacheInv
  <1>3. CacheInv' /\ OrderInv' /\ SizeInv'
    BY <1>1, <1>2 DEF IInv, CacheInv, OrderInv, SizeInv
  <1>4. KeptInv'
    BY DEF IInv, KeptInv
  <1>5. QED
    BY <1>3, <1>4

\* executeTurn rejects: nothing is cached.
LEMMA ExecRejectIInv ==
  ASSUME IInv, NEW r \in Reqs, ExecReject(r) PROVE IInv'
  <1>1. /\ pc[r] = "exec" /\ inflight' = Release(r)
        /\ pc' = [w \in Reqs |-> IF w = r \/ w \in Joined(r) THEN "over" ELSE pc[w]]
        /\ endAt' = [endAt EXCEPT ![r] = now] /\ result' = [result EXCEPT ![r] = "err"]
        /\ UNCHANGED <<now, cached, puts, keyOf, source, arrivedAt, evicted>>
    BY DEF ExecReject, FailedByRejection
  <1>2. \A k \in Keys : inflight'[k] # None => cached'[k] = None
    BY <1>1 DEF Release, IInv, InflightInv
  <1>3. /\ inflight' \in [Keys -> Reqs \cup {None}]
        /\ pc' \in [Reqs -> {"idle", "exec", "wait", "append", "over"}]
        /\ endAt' \in [Reqs -> Nat]
        /\ result' \in [Reqs -> {"none", "running", "ok", "err"}]
        /\ result[r] = "running" /\ result'[r] = "err" /\ endAt'[r] = now
        /\ \A s \in Reqs \ {r} : result'[s] = result[s] /\ endAt'[s] = endAt[s]
        /\ InflightInv' /\ RequestInv' /\ SerialInv' /\ HitIsFresh' /\ AtMostOncePerTTL'
    BY <1>1, <1>2, SettleFacts
  <1>4. TypeOK'
    BY <1>1, <1>3 DEF IInv, TypeOK
  <1>5. CacheInv' /\ OrderInv' /\ KeptInv' /\ SizeInv'
    BY <1>1, <1>3, CacheKept
  <1>6. QED
    BY <1>3, <1>4, <1>5 DEF IInv

\* executeTurn returns: the response enters the cache as its youngest entry.
LEMMA ExecResolveIInv ==
  ASSUME IInv, NEW r \in Reqs, ExecResolve(r) PROVE IInv'
  <1> DEFINE k == keyOf[r]
  <1>1. /\ pc[r] = "exec" /\ inflight' = Release(r)
        /\ pc' = [w \in Reqs |-> IF w = r \/ w \in Joined(r) THEN "append" ELSE pc[w]]
        /\ endAt' = [endAt EXCEPT ![r] = now] /\ result' = [result EXCEPT ![r] = "ok"]
        /\ UNCHANGED <<now, keyOf, source, arrivedAt>>
    BY DEF ExecResolve
  <1>2. CASE k = None
    <2>1. UNCHANGED <<cached, puts, evicted>>
      BY <1>2 DEF ExecResolve
    <2>2. \A j \in Keys : inflight'[j] # None => cached'[j] = None
      BY <1>1, <2>1 DEF Release, IInv, InflightInv
    <2>3. /\ inflight' \in [Keys -> Reqs \cup {None}]
          /\ pc' \in [Reqs -> {"idle", "exec", "wait", "append", "over"}]
          /\ endAt' \in [Reqs -> Nat]
          /\ result' \in [Reqs -> {"none", "running", "ok", "err"}]
          /\ result[r] = "running" /\ result'[r] = "ok" /\ endAt'[r] = now
          /\ \A s \in Reqs \ {r} : result'[s] = result[s] /\ endAt'[s] = endAt[s]
          /\ InflightInv' /\ RequestInv' /\ SerialInv' /\ HitIsFresh' /\ AtMostOncePerTTL'
      BY <1>1, <2>1, <2>2, SettleFacts
    <2>4. TypeOK'
      BY <1>1, <2>1, <2>3 DEF IInv, TypeOK
    <2>5. CacheInv' /\ OrderInv' /\ KeptInv' /\ SizeInv'
      BY <1>1, <1>2, <2>1, <2>3, CacheKept
    <2>6. QED
      BY <2>3, <2>4, <2>5 DEF IInv
  <1>3. CASE k # None
    <2>1. Put(k, r) /\ k \in Keys
      BY <1>3 DEF ExecResolve, IInv, TypeOK
    <2>2. inflight[k] = r /\ cached[k] = None
      BY <1>1, <1>3, <2>1, ConstantsAssumption DEF IInv, InflightInv
    <2>3. /\ cached' \in [Keys -> Entry \cup {None}] /\ puts' \in Nat /\ puts' = puts + 1
          /\ cached'[k] = [by |-> r, expires |-> now + TTL, seq |-> puts]
          /\ cached'[k] # None
          /\ \A j \in Keys \ {k} : cached'[j] = IF j \in Victims(k) THEN None ELSE cached[j]
          /\ Present' = (Present \ Victims(k)) \cup {k}
          /\ evicted' = evicted \cup {cached[j].by : j \in Victims(k)}
          /\ evicted' \subseteq Reqs
      BY <2>1, <2>2, PutFacts
    <2>4. \A j \in Keys : inflight'[j] # None => cached'[j] = None
      BY <1>1, <2>2, <2>3 DEF Release, IInv, InflightInv
    <2>5. /\ inflight' \in [Keys -> Reqs \cup {None}]
          /\ pc' \in [Reqs -> {"idle", "exec", "wait", "append", "over"}]
          /\ endAt' \in [Reqs -> Nat]
          /\ result' \in [Reqs -> {"none", "running", "ok", "err"}]
          /\ result[r] = "running" /\ result'[r] = "ok" /\ endAt'[r] = now
          /\ \A s \in Reqs \ {r} : result'[s] = result[s] /\ endAt'[s] = endAt[s]
          /\ InflightInv' /\ RequestInv' /\ SerialInv' /\ HitIsFresh' /\ AtMostOncePerTTL'
      BY <1>1, <2>3, <2>4, SettleFacts
    <2>6. TypeOK'
      BY <1>1, <2>3, <2>5 DEF IInv, TypeOK
    <2>7. ASSUME NEW j \in Present', j # k
          PROVE  /\ j \in Present /\ cached'[j] = cached[j] /\ cached[j].by \in Reqs \ {r}
                 /\ cached[j].seq \in Nat /\ cached[j].seq < puts
                 /\ cached[j].expires \in Nat /\ cached[j].expires <= now + TTL
      <3>1. j \in Present /\ cached'[j] = cached[j]
        BY <2>3, <2>7 DEF Present
      <3>2. /\ result[cached[j].by] = "ok" /\ cached[j].by \in Reqs
            /\ cached[j].expires = endAt[cached[j].by] + TTL
            /\ cached[j].seq < puts /\ cached[j].seq \in Nat
        BY <3>1, EntryType DEF IInv, CacheInv
      <3>3. endAt[cached[j].by] <= now /\ endAt[cached[j].by] \in Nat /\ now \in Nat
        BY <3>2 DEF IInv, RequestInv, TypeOK
      <3>4. QED
        BY <2>5, <3>1, <3>2, <3>3, ConstantsAssumption
    <2>8. CacheInv'
      <3>1. ASSUME NEW j \in Present'
            PROVE  /\ result'[cached'[j].by] = "ok" /\ keyOf'[cached'[j].by] = j
                   /\ cached'[j].expires = endAt'[cached'[j].by] + TTL
                   /\ cached'[j].seq < puts'
        <4>1. CASE j = k
          BY <1>1, <2>3, <2>5, <4>1 DEF IInv, TypeOK
        <4>2. CASE j # k
          BY <1>1, <2>3, <2>5, <2>7, <4>2 DEF IInv, CacheInv, TypeOK
        <4>3. QED
          BY <4>1, <4>2
      <3>2. QED
        BY <3>1 DEF CacheInv
    <2>9. OrderInv'
      <3>1. ASSUME NEW i \in Present', NEW j \in Present', cached'[i].seq <= cached'[j].seq
            PROVE  cached'[i].expires <= cached'[j].expires
        <4>1. puts \in Nat /\ now + TTL \in Nat
          BY ConstantsAssumption DEF IInv, TypeOK
        <4>2. CASE i # k /\ j # k
          BY <2>7, <3>1, <4>2 DEF IInv, OrderInv
        <4>3. CASE i = k /\ j # k
          BY <2>3, <2>7, <3>1, <4>1, <4>3
        <4>4. CASE j = k
          BY <2>3, <2>7, <4>1, <4>4
        <4>5. QED
          BY <4>2, <4>3, <4>4
      <3>2. QED
        BY <3>1 DEF OrderInv
    <2>10. KeptInv'
      <3>1. ASSUME NEW a \in Reqs, result'[a] = "ok", keyOf'[a] # None, a \notin evicted'
            PROVE  \/ endAt'[a] + TTL < now'
                   \/ cached'[keyOf'[a]] # None /\ cached'[keyOf'[a]].by = a
        <4>1. CASE a = r
          BY <1>1, <2>3, <4>1
        <4>2. CASE a # r
          <5>1. /\ result[a] = "ok" /\ a \notin evicted /\ keyOf[a] \in Keys /\ endAt'[a] = endAt[a]
                /\ endAt[a] + TTL < now \/ (cached[keyOf[a]] # None /\ cached[keyOf[a]].by = a)
            BY <1>1, <2>3, <2>5, <3>1, <4>2 DEF IInv, KeptInv, TypeOK
          <5>2. CASE endAt[a] + TTL < now
            BY <1>1, <5>1, <5>2
          <5>3. CASE cached[keyOf[a]] # None /\ cached[keyOf[a]].by = a
            <6>1. keyOf[a] # k
              BY <2>2, <5>3
            <6>2. keyOf[a] \notin Victims(k)
              BY <2>3, <3>1, <5>3
            <6>3. QED
              BY <1>1, <2>3, <5>1, <5>3, <6>1, <6>2
          <5>4. QED
            BY <5>1, <5>2, <5>3
        <4>3. QED
          BY <4>1, <4>2
      <3>2. QED
        BY <3>1 DEF KeptInv
    <2>11. SizeInv'
      BY <2>1, <2>2, PutKeepsSize
    <2>12. QED
      BY <2>5, <2>6, <2>8, <2>9, <2>10, <2>11 DEF IInv
  <1>4. QED
    BY <1>2, <1>3
-----------------------------------------------------------------------------
(* The other steps, and the theorems. *)

\* Nothing has been requested.
LEMMA InitIInv == Init => IInv
  <1> SUFFICES ASSUME Init PROVE IInv
    OBVIOUS
  <1>1. TypeOK
    BY DEF Init, TypeOK
  <1>2. Present = {}
    BY DEF Init, Present
  <1>3. SizeInv
    BY <1>2, FS_EmptySet, ConstantsAssumption DEF SizeInv
  <1>4. InflightInv /\ RequestInv /\ KeptInv /\ SerialInv /\ HitIsFresh /\ AtMostOncePerTTL
    BY DEF Init, InflightInv, RequestInv, KeptInv, SerialInv, HitIsFresh, AtMostOncePerTTL
  <1>5. CacheInv /\ OrderInv
    BY <1>2 DEF CacheInv, OrderInv
  <1>6. QED
    BY <1>1, <1>3, <1>4, <1>5 DEF IInv

\* An answer that has been sent binds nobody.
LEMMA RespondIInv ==
  ASSUME IInv, NEW r \in Reqs, Respond(r) PROVE IInv'
  <1>1. /\ pc[r] = "append" /\ pc' = [pc EXCEPT ![r] = "over"]
        /\ UNCHANGED <<now, cached, puts, inflight, keyOf, source, endAt, result, arrivedAt, evicted>>
    BY DEF Respond, cacheVars, histVars
  <1>2. TypeOK' /\ pc'[r] = "over" /\ \A s \in Reqs \ {r} : pc'[s] = pc[s]
    BY <1>1 DEF IInv, TypeOK
  <1>3. Present' = Present
    BY <1>1 DEF Present
  <1>4. InflightInv'
    <2>1. \A k \in Keys : inflight[k] # None => inflight[k] \in Reqs \ {r}
      BY <1>1 DEF IInv, TypeOK, InflightInv
    <2>2. QED
      BY <1>1, <1>2, <2>1 DEF IInv, InflightInv
  <1>5. RequestInv'
    <2>1. \A s \in Reqs : pc[s] = "wait" => source[s] \in Reqs \ {r}
      BY <1>1 DEF IInv, RequestInv
    <2>2. QED
      BY <1>1, <1>2, <2>1 DEF IInv, RequestInv, SameKey
  <1>6. SerialInv' /\ HitIsFresh' /\ AtMostOncePerTTL'
    BY <1>1, <1>2 DEF IInv, SerialInv, HitIsFresh, AtMostOncePerTTL, SameKey
  <1>7. CacheInv' /\ OrderInv' /\ KeptInv' /\ SizeInv'
    BY <1>1, <1>3 DEF IInv, CacheInv, OrderInv, KeptInv, SizeInv
  <1>8. QED
    BY <1>2, <1>4, <1>5, <1>6, <1>7 DEF IInv

\* Time only makes responses older.
LEMMA TickIInv == ASSUME IInv, Tick PROVE IInv'
  <1>1. /\ now' = now + 1 /\ now \in Nat
        /\ UNCHANGED <<cached, puts, inflight, pc, keyOf, source, endAt, result, arrivedAt, evicted>>
    BY DEF Tick, cacheVars, reqVars, histVars, IInv, TypeOK
  <1>2. TypeOK' /\ Present' = Present
    BY <1>1 DEF IInv, TypeOK, Present
  <1>3. InflightInv' /\ SerialInv' /\ HitIsFresh' /\ AtMostOncePerTTL'
    BY <1>1 DEF IInv, InflightInv, SerialInv, HitIsFresh, AtMostOncePerTTL, SameKey
  <1>4. RequestInv'
    BY <1>1 DEF IInv, TypeOK, RequestInv, SameKey
  <1>5. CacheInv' /\ OrderInv' /\ SizeInv'
    BY <1>1, <1>2 DEF IInv, CacheInv, OrderInv, SizeInv
  <1>6. KeptInv'
    BY <1>1, ConstantsAssumption DEF IInv, TypeOK, KeptInv
  <1>7. QED
    BY <1>2, <1>3, <1>4, <1>5, <1>6 DEF IInv

\* Every step keeps the invariant.
LEMMA NextIInv == IInv /\ [Next]_vars => IInv'
  <1> SUFFICES ASSUME IInv, [Next]_vars PROVE IInv'
    OBVIOUS
  <1>1. CASE UNCHANGED vars
    BY <1>1 DEF vars, cacheVars, reqVars, histVars, IInv, TypeOK, Present, InflightInv,
                RequestInv, CacheInv, OrderInv, KeptInv, SerialInv, SizeInv, HitIsFresh,
                AtMostOncePerTTL, SameKey
  <1>2. CASE Tick
    BY <1>2, TickIInv
  <1>3. CASE \E r \in Reqs : Arrive(r)
    BY <1>3, KeylessStartIInv, HitCachedIInv, JoinInflightIInv, ColdStartIInv DEF Arrive
  <1>4. CASE \E r \in Reqs : Proceed(r)
    BY <1>4, ExecResolveIInv, ExecRejectIInv, RespondIInv DEF Proceed
  <1>5. QED
    BY <1>1, <1>2, <1>3, <1>4 DEF Next

\* IInv holds in every reachable state.
THEOREM Invariance == Spec => []IInv
  BY InitIInv, NextIInv, PTL DEF Spec

\* Two requests with one key never execute at the same time: the lookup and the
\* registration in exec.ts are one synchronous run.
THEOREM OneExecutionPerKey == Spec => []SingleFlight
  <1>1. IInv => SingleFlight
    BY DEF IInv, InflightInv, SingleFlight, SameKey
  <1>2. QED
    BY <1>1, Invariance, PTL

\* A key that was executed is not executed again within the TTL, unless the cap
\* evicted its response.
THEOREM NoRepeatWithinTTL == Spec => []AtMostOncePerTTL
  BY Invariance, PTL DEF IInv

\* A replayed answer is that of a settled execution of the key, within the TTL.
THEOREM ReplaysAreFresh == Spec => []HitIsFresh
  BY Invariance, PTL DEF IInv

\* idempotencyPut keeps the cache within IDEMPOTENCY_MAX_ENTRIES and never
\* overwrites an entry.
THEOREM CacheStaysBounded == Spec => []CacheBounded
  <1>1. IInv => CacheBounded
    BY DEF IInv, SizeInv, InflightInv, CacheBounded
  <1>2. QED
    BY <1>1, Invariance, PTL

\* The first key of the Map is the response that would expire first, so that is
\* the one which eviction takes.
THEOREM EvictionTakesOldest == Spec => EvictsOldest
  <1> DEFINE Takes == \A k \in Keys :
                cached[k] # None /\ cached[k].by \in evicted' \ evicted
                => \A j \in Keys : cached[j] # None => cached[k].expires <= cached[j].expires
  <1>1. IInv /\ [Next]_vars => [Takes]_vars
    <2> SUFFICES ASSUME IInv, Next, NEW k \in Keys, cached[k] # None,
                        cached[k].by \in evicted' \ evicted, NEW j \in Keys, cached[j] # None
                 PROVE  cached[k].expires <= cached[j].expires
      OBVIOUS
    <2>1. PICK r \in Reqs : ExecResolve(r) /\ keyOf[r] # None
      BY DEF Next, Tick, Arrive, Proceed, KeylessStart, HitCached, JoinInflight, ColdStart,
             StartExec, ExecReject, ExecResolve, Respond, histVars
    <2>2. evicted' = evicted \cup {cached[i].by : i \in Victims(keyOf[r])}
      BY <2>1 DEF ExecResolve, Put
    <2>3. PICK i \in Victims(keyOf[r]) : cached[i].by = cached[k].by
      BY <2>2
    <2>4. i \in Present /\ k \in Present /\ j \in Present /\ Oldest(i)
      BY <2>3 DEF Victims, Present
    <2>5. i = k
      BY <2>3, <2>4 DEF IInv, CacheInv
    <2>6. QED
      BY <2>4, <2>5 DEF Oldest, IInv, OrderInv
  <1>2. QED
    BY <1>1, Invariance, PTL DEF Spec, EvictsOldest
-----------------------------------------------------------------------------
(* The drain gate. *)

\* The phases of the drain agree with each other.
DrainInv ==
  /\ shutdown = "none" <=> current = "accepting"
  /\ shutdown = "waiting" => current = "draining"
  /\ current = "draining" <=> resolver
  /\ clean => current = "stopped"

\* Where a request can be: only a streaming exec goes on after its handler,
\* and only the exit cuts a request off.
PlacesInv ==
  \A r \in Requests :
    /\ place[r] = "streaming" => r \in Streaming
    /\ place[r] = "cut" => shutdown = "exited"

\* The counter of lifecycle.ts is the number of requests inside the gate.
CountExact == count = Cardinality(Active)

GateInv ==
  /\ DrainTypeOK
  /\ CountExact
  /\ DrainInv
  /\ PlacesInv
  /\ StoppedMeansQuiet
  /\ CleanExitCutsNoMutation
-----------------------------------------------------------------------------
\* The requests inside the gate are finitely many, and none of them are there
\* exactly when their number is 0.
LEMMA ActiveFinite ==
  /\ IsFiniteSet(Active)
  /\ Cardinality(Active) \in Nat
  /\ Cardinality(Active) = 0 <=> Active = {}
  <1>1. Active \in SUBSET Requests
    BY DEF Active
  <1>2. IsFiniteSet(Active)
    BY <1>1, RequestsAssumption, FS_Subset
  <1>3. QED
    BY <1>2, FS_CardinalityType, FS_EmptySet

\* Nothing has arrived and nothing was signalled.
LEMMA GateInit == DrainInit => GateInv
  <1> SUFFICES ASSUME DrainInit PROVE GateInv
    OBVIOUS
  <1>1. DrainTypeOK
    BY DEF DrainInit, DrainTypeOK
  <1>2. Active = {}
    BY DEF DrainInit, Active
  <1>3. CountExact
    BY <1>2, FS_EmptySet DEF DrainInit, CountExact
  <1>4. QED
    BY <1>1, <1>2, <1>3
       DEF DrainInit, GateInv, DrainInv, PlacesInv, StoppedMeansQuiet, CleanExitCutsNoMutation

\* checkAndIncrement: one more inside, and never a mutating request unless the
\* server accepts.
LEMMA GateEnter == ASSUME GateInv, NEW r \in Requests, Enter(r) PROVE GateInv'
  <1>1. /\ place' = [place EXCEPT ![r] = "active"] /\ count' = count + 1 /\ place[r] = "idle"
        /\ UNCHANGED <<current, resolver, shutdown, clean>>
        /\ shutdown # "exited" /\ (r \in Mutating => current = "accepting")
    BY DEF Enter, Refuses
  <1>2. DrainTypeOK'
    BY <1>1 DEF GateInv, DrainTypeOK
  <1>3. Active' = Active \cup {r} /\ r \notin Active
    BY <1>1 DEF GateInv, DrainTypeOK, Active
  <1>4. CountExact'
    <2>1. Cardinality(Active \cup {r}) = Cardinality(Active) + 1
      BY <1>3, ActiveFinite, FS_AddElement
    <2>2. QED
      BY <1>1, <1>3, <2>1 DEF GateInv, CountExact
  <1>5. StoppedMeansQuiet'
    BY <1>1, <1>3 DEF GateInv, StoppedMeansQuiet
  <1>6. DrainInv' /\ PlacesInv' /\ CleanExitCutsNoMutation'
    BY <1>1 DEF GateInv, DrainTypeOK, DrainInv, PlacesInv, CleanExitCutsNoMutation
  <1>7. QED
    BY <1>2, <1>4, <1>5, <1>6 DEF GateInv

\* A 503, and the end of a stream, change no request inside the gate.
LEMMA GateOutside ==
  ASSUME GateInv, NEW r \in Requests, Reject(r) \/ StreamEnds(r) PROVE GateInv'
  <1>1. /\ place' = [place EXCEPT ![r] = "refused"] \/ place' = [place EXCEPT ![r] = "done"]
        /\ place[r] # "active" /\ shutdown # "exited"
        /\ UNCHANGED <<current, count, resolver, shutdown, clean>>
    BY DEF Reject, StreamEnds
  <1>2. DrainTypeOK'
    BY <1>1 DEF GateInv, DrainTypeOK
  <1>3. Active' = Active
    BY <1>1 DEF GateInv, DrainTypeOK, Active
  <1>4. QED
    BY <1>1, <1>2, <1>3 DEF GateInv, DrainTypeOK, CountExact, DrainInv, PlacesInv,
                            StoppedMeansQuiet, CleanExitCutsNoMutation

\* decrement: one less inside; `stopped' is reached only at zero.
LEMMA GateLeave == ASSUME GateInv, NEW r \in Requests, Leave(r) PROVE GateInv'
  <1>1. /\ place' = [place EXCEPT ![r] = AfterHandler(r)] /\ place[r] = "active"
        /\ shutdown # "exited" /\ Decrement
    BY DEF Leave
  <1>2. /\ AfterHandler(r) \in {"streaming", "done"}
        /\ AfterHandler(r) = "streaming" => r \in Streaming
    BY DEF AfterHandler
  <1>3. Active' = Active \ {r} /\ r \in Active
    BY <1>1, <1>2 DEF GateInv, DrainTypeOK, Active
  <1>4. /\ IsFiniteSet(Active')
        /\ Cardinality(Active') = Cardinality(Active) - 1
    BY <1>3, ActiveFinite, FS_RemoveElement
  <1>5. /\ count' = count - 1 /\ count = Cardinality(Active) /\ count - 1 \in Nat
        /\ count = 1 => Active' = {}
    <2>1. Cardinality(Active') \in Nat /\ (Cardinality(Active') = 0 <=> Active' = {})
      BY <1>4, FS_CardinalityType, FS_EmptySet
    <2>2. count' = count - 1 /\ count = Cardinality(Active)
      BY <1>1 DEF Decrement, GateInv, CountExact
    <2>3. QED
      BY <1>4, <2>1, <2>2
  <1>6. CountExact'
    BY <1>4, <1>5 DEF CountExact
  <1>7. \/ UNCHANGED <<resolver, current, shutdown, clean>>
        \/ /\ count = 1 /\ current = "draining" /\ resolver
           /\ resolver' = FALSE /\ current' = "stopped"
           /\ \/ shutdown = "waiting" /\ shutdown' = "closing" /\ clean' = TRUE
              \/ shutdown # "waiting" /\ shutdown' = shutdown /\ clean' = clean
    BY <1>1 DEF Decrement, LastOut
  <1>8. DrainTypeOK'
    BY <1>1, <1>2, <1>5, <1>7 DEF GateInv, DrainTypeOK
  <1>9. DrainInv'
    BY <1>7 DEF GateInv, DrainTypeOK, DrainInv
  <1>10. PlacesInv'
    BY <1>1, <1>2, <1>7 DEF GateInv, DrainTypeOK, PlacesInv
  <1>11. StoppedMeansQuiet'
    BY <1>3, <1>5, <1>7 DEF GateInv, StoppedMeansQuiet
  <1>12. CleanExitCutsNoMutation'
    BY <1>1, <1>7 DEF CleanExitCutsNoMutation
  <1>13. QED
    BY <1>6, <1>8, <1>9, <1>10, <1>11, <1>12 DEF GateInv

\* The signal stops at once only a server with an empty gate.
LEMMA GateSignal == ASSUME GateInv, Signal PROVE GateInv'
  <1>1. /\ shutdown = "none" /\ UNCHANGED <<count, place>>
        /\ \/ /\ count = 0 /\ current' = "stopped" /\ shutdown' = "closing"
              /\ clean' = TRUE /\ resolver' = resolver
           \/ /\ current' = "draining" /\ shutdown' = "waiting" /\ resolver' = TRUE
              /\ clean' = clean
    BY DEF Signal
  <1>2. Active' = Active /\ (count = 0 => Active = {})
    BY <1>1, ActiveFinite DEF Active, GateInv, CountExact
  <1>3. DrainTypeOK' /\ CountExact' /\ PlacesInv'
    BY <1>1, <1>2 DEF GateInv, DrainTypeOK, CountExact, PlacesInv
  <1>4. DrainInv'
    BY <1>1 DEF GateInv, DrainTypeOK, DrainInv
  <1>5. StoppedMeansQuiet' /\ CleanExitCutsNoMutation'
    BY <1>1, <1>2 DEF StoppedMeansQuiet, CleanExitCutsNoMutation
  <1>6. QED
    BY <1>3, <1>4, <1>5 DEF GateInv

\* The grace timer and the closing of the server leave the gate alone.
LEMMA GateTimer == ASSUME GateInv, GraceTimeout \/ CloseServer PROVE GateInv'
  <1>1. /\ shutdown \in {"waiting", "closing"} /\ shutdown' \in {"closing", "exiting"}
        /\ clean' = FALSE \/ clean' = clean
        /\ UNCHANGED <<current, count, resolver, place>>
    BY DEF GraceTimeout, CloseServer
  <1>2. Active' = Active
    BY <1>1 DEF Active
  <1>3. DrainTypeOK' /\ CountExact' /\ StoppedMeansQuiet'
    BY <1>1, <1>2 DEF GateInv, DrainTypeOK, CountExact, StoppedMeansQuiet
  <1>4. DrainInv'
    BY <1>1 DEF GateInv, DrainTypeOK, DrainInv
  <1>5. PlacesInv' /\ CleanExitCutsNoMutation'
    BY <1>1 DEF GateInv, PlacesInv, CleanExitCutsNoMutation
  <1>6. QED
    BY <1>3, <1>4, <1>5 DEF GateInv

\* The exit cuts off what is inside the gate or streaming: after a clean drain
\* that is no request of Plain.
LEMMA GateExit == ASSUME GateInv, Exit PROVE GateInv'
  <1>1. /\ shutdown = "exiting" /\ shutdown' = "exited" /\ count' = 0
        /\ UNCHANGED <<current, resolver, clean>>
        /\ place' = [r \in Requests |-> IF place[r] \in {"active", "streaming"}
                                     THEN "cut" ELSE place[r]]
    BY DEF Exit
  <1>2. DrainTypeOK'
    BY <1>1 DEF GateInv, DrainTypeOK
  <1>3. Active' = {}
    BY <1>1 DEF Active
  <1>4. CountExact'
    BY <1>1, <1>3, FS_EmptySet DEF CountExact
  <1>5. DrainInv' /\ PlacesInv' /\ StoppedMeansQuiet'
    BY <1>1, <1>3 DEF GateInv, DrainTypeOK, DrainInv, PlacesInv, StoppedMeansQuiet
  <1>6. ASSUME clean, NEW r \in Plain PROVE place'[r] # "cut"
    <2>1. r \in Requests /\ r \in Mutating /\ r \notin Streaming
      BY RequestsAssumption DEF Requests, Mutating
    <2>2. r \notin Active
      BY <1>6, <2>1 DEF GateInv, DrainInv, StoppedMeansQuiet
    <2>3. place[r] \notin {"active", "streaming", "cut"}
      BY <1>1, <2>1, <2>2 DEF Active, GateInv, PlacesInv
    <2>4. QED
      BY <1>1, <2>1, <2>3
  <1>7. CleanExitCutsNoMutation'
    BY <1>1, <1>6 DEF CleanExitCutsNoMutation
  <1>8. QED
    BY <1>2, <1>4, <1>5, <1>7 DEF GateInv

\* Every step keeps the invariant.
LEMMA GateNext == GateInv /\ [DrainNext]_drainVars => GateInv'
  <1> SUFFICES ASSUME GateInv, [DrainNext]_drainVars PROVE GateInv'
    OBVIOUS
  <1>1. CASE UNCHANGED drainVars
    BY <1>1 DEF drainVars, GateInv, DrainTypeOK, CountExact, Active, DrainInv, PlacesInv,
                StoppedMeansQuiet, CleanExitCutsNoMutation
  <1>2. CASE Signal
    BY <1>2, GateSignal
  <1>3. CASE ShutdownStep
    BY <1>3, GateTimer, GateExit DEF ShutdownStep
  <1>4. CASE \E r \in Requests : RequestStep(r)
    BY <1>4, GateEnter, GateOutside, GateLeave DEF RequestStep
  <1>5. QED
    BY <1>1, <1>2, <1>3, <1>4 DEF DrainNext

\* GateInv holds in every reachable state.
THEOREM GateInvariance == DrainSpec => []GateInv
  BY GateInit, GateNext, PTL DEF DrainSpec
-----------------------------------------------------------------------------
\* A stopped server has no mutating request inside the gate, whichever of the
\* three ways it stopped, and lets none in while its socket is still open.
THEOREM StoppedServerIsQuiet == DrainSpec => []StoppedMeansQuiet
  BY GateInvariance, PTL DEF GateInv

\* Exit code 0 is never given when a counted mutating request was cut off.
THEOREM CleanExitIsHonest == DrainSpec => []CleanExitCutsNoMutation
  BY GateInvariance, PTL DEF GateInv
=============================================================================
