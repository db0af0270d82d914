-------------------------- MODULE ExecIdempotency --------------------------
(***************************************************************************)
(* POST /sessions/:id/exec with an idempotency_key: the response cache of  *)
(* one session, the map of executions in flight, and the requests that     *)
(* race on them (src/http/routes/exec.ts, src/session/state.ts).           *)
(*                                                                         *)
(* An action is one run of JavaScript between two awaits.  When an         *)
(* execution settles, the reactions registered on its promise (the release *)
(* of the in-flight entry, its own request, the requests that joined it)   *)
(* run back to back in the same microtask checkpoint, so they are one      *)
(* action.  A response is named by the request whose execution made it.    *)
(***************************************************************************)
EXTENDS Naturals, FiniteSets

CONSTANTS
  Reqs,         \* the exec requests
  Keys,         \* idempotency keys
  None,         \* no key, no entry, no request
  TTL,          \* IDEMPOTENCY_TTL_MS
  MaxEntries,   \* IDEMPOTENCY_MAX_ENTRIES
  MaxTime       \* bound: the clock stops here

\* A cache entry; `seq' is its place in the Map's insertion order.
Entry == [by : Reqs, expires : Nat, seq : Nat]

ASSUME ConstantsAssumption ==
  /\ None \notin Reqs \cup Keys \cup Entry
  /\ TTL \in Nat
  /\ MaxEntries \in Nat \ {0}
  /\ MaxTime \in Nat

VARIABLES
  now,       \* Date.now()
  cached,    \* idempotencyCache: per key its entry or None
  puts,      \* number of entries ever inserted, the order of the Map
  inflight,  \* idempotencyInflight: per key the executing request or None
  pc,        \* where each request is
  keyOf,     \* the key it carries, None when it has none or streams (SSE)
  source,    \* the request whose execution answers it
  endAt,     \* history: when its own execution settled
  result,    \* history: how its own execution settled
  arrivedAt, \* history: when it looked the key up, and started or joined
  evicted    \* history: requests whose entry was evicted at the cap

cacheVars == <<cached, puts, inflight>>
reqVars   == <<pc, keyOf, source>>
histVars  == <<endAt, result, arrivedAt, evicted>>
vars == <<now, cacheVars, reqVars, histVars>>

Init ==
  /\ now = 0
  /\ cached = [k \in Keys |-> None]
  /\ puts = 0
  /\ inflight = [k \in Keys |-> None]
  /\ pc = [r \in Reqs |-> "idle"]
  /\ keyOf = [r \in Reqs |-> None]
  /\ source = [r \in Reqs |-> None]
  /\ endAt = [r \in Reqs |-> 0]
  /\ result = [r \in Reqs |-> "none"]
  /\ arrivedAt = [r \in Reqs |-> 0]
  /\ evicted = {}
-----------------------------------------------------------------------------
(* The cache. *)

Present == {k \in Keys : cached[k] # None}

\* Mutant: an entry is dead already at the instant it expires.
ExpiredAtLimit(k) == cached[k].expires <= now

\* The test of idempotencyGet.
Expired(k) == cached[k].expires < now

\* Mutant: an entry answers whatever its age.
HitsAnyAge(k) == cached[k] # None

\* idempotencyGet returns a response.
Hits(k) == cached[k] # None /\ ~Expired(k)

\* The entry next in the Map's key order.
Oldest(k) ==
  k \in Present /\ \A j \in Present : cached[k].seq <= cached[j].seq

\* Mutant: the entry that goes is the last one inserted.
VictimsNewest(k) ==
  {j \in Present : /\ cached[k] = None
                   /\ Cardinality(Present) >= MaxEntries
                   /\ \A i \in Present : cached[i].seq <= cached[j].seq}

\* The entry idempotencyPut deletes to make room for a new key.
Victims(k) ==
  {j \in Present : /\ cached[k] = None
                   /\ Cardinality(Present) >= MaxEntries
                   /\ Oldest(j)}

\* When an entry inserted now expires.
ExpiresAt == now + TTL

\* idempotencyPut: an existing key keeps its place in the Map.
Put(k, r) ==
  /\ cached' = [j \in Keys |->
       CASE j = k -> [by |-> r, expires |-> ExpiresAt,
                      seq |-> IF cached[k] = None THEN puts
                              ELSE cached[k].seq]
         [] j # k /\ j \in Victims(k) -> None
         [] OTHER -> cached[j]]
  /\ puts' = IF cached[k] = None THEN puts + 1 ELSE puts
  /\ evicted' = evicted \cup {cached[j].by : j \in Victims(k)}
-----------------------------------------------------------------------------
(* The requests. *)

\* The key was seen within its TTL: respondHit.
HitCached(r, k) ==
  /\ pc[r] = "idle" /\ Hits(k)
  /\ pc' = [pc EXCEPT ![r] = "append"]
  /\ keyOf' = [keyOf EXCEPT ![r] = k]
  /\ source' = [source EXCEPT ![r] = cached[k].by]
  /\ arrivedAt' = [arrivedAt EXCEPT ![r] = now]
  /\ UNCHANGED <<now, cacheVars, endAt, result, evicted>>

\* What idempotencyGet leaves of the cache when it misses: an expired entry
\* is deleted.
AfterMiss(k) == [cached EXCEPT ![k] = None]

\* The key is executing: wait for that promise.
JoinInflight(r, k) ==
  /\ pc[r] = "idle" /\ ~Hits(k) /\ inflight[k] # None
  /\ cached' = AfterMiss(k)
  /\ pc' = [pc EXCEPT ![r] = "wait"]
  /\ keyOf' = [keyOf EXCEPT ![r] = k]
  /\ source' = [source EXCEPT ![r] = inflight[k]]
  /\ arrivedAt' = [arrivedAt EXCEPT ![r] = now]
  /\ UNCHANGED <<now, puts, inflight, endAt, result, evicted>>

\* executeTurn is called and runs up to its first await.
StartExec(r, k) ==
  /\ pc' = [pc EXCEPT ![r] = "exec"]
  /\ keyOf' = [keyOf EXCEPT ![r] = k]
  /\ source' = [source EXCEPT ![r] = r]
  /\ arrivedAt' = [arrivedAt EXCEPT ![r] = now]
  /\ result' = [result EXCEPT ![r] = "running"]
  /\ UNCHANGED <<now, puts, endAt, evicted>>

\* Mutant: the execution is not registered.
RegisterSkipped(r, k) == inflight

\* idempotencyRegister.
Register(r, k) == [inflight EXCEPT ![k] = r]

\* Neither cached nor in flight: execute, in the same synchronous run.
ColdStart(r, k) ==
  /\ pc[r] = "idle" /\ ~Hits(k) /\ inflight[k] = None
  /\ cached' = AfterMiss(k)
  /\ inflight' = Register(r, k)
  /\ StartExec(r, k)

\* No key, or a streaming request, whose key is ignored.
KeylessStart(r) ==
  /\ pc[r] = "idle"
  /\ StartExec(r, None)
  /\ UNCHANGED <<cached, inflight>>

\* The requests an execution of r answers when it settles.
Joined(r) == {w \in Reqs : pc[w] = "wait" /\ source[w] = r}

\* idempotencyRegister's finally handler.
Release(r) ==
  [k \in Keys |-> IF inflight[k] = r THEN None ELSE inflight[k]]

\* executeTurn returns: release the key, cache the response, and let r and the
\* requests that joined it append to the transcript.
ExecResolve(r) ==
  /\ pc[r] = "exec"
  /\ inflight' = Release(r)
  /\ IF keyOf[r] # None
     THEN Put(keyOf[r], r)
     ELSE UNCHANGED <<cached, puts, evicted>>
  /\ pc' = [w \in Reqs |-> IF w = r \/ w \in Joined(r) THEN "append" ELSE pc[w]]
  /\ endAt' = [endAt EXCEPT ![r] = now]
  /\ result' = [result EXCEPT ![r] = "ok"]
  /\ UNCHANGED <<now, keyOf, source, arrivedAt>>

\* Mutant: a rejection reaches the owner only.
FailedByRejectionOwner(r) == {r}

\* The requests a rejection of r's execution fails.
FailedByRejection(r) == {r} \cup Joined(r)

\* executeTurn rejects: release the key, cache nothing.
ExecReject(r) ==
  /\ pc[r] = "exec"
  /\ inflight' = Release(r)
  /\ pc' = [w \in Reqs |-> IF w \in FailedByRejection(r) THEN "over" ELSE pc[w]]
  /\ endAt' = [endAt EXCEPT ![r] = now]
  /\ result' = [result EXCEPT ![r] = "err"]
  /\ UNCHANGED <<now, cached, puts, keyOf, source, arrivedAt, evicted>>

\* appendTranscript and flush return, or appendTranscript throws (SIZE_LIMIT
\* or I/O): the request is over, and the response stays cached either way.
Respond(r) ==
  /\ pc[r] = "append"
  /\ pc' = [pc EXCEPT ![r] = "over"]
  /\ UNCHANGED <<now, cacheVars, keyOf, source, histVars>>

Tick ==
  /\ now < MaxTime
  /\ now' = now + 1
  /\ UNCHANGED <<cacheVars, reqVars, histVars>>

Arrive(r) ==
  \/ KeylessStart(r)
  \/ \E k \in Keys : HitCached(r, k) \/ JoinInflight(r, k) \/ ColdStart(r, k)

Proceed(r) == ExecResolve(r) \/ ExecReject(r) \/ Respond(r)

Next == Tick \/ \E r \in Reqs : Arrive(r) \/ Proceed(r)

Spec == Init /\ [][Next]_vars

\* File appends and the flush settle, so a request that only waits for them
\* goes on.  Nothing obliges a client to send one, or a command to end: run()
\* waits for `close', which a descendant that holds the pipe can put off.
FairSpec == Spec /\ \A r \in Reqs : WF_vars(Respond(r))
-----------------------------------------------------------------------------
(* Properties. *)

\* Every variable has its type.
TypeOK ==
  /\ now \in Nat
  /\ puts \in Nat
  /\ cached \in [Keys -> Entry \cup {None}]
  /\ inflight \in [Keys -> Reqs \cup {None}]
  /\ pc \in [Reqs -> {"idle", "exec", "wait", "append", "over"}]
  /\ keyOf \in [Reqs -> Keys \cup {None}]
  /\ source \in [Reqs -> Reqs \cup {None}]
  /\ endAt \in [Reqs -> Nat]
  /\ arrivedAt \in [Reqs -> Nat]
  /\ result \in [Reqs -> {"none", "running", "ok", "err"}]
  /\ evicted \subseteq Reqs

SameKey(a, b) == keyOf[a] = keyOf[b] /\ keyOf[a] # None

\* Concurrent requests with one key collapse to one execution: two different
\* requests with the same key never execute at the same time.
SingleFlight ==
  \A a, b \in Reqs :
    pc[a] = "exec" /\ pc[b] = "exec" /\ SameKey(a, b) => a = b

\* A command whose executeTurn resolved (with a response that may report an
\* error of the command itself) is not run again under its key until the TTL
\* has gone by, unless the cap evicted its response; execution a of a key is
\* over before b starts, or the other way round.
AtMostOncePerTTL ==
  \A a, b \in Reqs :
    /\ a # b /\ SameKey(a, b)
    /\ result[a] = "ok" /\ result[b] # "none"
    /\ a \notin evicted
    => endAt[a] + TTL < arrivedAt[b] \/ (result[b] # "running" /\ endAt[b] <= arrivedAt[a])

\* A replayed answer, when respondHit takes it, is that of an execution under
\* the same key whose executeTurn resolved, at most one TTL before the request
\* asked.
HitIsFresh ==
  \A r \in Reqs :
    pc[r] = "append" /\ source[r] # r =>
      /\ SameKey(r, source[r])
      /\ result[source[r]] = "ok"
      /\ arrivedAt[r] <= endAt[source[r]] + TTL

\* The cache never holds more than its cap, and holds nothing under a key that
\* is executing (so that an insertion never overwrites an entry in place, and
\* the Map's key order is the order in which the responses were produced).
CacheBounded ==
  /\ Cardinality(Present) <= MaxEntries
  /\ \A k \in Keys : inflight[k] # None => cached[k] = None

\* Eviction at the cap takes the response with the least time left to live.
EvictsOldest ==
  [][\A k \in Keys :
       cached[k] # None /\ cached[k].by \in evicted' \ evicted
       => \A j \in Keys : cached[j] # None => cached[k].expires <= cached[j].expires]_vars

\* A request is held up only by the execution it stands on: once that one is
\* over, however it ended, the request that made it and every duplicate that
\* joined it or was given its answer come to their end.
EveryRequestSettles ==
  \A r \in Reqs : pc[r] # "idle" /\ pc[source[r]] # "exec" ~> pc[r] = "over"
=============================================================================
