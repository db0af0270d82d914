------------------------ MODULE McpTransportProofs ------------------------
(***************************************************************************)
(* TLAPS proofs about the two MCP transports, for every value of their     *)
(* constants.  First the request table and the limiter of McpStdio, then   *)
(* the session id, the notification stream and the tool list of McpHttp.   *)
(*                                                                         *)
(* The list may be old only while something is on its way to replace it:   *)
(* FollowInv says what, and follows each kind of news from the server to   *)
(* the debounce timer, the refresh and its answer.                         *)
(***************************************************************************)
EXTENDS McpStdio, McpHttp, TLAPS, SequenceTheorems, FiniteSetTheorems, WellFoundedInduction

(* The stdio transport. *)

Outcomes == {"none", "result", "notfound", "rpcerror", "timeout", "unreachable", "toolarge"}
Lines == [kind : {"result", "notfound", "rpcerror", "oversized"}, id : Ids \cup {0}]

PlaceType ==
  /\ phase \in {"start", "handshake", "discovery", "open", "failed"}
  /\ child \in {"up", "never", "zero", "nonzero", "signalled"}
  /\ ladder \in {"none", "eof", "term", "kill", "done"}

FlagType ==
  /\ childExited \in BOOLEAN /\ childExitError \in BOOLEAN /\ stdinOpen \in BOOLEAN

TableType ==
  /\ nextRequestId \in 1..(MaxId + 1)
  /\ pending \subseteq Ids /\ timers \subseteq Ids /\ asked \subseteq Ids
  /\ outcome \in [Ids -> Outcomes]

StdoutType == stdout \in Seq(Lines)

ClockType ==
  /\ now \in 0..MaxTime
  /\ timestamps \in Seq(0..MaxTime) /\ sends \in Seq(0..MaxTime)

\* connect sends initialize with the first id, on a limiter that has seen
\* nothing, and the list requests with the ids that follow it.
PhaseInv ==
  /\ phase = "start" => nextRequestId = 1 /\ timestamps = <<>> /\ ~childExited
  /\ phase = "handshake" => nextRequestId = 2

\* A crash is an exit.
ExitInv == childExitError => childExited

\* A request that was not sent has not settled.
Unsent == \A i \in Ids : i >= nextRequestId => outcome[i] = "none"

\* The limiter's memory is the end of the history of what it let through, and
\* what it has forgotten has left the window for good.
Forgotten == Len(sends) - Len(timestamps)
LimiterInv ==
  /\ Len(timestamps) <= Len(sends) /\ Len(timestamps) <= Rpm
  /\ \A k \in 1..Len(timestamps) : timestamps[k] = sends[Forgotten + k]
  /\ \A k \in 1..Forgotten : sends[k] < now - Window
  /\ \A k \in 1..Len(sends) : sends[k] <= now

IInv ==
  /\ PlaceType /\ FlagType /\ TableType /\ StdoutType /\ ClockType
  /\ PhaseInv /\ ExitInv /\ TableExact /\ Unsent
  /\ LimiterInv /\ WindowRespected
-----------------------------------------------------------------------------
(* The limiter. *)

\* A nonempty set of naturals has a least element.
LEMMA LeastElement ==
  ASSUME NEW T \in SUBSET Nat, T # {}
  PROVE  \E n \in T : \A m \in T : n <= m
<1> DEFINE R == OpToRel(<, Nat)
<1>1. IsWellFoundedOn(R, Nat)
  BY NatLessThanWellFounded
<1>2. \A m, n \in Nat : m < n => <<m, n>> \in R
  BY DEF OpToRel
<1> HIDE DEF R
<1>3. PICK n \in T : \A m \in T : ~(<<m, n>> \in R)
  BY <1>1, WFMin, Zenon
<1>4. ASSUME NEW m \in T PROVE n <= m
  <2>1. m \in Nat /\ n \in Nat
    OBVIOUS
  <2>2. ~(m < n)
    BY <2>1, <1>2, <1>3, Zenon
  <2> QED
    BY <2>1, <2>2, SMT
<1> QED
  BY <1>4, Zenon

\* Copies of one value behind a sequence.
LEMMA AppendCopies ==
  ASSUME NEW S, NEW s \in Seq(S), NEW x \in S, NEW n \in Nat
  PROVE  LET t == s \o [k \in 1..n |-> x] IN
         /\ t \in Seq(S) /\ Len(t) = Len(s) + n
         /\ \A k \in 1..(Len(s) + n) : t[k] = IF k <= Len(s) THEN s[k] ELSE x
<1> DEFINE c == [k \in 1..n |-> x]
<1>1. c \in Seq(S) /\ Len(c) = n /\ \A k \in 1..n : c[k] = x
  OBVIOUS
<1> HIDE DEF c
<1>2. /\ s \o c \in Seq(S) /\ Len(s \o c) = Len(s) + Len(c)
      /\ \A k \in 1..(Len(s) + Len(c)) :
           (s \o c)[k] = IF k <= Len(s) THEN s[k] ELSE c[k - Len(s)]
  BY <1>1, ConcatProperties
<1>3. \A k \in 1..(Len(s) + n) : k > Len(s) => c[k - Len(s)] = x
  BY <1>1
<1>4. \A k \in 1..(Len(s) + n) : (s \o c)[k] = IF k <= Len(s) THEN s[k] ELSE x
  BY <1>1, <1>2, <1>3
<1>5. /\ s \o c \in Seq(S) /\ Len(s \o c) = Len(s) + n
      /\ \A k \in 1..(Len(s) + n) : (s \o c)[k] = IF k <= Len(s) THEN s[k] ELSE x
  BY <1>1, <1>2, <1>4
<1> QED
  BY <1>5 DEF c

\* The loop of acquire() shifts off a number of timestamps, all of which are
\* outside the window, and keeps the rest in order.
LEMMA EvictKeepsEnd ==
  ASSUME ClockType, Window \in Nat, MaxTime \in Nat
  PROVE  \E n \in 0..Len(timestamps) :
           /\ Evict \in Seq(0..MaxTime) /\ Len(Evict) = Len(timestamps) - n
           /\ \A k \in 1..Len(Evict) : Evict[k] = timestamps[n + k]
           /\ \A k \in 1..n : timestamps[k] < now - Window
<1> DEFINE L == Len(timestamps)
           P(n) == StopsAt(n) /\ \A m \in 0..(n - 1) : ~StopsAt(m)
           n == CHOOSE n \in 0..L : P(n)
<1>1. L \in Nat
  BY DEF ClockType
<1>2. \E i \in 0..L : P(i)
  <2> DEFINE T == {i \in 0..L : StopsAt(i)}
  <2>1. T \subseteq Nat /\ L \in T
    BY <1>1 DEF StopsAt
  <2>2. PICK i \in T : \A m \in T : i <= m
    BY <2>1, LeastElement
  <2> QED
    BY <2>2, <1>1
<1>3. n \in 0..L /\ P(n)
  BY <1>2
<1>4. Evict = SubSeq(timestamps, n + 1, L)
  BY DEF Evict
<1> HIDE DEF n, P
<1>5. /\ Evict \in Seq(0..MaxTime) /\ Len(Evict) = L - n
      /\ \A k \in 1..Len(Evict) : Evict[k] = timestamps[n + k]
  BY <1>1, <1>3, <1>4 DEF ClockType
<1>6. \A k \in 1..n : timestamps[k] < now - Window
  <2> SUFFICES ASSUME NEW k \in 1..n PROVE timestamps[k] < now - Window
    OBVIOUS
  <2>1. ~StopsAt(k - 1)
    BY <1>3 DEF P
  <2>2. k \in 1..L /\ timestamps[k] \in 0..MaxTime
    BY <1>1, <1>3 DEF ClockType
  <2> QED
    BY <2>1, <2>2 DEF StopsAt, ClockType
<1> QED
  BY <1>3, <1>5, <1>6

\* n requests that fit pass the limiter.
LEMMA SendAllLimiter ==
  ASSUME StdioAssumption, ClockType, LimiterInv, WindowRespected,
         NEW n \in Nat, NEW Failed, Len(Evict) + n <= Rpm, SendAll(n, Failed), UNCHANGED now
  PROVE  ClockType' /\ LimiterInv' /\ WindowRespected'
<1> DEFINE new == [k \in 1..n |-> now]
           L == Len(sends)
<1>1. MaxTime \in Nat /\ Window \in Nat /\ Rpm \in Nat
  BY DEF StdioAssumption
<1>2. now \in 0..MaxTime /\ sends \in Seq(0..MaxTime)
  BY DEF ClockType
<1>3. PICK d \in 0..Len(timestamps) :
        /\ Evict \in Seq(0..MaxTime) /\ Len(Evict) = Len(timestamps) - d
        /\ \A k \in 1..Len(Evict) : Evict[k] = timestamps[d + k]
        /\ \A k \in 1..d : timestamps[k] < now - Window
  BY <1>1, EvictKeepsEnd
<1>4. timestamps' = Evict \o new /\ sends' = sends \o new
  BY DEF SendAll
<1> HIDE DEF new
<1>5. L \in Nat /\ Len(timestamps) \in Nat /\ Len(timestamps) <= L /\ Len(Evict) \in Nat
  BY <1>3 DEF ClockType, LimiterInv
<1>6. /\ sends' \in Seq(0..MaxTime) /\ Len(sends') = L + n
      /\ \A k \in 1..(L + n) : sends'[k] = IF k <= L THEN sends[k] ELSE now
  BY <1>2, <1>4, AppendCopies DEF new
<1>7. /\ timestamps' \in Seq(0..MaxTime) /\ Len(timestamps') = Len(Evict) + n
      /\ \A k \in 1..(Len(Evict) + n) :
           timestamps'[k] = IF k <= Len(Evict) THEN Evict[k] ELSE now
  <2>1. now \in 0..MaxTime /\ Evict \in Seq(0..MaxTime) /\ timestamps' = Evict \o [k \in 1..n |-> now]
    BY <1>2, <1>3, <1>4 DEF new
  <2> QED
    BY <2>1, AppendCopies
<1>8. Forgotten' = L - Len(Evict) /\ Forgotten = L - Len(timestamps)
  BY <1>5, <1>6, <1>7 DEF Forgotten
<1>9. \A k \in 1..(L - Len(Evict)) : sends[k] < now - Window
  <2> SUFFICES ASSUME NEW k \in 1..(L - Len(Evict)) PROVE sends[k] < now - Window
    OBVIOUS
  <2>1. CASE k <= Forgotten
    BY <2>1, <1>5, <1>8 DEF LimiterInv
  <2>2. CASE k > Forgotten
    <3>1. k - Forgotten \in 1..d /\ k - Forgotten \in 1..Len(timestamps)
      BY <2>2, <1>3, <1>5, <1>8
    <3>2. timestamps[k - Forgotten] = sends[k]
      <4>1. timestamps[k - Forgotten] = sends[Forgotten + (k - Forgotten)]
        BY <3>1 DEF LimiterInv
      <4>2. Forgotten + (k - Forgotten) = k
        BY <1>5, <1>8
      <4> QED
        BY <4>1, <4>2
    <3> QED
      BY <3>1, <3>2, <1>3
  <2> QED
    BY <2>1, <2>2, <1>5, <1>8
<1>10. ClockType'
  BY <1>6, <1>7 DEF ClockType
<1>11. \A k \in 1..Len(sends') : sends'[k] <= now'
  <2>1. \A k \in 1..L : sends[k] <= now
    BY DEF LimiterInv
  <2>2. now <= now /\ now' = now
    BY <1>2
  <2>3. ASSUME NEW k \in 1..(L + n) PROVE sends'[k] <= now
    <3>1. k <= L => k \in 1..L
      BY <1>5
    <3> QED
      BY <3>1, <2>1, <2>2, <1>6
  <2> QED
    BY <2>2, <2>3, <1>6
<1>12. \A k \in 1..Forgotten' : sends'[k] < now' - Window
  BY <1>5, <1>6, <1>8, <1>9
<1>13. \A k \in 1..Len(timestamps') : timestamps'[k] = sends'[Forgotten' + k]
  <2> SUFFICES ASSUME NEW k \in 1..(Len(Evict) + n)
               PROVE  timestamps'[k] = sends'[L - Len(Evict) + k]
    BY <1>7, <1>8
  <2>1. CASE k <= Len(Evict)
    <3>1. Evict[k] = timestamps[d + k] /\ d + k \in 1..Len(timestamps)
      BY <2>1, <1>3, <1>5
    <3>2. timestamps[d + k] = sends[Forgotten + (d + k)]
      BY <3>1 DEF LimiterInv
    <3>3. Forgotten + (d + k) = L - Len(Evict) + k /\ L - Len(Evict) + k \in 1..L
      BY <2>1, <1>3, <1>5, <1>8
    <3> QED
      <4>1. timestamps'[k] = Evict[k]
        BY <2>1, <1>5, <1>7
      <4>2. ASSUME NEW j \in 1..L PROVE sends'[j] = sends[j]
        <5>1. j \in 1..(L + n) /\ j <= L
          BY <1>5
        <5> QED
          BY <5>1, <1>6
      <4> QED
        BY <4>1, <4>2, <3>1, <3>2, <3>3
  <2>2. CASE k > Len(Evict)
    <3> DEFINE j == L - Len(Evict) + k
    <3>1. j \in 1..(L + n) /\ ~(j <= L) /\ ~(k <= Len(Evict))
      BY <2>2, <1>3, <1>5
    <3> HIDE DEF j
    <3>2. sends'[j] = now
      BY <3>1, <1>6
    <3> QED
      BY <3>1, <3>2, <1>7 DEF j
  <2> QED
    BY <2>1, <2>2, <1>5
<1>14. LimiterInv'
  BY <1>5, <1>6, <1>7, <1>11, <1>12, <1>13, <1>3 DEF LimiterInv
<1>15. WindowRespected'
  <2> SUFFICES ASSUME NEW k \in 1..(L + n), k + Rpm <= L + n
               PROVE  sends'[k + Rpm] - sends'[k] > Window
    BY <1>6 DEF WindowRespected
  <2>1. CASE k + Rpm <= L
    <3>1. k \in 1..L /\ k + Rpm \in 1..L /\ k + Rpm \in 1..(L + n)
      BY <2>1, <1>1, <1>5
    <3>2. sends'[k + Rpm] = sends[k + Rpm] /\ sends'[k] = sends[k]
      BY <3>1, <1>5, <1>6
    <3> QED
      BY <2>1, <3>1, <3>2 DEF WindowRespected
  <2>2. CASE k + Rpm > L
    <3>1. k \in 1..(L - Len(Evict)) /\ k <= L
      BY <1>1, <1>5
    <3>2. sends'[k + Rpm] = now /\ sends'[k] = sends[k]
      BY <3>1, <2>2, <1>1, <1>5, <1>6
    <3>3. sends[k] < now - Window /\ sends[k] \in Int /\ now \in Int
      BY <3>1, <1>5, <1>9 DEF ClockType
    <3> QED
      BY <3>2, <3>3, <1>1
  <2> QED
    BY <2>1, <2>2, <1>1, <1>5
<1> QED
  BY <1>10, <1>14, <1>15
-----------------------------------------------------------------------------
(* The table. *)

\* Requests that leave the table are settled.
LEMMA SettleTable ==
  ASSUME StdioAssumption, TableType, TableExact, Unsent,
         NEW S \in SUBSET pending, NEW how \in Outcomes \ {"none"},
         Settle(S, how), UNCHANGED <<nextRequestId, asked>>
  PROVE  /\ TableType' /\ Unsent'
         /\ pending' = {i \in 1..(nextRequestId' - 1) : outcome'[i] = "none"}
         /\ timers' = pending' /\ pending' = pending \ S
<1>1. TableType'
  BY DEF TableType, Settle
<1>2. MaxId \in Nat /\ nextRequestId \in 1..(MaxId + 1)
  BY DEF StdioAssumption, TableType
<1>3. \A i \in Ids : outcome'[i] = IF i \in S THEN how ELSE outcome[i]
  BY DEF Settle
<1>4. \A i \in 1..(nextRequestId - 1) : i \in Ids
  BY <1>2 DEF Ids
<1>5. pending' = {i \in 1..(nextRequestId' - 1) : outcome'[i] = "none"}
  BY <1>3, <1>4 DEF TableExact, Settle
<1>6. timers' = pending' /\ pending' = pending \ S
  BY DEF TableExact, Settle
<1>7. Unsent'
  <2> SUFFICES ASSUME NEW i \in Ids, i >= nextRequestId PROVE outcome'[i] = "none"
    BY DEF Unsent
  <2>1. i \notin 1..(nextRequestId - 1)
    BY <1>2 DEF Ids
  <2>2. i \notin S
    BY <2>1 DEF TableExact
  <2> QED
    BY <2>2, <1>3 DEF Unsent
<1> QED
  BY <1>1, <1>5, <1>6, <1>7

\* Requests enter the table as they are sent.
LEMMA SendAllTable ==
  ASSUME StdioAssumption, TableType, TableExact, Unsent, NEW n \in Nat,
         NEW Failed \in SUBSET (nextRequestId..(nextRequestId + n - 1)),
         SendAll(n, Failed)
  PROVE  /\ TableType' /\ Unsent' /\ timers' = pending'
         /\ pending' = {i \in 1..(nextRequestId' - 1) : outcome'[i] = "none"}
         /\ nextRequestId' = nextRequestId + n
<1> DEFINE new == nextRequestId..(nextRequestId + n - 1)
<1>1. MaxId \in Nat /\ nextRequestId \in 1..(MaxId + 1) /\ new \subseteq 1..MaxId
  BY DEF StdioAssumption, TableType, SendAll, Ids
<1>2. nextRequestId' = nextRequestId + n /\ nextRequestId' \in 1..(MaxId + 1)
  <2>1. nextRequestId' = nextRequestId + n
    BY DEF SendAll
  <2>2. CASE n = 0
    BY <2>1, <2>2, <1>1
  <2>3. CASE n # 0
    <3>1. nextRequestId + n - 1 \in new
      BY <2>3, <1>1
    <3>2. nextRequestId + n - 1 \in 1..MaxId
      BY <3>1, <1>1
    <3> QED
      BY <2>1, <3>2, <1>1
  <2> QED
    BY <2>2, <2>3
<1>3. \A i \in Ids : outcome'[i] = IF i \in Failed THEN "unreachable" ELSE outcome[i]
  BY DEF SendAll
<1>4. pending' = pending \cup (new \ Failed) /\ timers' = timers \cup (new \ Failed)
  BY DEF SendAll
<1>5. asked' \subseteq Ids
  BY <1>1 DEF SendAll, TableType, Ids
<1>6. TableType'
  <2>1. outcome' \in [Ids -> Outcomes]
    BY DEF SendAll, TableType, Outcomes
  <2> QED
    BY <2>1, <1>1, <1>2, <1>4, <1>5 DEF TableType, Ids
<1>7. \A i \in Ids : i >= nextRequestId => outcome[i] = "none"
  BY DEF Unsent
<1>8. 1..(nextRequestId' - 1) = (1..(nextRequestId - 1)) \cup new
  BY <1>1, <1>2
<1>9. \A i \in 1..(nextRequestId - 1) : i \in Ids /\ i \notin new
  BY <1>1 DEF Ids
<1>10. \A i \in new : i \in Ids /\ outcome[i] = "none"
  BY <1>1, <1>7 DEF Ids
<1> HIDE DEF new
<1>11. pending = {i \in 1..(nextRequestId - 1) : outcome[i] = "none"} /\ timers = pending
  BY DEF TableExact
<1>12. Failed \subseteq new
  BY DEF new
<1>13. pending' = {i \in 1..(nextRequestId' - 1) : outcome'[i] = "none"}
  <2>1. ASSUME NEW i \in pending' PROVE i \in 1..(nextRequestId' - 1) /\ outcome'[i] = "none"
    BY <1>3, <1>4, <1>8, <1>9, <1>10, <1>11, <1>12
  <2>2. ASSUME NEW i \in 1..(nextRequestId' - 1), outcome'[i] = "none" PROVE i \in pending'
    BY <2>2, <1>3, <1>4, <1>8, <1>9, <1>10, <1>11, <1>12
  <2> QED
    BY <2>1, <2>2
<1>14. Unsent'
  <2> SUFFICES ASSUME NEW i \in Ids, i >= nextRequestId' PROVE outcome'[i] = "none"
    BY DEF Unsent
  <2>1. i \notin Failed /\ i >= nextRequestId
    BY <1>1, <1>2, <1>12 DEF new, Ids
  <2> QED
    BY <2>1, <1>3, <1>7
<1> QED
  BY <1>2, <1>4, <1>6, <1>11, <1>13, <1>14

\* The table and the limiter stay as they are.
LEMMA LimiterFrame ==
  ASSUME ClockType, LimiterInv, WindowRespected, UNCHANGED <<timestamps, sends, now>>
  PROVE  ClockType' /\ LimiterInv' /\ WindowRespected'
<1>1. ClockType'
  BY DEF ClockType
<1>2. LimiterInv' /\ WindowRespected'
  BY DEF LimiterInv, WindowRespected, Forgotten
<1> QED
  BY <1>1, <1>2

LEMMA RpcFrame ==
  ASSUME IInv, UNCHANGED <<rpcVars, now>>
  PROVE  /\ TableType' /\ Unsent' /\ ClockType' /\ LimiterInv' /\ WindowRespected'
         /\ timers' = pending'
         /\ pending' = {i \in 1..(nextRequestId' - 1) : outcome'[i] = "none"}
<1> USE DEF rpcVars
<1>1. TableType' /\ Unsent'
  BY DEF TableType, Unsent, IInv
<1>2. ClockType' /\ LimiterInv' /\ WindowRespected'
  BY LimiterFrame DEF IInv
<1>3. timers' = pending' /\ pending' = {i \in 1..(nextRequestId' - 1) : outcome'[i] = "none"}
  BY DEF IInv, TableExact
<1> QED
  BY <1>1, <1>2, <1>3
-----------------------------------------------------------------------------
\* A client that has not connected: no request, no timer, an empty window.
THEOREM InitIInv == Init => IInv
<1> SUFFICES ASSUME Init PROVE IInv
  OBVIOUS
<1> USE StdioAssumption DEF Init
<1>1. PlaceType /\ FlagType
  BY DEF PlaceType, FlagType
<1>2. TableType /\ Unsent /\ TableExact
  BY StdioAssumption DEF StdioAssumption, TableType, Unsent, TableExact, Outcomes
<1>3. <<>> \in Seq(Lines) /\ <<>> \in Seq(0..MaxTime)
  OBVIOUS
<1>4. StdoutType /\ ClockType
  BY <1>3, StdioAssumption DEF StdoutType, ClockType, StdioAssumption
<1>5. PhaseInv /\ ExitInv
  BY DEF PhaseInv, ExitInv
<1>6. LimiterInv /\ WindowRespected
  BY DEF LimiterInv, WindowRespected, Forgotten, StdioAssumption
<1> QED
  BY <1>1, <1>2, <1>4, <1>5, <1>6 DEF IInv

\* Steps that send requests: those of connect and of the client in use.
LEMMA SendPreserves ==
  ASSUME IInv, NEW n \in Nat, Len(Evict) + n <= Rpm, ~childExited,
         NEW Failed \in SUBSET (nextRequestId..(nextRequestId + n - 1)), SendAll(n, Failed),
         phase' \in {"handshake", "discovery", "open", "failed"},
         phase' = "handshake" => nextRequestId + n = 2,
         UNCHANGED <<procVars, stdout, now>>
  PROVE  IInv'
<1>1. /\ TableType' /\ Unsent' /\ timers' = pending'
      /\ pending' = {i \in 1..(nextRequestId' - 1) : outcome'[i] = "none"}
      /\ nextRequestId' = nextRequestId + n
  BY SendAllTable, StdioAssumption DEF IInv
<1>2. ClockType' /\ LimiterInv' /\ WindowRespected'
  BY SendAllLimiter, StdioAssumption DEF IInv
<1>3. PlaceType' /\ FlagType' /\ StdoutType'
  BY DEF IInv, PlaceType, FlagType, StdoutType, procVars
<1>4. ~childExitError /\ ~childExitError' /\ ExitInv'
  BY DEF IInv, ExitInv, procVars
<1>5. PhaseInv'
  BY <1>1 DEF PhaseInv
<1>6. TableExact'
  BY <1>1, <1>4 DEF TableExact
<1> QED
  BY <1>1, <1>2, <1>3, <1>4, <1>5, <1>6 DEF IInv

\* Steps that only settle requests, while connect stays where it is.
LEMMA SettlePreserves ==
  ASSUME IInv, NEW S \in SUBSET pending, NEW how \in Outcomes \ {"none"}, Settle(S, how),
         UNCHANGED <<phase, nextRequestId, asked, timestamps, sends, now>>,
         PlaceType', FlagType', StdoutType', ExitInv', phase = "start" => ~childExited',
         childExitError' => pending' = {}
  PROVE  IInv'
<1>1. /\ TableType' /\ Unsent' /\ timers' = pending'
      /\ pending' = {i \in 1..(nextRequestId' - 1) : outcome'[i] = "none"}
  BY SettleTable, StdioAssumption DEF IInv
<1>2. ClockType' /\ LimiterInv' /\ WindowRespected'
  BY LimiterFrame DEF IInv
<1>3. PhaseInv'
  BY DEF IInv, PhaseInv
<1>4. TableExact'
  BY <1>1 DEF TableExact
<1> QED
  BY <1>1, <1>2, <1>3, <1>4 DEF IInv

\* Steps that leave the requests alone.
LEMMA RestPreserves ==
  ASSUME IInv, UNCHANGED <<rpcVars, now>>, UNCHANGED <<childExited, childExitError>>,
         PlaceType', FlagType', StdoutType',
         phase' = phase \/ phase' \notin {"start", "handshake"}
  PROVE  IInv'
<1>1. /\ TableType' /\ Unsent' /\ ClockType' /\ LimiterInv' /\ WindowRespected'
      /\ timers' = pending'
      /\ pending' = {i \in 1..(nextRequestId' - 1) : outcome'[i] = "none"}
  BY RpcFrame
<1>2. childExitError' => pending' = {}
  BY DEF IInv, TableExact, rpcVars
<1>3. TableExact'
  BY <1>1, <1>2 DEF TableExact
<1>4. PhaseInv' /\ ExitInv'
  BY DEF IInv, PhaseInv, ExitInv, rpcVars
<1> QED
  BY <1>1, <1>3, <1>4 DEF IInv
-----------------------------------------------------------------------------
\* No step of connect, of a caller, of a timer, of an event or of the child
\* breaks the invariant.
THEOREM NextIInv == IInv /\ [Next]_vars => IInv'
<1> SUFFICES ASSUME IInv, [Next]_vars PROVE IInv'
  OBVIOUS
<1> USE StdioAssumption
<1>1. /\ MaxId \in Nat /\ Rpm \in Nat /\ Rpm >= 1 /\ nextRequestId \in 1..(MaxId + 1)
      /\ Cardinality(Lists) \in Nat /\ Len(timestamps) \in Nat /\ Window \in Nat /\ MaxTime \in Nat
      /\ now \in 0..MaxTime
  BY FS_CardinalityType DEF StdioAssumption, IInv, TableType, ClockType
<1>2. Len(Evict) \in Nat /\ Len(Evict) <= Len(timestamps) /\ (timestamps = <<>> => Len(Evict) = 0)
  <2>1. PICK n \in 0..Len(timestamps) : Evict \in Seq(0..MaxTime) /\ Len(Evict) = Len(timestamps) - n
    BY <1>1, EvictKeepsEnd DEF IInv
  <2> QED
    BY <2>1, <1>1
<1>3. CASE SpawnFails
  BY <1>3, RestPreserves DEF SpawnFails, IInv, PlaceType, FlagType, StdoutType
<1>4. CASE Initialize
  <2>1. PICK Failed \in SUBSET {1} : SendAll(1, Failed)
    BY <1>4 DEF Initialize
  <2>2. nextRequestId = 1 /\ Len(Evict) = 0 /\ ~childExited
    BY <1>4, <1>2 DEF Initialize, IInv, PhaseInv
  <2>3. Failed \in SUBSET (nextRequestId..(nextRequestId + 1 - 1)) /\ Len(Evict) + 1 <= Rpm
    BY <2>2, <1>1
  <2> QED
    BY <1>4, <2>1, <2>2, <2>3, SendPreserves DEF Initialize
<1>5. CASE Discover
  <2>1. nextRequestId = 2 /\ UNCHANGED <<procVars, stdout, now>>
    BY <1>5 DEF Discover, IInv, PhaseInv
  <2>2. ASSUME Reachable, Room >= Cardinality(Lists), phase' = "discovery",
               NEW Failed \in SUBSET Discovery, SendAll(Cardinality(Lists), Failed)
        PROVE  IInv'
    <3>1. Failed \in SUBSET (nextRequestId..(nextRequestId + Cardinality(Lists) - 1))
      BY <2>1, <1>1 DEF Discovery
    <3>2. Len(Evict) + Cardinality(Lists) <= Rpm /\ ~childExited
      BY <2>2, <1>1, <1>2 DEF Room, Reachable
    <3> QED
      BY <1>1, <2>1, <2>2, <3>1, <3>2, SendPreserves
  <2>3. ASSUME Reachable, phase' = "failed", SendAll(IF Room > 0 THEN Room ELSE 0, {}),
               Room < Cardinality(Lists)
        PROVE  IInv'
    <3> DEFINE n == IF Room > 0 THEN Room ELSE 0
    <3>1. n \in Nat /\ Len(Evict) + n <= Rpm /\ ~childExited
      BY <2>3, <1>1, <1>2 DEF Room, Reachable, IInv, LimiterInv
    <3>2. {} \in SUBSET (nextRequestId..(nextRequestId + n - 1)) /\ SendAll(n, {})
      BY <2>3
    <3> QED
      BY <2>1, <2>3, <3>1, <3>2, SendPreserves
  <2>4. ASSUME phase' = "failed", UNCHANGED rpcVars PROVE IInv'
    BY <2>1, <2>4, RestPreserves DEF IInv, PlaceType, FlagType, StdoutType, procVars
  <2> QED
    BY <1>5, <2>2, <2>3, <2>4 DEF Discover
<1>6. CASE ConnectFails
  BY <1>6, RestPreserves DEF ConnectFails, IInv, PlaceType, FlagType, StdoutType, procVars
<1>7. CASE Connected
  BY <1>7, RestPreserves DEF Connected, IInv, PlaceType, FlagType, StdoutType, procVars
<1>8. CASE Call
  <2>1. PICK Failed \in {{}, {nextRequestId}} : SendAll(1, Failed)
    BY <1>8 DEF Call
  <2>2. Failed \in SUBSET (nextRequestId..(nextRequestId + 1 - 1)) /\ Len(Evict) + 1 <= Rpm
    BY <1>8, <2>1, <1>1, <1>2 DEF Call, Room
  <2> QED
    BY <1>8, <2>1, <2>2, SendPreserves DEF Call, Reachable
<1>9. CASE StdoutData
  <2>1. stdout # <<>> /\ stdout \in Seq(Lines) /\ stdout' = Tail(stdout)
    BY <1>9 DEF StdoutData, IInv, StdoutType
  <2>2. Head(stdout) \in Lines /\ Tail(stdout) \in Seq(Lines)
    BY <2>1
  <2>3. PlaceType' /\ FlagType' /\ StdoutType' /\ ExitInv' /\ (phase = "start" => ~childExited')
    BY <1>9, <2>1, <2>2
    DEF StdoutData, IInv, PlaceType, FlagType, StdoutType, ExitInv, PhaseInv, procVars
  <2>4. ASSUME NEW S \in SUBSET pending, NEW how \in Outcomes \ {"none"}, Settle(S, how)
        PROVE  IInv'
    <3>1. childExitError' => pending' = {}
      BY <1>9, <2>4 DEF StdoutData, Settle, IInv, TableExact, procVars
    <3> QED
      BY <1>9, <2>3, <2>4, <3>1, SettlePreserves DEF StdoutData
  <2>5. CASE Head(stdout).kind = "oversized"
    BY <1>9, <2>4, <2>5 DEF StdoutData, RejectAll, Outcomes
  <2>6. CASE Head(stdout).kind # "oversized"
    <3>1. Head(stdout).kind \in Outcomes \ {"none"}
      BY <2>2, <2>6 DEF Lines, Outcomes
    <3>2. Settle({Head(stdout).id} \cap pending, Head(stdout).kind)
      BY <1>9, <2>6 DEF StdoutData, HandleIncomingLine
    <3> QED
      BY <2>4, <3>1, <3>2
  <2> QED
    BY <2>5, <2>6
<1>10. CASE Close
  BY <1>10, RestPreserves DEF Close, IInv, PlaceType, FlagType, StdoutType
<1>11. CASE TermTimer
  BY <1>11, RestPreserves DEF TermTimer, IInv, PlaceType, FlagType, StdoutType
<1>12. CASE KillTimer
  BY <1>12, RestPreserves DEF KillTimer, IInv, PlaceType, FlagType, StdoutType
<1>13. ASSUME NEW i \in Ids, Timeout(i) PROVE IInv'
  <2>1. i \in pending /\ {i} \in SUBSET pending
    BY <1>13 DEF Timeout, IInv, TableExact
  <2>2. Settle({i}, "timeout")
    BY <1>13, <2>1 DEF Timeout, Settle, IInv, TableType
  <2>3. PlaceType' /\ FlagType' /\ StdoutType' /\ ExitInv' /\ (phase = "start" => ~childExited')
    BY <1>13 DEF Timeout, IInv, PlaceType, FlagType, StdoutType, ExitInv, PhaseInv, procVars
  <2>4. childExitError' => pending' = {}
    BY <1>13 DEF Timeout, IInv, TableExact, procVars
  <2> QED
    BY <1>13, <2>1, <2>2, <2>3, <2>4, SettlePreserves DEF Timeout, Outcomes
<1>14. CASE ChildAnswers
  <2>1. PICK i \in asked, how \in {"result", "notfound", "rpcerror"} :
          stdout' = Append(stdout, [kind |-> how, id |-> i])
    BY <1>14 DEF ChildAnswers
  <2>2. [kind |-> how, id |-> i] \in Lines
    BY DEF Lines, IInv, TableType
  <2>3. StdoutType'
    BY <2>1, <2>2 DEF IInv, StdoutType
  <2> QED
    BY <1>14, <2>3, RestPreserves DEF ChildAnswers, IInv, PlaceType, FlagType, procVars
<1>15. CASE ChildFloods
  <2>1. [kind |-> "oversized", id |-> 0] \in Lines
    BY DEF Lines
  <2>2. StdoutType'
    BY <1>15, <2>1 DEF ChildFloods, IInv, StdoutType
  <2> QED
    BY <1>15, <2>2, RestPreserves DEF ChildFloods, IInv, PlaceType, FlagType, procVars
<1>16. CASE ChildEnds
  BY <1>16, RestPreserves DEF ChildEnds, IInv, PlaceType, FlagType, StdoutType
<1>17. CASE ExitEvent
  <2>1. phase # "start" /\ childExited' = TRUE /\ childExitError' = (child = "nonzero")
    BY <1>17 DEF ExitEvent, ContinuationDue
  <2>2. PlaceType' /\ StdoutType'
    BY <1>17 DEF ExitEvent, IInv, PlaceType, StdoutType
  <2>3. FlagType'
    BY <1>17 DEF ExitEvent, IInv, FlagType
  <2>4. CASE child = "nonzero"
    <3>1. Settle(pending, "unreachable")
      BY <1>17, <2>4 DEF ExitEvent, RejectAll
    <3>2. pending' = {}
      BY <3>1 DEF Settle
    <3> QED
      BY <1>17, <2>1, <2>2, <2>3, <3>1, <3>2, SettlePreserves DEF ExitEvent, Outcomes, ExitInv
  <2>5. CASE child # "nonzero"
    <3>1. UNCHANGED <<rpcVars, now>> /\ ~childExitError'
      BY <1>17, <2>1, <2>5 DEF ExitEvent, rpcVars
    <3>2. /\ TableType' /\ Unsent' /\ ClockType' /\ LimiterInv' /\ WindowRespected'
          /\ timers' = pending'
          /\ pending' = {i \in 1..(nextRequestId' - 1) : outcome'[i] = "none"}
      BY <3>1, RpcFrame
    <3>3. PhaseInv' /\ ExitInv'
      BY <1>17, <2>1, <3>1 DEF ExitEvent, IInv, PhaseInv, ExitInv
    <3>4. TableExact'
      BY <3>1, <3>2 DEF TableExact
    <3> QED
      BY <2>2, <2>3, <3>2, <3>3, <3>4 DEF IInv
  <2> QED
    BY <2>4, <2>5
<1>18. CASE ErrorEvent
  <2>1. Settle(pending, "unreachable")
    BY <1>18 DEF ErrorEvent, RejectAll
  <2>2. pending' = {}
    BY <2>1 DEF Settle
  <2>3. PlaceType' /\ FlagType' /\ StdoutType' /\ ExitInv' /\ phase # "start"
    BY <1>18 DEF ErrorEvent, IInv, PlaceType, FlagType, StdoutType, ExitInv
  <2> QED
    BY <1>18, <2>1, <2>2, <2>3, SettlePreserves DEF ErrorEvent, Outcomes
<1>19. CASE Tick
  <2>1. UNCHANGED <<phase, rpcVars, procVars, stdout>> /\ now' = now + 1 /\ now < MaxTime
    BY <1>19 DEF Tick
  <2>2. /\ PlaceType' /\ FlagType' /\ StdoutType' /\ PhaseInv' /\ ExitInv'
    BY <2>1 DEF IInv, PlaceType, FlagType, StdoutType, PhaseInv, ExitInv, rpcVars, procVars
  <2>3. TableType' /\ Unsent' /\ TableExact'
    BY <2>1 DEF IInv, TableType, Unsent, TableExact, rpcVars, procVars
  <2>4. ClockType' /\ WindowRespected'
    BY <2>1, <1>1 DEF IInv, ClockType, WindowRespected, rpcVars
  <2>5. LimiterInv'
    <3>1. sends' = sends /\ timestamps' = timestamps /\ Forgotten' = Forgotten
      BY <2>1 DEF rpcVars, Forgotten
    <3>2. \A k \in 1..Len(sends) : sends[k] \in Int /\ sends[k] <= now
      BY DEF IInv, ClockType, LimiterInv
    <3>3. \A k \in 1..Forgotten : k \in 1..Len(sends) /\ sends[k] < now - Window
      BY DEF IInv, ClockType, LimiterInv, Forgotten
    <3>4. \A k \in 1..Forgotten : sends[k] < now' - Window
      BY <2>1, <3>2, <3>3, <1>1
    <3>5. \A k \in 1..Len(sends) : sends[k] <= now'
      BY <2>1, <3>2, <1>1
    <3> QED
      BY <3>1, <3>4, <3>5 DEF IInv, LimiterInv
  <2> QED
    BY <2>2, <2>3, <2>4, <2>5 DEF IInv
<1>20. CASE UNCHANGED vars
  BY <1>20, RestPreserves DEF vars, rpcVars, procVars, IInv, PlaceType, FlagType, StdoutType
<1> QED
  BY <1>3, <1>4, <1>5, <1>6, <1>7, <1>8, <1>9, <1>10, <1>11, <1>12, <1>13, <1>14, <1>15,
     <1>16, <1>17, <1>18, <1>19, <1>20 DEF Next

\* IInv holds in every reachable state of the stdio client.
THEOREM Invariance == Spec => []IInv
BY InitIInv, NextIInv, PTL DEF Spec

\* Every variable keeps its type.
THEOREM TypeCorrect == Spec => []TypeOK
<1>1. IInv => TypeOK
  BY DEF IInv, TypeOK, PlaceType, FlagType, TableType, StdoutType, ClockType, Lines, Outcomes
<1> QED
  BY <1>1, Invariance, PTL

\* Whatever order answers, duplicates, oversized lines, time-outs and the
\* child's death come in, table, timers and unsettled promises agree, and a
\* crash leaves none of them.
THEOREM TableStaysExact == Spec => []TableExact
<1>1. IInv => TableExact
  BY DEF IInv
<1> QED
  BY <1>1, Invariance, PTL

\* The sliding window of acquire() admits at most rate_limit_rpm requests in
\* any window, for every quota, window length and number of requests.
THEOREM QuotaHolds == Spec => []WindowRespected
<1>1. IInv => WindowRespected
  BY DEF IInv
<1> QED
  BY <1>1, Invariance, PTL
-----------------------------------------------------------------------------
(* The HTTP transport. *)

Replies == [kind : {"none", "ok", "bad", "mention", "rejected"}, id : 0..MaxSid, ver : 0..MaxVer]
Calls   == [st : {"idle", "sent", "reply", "body"}, hdr : 0..MaxSid, retry : BOOLEAN, rep : Replies]

HttpPlaceType ==
  /\ boot \in {"initialize", "tools", "resources", "prompts", "open", "failed"}
  /\ stream \in {"none", "connecting", "open", "backoff", "ended"}
  /\ streamStatus \in {"connecting", "connected", "unsupported", "disabled", "unavailable"}

HttpFlagType ==
  /\ closed \in BOOLEAN /\ overlapped \in BOOLEAN /\ note \in BOOLEAN
  /\ debounce \in BOOLEAN /\ excuse \in BOOLEAN /\ everConnected \in BOOLEAN

SessionType ==
  /\ cachedSessionId \in 0..MaxSid /\ issued \in 0..MaxSid /\ valid \subseteq 1..issued

ListType == srvTools \in 0..MaxVer /\ tools \in 0..MaxVer

CallType == call \in [Slots -> Calls]

\* There is no stream and no close() before connect is done.
BootInv ==
  /\ stream # "none" => boot = "open"
  /\ closed => boot = "open"

\* As long as calls do not overlap there is one at a time; its header is the
\* cached session id, and when the server refused that one it does not hold it.
SoleCallInv ==
  ~overlapped =>
    /\ \A s, t \in Slots : call[s] # Idle /\ call[t] # Idle => s = t
    /\ \A s \in Slots :
         /\ call[s].st = "sent" => call[s].hdr = cachedSessionId
         /\ call[s].rep.kind = "rejected" => cachedSessionId \notin valid

\* The refresh of slot r, unless it fails, will bring the server's present
\* list.
Bringing(r) ==
  /\ call[r] # Idle
  /\ call[r].rep.kind = "ok" => call[r].rep.ver = srvTools

\* No answer is newer than the server's list; a list that is not the server's
\* will be replaced by it, or a notification or a refresh was lost; and so
\* will the one that connect is about to take.
FollowInv ==
  /\ \A r \in Refreshers : call[r].rep.kind = "ok" => call[r].rep.ver <= srvTools
  /\ boot \in {"resources", "prompts", "open"} /\ tools # srvTools =>
       note \/ debounce \/ excuse \/ closed \/ \E r \in Refreshers : Bringing(r)
  /\ boot = "tools" /\ call[Main].rep.kind = "ok" /\ call[Main].rep.ver # srvTools =>
       note \/ debounce \/ excuse

HttpInv ==
  /\ HttpPlaceType /\ HttpFlagType /\ SessionType /\ ListType /\ CallType /\ attempt \in 0..Backoffs
  /\ BootInv /\ SoleCallInv /\ FollowInv /\ GivenUpReported
-----------------------------------------------------------------------------
\* The constants, one by one.
LEMMA HttpConstants ==
  /\ MaxSid \in Nat /\ MaxVer \in Nat /\ Backoffs \in Nat
  /\ Main \in Slots /\ Main \notin Refreshers /\ Refreshers \subseteq Slots
BY HttpAssumption DEF Slots

\* An idle slot and a request just sent are calls.
LEMMA CallRecords ==
  /\ Idle \in Calls /\ Idle.st = "idle" /\ Idle.rep.kind = "none"
  /\ \A h \in 0..MaxSid, r \in BOOLEAN :
       /\ Sent(h, r) \in Calls /\ Sent(h, r) # Idle
       /\ Sent(h, r).st = "sent" /\ Sent(h, r).hdr = h /\ Sent(h, r).rep.kind = "none"
<1>1. 0 \in 0..MaxSid /\ 0 \in 0..MaxVer
  BY HttpConstants
<1>2. NoReply \in Replies /\ NoReply.kind = "none"
  BY <1>1 DEF NoReply, Replies
<1>3. Idle \in Calls /\ Idle.st = "idle" /\ Idle.rep = NoReply
  BY <1>1, <1>2 DEF Idle, Calls
<1>4. ASSUME NEW h \in 0..MaxSid, NEW r \in BOOLEAN
      PROVE  /\ Sent(h, r) \in Calls /\ Sent(h, r).st = "sent" /\ Sent(h, r).hdr = h
             /\ Sent(h, r).rep = NoReply
  BY <1>2 DEF Sent, Calls
<1>5. "sent" # "idle"
  OBVIOUS
<1> QED
  BY <1>2, <1>3, <1>4, <1>5

\* The answer to a call.
LEMMA AnswerRecord ==
  ASSUME NEW k \in Calls, NEW x \in Replies
  PROVE  [[[k EXCEPT !.st = "reply"] EXCEPT !.hdr = 0] EXCEPT !.rep = x]
           = [st |-> "reply", hdr |-> 0, retry |-> k.retry, rep |-> x]
<1> DEFINE a == [k EXCEPT !.st = "reply"]
           b == [a EXCEPT !.hdr = 0]
           d == [b EXCEPT !.rep = x]
           e == [st |-> "reply", hdr |-> 0, retry |-> k.retry, rep |-> x]
<1>1. a \in Calls /\ a.st = "reply" /\ a.retry = k.retry
  BY DEF Calls
<1>2. 0 \in 0..MaxSid
  BY HttpConstants
<1>3. b \in Calls /\ b.st = a.st /\ b.retry = a.retry /\ b.hdr = 0
  <2> HIDE DEF a
  <2> QED
    BY <1>1, <1>2 DEF Calls
<1>4. d \in Calls /\ d.st = b.st /\ d.retry = b.retry /\ d.hdr = b.hdr /\ d.rep = x
  <2> HIDE DEF b
  <2> QED
    BY <1>3 DEF Calls
<1>5. e \in Calls /\ e.st = "reply" /\ e.hdr = 0 /\ e.retry = k.retry /\ e.rep = x
  BY <1>2 DEF Calls
<1>6. \A u, v \in Calls :
        u.st = v.st /\ u.hdr = v.hdr /\ u.retry = v.retry /\ u.rep = v.rep => u = v
  BY DEF Calls
<1> HIDE DEF a, b, d, e
<1>7. d = e
  BY <1>1, <1>3, <1>4, <1>5, <1>6
<1> QED
  BY <1>7 DEF a, b, d, e

\* What one slot does leaves the others alone.
LEMMA CallMoves ==
  ASSUME CallType, NEW s \in Slots, NEW c \in Calls, call' = [call EXCEPT ![s] = c]
  PROVE  CallType' /\ call'[s] = c /\ \A t \in Slots \ {s} : call'[t] = call[t]
BY DEF CallType

\* A step on the stream or on the server's side that touches neither the calls
\* nor the lists.
LEMMA StreamSteps ==
  ASSUME HttpInv, UNCHANGED <<boot, closed, call, idVars, catVars>>,
         HttpPlaceType', everConnected' \in BOOLEAN, attempt' \in 0..Backoffs,
         stream # "none", GivenUpReported'
  PROVE  HttpInv'
<1>1. HttpFlagType' /\ SessionType' /\ ListType' /\ CallType'
  BY DEF HttpInv, HttpFlagType, SessionType, ListType, CallType, idVars, catVars
<1>2. BootInv'
  BY DEF HttpInv, BootInv
<1>3. SoleCallInv'
  BY DEF HttpInv, SoleCallInv, idVars
<1>4. FollowInv'
  BY DEF HttpInv, FollowInv, Bringing, catVars
<1> QED
  BY <1>1, <1>2, <1>3, <1>4 DEF HttpInv

\* Where connect and the stream are when a request has returned.
LEMMA ReturnPlaces ==
  ASSUME HttpInv, NEW s \in Slots, NEW ok \in BOOLEAN, NEW ver \in 0..MaxVer,
         Return(s, ok, ver), closed' = closed
  PROVE  /\ HttpPlaceType' /\ BootInv' /\ GivenUpReported' /\ attempt' \in 0..Backoffs
         /\ everConnected' = everConnected /\ excuse' \in BOOLEAN
         /\ srvTools' = srvTools /\ note' = note /\ debounce' = debounce /\ ListType'
<1>1. /\ boot' \in {"initialize", "tools", "resources", "prompts", "open", "failed"}
      /\ boot = "open" => boot' = "open"
  BY DEF Return, AfterBoot, HttpInv, HttpPlaceType
<1>2. \/ UNCHANGED streamVars
      \/ boot # "open" /\ boot' = "open" /\ OpenStream
  BY DEF Return
<1>3. /\ HttpPlaceType' /\ attempt' = attempt /\ everConnected' = everConnected
      /\ \/ stream' = stream /\ streamStatus' = streamStatus
         \/ boot # "open" /\ boot' = "open" /\ stream' = "connecting"
         \/ boot # "open" /\ boot' = "open" /\ stream' = stream
  BY <1>1, <1>2 DEF OpenStream, streamVars, HttpInv, HttpPlaceType
<1>4. BootInv'
  BY <1>1, <1>3 DEF HttpInv, BootInv
<1>5. GivenUpReported'
  BY <1>3 DEF HttpInv, BootInv, GivenUpReported
<1>6. ListType' /\ srvTools' = srvTools /\ note' = note /\ debounce' = debounce
  BY DEF Return, TakeList, HttpInv, ListType
<1>7. excuse' \in BOOLEAN
  BY DEF Return, TakeList
<1> QED
  BY <1>3, <1>4, <1>5, <1>6, <1>7 DEF HttpInv

\* The list that a request leaves behind, whoever sent it and whatever came of
\* it: an older one than before, or a failure, is on record.
LEMMA ReturnFollows ==
  ASSUME HttpInv, NEW s \in Slots, NEW ok \in BOOLEAN, NEW ver \in 0..MaxVer,
         Return(s, ok, ver), closed' = closed, call' = [call EXCEPT ![s] = Idle],
         ok => call[s].rep.kind = "ok" /\ ver = call[s].rep.ver
  PROVE  FollowInv'
<1>1. /\ CallType' /\ call'[s] = Idle /\ \A t \in Slots \ {s} : call'[t] = call[t]
  BY CallMoves, CallRecords DEF HttpInv
<1>2. /\ srvTools' = srvTools /\ note' = note /\ debounce' = debounce
      /\ tools' = IF ok /\ (s \in Refreshers \/ boot = "tools") THEN ver ELSE tools
      /\ excuse' = (excuse \/ (s \in Refreshers /\ (~ok \/ ver < tools)))
  BY DEF Return, TakeList
<1>3. \A r \in Refreshers : call'[r].rep.kind = "ok" => call'[r].rep.ver <= srvTools'
  BY <1>1, <1>2, CallRecords, HttpConstants DEF HttpInv, FollowInv
<1>4. \A r \in Refreshers \ {s} : Bringing(r) => Bringing(r)'
  BY <1>1, <1>2, HttpConstants DEF Bringing
<1>5. CASE s \in Refreshers
  <2>1. s # Main /\ boot' = boot
    BY <1>5, HttpConstants DEF Return
  <2>2. CASE ~ok \/ ver < tools
    BY <1>2, <1>3, <1>5, <2>2 DEF FollowInv
  <2>3. CASE ok /\ ~(ver < tools)
    <3>0. excuse => excuse'
      BY <1>2
    <3>1. tools' = ver /\ ver = call[s].rep.ver /\ ver <= srvTools
      BY <1>2, <1>5, <2>3 DEF HttpInv, FollowInv
    <3>2. ver # srvTools => tools # srvTools /\ ~Bringing(s)
      BY <3>1, <2>3, HttpConstants DEF HttpInv, ListType, Bringing
    <3>3. boot' \in {"resources", "prompts", "open"} /\ tools' # srvTools' =>
            note' \/ debounce' \/ excuse' \/ closed' \/ \E r \in Refreshers : Bringing(r)'
      BY <1>2, <1>4, <2>1, <3>0, <3>1, <3>2 DEF HttpInv, FollowInv
    <3>4. boot' = "tools" /\ call'[Main].rep.kind = "ok" /\ call'[Main].rep.ver # srvTools' =>
            note' \/ debounce' \/ excuse'
      BY <1>1, <1>2, <2>1, <3>0, HttpConstants DEF HttpInv, FollowInv
    <3> QED
      BY <1>3, <3>3, <3>4 DEF FollowInv
  <2> QED
    BY <2>2, <2>3
<1>6. CASE s = Main
  <2>1. /\ excuse' = excuse /\ boot' \in AfterBoot(ok)
        /\ \A r \in Refreshers : Bringing(r) => Bringing(r)'
    BY <1>2, <1>4, <1>6, HttpConstants DEF Return, HttpInv, HttpFlagType
  <2>2. boot' \in {"resources", "prompts", "open"} =>
          \/ boot = "tools" /\ ok
          \/ boot \in {"resources", "prompts", "open"}
    BY <2>1 DEF AfterBoot, HttpInv, HttpPlaceType
  <2>3. ASSUME boot' \in {"resources", "prompts", "open"}, tools' # srvTools'
        PROVE  note' \/ debounce' \/ excuse' \/ closed' \/ \E r \in Refreshers : Bringing(r)'
    <3>1. CASE boot = "tools" /\ ok
      BY <1>2, <1>6, <2>1, <2>3, <3>1 DEF HttpInv, FollowInv
    <3>2. CASE boot \in {"resources", "prompts", "open"}
      <4>1. tools' = tools
        BY <1>2, <1>6, <3>2, HttpConstants
      <4> QED
        BY <1>2, <2>1, <2>3, <3>2, <4>1 DEF HttpInv, FollowInv
    <3> QED
      BY <2>2, <2>3, <3>1, <3>2
  <2>4. call'[Main].rep.kind # "ok"
    BY <1>1, <1>6, CallRecords
  <2> QED
    BY <1>3, <2>3, <2>4 DEF FollowInv
<1> QED
  BY <1>5, <1>6 DEF Slots

\* A slot that falls idle.
LEMMA SoleCallEnds ==
  ASSUME HttpInv, NEW s \in Slots, call' = [call EXCEPT ![s] = Idle],
         call[s] # Idle, overlapped' = overlapped, valid' = valid
  PROVE  SoleCallInv'
<1>1. /\ call'[s] = Idle /\ \A t \in Slots \ {s} : call'[t] = call[t]
  BY CallMoves, CallRecords DEF HttpInv
<1>2. ASSUME ~overlapped, NEW t \in Slots PROVE call'[t] = Idle
  <2>1. t # s => call[t] = Idle
    BY <1>2 DEF HttpInv, SoleCallInv
  <2> QED
    BY <1>1, <2>1
<1> QED
  BY <1>2, CallRecords DEF SoleCallInv
-----------------------------------------------------------------------------
\* connect has asked nothing and the server has changed nothing.
LEMMA HttpInitInv == HttpInit => HttpInv
<1> SUFFICES ASSUME HttpInit PROVE HttpInv
  OBVIOUS
<1>1. HttpPlaceType /\ BootInv /\ GivenUpReported
  BY DEF HttpInit, HttpPlaceType, BootInv, GivenUpReported
<1>2. SessionType /\ ListType /\ attempt \in 0..Backoffs
  BY HttpConstants DEF HttpInit, SessionType, ListType
<1>3. HttpFlagType
  BY DEF HttpInit, HttpFlagType
<1>4. CallType /\ \A s \in Slots : call[s] = Idle
  BY CallRecords DEF HttpInit, CallType
<1>5. SoleCallInv
  BY <1>4, CallRecords DEF SoleCallInv
<1>6. FollowInv
  BY <1>4, CallRecords, HttpConstants DEF HttpInit, FollowInv
<1> QED
  BY <1>1, <1>2, <1>3, <1>4, <1>5, <1>6 DEF HttpInv

\* A request is sent with the cached id: it is the only one under way, or the
\* overlap is on record.
LEMMA BeginKeeps ==
  ASSUME HttpInv, NEW s \in Slots, Begin(s), UNCHANGED <<cachedSessionId, valid>>
  PROVE  /\ CallType' /\ SoleCallInv' /\ overlapped' \in BOOLEAN
         /\ call'[s] # Idle /\ call'[s].rep.kind = "none"
         /\ \A t \in Slots \ {s} : call'[t] = call[t]
<1> DEFINE c == Sent(cachedSessionId, FALSE)
<1>1. /\ c \in Calls /\ c # Idle /\ c.st = "sent" /\ c.hdr = cachedSessionId
      /\ c.rep.kind = "none"
  BY CallRecords DEF HttpInv, SessionType
<1>2. call[s] = Idle /\ call' = [call EXCEPT ![s] = c]
  BY DEF Begin
<1>3. overlapped' = (overlapped \/ UnderWay # {})
  BY DEF Begin
<1> HIDE DEF c
<1>4. CallType' /\ call'[s] = c /\ \A t \in Slots \ {s} : call'[t] = call[t]
  BY <1>1, <1>2, CallMoves DEF HttpInv
<1>5. ASSUME ~overlapped', NEW t \in Slots, t # s PROVE call'[t] = Idle
  BY <1>3, <1>4, <1>5 DEF UnderWay
<1>6. SoleCallInv'
  <2> SUFFICES ASSUME ~overlapped'
               PROVE  /\ \A t, u \in Slots : call'[t] # Idle /\ call'[u] # Idle => t = u
                      /\ \A t \in Slots :
                           /\ call'[t].st = "sent" => call'[t].hdr = cachedSessionId'
                           /\ call'[t].rep.kind = "rejected" => cachedSessionId' \notin valid'
    BY DEF SoleCallInv
  <2> QED
    BY <1>1, <1>4, <1>5, CallRecords
<1>7. overlapped' \in BOOLEAN
  BY <1>3
<1> QED
  BY <1>1, <1>4, <1>6, <1>7

LEMMA RequestStep == ASSUME HttpInv, Request PROVE HttpInv'
<1>1. /\ Begin(Main) /\ UNCHANGED <<boot, closed, cachedSessionId, issued, valid>>
      /\ UNCHANGED catVars /\ UNCHANGED streamVars /\ Main \in Slots
  BY HttpConstants DEF Request
<1>2. /\ CallType' /\ SoleCallInv' /\ overlapped' \in BOOLEAN
      /\ call'[Main].rep.kind = "none"
      /\ \A t \in Slots \ {Main} : call'[t] = call[t]
  BY <1>1, BeginKeeps
<1>3. HttpPlaceType' /\ SessionType' /\ ListType' /\ attempt' \in 0..Backoffs /\ BootInv'
  BY <1>1 DEF HttpInv, HttpPlaceType, SessionType, ListType, BootInv, catVars, streamVars
<1>4. HttpFlagType' /\ GivenUpReported'
  BY <1>1, <1>2 DEF HttpInv, HttpFlagType, GivenUpReported, catVars, streamVars
<1>5. FollowInv'
  BY <1>1, <1>2, HttpConstants DEF HttpInv, FollowInv, Bringing, catVars
<1> QED
  BY <1>2, <1>3, <1>4, <1>5 DEF HttpInv

LEMMA FailsStep == ASSUME HttpInv, NEW s \in Slots, Fails(s) PROVE HttpInv'
<1>0. call[s].st # "idle" /\ call' = [call EXCEPT ![s] = Idle] /\ 0 \in 0..MaxVer
  BY HttpConstants DEF Fails
<1>1. Return(s, FALSE, 0) /\ closed' = closed /\ UNCHANGED idVars
  BY Zenon DEF Fails
<1>2. /\ HttpPlaceType' /\ BootInv' /\ GivenUpReported' /\ attempt' \in 0..Backoffs
      /\ everConnected' = everConnected /\ excuse' \in BOOLEAN
      /\ note' = note /\ debounce' = debounce /\ ListType'
  BY <1>0, <1>1, ReturnPlaces
<1>3. FollowInv'
  BY <1>0, <1>1, ReturnFollows
<1>4. CallType' /\ SoleCallInv'
  BY <1>0, <1>1, CallMoves, SoleCallEnds, CallRecords DEF HttpInv, idVars
<1>5. HttpFlagType' /\ SessionType'
  BY <1>1, <1>2 DEF HttpInv, HttpFlagType, SessionType, idVars
<1> QED
  BY <1>2, <1>3, <1>4, <1>5 DEF HttpInv

LEMMA ReceiveStep == ASSUME HttpInv, NEW s \in Slots, Receive(s) PROVE HttpInv'
<1>1. /\ call[s].st = "reply" /\ UNCHANGED <<closed, overlapped, issued, valid>>
      /\ call[s] \in Calls
  BY DEF Receive, HttpInv, CallType
<1>2. CASE /\ call[s].rep.kind = "ok"
           /\ cachedSessionId' = IF call[s].rep.id # 0 THEN call[s].rep.id ELSE cachedSessionId
           /\ call' = [call EXCEPT ![s] = Idle]
           /\ Return(s, TRUE, call[s].rep.ver)
  <2>1. call[s].rep.ver \in 0..MaxVer /\ call[s].rep.id \in 0..MaxSid /\ call[s] # Idle
    BY <1>1, CallRecords DEF Calls, Replies
  <2>2. /\ HttpPlaceType' /\ BootInv' /\ GivenUpReported' /\ attempt' \in 0..Backoffs
        /\ everConnected' = everConnected /\ excuse' \in BOOLEAN
        /\ note' = note /\ debounce' = debounce /\ ListType'
    BY <1>1, <1>2, <2>1, ReturnPlaces
  <2>3. FollowInv'
    BY <1>1, <1>2, <2>1, ReturnFollows
  <2>4. CallType' /\ SoleCallInv'
    BY <1>1, <1>2, <2>1, CallMoves, SoleCallEnds, CallRecords DEF HttpInv
  <2>5. SessionType'
    BY <1>1, <1>2, <2>1 DEF HttpInv, SessionType
  <2>6. HttpFlagType'
    BY <1>1, <2>2 DEF HttpInv, HttpFlagType
  <2> QED
    BY <2>2, <2>3, <2>4, <2>5, <2>6 DEF HttpInv
<1>3. CASE /\ call[s].rep.kind \in {"bad", "mention", "rejected"}
           /\ call' = [call EXCEPT ![s].st = "body"]
           /\ UNCHANGED <<boot, cachedSessionId, catVars, streamVars>>
  <2> DEFINE c == [call[s] EXCEPT !.st = "body"]
  <2>1. /\ c \in Calls /\ c.st = "body" /\ c.rep = call[s].rep /\ call' = [call EXCEPT ![s] = c]
    BY <1>1, <1>3 DEF Calls, HttpInv, CallType
  <2> HIDE DEF c
  <2>2. CallType' /\ call'[s] = c /\ \A t \in Slots \ {s} : call'[t] = call[t]
    BY <2>1, CallMoves DEF HttpInv
  <2>3. c # Idle /\ call[s] # Idle
    BY <1>1, <2>1, CallRecords
  <2>4. SoleCallInv'
    BY <1>1, <1>3, <2>1, <2>2, <2>3 DEF HttpInv, SoleCallInv
  <2>5. HttpPlaceType' /\ SessionType' /\ ListType' /\ attempt' \in 0..Backoffs /\ BootInv'
    BY <1>1, <1>3 DEF HttpInv, HttpPlaceType, SessionType, ListType, BootInv, catVars, streamVars
  <2>6. HttpFlagType' /\ GivenUpReported'
    BY <1>1, <1>3 DEF HttpInv, HttpFlagType, GivenUpReported, catVars, streamVars
  <2>7. FollowInv'
    BY <1>1, <1>3, <2>1, <2>2, <2>3, HttpConstants DEF HttpInv, FollowInv, Bringing, catVars
  <2> QED
    BY <2>2, <2>4, <2>5, <2>6, <2>7 DEF HttpInv
<1> QED
  BY <1>2, <1>3 DEF Receive

LEMMA ReadBodyStep == ASSUME HttpInv, NEW s \in Slots, ReadBody(s) PROVE HttpInv'
<1>1. /\ call[s].st = "body" /\ UNCHANGED <<closed, overlapped, issued, valid>>
      /\ call[s] # Idle /\ 0 \in 0..MaxVer /\ 0 \in 0..MaxSid
  BY CallRecords, HttpConstants DEF ReadBody
<1>2. CASE /\ cachedSessionId' = 0
           /\ call' = [call EXCEPT ![s] = Sent(0, TRUE)]
           /\ UNCHANGED <<boot, catVars, streamVars>>
  <2> DEFINE c == Sent(0, TRUE)
  <2>1. c \in Calls /\ c # Idle /\ c.st = "sent" /\ c.hdr = 0 /\ c.rep.kind = "none"
    BY <1>1, CallRecords
  <2> HIDE DEF c
  <2>2. CallType' /\ call'[s] = c /\ \A t \in Slots \ {s} : call'[t] = call[t]
    BY <1>2, <2>1, CallMoves DEF HttpInv, c
  <2>3. ASSUME ~overlapped, NEW t \in Slots, t # s PROVE call'[t] = Idle
    BY <1>1, <2>2, <2>3 DEF HttpInv, SoleCallInv
  <2>4. SoleCallInv'
    <3> SUFFICES ASSUME ~overlapped
                 PROVE  /\ \A t, u \in Slots : call'[t] # Idle /\ call'[u] # Idle => t = u
                        /\ \A t \in Slots :
                             /\ call'[t].st = "sent" => call'[t].hdr = cachedSessionId'
                             /\ call'[t].rep.kind = "rejected" => cachedSessionId' \notin valid'
      BY <1>1 DEF SoleCallInv
    <3>1. cachedSessionId' = 0
      BY <1>2
    <3> QED
      BY <2>1, <2>2, <2>3, <3>1, CallRecords
  <2>5. HttpPlaceType' /\ SessionType' /\ ListType' /\ attempt' \in 0..Backoffs /\ BootInv'
    BY <1>1, <1>2 DEF HttpInv, HttpPlaceType, SessionType, ListType, BootInv, catVars, streamVars
  <2>6. HttpFlagType' /\ GivenUpReported'
    BY <1>1, <1>2 DEF HttpInv, HttpFlagType, GivenUpReported, catVars, streamVars
  <2>7. FollowInv'
    BY <1>1, <1>2, <2>1, <2>2, HttpConstants DEF HttpInv, FollowInv, Bringing, catVars
  <2> QED
    BY <2>2, <2>4, <2>5, <2>6, <2>7 DEF HttpInv
<1>3. CASE /\ call' = [call EXCEPT ![s] = Idle]
           /\ Return(s, FALSE, 0)
           /\ UNCHANGED cachedSessionId
  <2>1. /\ HttpPlaceType' /\ BootInv' /\ GivenUpReported' /\ attempt' \in 0..Backoffs
        /\ everConnected' = everConnected /\ excuse' \in BOOLEAN
        /\ note' = note /\ debounce' = debounce /\ ListType'
    BY <1>1, <1>3, ReturnPlaces
  <2>2. FollowInv'
    BY <1>1, <1>3, ReturnFollows
  <2>3. CallType' /\ SoleCallInv'
    BY <1>1, <1>3, CallMoves, SoleCallEnds, CallRecords DEF HttpInv
  <2>4. HttpFlagType' /\ SessionType'
    BY <1>1, <1>3, <2>1 DEF HttpInv, HttpFlagType, SessionType
  <2> QED
    BY <2>1, <2>2, <2>3, <2>4 DEF HttpInv
<1> QED
  BY <1>2, <1>3 DEF ReadBody

\* The server's answer to a call: what it refuses is not among the ids it
\* holds, and a list it sends is its present one.
LEMMA HandleStep == ASSUME HttpInv, NEW s \in Slots, Handle(s) PROVE HttpInv'
<1> DEFINE h == call[s].hdr
           listed == s \in Refreshers \/ boot = "tools"
           Rep(kind, id) == [kind |-> kind, id |-> id,
                             ver |-> IF kind = "ok" /\ listed THEN srvTools ELSE 0]
           c(kind, id) == [st |-> "reply", hdr |-> 0, retry |-> call[s].retry, rep |-> Rep(kind, id)]
<1>1. /\ call[s].st = "sent" /\ call[s] \in Calls /\ call[s] # Idle
      /\ UNCHANGED <<boot, closed, cachedSessionId, overlapped, catVars, streamVars>>
  BY CallRecords DEF Handle, HttpInv, CallType
<1>2. PICK kind \in {"ok", "bad", "mention", "rejected"}, id \in 0..MaxSid :
        /\ call' = [call EXCEPT ![s].st = "reply", ![s].hdr = 0, ![s].rep = Rep(kind, id)]
        /\ kind = "rejected" => h \notin valid
        /\ \/ UNCHANGED <<issued, valid>>
           \/ /\ issued < MaxSid /\ issued' = issued + 1 /\ valid' = valid \cup {issued + 1}
              /\ kind = "ok"
  <2>1. 0 \in 0..MaxSid /\ h \in 0..MaxSid /\ (issued < MaxSid => issued + 1 \in 0..MaxSid)
    BY <1>1, HttpConstants DEF Calls, HttpInv, SessionType
  <2> QED
    BY <2>1 DEF Handle
<1>3. /\ c(kind, id) \in Calls /\ call' = [call EXCEPT ![s] = c(kind, id)]
  <2>1. Rep(kind, id) \in Replies
    BY HttpConstants DEF Replies, HttpInv, ListType
  <2> HIDE DEF Rep
  <2>2. c(kind, id) \in Calls
    BY <1>1, <2>1, HttpConstants DEF Calls
  <2>3. [[[call[s] EXCEPT !.st = "reply"] EXCEPT !.hdr = 0] EXCEPT !.rep = Rep(kind, id)] = c(kind, id)
    BY <1>1, <2>1, AnswerRecord
  <2> QED
    BY <1>2, <2>2, <2>3 DEF HttpInv, CallType
<1>4. /\ CallType' /\ call'[s] = c(kind, id) /\ \A t \in Slots \ {s} : call'[t] = call[t]
  <2> HIDE DEF c
  <2> QED
    BY <1>3, CallMoves DEF HttpInv
<1>5. /\ c(kind, id).st = "reply" /\ c(kind, id).rep.kind = kind
      /\ kind = "ok" /\ listed => c(kind, id).rep.ver = srvTools
  OBVIOUS
<1> HIDE DEF c
<1>6. c(kind, id) # Idle
  BY <1>5, CallRecords
<1>7. SoleCallInv'
  <2>1. ASSUME ~overlapped PROVE h = cachedSessionId /\ \A t \in Slots \ {s} : call'[t] = Idle
    BY <1>1, <1>4, <2>1 DEF HttpInv, SoleCallInv
  <2>2. ASSUME ~overlapped, kind = "rejected" PROVE cachedSessionId' \notin valid'
    BY <1>1, <1>2, <2>1, <2>2
  <2> QED
    BY <1>1, <1>4, <1>5, <2>1, <2>2, CallRecords DEF SoleCallInv
<1>8. SessionType'
  <2>1. cachedSessionId' = cachedSessionId
    BY <1>1
  <2>2. CASE UNCHANGED <<issued, valid>>
    BY <2>1, <2>2 DEF HttpInv, SessionType
  <2>3. CASE issued < MaxSid /\ issued' = issued + 1 /\ valid' = valid \cup {issued + 1}
    BY <2>1, <2>3, HttpConstants DEF HttpInv, SessionType
  <2> QED
    BY <1>2, <2>2, <2>3
<1>9. HttpPlaceType' /\ ListType' /\ attempt' \in 0..Backoffs /\ BootInv'
  BY <1>1 DEF HttpInv, HttpPlaceType, ListType, BootInv, catVars, streamVars
<1>10. HttpFlagType' /\ GivenUpReported'
  BY <1>1 DEF HttpInv, HttpFlagType, GivenUpReported, catVars, streamVars
<1>11. FollowInv'
  <2>1. \A r \in Refreshers : call'[r].rep.kind = "ok" => call'[r].rep.ver <= srvTools'
    BY <1>1, <1>4, <1>5, HttpConstants DEF HttpInv, FollowInv, ListType, catVars
  <2>2. \A r \in Refreshers : Bringing(r) => Bringing(r)'
    BY <1>1, <1>4, <1>5, <1>6, HttpConstants DEF Bringing, catVars
  <2>3. boot = "tools" /\ call'[Main].rep.kind = "ok" /\ call'[Main].rep.ver # srvTools =>
          note \/ debounce \/ excuse
    BY <1>1, <1>4, <1>5, HttpConstants DEF HttpInv, FollowInv
  <2> QED
    BY <1>1, <2>1, <2>2, <2>3 DEF HttpInv, FollowInv, catVars
<1> QED
  BY <1>4, <1>7, <1>8, <1>9, <1>10, <1>11 DEF HttpInv

LEMMA FireStep == ASSUME HttpInv, Fire PROVE HttpInv'
<1>1. UNCHANGED <<boot, closed, cachedSessionId, issued, valid, srvTools, note, tools, streamVars>>
  BY DEF Fire
<1>2. debounce' = FALSE
  BY DEF Fire
<1>3. HttpPlaceType' /\ SessionType' /\ ListType' /\ attempt' \in 0..Backoffs /\ BootInv'
  BY <1>1 DEF HttpInv, HttpPlaceType, SessionType, ListType, BootInv, streamVars
<1>4. GivenUpReported'
  BY <1>1 DEF HttpInv, GivenUpReported, streamVars
<1>5. CASE boot = "open" /\ (\E r \in Refreshers : Begin(r)) /\ UNCHANGED excuse
  <2>1. PICK r \in Refreshers : Begin(r)
    BY <1>5
  <2>2. /\ CallType' /\ SoleCallInv' /\ overlapped' \in BOOLEAN
        /\ call'[r] # Idle /\ call'[r].rep.kind = "none"
        /\ \A t \in Slots \ {r} : call'[t] = call[t]
    BY <1>1, <2>1, BeginKeeps, HttpConstants
  <2>3. HttpFlagType'
    BY <1>1, <1>2, <1>5, <2>2 DEF HttpInv, HttpFlagType, streamVars
  <2>4. Bringing(r)'
    BY <2>2 DEF Bringing
  <2>5. \A t \in Refreshers : call'[t].rep.kind = "ok" => call'[t].rep.ver <= srvTools'
    BY <1>1, <2>2, HttpConstants DEF HttpInv, FollowInv
  <2>6. FollowInv'
    BY <1>1, <1>5, <2>4, <2>5 DEF FollowInv
  <2> QED
    BY <1>3, <1>4, <2>2, <2>3, <2>6 DEF HttpInv
<1>6. CASE boot # "open" /\ excuse' = TRUE /\ UNCHANGED <<call, overlapped>>
  <2>1. CallType' /\ SoleCallInv'
    BY <1>1, <1>6 DEF HttpInv, CallType, SoleCallInv
  <2>2. HttpFlagType'
    BY <1>1, <1>2, <1>6 DEF HttpInv, HttpFlagType, streamVars
  <2>3. FollowInv'
    BY <1>1, <1>6 DEF HttpInv, FollowInv
  <2> QED
    BY <1>3, <1>4, <2>1, <2>2, <2>3 DEF HttpInv
<1> QED
  BY <1>5, <1>6 DEF Fire

\* A stream that is given up has said so.
LEMMA StreamStep ==
  ASSUME HttpInv,
         \/ StreamFails \/ StreamRefused \/ StreamOpens \/ StreamEnds \/ StreamBreaks
         \/ BackoffDone
  PROVE  HttpInv'
<1>1. UNCHANGED <<boot, closed, call, idVars, catVars>> /\ stream # "none"
  BY DEF StreamFails, StreamRefused, StreamOpens, StreamEnds, StreamBreaks, BackoffDone
<1>2. everConnected' \in BOOLEAN
  <2>1. everConnected' = everConnected \/ everConnected' = TRUE
    BY DEF StreamFails, StreamRefused, StreamOpens, StreamEnds, StreamBreaks, BackoffDone
  <2> QED
    BY <2>1 DEF HttpInv, HttpFlagType
<1>3. attempt' \in 0..Backoffs
  <2>1. attempt' = attempt \/ attempt' = 0 \/ (~(attempt >= Backoffs) /\ attempt' = attempt + 1)
    BY DEF StreamFails, StreamRefused, StreamOpens, StreamEnds, StreamBreaks, BackoffDone,
           BackoffOrGiveUp
  <2> QED
    BY <2>1, HttpConstants DEF HttpInv
<1>4. \/ stream' = "ended" /\ streamStatus' \in {"unsupported", "disabled"}
      \/ stream' \in {"connecting", "open", "backoff"}
         /\ streamStatus' \in {streamStatus, "connected", "disabled"}
  BY DEF StreamFails, StreamRefused, StreamOpens, StreamEnds, StreamBreaks, BackoffDone,
         BackoffOrGiveUp
<1>5. HttpPlaceType'
  BY <1>1, <1>4 DEF HttpInv, HttpPlaceType
<1>6. GivenUpReported'
  BY <1>4 DEF GivenUpReported
<1> QED
  BY <1>1, <1>2, <1>3, <1>5, <1>6, StreamSteps

LEMMA CloseClientStep == ASSUME HttpInv, CloseClient PROVE HttpInv'
<1>1. /\ closed' = TRUE /\ debounce' = FALSE /\ boot = "open"
      /\ stream' = IF stream = "none" THEN "none" ELSE "ended"
      /\ UNCHANGED <<boot, call, cachedSessionId, overlapped, issued, valid, srvTools, note, tools,
                     excuse, attempt, everConnected, streamStatus>>
  BY DEF CloseClient, idVars
<1>2. HttpPlaceType' /\ SessionType' /\ ListType' /\ CallType' /\ attempt' \in 0..Backoffs
  BY <1>1 DEF HttpInv, HttpPlaceType, SessionType, ListType, CallType
<1>3. HttpFlagType' /\ BootInv' /\ GivenUpReported'
  BY <1>1 DEF HttpInv, HttpFlagType, BootInv, GivenUpReported
<1>4. SoleCallInv'
  BY <1>1 DEF HttpInv, SoleCallInv
<1>5. FollowInv'
  BY <1>1 DEF HttpInv, FollowInv
<1> QED
  BY <1>2, <1>3, <1>4, <1>5 DEF HttpInv

\* The news is handed on from the server to the debounce timer, or on record
\* as lost.
LEMMA NewsStep == ASSUME HttpInv, Notify \/ ServerChanges \/ NoteLost PROVE HttpInv'
<1>1. /\ UNCHANGED <<boot, closed, call, tools>> /\ UNCHANGED idVars /\ UNCHANGED streamVars
  BY DEF Notify, ServerChanges, NoteLost
<1>2. \/ note' = FALSE /\ debounce' = ~closed /\ UNCHANGED <<srvTools, excuse>>
      \/ srvTools < MaxVer /\ srvTools' = srvTools + 1 /\ note' = TRUE /\ UNCHANGED <<debounce, excuse>>
      \/ note' = FALSE /\ excuse' = TRUE /\ UNCHANGED <<srvTools, debounce>>
  BY DEF Notify, Dispatch, ServerChanges, NoteLost
<1>3. HttpPlaceType' /\ SessionType' /\ CallType' /\ attempt' \in 0..Backoffs /\ BootInv'
  BY <1>1 DEF HttpInv, HttpPlaceType, SessionType, CallType, BootInv, idVars, streamVars
<1>4. HttpFlagType' /\ GivenUpReported'
  BY <1>1, <1>2 DEF HttpInv, HttpFlagType, GivenUpReported, idVars, streamVars
<1>5. ListType' /\ srvTools' \in Nat /\ srvTools <= srvTools'
  BY <1>1, <1>2, HttpConstants DEF HttpInv, ListType
<1>6. SoleCallInv'
  BY <1>1 DEF HttpInv, SoleCallInv, idVars
<1>7. FollowInv'
  <2>1. \A r \in Refreshers : call'[r].rep.kind = "ok" => call'[r].rep.ver <= srvTools'
    BY <1>1, <1>5, HttpConstants
       DEF HttpInv, FollowInv, ListType, CallType, Calls, Replies
  <2> QED
    BY <1>1, <1>2, <2>1 DEF HttpInv, FollowInv, Bringing, BootInv, HttpFlagType
<1> QED
  BY <1>3, <1>4, <1>5, <1>6, <1>7 DEF HttpInv

LEMMA ForgetStep == ASSUME HttpInv, Forget PROVE HttpInv'
<1>1. UNCHANGED <<boot, closed, call, cachedSessionId, overlapped, issued>>
      /\ UNCHANGED catVars /\ UNCHANGED streamVars /\ valid' \subseteq valid
  BY DEF Forget
<1>2. HttpPlaceType' /\ SessionType' /\ ListType' /\ CallType' /\ attempt' \in 0..Backoffs /\ BootInv'
  BY <1>1 DEF HttpInv, HttpPlaceType, SessionType, ListType, CallType, BootInv, catVars, streamVars
<1>3. HttpFlagType' /\ GivenUpReported'
  BY <1>1 DEF HttpInv, HttpFlagType, GivenUpReported, catVars, streamVars
<1>4. SoleCallInv'
  BY <1>1 DEF HttpInv, SoleCallInv
<1>5. FollowInv'
  BY <1>1 DEF HttpInv, FollowInv, Bringing, catVars
<1> QED
  BY <1>2, <1>3, <1>4, <1>5 DEF HttpInv

\* Every step keeps the invariant.
LEMMA HttpNextInv == HttpInv /\ [HttpNext]_httpVars => HttpInv'
<1> SUFFICES ASSUME HttpInv, [HttpNext]_httpVars PROVE HttpInv'
  OBVIOUS
<1>1. CASE UNCHANGED httpVars
  <2>1. HttpPlaceType' /\ HttpFlagType' /\ SessionType' /\ ListType' /\ CallType'
        /\ attempt' \in 0..Backoffs
    BY <1>1 DEF HttpInv, HttpPlaceType, HttpFlagType, SessionType, ListType, CallType,
                httpVars, idVars, catVars, streamVars
  <2>2. BootInv' /\ GivenUpReported' /\ SoleCallInv'
    BY <1>1 DEF HttpInv, BootInv, GivenUpReported, SoleCallInv, httpVars, idVars, streamVars
  <2>3. FollowInv'
    BY <1>1 DEF HttpInv, FollowInv, Bringing, httpVars, catVars
  <2> QED
    BY <2>1, <2>2, <2>3 DEF HttpInv
<1>2. CASE Request
  BY <1>2, RequestStep
<1>3. CASE CloseClient
  BY <1>3, CloseClientStep
<1>4. CASE Notify \/ ServerChanges \/ NoteLost
  BY <1>4, NewsStep
<1>5. CASE Fire
  BY <1>5, FireStep
<1>6. CASE \E s \in Slots : Fails(s) \/ Receive(s) \/ ReadBody(s) \/ Handle(s)
  BY <1>6, FailsStep, ReceiveStep, ReadBodyStep, HandleStep
<1>7. CASE \/ StreamFails \/ StreamRefused \/ StreamOpens \/ StreamEnds \/ StreamBreaks
           \/ BackoffDone
  BY <1>7, StreamStep
<1>8. CASE Forget
  BY <1>8, ForgetStep
<1> QED
  BY <1>1, <1>2, <1>3, <1>4, <1>5, <1>6, <1>7, <1>8 DEF HttpNext

\* HttpInv holds in every reachable state.
THEOREM HttpInvariance == HttpSpec => []HttpInv
BY HttpInitInv, HttpNextInv, PTL DEF HttpSpec
-----------------------------------------------------------------------------
\* Every variable of the HTTP transport keeps its type.
THEOREM HttpTypeCorrect == HttpSpec => []HttpTypeOK
<1>1. HttpInv => HttpTypeOK
  <2> SUFFICES ASSUME HttpInv PROVE HttpTypeOK
    OBVIOUS
  <2>1. {closed, overlapped, note, debounce, excuse, everConnected} \subseteq BOOLEAN
    BY DEF HttpInv, HttpFlagType
  <2> QED
    BY <2>1 DEF HttpInv, HttpTypeOK, HttpPlaceType, SessionType, ListType, CallType, Calls, Replies
<1> QED
  BY <1>1, HttpInvariance, PTL

\* Whatever notifications, timers, refreshes and answers overtake each other:
\* a tool list that is not the server's will still be replaced, or the loss is
\* one the client cannot see or has logged.
THEOREM ListFollowsServer == HttpSpec => []CatalogFollows
<1>1. HttpInv => CatalogFollows
  BY DEF HttpInv, FollowInv, Bringing, CatalogFollows
<1> QED
  BY <1>1, HttpInvariance, PTL

\* A notification stream is never given up with a status that says otherwise,
\* on any of the ways that end it and for any number of back-offs.
THEOREM EndedStreamIsReported == HttpSpec => []GivenUpReported
<1>1. HttpInv => GivenUpReported
  BY DEF HttpInv
<1> QED
  BY <1>1, HttpInvariance, PTL

\* Only a 400 that reads as one about the session id costs the client its session,
\* and without overlapping calls the server does not hold that session any more,
\* if it was about the id.
LEMMA SessionStep ==
  HttpInv /\ [HttpNext]_httpVars =>
    [~overlapped' /\ cachedSessionId \in valid /\ cachedSessionId' = 0
       => \E s \in Slots : Mistakable(s) /\ call'[s] = Sent(0, TRUE)]_httpVars
<1> DEFINE Goal == \E s \in Slots : Mistakable(s) /\ call'[s] = Sent(0, TRUE)
<1> SUFFICES ASSUME HttpInv, HttpNext, ~overlapped', cachedSessionId \in valid, cachedSessionId' = 0
             PROVE  Goal
  OBVIOUS
<1>1. cachedSessionId # 0
  BY DEF HttpInv, SessionType
<1>2. ~UNCHANGED cachedSessionId
  BY <1>1
<1>3. \E s \in Slots : Receive(s) \/ ReadBody(s)
  BY <1>2 DEF HttpNext, Request, CloseClient, Notify, ServerChanges, NoteLost, Fire, Fails, Handle,
              StreamFails, StreamRefused, StreamOpens, StreamEnds, StreamBreaks, BackoffDone, Forget,
              idVars
<1>4. PICK s \in Slots : Receive(s) \/ ReadBody(s)
  BY <1>3
<1>5. CASE Receive(s)
  BY <1>1, <1>5 DEF Receive
<1>6. CASE ReadBody(s)
  <2>1. /\ call[s].st = "body" /\ call[s].rep.kind \in {"rejected", "mention"}
        /\ call' = [call EXCEPT ![s] = Sent(0, TRUE)] /\ overlapped' = overlapped
    BY <1>2, <1>6 DEF ReadBody, AboutSession
  <2>2. call[s].rep.kind # "rejected"
    BY <2>1 DEF HttpInv, SoleCallInv
  <2>3. call'[s] = Sent(0, TRUE)
    BY <2>1 DEF HttpInv, CallType
  <2> QED
    BY <2>1, <2>2, <2>3 DEF Mistakable
<1> QED
  BY <1>4, <1>5, <1>6

\* A client whose calls do not overlap loses a session the server still holds
\* only to one the server handed it or to a 400 that looksLikeSessionIdError
\* mistakes, whatever requests fail, time out or are refused.
THEOREM SessionIsKept == HttpSpec => SessionKept
BY HttpInvariance, SessionStep, PTL DEF HttpSpec, SessionKept
=============================================================================
