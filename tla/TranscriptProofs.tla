------------------------- MODULE TranscriptProofs -------------------------
(***************************************************************************)
(* TLAPS proofs about Transcript, for every finite set of appends, every   *)
(* set of sizes, every cap and every clock.                                *)
(*                                                                         *)
(* A line stands in the file that its append had open (LineInv) and every  *)
(* file has a name or lost it to a rotation (NameInv): that is where an    *)
(* entry is, whatever overlaps.  SerialInv says what is left of order and  *)
(* size as long as nothing does, and ReadInv what a reader that nothing    *)
(* disturbed has still to come to.                                         *)
(***************************************************************************)
EXTENDS Transcript, TLAPS, SequenceTheorems, FiniteSetTheorems

Started == {r \in Appends : pc[r] # "idle"}
Written == {r \in Appends : pc[r] \in {"count", "ok"}}

Places   == {"idle", "rename", "reopen", "open", "write", "count", "ok", "err"}
Inodes   == DOMAIN content
NumType  == now \in Time /\ turn \in Nat /\ bytes \in Nat /\ historySize \in Nat
FileType ==
  /\ content \in Seq(Seq(Turns)) /\ length \in Seq(Nat) /\ Len(length) = Len(content)
  /\ Len(content) > 0
NameType ==
  /\ current \in Inodes \cup {None} /\ segs \in [Time -> Inodes \cup {None}]
  /\ overwritten \subseteq Inodes
AppendType ==
  /\ pc \in [Appends -> Places] /\ size \in [Appends -> Sizes \cup {0}]
  /\ turnOf \in [Appends -> Turns \cup {0}] /\ stamp \in [Appends -> Time]
FdType ==
  /\ fd \in [Appends -> Inodes \cup {None}]
  /\ \A r \in Appends : pc[r] \in {"write", "count", "ok"} => fd[r] # None
ReadType ==
  /\ rpc \in {"idle", "segments", "done", "err"}
  /\ todo \in Seq(Time) /\ got \in Seq(Turns) /\ due \subseteq Turns
FlagType == overlapped \in BOOLEAN /\ unrotated \in BOOLEAN /\ disturbed \in BOOLEAN

\* Turn numbers are handed out one by one.
TurnInv ==
  /\ turn = Cardinality(Started)
  /\ \A r \in Started : turnOf[r] \in 1 .. turn
  /\ \A q, r \in Started : turnOf[q] = turnOf[r] => q = r

\* The lines of a file are those of the appends that wrote to it, once each.
LineInv ==
  /\ \A i \in Inodes : \A n \in DOMAIN content[i] :
       \E r \in Written : fd[r] = i /\ turnOf[r] = content[i][n]
  /\ \A i \in Inodes : \A m, n \in DOMAIN content[i] : content[i][m] = content[i][n] => m = n
  /\ \A r \in Written : turnOf[r] \in Lines(fd[r])

\* Every file has a name or lost it to a rotation, and the current one is no
\* segment.
NameInv ==
  /\ Inodes \subseteq Named \cup overwritten
  /\ current # None => \A t \in Segments : segs[t] # current

\* Segments are stamped with the past.
StampInv ==
  /\ \A t \in Segments : t <= now
  /\ \A r \in Appends : stamp[r] <= now

CountInv == historySize = Cardinality(Recorded)

\* What a reader finds that reads on while nothing changes.
ToRead == {segs[t] : t \in Range(todo)} \cup ({current} \ {None})
Ahead == UNION {Lines(i) : i \in ToRead}
Lost == UNION {Lines(i) : i \in overwritten}
ReadInv ==
  /\ \A t \in Range(todo) : segs[t] # None
  /\ rpc = "segments" /\ ~disturbed => due \subseteq Range(got) \cup Ahead \cup Lost

\* The lines of file i are all older than those of file j.
Before(i, j) == \A a \in Lines(i), b \in Lines(j) : a < b

\* Without overlap there is one append in progress, and its turn is the last;
\* it has its file to itself, and, unless a rotation left that file where it
\* was, the counter says at least how long it is.
SoleInv ==
  /\ \A q, r \in InProgress : q = r
  /\ \A r \in InProgress : turnOf[r] = turn
  /\ \A r \in Appends : pc[r] = "rename" => \A t \in Segments : t <= stamp[r]
  /\ \A r \in Appends : pc[r] \in {"write", "count"} => fd[r] = current
OrderInv ==
  /\ \A i \in Inodes : \A m, n \in DOMAIN content[i] : m < n => content[i][m] < content[i][n]
  /\ \A t, u \in Segments : t < u => Before(segs[t], segs[u])
  /\ current # None => \A t \in Segments : Before(segs[t], current)
FitsInv ==
  /\ \A i \in Inodes : length[i] <= MaxBytes
  /\ \A r \in Appends : pc[r] = "reopen" => current = None
  /\ \A r \in Appends : pc[r] \in {"open", "write"} => bytes + size[r] <= MaxBytes
  /\ \A r \in Appends : pc[r] = "count" => length[current] <= bytes + size[r]
  /\ current # None /\ (\A r \in Appends : pc[r] # "count") => length[current] <= bytes
LengthInv == ~unrotated => FitsInv
SerialInv == ~overlapped => SoleInv /\ OrderInv /\ LengthInv

IInv ==
  /\ NumType /\ FileType /\ NameType /\ AppendType /\ FdType /\ ReadType /\ FlagType
  /\ TurnInv /\ LineInv /\ NameInv /\ StampInv /\ CountInv /\ ReadInv /\ QuietReadComplete
  /\ SerialInv
-----------------------------------------------------------------------------
(* Sequences. *)

\* What a line at the end adds to a file.
LEMMA RangeAppend ==
  ASSUME NEW S, NEW s \in Seq(S), NEW x \in S
  PROVE  /\ Append(s, x) \in Seq(S) /\ Len(Append(s, x)) = Len(s) + 1
         /\ DOMAIN Append(s, x) = 1 .. (Len(s) + 1)
         /\ \A n \in 1 .. Len(s) : Append(s, x)[n] = s[n]
         /\ Append(s, x)[Len(s) + 1] = x
         /\ Range(Append(s, x)) = Range(s) \cup {x}
<1> DEFINE a == Append(s, x)
<1>1. /\ a \in Seq(S) /\ Len(a) = Len(s) + 1 /\ Len(s) \in Nat
      /\ \A n \in 1 .. Len(s) : a[n] = s[n]
      /\ a[Len(s) + 1] = x
  OBVIOUS
<1> HIDE DEF a
<1>2. DOMAIN a = 1 .. (Len(s) + 1) /\ DOMAIN s = 1 .. Len(s)
  BY <1>1
<1>3. Range(a) \subseteq Range(s) \cup {x}
  <2> SUFFICES ASSUME NEW n \in 1 .. (Len(s) + 1) PROVE a[n] \in Range(s) \cup {x}
    BY <1>2 DEF Range
  <2>1. n \in 1 .. Len(s) \/ n = Len(s) + 1
    BY <1>1
  <2> QED
    BY <1>1, <1>2, <2>1 DEF Range
<1>4. Range(s) \subseteq Range(a)
  <2> SUFFICES ASSUME NEW n \in 1 .. Len(s) PROVE s[n] \in Range(a)
    BY <1>2 DEF Range
  <2>1. n \in 1 .. (Len(s) + 1) /\ a[n] = s[n]
    BY <1>1
  <2> QED
    BY <1>2, <2>1 DEF Range
<1>5. x \in Range(a)
  <2>1. Len(s) + 1 \in 1 .. (Len(s) + 1)
    BY <1>1
  <2> QED
    BY <1>1, <1>2, <2>1 DEF Range
<1> QED
  BY <1>1, <1>2, <1>3, <1>4, <1>5 DEF a

\* A reader that goes on to the next file has read both.
LEMMA RangeConcat ==
  ASSUME NEW S, NEW s \in Seq(S), NEW t \in Seq(S)
  PROVE  s \o t \in Seq(S) /\ Range(s) \cup Range(t) \subseteq Range(s \o t)
<1> DEFINE c == s \o t
<1>1. /\ c \in Seq(S) /\ Len(c) = Len(s) + Len(t) /\ Len(s) \in Nat /\ Len(t) \in Nat
      /\ \A i \in 1 .. (Len(s) + Len(t)) : c[i] = IF i <= Len(s) THEN s[i] ELSE t[i - Len(s)]
  BY ConcatProperties
<1> HIDE DEF c
<1>2. DOMAIN c = 1 .. (Len(s) + Len(t)) /\ DOMAIN s = 1 .. Len(s) /\ DOMAIN t = 1 .. Len(t)
  BY <1>1
<1>3. ASSUME NEW n \in 1 .. Len(s) PROVE s[n] \in Range(c)
  <2>1. n \in 1 .. (Len(s) + Len(t)) /\ c[n] = s[n]
    BY <1>1
  <2> QED
    BY <1>2, <2>1 DEF Range
<1>4. ASSUME NEW n \in 1 .. Len(t) PROVE t[n] \in Range(c)
  <2>1. n + Len(s) \in 1 .. (Len(s) + Len(t)) /\ ~(n + Len(s) <= Len(s)) /\ (n + Len(s)) - Len(s) = n
    BY <1>1
  <2>2. c[n + Len(s)] = t[n]
    BY <1>1, <2>1
  <2> QED
    BY <1>2, <2>1, <2>2 DEF Range
<1>5. Range(s) \cup Range(t) \subseteq Range(c)
  BY <1>2, <1>3, <1>4 DEF Range
<1> QED
  BY <1>1, <1>5 DEF c

\* The next of what is to do, and the rest.
LEMMA RangeHeadTail ==
  ASSUME NEW S, NEW s \in Seq(S), s # <<>>
  PROVE  /\ Head(s) \in S /\ Tail(s) \in Seq(S) /\ Head(s) \in Range(s)
         /\ Range(s) = Range(Tail(s)) \cup {Head(s)}
<1> DEFINE u == Tail(s)
<1>1. /\ Head(s) \in S /\ u \in Seq(S) /\ Len(u) = Len(s) - 1 /\ Len(s) \in Nat \ {0}
      /\ \A i \in 1 .. Len(u) : u[i] = s[i + 1]
  BY HeadTailProperties, EmptySeq
<1>2. Head(s) = s[1]
  OBVIOUS
<1> HIDE DEF u
<1>3. DOMAIN u = 1 .. Len(u) /\ DOMAIN s = 1 .. Len(s)
  BY <1>1
<1>4. ASSUME NEW n \in 1 .. Len(s) PROVE s[n] \in Range(u) \cup {Head(s)}
  <2>1. CASE n = 1
    BY <1>2, <2>1
  <2>2. CASE n # 1
    <3>1. n - 1 \in 1 .. Len(u) /\ (n - 1) + 1 = n
      BY <1>1, <2>2
    <3>2. u[n - 1] = s[n]
      BY <1>1, <3>1
    <3> QED
      BY <1>3, <3>1, <3>2 DEF Range
  <2> QED
    BY <2>1, <2>2
<1>5. ASSUME NEW n \in 1 .. Len(u) PROVE u[n] \in Range(s)
  <2>1. n + 1 \in 1 .. Len(s)
    BY <1>1
  <2> QED
    BY <1>1, <1>3, <2>1 DEF Range
<1>6. Head(s) \in Range(s)
  <2>1. 1 \in 1 .. Len(s)
    BY <1>1
  <2> QED
    BY <1>2, <1>3, <2>1 DEF Range
<1>7. Range(s) = Range(u) \cup {Head(s)}
  BY <1>3, <1>4, <1>5, <1>6 DEF Range
<1> QED
  BY <1>1, <1>6, <1>7 DEF u

\* The stamps in order: every one of them, each after the smaller ones.
LEMMA StampsSorted ==
  /\ Segments \subseteq Time /\ IsFiniteSet(Segments) /\ Cardinality(Segments) \in Nat
  /\ SortedStamps \in Seq(Segments) /\ DOMAIN SortedStamps = 1 .. Cardinality(Segments)
  /\ Range(SortedStamps) = Segments
  /\ \A j, k \in DOMAIN SortedStamps : j < k => SortedStamps[j] < SortedStamps[k]
<1> DEFINE S == Segments
           Upto(t) == {u \in S : u <= t}
           rank == [t \in S |-> Cardinality(Upto(t))]
           N == Cardinality(S)
<1>1. S \subseteq Time /\ Time \subseteq Nat /\ IsFiniteSet(Time)
  BY ConstantsAssumption, FS_Interval DEF Segments, Time
<1>2. IsFiniteSet(S) /\ N \in Nat
  BY <1>1, FS_Subset, FS_CardinalityType
<1>d. SortedStamps = [k \in 1 .. N |-> CHOOSE t \in S : Cardinality(Upto(t)) = k]
  BY DEF SortedStamps
<1> HIDE DEF S
<1>3. ASSUME NEW t \in S
      PROVE  IsFiniteSet(Upto(t)) /\ Cardinality(Upto(t)) \in 1 .. N
  <2>1. Upto(t) \in SUBSET S /\ t \in Upto(t)
    BY <1>1
  <2>2. IsFiniteSet(Upto(t)) /\ Cardinality(Upto(t)) <= N
    BY <1>2, <2>1, FS_Subset
  <2>3. Cardinality(Upto(t)) \in Nat /\ Cardinality(Upto(t)) # 0
    BY <2>1, <2>2, FS_CardinalityType, FS_EmptySet
  <2> QED
    BY <1>2, <2>2, <2>3
<1>4. ASSUME NEW t \in S, NEW v \in S, t < v
      PROVE  Cardinality(Upto(t)) < Cardinality(Upto(v))
  <2>0. t \in Nat /\ v \in Nat /\ v <= v /\ ~(v <= t) /\ \A u \in S : u <= t => u <= v
    <3>1. \A u \in S : u \in Nat
      BY <1>1
    <3> QED
      BY <1>4, <3>1
  <2>1. Upto(t) \in SUBSET Upto(v) /\ v \in Upto(v) /\ v \notin Upto(t)
    BY <2>0, Zenon
  <2>2. /\ Cardinality(Upto(t)) <= Cardinality(Upto(v))
        /\ Cardinality(Upto(v)) = Cardinality(Upto(t)) => Upto(v) = Upto(t)
    <3> HIDE DEF Upto
    <3> QED
      BY <1>3, <2>1, FS_Subset
  <2>3. Cardinality(Upto(t)) \in Nat /\ Cardinality(Upto(v)) \in Nat
    BY <1>2, <1>3
  <2>4. Cardinality(Upto(v)) # Cardinality(Upto(t))
    BY <2>1, <2>2, Zenon
  <2> QED
    BY <2>2, <2>3, <2>4
<1> HIDE DEF Upto
<1>5. \A t, v \in S : Cardinality(Upto(t)) = Cardinality(Upto(v)) => t = v
  <2> SUFFICES ASSUME NEW t \in S, NEW v \in S, Cardinality(Upto(t)) = Cardinality(Upto(v)), t # v
               PROVE  FALSE
    OBVIOUS
  <2>1. t < v \/ v < t
    BY <1>1
  <2>2. Cardinality(Upto(t)) \in Nat /\ Cardinality(Upto(v)) \in Nat
    BY <1>2, <1>3
  <2> QED
    BY <1>4, <2>1, <2>2
<1>6. rank \in Injection(S, 1 .. N)
  BY <1>3, <1>5 DEF Injection, IsInjective
<1>7. rank \in Surjection(S, 1 .. N)
  <2>1. IsFiniteSet(1 .. N) /\ Cardinality(1 .. N) = N
    BY <1>2, FS_Interval
  <2> HIDE DEF rank
  <2> QED
    BY <1>6, <2>1, FS_Injection
<1>8. \A k \in 1 .. N : \E t \in S : Cardinality(Upto(t)) = k
  BY <1>7 DEF Surjection
<1>9. ASSUME NEW k \in 1 .. N
      PROVE  SortedStamps[k] \in S /\ Cardinality(Upto(SortedStamps[k])) = k
  <2>1. SortedStamps[k] = CHOOSE t \in S : Cardinality(Upto(t)) = k
    BY <1>d
  <2> QED
    BY <1>8, <2>1
<1>10. DOMAIN SortedStamps = 1 .. N
  BY <1>d
<1>11. SortedStamps \in Seq(S)
  BY <1>2, <1>d, <1>9
<1>12. ASSUME NEW t \in S PROVE \E k \in 1 .. N : SortedStamps[k] = t
  BY <1>3, <1>5, <1>9
<1>13. Range(SortedStamps) = S
  BY <1>9, <1>10, <1>12 DEF Range
<1>14. ASSUME NEW j \in 1 .. N, NEW k \in 1 .. N, j < k PROVE SortedStamps[j] < SortedStamps[k]
  <2> DEFINE t == SortedStamps[j]
             v == SortedStamps[k]
  <2>1. t \in S /\ v \in S /\ Cardinality(Upto(t)) = j /\ Cardinality(Upto(v)) = k
    BY <1>9
  <2> HIDE DEF t, v
  <2>2. v < t => k < j
    BY <1>4, <2>1
  <2>3. t # v /\ t \in Nat /\ v \in Nat
    BY <1>1, <1>14, <2>1
  <2>4. t < v
    BY <1>14, <2>2, <2>3
  <2> QED
    BY <2>4 DEF t, v
<1> QED
  BY <1>1, <1>2, <1>10, <1>11, <1>13, <1>14 DEF S
-----------------------------------------------------------------------------
(* What the steps have in common. *)

\* The constants.
LEMMA TranscriptConstants ==
  /\ IsFiniteSet(Appends) /\ Cardinality(Appends) \in Nat /\ Turns \subseteq Nat
  /\ Sizes \subseteq Nat /\ MaxBytes \in Nat /\ MaxTime \in Nat /\ None \notin Nat
  /\ 0 \in Time /\ Time \subseteq Nat
BY ConstantsAssumption, FS_CardinalityType DEF Turns, Time

\* Files are numbered.
LEMMA InodesNumbered ==
  ASSUME FileType
  PROVE  /\ Inodes = 1 .. Len(content) /\ Inodes = DOMAIN length /\ Len(content) \in Nat
         /\ None \notin Inodes /\ Inodes \subseteq Nat
         /\ \A i \in Inodes : content[i] \in Seq(Turns) /\ length[i] \in Nat
                              /\ Lines(i) \subseteq Turns
<1>1. Inodes = 1 .. Len(content) /\ Inodes = DOMAIN length /\ Len(content) \in Nat
  BY DEF FileType, Inodes
<1>2. None \notin Inodes /\ Inodes \subseteq Nat
  BY <1>1, TranscriptConstants
<1>3. ASSUME NEW i \in Inodes PROVE content[i] \in Seq(Turns) /\ length[i] \in Nat
  <2> DEFINE F == Seq(Turns)
  <2>1. content \in Seq(F) /\ length \in Seq(Nat) /\ Len(length) = Len(content)
    BY DEF FileType
  <2> HIDE DEF F
  <2>2. content[i] \in F /\ length[i] \in Nat
    BY <1>1, <2>1, ElementOfSeq
  <2> QED
    BY <2>2 DEF F
<1>4. ASSUME NEW i \in Inodes PROVE Lines(i) \subseteq Turns
  BY <1>3 DEF Lines, Range
<1> QED
  BY <1>1, <1>2, <1>3, <1>4

\* One append moves.
LEMMA PcMoves ==
  ASSUME AppendType, NEW r \in Appends, NEW x \in Places, pc' = [pc EXCEPT ![r] = x]
  PROVE  /\ pc' \in [Appends -> Places] /\ pc'[r] = x
         /\ \A q \in Appends \ {r} : pc'[q] = pc[q]
BY DEF AppendType

\* A step that changes files: a reader under way is disturbed, and what one
\* had read stays read.
LEMMA DisturbKeeps ==
  ASSUME IInv, Disturb, Lost \subseteq Lost', segs' \in [Time -> Inodes' \cup {None}],
         \A t \in Time : segs[t] # None => segs'[t] # None
  PROVE  ReadType' /\ ReadInv' /\ QuietReadComplete' /\ disturbed' \in BOOLEAN
<1>1. UNCHANGED <<rpc, todo, got, due>> /\ disturbed' = (disturbed \/ rpc = "segments")
  BY DEF Disturb, Reading
<1>2. ReadType'
  BY <1>1 DEF IInv, ReadType
<1>3. Range(todo) \subseteq Time /\ Range(todo') = Range(todo)
  BY <1>1 DEF IInv, ReadType, Range
<1>4. ReadInv'
  BY <1>1, <1>3 DEF IInv, ReadInv
<1>5. QuietReadComplete'
  BY <1>1 DEF IInv, QuietReadComplete, Lost
<1>6. disturbed' \in BOOLEAN
  BY <1>1
<1> QED
  BY <1>2, <1>4, <1>5, <1>6

\* A step that leaves files and reader alone.
LEMMA StillReads ==
  ASSUME IInv, UNCHANGED fileVars, UNCHANGED readVars
  PROVE  /\ FileType' /\ NameType' /\ ReadType' /\ disturbed' \in BOOLEAN
         /\ NameInv' /\ ReadInv' /\ QuietReadComplete' /\ Segments' = Segments
<1>1. UNCHANGED <<content, length, current, segs, overwritten, rpc, todo, got, due, disturbed>>
  BY DEF fileVars, readVars
<1>2. FileType' /\ NameType' /\ ReadType' /\ disturbed' \in BOOLEAN
  BY <1>1 DEF IInv, FileType, NameType, Inodes, ReadType, FlagType
<1>3. Segments' = Segments /\ Named' = Named /\ NameInv'
  BY <1>1 DEF IInv, NameInv, Named, Segments, Inodes
<1>4. \A i : Lines(i)' = Lines(i)
  BY <1>1 DEF Lines
<1>5. ReadInv'
  BY <1>1, <1>4 DEF IInv, ReadInv, ToRead, Ahead, Lost
<1>6. QuietReadComplete'
  BY <1>1, <1>4 DEF IInv, QuietReadComplete
<1> QED
  BY <1>2, <1>3, <1>5, <1>6

\* The open of a file by name: nothing but a new empty file.
LEMMA CreateKeeps ==
  ASSUME IInv, CreateIfMissing
  PROVE  /\ FileType' /\ Inodes \subseteq Inodes' /\ current' \in Inodes'
         /\ \A i \in Inodes : content'[i] = content[i] /\ length'[i] = length[i]
         /\ current # None => UNCHANGED <<content, length, current>>
         /\ current = None => /\ Inodes' = Inodes \cup {current'} /\ current' \notin Inodes
                              /\ content'[current'] = <<>> /\ length'[current'] = 0
<1>1. CASE current = None
  <2>1. /\ content' = Append(content, <<>>) /\ length' = Append(length, 0)
        /\ current' = Len(content) + 1
    BY <1>1 DEF CreateIfMissing
  <2>2. <<>> \in Seq(Turns)
    BY EmptySeq
  <2>3. content \in Seq(Seq(Turns)) /\ length \in Seq(Nat) /\ Len(length) = Len(content)
    BY DEF IInv, FileType
  <2>4. /\ content' \in Seq(Seq(Turns)) /\ Len(content') = Len(content) + 1
        /\ DOMAIN content' = 1 .. (Len(content) + 1)
        /\ \A n \in 1 .. Len(content) : content'[n] = content[n]
        /\ content'[Len(content) + 1] = <<>>
    BY <2>1, <2>2, <2>3, RangeAppend
  <2>5. /\ length' \in Seq(Nat) /\ Len(length') = Len(content) + 1
        /\ \A n \in 1 .. Len(content) : length'[n] = length[n]
        /\ length'[Len(content) + 1] = 0
    BY <2>1, <2>3, RangeAppend
  <2>6. Inodes = 1 .. Len(content) /\ Inodes' = 1 .. (Len(content) + 1) /\ Len(content) \in Nat
    BY <2>4, InodesNumbered DEF IInv, Inodes
  <2>7. Inodes' = Inodes \cup {Len(content) + 1} /\ Len(content) + 1 \notin Inodes
    BY <2>6
  <2>8. FileType'
    BY <2>4, <2>5, <2>6 DEF FileType
  <2> QED
    BY <1>1, <2>1, <2>4, <2>5, <2>6, <2>7, <2>8
<1>2. CASE current # None
  <2>1. UNCHANGED <<content, length, current>>
    BY <1>2 DEF CreateIfMissing
  <2> QED
    BY <1>2, <2>1 DEF IInv, FileType, NameType, Inodes
<1> QED
  BY <1>1, <1>2

\* ... which has a name and no lines.
LEMMA CreateNames ==
  ASSUME IInv, CreateIfMissing, UNCHANGED <<segs, overwritten>>
  PROVE  /\ NameType' /\ NameInv' /\ Segments' = Segments /\ Lost \subseteq Lost'
         /\ \A i \in Inodes : Lines(i)' = Lines(i)
         /\ current = None => Range(content'[current']) = {}
<1>1. /\ FileType' /\ Inodes \subseteq Inodes' /\ current' \in Inodes'
      /\ \A i \in Inodes : content'[i] = content[i]
      /\ current # None => UNCHANGED <<content, current>>
      /\ current = None => /\ Inodes' = Inodes \cup {current'} /\ current' \notin Inodes
                           /\ content'[current'] = <<>>
  BY CreateKeeps
<1>2. NameType'
  BY <1>1 DEF IInv, NameType
<1>3. Segments' = Segments /\ \A t \in Segments : segs[t] \in Inodes
  BY DEF Segments, IInv, NameType
<1>4. None \notin Inodes'
  <2>1. FileType' => None \notin Inodes'
    BY InodesNumbered, TranscriptConstants DEF FileType, Inodes
  <2> QED
    BY <1>1, <2>1
<1>5. \A i \in Inodes : Lines(i)' = Lines(i)
  BY <1>1 DEF Lines
<1>6. current = None => Range(content'[current']) = {}
  <2>1. Range(<<>>) = {}
    BY DEF Range
  <2> QED
    BY <1>1, <2>1
<1>7. Lost \subseteq Lost'
  BY <1>5 DEF Lost, IInv, NameType
<1>8. Named' = {segs[t] : t \in Segments} \cup {current'}
  BY <1>1, <1>3, <1>4 DEF Named
<1>9. NameInv'
  <2>1. CASE current = None
    BY <1>1, <1>3, <1>8, <2>1 DEF IInv, NameInv, Named
  <2>2. CASE current # None
    BY <1>1, <1>3, <1>8, <2>2 DEF IInv, NameInv, Named, Inodes
  <2> QED
    BY <2>1, <2>2
<1> QED
  BY <1>2, <1>3, <1>5, <1>6, <1>7, <1>9

\* An append on its way: its number stays.
LEMMA MoveKeeps ==
  ASSUME IInv, NEW r \in Appends, NEW x \in Places \ {"idle"}, pc[r] # "idle",
         pc' = [pc EXCEPT ![r] = x], UNCHANGED <<turn, size, turnOf, stamp>>
  PROVE  /\ AppendType' /\ TurnInv'
         /\ pc'[r] = x /\ \A q \in Appends \ {r} : pc'[q] = pc[q]
         /\ (pc[r] \in {"count", "ok"} <=> x \in {"count", "ok"}) => Written' = Written
         /\ pc[r] # "ok" /\ x # "ok" => Recorded' = Recorded
         /\ pc[r] \in {"rename", "reopen", "open", "write", "count"} =>
              r \in InProgress /\ InProgress' \subseteq InProgress
<1>1. /\ pc' \in [Appends -> Places] /\ pc'[r] = x
      /\ \A q \in Appends \ {r} : pc'[q] = pc[q]
  BY PcMoves DEF IInv
<1>2. AppendType'
  BY <1>1 DEF IInv, AppendType
<1>3. Started' = Started
  BY <1>1 DEF Started
<1>4. TurnInv'
  BY <1>3 DEF IInv, TurnInv
<1>5. (pc[r] \in {"count", "ok"} <=> x \in {"count", "ok"}) => Written' = Written
  BY <1>1 DEF Written
<1>6. pc[r] # "ok" /\ x # "ok" => Recorded' = Recorded
  <2>1. pc[r] # "ok" /\ x # "ok" => \A q \in Appends : pc'[q] = "ok" <=> pc[q] = "ok"
    BY <1>1
  <2> QED
    BY <2>1 DEF Recorded
<1>7. pc[r] \in {"rename", "reopen", "open", "write", "count"} =>
        r \in InProgress /\ InProgress' \subseteq InProgress
  BY <1>1 DEF InProgress
<1> QED
  BY <1>1, <1>2, <1>4, <1>5, <1>6, <1>7

\* Files whose lines stay, and new ones that are empty.
LEMMA LinesStay ==
  ASSUME IInv, Written' = Written,
         \A q \in Written : turnOf'[q] = turnOf[q] /\ fd'[q] = fd[q],
         Inodes \subseteq Inodes', \A i \in Inodes : content'[i] = content[i],
         \A i \in Inodes' \ Inodes : content'[i] = <<>>
  PROVE  LineInv'
<1>1. \A q \in Written : fd[q] \in Inodes
  BY DEF IInv, FdType, Written
<1>2. \A i \in Inodes' : i \notin Inodes => DOMAIN content'[i] = {}
  BY DEF Inodes
<1>3. ASSUME NEW i \in Inodes', NEW n \in DOMAIN content'[i]
      PROVE  \E q \in Written' : fd'[q] = i /\ turnOf'[q] = content'[i][n]
  <2>1. i \in Inodes /\ content'[i] = content[i]
    BY <1>2, <1>3
  <2>2. PICK q \in Written : fd[q] = i /\ turnOf[q] = content[i][n]
    BY <2>1 DEF IInv, LineInv
  <2> QED
    BY <2>1, <2>2
<1>4. ASSUME NEW i \in Inodes', NEW m \in DOMAIN content'[i], NEW n \in DOMAIN content'[i],
             content'[i][m] = content'[i][n]
      PROVE  m = n
  <2>1. i \in Inodes /\ content'[i] = content[i]
    BY <1>2, <1>4
  <2> QED
    BY <1>4, <2>1 DEF IInv, LineInv
<1>5. ASSUME NEW q \in Written' PROVE turnOf'[q] \in Range(content'[fd'[q]])
  BY <1>1, <1>5 DEF IInv, LineInv, Lines
<1> QED
  BY <1>3, <1>4, <1>5 DEF LineInv, Lines

\* A number that is not written yet is in no file, and a recorded one is.
LEMMA NotYetWritten ==
  ASSUME IInv
  PROVE  /\ \A r \in Started \ Written : \A i \in Inodes : turnOf[r] \notin Lines(i)
         /\ \A i \in Inodes : Lines(i) \subseteq 1 .. turn
         /\ Recorded \subseteq Turns /\ IsFiniteSet(Recorded)
         /\ Written \subseteq Started /\ \A q \in Written : fd[q] \in Inodes
<1>1. Written \subseteq Started /\ \A q \in Written : fd[q] \in Inodes
  BY DEF IInv, FdType, Written, Started
<1>2. ASSUME NEW i \in Inodes, NEW a \in Lines(i) PROVE \E q \in Written : turnOf[q] = a
  <2>1. PICK n \in DOMAIN content[i] : a = content[i][n]
    BY <1>2 DEF Lines, Range
  <2> QED
    BY <2>1 DEF IInv, LineInv
<1>3. \A r \in Started \ Written : \A i \in Inodes : turnOf[r] \notin Lines(i)
  BY <1>1, <1>2 DEF IInv, TurnInv
<1>4. \A i \in Inodes : Lines(i) \subseteq 1 .. turn
  BY <1>1, <1>2 DEF IInv, TurnInv
<1>5. Recorded \subseteq Turns
  <2>1. ASSUME NEW q \in Appends, pc[q] = "ok" PROVE turnOf[q] \in Turns
    <3>1. q \in Started /\ turnOf[q] \in 1 .. turn /\ turnOf[q] \in Turns \cup {0}
      BY <2>1 DEF Started, IInv, TurnInv, AppendType
    <3>2. turnOf[q] # 0
      BY <3>1 DEF IInv, NumType
    <3> QED
      BY <3>1, <3>2
  <2> QED
    BY <2>1 DEF Recorded
<1>6. IsFiniteSet(Recorded)
  <2>1. IsFiniteSet(Turns)
    BY TranscriptConstants, FS_Interval DEF Turns
  <2> QED
    BY <1>5, <2>1, FS_Subset
<1> QED
  BY <1>1, <1>3, <1>4, <1>5, <1>6
-----------------------------------------------------------------------------
(* The steps of an append. *)

\* An empty file with the name transcript.jsonl, and nobody there.
LEMMA InitIInv == Init => IInv
<1> SUFFICES ASSUME Init PROVE IInv
  OBVIOUS
<1>0. <<>> \in Seq(Turns) /\ <<>> \in Seq(Time)
  BY EmptySeq
<1>1. content = << <<>> >> /\ length = <<0>> /\ current = 1 /\ overwritten = {}
      /\ Segments = {} /\ Started = {} /\ Written = {} /\ Recorded = {} /\ InProgress = {}
  BY DEF Init, Segments, Started, Written, Recorded, InProgress
<1>2. NumType /\ AppendType /\ FlagType
  BY TranscriptConstants DEF Init, NumType, AppendType, FlagType, Places
<1>3. FileType /\ Inodes = {1} /\ content[1] = <<>> /\ length[1] = 0
  <2>1. content \in Seq(Seq(Turns))
    BY <1>0, <1>1
  <2>2. Len(content) = 1 /\ Len(length) = 1 /\ length \in Seq(Nat)
    BY <1>1
  <2> QED
    BY <1>1, <2>1, <2>2 DEF FileType, Inodes
<1>4. NameType /\ FdType
  BY <1>1, <1>3 DEF Init, NameType, FdType
<1>5. ReadType
  BY <1>0 DEF Init, ReadType
<1>6. TurnInv /\ CountInv
  BY <1>1, FS_EmptySet DEF Init, TurnInv, CountInv
<1>7. LineInv
  BY <1>1, <1>3 DEF LineInv
<1>8. NameInv /\ StampInv
  BY <1>1, <1>3, TranscriptConstants DEF Init, NameInv, Named, StampInv
<1>9. ReadInv /\ QuietReadComplete
  BY DEF Init, ReadInv, QuietReadComplete, Range
<1>10. SerialInv
  <2>1. SoleInv
    BY <1>1, TranscriptConstants DEF Init, SoleInv
  <2>2. OrderInv
    BY <1>1, <1>3 DEF OrderInv
  <2>3. LengthInv
    BY <1>1, <1>3, TranscriptConstants DEF Init, LengthInv, FitsInv
  <2> QED
    BY <2>1, <2>2, <2>3 DEF SerialInv
<1> QED
  BY <1>2, <1>3, <1>4, <1>5, <1>6, <1>7, <1>8, <1>9, <1>10 DEF IInv

\* A number is taken; the first append since nothing was in progress finds the
\* file in order.
LEMMA AppendStartStep ==
  ASSUME IInv, NEW r \in Appends, NEW n \in Sizes, AppendStart(r, n) PROVE IInv'
<1> DEFINE p == IF NeedsRotation(n) THEN "rename" ELSE AfterRotation(n)
           s == IF NeedsRotation(n) THEN now ELSE 0
<1>1. /\ pc[r] = "idle" /\ turn' = turn + 1 /\ turnOf' = [turnOf EXCEPT ![r] = turn + 1]
      /\ size' = [size EXCEPT ![r] = n] /\ pc' = [pc EXCEPT ![r] = p]
      /\ stamp' = [stamp EXCEPT ![r] = s]
  BY DEF AppendStart
<1>2. UNCHANGED <<now, bytes, historySize, fd>> /\ UNCHANGED fileVars /\ UNCHANGED readVars
  BY DEF AppendStart
<1>3. overlapped' = (overlapped \/ InProgress # {}) /\ unrotated' = unrotated
  BY DEF AppendStart
<1>4. /\ p \in {"rename", "open", "err"}
      /\ p = "rename" => s = now
      /\ p = "open" => n <= MaxBytes /\ ~(bytes > 0 /\ bytes + n > SoftCap)
      /\ s \in {0, now}
  BY TranscriptConstants DEF NeedsRotation, AfterRotation
<1> HIDE DEF p, s
<1>5. /\ FileType' /\ NameType' /\ ReadType' /\ disturbed' \in BOOLEAN
      /\ NameInv' /\ ReadInv' /\ QuietReadComplete' /\ Segments' = Segments
  BY <1>2, StillReads
<1>6. pc' \in [Appends -> Places] /\ pc'[r] = p /\ \A q \in Appends \ {r} : pc'[q] = pc[q]
  <2>1. p \in Places
    BY <1>4 DEF Places
  <2> QED
    BY <1>1, <2>1, PcMoves DEF IInv
<1>7. /\ Started' = Started \cup {r} /\ r \notin Started /\ Written' = Written /\ r \notin Written
      /\ Recorded' = Recorded
  <2>1. /\ Started' = Started \cup {r} /\ r \notin Started /\ Written' = Written /\ r \notin Written
    BY <1>1, <1>4, <1>6 DEF Started, Written
  <2>2. {a \in Appends : pc'[a] = "ok"} = {a \in Appends : pc[a] = "ok"}
        /\ \A a \in Appends : pc[a] = "ok" => turnOf'[a] = turnOf[a]
    BY <1>1, <1>4, <1>6 DEF IInv, AppendType
  <2> QED
    BY <2>1, <2>2 DEF Recorded
<1>8. Cardinality(Started') = turn + 1 /\ turn + 1 \in Turns
  <2>1. Started \in SUBSET Appends /\ Started' \in SUBSET Appends
    BY DEF Started
  <2>2. IsFiniteSet(Started) /\ Cardinality(Started') <= Cardinality(Appends)
    BY <2>1, TranscriptConstants, FS_Subset
  <2>3. Cardinality(Started') = Cardinality(Started) + 1
    BY <1>7, <2>2, FS_AddElement
  <2>4. turn = Cardinality(Started) /\ turn \in Nat
    BY DEF IInv, TurnInv, NumType
  <2> QED
    BY <2>2, <2>3, <2>4, TranscriptConstants DEF Turns
<1>9. /\ turnOf' \in [Appends -> Turns \cup {0}] /\ turnOf'[r] = turn + 1
      /\ \A q \in Appends \ {r} : turnOf'[q] = turnOf[q]
  BY <1>1, <1>8 DEF IInv, AppendType
<1>10. /\ stamp' \in [Appends -> Time] /\ stamp'[r] = s
       /\ \A q \in Appends \ {r} : stamp'[q] = stamp[q]
  BY <1>1, <1>4, TranscriptConstants DEF IInv, AppendType, NumType
<1>11. /\ size' \in [Appends -> Sizes \cup {0}] /\ size'[r] = n
       /\ \A q \in Appends \ {r} : size'[q] = size[q]
  BY <1>1 DEF IInv, AppendType
<1>12. AppendType' /\ NumType'
  BY <1>1, <1>2, <1>6, <1>9, <1>10, <1>11 DEF IInv, AppendType, NumType
<1>13. FdType'
  <2>1. fd' = fd /\ Inodes' = Inodes
    BY <1>2 DEF fileVars, Inodes
  <2> QED
    BY <1>4, <1>6, <2>1 DEF IInv, FdType
<1>14. TurnInv'
  <2>1. \A q \in Started : q # r /\ turnOf'[q] = turnOf[q] /\ turnOf[q] \in 1 .. turn
    BY <1>7, <1>9 DEF IInv, TurnInv, Started
  <2>2. \A q \in Started' : turnOf'[q] \in 1 .. turn'
    BY <1>1, <1>7, <1>9, <2>1 DEF IInv, NumType
  <2>3. \A q \in Started : turnOf'[q] # turnOf'[r]
    BY <1>9, <2>1 DEF IInv, NumType
  <2>4. \A q, u \in Started' : turnOf'[q] = turnOf'[u] => q = u
    BY <1>7, <2>1, <2>3 DEF IInv, TurnInv
  <2> QED
    BY <1>1, <1>8, <2>2, <2>4 DEF TurnInv
<1>15. LineInv'
  <2>1. content' = content /\ fd' = fd /\ Inodes' = Inodes
    BY <1>2 DEF fileVars, Inodes
  <2>2. \A q \in Written : turnOf'[q] = turnOf[q]
    BY <1>7, <1>9 DEF Written
  <2> QED
    BY <1>7, <2>1, <2>2, LinesStay
<1>16. StampInv' /\ CountInv'
  <2>1. s <= now
    BY <1>4, TranscriptConstants DEF IInv, NumType
  <2>2. now' = now /\ historySize' = historySize
    BY <1>2
  <2> QED
    BY <1>5, <1>7, <1>10, <2>1, <2>2 DEF IInv, StampInv, CountInv
<1>17. ASSUME ~overlapped' PROVE SoleInv' /\ OrderInv' /\ LengthInv'
  <2>1. ~overlapped /\ InProgress = {} /\ SoleInv /\ OrderInv /\ LengthInv
    BY <1>3, <1>17 DEF IInv, SerialInv
  <2>2. UNCHANGED <<content, length, current, segs, bytes>>
    BY <1>2 DEF fileVars
  <2>3. \A q \in Appends : pc[q] \notin {"rename", "reopen", "open", "write", "count"}
    BY <2>1 DEF InProgress
  <2>4. InProgress' \subseteq {r} /\ \A q \in Appends : pc'[q] \notin {"reopen", "write", "count"}
    BY <1>4, <1>6, <2>3 DEF InProgress
  <2>5. SoleInv'
    <3>1. ASSUME NEW q \in Appends, pc'[q] = "rename" PROVE \A t \in Segments' : t <= stamp'[q]
      BY <1>4, <1>5, <1>6, <1>10, <2>3, <3>1 DEF IInv, StampInv
    <3> QED
      BY <1>1, <1>9, <2>4, <3>1 DEF SoleInv
  <2>6. OrderInv'
    BY <1>5, <2>1, <2>2 DEF OrderInv, Before, Lines, Inodes
  <2>7. LengthInv'
    <3> SUFFICES ASSUME FitsInv PROVE FitsInv'
      BY <1>3, <2>1 DEF LengthInv
    <3>1. p = "open" => bytes + n <= MaxBytes
      <4>1. n \in Nat /\ bytes \in Nat /\ MaxBytes \in Nat
        BY TranscriptConstants DEF IInv, NumType
      <4>2. SoftCap \in Nat /\ SoftCap <= MaxBytes
        BY TranscriptConstants DEF SoftCap
      <4> QED
        BY <1>4, <4>1, <4>2
    <3>2. ASSUME NEW q \in Appends, pc'[q] \in {"open", "write"} PROVE bytes' + size'[q] <= MaxBytes
      <4>1. q = r
        BY <1>6, <2>3, <3>2
      <4>2. p = "open"
        BY <1>4, <1>6, <3>2, <4>1
      <4> QED
        BY <1>11, <2>2, <3>1, <4>1, <4>2
    <3>3. current' # None => length'[current'] <= bytes'
      BY <2>2, <2>3 DEF FitsInv
    <3> QED
      BY <2>2, <2>4, <3>2, <3>3 DEF FitsInv, Inodes
  <2> QED
    BY <2>5, <2>6, <2>7
<1>18. overlapped' \in BOOLEAN /\ unrotated' \in BOOLEAN
  BY <1>3 DEF IInv, FlagType
<1> QED
  BY <1>5, <1>12, <1>13, <1>14, <1>15, <1>16, <1>17, <1>18 DEF IInv, FlagType, SerialInv

\* The rename takes the name of a segment; the file it replaces is on record,
\* and in a serial log it has the newest lines.
LEMMA RenameStep == ASSUME IInv, NEW r \in Appends, Rename(r) PROVE IInv'
<1>1. /\ pc[r] = "rename" /\ pc' = [pc EXCEPT ![r] = "reopen"] /\ "reopen" \in Places \ {"idle"}
      /\ Disturb /\ UNCHANGED logVars
      /\ UNCHANGED <<now, content, length, size, turnOf, stamp, fd, overlapped, unrotated>>
  BY DEF Rename, Places, histVars
<1>2. UNCHANGED <<turn, bytes, historySize>>
  BY <1>1 DEF logVars
<1>3. /\ AppendType' /\ TurnInv'
      /\ pc'[r] = "reopen" /\ \A q \in Appends \ {r} : pc'[q] = pc[q]
      /\ Written' = Written /\ Recorded' = Recorded
      /\ r \in InProgress /\ InProgress' \subseteq InProgress
  BY <1>1, <1>2, MoveKeeps
<1>4. NumType' /\ FileType' /\ FdType' /\ CountInv' /\ Inodes' = Inodes
  BY <1>1, <1>2, <1>3 DEF IInv, NumType, FileType, FdType, CountInv, Inodes
<1>5. LineInv'
  BY <1>1, <1>3, <1>4, LinesStay
<1>6. \A i : Lines(i)' = Lines(i)
  BY <1>1 DEF Lines
<1> DEFINE s == stamp[r]
<1>7. s \in Time /\ s \in Nat
  BY TranscriptConstants DEF IInv, AppendType
<1>8. CASE current = None
  <2>1. UNCHANGED <<current, segs, overwritten>>
    BY <1>8 DEF Rename
  <2>2. NameType' /\ NameInv' /\ Segments' = Segments /\ StampInv'
    BY <1>1, <1>4, <2>1 DEF IInv, NameType, NameInv, StampInv, Segments, Named
  <2>3. Lost' = Lost
    BY <1>6, <2>1 DEF Lost
  <2>4. ReadType' /\ ReadInv' /\ QuietReadComplete' /\ disturbed' \in BOOLEAN
    BY <1>1, <2>1, <2>2, <2>3, DisturbKeeps DEF NameType
  <2>5. ASSUME ~overlapped PROVE SoleInv' /\ OrderInv' /\ LengthInv'
    <3>1. SoleInv /\ OrderInv /\ LengthInv
      BY <2>5 DEF IInv, SerialInv
    <3>2. \A q \in Appends : q # r => pc'[q] \notin {"rename", "reopen", "open", "write", "count"}
      BY <1>3, <3>1 DEF SoleInv, InProgress
    <3>3. SoleInv'
      BY <1>1, <1>2, <1>3, <2>1, <2>2, <3>1, <3>2 DEF SoleInv
    <3>4. OrderInv'
      BY <1>1, <1>4, <1>6, <2>1, <2>2, <3>1 DEF OrderInv, Before
    <3>5. LengthInv'
      BY <1>1, <1>2, <1>3, <1>4, <1>8, <2>1, <3>1, <3>2 DEF LengthInv, FitsInv
    <3> QED
      BY <3>3, <3>4, <3>5
  <2>6. SerialInv' /\ overlapped' \in BOOLEAN /\ unrotated' \in BOOLEAN
    BY <1>1, <2>5 DEF SerialInv, IInv, FlagType
  <2> QED
    BY <1>3, <1>4, <1>5, <2>2, <2>4, <2>6 DEF IInv, FlagType
<1>9. CASE current # None
  <2>1. /\ segs' = [segs EXCEPT ![s] = current] /\ current' = None
        /\ overwritten' = IF segs[s] = None THEN overwritten ELSE overwritten \cup {segs[s]}
    BY <1>9 DEF Rename
  <2>2. /\ current \in Inodes /\ segs \in [Time -> Inodes \cup {None}] /\ overwritten \subseteq Inodes
    BY <1>9 DEF IInv, NameType
  <2>3. NameType' /\ overwritten \subseteq overwritten'
    BY <1>4, <1>7, <2>1, <2>2 DEF NameType
  <2>4. segs'[s] = current /\ \A t \in Time \ {s} : segs'[t] = segs[t]
    BY <1>7, <2>1, <2>2
  <2>5. Segments' = Segments \cup {s}
    BY <1>7, <1>9, <2>4 DEF Segments
  <2>6. NameInv'
    <3>1. ASSUME NEW i \in Inodes PROVE i \in Named' \cup overwritten'
      <4>1. CASE i \in overwritten
        BY <2>3, <4>1
      <4>2. CASE i = current
        BY <2>4, <2>5, <4>2 DEF Named
      <4>3. CASE \E t \in Segments : i = segs[t]
        <5>1. PICK t \in Segments : i = segs[t]
          BY <4>3
        <5>2. t \in Time /\ segs[t] # None /\ t \in Segments'
          BY <2>5 DEF Segments
        <5>3. t # s => i \in Named'
          BY <2>4, <5>1, <5>2 DEF Named
        <5>4. t = s => i \in overwritten'
          BY <2>1, <5>1, <5>2
        <5> QED
          BY <5>3, <5>4
      <4> QED
        BY <4>1, <4>2, <4>3 DEF IInv, NameInv, Named
    <3> QED
      BY <1>4, <2>1, <3>1 DEF NameInv
  <2>7. StampInv'
    BY <1>1, <2>5 DEF IInv, StampInv
  <2>8. Lost \subseteq Lost'
    BY <1>6, <2>3 DEF Lost
  <2>9. ReadType' /\ ReadInv' /\ QuietReadComplete' /\ disturbed' \in BOOLEAN
    <3>1. \A t \in Time : segs[t] # None => segs'[t] # None
      BY <1>9, <2>4
    <3> QED
      BY <1>1, <2>3, <2>8, <3>1, DisturbKeeps DEF NameType
  <2>10. ASSUME ~overlapped PROVE SoleInv' /\ OrderInv' /\ LengthInv'
    <3>1. SoleInv /\ OrderInv /\ LengthInv
      BY <2>10 DEF IInv, SerialInv
    <3>2. \A q \in Appends : q # r => pc'[q] \notin {"rename", "reopen", "open", "write", "count"}
      BY <1>3, <3>1 DEF SoleInv, InProgress
    <3>3. SoleInv'
      BY <1>1, <1>2, <1>3, <2>1, <3>1, <3>2 DEF SoleInv
    <3>4. ASSUME NEW t \in Segments', NEW u \in Segments', t < u
          PROVE  Before(segs[t], segs[u])' /\ u # t
      <4>1. \A v \in Segments : v <= s
        BY <1>1, <3>1 DEF SoleInv
      <4>2. t \in Nat /\ u \in Nat /\ t \in Time /\ u \in Time
        BY <1>7, <2>5, TranscriptConstants DEF Segments
      <4>3. t # s /\ t \in Segments /\ segs'[t] = segs[t]
        BY <1>7, <2>4, <2>5, <3>4, <4>1, <4>2
      <4>4. CASE u = s
        BY <1>6, <1>9, <2>4, <3>1, <3>4, <4>2, <4>3, <4>4 DEF OrderInv, Before
      <4>5. CASE u # s
        BY <1>6, <2>4, <2>5, <3>1, <3>4, <4>2, <4>3, <4>5 DEF OrderInv, Before
      <4> QED
        BY <3>4, <4>2, <4>4, <4>5
    <3>5. OrderInv'
      BY <1>1, <1>4, <2>1, <3>1, <3>4 DEF OrderInv
    <3>6. LengthInv'
      BY <1>1, <1>2, <1>3, <1>4, <2>1, <3>1, <3>2 DEF LengthInv, FitsInv
    <3> QED
      BY <3>3, <3>5, <3>6
  <2>11. SerialInv' /\ overlapped' \in BOOLEAN /\ unrotated' \in BOOLEAN
    BY <1>1, <2>10 DEF SerialInv, IInv, FlagType
  <2> QED
    BY <1>3, <1>4, <1>5, <2>3, <2>6, <2>7, <2>9, <2>11 DEF IInv, FlagType
<1> QED
  BY <1>8, <1>9

\* A rename that fails leaves the files in order, and the cap is off.
LEMMA RenameFailsStep == ASSUME IInv, NEW r \in Appends, RenameFails(r) PROVE IInv'
<1>1. /\ pc[r] = "rename" /\ pc' = [pc EXCEPT ![r] = "reopen"] /\ "reopen" \in Places \ {"idle"}
      /\ UNCHANGED logVars /\ UNCHANGED fileVars /\ UNCHANGED readVars
      /\ UNCHANGED <<now, size, turnOf, stamp, fd, overlapped>>
  BY DEF RenameFails, Places
<1>2. UNCHANGED <<turn, bytes, historySize, content, length, current, segs, overwritten>>
  BY <1>1 DEF logVars, fileVars
<1>3. /\ AppendType' /\ TurnInv'
      /\ pc'[r] = "reopen" /\ \A q \in Appends \ {r} : pc'[q] = pc[q]
      /\ Written' = Written /\ Recorded' = Recorded
      /\ r \in InProgress /\ InProgress' \subseteq InProgress
  BY <1>1, <1>2, MoveKeeps
<1>4. /\ FileType' /\ NameType' /\ ReadType' /\ disturbed' \in BOOLEAN
      /\ NameInv' /\ ReadInv' /\ QuietReadComplete' /\ Segments' = Segments
  BY <1>1, StillReads
<1>5. NumType' /\ StampInv' /\ CountInv'
  BY <1>1, <1>2, <1>3, <1>4 DEF IInv, NumType, StampInv, CountInv
<1>6. Inodes' = Inodes /\ FdType'
  BY <1>1, <1>2, <1>3 DEF IInv, FdType, Inodes
<1>7. LineInv'
  BY <1>1, <1>2, <1>3, <1>6, LinesStay
<1>8. ASSUME ~overlapped PROVE SoleInv' /\ OrderInv'
  <2>1. SoleInv /\ OrderInv
    BY <1>8 DEF IInv, SerialInv
  <2>2. \A q \in Appends : q # r => pc'[q] \notin {"rename", "reopen", "open", "write", "count"}
    BY <1>3, <2>1 DEF SoleInv, InProgress
  <2>3. SoleInv'
    BY <1>1, <1>2, <1>3, <2>1, <2>2 DEF SoleInv
  <2>4. OrderInv'
    BY <1>2, <1>4, <1>6, <2>1 DEF OrderInv, Before, Lines
  <2> QED
    BY <2>3, <2>4
<1>9. unrotated' = TRUE
  BY DEF RenameFails
<1>10. SerialInv' /\ overlapped' \in BOOLEAN /\ unrotated' \in BOOLEAN
  BY <1>1, <1>8, <1>9 DEF SerialInv, LengthInv, IInv, FlagType
<1> QED
  BY <1>3, <1>4, <1>5, <1>6, <1>7, <1>10 DEF IInv, FlagType

\* The files are recreated, or found, and the order of a serial log is that of
\* its old files.
LEMMA CreateOrder ==
  ASSUME IInv, CreateIfMissing, UNCHANGED <<segs, overwritten>>, OrderInv
  PROVE  OrderInv'
<1>1. /\ FileType' /\ Inodes \subseteq Inodes' /\ current' \in Inodes'
      /\ \A i \in Inodes : content'[i] = content[i] /\ length'[i] = length[i]
      /\ current # None => UNCHANGED <<content, length, current>>
      /\ current = None => /\ Inodes' = Inodes \cup {current'} /\ current' \notin Inodes
                           /\ content'[current'] = <<>> /\ length'[current'] = 0
  BY CreateKeeps
<1>2. /\ Segments' = Segments /\ \A i \in Inodes : Lines(i)' = Lines(i)
      /\ current = None => Range(content'[current']) = {}
  BY CreateNames
<1>3. \A t \in Segments : segs[t] \in Inodes
  BY DEF Segments, IInv, NameType
<1>4. \A t, u \in Segments' : t < u => Before(segs[t], segs[u])'
  BY <1>2, <1>3 DEF OrderInv, Before
<1>5. CASE current = None
  <2>1. \A t \in Segments' : Before(segs[t], current)'
    BY <1>2, <1>5 DEF Before, Lines
  <2>2. \A i \in Inodes' : \A m, n \in DOMAIN content'[i] : m < n => content'[i][m] < content'[i][n]
    BY <1>1, <1>5 DEF OrderInv
  <2> QED
    BY <1>4, <2>1, <2>2 DEF OrderInv
<1>6. CASE current # None
  <2>1. UNCHANGED <<content, current>> /\ Inodes' = Inodes
    BY <1>1, <1>6 DEF Inodes
  <2> QED
    BY <1>2, <2>1 DEF OrderInv, Before, Lines
<1> QED
  BY <1>5, <1>6

\* The counter restarts with the new file.
LEMMA ReopenStep == ASSUME IInv, NEW r \in Appends, Reopen(r) PROVE IInv'
<1> DEFINE x == AfterRotation(size[r])
<1>1. /\ pc[r] = "reopen" /\ pc' = [pc EXCEPT ![r] = x] /\ bytes' = 0
      /\ CreateIfMissing /\ Disturb
      /\ UNCHANGED <<now, turn, historySize, segs, overwritten, size, turnOf, stamp, fd, overlapped, unrotated>>
  BY DEF Reopen, histVars
<1>2. /\ x \in {"open", "err"} /\ x \in Places \ {"idle"}
      /\ x = "open" => ~(size[r] > MaxBytes)
  BY DEF AfterRotation, Places
<1> HIDE DEF x
<1>3. /\ AppendType' /\ TurnInv'
      /\ pc'[r] = x /\ \A q \in Appends \ {r} : pc'[q] = pc[q]
      /\ Written' = Written /\ Recorded' = Recorded
      /\ r \in InProgress /\ InProgress' \subseteq InProgress
  BY <1>1, <1>2, MoveKeeps
<1>4. /\ FileType' /\ Inodes \subseteq Inodes' /\ current' \in Inodes'
      /\ \A i \in Inodes : content'[i] = content[i] /\ length'[i] = length[i]
      /\ current # None => UNCHANGED <<content, length, current>>
      /\ current = None => /\ Inodes' = Inodes \cup {current'} /\ current' \notin Inodes
                           /\ content'[current'] = <<>> /\ length'[current'] = 0
  BY <1>1, CreateKeeps
<1>5. NameType' /\ NameInv' /\ Segments' = Segments /\ Lost \subseteq Lost'
  BY <1>1, CreateNames
<1>6. NumType' /\ StampInv' /\ CountInv'
  BY <1>1, <1>3, <1>5 DEF IInv, NumType, StampInv, CountInv
<1>7. FdType'
  BY <1>1, <1>2, <1>3, <1>4 DEF IInv, FdType
<1>8. LineInv'
  <2>1. \A i \in Inodes' \ Inodes : content'[i] = <<>>
    BY <1>4 DEF Inodes
  <2> QED
    BY <1>1, <1>3, <1>4, <2>1, LinesStay
<1>9. ReadType' /\ ReadInv' /\ QuietReadComplete' /\ disturbed' \in BOOLEAN
  BY <1>1, <1>5, DisturbKeeps DEF NameType
<1>10. ASSUME ~overlapped PROVE SoleInv' /\ OrderInv' /\ LengthInv'
  <2>1. SoleInv /\ OrderInv /\ LengthInv
    BY <1>10 DEF IInv, SerialInv
  <2>2. \A q \in Appends : q # r => pc'[q] \notin {"rename", "reopen", "open", "write", "count"}
    BY <1>3, <2>1 DEF SoleInv, InProgress
  <2>3. current' # None
    <3>1. None \notin Inodes'
      BY <1>4, TranscriptConstants DEF FileType, Inodes
    <3> QED
      BY <1>4, <3>1
  <2>4. \A q \in Appends : pc'[q] \notin {"rename", "reopen", "write", "count"}
    BY <1>2, <1>3, <2>2
  <2>5. SoleInv'
    BY <1>1, <1>3, <2>1, <2>3, <2>4 DEF SoleInv
  <2>6. OrderInv'
    BY <1>1, <2>1, CreateOrder
  <2>7. LengthInv'
    <3> SUFFICES ASSUME FitsInv PROVE FitsInv'
      BY <1>1, <2>1 DEF LengthInv
    <3>0. current = None
      BY <1>1 DEF FitsInv
    <3>1. \A i \in Inodes' : length'[i] <= MaxBytes
      BY <1>4, <3>0, TranscriptConstants DEF FitsInv
    <3>2. ASSUME NEW q \in Appends, pc'[q] \in {"open", "write"} PROVE bytes' + size'[q] <= MaxBytes
      <4>1. q = r /\ x = "open"
        BY <1>2, <1>3, <2>2, <3>2
      <4>2. size[r] \in Nat
        BY TranscriptConstants DEF IInv, AppendType
      <4> QED
        BY <1>1, <1>2, <4>1, <4>2, TranscriptConstants
    <3>3. length'[current'] <= bytes'
      BY <1>1, <1>4, <3>0
    <3> QED
      BY <2>4, <3>1, <3>2, <3>3 DEF FitsInv
  <2> QED
    BY <2>5, <2>6, <2>7
<1>11. SerialInv' /\ overlapped' \in BOOLEAN /\ unrotated' \in BOOLEAN
  BY <1>1, <1>10 DEF SerialInv, IInv, FlagType
<1> QED
  BY <1>3, <1>4, <1>5, <1>6, <1>7, <1>8, <1>9, <1>11 DEF IInv, FlagType

\* The line will go where the name leads now.
LEMMA OpenFileStep == ASSUME IInv, NEW r \in Appends, OpenFile(r) PROVE IInv'
<1>1. /\ pc[r] = "open" /\ pc' = [pc EXCEPT ![r] = "write"] /\ "write" \in Places \ {"idle"}
      /\ CreateIfMissing /\ Disturb /\ fd' = [fd EXCEPT ![r] = current'] /\ UNCHANGED logVars
      /\ UNCHANGED <<now, segs, overwritten, size, turnOf, stamp, overlapped, unrotated>>
  BY DEF OpenFile, Places, histVars
<1>2. UNCHANGED <<turn, bytes, historySize>>
  BY <1>1 DEF logVars
<1>3. /\ AppendType' /\ TurnInv'
      /\ pc'[r] = "write" /\ \A q \in Appends \ {r} : pc'[q] = pc[q]
      /\ Written' = Written /\ Recorded' = Recorded
      /\ r \in InProgress /\ InProgress' \subseteq InProgress
  BY <1>1, <1>2, MoveKeeps
<1>4. /\ FileType' /\ Inodes \subseteq Inodes' /\ current' \in Inodes'
      /\ \A i \in Inodes : content'[i] = content[i] /\ length'[i] = length[i]
      /\ current # None => UNCHANGED <<content, length, current>>
      /\ current = None => /\ Inodes' = Inodes \cup {current'} /\ current' \notin Inodes
                           /\ content'[current'] = <<>> /\ length'[current'] = 0
  BY <1>1, CreateKeeps
<1>5. NameType' /\ NameInv' /\ Segments' = Segments /\ Lost \subseteq Lost'
  BY <1>1, CreateNames
<1>6. NumType' /\ StampInv' /\ CountInv'
  BY <1>1, <1>2, <1>3, <1>5 DEF IInv, NumType, StampInv, CountInv
<1>7. None \notin Inodes'
  BY <1>4, TranscriptConstants DEF FileType, Inodes
<1>8. fd'[r] = current' /\ \A q \in Appends \ {r} : fd'[q] = fd[q]
  BY <1>1 DEF IInv, FdType
<1>9. FdType'
  BY <1>1, <1>3, <1>4, <1>7, <1>8 DEF IInv, FdType
<1>10. LineInv'
  <2>1. \A i \in Inodes' \ Inodes : content'[i] = <<>>
    BY <1>4 DEF Inodes
  <2>2. \A q \in Written : fd'[q] = fd[q]
    BY <1>1, <1>8 DEF Written
  <2> QED
    BY <1>1, <1>3, <1>4, <2>1, <2>2, LinesStay
<1>11. ReadType' /\ ReadInv' /\ QuietReadComplete' /\ disturbed' \in BOOLEAN
  BY <1>1, <1>5, DisturbKeeps DEF NameType
<1>12. ASSUME ~overlapped PROVE SoleInv' /\ OrderInv' /\ LengthInv'
  <2>1. SoleInv /\ OrderInv /\ LengthInv
    BY <1>12 DEF IInv, SerialInv
  <2>2. \A q \in Appends : q # r => pc'[q] \notin {"rename", "reopen", "open", "write", "count"}
    BY <1>3, <2>1 DEF SoleInv, InProgress
  <2>3. \A q \in Appends : pc[q] \notin {"rename", "reopen", "write", "count"}
    BY <1>1, <1>3, <2>1 DEF SoleInv, InProgress
  <2>4. SoleInv'
    BY <1>1, <1>2, <1>3, <1>5, <1>8, <2>1, <2>2 DEF SoleInv
  <2>5. OrderInv'
    BY <1>1, <2>1, CreateOrder
  <2>6. LengthInv'
    <3> SUFFICES ASSUME FitsInv PROVE FitsInv'
      BY <1>1, <2>1 DEF LengthInv
    <3>1. current = None => 0 <= bytes /\ 0 <= MaxBytes
      BY TranscriptConstants DEF IInv, NumType
    <3>2. \A i \in Inodes' : length'[i] <= MaxBytes
      <4>1. current # None => Inodes' = Inodes
        BY <1>4 DEF Inodes
      <4> QED
        BY <1>4, <3>1, <4>1 DEF FitsInv
    <3>3. length'[current'] <= bytes'
      BY <1>2, <1>4, <2>3, <3>1 DEF FitsInv
    <3>4. bytes' + size'[r] <= MaxBytes
      BY <1>1, <1>2 DEF FitsInv
    <3>5. \A q \in Appends : pc'[q] \notin {"reopen", "open", "count"} /\ (pc'[q] = "write" => q = r)
      BY <1>3, <2>2
    <3> QED
      BY <3>2, <3>3, <3>4, <3>5 DEF FitsInv
  <2> QED
    BY <2>4, <2>5, <2>6
<1>13. SerialInv' /\ overlapped' \in BOOLEAN /\ unrotated' \in BOOLEAN
  BY <1>1, <1>12 DEF SerialInv, IInv, FlagType
<1> QED
  BY <1>3, <1>4, <1>5, <1>6, <1>9, <1>10, <1>11, <1>13 DEF IInv, FlagType

\* The line is the file's last, and in a serial log the newest of all.
LEMMA WriteLineStep == ASSUME IInv, NEW r \in Appends, WriteLine(r) PROVE IInv'
<1> DEFINE i == fd[r]
           a == turnOf[r]
           c == Append(content[i], a)
<1>1. /\ pc[r] = "write" /\ pc' = [pc EXCEPT ![r] = "count"] /\ "count" \in Places \ {"idle"}
      /\ content' = [content EXCEPT ![i] = c]
      /\ length' = [length EXCEPT ![i] = length[i] + size[r]]
      /\ Disturb /\ UNCHANGED logVars
      /\ UNCHANGED <<now, current, segs, overwritten, size, turnOf, stamp, fd, overlapped, unrotated>>
  BY DEF WriteLine, Places, histVars
<1>2. UNCHANGED <<turn, bytes, historySize>>
  BY <1>1 DEF logVars
<1>3. /\ AppendType' /\ TurnInv'
      /\ pc'[r] = "count" /\ \A q \in Appends \ {r} : pc'[q] = pc[q]
      /\ Recorded' = Recorded
      /\ r \in InProgress /\ InProgress' \subseteq InProgress
  BY <1>1, <1>2, MoveKeeps
<1>4. Written' = Written \cup {r} /\ r \in Started /\ r \notin Written
  BY <1>1, <1>3 DEF Written, Started
<1>5. i \in Inodes /\ a \in Turns /\ size[r] \in Nat
  <2>1. i \in Inodes
    BY <1>1 DEF IInv, FdType
  <2>2. a \in Turns \cup {0} /\ a \in 1 .. turn /\ turn \in Nat
    BY <1>4 DEF IInv, AppendType, TurnInv, NumType
  <2>3. size[r] \in Nat
    BY TranscriptConstants DEF IInv, AppendType
  <2> QED
    BY <2>1, <2>2, <2>3
<1>6. /\ Inodes = 1 .. Len(content) /\ Inodes = DOMAIN length /\ Len(content) \in Nat
      /\ \A j \in Inodes : content[j] \in Seq(Turns) /\ length[j] \in Nat
  BY InodesNumbered DEF IInv
<1> DEFINE L == Len(content[i])
<1>7. /\ c \in Seq(Turns) /\ DOMAIN c = 1 .. (L + 1) /\ L \in Nat /\ DOMAIN content[i] = 1 .. L
      /\ \A n \in 1 .. L : c[n] = content[i][n]
      /\ c[L + 1] = a
      /\ Range(c) = Lines(i) \cup {a}
  BY <1>5, <1>6, RangeAppend DEF Lines
<1> HIDE DEF i, a, c, L
<1>8. /\ FileType' /\ Inodes' = Inodes /\ content'[i] = c /\ length'[i] = length[i] + size[r]
      /\ \A j \in Inodes \ {i} : content'[j] = content[j] /\ length'[j] = length[j]
  <2> DEFINE F == Seq(Turns)
  <2>1. content \in Seq(F) /\ c \in F /\ i \in 1 .. Len(content)
    BY <1>5, <1>6, <1>7 DEF IInv, FileType
  <2> HIDE DEF F
  <2>2. /\ content' \in Seq(F) /\ Len(content') = Len(content)
        /\ \A j \in 1 .. Len(content) : content'[j] = IF j = i THEN c ELSE content[j]
    BY <1>1, <2>1, ExceptSeq
  <2>3. length \in Seq(Nat) /\ length[i] + size[r] \in Nat /\ i \in 1 .. Len(length)
    BY <1>5, <1>6, <2>1 DEF IInv, FileType
  <2>4. /\ length' \in Seq(Nat) /\ Len(length') = Len(length)
        /\ \A j \in 1 .. Len(length) : length'[j] = IF j = i THEN length[i] + size[r] ELSE length[j]
    BY <1>1, <2>3, ExceptSeq
  <2>5. FileType' /\ Inodes' = Inodes
    BY <1>6, <2>2, <2>4 DEF IInv, FileType, Inodes, F
  <2> QED
    BY <1>5, <1>6, <2>2, <2>4, <2>5 DEF IInv, FileType
<1>9. /\ Lines(i)' = Lines(i) \cup {a}
      /\ \A j \in Inodes \ {i} : Lines(j)' = Lines(j)
  <2>1. i' = i
    BY <1>1 DEF i
  <2> QED
    BY <1>7, <1>8, <2>1 DEF Lines
<1>10. NumType' /\ StampInv' /\ CountInv' /\ NameType' /\ FdType' /\ Segments' = Segments
  BY <1>1, <1>2, <1>3, <1>8
     DEF IInv, NumType, StampInv, CountInv, NameType, FdType, Segments
<1>11. NameInv'
  BY <1>1, <1>8, <1>10 DEF IInv, NameInv, Named
<1>12. \A j \in Inodes : a \notin Lines(j)
  BY <1>4, NotYetWritten DEF a
<1>13. LineInv'
  <2>1. ASSUME NEW j \in Inodes, NEW n \in DOMAIN content'[j]
        PROVE  \E q \in Written' : fd'[q] = j /\ turnOf'[q] = content'[j][n]
    <3>1. CASE j = i /\ n = L + 1
      BY <1>1, <1>4, <1>7, <1>8, <3>1 DEF i, a
    <3>2. CASE ~(j = i /\ n = L + 1)
      <4>1. n \in DOMAIN content[j] /\ content'[j][n] = content[j][n]
        <5>1. CASE j = i
          <6>1. n \in 1 .. L
            BY <1>7, <1>8, <2>1, <3>2, <5>1
          <6> QED
            BY <1>7, <1>8, <5>1, <6>1
        <5>2. CASE j # i
          BY <1>8, <2>1, <5>2
        <5> QED
          BY <5>1, <5>2
      <4>2. PICK q \in Written : fd[q] = j /\ turnOf[q] = content[j][n]
        BY <4>1 DEF IInv, LineInv
      <4> QED
        BY <1>1, <1>4, <4>1, <4>2
    <3> QED
      BY <3>1, <3>2
  <2>2. ASSUME NEW j \in Inodes, NEW m \in DOMAIN content'[j], NEW n \in DOMAIN content'[j],
               content'[j][m] = content'[j][n]
        PROVE  m = n
    <3>1. CASE j # i
      BY <1>8, <2>2, <3>1 DEF IInv, LineInv
    <3>2. CASE j = i
      <4>1. \A k \in 1 .. L : content[i][k] # a
        BY <1>5, <1>7, <1>12 DEF Lines, Range
      <4>2. m \in 1 .. (L + 1) /\ n \in 1 .. (L + 1) /\ c[m] = c[n]
        BY <1>7, <1>8, <2>2, <3>2
      <4>3. (m \in 1 .. L \/ m = L + 1) /\ (n \in 1 .. L \/ n = L + 1)
        BY <1>7, <4>2
      <4>4. \A k, l \in 1 .. L : content[i][k] = content[i][l] => k = l
        BY <1>5, <1>7 DEF IInv, LineInv
      <4> QED
        BY <1>7, <4>1, <4>2, <4>3, <4>4
    <3> QED
      BY <3>1, <3>2
  <2>3. ASSUME NEW q \in Written' PROVE turnOf'[q] \in Range(content'[fd'[q]])
    <3>1. CASE q = r
      BY <1>1, <1>7, <1>8, <3>1 DEF i, a
    <3>2. CASE q # r
      <4>1. q \in Written /\ fd[q] \in Inodes /\ turnOf[q] \in Lines(fd[q])
        BY <1>4, <3>2, NotYetWritten DEF IInv, LineInv
      <4>2. turnOf[q] \in Range(content'[fd[q]])
        BY <1>7, <1>8, <4>1 DEF Lines
      <4> QED
        BY <1>1, <4>2
    <3> QED
      BY <3>1, <3>2
  <2> QED
    BY <1>8, <2>1, <2>2, <2>3 DEF LineInv, Lines
<1>14. ReadType' /\ ReadInv' /\ QuietReadComplete' /\ disturbed' \in BOOLEAN
  <2>1. overwritten \subseteq Inodes /\ overwritten' = overwritten
    BY <1>1 DEF IInv, NameType
  <2>2. \A j \in Inodes : Range(content[j]) \subseteq Range(content'[j])
    BY <1>7, <1>8 DEF Lines
  <2>3. Lost \subseteq Lost'
    BY <2>1, <2>2 DEF Lost, Lines
  <2> QED
    BY <1>1, <1>10, <2>3, DisturbKeeps DEF NameType
<1>15. ASSUME ~overlapped PROVE SoleInv' /\ OrderInv' /\ LengthInv'
  <2>1. SoleInv /\ OrderInv /\ LengthInv
    BY <1>15 DEF IInv, SerialInv
  <2>2. \A q \in Appends : q # r => pc'[q] \notin {"rename", "reopen", "open", "write", "count"}
    BY <1>3, <2>1 DEF SoleInv, InProgress
  <2>3. i = current /\ current # None /\ a = turn
    <3>1. i # None
      BY <1>5, InodesNumbered DEF IInv
    <3> QED
      BY <1>1, <1>3, <2>1, <3>1 DEF SoleInv, i, a
  <2>4. SoleInv'
    BY <1>1, <1>2, <1>3, <1>10, <2>1, <2>2, <2>3 DEF SoleInv, i
  <2>5. \A j \in Inodes : \A b \in Lines(j) : b < a
    <3>1. ASSUME NEW j \in Inodes, NEW b \in Lines(j) PROVE b < a
      <4>1. b \in 1 .. turn /\ b # a /\ turn \in Nat
        BY <1>12, NotYetWritten DEF IInv, NumType
      <4> QED
        BY <2>3, <4>1
    <3> QED
      BY <3>1
  <2>6. OrderInv'
    <3>1. ASSUME NEW j \in Inodes, NEW m \in DOMAIN content'[j], NEW n \in DOMAIN content'[j], m < n
          PROVE  content'[j][m] < content'[j][n]
      <4>1. CASE j # i
        BY <1>8, <2>1, <3>1, <4>1 DEF OrderInv
      <4>2. CASE j = i
        <5>1. m \in 1 .. (L + 1) /\ n \in 1 .. (L + 1)
          BY <1>7, <1>8, <3>1, <4>2
        <5>2. m \in 1 .. L /\ (n \in 1 .. L \/ n = L + 1)
          BY <1>7, <3>1, <5>1
        <5>3. content[i][m] \in Lines(i)
          BY <1>5, <1>7, <5>2 DEF Lines, Range
        <5>4. n = L + 1 => c[m] < c[n]
          BY <1>5, <1>7, <2>5, <5>2, <5>3
        <5>5. n \in 1 .. L => c[m] < c[n]
          BY <1>5, <1>7, <2>1, <3>1, <5>2 DEF OrderInv
        <5> QED
          BY <1>8, <4>2, <5>2, <5>4, <5>5
      <4> QED
        BY <4>1, <4>2
    <3>2. \A t \in Segments : segs[t] \in Inodes \ {i}
      BY <2>3 DEF Segments, IInv, NameType, NameInv
    <3>3. \A t \in Segments : Lines(segs[t])' = Lines(segs[t])
      BY <1>1, <1>8, <3>2 DEF Lines
    <3>4. \A t, u \in Segments' : t < u => Before(segs[t], segs[u])'
      BY <1>10, <2>1, <3>3 DEF OrderInv, Before
    <3>5. Lines(current)' = Lines(current) \cup {a}
      BY <1>1, <1>7, <1>8, <2>3 DEF Lines
    <3>6. \A t \in Segments' : Before(segs[t], current)'
      <4>1. ASSUME NEW t \in Segments, NEW x \in Lines(segs[t]), NEW y \in Lines(current) \cup {a}
            PROVE  x < y
        BY <2>1, <2>3, <2>5, <3>2 DEF OrderInv, Before
      <4> QED
        BY <1>10, <3>3, <3>5, <4>1 DEF Before
    <3> QED
      BY <1>8, <3>1, <3>4, <3>6 DEF OrderInv
  <2>7. LengthInv'
    <3> SUFFICES ASSUME FitsInv PROVE FitsInv'
      BY <1>1, <2>1 DEF LengthInv
    <3>1. length[i] <= bytes /\ bytes + size[r] <= MaxBytes
      BY <1>1, <1>3, <2>2, <2>3 DEF FitsInv
    <3>2. /\ length[i] \in Nat /\ bytes \in Nat /\ size[r] \in Nat /\ MaxBytes \in Nat
      <4>1. i \in 1 .. Len(length)
        BY <1>5, InodesNumbered DEF IInv, FileType
      <4> QED
        BY <1>5, <4>1, TranscriptConstants DEF IInv, FileType, NumType
    <3>3. length'[i] <= bytes + size[r] /\ length'[i] <= MaxBytes
      BY <1>8, <3>1, <3>2
    <3>4. \A j \in Inodes : length'[j] <= MaxBytes
      BY <1>8, <3>3 DEF FitsInv
    <3>5. length'[current'] <= bytes' + size'[r]
      BY <1>1, <1>2, <1>8, <2>3, <3>3
    <3> QED
      BY <1>3, <1>8, <2>2, <3>4, <3>5 DEF FitsInv
  <2> QED
    BY <2>4, <2>6, <2>7
<1>16. SerialInv' /\ overlapped' \in BOOLEAN /\ unrotated' \in BOOLEAN
  BY <1>1, <1>15 DEF SerialInv, IInv, FlagType
<1> QED
  BY <1>3, <1>8, <1>10, <1>11, <1>13, <1>14, <1>16 DEF IInv, FlagType

\* A failed write, open or reopen: the append is over, and its number is in no
\* file.
LEMMA WriteFailsStep ==
  ASSUME IInv, NEW r \in Appends, WriteFails(r) \/ ReopenFails(r) PROVE IInv'
<1>1. /\ pc[r] \in {"reopen", "open", "write"} /\ pc' = [pc EXCEPT ![r] = "err"]
      /\ "err" \in Places \ {"idle"}
      /\ UNCHANGED logVars /\ UNCHANGED fileVars /\ UNCHANGED readVars
      /\ UNCHANGED <<now, size, turnOf, stamp, fd, overlapped, unrotated>>
  BY DEF WriteFails, ReopenFails, Places, histVars
<1>2. UNCHANGED <<turn, bytes, historySize, content, length, current, segs, overwritten>>
  BY <1>1 DEF logVars, fileVars
<1>3. /\ AppendType' /\ TurnInv'
      /\ pc'[r] = "err" /\ \A q \in Appends \ {r} : pc'[q] = pc[q]
      /\ Written' = Written /\ Recorded' = Recorded
      /\ r \in InProgress /\ InProgress' \subseteq InProgress
  BY <1>1, <1>2, MoveKeeps
<1>4. /\ FileType' /\ NameType' /\ ReadType' /\ disturbed' \in BOOLEAN
      /\ NameInv' /\ ReadInv' /\ QuietReadComplete' /\ Segments' = Segments
  BY <1>1, StillReads
<1>5. NumType' /\ StampInv' /\ CountInv'
  BY <1>1, <1>2, <1>3, <1>4 DEF IInv, NumType, StampInv, CountInv
<1>6. Inodes' = Inodes /\ FdType'
  BY <1>1, <1>2, <1>3 DEF IInv, FdType, Inodes
<1>7. LineInv'
  BY <1>1, <1>2, <1>3, <1>6, LinesStay
<1>8. ASSUME ~overlapped PROVE SoleInv' /\ OrderInv' /\ LengthInv'
  <2>1. SoleInv /\ OrderInv /\ LengthInv
    BY <1>8 DEF IInv, SerialInv
  <2>2. \A q \in Appends : pc'[q] \notin {"rename", "reopen", "open", "write", "count"}
    BY <1>3, <2>1 DEF SoleInv, InProgress
  <2>3. \A q \in Appends : pc[q] \notin {"rename", "count"}
    BY <1>1, <1>3, <2>1 DEF SoleInv, InProgress
  <2>4. SoleInv'
    BY <1>1, <1>2, <1>3, <2>1, <2>2, <2>3 DEF SoleInv
  <2>5. OrderInv'
    BY <1>2, <1>4, <1>6, <2>1 DEF OrderInv, Before, Lines
  <2>6. LengthInv'
    BY <1>1, <1>2, <1>6, <2>1, <2>2, <2>3 DEF LengthInv, FitsInv
  <2> QED
    BY <2>4, <2>5, <2>6
<1>9. SerialInv' /\ overlapped' \in BOOLEAN /\ unrotated' \in BOOLEAN
  BY <1>1, <1>8 DEF SerialInv, IInv, FlagType
<1> QED
  BY <1>3, <1>4, <1>5, <1>6, <1>7, <1>9 DEF IInv, FlagType

\* The entry is recorded: the history grows by it and the counter catches up
\* with the file.
LEMMA CountStep == ASSUME IInv, NEW r \in Appends, Count(r) PROVE IInv'
<1>1. /\ pc[r] = "count" /\ pc' = [pc EXCEPT ![r] = "ok"] /\ "ok" \in Places \ {"idle"}
      /\ bytes' = bytes + size[r] /\ historySize' = historySize + 1
      /\ UNCHANGED fileVars /\ UNCHANGED readVars
      /\ UNCHANGED <<now, turn, size, turnOf, stamp, fd, overlapped, unrotated>>
  BY DEF Count, Places, histVars
<1>2. UNCHANGED <<content, length, current, segs, overwritten>>
  BY <1>1 DEF fileVars
<1>3. /\ AppendType' /\ TurnInv'
      /\ pc'[r] = "ok" /\ \A q \in Appends \ {r} : pc'[q] = pc[q]
      /\ Written' = Written
      /\ r \in InProgress /\ InProgress' \subseteq InProgress
  BY <1>1, MoveKeeps
<1>4. /\ FileType' /\ NameType' /\ ReadType' /\ disturbed' \in BOOLEAN
      /\ NameInv' /\ ReadInv' /\ QuietReadComplete' /\ Segments' = Segments
  BY <1>1, StillReads
<1>5. size[r] \in Nat
  BY TranscriptConstants DEF IInv, AppendType
<1>6. NumType' /\ StampInv'
  BY <1>1, <1>4, <1>5 DEF IInv, NumType, StampInv
<1>7. CountInv'
  <2>1. Recorded' = Recorded \cup {turnOf[r]}
    <3>1. {a \in Appends : pc'[a] = "ok"} = {a \in Appends : pc[a] = "ok"} \cup {r}
      BY <1>3
    <3> QED
      BY <1>1, <3>1 DEF Recorded
  <2>2. turnOf[r] \notin Recorded
    BY <1>1 DEF Recorded, IInv, TurnInv, Started
  <2>3. IsFiniteSet(Recorded)
    BY NotYetWritten
  <2>4. Cardinality(Recorded') = Cardinality(Recorded) + 1
    BY <2>1, <2>2, <2>3, FS_AddElement
  <2> QED
    BY <1>1, <2>4 DEF IInv, CountInv
<1>8. Inodes' = Inodes /\ FdType'
  BY <1>1, <1>2, <1>3 DEF IInv, FdType, Inodes
<1>9. LineInv'
  BY <1>1, <1>2, <1>3, <1>8, LinesStay
<1>10. ASSUME ~overlapped PROVE SoleInv' /\ OrderInv' /\ LengthInv'
  <2>1. SoleInv /\ OrderInv /\ LengthInv
    BY <1>10 DEF IInv, SerialInv
  <2>2. \A q \in Appends : pc'[q] \notin {"rename", "reopen", "open", "write", "count"}
    BY <1>3, <2>1 DEF SoleInv, InProgress
  <2>3. \A q \in Appends : pc[q] \notin {"rename", "reopen", "open", "write"}
    BY <1>1, <1>3, <2>1 DEF SoleInv, InProgress
  <2>4. SoleInv'
    BY <1>1, <1>2, <1>3, <2>1, <2>2, <2>3 DEF SoleInv
  <2>5. OrderInv'
    BY <1>2, <1>4, <1>8, <2>1 DEF OrderInv, Before, Lines
  <2>6. LengthInv'
    <3> SUFFICES ASSUME FitsInv PROVE FitsInv'
      BY <1>1, <2>1 DEF LengthInv
    <3>1. length'[current'] <= bytes'
      BY <1>1, <1>2 DEF FitsInv
    <3> QED
      BY <1>2, <1>8, <2>2, <3>1 DEF FitsInv
  <2> QED
    BY <2>4, <2>5, <2>6
<1>11. SerialInv' /\ overlapped' \in BOOLEAN /\ unrotated' \in BOOLEAN
  BY <1>1, <1>10 DEF SerialInv, IInv, FlagType
<1> QED
  BY <1>3, <1>4, <1>6, <1>7, <1>8, <1>9, <1>11 DEF IInv, FlagType
-----------------------------------------------------------------------------
(* The steps of the reader, and the clock. *)

\* A step that leaves the log, the files and the appends alone.
LEMMA LogStays ==
  ASSUME IInv, UNCHANGED <<logVars, fileVars, reqVars, overlapped, unrotated>>
  PROVE  /\ FileType' /\ NameType' /\ AppendType' /\ FdType' /\ overlapped' \in BOOLEAN /\ unrotated' \in BOOLEAN
         /\ TurnInv' /\ LineInv' /\ NameInv' /\ CountInv' /\ SerialInv'
         /\ Segments' = Segments /\ \A i : Lines(i)' = Lines(i)
         /\ UNCHANGED <<turn, bytes, historySize, content, current, segs, overwritten, stamp>>
<1>1. UNCHANGED <<turn, bytes, historySize, content, length, current, segs, overwritten, pc, size,
                  turnOf, stamp, fd, overlapped, unrotated>>
  BY DEF logVars, fileVars, reqVars
<1>2. /\ Inodes' = Inodes /\ Started' = Started /\ Written' = Written /\ Recorded' = Recorded
      /\ InProgress' = InProgress
  BY <1>1 DEF Inodes, Started, Written, Recorded, InProgress
<1>3. Segments' = Segments /\ Named' = Named /\ \A i : Lines(i)' = Lines(i)
  BY <1>1 DEF Segments, Named, Lines
<1>4. FileType' /\ NameType' /\ AppendType' /\ FdType' /\ overlapped' \in BOOLEAN /\ unrotated' \in BOOLEAN
  BY <1>1, <1>2 DEF IInv, FileType, NameType, AppendType, FdType, FlagType
<1>5. TurnInv' /\ CountInv' /\ NameInv'
  BY <1>1, <1>2, <1>3 DEF IInv, TurnInv, CountInv, NameInv
<1>6. LineInv'
  BY <1>1, <1>2, LinesStay
<1>7. SerialInv'
  <2> SUFFICES ASSUME ~overlapped PROVE SoleInv' /\ OrderInv' /\ LengthInv'
    BY <1>1 DEF SerialInv
  <2>1. SoleInv /\ OrderInv /\ LengthInv
    BY DEF IInv, SerialInv
  <2>2. SoleInv'
    BY <1>1, <1>2, <1>3, <2>1 DEF SoleInv
  <2>3. OrderInv'
    BY <1>1, <1>2, <1>3, <2>1 DEF OrderInv, Before, Lines
  <2>4. LengthInv'
    BY <1>1, <1>2, <2>1 DEF LengthInv, FitsInv
  <2> QED
    BY <2>2, <2>3, <2>4
<1> QED
  BY <1>1, <1>3, <1>4, <1>5, <1>6, <1>7

LEMMA TickStep == ASSUME IInv, Tick PROVE IInv'
<1>1. /\ now < MaxTime /\ now' = now + 1 /\ UNCHANGED <<logVars, fileVars, reqVars, overlapped, unrotated>>
      /\ UNCHANGED fileVars /\ UNCHANGED readVars
  BY DEF Tick, histVars
<1>2. /\ FileType' /\ NameType' /\ AppendType' /\ FdType' /\ overlapped' \in BOOLEAN /\ unrotated' \in BOOLEAN
      /\ TurnInv' /\ LineInv' /\ NameInv' /\ CountInv' /\ SerialInv'
      /\ Segments' = Segments /\ UNCHANGED <<turn, bytes, historySize, stamp>>
  BY <1>1, LogStays
<1>3. ReadType' /\ disturbed' \in BOOLEAN /\ ReadInv' /\ QuietReadComplete'
  BY <1>1, StillReads
<1>4. now \in Nat /\ now' \in Time /\ \A t \in Time : t \in Nat
  BY <1>1, TranscriptConstants DEF IInv, NumType, Time
<1>5. NumType'
  BY <1>2, <1>4 DEF IInv, NumType
<1>6. StampInv'
  <2>1. \A t \in Segments : t \in Time
    BY DEF Segments
  <2>2. \A r \in Appends : stamp[r] \in Time
    BY DEF IInv, AppendType
  <2>3. \A t \in Time : t <= now => t <= now'
    BY <1>1, <1>4
  <2> QED
    BY <1>2, <2>1, <2>2, <2>3 DEF IInv, StampInv
<1> QED
  BY <1>2, <1>3, <1>5, <1>6 DEF IInv, FlagType

\* The reader lists: every recorded line is in one of the files to come.
LEMMA ReadListStep == ASSUME IInv, ReadList PROVE IInv'
<1>1. /\ rpc = "idle" /\ rpc' = "segments" /\ todo' = SortedStamps /\ due' = Recorded
      /\ UNCHANGED <<logVars, fileVars, reqVars, overlapped, unrotated>>
      /\ UNCHANGED <<now, got, disturbed>>
  BY DEF ReadList, histVars
<1>2. /\ FileType' /\ NameType' /\ AppendType' /\ FdType' /\ overlapped' \in BOOLEAN /\ unrotated' \in BOOLEAN
      /\ TurnInv' /\ LineInv' /\ NameInv' /\ CountInv' /\ SerialInv'
      /\ Segments' = Segments /\ \A i : Lines(i)' = Lines(i)
      /\ UNCHANGED <<turn, bytes, historySize, content, current, segs, overwritten, stamp>>
  BY <1>1, LogStays
<1>3. NumType' /\ StampInv'
  BY <1>1, <1>2 DEF IInv, NumType, StampInv
<1>4. SortedStamps \in Seq(Time) /\ Range(SortedStamps) = Segments
  <2>1. SortedStamps \in Seq(Segments) /\ Segments \subseteq Time /\ Range(SortedStamps) = Segments
    BY StampsSorted
  <2> HIDE DEF SortedStamps, Segments
  <2> QED
    BY <2>1
<1>5. ReadType' /\ FlagType'
  BY <1>1, <1>2, <1>4, NotYetWritten DEF IInv, ReadType, FlagType
<1>6. ASSUME NEW a \in Recorded PROVE a \in Ahead' \cup Lost'
  <2>1. PICK q \in Appends : pc[q] = "ok" /\ turnOf[q] = a
    BY <1>6 DEF Recorded
  <2>2. q \in Written /\ a \in Lines(fd[q]) /\ fd[q] \in Inodes
    BY <2>1, NotYetWritten DEF Written, IInv, LineInv
  <2>3. fd[q] \in Named \cup overwritten
    BY <2>2 DEF IInv, NameInv
  <2>4. CASE fd[q] \in overwritten
    BY <1>2, <2>2, <2>4 DEF Lost
  <2>5. CASE fd[q] = current /\ current # None
    <3>1. current \in ToRead'
      BY <1>2, <2>5 DEF ToRead
    <3> QED
      BY <1>2, <2>2, <2>5, <3>1 DEF Ahead
  <2>6. CASE \E t \in Segments : fd[q] = segs[t]
    <3>1. PICK t \in Segments : fd[q] = segs[t]
      BY <2>6
    <3>2. segs[t] \in ToRead'
      BY <1>1, <1>2, <1>4 DEF ToRead
    <3> QED
      BY <1>2, <2>2, <3>1, <3>2 DEF Ahead
  <2> QED
    BY <2>3, <2>4, <2>5, <2>6 DEF Named
<1>7. ReadInv'
  <2>1. \A t \in Range(todo') : segs'[t] # None
    BY <1>1, <1>2, <1>4 DEF Segments
  <2> QED
    BY <1>1, <1>6, <2>1 DEF ReadInv
<1>8. QuietReadComplete'
  BY <1>1 DEF QuietReadComplete
<1> QED
  BY <1>2, <1>3, <1>5, <1>7, <1>8 DEF IInv

\* A reader that cannot list the directory counts as disturbed.
LEMMA ListFailsStep == ASSUME IInv, ListFails PROVE IInv'
<1>1. /\ rpc = "idle" /\ rpc' = "segments" /\ due' = Recorded /\ disturbed' = TRUE
      /\ UNCHANGED <<logVars, fileVars, reqVars, overlapped, unrotated>>
      /\ UNCHANGED <<now, todo, got>>
  BY DEF ListFails, histVars
<1>2. /\ FileType' /\ NameType' /\ AppendType' /\ FdType' /\ overlapped' \in BOOLEAN /\ unrotated' \in BOOLEAN
      /\ TurnInv' /\ LineInv' /\ NameInv' /\ CountInv' /\ SerialInv'
      /\ Segments' = Segments /\ \A i : Lines(i)' = Lines(i)
      /\ UNCHANGED <<turn, bytes, historySize, content, current, segs, overwritten, stamp>>
  BY <1>1, LogStays
<1>3. NumType' /\ StampInv'
  BY <1>1, <1>2 DEF IInv, NumType, StampInv
<1>4. ReadType' /\ FlagType'
  BY <1>1, <1>2, NotYetWritten DEF IInv, ReadType, FlagType
<1>5. ReadInv' /\ QuietReadComplete'
  BY <1>1, <1>2 DEF IInv, ReadInv, QuietReadComplete
<1> QED
  BY <1>2, <1>3, <1>4, <1>5 DEF IInv

\* A segment is read: its lines are behind the reader now.
LEMMA ReadSegmentStep == ASSUME IInv, ReadSegment PROVE IInv'
<1> DEFINE h == Head(todo)
           c == content[segs[h]]
<1>1. /\ rpc = "segments" /\ todo # <<>> /\ got' = got \o c /\ todo' = Tail(todo)
      /\ UNCHANGED <<logVars, fileVars, reqVars, overlapped, unrotated>>
      /\ UNCHANGED <<now, rpc, due, disturbed>>
  BY DEF ReadSegment, histVars
<1>2. /\ FileType' /\ NameType' /\ AppendType' /\ FdType' /\ overlapped' \in BOOLEAN /\ unrotated' \in BOOLEAN
      /\ TurnInv' /\ LineInv' /\ NameInv' /\ CountInv' /\ SerialInv'
      /\ Segments' = Segments /\ \A i : Lines(i)' = Lines(i)
      /\ UNCHANGED <<turn, bytes, historySize, content, current, segs, overwritten, stamp>>
  BY <1>1, LogStays
<1>3. NumType' /\ StampInv'
  BY <1>1, <1>2 DEF IInv, NumType, StampInv
<1>4. /\ h \in Time /\ todo' \in Seq(Time) /\ h \in Range(todo)
      /\ Range(todo) = Range(todo') \cup {h}
  BY <1>1, RangeHeadTail DEF IInv, ReadType
<1>5. segs[h] \in Inodes /\ c \in Seq(Turns) /\ Range(c) = Lines(segs[h])
  <2>1. segs[h] \in Inodes
    BY <1>4 DEF IInv, ReadInv, NameType
  <2> QED
    BY <2>1, InodesNumbered DEF IInv, Lines
<1> HIDE DEF h, c
<1>6. got' \in Seq(Turns) /\ Range(got) \cup Lines(segs[h]) \subseteq Range(got')
  BY <1>1, <1>5, RangeConcat DEF IInv, ReadType
<1>7. ReadType' /\ FlagType'
  BY <1>1, <1>2, <1>4, <1>6 DEF IInv, ReadType, FlagType
<1>8. Lost' = Lost /\ Ahead \subseteq Ahead' \cup Lines(segs[h])
  <2>1. ToRead = ToRead' \cup {segs[h]}
    BY <1>2, <1>4 DEF ToRead
  <2> QED
    BY <1>2, <2>1 DEF Lost, Ahead
<1>9. ReadInv'
  <2>1. \A t \in Range(todo') : segs'[t] # None
    BY <1>2, <1>4 DEF IInv, ReadInv
  <2>2. rpc' = "segments" /\ ~disturbed' => due' \subseteq Range(got') \cup Ahead' \cup Lost'
    BY <1>1, <1>6, <1>8 DEF IInv, ReadInv
  <2> QED
    BY <2>1, <2>2 DEF ReadInv
<1>10. QuietReadComplete'
  BY <1>1 DEF QuietReadComplete
<1> QED
  BY <1>2, <1>3, <1>7, <1>9, <1>10 DEF IInv

\* The current file is read last; then nothing is ahead.
LEMMA ReadCurrentStep == ASSUME IInv, ReadCurrent PROVE IInv'
<1>1. /\ rpc = "segments" /\ todo = <<>>
      /\ UNCHANGED <<logVars, fileVars, reqVars, overlapped, unrotated>>
      /\ UNCHANGED <<now, todo, due, disturbed>>
  BY DEF ReadCurrent, histVars
<1>2. /\ current = None => rpc' = "err" /\ got' = got
      /\ current # None => rpc' = "done" /\ got' = got \o content[current]
  BY DEF ReadCurrent, histVars
<1>3. /\ FileType' /\ NameType' /\ AppendType' /\ FdType' /\ overlapped' \in BOOLEAN /\ unrotated' \in BOOLEAN
      /\ TurnInv' /\ LineInv' /\ NameInv' /\ CountInv' /\ SerialInv'
      /\ Segments' = Segments /\ \A i : Lines(i)' = Lines(i)
      /\ UNCHANGED <<turn, bytes, historySize, content, current, segs, overwritten, stamp>>
  BY <1>1, LogStays
<1>4. NumType' /\ StampInv'
  BY <1>1, <1>3 DEF IInv, NumType, StampInv
<1>5. Range(todo) = {}
  BY <1>1 DEF Range
<1>6. CASE current = None
  <2>1. ReadType' /\ FlagType' /\ QuietReadComplete' /\ ReadInv'
    BY <1>1, <1>2, <1>3, <1>5, <1>6
       DEF IInv, ReadType, FlagType, QuietReadComplete, ReadInv
  <2> QED
    BY <1>3, <1>4, <2>1 DEF IInv
<1>7. CASE current # None
  <2>1. current \in Inodes /\ content[current] \in Seq(Turns)
    BY <1>7, InodesNumbered DEF IInv, NameType
  <2>2. got' \in Seq(Turns) /\ Range(got) \cup Lines(current) \subseteq Range(got')
    BY <1>2, <1>7, <2>1, RangeConcat DEF IInv, ReadType, Lines
  <2>3. ReadType' /\ FlagType' /\ ReadInv'
    BY <1>1, <1>2, <1>3, <1>5, <1>7, <2>2 DEF IInv, ReadType, FlagType, ReadInv
  <2>4. Ahead \subseteq Lines(current)
    <3>1. ToRead = {current}
      BY <1>5, <1>7 DEF ToRead
    <3> QED
      BY <3>1 DEF Ahead
  <2>5. ~disturbed => due \subseteq Range(got') \cup Lost
    BY <1>1, <2>2, <2>4 DEF IInv, ReadInv
  <2>6. QuietReadComplete'
    BY <1>1, <1>3, <2>5 DEF QuietReadComplete, Lost
  <2> QED
    BY <1>3, <1>4, <2>3, <2>6 DEF IInv
<1> QED
  BY <1>6, <1>7
-----------------------------------------------------------------------------
(* The theorems. *)

LEMMA NextIInv == IInv /\ [Next]_vars => IInv'
<1> SUFFICES ASSUME IInv, [Next]_vars PROVE IInv'
  OBVIOUS
<1>1. CASE Tick
  BY <1>1, TickStep
<1>2. CASE ReadStep
  BY <1>2, ReadListStep, ListFailsStep, ReadSegmentStep, ReadCurrentStep DEF ReadStep
<1>3. ASSUME NEW r \in Appends, AppendStep(r) PROVE IInv'
  BY <1>3, AppendStartStep, RenameStep, RenameFailsStep, ReopenStep, OpenFileStep, WriteLineStep, WriteFailsStep,
     CountStep DEF AppendStep
<1>4. CASE UNCHANGED vars
  <2>1. /\ UNCHANGED <<logVars, fileVars, reqVars, overlapped, unrotated>> /\ now' = now
        /\ UNCHANGED fileVars /\ UNCHANGED readVars
    BY <1>4 DEF vars, histVars
  <2>2. /\ FileType' /\ NameType' /\ AppendType' /\ FdType' /\ overlapped' \in BOOLEAN /\ unrotated' \in BOOLEAN
        /\ TurnInv' /\ LineInv' /\ NameInv' /\ CountInv' /\ SerialInv'
        /\ Segments' = Segments /\ UNCHANGED <<turn, bytes, historySize, stamp>>
    BY <2>1, LogStays
  <2>3. ReadType' /\ disturbed' \in BOOLEAN /\ ReadInv' /\ QuietReadComplete'
    BY <2>1, StillReads
  <2>4. NumType' /\ StampInv'
    BY <2>1, <2>2 DEF IInv, NumType, StampInv
  <2> QED
    BY <2>2, <2>3, <2>4 DEF IInv, FlagType
<1> QED
  BY <1>1, <1>2, <1>3, <1>4 DEF Next

\* The inductive invariant holds of appendTranscript, rotateTranscript and
\* readFullTranscript together.
THEOREM Invariance == Spec => []IInv
<1>1. Init => IInv
  BY InitIInv
<1>2. IInv /\ [Next]_vars => IInv'
  BY NextIInv
<1> QED
  BY <1>1, <1>2, PTL DEF Spec

\* Every variable has its type; an append that writes has a file open, and a
\* turn number in a file is one that nextTurn() handed out.
THEOREM TypeCorrect == Spec => []TypeOK
<1>1. IInv => TypeOK
  BY DEF IInv, NumType, FileType, NameType, AppendType, FdType, ReadType, FlagType, Places, Inodes,
         TypeOK
<1> QED
  BY <1>1, Invariance, PTL

\* Where the line of a written entry is, and that it is nowhere else.
LEMMA OneHome ==
  ASSUME IInv, NEW q \in Written
  PROVE  /\ {j \in DOMAIN content : turnOf[q] \in Lines(j)} = {fd[q]}
         /\ Cardinality({n \in DOMAIN content[fd[q]] : content[fd[q]][n] = turnOf[q]}) = 1
         /\ fd[q] \in Named \cup overwritten
<1> DEFINE i == fd[q]
           a == turnOf[q]
           At == {n \in DOMAIN content[i] : content[i][n] = a}
<1>1. i \in Inodes /\ a \in Lines(i) /\ q \in Started
  BY NotYetWritten DEF IInv, LineInv
<1>2. ASSUME NEW j \in Inodes, a \in Lines(j) PROVE j = i
  <2>1. PICK n \in DOMAIN content[j] : a = content[j][n]
    BY <1>2 DEF Lines, Range
  <2>2. PICK r \in Written : fd[r] = j /\ turnOf[r] = a
    BY <2>1 DEF IInv, LineInv
  <2>3. r = q
    BY <1>1, <2>2, NotYetWritten DEF IInv, TurnInv
  <2> QED
    BY <2>2, <2>3
<1>3. {j \in DOMAIN content : a \in Lines(j)} = {i}
  BY <1>1, <1>2 DEF Inodes
<1>4. PICK k \in DOMAIN content[i] : a = content[i][k]
  BY <1>1 DEF Lines, Range
<1>5. At = {k}
  BY <1>1, <1>4 DEF IInv, LineInv
<1>6. Cardinality(At) = 1
  BY <1>5, FS_Singleton
<1>7. i \in Named \cup overwritten
  BY <1>1 DEF IInv, NameInv
<1> QED
  BY <1>3, <1>6, <1>7

\* Whatever appendTranscript calls and rotations interleave, every recorded
\* entry is in exactly one file, once, and that file has a name unless a
\* rotation of the same millisecond took it; historySize counts the recorded
\* entries, and at rest the named files hold no others.
THEOREM EntriesAreKept == Spec => []EntriesKept
<1>1. IInv => EntriesKept
  <2> SUFFICES ASSUME IInv PROVE EntriesKept
    OBVIOUS
  <2>1. ASSUME NEW t \in Recorded
        PROVE  \E i \in {j \in DOMAIN content : t \in Lines(j)} :
                 /\ {j \in DOMAIN content : t \in Lines(j)} = {i}
                 /\ Cardinality({n \in DOMAIN content[i] : content[i][n] = t}) = 1
                 /\ i \in Named \cup overwritten
    <3>1. PICK q \in Appends : pc[q] = "ok" /\ turnOf[q] = t
      BY <2>1 DEF Recorded
    <3>2. q \in Written
      BY <3>1 DEF Written
    <3>3. /\ {j \in DOMAIN content : t \in Lines(j)} = {fd[q]}
          /\ Cardinality({n \in DOMAIN content[fd[q]] : content[fd[q]][n] = t}) = 1
          /\ fd[q] \in Named \cup overwritten
      BY <3>1, <3>2, OneHome
    <3> QED
      BY <3>3
  <2>2. historySize = Cardinality(Recorded)
    BY DEF IInv, CountInv
  <2>3. ASSUME InProgress = {}, NEW i \in Named, NEW a \in Lines(i) PROVE a \in Recorded
    <3>1. i \in Inodes
      BY <2>3 DEF Named, Segments, IInv, NameType
    <3>2. PICK n \in DOMAIN content[i] : a = content[i][n]
      BY <2>3 DEF Lines, Range
    <3>3. PICK q \in Written : turnOf[q] = a
      BY <3>1, <3>2 DEF IInv, LineInv
    <3>4. q \in Appends /\ pc[q] = "ok"
      BY <2>3, <3>3 DEF Written, InProgress
    <3> QED
      BY <3>3, <3>4 DEF Recorded
  <2> QED
    BY <2>1, <2>2, <2>3 DEF EntriesKept
<1> QED
  BY <1>1, Invariance, PTL

\* The files of the log: the segments by age, then the current one.
LEMMA LogFilesInOrder ==
  ASSUME IInv
  PROVE  LET N == Cardinality(Segments)
             M == IF current = None THEN N ELSE N + 1
         IN /\ N \in Nat /\ DOMAIN LogFiles = 1 .. M
            /\ \A k \in 1 .. N : SortedStamps[k] \in Segments /\ LogFiles[k] = segs[SortedStamps[k]]
            /\ current # None => LogFiles[N + 1] = current
<1> DEFINE N == Cardinality(Segments)
           f == [k \in DOMAIN SortedStamps |-> segs[SortedStamps[k]]]
           g == IF current = None THEN <<>> ELSE <<current>>
           I == Inodes \cup {None}
<1>1. N \in Nat /\ DOMAIN SortedStamps = 1 .. N /\ SortedStamps \in Seq(Segments)
  BY StampsSorted
<1>2. LogFiles = f \o g
  BY DEF LogFiles
<1>3. \A k \in 1 .. N : SortedStamps[k] \in Segments
  <2> HIDE DEF Segments, SortedStamps
  <2> QED
    BY <1>1
<1>4. \A k \in 1 .. N : f[k] = segs[SortedStamps[k]] /\ f[k] \in I
  BY <1>1, <1>3 DEF IInv, NameType, Segments
<1>5. DOMAIN f = 1 .. N
  BY <1>1
<1>6. f \in Seq(I) /\ Len(f) = N
  <2>1. f \in [1 .. N -> I]
    BY <1>1, <1>4
  <2> HIDE DEF f, N, I
  <2> QED
    BY <1>1, <2>1
<1>7. /\ g \in Seq(I) /\ Len(g) = IF current = None THEN 0 ELSE 1
      /\ current # None => g[1] = current
  <2>1. current \in I
    BY DEF IInv, NameType
  <2> HIDE DEF I
  <2> QED
    BY <2>1
<1> HIDE DEF f, g, I, N
<1>8. /\ f \o g \in Seq(I) /\ Len(f \o g) = N + Len(g)
      /\ \A k \in 1 .. (N + Len(g)) : (f \o g)[k] = IF k <= N THEN f[k] ELSE g[k - N]
  BY <1>6, <1>7, ConcatProperties
<1>9. DOMAIN LogFiles = 1 .. (IF current = None THEN N ELSE N + 1)
  BY <1>1, <1>2, <1>7, <1>8
<1>10. \A k \in 1 .. N : LogFiles[k] = segs[SortedStamps[k]]
  BY <1>1, <1>2, <1>4, <1>7, <1>8
<1>11. current # None => LogFiles[N + 1] = current
  BY <1>1, <1>2, <1>7, <1>8
<1> QED
  BY <1>1, <1>3, <1>9, <1>10, <1>11 DEF N

\* As long as no two appends of a session overlap, readFullTranscript meets
\* the entries in turn order, whatever rotations there were and whichever of
\* their file operations failed, and no file outgrows
\* policy.max_transcript_bytes unless a rotation could not rename it.
THEOREM SerialLogIsSound == Spec => []SerialLogSound
<1>1. IInv => SerialLogSound
  <2> SUFFICES ASSUME IInv, ~overlapped
               PROVE  /\ \A i \in DOMAIN content : \A m, n \in DOMAIN content[i] :
                           m < n => content[i][m] < content[i][n]
                      /\ \A j, k \in DOMAIN LogFiles : j < k =>
                           \A a \in Lines(LogFiles[j]), b \in Lines(LogFiles[k]) : a < b
                      /\ ~unrotated => \A i \in DOMAIN content : length[i] <= MaxBytes
    BY DEF SerialLogSound
  <2>1. OrderInv /\ LengthInv
    BY DEF IInv, SerialInv
  <2>2. /\ \A i \in DOMAIN content : \A m, n \in DOMAIN content[i] :
             m < n => content[i][m] < content[i][n]
        /\ ~unrotated => \A i \in DOMAIN content : length[i] <= MaxBytes
    BY <2>1 DEF OrderInv, LengthInv, FitsInv, Inodes
  <2> DEFINE N == Cardinality(Segments)
  <2>3. /\ N \in Nat /\ DOMAIN LogFiles = 1 .. (IF current = None THEN N ELSE N + 1)
        /\ \A k \in 1 .. N : SortedStamps[k] \in Segments /\ LogFiles[k] = segs[SortedStamps[k]]
        /\ current # None => LogFiles[N + 1] = current
    BY LogFilesInOrder
  <2>4. \A j, k \in 1 .. N : j < k => SortedStamps[j] < SortedStamps[k]
    BY StampsSorted
  <2> HIDE DEF N
  <2>5. ASSUME NEW j \in DOMAIN LogFiles, NEW k \in DOMAIN LogFiles, j < k
        PROVE  Before(LogFiles[j], LogFiles[k])
    <3>1. j \in 1 .. N /\ (k \in 1 .. N \/ (k = N + 1 /\ current # None))
      BY <2>3, <2>5
    <3>2. CASE k \in 1 .. N
      <4>1. SortedStamps[j] < SortedStamps[k]
        BY <2>4, <2>5, <3>1, <3>2
      <4>2. Before(segs[SortedStamps[j]], segs[SortedStamps[k]])
        BY <2>1, <2>3, <3>1, <3>2, <4>1 DEF OrderInv
      <4> QED
        BY <2>3, <3>1, <3>2, <4>2
    <3>3. CASE k = N + 1 /\ current # None
      <4>1. Before(segs[SortedStamps[j]], current)
        BY <2>1, <2>3, <3>1, <3>3 DEF OrderInv
      <4> QED
        BY <2>3, <3>1, <3>3, <4>1
    <3> QED
      BY <3>1, <3>2, <3>3
  <2> QED
    BY <2>2, <2>5 DEF Before
<1> QED
  BY <1>1, Invariance, PTL

\* A readFullTranscript that could list the segments, and during which no file
\* changed, yields every entry that was recorded then, but for those of a
\* segment whose name a rotation took over.
THEOREM QuietReadIsComplete == Spec => []QuietReadComplete
<1>1. IInv => QuietReadComplete
  BY DEF IInv
<1> QED
  BY <1>1, Invariance, PTL
=============================================================================
