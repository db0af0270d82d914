------------------------ MODULE BoundedRuntimeProofs ------------------------
(***************************************************************************)
(* The bounded runtime for any number of turns, items, workers, crashes    *)
(* and failing reads and writes: what a foreach promises of its            *)
(* iterations, and what the unawaited save promises of the file.           *)
(***************************************************************************)
EXTENDS BoundedRuntime, TLAPS, FiniteSetTheorems

Vals == {None} \cup {<<t>> : t \in Turns} \cup (Turns \X Items)
States == [kind : {"state", "absent"}, bindings : [Names -> Vals], transcript : SUBSET Turns]
Kicks == [st : {"none", "write", "rename"}, snap : States, pending : BOOLEAN]

StateType == rt \in States /\ file \in States /\ kick \in Kicks

TurnType ==
  /\ hydrations \subseteq Turns
  /\ pc \in [Turns -> {"new", "hydrate", "ready", "loop", "assign", "done", "gone"}]
  /\ prog \in [Turns -> [loop : BOOLEAN, continue : BOOLEAN, shared : BOOLEAN]]

LoopType ==
  /\ nxt \in [Turns -> 1..(N + 1)] /\ firstError \in [Turns -> 0..N]
  /\ it \in [Turns -> [Items -> {"new", "call", "save", "ok", "err"}]]
  /\ frame \in [Turns -> [Items -> 0..N]]

CountType == crashes \in 0..MaxCrashes /\ faults \in 0..MaxFaults

FlagType == readFailed \in BOOLEAN /\ writeFailed \in BOOLEAN

\* While there is no runtime nobody has one, and nobody saves it; once there is
\* one, nobody waits for another.
HydrateInv ==
  /\ hydrations = {t \in Turns : pc[t] = "hydrate"}
  /\ rt = Absent => kick.st = "none" /\ \A t \in Turns : pc[t] \in {"new", "hydrate", "gone"}
  /\ rt # Absent => rt.kind = "state" /\ hydrations = {}
  /\ file = Absent \/ file.kind = "state"
  /\ kick.st # "none" => kick.snap.kind = "state"

\* The list of a foreach is pulled from the front: what lies behind nxt has not
\* begun, what lies before it has.  The error that aborted the block is of an
\* iteration of its own that failed.
LoopOf(t) ==
  /\ pc[t] \notin {"loop", "done"} => prog[t] = NoProg /\ firstError[t] = 0
  /\ ~prog[t].loop => firstError[t] = 0 /\ \A i \in Items : it[t][i] = "new"
  /\ pc[t] = "loop" => prog[t].loop
  /\ prog[t].loop => \A i \in Items : i < nxt[t] => it[t][i] # "new"
  /\ firstError[t] # 0 => ~prog[t].continue /\ it[t][firstError[t]] = "err"

LoopInv == \A t \in Turns : LoopOf(t)

\* A running iteration sees its own item.
FrameInv ==
  \A t \in Turns : \A i \in Items : it[t][i] \in {"call", "save"} => frame[t][i] = i

\* A turn is recorded, in memory or in a file, when it is over.
RecordedInv ==
  \A t \in rt.transcript \cup file.transcript \cup kick.snap.transcript : pc[t] \in {"done", "gone"}

\* What is on its way to the disk is not ahead of the memory, and not behind
\* the disk.
KeptInv ==
  /\ kick.st # "none" => kick.snap.transcript \subseteq rt.transcript
  /\ ~readFailed =>
       /\ rt # Absent => file.transcript \subseteq rt.transcript
       /\ kick.st # "none" => file.transcript \subseteq kick.snap.transcript

\* Between blocks, memory is on the disk, or the writer holds it, or the writer
\* will look again.
AtRest ==
  /\ rt # Absent
  /\ rt.transcript \cap {t \in Turns : pc[t] = "done"} # {}
  /\ \A t \in Turns : pc[t] \notin {"loop", "assign"}
SaveInv ==
  AtRest => /\ kick.st = "none" /\ ~writeFailed => file = rt
            /\ kick.st # "none" /\ ~kick.pending => kick.snap = rt

IInv ==
  /\ StateType /\ TurnType /\ LoopType /\ CountType /\ FlagType
  /\ HydrateInv /\ LoopInv /\ FrameInv /\ RecordedInv /\ KeptInv /\ SaveInv
  /\ SavedIsOwn /\ BlockIsOver

DiskInv == HydrateInv /\ RecordedInv /\ KeptInv /\ SaveInv
-----------------------------------------------------------------------------
(* Values. *)

LEMMA Constants ==
  /\ N \in Nat /\ Names = 0..(N + 1) /\ Shared \in Names /\ V \in Names /\ Items \subseteq Names
  /\ V \notin Items /\ V # Shared /\ Shared \notin Items
BY BoundedAssumption DEF BoundedAssumption, Names, Shared, V, Items

LEMMA StateValues ==
  /\ Fresh \in States /\ Absent \in States /\ Fresh # Absent
  /\ Fresh.kind = "state" /\ Fresh.transcript = {} /\ Absent.kind = "absent" /\ Absent.transcript = {}
BY DEF Fresh, Absent, Empty, States, Vals

LEMMA KickValues ==
  NoKick \in Kicks /\ NoKick.st = "none" /\ NoKick.snap = Absent /\ ~NoKick.pending
BY StateValues DEF NoKick, Kicks

LEMMA PairNotNone == \A a, b : <<a, b>> # None
BY DEF None

\* What the writer does when a write is over.
LEMMA AgainKick ==
  ASSUME StateType
  PROVE  /\ Again \in Kicks /\ ~Again.pending
         /\ kick.pending => Again.st = "write" /\ Again.snap = rt
         /\ ~kick.pending => Again = NoKick
BY KickValues DEF StateType, Again, Kicks
-----------------------------------------------------------------------------
(* The save. *)

\* A turn is recorded and its save scheduled.
LEMMA RecordDisk ==
  ASSUME StateType, TurnType, DiskInv, NEW t \in Turns, pc[t] \in {"ready", "loop", "assign"},
         NEW bindings \in [Names -> Vals], Record(t, bindings),
         UNCHANGED <<hydrations, file, readFailed, writeFailed>>
  PROVE  StateType' /\ DiskInv'
<1> DEFINE r == [kind |-> "state", bindings |-> bindings, transcript |-> rt.transcript \cup {t}]
           k == [st |-> "write", snap |-> r, pending |-> FALSE]
           j == [kick EXCEPT !.pending = TRUE]
<1>1. rt' = r /\ kick' = (IF kick.st = "none" THEN k ELSE j) /\ pc' = [pc EXCEPT ![t] = "done"]
  BY DEF Record, SchedulePersist
<1>2. r \in States /\ r.kind = "state" /\ r.transcript = rt.transcript \cup {t}
  BY DEF States, StateType
<1>3. r # Absent
  BY <1>2, StateValues
<1> HIDE DEF r
<1>4. k \in Kicks /\ k.st = "write" /\ k.snap = r /\ ~k.pending
  BY <1>2 DEF Kicks
<1>5. j \in Kicks /\ j.st = kick.st /\ j.snap = kick.snap /\ j.pending
  BY DEF Kicks, StateType
<1> HIDE DEF k, j
<1>6. StateType'
  BY <1>1, <1>2, <1>4, <1>5 DEF StateType
<1>7. rt # Absent /\ rt.kind = "state" /\ hydrations = {}
  BY DEF DiskInv, HydrateInv
<1>8. \A u \in Turns : pc'[u] = IF u = t THEN "done" ELSE pc[u]
  BY <1>1 DEF TurnType
<1>9. HydrateInv'
  <2>1. hydrations' = {u \in Turns : pc'[u] = "hydrate"}
    BY <1>7, <1>8 DEF DiskInv, HydrateInv
  <2>2. kick'.st # "none" => kick'.snap.kind = "state"
    BY <1>1, <1>2, <1>4, <1>5 DEF DiskInv, HydrateInv
  <2> QED
    BY <2>1, <2>2, <1>1, <1>2, <1>3, <1>7 DEF DiskInv, HydrateInv
<1>10. RecordedInv'
  <2>1. rt'.transcript = rt.transcript \cup {t} /\ rt.transcript \subseteq Turns /\ file.transcript \subseteq Turns
        /\ kick.snap.transcript \subseteq Turns
    BY <1>1, <1>2 DEF StateType, States, Kicks
  <2>2. kick'.snap.transcript \subseteq rt.transcript \cup {t} \cup kick.snap.transcript
    BY <1>1, <1>2, <1>4, <1>5
  <2> QED
    BY <2>1, <2>2, <1>8 DEF DiskInv, RecordedInv
<1>11. KeptInv'
  BY <1>1, <1>2, <1>3, <1>4, <1>5, <1>7 DEF DiskInv, KeptInv
<1>12. SaveInv'
  BY <1>1, <1>4, <1>5 DEF SaveInv
<1> QED
  BY <1>6, <1>9, <1>10, <1>11, <1>12 DEF DiskInv

\* Turns move, and nothing else does.
LEMMA MoveDisk ==
  ASSUME StateType, TurnType, DiskInv, NEW t \in Turns, NEW step,
         \/ pc[t] = "ready" /\ step \in {"loop", "assign", "done"}
         \/ pc[t] = "new" /\ rt # Absent /\ step = "ready",
         pc' = [pc EXCEPT ![t] = step],
         UNCHANGED <<rt, hydrations, kick, file, readFailed, writeFailed>>
  PROVE  StateType' /\ DiskInv'
<1>1. \A u \in Turns : pc'[u] = IF u = t THEN step ELSE pc[u]
  BY DEF TurnType
<1>2. t \notin rt.transcript \cup file.transcript \cup kick.snap.transcript
  BY DEF DiskInv, RecordedInv
<1>3. rt # Absent
  BY DEF DiskInv, HydrateInv
<1>4. HydrateInv'
  BY <1>1, <1>3 DEF DiskInv, HydrateInv
<1>5. RecordedInv'
  <2>1. rt.transcript \cup file.transcript \cup kick.snap.transcript \subseteq Turns
    BY DEF StateType, States, Kicks
  <2> QED
    BY <2>1, <1>1, <1>2 DEF DiskInv, RecordedInv
<1>6. AtRest' => AtRest
  BY <1>1, <1>2 DEF AtRest
<1>7. KeptInv' /\ SaveInv'
  BY <1>6 DEF DiskInv, KeptInv, SaveInv
<1> QED
  BY <1>4, <1>5, <1>7 DEF DiskInv, StateType

\* Iterations go on, and nothing else does.
LEMMA IterateDisk ==
  ASSUME StateType, DiskInv, UNCHANGED <<rt, hydrations, pc, kick, file, readFailed, writeFailed>>
  PROVE  StateType' /\ DiskInv'
BY DEF StateType, DiskInv, HydrateInv, RecordedInv, KeptInv, SaveInv, AtRest

\* A turn inside its block binds a name.
LEMMA BindDisk ==
  ASSUME StateType, TurnType, DiskInv, NEW t \in Turns, pc[t] = "loop",
         NEW n \in Names, NEW v \in Vals, rt' = [rt EXCEPT !.bindings[n] = v],
         UNCHANGED <<hydrations, pc, kick, file, readFailed, writeFailed>>
  PROVE  StateType' /\ DiskInv' /\ rt'.bindings = [rt.bindings EXCEPT ![n] = v]
<1>1. rt' \in States /\ rt'.kind = rt.kind /\ rt'.transcript = rt.transcript
      /\ rt'.bindings = [rt.bindings EXCEPT ![n] = v]
  BY DEF StateType, States
<1>2. rt # Absent /\ rt' # Absent /\ rt.kind = "state"
  BY <1>1, StateValues DEF DiskInv, HydrateInv
<1>3. HydrateInv' /\ RecordedInv' /\ KeptInv'
  BY <1>1, <1>2 DEF DiskInv, HydrateInv, RecordedInv, KeptInv
<1>4. SaveInv'
  BY DEF SaveInv, AtRest
<1> QED
  BY <1>1, <1>3, <1>4 DEF DiskInv, StateType

\* A write ends, well or not.
LEMMA WriteDisk ==
  ASSUME StateType, TurnType, DiskInv, kick.st # "none", kick' = Again,
         \/ file' = kick.snap /\ writeFailed' = FALSE
         \/ file' = file /\ writeFailed' = TRUE,
         UNCHANGED <<rt, hydrations, pc, readFailed>>
  PROVE  StateType' /\ DiskInv'
<1>1. StateType'
  BY AgainKick DEF StateType, Kicks
<1>2. rt # Absent /\ rt.kind = "state" /\ kick.snap.kind = "state"
  BY DEF DiskInv, HydrateInv
<1>3. kick'.st # "none" => kick.pending /\ kick'.snap = rt
  BY AgainKick, KickValues
<1>4. kick'.snap.transcript \subseteq rt.transcript
  BY AgainKick, KickValues, StateValues
<1>5. HydrateInv'
  BY <1>2, <1>3 DEF DiskInv, HydrateInv
<1>6. RecordedInv'
  BY <1>4 DEF DiskInv, RecordedInv
<1>7. KeptInv'
  BY <1>2, <1>3 DEF DiskInv, KeptInv
<1>8. SaveInv'
  <2>1. AtRest' => AtRest
    BY DEF AtRest
  <2>2. kick'.st = "none" => ~kick.pending
    BY AgainKick
  <2> QED
    BY <2>1, <2>2, <1>3 DEF DiskInv, SaveInv
<1> QED
  BY <1>1, <1>5, <1>6, <1>7, <1>8 DEF DiskInv

\* The runtime is read in, and everyone who awaits it goes on.
LEMMA HydrateDisk ==
  ASSUME StateType, TurnType, DiskInv, Hydrate
  PROVE  StateType' /\ DiskInv' /\ \A t \in Turns : pc'[t] = IF pc[t] = "hydrate" THEN "ready" ELSE pc[t]
<1>1. rt = Absent /\ kick.st = "none" /\ UNCHANGED <<kick, file, writeFailed>>
  BY DEF Hydrate, DiskInv, HydrateInv
<1>2. \A t \in Turns : pc'[t] = IF pc[t] = "hydrate" THEN "ready" ELSE pc[t]
  BY DEF Hydrate, DiskInv, HydrateInv
<1>3. hydrations' = {} /\ hydrations' = {t \in Turns : pc'[t] = "hydrate"}
  BY <1>2 DEF Hydrate
<1>4. \/ rt' = Fresh /\ file = Absent /\ readFailed' = readFailed
      \/ rt' = file /\ file.kind = "state" /\ readFailed' = readFailed
      \/ rt' = Fresh /\ readFailed' = TRUE
  BY DEF Hydrate, ReadBoundedState
<1>5. rt' \in States /\ rt'.kind = "state" /\ rt'.transcript \subseteq file.transcript /\ rt' # Absent
  BY <1>4, StateValues DEF StateType
<1>6. StateType'
  BY <1>1, <1>5 DEF StateType
<1>7. HydrateInv'
  BY <1>1, <1>3, <1>5 DEF DiskInv, HydrateInv
<1>8. \A t \in Turns : pc[t] \in {"new", "hydrate", "gone"} /\ pc'[t] # "done"
  BY <1>1, <1>2 DEF DiskInv, HydrateInv
<1>9. RecordedInv'
  <2>1. file.transcript \subseteq Turns /\ kick.snap.transcript \subseteq Turns
    BY DEF StateType, States, Kicks
  <2> QED
    BY <2>1, <1>1, <1>2, <1>5 DEF DiskInv, RecordedInv
<1>10. KeptInv'
  BY <1>1, <1>4, <1>5, StateValues DEF KeptInv
<1>11. SaveInv'
  BY <1>8 DEF SaveInv, AtRest
<1> QED
  BY <1>2, <1>6, <1>7, <1>9, <1>10, <1>11 DEF DiskInv

\* Only the file is left.
LEMMA CrashDisk ==
  ASSUME StateType, TurnType, DiskInv, Crash
  PROVE  StateType' /\ DiskInv'
<1>1. rt' = Absent /\ hydrations' = {} /\ kick' = NoKick /\ file' = file
  BY DEF Crash
<1>2. \A t \in Turns : pc'[t] = IF pc[t] = "new" THEN "new" ELSE "gone"
  BY DEF Crash
<1>3. StateType'
  BY <1>1, StateValues, KickValues DEF StateType
<1>4. HydrateInv'
  BY <1>1, <1>2, KickValues DEF DiskInv, HydrateInv
<1>5. RecordedInv'
  <2>1. file.transcript \subseteq Turns /\ rt'.transcript = {} /\ kick'.snap.transcript = {}
    BY <1>1, StateValues, KickValues DEF StateType, States
  <2> QED
    BY <2>1, <1>1, <1>2 DEF DiskInv, RecordedInv
<1>6. KeptInv' /\ SaveInv'
  BY <1>1, KickValues DEF KeptInv, SaveInv, AtRest
<1> QED
  BY <1>3, <1>4, <1>5, <1>6 DEF DiskInv

\* No step breaks what holds of the save.
LEMMA NextDisk ==
  ASSUME StateType, TurnType, LoopType, FrameInv, DiskInv, [Next]_vars
  PROVE  StateType' /\ DiskInv'
<1> USE DEF loopVars
<1>1. rt.bindings \in [Names -> Vals]
  BY DEF StateType, States
<1>2. ASSUME NEW t \in Turns, Arrive(t) PROVE StateType' /\ DiskInv'
  <2>1. CASE rt # Absent
    BY <1>2, <2>1, MoveDisk DEF Arrive, GetOrCreate
  <2>2. CASE rt = Absent
    <3>1. /\ UNCHANGED <<rt, kick, file, readFailed, writeFailed>>
          /\ hydrations' = hydrations \cup {t} /\ pc[t] = "new"
          /\ \A u \in Turns : pc'[u] = IF u = t THEN "hydrate" ELSE pc[u]
      BY <1>2, <2>2 DEF Arrive, GetOrCreate, TurnType
    <3>2. HydrateInv'
      BY <2>2, <3>1 DEF DiskInv, HydrateInv
    <3>3. RecordedInv'
      <4>1. rt.transcript \cup file.transcript \cup kick.snap.transcript \subseteq Turns
        BY DEF StateType, States, Kicks
      <4> QED
        BY <4>1, <3>1 DEF DiskInv, RecordedInv
    <3>4. KeptInv' /\ SaveInv' /\ StateType'
      BY <2>2, <3>1 DEF DiskInv, KeptInv, SaveInv, AtRest, StateType
    <3> QED
      BY <3>2, <3>3, <3>4 DEF DiskInv
  <2> QED
    BY <2>1, <2>2
<1>3. ASSUME NEW t \in Turns, ParseError(t) PROVE StateType' /\ DiskInv'
  BY <1>3, MoveDisk DEF ParseError
<1>4. ASSUME NEW t \in Turns, ForeachStart(t) PROVE StateType' /\ DiskInv'
  BY <1>4, MoveDisk DEF ForeachStart
<1>5. ASSUME NEW t \in Turns, Pull(t) PROVE StateType' /\ DiskInv'
  BY <1>5, IterateDisk DEF Pull
<1>6. ASSUME NEW t \in Turns, ForeachEnds(t) PROVE StateType' /\ DiskInv'
  BY <1>1, <1>6, RecordDisk DEF ForeachEnds
<1>7. ASSUME NEW t \in Turns, AssignStart(t) PROVE StateType' /\ DiskInv'
  <2>1. CASE pc' = [pc EXCEPT ![t] = "assign"] /\ UNCHANGED <<rt, kick>>
    BY <1>7, <2>1, MoveDisk DEF AssignStart
  <2>2. CASE Record(t, rt.bindings)
    BY <1>1, <1>7, <2>2, RecordDisk DEF AssignStart
  <2> QED
    BY <1>7, <2>1, <2>2 DEF AssignStart
<1>8. ASSUME NEW t \in Turns, AssignEnds(t) PROVE StateType' /\ DiskInv'
  <2>1. [rt.bindings EXCEPT ![V] = <<t>>] \in [Names -> Vals]
    BY <1>1 DEF Vals
  <2> QED
    BY <1>1, <1>8, <2>1, RecordDisk DEF AssignEnds
<1>9. ASSUME NEW t \in Turns, NEW i \in Items, CallEnds(t, i) PROVE StateType' /\ DiskInv'
  BY <1>9, IterateDisk DEF CallEnds
<1>10. ASSUME NEW t \in Turns, NEW i \in Items, SaveStep(t, i) PROVE StateType' /\ DiskInv'
  <2>1. frame[t][i] = i /\ SaveName(t, i) \in Names /\ <<t, frame[t][i]>> \in Vals
    BY <1>10, Constants DEF SaveStep, FrameInv, SaveName, Vals
  <2>2. CASE UNCHANGED rt
    BY <1>10, <2>2, IterateDisk DEF SaveStep
  <2>3. CASE rt' = [rt EXCEPT !.bindings[SaveName(t, i)] = <<t, frame[t][i]>>]
    BY <1>10, <2>1, <2>3, BindDisk DEF SaveStep
  <2> QED
    BY <1>10, <2>2, <2>3 DEF SaveStep, RunSave
<1>11. CASE Hydrate
  BY <1>11, HydrateDisk
<1>12. CASE WriteStaged
  <2>1. kick' \in Kicks /\ kick'.st = "rename" /\ kick'.snap = kick.snap /\ kick'.pending = kick.pending
    BY <1>12 DEF WriteStaged, StateType, Kicks
  <2>2. StateType'
    BY <1>12, <2>1 DEF WriteStaged, StateType
  <2>3. HydrateInv' /\ RecordedInv' /\ KeptInv'
    BY <1>12, <2>1 DEF WriteStaged, DiskInv, HydrateInv, RecordedInv, KeptInv
  <2>4. SaveInv'
    BY <1>12, <2>1 DEF WriteStaged, DiskInv, SaveInv, AtRest
  <2> QED
    BY <2>2, <2>3, <2>4 DEF DiskInv
<1>13. CASE WriteRename
  BY <1>13, WriteDisk DEF WriteRename
<1>14. CASE WriteFails
  BY <1>14, WriteDisk DEF WriteFails
<1>15. CASE Crash
  BY <1>15, CrashDisk
<1>16. CASE UNCHANGED vars
  BY <1>16, IterateDisk DEF vars
<1> QED
  BY <1>2, <1>3, <1>4, <1>5, <1>6, <1>7, <1>8, <1>9, <1>10, <1>11, <1>12, <1>13, <1>14,
     <1>15, <1>16 DEF Next
-----------------------------------------------------------------------------
(* The blocks. *)

FrameOf(t) == \A i \in Items : it[t][i] \in {"call", "save"} => frame[t][i] = i

OverOf(t) ==
  pc[t] = "done" /\ prog[t].loop =>
    /\ Active(t) = {}
    /\ firstError[t] = 0 => \A i \in Items : it[t][i] \in {"ok", "err"}
    /\ firstError[t] # 0 => ~prog[t].continue /\ it[t][firstError[t]] = "err"

BlockOf(t) == LoopOf(t) /\ FrameOf(t) /\ OverOf(t)

LEMMA BlocksAreAll ==
  /\ (LoopInv /\ FrameInv /\ BlockIsOver) <=> \A t \in Turns : BlockOf(t)
  /\ (LoopInv /\ FrameInv /\ BlockIsOver)' <=> \A t \in Turns : BlockOf(t)'
BY DEF LoopInv, FrameInv, BlockIsOver, BlockOf, FrameOf, OverOf

\* A turn none of whose locals changed.
LEMMA BlockFrame ==
  ASSUME NEW t \in Turns, BlockOf(t), pc'[t] = pc[t], prog'[t] = prog[t], nxt'[t] = nxt[t],
         firstError'[t] = firstError[t], it'[t] = it[t], frame'[t] = frame[t]
  PROVE  BlockOf(t)'
BY DEF BlockOf, LoopOf, FrameOf, OverOf, Active

\* The workers start with the first items of the list, one each.
LEMMA FirstItems ==
  LET S == {i \in Items : i <= Concurrency} IN
  /\ Cardinality(S) \in 0..N
  /\ \A i \in Items : i \in S <=> i < Cardinality(S) + 1
<1> DEFINE S == {i \in Items : i <= Concurrency}
           c == IF N = 0 THEN 0 ELSE Concurrency
<1>1. N \in Nat /\ Parallel \in Nat
  BY BoundedAssumption DEF BoundedAssumption
<1>2. c \in 0..N
  BY <1>1 DEF Concurrency
<1>3. S = 1..c
  BY <1>1, <1>2 DEF Concurrency, Items
<1>4. Cardinality(1..c) = c
  BY <1>2, FS_Interval
<1>5. \A i \in Items : i \in 1..c <=> i < c + 1
  BY <1>1, <1>2 DEF Items
<1> HIDE DEF c, S
<1>6. Cardinality(S) \in 0..N /\ \A i \in Items : i \in S <=> i < Cardinality(S) + 1
  BY <1>2, <1>3, <1>4, <1>5
<1> QED
  BY <1>6 DEF S

LEMMA NextBlocks ==
  ASSUME StateType, TurnType, LoopType, DiskInv, LoopInv, FrameInv, BlockIsOver, [Next]_vars
  PROVE  TurnType' /\ LoopType' /\ LoopInv' /\ FrameInv' /\ BlockIsOver'
<1> USE DEF loopVars
<1> DEFINE Goal == TurnType' /\ LoopType' /\ \A u \in Turns : BlockOf(u)'
           Moves == \A u \in Turns :
                      \/ pc'[u] = pc[u]
                      \/ /\ pc[u] \notin {"loop", "done"}
                         /\ pc'[u] \in {"hydrate", "ready", "assign", "done"}
<1> SUFFICES Goal
  BY BlocksAreAll
<1> HIDE DEF Goal, Moves
<1>1. \A u \in Turns : BlockOf(u)
  BY BlocksAreAll
<1>2. N \in Nat
  BY Constants
<1>3. NoProg \in [loop : BOOLEAN, continue : BOOLEAN, shared : BOOLEAN] /\ NoProg.loop = FALSE
  BY DEF NoProg
\* A turn moves outside a block, or all do.
<1>4. ASSUME UNCHANGED loopVars, TurnType', Moves PROVE Goal
  <2>1. LoopType'
    BY <1>4 DEF LoopType
  <2>2. ASSUME NEW u \in Turns PROVE BlockOf(u)'
    <3>1. CASE pc'[u] = pc[u]
      BY <1>1, <1>4, <3>1, BlockFrame
    <3>2. CASE pc[u] \notin {"loop", "done"} /\ pc'[u] # "loop"
      <4>1. prog[u] = NoProg /\ firstError[u] = 0 /\ \A i \in Items : it[u][i] = "new"
        BY <1>1, <1>3, <3>2 DEF BlockOf, LoopOf
      <4>2. ~prog'[u].loop
        BY <1>3, <1>4, <4>1
      <4> QED
        BY <1>4, <3>2, <4>1, <4>2 DEF BlockOf, LoopOf, FrameOf, OverOf
    <3> QED
      BY <1>4, <3>1, <3>2 DEF Moves
  <2> QED
    BY <1>4, <2>1, <2>2 DEF Goal
<1>4a. ASSUME NEW t \in Turns, pc[t] \notin {"loop", "done"},
              NEW step \in {"hydrate", "ready", "assign", "done"}, pc' = [pc EXCEPT ![t] = step],
              hydrations' \subseteq Turns, UNCHANGED loopVars
       PROVE  Goal
  <2>1. TurnType'
    BY <1>4a DEF TurnType
  <2>2. \A u \in Turns : u = t \/ pc'[u] = pc[u]
    BY <1>4a DEF TurnType
  <2>3. pc'[t] = step
    BY <1>4a DEF TurnType
  <2>4. Moves
    BY <1>4a, <2>2, <2>3 DEF Moves
  <2> QED
    BY <1>4, <1>4a, <2>1, <2>4
<1>5. ASSUME NEW t \in Turns, Arrive(t) PROVE Goal
  BY <1>5, <1>4a DEF Arrive, GetOrCreate, TurnType
<1>6. ASSUME NEW t \in Turns, ParseError(t) PROVE Goal
  BY <1>6, <1>4a DEF ParseError, TurnType
<1>7. ASSUME NEW t \in Turns, AssignStart(t) PROVE Goal
  BY <1>7, <1>4a DEF AssignStart, Record, TurnType
<1>8. ASSUME NEW t \in Turns, AssignEnds(t) PROVE Goal
  BY <1>8, <1>4a DEF AssignEnds, Record, TurnType
<1>9. CASE Hydrate
  <2>1. \A t \in Turns : pc'[t] = IF pc[t] = "hydrate" THEN "ready" ELSE pc[t]
    BY <1>9, HydrateDisk
  <2>2. TurnType'
    BY <1>9 DEF Hydrate, TurnType
  <2>3. Moves
    BY <2>1 DEF Moves
  <2> QED
    BY <1>4, <1>9, <2>2, <2>3 DEF Hydrate
<1>10. ASSUME UNCHANGED <<hydrations, pc, loopVars>> PROVE Goal
  <2>1. TurnType'
    BY <1>10 DEF TurnType
  <2>2. Moves
    BY <1>10 DEF Moves
  <2> QED
    BY <1>4, <1>10, <2>1, <2>2
<1>11. CASE WriteStaged \/ WriteRename \/ WriteFails \/ UNCHANGED vars
  BY <1>10, <1>11 DEF WriteStaged, WriteRename, WriteFails, vars
<1>12. CASE Crash
  <2>1. TurnType'
    BY <1>3, <1>12 DEF Crash, TurnType
  <2>2. LoopType'
    BY <1>2, <1>12 DEF Crash, LoopType, OverItems
  <2>3. \A u \in Turns : BlockOf(u)'
    BY <1>3, <1>12 DEF Crash, BlockOf, LoopOf, FrameOf, OverOf, OverItems
  <2> QED
    BY <2>1, <2>2, <2>3 DEF Goal
<1>13. ASSUME NEW t \in Turns, ForeachStart(t) PROVE Goal
  <2> DEFINE S == {i \in Items : i <= Concurrency}
  <2>1. PICK p \in [loop : {TRUE}, continue : BOOLEAN, shared : BOOLEAN] : prog' = [prog EXCEPT ![t] = p]
    BY <1>13 DEF ForeachStart
  <2>2. /\ pc[t] = "ready" /\ pc' = [pc EXCEPT ![t] = "loop"]
        /\ it' = [it EXCEPT ![t] = [i \in Items |-> IF i \in S THEN "call" ELSE "new"]]
        /\ frame' = [frame EXCEPT ![t] = [i \in Items |-> IF i \in S THEN i ELSE frame[t][i]]]
        /\ nxt' = [nxt EXCEPT ![t] = Cardinality(S) + 1]
        /\ UNCHANGED <<hydrations, firstError>>
    BY <1>13 DEF ForeachStart, PushFrame
  <2>3. Cardinality(S) \in 0..N /\ \A i \in Items : i \in S <=> i < Cardinality(S) + 1
    BY FirstItems
  <2> HIDE DEF S
  <2>4. TurnType'
    BY <2>1, <2>2 DEF TurnType
  <2>5. LoopType'
    <3>1. nxt' \in [Turns -> 1..(N + 1)]
      BY <1>2, <2>2, <2>3 DEF LoopType
    <3>2. it' \in [Turns -> [Items -> {"new", "call", "save", "ok", "err"}]]
      BY <2>2 DEF LoopType
    <3>3. frame' \in [Turns -> [Items -> 0..N]]
      BY <1>2, <2>2 DEF LoopType, Items
    <3> QED
      BY <2>2, <3>1, <3>2, <3>3 DEF LoopType
  <2>6. BlockOf(t)'
    <3>1. pc'[t] = "loop" /\ prog'[t].loop
      BY <2>1, <2>2 DEF TurnType
    <3>2. firstError'[t] = 0
      BY <1>1, <2>2 DEF BlockOf, LoopOf
    <3>3. nxt'[t] = Cardinality(S) + 1
      BY <2>2 DEF LoopType
    <3>4. \A i \in Items : it'[t][i] = IF i \in S THEN "call" ELSE "new"
      BY <2>2 DEF LoopType
    <3>5. \A i \in Items : i \in S => frame'[t][i] = i
      BY <2>2 DEF LoopType
    <3> QED
      BY <2>3, <3>1, <3>2, <3>3, <3>4, <3>5 DEF BlockOf, LoopOf, FrameOf, OverOf
  <2>7. \A u \in Turns \ {t} : BlockOf(u)'
    BY <1>1, <2>1, <2>2, BlockFrame DEF TurnType, LoopType
  <2> QED
    BY <2>4, <2>5, <2>6, <2>7 DEF Goal
<1>14. ASSUME NEW t \in Turns, Pull(t) PROVE Goal
  <2> DEFINE n == nxt[t]
  <2>1. /\ pc[t] = "loop" /\ firstError[t] = 0 /\ n \in Items /\ n \in 1..N
        /\ it' = [it EXCEPT ![t][n] = "call"]
        /\ frame' = [frame EXCEPT ![t] = [i \in Items |-> IF i \in {n} THEN i ELSE frame[t][i]]]
        /\ nxt' = [nxt EXCEPT ![t] = n + 1] /\ UNCHANGED <<hydrations, pc, prog, firstError>>
    BY <1>2, <1>14 DEF Pull, PushFrame, LoopType, Items
  <2> HIDE DEF n
  <2>2. TurnType'
    BY <2>1 DEF TurnType
  <2>3. LoopType'
    <3>1. nxt' \in [Turns -> 1..(N + 1)]
      BY <1>2, <2>1 DEF LoopType
    <3>2. it' \in [Turns -> [Items -> {"new", "call", "save", "ok", "err"}]]
      BY <2>1 DEF LoopType
    <3>3. frame' \in [Turns -> [Items -> 0..N]]
      BY <1>2, <2>1 DEF LoopType, Items
    <3> QED
      BY <2>1, <3>1, <3>2, <3>3 DEF LoopType
  <2>4. BlockOf(t)'
    <3>1. /\ pc'[t] = "loop" /\ prog'[t] = prog[t] /\ firstError'[t] = 0 /\ nxt'[t] = n + 1
          /\ \A i \in Items : it'[t][i] = IF i = n THEN "call" ELSE it[t][i]
          /\ \A i \in Items : frame'[t][i] = IF i = n THEN i ELSE frame[t][i]
      BY <2>1 DEF TurnType, LoopType
    <3>2. \A i \in Items : i < n + 1 => i = n \/ i < nxt[t]
      BY <1>2, <2>1 DEF Items, n
    <3> QED
      BY <1>1, <2>1, <3>1, <3>2 DEF BlockOf, LoopOf, FrameOf, OverOf
  <2>5. \A u \in Turns \ {t} : BlockOf(u)'
    BY <1>1, <2>1, BlockFrame DEF TurnType, LoopType
  <2> QED
    BY <2>2, <2>3, <2>4, <2>5 DEF Goal
\* An iteration goes from one place to the next.
<1>15. ASSUME NEW t \in Turns, NEW i \in Items, pc[t] = "loop", it[t][i] \in {"call", "save"},
              NEW to \in {"save", "ok", "err"}, it' = [it EXCEPT ![t][i] = to],
              \/ to = "save" /\ UNCHANGED frame
              \/ to # "save" /\ frame' = [frame EXCEPT ![t][i] = 0],
              \/ UNCHANGED firstError
              \/ ~prog[t].continue /\ to = "err" /\ firstError[t] = 0
                 /\ firstError' = [firstError EXCEPT ![t] = i],
              UNCHANGED <<hydrations, pc, prog, nxt>>
       PROVE  Goal
  <2>1. TurnType'
    BY <1>15 DEF TurnType
  <2>2. LoopType'
    <3>1. it' \in [Turns -> [Items -> {"new", "call", "save", "ok", "err"}]]
      BY <1>15 DEF LoopType
    <3>2. frame' \in [Turns -> [Items -> 0..N]]
      <4>1. 0 \in 0..N
        BY <1>2
      <4>2. CASE UNCHANGED frame
        BY <4>2 DEF LoopType
      <4>3. CASE frame' = [frame EXCEPT ![t][i] = 0]
        BY <4>1, <4>3 DEF LoopType
      <4> QED
        BY <1>15, <4>2, <4>3
    <3>3. firstError' \in [Turns -> 0..N]
      <4>1. i \in 0..N
        BY <1>2 DEF Items
      <4>2. CASE UNCHANGED firstError
        BY <4>2 DEF LoopType
      <4>3. CASE firstError' = [firstError EXCEPT ![t] = i]
        BY <4>1, <4>3 DEF LoopType
      <4> QED
        BY <1>15, <4>2, <4>3
    <3> QED
      BY <1>15, <3>1, <3>2, <3>3 DEF LoopType
  <2>3. BlockOf(t)'
    <3>1. /\ pc'[t] = "loop" /\ prog'[t] = prog[t] /\ nxt'[t] = nxt[t]
          /\ \A k \in Items : it'[t][k] = IF k = i THEN to ELSE it[t][k]
          /\ \A k \in Items : k # i \/ to = "save" => frame'[t][k] = frame[t][k]
          /\ \/ firstError'[t] = firstError[t]
             \/ ~prog[t].continue /\ to = "err" /\ firstError'[t] = i
      BY <1>15 DEF TurnType, LoopType
    <3>2. firstError[t] = 0 \/ firstError[t] \in Items
      BY <1>2 DEF LoopType, Items
    <3>3. LoopOf(t)
      BY <1>1 DEF BlockOf
    <3>4. LoopOf(t)'
      <4>1. prog'[t].loop /\ \A k \in Items : k < nxt'[t] => it'[t][k] # "new"
        BY <1>15, <3>1, <3>3 DEF LoopOf
      <4>2. firstError'[t] # 0 => ~prog'[t].continue /\ it'[t][firstError'[t]] = "err"
        BY <1>15, <3>1, <3>2, <3>3 DEF LoopOf
      <4> QED
        BY <3>1, <4>1, <4>2 DEF LoopOf
    <3> QED
      BY <1>1, <1>15, <3>1, <3>4 DEF BlockOf, FrameOf, OverOf
  <2>4. \A u \in Turns \ {t} : BlockOf(u)'
    BY <1>1, <1>15, BlockFrame DEF TurnType, LoopType
  <2> QED
    BY <2>1, <2>2, <2>3, <2>4 DEF Goal
<1>16. ASSUME NEW t \in Turns, NEW i \in Items, CallEnds(t, i) PROVE Goal
  <2>1. CASE it' = [it EXCEPT ![t][i] = "save"] /\ UNCHANGED <<firstError, frame>>
    BY <1>15, <1>16, <2>1 DEF CallEnds
  <2>2. CASE IterationFails(t, i)
    BY <1>15, <1>16, <2>2 DEF CallEnds, IterationFails
  <2> QED
    BY <1>16, <2>1, <2>2 DEF CallEnds
<1>17. ASSUME NEW t \in Turns, NEW i \in Items, SaveStep(t, i) PROVE Goal
  <2>1. CASE IterationFails(t, i)
    BY <1>15, <1>17, <2>1 DEF SaveStep, IterationFails
  <2>2. CASE it' = [it EXCEPT ![t][i] = "ok"] /\ frame' = [frame EXCEPT ![t][i] = 0] /\ UNCHANGED firstError
    BY <1>15, <1>17, <2>2 DEF SaveStep
  <2> QED
    BY <1>17, <2>1, <2>2 DEF SaveStep, RunSave
<1>18. ASSUME NEW t \in Turns, ForeachEnds(t) PROVE Goal
  <2>1. pc[t] = "loop" /\ AllWorkersLeft(t) /\ pc' = [pc EXCEPT ![t] = "done"] /\ UNCHANGED <<hydrations, loopVars>>
    BY <1>18 DEF ForeachEnds, Record
  <2>2. TurnType' /\ LoopType'
    BY <2>1 DEF TurnType, LoopType
  <2>3. BlockOf(t)'
    <3>1. /\ pc'[t] = "done" /\ prog'[t] = prog[t] /\ nxt'[t] = nxt[t]
          /\ it'[t] = it[t] /\ frame'[t] = frame[t] /\ firstError'[t] = firstError[t]
      BY <2>1 DEF TurnType
    <3>2. LoopOf(t)' /\ FrameOf(t)'
      BY <1>1, <2>1, <3>1 DEF BlockOf, LoopOf, FrameOf
    <3>3. Active(t) = {} /\ \A i \in Items : it[t][i] \notin {"call", "save"}
      BY <2>1 DEF AllWorkersLeft, Active
    <3>4. firstError[t] = 0 => \A i \in Items : it[t][i] \in {"ok", "err"}
      <4> SUFFICES ASSUME firstError[t] = 0, NEW i \in Items PROVE it[t][i] \in {"ok", "err"}
        OBVIOUS
      <4>1. i < nxt[t]
        BY <1>2, <2>1 DEF AllWorkersLeft, LoopType, Items
      <4>2. it[t][i] # "new"
        BY <1>1, <2>1, <4>1 DEF BlockOf, LoopOf
      <4> QED
        BY <3>3, <4>2 DEF LoopType
    <3>5. OverOf(t)'
      BY <1>1, <3>1, <3>3, <3>4 DEF BlockOf, LoopOf, OverOf, Active
    <3> QED
      BY <3>2, <3>5 DEF BlockOf
  <2>4. \A u \in Turns \ {t} : BlockOf(u)'
    BY <1>1, <2>1, BlockFrame DEF TurnType
  <2> QED
    BY <2>2, <2>3, <2>4 DEF Goal
<1> QED
  BY <1>5, <1>6, <1>7, <1>8, <1>9, <1>11, <1>12, <1>13, <1>14, <1>16, <1>17, <1>18 DEF Next
-----------------------------------------------------------------------------
(* What a foreach saves. *)

\* The name an iteration saves under.
NameOf(t, i) == IF prog[t].shared THEN Shared ELSE i

\* Names that items are saved under keep their values, and no iteration is
\* newly reported without an error.
LEMMA OwnKept ==
  ASSUME SavedIsOwn,
         \A n \in {Shared} \cup Items : rt.bindings[n] # None => rt'.bindings[n] = rt.bindings[n],
         \A t \in Turns, i \in Items :
           pc'[t] \in {"loop", "done"} /\ it'[t][i] = "ok"
             => pc[t] \in {"loop", "done"} /\ it[t][i] = "ok" /\ prog'[t] = prog[t]
  PROVE  SavedIsOwn'
<1> SUFFICES ASSUME NEW t \in Turns, NEW i \in Items, pc'[t] \in {"loop", "done"}, it'[t][i] = "ok"
             PROVE  rt'.bindings[NameOf(t, i)'] = <<t, i>>
  BY DEF SavedIsOwn, NameOf
<1>1. pc[t] \in {"loop", "done"} /\ it[t][i] = "ok" /\ NameOf(t, i)' = NameOf(t, i)
  BY DEF NameOf
<1>2. rt.bindings[NameOf(t, i)] = <<t, i>>
  BY <1>1 DEF SavedIsOwn, NameOf
<1>3. NameOf(t, i) \in {Shared} \cup Items
  BY DEF NameOf
<1>4. rt.bindings[NameOf(t, i)] # None
  BY <1>2, PairNotNone
<1>5. rt'.bindings[NameOf(t, i)] = rt.bindings[NameOf(t, i)]
  BY <1>3, <1>4
<1> QED
  BY <1>1, <1>2, <1>5, Zenon

LEMMA NextOwn ==
  ASSUME StateType, TurnType, LoopType, DiskInv, LoopInv, FrameInv, SavedIsOwn, [Next]_vars
  PROVE  SavedIsOwn'
<1> USE DEF loopVars
<1> DEFINE Kept == \A n \in {Shared} \cup Items :
                     rt.bindings[n] # None => rt'.bindings[n] = rt.bindings[n]
           NoneNew == \A t \in Turns, i \in Items :
                        pc'[t] \in {"loop", "done"} /\ it'[t][i] = "ok"
                          => pc[t] \in {"loop", "done"} /\ it[t][i] = "ok" /\ prog'[t] = prog[t]
<1>1. Kept /\ NoneNew => SavedIsOwn'
  BY OwnKept
<1>2. rt = rt' => Kept
  OBVIOUS
<1> HIDE DEF Kept, NoneNew
\* A turn that enters or leaves its block has nothing to report that it had not.
<1>3. ASSUME NEW t \in Turns, NEW i \in Items, pc[t] \notin {"loop", "done"} PROVE it[t][i] # "ok"
  BY <1>3 DEF LoopInv, LoopOf, NoProg
<1>4. ASSUME UNCHANGED loopVars, NEW t \in Turns, \A u \in Turns : u # t => pc'[u] = pc[u]
      PROVE  NoneNew
  BY <1>3, <1>4 DEF NoneNew
<1>5. ASSUME NEW t \in Turns, NEW bindings \in [Names -> Vals], Record(t, bindings), UNCHANGED loopVars,
             \A n \in {Shared} \cup Items : bindings[n] = rt.bindings[n]
      PROVE  SavedIsOwn'
  <2>1. Kept
    BY <1>5 DEF Kept, Record
  <2>2. NoneNew
    BY <1>4, <1>5 DEF Record, TurnType
  <2> QED
    BY <1>1, <2>1, <2>2
<1>6. rt.bindings \in [Names -> Vals]
  BY DEF StateType, States
<1>7. ASSUME NEW t \in Turns, Arrive(t) \/ ParseError(t) PROVE SavedIsOwn'
  <2>1. NoneNew
    BY <1>4, <1>7 DEF Arrive, GetOrCreate, ParseError, TurnType
  <2> QED
    BY <1>1, <1>2, <1>7, <2>1 DEF Arrive, ParseError
<1>8. ASSUME NEW t \in Turns, ForeachStart(t) PROVE SavedIsOwn'
  <2>1. pc[t] = "ready" /\ \A i \in Items : it'[t][i] # "ok"
    BY <1>8 DEF ForeachStart, LoopType
  <2>2. \A u \in Turns : u # t => pc'[u] = pc[u] /\ it'[u] = it[u] /\ prog'[u] = prog[u]
    BY <1>8 DEF ForeachStart, TurnType, LoopType
  <2>3. NoneNew
    BY <2>1, <2>2 DEF NoneNew
  <2> QED
    BY <1>1, <1>2, <1>8, <2>3 DEF ForeachStart
\* An iteration goes on without being reported.
<1>9. ASSUME NEW t \in Turns, NEW i \in Items, NEW to, to # "ok", it' = [it EXCEPT ![t][i] = to],
             UNCHANGED <<rt, pc, prog>>
      PROVE  SavedIsOwn'
  <2>1. \A u \in Turns, k \in Items : it'[u][k] = "ok" => it[u][k] = "ok"
    BY <1>9 DEF LoopType
  <2>2. NoneNew
    BY <1>9, <2>1 DEF NoneNew
  <2> QED
    BY <1>1, <1>2, <1>9, <2>2
<1>10. ASSUME NEW t \in Turns, Pull(t) PROVE SavedIsOwn'
  <2>1. nxt[t] \in Items
    BY <1>10, Constants DEF Pull, LoopType, Items
  <2> QED
    BY <1>9, <1>10, <2>1 DEF Pull
<1>11. ASSUME NEW t \in Turns, ForeachEnds(t) PROVE SavedIsOwn'
  BY <1>5, <1>6, <1>11 DEF ForeachEnds
<1>12. ASSUME NEW t \in Turns, AssignStart(t) PROVE SavedIsOwn'
  <2>1. CASE pc' = [pc EXCEPT ![t] = "assign"] /\ UNCHANGED <<rt, kick>>
    <3>1. NoneNew
      BY <1>4, <1>12, <2>1 DEF AssignStart, TurnType
    <3> QED
      BY <1>1, <1>2, <2>1, <3>1
  <2>2. CASE Record(t, rt.bindings)
    BY <1>5, <1>6, <1>12, <2>2 DEF AssignStart
  <2> QED
    BY <1>12, <2>1, <2>2 DEF AssignStart
<1>13. ASSUME NEW t \in Turns, AssignEnds(t) PROVE SavedIsOwn'
  <2> DEFINE b == [rt.bindings EXCEPT ![V] = <<t>>]
  <2>1. b \in [Names -> Vals] /\ \A n \in {Shared} \cup Items : b[n] = rt.bindings[n]
    BY <1>6, Constants DEF Vals
  <2> HIDE DEF b
  <2>2. Record(t, b) \/ Record(t, rt.bindings)
    BY <1>13 DEF AssignEnds, b
  <2> QED
    BY <1>5, <1>6, <1>13, <2>1, <2>2 DEF AssignEnds
<1>14. ASSUME NEW t \in Turns, NEW i \in Items, CallEnds(t, i) PROVE SavedIsOwn'
  BY <1>9, <1>14 DEF CallEnds, IterationFails
<1>15. ASSUME NEW t \in Turns, NEW i \in Items, SaveStep(t, i) PROVE SavedIsOwn'
  <2>1. CASE IterationFails(t, i) /\ UNCHANGED rt
    BY <1>9, <1>15, <2>1 DEF SaveStep, IterationFails
  <2>2. CASE /\ rt.bindings[SaveName(t, i)] = None
             /\ rt' = [rt EXCEPT !.bindings[SaveName(t, i)] = <<t, frame[t][i]>>]
             /\ it' = [it EXCEPT ![t][i] = "ok"]
    <3>1. frame[t][i] = i /\ SaveName(t, i) = NameOf(t, i) /\ SaveName(t, i) \in Names /\ <<t, i>> \in Vals
      BY <1>15, Constants DEF SaveStep, FrameInv, SaveName, NameOf, Vals
    <3>2. rt'.bindings = [rt.bindings EXCEPT ![NameOf(t, i)] = <<t, i>>]
      BY <1>15, <2>2, <3>1, BindDisk DEF SaveStep
    <3>3. rt.bindings[NameOf(t, i)] = None /\ UNCHANGED <<pc, prog>>
      BY <1>15, <2>2, <3>1 DEF SaveStep
    <3> SUFFICES ASSUME NEW u \in Turns, NEW k \in Items, pc'[u] \in {"loop", "done"}, it'[u][k] = "ok"
                 PROVE  rt'.bindings[NameOf(u, k)] = <<u, k>>
      BY <3>3 DEF SavedIsOwn, NameOf
    <3>4. CASE u = t /\ k = i
      BY <1>6, <3>1, <3>2, <3>4
    <3>5. CASE ~(u = t /\ k = i)
      <4>1. it[u][k] = "ok" /\ pc[u] \in {"loop", "done"}
        BY <2>2, <3>3, <3>5 DEF LoopType
      <4>2. rt.bindings[NameOf(u, k)] = <<u, k>>
        BY <4>1 DEF SavedIsOwn, NameOf
      <4>3. NameOf(u, k) # NameOf(t, i) /\ NameOf(u, k) \in Names
        BY <3>3, <4>2, PairNotNone, Constants DEF NameOf
      <4> QED
        BY <1>6, <3>2, <4>2, <4>3
    <3> QED
      BY <3>4, <3>5
  <2> QED
    BY <1>15, <2>1, <2>2 DEF SaveStep, RunSave
<1>16. CASE Hydrate
  <2>1. \A t \in Turns : pc'[t] = IF pc[t] = "hydrate" THEN "ready" ELSE pc[t]
    BY <1>16, HydrateDisk
  <2>2. \A t \in Turns : pc[t] \in {"new", "hydrate", "gone"}
    BY <1>16 DEF Hydrate, DiskInv, HydrateInv
  <2> QED
    BY <2>1, <2>2 DEF SavedIsOwn
<1>17. CASE Crash
  BY <1>17 DEF Crash, SavedIsOwn
<1>18. CASE WriteStaged \/ WriteRename \/ WriteFails \/ UNCHANGED vars
  <2>1. UNCHANGED <<rt, pc, loopVars>>
    BY <1>18 DEF WriteStaged, WriteRename, WriteFails, vars
  <2> QED
    BY <2>1 DEF SavedIsOwn
<1> QED
  BY <1>7, <1>8, <1>10, <1>11, <1>12, <1>13, <1>14, <1>15, <1>16, <1>17, <1>18 DEF Next
-----------------------------------------------------------------------------
\* A process without a runtime, and turns that have not begun.
THEOREM InitIInv == Init => IInv
<1> SUFFICES ASSUME Init PROVE IInv
  OBVIOUS
<1> USE DEF Init
<1>1. N \in Nat /\ MaxCrashes \in Nat /\ MaxFaults \in Nat
  BY BoundedAssumption DEF BoundedAssumption
<1>2. StateType
  BY StateValues, KickValues DEF StateType
<1>3. TurnType /\ LoopType
  BY <1>1 DEF TurnType, LoopType, OverItems, NoProg
<1>4. CountType /\ FlagType
  <2>1. CountType
    BY <1>1 DEF CountType
  <2>2. FlagType
    BY DEF FlagType
  <2> QED
    BY <2>1, <2>2
<1>5. HydrateInv /\ RecordedInv /\ KeptInv /\ SaveInv
  BY StateValues, KickValues DEF HydrateInv, RecordedInv, KeptInv, SaveInv, AtRest
<1>6. LoopInv /\ FrameInv /\ SavedIsOwn /\ BlockIsOver
  BY DEF LoopInv, LoopOf, FrameInv, SavedIsOwn, BlockIsOver, OverItems, NoProg
<1> QED
  BY <1>2, <1>3, <1>4, <1>5, <1>6 DEF IInv

\* No step of a turn, of an iteration, of hydration or of a save breaks the
\* invariant, nor does a crash.
THEOREM NextIInv == IInv /\ [Next]_vars => IInv'
<1> SUFFICES ASSUME IInv, [Next]_vars PROVE IInv'
  OBVIOUS
<1>1. StateType /\ TurnType /\ LoopType /\ DiskInv /\ LoopInv /\ FrameInv /\ SavedIsOwn /\ BlockIsOver
  BY DEF IInv, DiskInv
<1>2. StateType' /\ DiskInv'
  BY <1>1, NextDisk
<1>3. TurnType' /\ LoopType' /\ LoopInv' /\ FrameInv' /\ BlockIsOver'
  BY <1>1, NextBlocks
<1>4. SavedIsOwn'
  BY <1>1, NextOwn
<1>5. CountType'
  <2>1. MaxCrashes \in Nat /\ MaxFaults \in Nat /\ CountType
    BY BoundedAssumption DEF BoundedAssumption, IInv
  <2>2. /\ crashes' = crashes \/ (crashes < MaxCrashes /\ crashes' = crashes + 1)
        /\ faults' = faults \/ (faults < MaxFaults /\ faults' = faults + 1)
    BY DEF Next, vars, Arrive, ParseError, ForeachStart, Pull, ForeachEnds, AssignStart, AssignEnds,
           CallEnds, SaveStep, Hydrate, ReadBoundedState, WriteStaged, WriteRename, WriteFails, Crash
  <2> QED
    BY <2>1, <2>2 DEF CountType
<1>6. FlagType'
  <2>1. FlagType
    BY DEF IInv
  <2>2. readFailed' \in {readFailed, TRUE} /\ writeFailed' \in {writeFailed, TRUE, FALSE}
    BY DEF Next, vars, Arrive, ParseError, ForeachStart, Pull, ForeachEnds, AssignStart, AssignEnds,
           CallEnds, SaveStep, Hydrate, ReadBoundedState, WriteStaged, WriteRename, WriteFails, Crash
  <2> QED
    BY <2>1, <2>2 DEF FlagType
<1> QED
  BY <1>2, <1>3, <1>4, <1>5, <1>6 DEF IInv, DiskInv

\* IInv holds in every reachable state.
THEOREM Invariance == Spec => []IInv
BY InitIInv, NextIInv, PTL DEF Spec

\* Every variable keeps its type.
THEOREM TypeCorrect == Spec => []TypeOK
<1>1. IInv => TypeOK
  BY DEF IInv, TypeOK, StateType, TurnType, LoopType, CountType, FlagType, Kicks, States, Vals
<1> QED
  BY <1>1, Invariance, PTL

\* For every list, worker limit and number of turns at once, an iteration
\* reported without an error has saved its own item under its own name.
THEOREM IterationsAreIsolated == Spec => []SavedIsOwn
<1>1. IInv => SavedIsOwn
  BY DEF IInv
<1> QED
  BY <1>1, Invariance, PTL

\* A foreach that returned has no worker left, and no item it skipped unless it
\* aborted.
THEOREM BlocksEndClean == Spec => []BlockIsOver
<1>1. IInv => BlockIsOver
  BY DEF IInv
<1> QED
  BY <1>1, Invariance, PTL

\* The coalescing save nobody awaits leaves the file equal to the memory when
\* it comes to rest, however turns, writes and their failures interleave.
THEOREM FileCatchesUp == Spec => []DiskFollows
<1>1. IInv => DiskFollows
  BY DEF IInv, DiskFollows, SaveInv, AtRest
<1> QED
  BY <1>1, Invariance, PTL

\* No write, crash or hydration loses a turn that was saved, as long as the
\* file can be read.
THEOREM SavedTurnsStay == Spec => SavedTurnsKept
<1>1. IInv /\ [Next]_vars => [~readFailed' => file.transcript \subseteq file'.transcript]_vars
  <2> SUFFICES ASSUME IInv, [Next]_vars, ~readFailed' PROVE file.transcript \subseteq file'.transcript
    OBVIOUS
  <2>1. \/ file' = file
        \/ kick.st = "rename" /\ file' = kick.snap /\ readFailed' = readFailed
    BY DEF Next, vars, Arrive, ParseError, ForeachStart, Pull, ForeachEnds, AssignStart, AssignEnds,
           CallEnds, SaveStep, Hydrate, WriteStaged, WriteRename, WriteFails, Crash
  <2> QED
    BY <2>1 DEF IInv, KeptInv
<1> QED
  BY <1>1, Invariance, PTL DEF Spec, SavedTurnsKept
=============================================================================
