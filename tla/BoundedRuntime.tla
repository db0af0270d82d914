--------------------------- MODULE BoundedRuntime ---------------------------
(***************************************************************************)
(* The bounded-verb runtime of one session: turns that run concurrently    *)
(* over one interpreter state (src/runtime/execute.ts, evaluate.ts,        *)
(* session.ts, src/verbs), its coalesced hydration, and the save of        *)
(* bounded-state.json that nobody awaits (src/exec/pipeline-bounded.ts,    *)
(* src/runtime/persist.ts).                                                *)
(*                                                                         *)
(* A turn runs                                                             *)
(*    foreach $i in Items --parallel=Parallel do                           *)
(*      call ...;  save $i as <name>  end                                  *)
(* where the name is one for all items or made from $i, or it runs         *)
(*    $v = call ...  or the same under  if $v is unbound.                  *)
(* The value saved is the pair of turn and item, and the transcript is the *)
(* set of turns recorded.  wait behaves as a call that succeeds.           *)
(***************************************************************************)
EXTENDS Naturals, FiniteSets

CONSTANTS
  Turns,          \* bound: requests on the session
  N,              \* bound: length of the list
  Parallel,       \* --parallel
  MaxCrashes, MaxFaults  \* bounds: restarts; failed reads and writes

Items == 1..N

ASSUME BoundedAssumption ==
  /\ IsFiniteSet(Turns)
  /\ {N, Parallel, MaxCrashes, MaxFaults} \subseteq Nat

VARIABLES
  rt,          \* boundedRuntimes: the interpreter state, or Absent
  hydrations,  \* turns awaiting the hydration under way
  pc, prog,    \* where each turn is, and what it runs
  nxt, firstError, it, frame,   \* runBounded's locals, and the frame of each iteration
  kick,        \* pendingWrites: the writer, its snapshot and the pending flag
  file,        \* bounded-state.json
  crashes, faults,
  readFailed, writeFailed   \* history: a hydration started afresh; the last write failed

loopVars == <<prog, nxt, firstError, it, frame>>
vars == <<rt, hydrations, pc, loopVars, kick, file, crashes, faults, readFailed, writeFailed>>

\* The names that can be bound: one per item, one shared by the items of a
\* loop, and the variable v.
Shared == 0
V == N + 1
Names == 0..(N + 1)
None == <<>>

\* An interpreter state, in memory or as the content of a file.
Empty(kind) == [kind |-> kind, bindings |-> [n \in Names |-> None], transcript |-> {}]
Fresh == Empty("state")
Absent == Empty("absent")
NoKick == [st |-> "none", snap |-> Absent, pending |-> FALSE]

NoProg == [loop |-> FALSE, continue |-> FALSE, shared |-> FALSE]
OverItems(x) == [t \in Turns |-> [i \in Items |-> x]]

Init ==
  /\ rt = Absent /\ hydrations = {}
  /\ pc = [t \in Turns |-> "new"]
  /\ prog = [t \in Turns |-> NoProg] /\ it = OverItems("new") /\ frame = OverItems(0)
  /\ nxt = [t \in Turns |-> 1] /\ firstError = [t \in Turns |-> 0]
  /\ kick = NoKick /\ file = Absent
  /\ crashes = 0 /\ faults = 0 /\ readFailed = FALSE /\ writeFailed = FALSE
-----------------------------------------------------------------------------
(* Hydration. *)

\* Mutant: every turn that finds no runtime hydrates on its own.
GetOrCreateAlone(t) ==
  /\ pc[t] = "new"
  /\ pc' = [pc EXCEPT ![t] = IF rt # Absent THEN "ready" ELSE "hydrate"]
  /\ hydrations' = IF rt # Absent THEN hydrations ELSE {t}

\* getOrCreateBoundedRuntime: the runtime, or the hydration under way, or a
\* new one.
GetOrCreate(t) ==
  /\ pc[t] = "new"
  /\ IF rt # Absent THEN pc' = [pc EXCEPT ![t] = "ready"] /\ UNCHANGED hydrations
     ELSE pc' = [pc EXCEPT ![t] = "hydrate"] /\ hydrations' = hydrations \cup {t}

Arrive(t) ==
  /\ GetOrCreate(t)
  /\ UNCHANGED <<rt, loopVars, kick, file, crashes, faults, readFailed, writeFailed>>

\* readBoundedState: no file, a file, or an error, after which hydrate goes on
\* with a fresh runtime and leaves the file.
ReadBoundedState ==
  \/ /\ file = Absent /\ rt' = Fresh /\ UNCHANGED <<faults, readFailed>>
  \/ /\ file.kind = "state" /\ rt' = file /\ UNCHANGED <<faults, readFailed>>
  \/ /\ faults < MaxFaults /\ faults' = faults + 1
     /\ rt' = Fresh /\ readFailed' = TRUE

\* The hydration ends for everyone who awaits it.
Hydrate ==
  /\ \E t \in hydrations : pc[t] = "hydrate"
  /\ ReadBoundedState
  /\ pc' = [t \in Turns |-> IF t \in hydrations THEN "ready" ELSE pc[t]]
  /\ hydrations' = {t \in Turns : pc'[t] = "hydrate"}
  /\ UNCHANGED <<loopVars, kick, file, crashes, writeFailed>>
-----------------------------------------------------------------------------
(* The save. *)

\* Mutant: a turn that ends during a write leaves the save to that write.
SchedulePersistOnce(r) ==
  kick' = IF kick.st = "none" THEN [st |-> "write", snap |-> r, pending |-> FALSE] ELSE kick

\* Mutant: while another turn runs, the save is left to that turn.
SchedulePersistLast(r) ==
  kick' = IF \E u \in Turns \ r.transcript : pc[u] \in {"loop", "assign"} THEN kick
          ELSE [st |-> "write", snap |-> r, pending |-> FALSE]

\* schedulePersist with runtime r: writeBoundedState takes its snapshot at
\* once, or the writer under way is told to write again.
SchedulePersist(r) ==
  kick' = IF kick.st = "none" THEN [st |-> "write", snap |-> r, pending |-> FALSE]
          ELSE [kick EXCEPT !.pending = TRUE]

\* The loop of the writer: again if something was scheduled, or delete the entry.
Again == IF kick.pending THEN [st |-> "write", snap |-> rt, pending |-> FALSE] ELSE NoKick

\* open, write and sync of the staging file, which nobody reads: what it holds
\* matters only once it is renamed.
WriteStaged ==
  /\ kick.st = "write"
  /\ kick' = [kick EXCEPT !.st = "rename"]
  /\ UNCHANGED <<rt, hydrations, pc, loopVars, file, crashes, faults, readFailed, writeFailed>>

WriteRename ==
  /\ kick.st = "rename"
  /\ file' = kick.snap
  /\ kick' = Again /\ writeFailed' = FALSE
  /\ UNCHANGED <<rt, hydrations, pc, loopVars, crashes, faults, readFailed>>

\* Either fails: a line in the log, and the loop goes on.
WriteFails ==
  /\ kick.st # "none" /\ faults < MaxFaults
  /\ faults' = faults + 1
  /\ kick' = Again /\ writeFailed' = TRUE
  /\ UNCHANGED <<rt, hydrations, pc, loopVars, file, crashes, readFailed>>
-----------------------------------------------------------------------------
(* Turns. *)

Concurrency == IF Parallel <= 1 THEN 1 ELSE IF Parallel <= N THEN Parallel ELSE IF N = 0 THEN 1 ELSE N

\* The command does not parse, or is empty: an error, nothing recorded.
ParseError(t) ==
  /\ pc[t] = "ready"
  /\ pc' = [pc EXCEPT ![t] = "done"]
  /\ UNCHANGED <<rt, hydrations, loopVars, kick, file, crashes, faults, readFailed, writeFailed>>

\* executeProgram ends a statement: recordTurn, then schedulePersist.
Record(t, bindings) ==
  LET r == [kind |-> "state", bindings |-> bindings, transcript |-> rt.transcript \cup {t}] IN
  /\ rt' = r /\ SchedulePersist(r)
  /\ pc' = [pc EXCEPT ![t] = "done"]

\* Mutant: the iteration variable lives in one place for all iterations.
PushFrameShared(t, S) == frame' = [frame EXCEPT ![t] = [i \in Items |->
                           IF S = {} THEN frame[t][i] ELSE CHOOSE k \in S : \A j \in S : j <= k]]

\* withPushedFrame: each iteration of S starts with a frame of its own.
PushFrame(t, S) == frame' = [frame EXCEPT ![t] = [i \in Items |-> IF i \in S THEN i ELSE frame[t][i]]]

\* executeForeachBlock: the workers of runBounded pull their first indices.
ForeachStart(t) ==
  /\ pc[t] = "ready"
  /\ \E p \in [loop : {TRUE}, continue : BOOLEAN, shared : BOOLEAN] : prog' = [prog EXCEPT ![t] = p]
  /\ LET S == {i \in Items : i <= Concurrency} IN
     /\ it' = [it EXCEPT ![t] = [i \in Items |-> IF i \in S THEN "call" ELSE "new"]]
     /\ PushFrame(t, S)
     /\ nxt' = [nxt EXCEPT ![t] = Cardinality(S) + 1]
  /\ pc' = [pc EXCEPT ![t] = "loop"]
  /\ UNCHANGED <<rt, hydrations, firstError, kick, file, crashes, faults, readFailed, writeFailed>>

Active(t) == {i \in Items : it[t][i] \in {"call", "save"}}

\* A worker that is done with its iteration pulls the next index.
Pull(t) ==
  /\ pc[t] = "loop" /\ firstError[t] = 0 /\ nxt[t] <= N
  /\ Cardinality(Active(t)) < Concurrency
  /\ it' = [it EXCEPT ![t][nxt[t]] = "call"]
  /\ PushFrame(t, {nxt[t]})
  /\ nxt' = [nxt EXCEPT ![t] = @ + 1]
  /\ UNCHANGED <<rt, hydrations, pc, prog, firstError, kick, file,
                 crashes, faults, readFailed, writeFailed>>

\* A statement of iteration i threw: record it and break, or abort the block,
\* whose error is the first one.
IterationFails(t, i) ==
  /\ it' = [it EXCEPT ![t][i] = "err"] /\ frame' = [frame EXCEPT ![t][i] = 0]
  /\ firstError' = IF prog[t].continue \/ firstError[t] # 0 THEN firstError ELSE [firstError EXCEPT ![t] = i]

\* The first statement of an iteration ends.
CallEnds(t, i) ==
  /\ pc[t] = "loop" /\ it[t][i] = "call"
  /\ \/ it' = [it EXCEPT ![t][i] = "save"] /\ UNCHANGED <<firstError, frame>>
     \/ IterationFails(t, i)
  /\ UNCHANGED <<rt, hydrations, pc, prog, nxt, kick, file,
                 crashes, faults, readFailed, writeFailed>>

\* The save statement's target: literal, or interpolated from the frame.
SaveName(t, i) == IF prog[t].shared THEN Shared ELSE frame[t][i]

\* runSave: CONFLICT if the name is bound, else bind it; nothing runs between
\* the look and the write.
RunSave(t, i) ==
  IF rt.bindings[SaveName(t, i)] # None THEN IterationFails(t, i) /\ UNCHANGED rt
  ELSE /\ rt' = [rt EXCEPT !.bindings[SaveName(t, i)] = <<t, frame[t][i]>>]
       /\ it' = [it EXCEPT ![t][i] = "ok"] /\ frame' = [frame EXCEPT ![t][i] = 0]
       /\ UNCHANGED firstError

SaveStep(t, i) ==
  /\ pc[t] = "loop" /\ it[t][i] = "save"
  /\ RunSave(t, i)
  /\ UNCHANGED <<hydrations, pc, prog, nxt, kick, file,
                 crashes, faults, readFailed, writeFailed>>

\* Mutant: the block returns as soon as one iteration failed.
AllWorkersLeftRace(t) == firstError[t] # 0 \/ (nxt[t] > N /\ Active(t) = {})

\* Promise.all: no worker is inside an iteration, and none will pull again.
AllWorkersLeft(t) == Active(t) = {} /\ (firstError[t] # 0 \/ nxt[t] > N)

ForeachEnds(t) ==
  /\ pc[t] = "loop" /\ AllWorkersLeft(t)
  /\ Record(t, rt.bindings)
  /\ UNCHANGED <<hydrations, loopVars, file, crashes, faults, readFailed, writeFailed>>

\* $v = call ..., or the same in the branch of an if: the predicate is
\* evaluated before the call.
AssignStart(t) ==
  /\ pc[t] = "ready"
  /\ \/ pc' = [pc EXCEPT ![t] = "assign"] /\ UNCHANGED <<rt, kick>>
     \/ rt.bindings[V] # None /\ Record(t, rt.bindings)
  /\ UNCHANGED <<hydrations, loopVars, file, crashes, faults, readFailed, writeFailed>>

\* finishAndBind replaces $v whatever it was; a call that fails is recorded too.
AssignEnds(t) ==
  /\ pc[t] = "assign"
  /\ \/ Record(t, [rt.bindings EXCEPT ![V] = <<t>>])
     \/ Record(t, rt.bindings)
  /\ UNCHANGED <<hydrations, loopVars, file, crashes, faults, readFailed, writeFailed>>

\* The process dies; the files stay.  What ran is of another life.
Crash ==
  /\ crashes < MaxCrashes
  /\ crashes' = crashes + 1
  /\ rt' = Absent /\ hydrations' = {} /\ kick' = NoKick /\ writeFailed' = FALSE
  /\ pc' = [t \in Turns |-> IF pc[t] = "new" THEN "new" ELSE "gone"]
  /\ prog' = [t \in Turns |-> NoProg] /\ it' = OverItems("new") /\ frame' = OverItems(0)
  /\ nxt' = [t \in Turns |-> 1] /\ firstError' = [t \in Turns |-> 0]
  /\ UNCHANGED <<file, faults, readFailed>>
-----------------------------------------------------------------------------
Next ==
  \/ \E t \in Turns :
       \/ Arrive(t) \/ ParseError(t) \/ ForeachStart(t) \/ Pull(t) \/ ForeachEnds(t)
       \/ AssignStart(t) \/ AssignEnds(t)
       \/ \E i \in Items : CallEnds(t, i) \/ SaveStep(t, i)
  \/ Hydrate \/ WriteStaged \/ WriteRename \/ WriteFails \/ Crash

Spec == Init /\ [][Next]_vars

\* File operations come back, and a turn whose calls are over goes on.  Nothing
\* is assumed of the calls themselves: the body of an HTTP answer is read
\* without a timer.
Fairness ==
  /\ WF_vars(Hydrate)
  /\ WF_vars(WriteStaged) /\ WF_vars(WriteRename)
  /\ \A t \in Turns : WF_vars(ForeachEnds(t)) /\ WF_vars(Pull(t))
  /\ \A t \in Turns, i \in Items : WF_vars(SaveStep(t, i))

FairSpec == Spec /\ Fairness
-----------------------------------------------------------------------------
(* Properties. *)

TypeOK ==
  LET Vals == {None} \cup {<<t>> : t \in Turns} \cup (Turns \X Items)
      States == [kind : {"state", "absent"}, bindings : [Names -> Vals], transcript : SUBSET Turns] IN
  /\ rt \in States /\ hydrations \subseteq Turns
  /\ pc \in [Turns -> {"new", "hydrate", "ready", "loop", "assign", "done", "gone"}]
  /\ prog \in [Turns -> [loop : BOOLEAN, continue : BOOLEAN, shared : BOOLEAN]]
  /\ nxt \in [Turns -> 1..(N + 1)] /\ firstError \in [Turns -> 0..N]
  /\ it \in [Turns -> [Items -> {"new", "call", "save", "ok", "err"}]]
  /\ frame \in [Turns -> [Items -> 0..N]]
  /\ kick \in [st : {"none", "write", "rename"}, snap : States, pending : BOOLEAN]
  /\ file \in States
  /\ crashes \in 0..MaxCrashes /\ faults \in 0..MaxFaults
  /\ readFailed \in BOOLEAN /\ writeFailed \in BOOLEAN

\* An iteration that is reported without an error has its own item in the
\* session under its own name, and of the items that save under one name at
\* most one is reported so: concurrent iterations neither see each other's
\* variable nor overwrite each other's save.
SavedIsOwn ==
  \A t \in Turns : pc[t] \in {"loop", "done"} =>
    \A i \in Items : it[t][i] = "ok" =>
      rt.bindings[IF prog[t].shared THEN Shared ELSE i] = <<t, i>>

\* A foreach that returned has no iteration still running that could touch the
\* session, never ran more of the list than it reports, and skipped an item
\* only if it aborted; one told to continue ran them all.
BlockIsOver ==
  \A t \in Turns : pc[t] = "done" /\ prog[t].loop =>
    /\ Active(t) = {}
    /\ firstError[t] = 0 => \A i \in Items : it[t][i] \in {"ok", "err"}
    /\ firstError[t] # 0 => ~prog[t].continue /\ it[t][firstError[t]] = "err"

\* When no save is under way and no turn is at work, bounded-state.json is the
\* state in memory, unless the last write failed, or nothing was saved since
\* the start or since a hydration that began afresh.
DiskFollows ==
  kick.st = "none" /\ rt # Absent /\ ~writeFailed
    /\ rt.transcript \cap {t \in Turns : pc[t] = "done"} # {}
    /\ (\A t \in Turns : pc[t] \notin {"loop", "assign"})
  => file = rt

\* A turn that was saved stays saved through later writes, crashes and
\* hydrations, unless a hydration could not read the file.
SavedTurnsKept ==
  [][~readFailed' => file.transcript \subseteq file'.transcript]_vars

\* Every recorded turn reaches the disk, unless a write fails or the process dies.
EventuallyDurable ==
  \A t \in Turns : (pc[t] = "done" /\ t \in rt.transcript)
                     ~> (t \in file.transcript \/ faults > 0 \/ pc[t] = "gone")
=============================================================================
