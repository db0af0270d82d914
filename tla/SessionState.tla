---------------------------- MODULE SessionState ----------------------------
(***************************************************************************)
(* One session of the shell: its in-memory state, the coalescing flush     *)
(* loop that keeps state.json in step with it, the requests that mutate it *)
(* and wait for the flush, process crashes, and POST /resume.              *)
(*                                                                         *)
(* src/session/state.ts, src/session/persistence.ts, and the parts of      *)
(* src/http/routes/{exec,state}.ts and src/session/manager.ts that call    *)
(* them, with A2E_SESSION_PERSISTENCE=true.                                *)
(*                                                                         *)
(* JavaScript runs to completion between two awaits, so an action is one   *)
(* such run.  cwd, env and bindings are abstracted to the set of requests  *)
(* whose mutation they include, historySize to the set of requests whose   *)
(* transcript entry was appended.                                          *)
(***************************************************************************)
EXTENDS Naturals, FiniteSets

CONSTANTS
  ExecReqs,     \* POST /sessions/:id/exec
  StreamReqs,   \* the ones among them with Accept: text/event-stream
  PatchReqs,    \* PATCH /sessions/:id/{cwd,env}
  Creator,      \* POST /sessions
  NoState,      \* no such file on disk
  Torn,         \* a file opened for writing whose body is not complete
  MaxCrashes    \* bound: process crashes

Mutators == ExecReqs \cup PatchReqs
Clients  == Mutators \cup {Creator}

\* What one state.json holds.
PersistedSession ==
  [turn : Nat, effects : SUBSET Mutators, history : SUBSET ExecReqs]

ASSUME ConstantsAssumption ==
  /\ Creator \notin Mutators
  /\ ExecReqs \cap PatchReqs = {}
  /\ StreamReqs \subseteq ExecReqs
  /\ NoState \notin PersistedSession
  /\ Torn \notin PersistedSession
  /\ MaxCrashes \in Nat

VARIABLES
  live,          \* "absent", "up" (in the manager's map) or "down" (crashed)
  mem,           \* the session object's fields
  persistDirty,  \* a mutation happened since the running write took its snapshot
  flushStep,     \* "idle" (persistFlush is null) or the await writeState is in
  body,          \* the snapshot being written
  tmp,           \* content of state.json.tmp
  disk,          \* content of state.json
  pc,            \* where each request is
  turnOf,        \* the turn an exec request was given; 0 before
  mutated,       \* the requests whose mutation was applied
  stale,         \* history: the last write attempt of this process failed
  lossy,         \* history: a process crashed while stale
  crashes

flushVars == <<persistDirty, flushStep, body>>
reqVars   == <<turnOf, mutated>>
ghostVars == <<stale, lossy, crashes>>
vars == <<live, mem, flushVars, tmp, disk, pc, reqVars, ghostVars>>

Fresh == [turn |-> 0, effects |-> {}, history |-> {}]

\* The awaits that end when a file operation or the flush loop does, and, with
\* them, the ones that last as long as a command or a slow client does.
Saving   == {"append", "flush", "settled"}
Awaiting == {"exec", "sent"} \cup Saving

\* "dropped" marks an answered request whose effect a crash discarded.
Steps == {"idle", "ok", "err", "lost", "dropped"} \cup Awaiting

\* The requests that ended with success: the 200 (201) was sent or, for a
\* stream, the response closed without an error event.  The `done' event of a
\* stream comes earlier and is no such promise.
Acked    == {r \in Clients : pc[r] = "ok"}
Answered == {r \in Clients : pc[r] \in {"ok", "dropped"}}

\* What the successful end of r tells its client.
Claim(r) == [req |-> r, turn |-> turnOf[r], mutated |-> r \in mutated]

\* State s is complete and holds what claim c says.
Covers(s, c) ==
  /\ s \in PersistedSession
  /\ c.turn <= s.turn
  /\ c.req \in ExecReqs => c.req \in s.history
  /\ c.mutated => c.req \in s.effects

Init ==
  /\ live = "absent"
  /\ mem = Fresh
  /\ persistDirty = FALSE
  /\ flushStep = "idle"
  /\ body = NoState
  /\ tmp = NoState
  /\ disk = NoState
  /\ pc = [r \in Clients |-> "idle"]
  /\ turnOf = [r \in Clients |-> 0]
  /\ mutated = {}
  /\ stale = FALSE
  /\ lossy = FALSE
  /\ crashes = 0
-----------------------------------------------------------------------------
(* The requests. *)

\* Mutant: a mutation made while a write is running is not remembered.
MarkDirtyForgets(m) ==
  /\ mem' = m
  /\ flushStep' = "open"
  /\ body' = IF flushStep = "idle" THEN m ELSE body
  /\ UNCHANGED persistDirty

\* markDirty after a mutation that leaves memory at m: start the flush loop,
\* whose first iteration clears the flag and takes its snapshot at once, or
\* leave the flag for the loop that is running.
MarkDirty(m) ==
  /\ mem' = m
  /\ IF flushStep = "idle"
     THEN /\ persistDirty' = FALSE
          /\ flushStep' = "open"
          /\ body' = m
     ELSE /\ persistDirty' = TRUE
          /\ UNCHANGED <<flushStep, body>>

\* Several mutations in one run, the last of which leaves memory at m: the loop
\* that the first one starts takes its snapshot before the others, which leave
\* the flag set.  A mutation that is not complete counts as none.
MarkDirtyRepeatedly(m) ==
  /\ mem' = m
  /\ persistDirty' = TRUE
  /\ IF flushStep = "idle"
     THEN flushStep' = "open" /\ body' = mem
     ELSE UNCHANGED <<flushStep, body>>

\* SessionManager.create, from createSession on: the session enters the map
\* and the response waits for the first state.json.
Create ==
  /\ live = "absent"
  /\ live' = "up"
  /\ MarkDirty(Fresh)
  /\ pc' = [pc EXCEPT ![Creator] = "flush"]
  /\ UNCHANGED <<tmp, disk, reqVars, ghostVars>>

\* A client that knows the session id reaches the live session.
Reaches(r) == live = "up" /\ pc[Creator] = "ok" /\ pc[r] = "idle"

\* The exec route has parsed its body and manager.get found the session; a
\* stream starts.
ExecStart(r) ==
  /\ Reaches(r)
  /\ pc' = [pc EXCEPT ![r] = "exec"]
  /\ UNCHANGED <<live, mem, flushVars, tmp, disk, reqVars, ghostVars>>

\* executeTurn changes the session: bind, setCwd, setEnv or unsetEnv.
ExecMutate(r) ==
  /\ pc[r] = "exec" /\ r \notin mutated
  /\ MarkDirty([mem EXCEPT !.effects = @ \cup {r}])
  /\ mutated' = mutated \cup {r}
  /\ UNCHANGED <<live, tmp, disk, pc, turnOf, ghostVars>>

\* executeTurn rejects: the request fails and takes no turn.  A stream sends
\* an error event.
ExecThrow(r) ==
  /\ pc[r] = "exec" /\ r \notin mutated
  /\ pc' = [pc EXCEPT ![r] = "err"]
  /\ UNCHANGED <<live, mem, flushVars, tmp, disk, reqVars, ghostVars>>

\* executeTurn returns to streamExecSSE: `done' is queued and the drain that
\* sends it awaited, before the turn has a number.
SendDone(r) ==
  /\ r \in StreamReqs /\ pc[r] = "exec"
  /\ pc' = [pc EXCEPT ![r] = "sent"]
  /\ UNCHANGED <<live, mem, flushVars, tmp, disk, reqVars, ghostVars>>

\* Mutant: the turn is numbered by the entries recorded so far.
NextTurnFromHistory == Cardinality(mem.history) + 1

\* nextTurn: turn++.
NextTurn == mem.turn + 1

\* executeTurn returns, or a stream's drain does; nextTurn() numbers the turn
\* and marks the session dirty, and appendTranscript starts its file append.
ExecFinish(r) ==
  /\ pc[r] = IF r \in StreamReqs THEN "sent" ELSE "exec"
  /\ MarkDirty([mem EXCEPT !.turn = NextTurn])
  /\ turnOf' = [turnOf EXCEPT ![r] = NextTurn]
  /\ pc' = [pc EXCEPT ![r] = "append"]
  /\ UNCHANGED <<live, tmp, disk, mutated, ghostVars>>

\* appendTranscript's file append is done: count it, mark dirty, and await
\* flush(), which is the promise of the loop that now runs.
AppendDone(r) ==
  /\ pc[r] = "append"
  /\ MarkDirty([mem EXCEPT !.history = @ \cup {r}])
  /\ pc' = [pc EXCEPT ![r] = "flush"]
  /\ UNCHANGED <<live, tmp, disk, reqVars, ghostVars>>

\* appendTranscript throws: SIZE_LIMIT, or the file append fails.
AppendThrow(r) ==
  /\ pc[r] = "append"
  /\ pc' = [pc EXCEPT ![r] = "err"]
  /\ UNCHANGED <<live, mem, flushVars, tmp, disk, reqVars, ghostVars>>

\* PATCH /cwd, and PATCH /env with one key or with several, from the mutation on.
Patch(r) ==
  /\ Reaches(r)
  /\ LET m == [mem EXCEPT !.effects = @ \cup {r}] IN
       MarkDirty(m) \/ MarkDirtyRepeatedly(m)
  /\ mutated' = mutated \cup {r}
  /\ pc' = [pc EXCEPT ![r] = "flush"]
  /\ UNCHANGED <<live, tmp, disk, turnOf, ghostVars>>

\* flush() resolved: the route sends its 200 (201 for create), or the stream
\* closes.
Respond(r) ==
  /\ pc[r] = "settled"
  /\ pc' = [pc EXCEPT ![r] = "ok"]
  /\ UNCHANGED <<live, mem, flushVars, tmp, disk, reqVars, ghostVars>>
-----------------------------------------------------------------------------
(* runFlush's loop around writeState. *)

\* fsp.open(tmp, "w") is done: the file is truncated.
TmpOpened ==
  /\ flushStep = "open"
  /\ flushStep' = "write"
  /\ tmp' = Torn
  /\ UNCHANGED <<live, mem, persistDirty, body, disk, pc, reqVars, ghostVars>>

\* writeFile, sync and close are done.
TmpWritten ==
  /\ flushStep = "write"
  /\ flushStep' = "rename"
  /\ tmp' = body
  /\ UNCHANGED <<live, mem, persistDirty, body, disk, pc, reqVars, ghostVars>>

\* The requests awaiting the loop's promise go on.
SettleFlush == [r \in Clients |-> IF pc[r] = "flush" THEN "settled" ELSE pc[r]]

\* Mutant: the loop's promise resolves after one write.
LoopCheckOnce ==
  /\ flushStep' = "idle"
  /\ body' = NoState
  /\ pc' = SettleFlush
  /\ UNCHANGED persistDirty

\* The loop's condition after a write: another iteration with a new
\* snapshot, or the promise resolves.
LoopCheck ==
  IF persistDirty
  THEN /\ persistDirty' = FALSE
       /\ flushStep' = "open"
       /\ body' = mem
       /\ UNCHANGED pc
  ELSE /\ flushStep' = "idle"
       /\ body' = NoState
       /\ pc' = SettleFlush
       /\ UNCHANGED persistDirty

Renamed ==
  /\ flushStep = "rename"
  /\ disk' = tmp
  /\ tmp' = NoState
  /\ stale' = FALSE
  /\ LoopCheck
  /\ UNCHANGED <<live, mem, reqVars, lossy, crashes>>

\* Mutant: a failed write is retried for as long as it fails.
WriteFailedRetries ==
  /\ flushStep # "idle"
  /\ stale' = TRUE
  /\ persistDirty' = FALSE
  /\ flushStep' = "open"
  /\ body' = mem
  /\ UNCHANGED <<live, mem, tmp, disk, pc, reqVars, lossy, crashes>>

\* One of writeState's calls rejects.  runFlush logs it and carries on: the
\* dirty flag was cleared before the write.
WriteFailed ==
  /\ flushStep # "idle"
  /\ stale' = TRUE
  /\ LoopCheck
  /\ UNCHANGED <<live, mem, tmp, disk, reqVars, lossy, crashes>>
-----------------------------------------------------------------------------
(* Crash and resume. *)

\* Requests in progress die with the process; answered ones keep their
\* answer, and lose their effect if state.json does not have it.
PcAfterCrash ==
  [r \in Clients |->
     IF pc[r] \in Awaiting THEN "lost"
     ELSE IF pc[r] = "ok" /\ ~Covers(disk, Claim(r)) THEN "dropped"
     ELSE pc[r]]

Crash ==
  /\ live = "up" /\ crashes < MaxCrashes
  /\ live' = "down"
  /\ crashes' = crashes + 1
  /\ pc' = PcAfterCrash
  /\ mem' = Fresh
  /\ persistDirty' = FALSE
  /\ flushStep' = "idle"
  /\ body' = NoState
  /\ stale' = FALSE
  /\ lossy' = (lossy \/ stale)
  /\ UNCHANGED <<tmp, disk, reqVars>>

\* createSession's restored fields.
Restored == disk

\* SessionManager.resume by a client that holds the session id.  readState
\* rejects a missing or malformed file, and then nothing changes.
Resume ==
  /\ live = "down" /\ pc[Creator] = "ok" /\ disk \in PersistedSession
  /\ live' = "up"
  /\ mem' = Restored
  /\ UNCHANGED <<flushVars, tmp, disk, pc, reqVars, ghostVars>>
-----------------------------------------------------------------------------
Next ==
  \/ Create
  \/ \E r \in ExecReqs : \/ ExecStart(r) \/ ExecMutate(r) \/ ExecThrow(r)
                         \/ SendDone(r) \/ ExecFinish(r) \/ AppendDone(r) \/ AppendThrow(r)
  \/ \E r \in PatchReqs : Patch(r)
  \/ \E r \in Clients : Respond(r)
  \/ TmpOpened \/ TmpWritten \/ Renamed \/ WriteFailed
  \/ Crash \/ Resume

Spec == Init /\ [][Next]_vars

\* A file operation completes or fails, and a ready continuation runs.  A
\* command need not end, a slow client need not read its `done', and nothing
\* makes clients send requests, the process crash or anyone resume it.
Fairness ==
  /\ \A r \in ExecReqs : WF_vars(AppendDone(r) \/ AppendThrow(r))
  /\ \A r \in Clients : WF_vars(Respond(r))
  /\ WF_vars(TmpOpened \/ TmpWritten \/ Renamed \/ WriteFailed)

FairSpec == Spec /\ Fairness
-----------------------------------------------------------------------------
(* Properties. *)

\* The types.  In particular state.json is never torn: the body is staged in
\* state.json.tmp and renamed over it.
TypeOK ==
  /\ live \in {"absent", "up", "down"}
  /\ mem \in PersistedSession
  /\ persistDirty \in BOOLEAN
  /\ flushStep \in {"idle", "open", "write", "rename"}
  /\ body \in PersistedSession \cup {NoState}
  /\ tmp \in PersistedSession \cup {NoState, Torn}
  /\ disk \in PersistedSession \cup {NoState}
  /\ pc \in [Clients -> Steps]
  /\ turnOf \in [Clients -> Nat]
  /\ mutated \in SUBSET Mutators
  /\ stale \in BOOLEAN
  /\ lossy \in BOOLEAN
  /\ crashes \in Nat

\* While the last write succeeded, state.json covers every request that ended
\* with success: its turn, its transcript entry and its mutation.  This is
\* what awaiting flush() before the 200, and before a stream is closed, is
\* for, whatever other requests, the running write and earlier crashes were
\* doing.  It says nothing of a stream whose client has only seen `done'.
AckDurable ==
  ~stale => \A r \in Acked : Covers(disk, Claim(r))

\* No lost update: when the flush loop is not running and its last write
\* succeeded, state.json is the session's state.
IdleMeansSaved ==
  live = "up" /\ flushStep = "idle" /\ ~stale => disk = mem

\* Two answered execs share a turn number only when a process crashed after
\* its last write had failed, and the crash dropped one of the two: nextTurn
\* counts on from the saved turn, so a number is given again only when
\* state.json did not have it.
AckedTurnsUnique ==
  \A r, s \in Answered \cap ExecReqs :
    turnOf[r] = turnOf[s] /\ r # s => lossy /\ "dropped" \in {pc[r], pc[s]}

\* One state covers what another one does.
Leq(a, b) ==
  \/ a = NoState
  \/ /\ a \in PersistedSession /\ b \in PersistedSession
     /\ a.turn <= b.turn
     /\ a.effects \subseteq b.effects
     /\ a.history \subseteq b.history

\* A write never takes state.json back: across writes, crashes and resumes,
\* what it covers is kept.
SavedStateGrows == [][Leq(disk, disk')]_disk

\* The abstract durable session, as this one implements it.
Durable == INSTANCE DurableSession WITH
  running  <- (live = "up"),
  working  <- mem,
  saved    <- disk,
  acked    <- {Claim(r) : r \in Acked},
  degraded <- stale

\* The flush loop and the requests that wait for it implement the durable
\* session: every step is a step it allows, or invisible to it.
ImplementsDurableSession == Durable!ASpec

\* Every request past its command is answered or dies with the process: the
\* append and the flush end, although each mutation made meanwhile extends
\* the flush loop the request waits for.
RequestsSettle ==
  \A r \in Clients : pc[r] \in Saving ~> pc[r] \notin Awaiting
=============================================================================
