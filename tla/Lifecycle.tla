----------------------------- MODULE Lifecycle -----------------------------
(***************************************************************************)
(* Graceful shutdown: the in-flight counter and drain state machine of     *)
(* src/http/lifecycle.ts, the drain gate of src/http/server.ts that feeds  *)
(* it, and the shutdown sequence of src/index.ts.                          *)
(*                                                                         *)
(* A streaming exec passes the gate like any other mutating request, but   *)
(* its handler returns as soon as the response stream is open; the command *)
(* runs on.                                                                *)
(***************************************************************************)
EXTENDS Naturals, FiniteSets

CONSTANTS
  Plain,      \* POST, PATCH and DELETE requests whose handler does all the work
  Streaming,  \* POST /exec with Accept: text/event-stream
  Reads       \* GET requests, and whatever is safe during a drain

Mutating == Plain \cup Streaming
Requests == Mutating \cup Reads

ASSUME RequestsAssumption ==
  /\ IsFiniteSet(Requests)
  /\ Plain \cap Streaming = {}
  /\ Mutating \cap Reads = {}

VARIABLES
  current,   \* the lifecycle state
  count,     \* requests between checkAndIncrement and decrement
  resolver,  \* drainResolvers holds waitForDrain's callback
  shutdown,  \* where index.ts's shutdown() is
  clean,     \* what waitForDrain resolved to
  place      \* where each request is

drainVars == <<current, count, resolver, shutdown, clean, place>>

Active == {r \in Requests : place[r] = "active"}

DrainInit ==
  /\ current = "accepting"
  /\ count = 0
  /\ resolver = FALSE
  /\ shutdown = "none"
  /\ clean = FALSE
  /\ place = [r \in Requests |-> "idle"]
-----------------------------------------------------------------------------
(* The drain gate. *)

\* Mutant: only the drain refuses, not what comes after it.
RefusesDrainingOnly(r) == r \in Mutating /\ current = "draining"

\* checkAndIncrement's test.
Refuses(r) == r \in Mutating /\ current # "accepting"

\* A request reaches the gate and passes it.
Enter(r) ==
  /\ shutdown # "exited" /\ place[r] = "idle"
  /\ ~Refuses(r)
  /\ count' = count + 1
  /\ place' = [place EXCEPT ![r] = "active"]
  /\ UNCHANGED <<current, resolver, shutdown, clean>>

\* 503 SERVICE_UNAVAILABLE.
Reject(r) ==
  /\ shutdown # "exited" /\ place[r] = "idle"
  /\ Refuses(r)
  /\ place' = [place EXCEPT ![r] = "refused"]
  /\ UNCHANGED <<current, count, resolver, shutdown, clean>>

\* Mutant: the drain is over when one request is left.
LastOutEarly == count <= 2

\* The counter is at zero once this request has left.
LastOut == count = 1

\* decrement, with notifyIfIdle: the last request out during a drain calls the
\* resolver, even when waitForDrain has timed out in the meantime.
Decrement ==
  /\ count' = count - 1
  /\ IF LastOut /\ current = "draining" /\ resolver
     THEN /\ resolver' = FALSE
          /\ current' = "stopped"
          /\ IF shutdown = "waiting"
             THEN shutdown' = "closing" /\ clean' = TRUE
             ELSE UNCHANGED <<shutdown, clean>>
     ELSE UNCHANGED <<resolver, current, shutdown, clean>>

\* What is left to do for r when its handler has returned.
AfterHandler(r) == IF r \in Streaming THEN "streaming" ELSE "done"

\* The handler returns or throws, and the gate's finally runs.
Leave(r) ==
  /\ shutdown # "exited" /\ place[r] = "active"
  /\ Decrement
  /\ place' = [place EXCEPT ![r] = AfterHandler(r)]

\* A streaming exec runs to its end.
StreamEnds(r) ==
  /\ shutdown # "exited" /\ place[r] = "streaming"
  /\ place' = [place EXCEPT ![r] = "done"]
  /\ UNCHANGED <<current, count, resolver, shutdown, clean>>
-----------------------------------------------------------------------------
(* The shutdown sequence. *)

\* SIGTERM or SIGINT: beginDrain, and waitForDrain up to its await, in one run.
\* A further signal finds shuttingDown set and does nothing.
Signal ==
  /\ shutdown = "none"
  /\ IF count = 0
     THEN current' = "stopped" /\ shutdown' = "closing" /\ clean' = TRUE
          /\ UNCHANGED resolver
     ELSE current' = "draining" /\ shutdown' = "waiting" /\ resolver' = TRUE
          /\ UNCHANGED clean
  /\ UNCHANGED <<count, place>>

\* Mutant: the timer is forgotten.
GraceTimeoutNever == FALSE /\ UNCHANGED drainVars

\* The grace period elapses before the last request is out; the resolver stays
\* registered.
GraceTimeout ==
  /\ shutdown = "waiting"
  /\ shutdown' = "closing"
  /\ clean' = FALSE
  /\ UNCHANGED <<current, count, resolver, place>>

\* server.close, the cache's shutdown and the 200 ms timer; connections that
\* are open stay open.
CloseServer ==
  /\ shutdown = "closing"
  /\ shutdown' = "exiting"
  /\ UNCHANGED <<current, count, resolver, clean, place>>

\* process.exit(clean ? 0 : 1): whatever still runs is cut off.
Exit ==
  /\ shutdown = "exiting"
  /\ shutdown' = "exited"
  /\ place' = [r \in Requests |-> IF place[r] \in {"active", "streaming"}
                               THEN "cut" ELSE place[r]]
  /\ count' = 0
  /\ UNCHANGED <<current, resolver, clean>>

RequestStep(r) == Enter(r) \/ Reject(r) \/ Leave(r) \/ StreamEnds(r)

ShutdownStep == GraceTimeout \/ CloseServer \/ Exit

DrainNext == Signal \/ ShutdownStep \/ \E r \in Requests : RequestStep(r)

DrainSpec == DrainInit /\ [][DrainNext]_drainVars

\* Timers fire and promise reactions run; handlers need not ever return.
DrainFairSpec == DrainSpec /\ WF_drainVars(ShutdownStep)
-----------------------------------------------------------------------------
(* Properties. *)

\* Every variable has its type.
DrainTypeOK ==
  /\ current \in {"accepting", "draining", "stopped"}
  /\ count \in Nat
  /\ resolver \in BOOLEAN
  /\ shutdown \in {"none", "waiting", "closing", "exiting", "exited"}
  /\ clean \in BOOLEAN
  /\ place \in [Requests -> {"idle", "active", "streaming", "done", "refused", "cut"}]

\* Exit code 0 tells the truth about the gate: no mutating request that the
\* gate counts was cut off, although reads go on entering during the drain and
\* the grace timer races with the last request out.
CleanExitCutsNoMutation ==
  shutdown = "exited" /\ clean => \A r \in Plain : place[r] # "cut"

\* Once the state machine says `stopped', by the fast path, by the last request
\* out, or by a resolver that fires after the grace timeout, no mutating
\* request is inside the gate, nor will one be: the socket is still open.
StoppedMeansQuiet ==
  current = "stopped" => Active \cap Mutating = {}

\* After a signal the process exits, whatever the requests do.
ShutdownCompletes == shutdown = "waiting" \/ shutdown = "closing" ~> shutdown = "exited"
=============================================================================
