------------------------------ MODULE ExecTurn ------------------------------
(***************************************************************************)
(* One streaming exec from its start event to the close of its stream:     *)
(* streamExecSSE of src/http/routes/exec.ts with its queue of events, the  *)
(* turn of src/exec/pipeline.ts that fills it, and the subprocess, HTTP    *)
(* call or MCP call the turn waits for (src/exec/run.ts,                   *)
(* src/verbs/call.ts, src/mcp/invoke.ts).                                  *)
(*                                                                         *)
(* Output is counted in bytes.  One output pipe stands for stdout and      *)
(* stderr, whose handlers differ in the truncated flag only.  The client   *)
(* reads as slowly as it likes and may go away.  What the operating system *)
(* and the web framework do (pipes, exit and close events, writes on a     *)
(* stream that was closed) is external.                                    *)
(***************************************************************************)
EXTENDS Naturals, Sequences

CONSTANTS
  Cap,        \* max_response_bytes
  MaxOut,     \* bound: bytes a command or an HTTP body produces
  MaxNotes    \* bound: MCP notifications during a call

ASSUME TurnAssumption == {Cap, MaxOut, MaxNotes} \subseteq Nat

VARIABLES
  pc,         \* where the request is
  runner,     \* what the turn waits for: "run", "cli", "http", "mcp" or "none"
  child,      \* "none", "running", or how it ended: "zero", "nonzero", "signal"
  holder,     \* a descendant of the child keeps the pipe open
  pipe, out,  \* bytes written and not yet read; bytes written in all
  kept,       \* stdoutLen: bytes accepted
  truncated, timedOut,
  decoder,    \* bytes the stream's TextDecoder holds back
  streamed,   \* bytes pushed to the stream
  res,        \* the response: "none", "ok", "fail" (exit code not 0), "error"
  bound,      \* bind_as was captured
  queue, writing,   \* events to send, and the one drain() awaits
  closed, client,   \* the stream was closed; the client is still there
  got,        \* events the client received
  overlap,    \* history: the last drain() found another one at work
  notes

procVars == <<runner, child, holder, pipe, out, kept, truncated, timedOut>>
sseVars == <<queue, writing, closed, client, got, overlap>>
turnVars == <<decoder, streamed, res, bound, notes>>
vars == <<pc, procVars, turnVars, sseVars>>

Idle == [ev |-> "none", lost |-> FALSE]

Init ==
  /\ pc = "start" /\ runner = "none" /\ child = "none" /\ holder = FALSE
  /\ pipe = 0 /\ out = 0 /\ kept = 0 /\ truncated = FALSE /\ timedOut = FALSE
  /\ decoder = 0 /\ streamed = 0 /\ res = "none" /\ bound = FALSE /\ notes = 0
  /\ queue = <<>> /\ writing = Idle /\ closed = FALSE /\ client = TRUE /\ got = <<>>
  /\ overlap = FALSE
-----------------------------------------------------------------------------
(* The stream. *)

\* queue.push(ev); void drain(): the running drain takes it, or a new one does
\* at once.
Push(ev) ==
  IF writing = Idle THEN writing' = [ev |-> ev, lost |-> FALSE] /\ UNCHANGED queue
  ELSE queue' = Append(queue, ev) /\ UNCHANGED writing

\* The write that drain() awaits is over.  A write issued after the close is
\* swallowed, and so is one for a client that left.
WriteDone ==
  /\ writing # Idle
  /\ got' = IF writing.lost \/ ~client THEN got ELSE Append(got, writing.ev)
  /\ IF queue = <<>> THEN writing' = Idle /\ UNCHANGED queue
     ELSE writing' = [ev |-> Head(queue), lost |-> closed] /\ queue' = Tail(queue)
  /\ UNCHANGED <<pc, procVars, turnVars, closed, client, overlap>>

\* Mutant: the last drain is started and not awaited.
FinishTurnNoWait ==
  /\ Push("done") /\ pc' = "append" /\ UNCHANGED overlap

\* done is queued, and drain() awaited: it returns at once if another one is at
\* work.
FinishTurn ==
  /\ Push("done")
  /\ IF writing = Idle THEN pc' = "drain" /\ UNCHANGED overlap
     ELSE pc' = "append" /\ overlap' = TRUE

Drained ==
  /\ pc = "drain" /\ writing = Idle
  /\ pc' = "append"
  /\ UNCHANGED <<procVars, turnVars, sseVars>>

\* appendTranscript and flush; the framework closes the stream afterwards.
Recorded ==
  /\ pc = "append"
  /\ pc' = "closed" /\ closed' = TRUE
  /\ UNCHANGED <<procVars, turnVars, queue, writing, client, got, overlap>>

\* One of them threw: an error event, past the queue, and the close.
RecordFails ==
  /\ pc = "append"
  /\ pc' = "closed" /\ closed' = TRUE
  /\ got' = IF client THEN Append(got, "error") ELSE got
  /\ UNCHANGED <<procVars, turnVars, queue, writing, client, overlap>>

ClientLeaves ==
  /\ client /\ pc # "closed"
  /\ client' = FALSE
  /\ UNCHANGED <<pc, procVars, turnVars, queue, writing, closed, got, overlap>>
-----------------------------------------------------------------------------
(* The turn. *)

\* The start event is written before the turn begins.
Start ==
  /\ pc = "start"
  /\ pc' = "turn" /\ got' = IF client THEN <<"start">> ELSE <<>>
  /\ UNCHANGED <<procVars, turnVars, queue, writing, closed, client, overlap>>

\* A turn that ends without output of its own.
EndTurn(r) == FinishTurn /\ res' = r /\ UNCHANGED <<decoder, streamed>>

\* interpolate, enforceBinaryAllowlist or the stdin refuse; or the command is
\* an export or unset, applied or denied.
EndsAtOnce ==
  /\ pc = "turn"
  /\ \E r \in {"ok", "error"} : EndTurn(r)
  /\ UNCHANGED <<procVars, bound, notes, closed, client, got>>

\* cd: stat the target, then set it.
Cd ==
  /\ \/ pc = "turn" /\ pc' = "stat" /\ UNCHANGED <<turnVars, sseVars>>
     \/ /\ pc = "stat"
        /\ \E r \in {"ok", "error"} : EndTurn(r)
        /\ UNCHANGED <<bound, notes, closed, client, got>>
  /\ UNCHANGED procVars

\* mkdir of the working directory, whatever comes of it, then spawn.
Mkdir ==
  /\ pc = "turn" /\ pc' = "mkdir"
  /\ UNCHANGED <<procVars, turnVars, sseVars>>

Spawn ==
  /\ pc = "mkdir" /\ pc' = "wait"
  /\ runner' = "run" /\ child' = "running"
  /\ UNCHANGED <<holder, pipe, out, kept, truncated, timedOut, turnVars, sseVars>>

\* A bounded turn reaches a call of a binary...
CallCli ==
  /\ pc = "turn" /\ pc' = "wait"
  /\ runner' = "cli" /\ child' = "running"
  /\ UNCHANGED <<holder, pipe, out, kept, truncated, timedOut, turnVars, sseVars>>

\* ...or of a URL.
CallHttp ==
  /\ pc = "turn" /\ pc' = "wait" /\ runner' = "http"
  /\ UNCHANGED <<child, holder, pipe, out, kept, truncated, timedOut, turnVars, sseVars>>

\* session.bind after a success: captured, or an error response if a size cap
\* refuses.
Bind(r) ==
  \/ bound' = FALSE /\ res' = r
  \/ r = "ok" /\ bound' = TRUE /\ res' = "ok"
  \/ r = "ok" /\ bound' = FALSE /\ res' = "error"

\* /bin/mcp-invoke, mcp-read, mcp-prompt.
McpInvoke ==
  /\ pc = "turn" /\ pc' = "wait" /\ runner' = "mcp"
  /\ UNCHANGED <<child, holder, pipe, out, kept, truncated, timedOut, turnVars, sseVars>>

McpNotify ==
  /\ pc \in {"wait", "body"} /\ runner = "mcp" /\ notes < MaxNotes
  /\ notes' = notes + 1 /\ Push("progress")
  /\ UNCHANGED <<pc, procVars, decoder, streamed, res, bound, closed, client, got, overlap>>

\* An HTTP client is answered by a 400: it clears its timer before it reads the
\* body, and may try once more afterwards.
McpRefused ==
  /\ pc = "wait" /\ runner = "mcp" /\ pc' = "body"
  /\ UNCHANGED <<procVars, turnVars, sseVars>>

\* What is made of the answer: a tool that reports isError is an error, and so
\* is whatever the client threw.
McpResponse == {"ok", "error"}

McpEnds ==
  /\ pc \in {"wait", "body"} /\ runner = "mcp"
  /\ FinishTurn /\ \E r \in McpResponse : Bind(r)
  /\ UNCHANGED <<procVars, decoder, streamed, notes, closed, client, got>>
-----------------------------------------------------------------------------
(* The child process. *)

\* The child, or a descendant of it, writes.
Writes ==
  /\ child = "running" \/ holder
  /\ out < MaxOut
  /\ \E n \in 1..(MaxOut - out) : out' = out + n /\ pipe' = pipe + n
  /\ UNCHANGED <<pc, runner, child, holder, kept, truncated, timedOut, turnVars, sseVars>>

Forks ==
  /\ child = "running" /\ ~holder
  /\ holder' = TRUE
  /\ UNCHANGED <<pc, runner, child, pipe, out, kept, truncated, timedOut, turnVars, sseVars>>

HolderEnds ==
  /\ holder
  /\ holder' = FALSE
  /\ UNCHANGED <<pc, runner, child, pipe, out, kept, truncated, timedOut, turnVars, sseVars>>

Exits ==
  /\ child = "running"
  /\ child' \in {"zero", "nonzero"}
  /\ UNCHANGED <<pc, runner, holder, pipe, out, kept, truncated, timedOut, turnVars, sseVars>>

Kill == child' = IF child = "running" THEN "signal" ELSE child

\* Mutant: the timer sends a signal that a command may ignore.
TimerFiresGently ==
  /\ pc = "wait" /\ runner \in {"run", "cli"} /\ ~timedOut
  /\ timedOut' = TRUE
  /\ UNCHANGED <<pc, runner, child, holder, pipe, out, kept, truncated, turnVars, sseVars>>

\* The timer is cleared at the close event only.
TimerFires ==
  /\ pc = "wait" /\ runner \in {"run", "cli"} /\ ~timedOut
  /\ timedOut' = TRUE /\ Kill
  /\ UNCHANGED <<pc, runner, holder, pipe, out, kept, truncated, turnVars, sseVars>>

\* run's stdout handler: keep what fits.
Accept(n) ==
  /\ kept' = IF kept + n <= Cap THEN kept + n ELSE Cap
  /\ truncated' = (truncated \/ kept + n > Cap)

\* The accepted bytes go through the decoder, which may hold back the start of
\* a character, to the stream.
OnStdout(a) ==
  \E hold \in {0, 1} :
    /\ hold <= decoder + a
    /\ decoder' = hold
    /\ streamed' = streamed + decoder + a - hold
    /\ IF decoder + a > hold THEN Push("stdout") ELSE UNCHANGED <<queue, writing>>

RunData ==
  /\ runner = "run" /\ pipe > 0
  /\ \E n \in 1..pipe :
       /\ pipe' = pipe - n
       /\ Accept(n)
       /\ IF kept >= Cap THEN UNCHANGED <<decoder, streamed, queue, writing>>
          ELSE OnStdout(kept' - kept)
  /\ UNCHANGED <<pc, runner, child, holder, out, timedOut, res, bound, notes,
                 closed, client, got, overlap>>

\* spawnCapped's clipStdout: the chunk that goes over the cap kills the child;
\* a chunk that comes after the cap was met exactly does not.
ClipStdout ==
  /\ runner = "cli" /\ pipe > 0
  /\ \E n \in 1..pipe :
       /\ pipe' = pipe - n
       /\ kept' = IF kept + n <= Cap THEN kept + n ELSE Cap
       /\ IF kept < Cap /\ kept + n > Cap THEN Kill ELSE UNCHANGED child
  /\ UNCHANGED <<pc, runner, holder, out, truncated, timedOut, turnVars, sseVars>>

\* Mutant: the run settles when the child exits.
SettlesOnExit == pc = "wait" /\ child \in {"zero", "nonzero", "signal"}

\* The close event: the child is gone and its pipe is at its end.
Settles == pc = "wait" /\ child \in {"zero", "nonzero", "signal"} /\ ~holder /\ pipe = 0

\* The tail of the decoder becomes a last chunk.
FlushDecoder ==
  /\ decoder' = 0 /\ streamed' = streamed + decoder
  /\ IF decoder > 0 THEN Push("stdout") ELSE UNCHANGED <<queue, writing>>

\* run() resolves: the rest of the output is pushed first.
RunCloses ==
  /\ runner = "run" /\ Settles
  /\ pc' = "ran" /\ FlushDecoder
  /\ UNCHANGED <<procVars, res, bound, notes, closed, client, got, overlap>>

\* Mutant: the exit code decides, whether or not the timer fired.
RunReturnsLate ==
  /\ pc = "ran"
  /\ FinishTurn
  /\ IF child = "zero" THEN Bind("ok") ELSE Bind(IF timedOut THEN "error" ELSE "fail")
  /\ UNCHANGED <<procVars, decoder, streamed, notes, closed, client, got>>

\* A timeout is an error whatever the exit code; a binding needs exit code 0.
RunReturns ==
  /\ pc = "ran"
  /\ FinishTurn
  /\ IF timedOut THEN res' = "error" /\ UNCHANGED bound
     ELSE IF child = "zero" THEN Bind("ok") ELSE Bind("fail")
  /\ UNCHANGED <<procVars, decoder, streamed, notes, closed, client, got>>

\* The error event: bash could not be started.
SpawnFails ==
  /\ pc = "wait" /\ runner \in {"run", "cli"} /\ child = "running" /\ out = 0 /\ ~holder
  /\ child' = "none"
  /\ EndTurn("error")
  /\ UNCHANGED <<runner, holder, pipe, out, kept, truncated, timedOut, bound, notes,
                 closed, client, got>>

\* spawnCapped resolves: an error if it timed out or did not exit with 0.
CliCloses ==
  /\ runner = "cli" /\ Settles
  /\ EndTurn(IF ~timedOut /\ child = "zero" THEN "ok" ELSE "error")
  /\ UNCHANGED <<procVars, bound, notes, closed, client, got>>
-----------------------------------------------------------------------------
(* The HTTP call. *)

\* fetch fails or the timer aborts it; the timer is cleared once the headers
\* are there.
FetchFails ==
  /\ pc = "wait" /\ runner = "http"
  /\ EndTurn("error")
  /\ UNCHANGED <<procVars, bound, notes, closed, client, got>>

Headers ==
  /\ pc = "wait" /\ runner = "http" /\ pc' = "body"
  /\ UNCHANGED <<procVars, turnVars, sseVars>>

BodyChunk ==
  /\ pc = "body" /\ runner = "http" /\ out < MaxOut
  /\ \E n \in 1..(MaxOut - out) :
       /\ out' = out + n
       /\ kept' = IF kept + n <= Cap THEN kept + n ELSE Cap
       /\ IF kept + n > Cap THEN EndTurn("ok") \/ EndTurn("error")
          ELSE UNCHANGED <<pc, res, decoder, streamed, queue, writing, overlap>>
  /\ UNCHANGED <<runner, child, holder, pipe, truncated, timedOut, bound, notes, closed, client, got>>

\* The body ends or breaks; an error status or a bad JSON body is an error.
BodyEnds ==
  /\ pc = "body" /\ runner = "http"
  /\ EndTurn("ok") \/ EndTurn("error")
  /\ UNCHANGED <<procVars, bound, notes, closed, client, got>>
-----------------------------------------------------------------------------
Next ==
  \/ Start \/ EndsAtOnce \/ Cd \/ Mkdir \/ Spawn \/ CallCli \/ CallHttp \/ McpInvoke \/ McpNotify
  \/ McpRefused \/ McpEnds
  \/ Writes \/ Forks \/ HolderEnds \/ Exits \/ TimerFires \/ RunData \/ ClipStdout
  \/ RunCloses \/ RunReturns \/ SpawnFails \/ CliCloses
  \/ FetchFails \/ Headers \/ BodyChunk \/ BodyEnds
  \/ WriteDone \/ Drained \/ Recorded \/ RecordFails \/ ClientLeaves

Spec == Init /\ [][Next]_vars

\* Timers fire (those of the MCP clients too), data events are delivered, file
\* operations come back, and a client that reads slowly reads in the end.  Not
\* assumed: that a command or a descendant ends by itself, or that an HTTP body
\* read without a timer ends.
Fairness ==
  /\ WF_vars(Start) /\ WF_vars(Cd) /\ WF_vars(Spawn) /\ WF_vars(pc = "wait" /\ McpEnds)
  /\ WF_vars(EndsAtOnce \/ Mkdir \/ CallCli \/ CallHttp \/ McpInvoke)
  /\ WF_vars(TimerFires) /\ WF_vars(RunData) /\ WF_vars(ClipStdout)
  /\ WF_vars(RunCloses) /\ WF_vars(RunReturns) /\ WF_vars(CliCloses) /\ WF_vars(FetchFails)
  /\ WF_vars(WriteDone) /\ WF_vars(Drained) /\ WF_vars(Recorded)

FairSpec == Spec /\ Fairness
-----------------------------------------------------------------------------
(* Properties. *)

Events == {"start", "stdout", "progress", "done", "error"}

TypeOK ==
  /\ pc \in {"start", "turn", "stat", "mkdir", "wait", "ran", "body", "drain", "append", "closed"}
  /\ runner \in {"none", "run", "cli", "http", "mcp"}
  /\ child \in {"none", "running", "zero", "nonzero", "signal"}
  /\ pipe \in 0..MaxOut /\ out \in 0..MaxOut /\ kept \in 0..Cap /\ decoder \in {0, 1}
  /\ streamed \in 0..Cap /\ res \in {"none", "ok", "fail", "error"} /\ notes \in 0..MaxNotes
  /\ queue \in Seq(Events) /\ got \in Seq(Events)
  /\ writing \in [ev : Events \cup {"none"}, lost : BOOLEAN]
  /\ holder \in BOOLEAN /\ truncated \in BOOLEAN /\ timedOut \in BOOLEAN /\ bound \in BOOLEAN
  /\ closed \in BOOLEAN /\ client \in BOOLEAN /\ overlap \in BOOLEAN

Min2(a, b) == IF a <= b THEN a ELSE b

\* A finished command's output is all there up to the cap: nothing that was
\* still in the pipe when it exited is missing, and exactly what is over the
\* cap is reported as truncated.  By the time done is queued, the chunks sent
\* to the client are the same bytes, a partial character at the end included.
OutputComplete ==
  pc \in {"drain", "append", "closed"} /\ runner = "run" =>
    /\ child # "none" => kept = Min2(out, Cap) /\ (truncated <=> out > Cap)
    /\ streamed = kept

\* A binding is captured only from a command that ended by itself with exit
\* code 0 within its time, and only together with a response that says so.
BoundOnlyOnSuccess ==
  bound => res = "ok" /\ (runner = "run" => child = "zero" /\ ~timedOut)

\* When the stream has closed and its writer is done, a client that stayed got
\* done, with no chunk after it, unless the last drain found another one at
\* work: then the stream may close before the queue is empty.
DoneUnlessOverlap ==
  pc = "closed" /\ writing = Idle /\ client /\ ~overlap =>
    \E i \in 1..Len(got) : got[i] = "done" /\ \A j \in (i + 1)..Len(got) : got[j] = "error"

\* Every turn ends, unless a descendant of its command keeps the pipe open for
\* ever or an HTTP body never ends: the timer kills the shell only, and is
\* cleared before the body of a URL's answer, or of an MCP server's 400, is read.
TurnEnds == [](pc = "turn" => <>(pc = "closed" \/ []holder \/ [](pc = "body")))

\* docs/API.md on the done event: "Exactly once at exec end".
DoneDelivered ==
  pc = "closed" /\ writing = Idle /\ client => \E i \in 1..Len(got) : got[i] = "done"
=============================================================================
