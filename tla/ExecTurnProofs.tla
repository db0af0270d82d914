-------------------------- MODULE ExecTurnProofs ---------------------------
(***************************************************************************)
(* TLAPS proofs about ExecTurn, for every cap, every amount of output and  *)
(* every number of notifications.                                          *)
(*                                                                         *)
(* OutputComplete speaks of the end of a turn.  On the way there the bytes *)
(* are in four places: the pipe, the ones kept, the decoder, and the ones  *)
(* streamed; BytesInv is their balance.  DoneUnlessOverlap needs that the  *)
(* writer of the stream is idle, or at the done event, when nobody else    *)
(* was at work (StreamInv).                                                *)
(***************************************************************************)
EXTENDS ExecTurn, TLAPS, SequenceTheorems

\* The parts of TypeOK, by kind of value.
PlaceType ==
  /\ pc \in {"start", "turn", "stat", "mkdir", "wait", "ran", "body", "drain", "append", "closed"}
  /\ runner \in {"none", "run", "cli", "http", "mcp"}
  /\ child \in {"none", "running", "zero", "nonzero", "signal"}
  /\ res \in {"none", "ok", "fail", "error"}

CountType ==
  /\ pipe \in 0..MaxOut /\ out \in 0..MaxOut /\ kept \in 0..Cap /\ decoder \in {0, 1}
  /\ streamed \in 0..Cap /\ notes \in 0..MaxNotes

FlagType ==
  /\ holder \in BOOLEAN /\ truncated \in BOOLEAN /\ timedOut \in BOOLEAN /\ bound \in BOOLEAN
  /\ closed \in BOOLEAN /\ client \in BOOLEAN /\ overlap \in BOOLEAN

WriteStates == [ev : Events \cup {"none"}, lost : BOOLEAN]

StreamType == queue \in Seq(Events) /\ got \in Seq(Events) /\ writing \in WriteStates

\* The turn is over: its response is in place and done has been queued.
Ended == {"drain", "append", "closed"}

\* A turn that has not chosen what to run has nothing running and no output,
\* and only run() streams any.
PhaseInv ==
  /\ pc \in {"start", "turn", "stat", "mkdir"} => runner = "none"
  /\ pc = "ran" => runner = "run"
  /\ runner = "run" => pc \in {"wait", "ran"} \cup Ended
  /\ runner = "none" => /\ child = "none" /\ ~holder /\ ~truncated /\ ~timedOut
                        /\ out = 0 /\ kept = 0
  /\ runner # "run" => decoder = 0 /\ streamed = 0

\* What was read of a command's output was kept up to the cap, and what was
\* kept was streamed or is in the decoder; after the close event nobody can
\* write any more, and pipe and decoder are empty.
BytesInv ==
  /\ pipe <= out
  /\ runner = "run" =>
       /\ kept = Min2(out - pipe, Cap)
       /\ truncated <=> out - pipe > Cap
       /\ streamed + decoder = kept
       /\ pc # "wait" => child # "running" /\ ~holder /\ pipe = 0 /\ decoder = 0

\* A binding is made by the last step of a turn, after its timer was cleared.
BindInv == bound => pc \in Ended

\* The client has done, and nothing after it but the error event.
DoneReceived ==
  \E i \in 1..Len(got) : got[i] = "done" /\ \A j \in (i + 1)..Len(got) : got[j] = "error"

\* The writer is idle only when the queue is empty.  Unless the last drain met
\* another one, done is what the writer is at while drain is awaited, and the
\* client has it afterwards.
StreamInv ==
  /\ writing = Idle => queue = <<>>
  /\ closed => pc = "closed"
  /\ writing.lost => closed
  /\ ~overlap /\ pc = "drain" => \/ writing = [ev |-> "done", lost |-> FALSE] /\ queue = <<>>
                                 \/ writing = Idle /\ (client => DoneReceived)
  /\ ~overlap /\ pc \in {"append", "closed"} => writing = Idle /\ (client => DoneReceived)

IInv ==
  /\ PlaceType /\ CountType /\ FlagType /\ StreamType
  /\ PhaseInv /\ BytesInv /\ BindInv /\ BoundOnlyOnSuccess /\ StreamInv
-----------------------------------------------------------------------------
\* The constants are numbers.
LEMMA Numbers == Cap \in Nat /\ MaxOut \in Nat /\ MaxNotes \in Nat
  BY TurnAssumption DEF TurnAssumption

LEMMA TypeParts == TypeOK <=> PlaceType /\ CountType /\ FlagType /\ StreamType
  BY DEF TypeOK, PlaceType, CountType, FlagType, StreamType, WriteStates

\* Nothing has been run and nothing was queued.
LEMMA InitIInv == Init => IInv
  <1> SUFFICES ASSUME Init PROVE IInv
    OBVIOUS
  <1>1. PlaceType
    BY DEF Init, PlaceType
  <1>2. CountType
    BY Numbers DEF Init, CountType
  <1>3. FlagType
    BY DEF Init, FlagType
  <1>4. StreamType
    <2>1. <<>> \in Seq(Events)
      OBVIOUS
    <2>2. Idle \in WriteStates
      BY DEF Idle, WriteStates
    <2>3. QED
      BY <2>1, <2>2 DEF Init, StreamType
  <1>5. PhaseInv /\ BytesInv
    BY Numbers DEF Init, PhaseInv, BytesInv
  <1>6. BindInv /\ BoundOnlyOnSuccess /\ StreamInv
    BY DEF Init, BindInv, BoundOnlyOnSuccess, StreamInv, Idle
  <1>7. QED
    BY <1>1, <1>2, <1>3, <1>4, <1>5, <1>6 DEF IInv
-----------------------------------------------------------------------------
(* The two ways in which a step of the turn touches the stream. *)

\* An event that is pushed is the next to be written, or waits in the queue.
LEMMA PushIsSafe ==
  ASSUME IInv, NEW ev \in Events, Push(ev)
  PROVE  /\ queue' \in Seq(Events) /\ writing' \in WriteStates
         /\ writing' # Idle
         /\ writing'.lost => closed
         /\ writing = Idle => writing' = [ev |-> ev, lost |-> FALSE] /\ queue' = <<>>
  <1>1. CASE writing = Idle
    <2>1. writing' = [ev |-> ev, lost |-> FALSE] /\ queue' = queue
      BY <1>1 DEF Push
    <2>2. ev # "none"
      BY DEF Events
    <2>3. QED
      BY <1>1, <2>1, <2>2 DEF IInv, StreamType, StreamInv, WriteStates, Idle
  <1>2. CASE writing # Idle
    <2>1. queue' = Append(queue, ev) /\ writing' = writing
      BY <1>2 DEF Push
    <2>2. QED
      BY <1>2, <2>1 DEF IInv, StreamType, StreamInv
  <1>3. QED
    BY <1>1, <1>2

\* The last step of a turn queues done: its drain meets nobody and the writer is
\* at done, or it meets another and says so.
LEMMA FinishTurnIsSafe ==
  ASSUME IInv, FinishTurn, pc \notin Ended, UNCHANGED <<closed, client, got>>
  PROVE  StreamType' /\ StreamInv' /\ pc' \in {"drain", "append"} /\ overlap' \in BOOLEAN
  <1>1. "done" \in Events /\ Push("done")
    BY DEF Events, FinishTurn
  <1>2. ~closed
    BY DEF IInv, StreamInv, Ended
  <1>3. CASE writing = Idle
    <2>1. pc' = "drain" /\ overlap' = overlap
      BY <1>3 DEF FinishTurn
    <2>2. QED
      BY <1>1, <1>2, <1>3, <2>1, PushIsSafe DEF IInv, FlagType, StreamType, StreamInv
  <1>4. CASE writing # Idle
    <2>1. pc' = "append" /\ overlap' = TRUE
      BY <1>4 DEF FinishTurn
    <2>2. QED
      BY <1>1, <1>2, <2>1, PushIsSafe DEF IInv, StreamType, StreamInv
  <1>5. QED
    BY <1>3, <1>4

\* Steps of the turn before its end leave the stream as it is.
LEMMA StreamFrame ==
  ASSUME IInv, UNCHANGED sseVars, pc' = pc \/ {pc, pc'} \cap Ended = {}
  PROVE  StreamType' /\ StreamInv'
  BY DEF IInv, sseVars, StreamType, StreamInv, DoneReceived, Ended

\* Steps that run nothing and end nothing: start and the ways to a subprocess,
\* a URL or an MCP server.
LEMMA ChooseIInv ==
  ASSUME IInv, Mkdir \/ Spawn \/ CallCli \/ CallHttp \/ McpInvoke \/ (Cd /\ pc = "turn")
  PROVE  IInv'
  <1>1. /\ pc \in {"turn", "mkdir"} /\ pc' \in {"stat", "mkdir", "wait"}
        /\ UNCHANGED <<holder, pipe, out, kept, truncated, timedOut, turnVars, sseVars>>
        /\ pc' # "wait" => runner' = runner /\ child' = child
        /\ pc' = "wait" => /\ runner' \in {"run", "cli", "http", "mcp"}
                           /\ child' \in {child, "running"}
    BY DEF Mkdir, Spawn, CallCli, CallHttp, McpInvoke, Cd, procVars
  <1>2. StreamType' /\ StreamInv'
    BY <1>1, StreamFrame DEF Ended
  <1>3. PlaceType' /\ CountType' /\ FlagType'
    BY <1>1 DEF IInv, PlaceType, CountType, FlagType, turnVars, sseVars
  <1>4. PhaseInv'
    BY <1>1 DEF IInv, PlaceType, PhaseInv, turnVars
  <1>5. BytesInv'
    BY <1>1, Numbers DEF IInv, PhaseInv, CountType, BytesInv, Min2, turnVars
  <1>6. BindInv' /\ BoundOnlyOnSuccess'
    BY <1>1 DEF IInv, BindInv, BoundOnlyOnSuccess, Ended, turnVars
  <1>7. QED
    BY <1>2, <1>3, <1>4, <1>5, <1>6 DEF IInv

\* The start event goes past the queue.
LEMMA StartIInv == ASSUME IInv, Start PROVE IInv'
  <1>1. /\ pc = "start" /\ pc' = "turn"
        /\ UNCHANGED <<procVars, turnVars, queue, writing, closed, client, overlap>>
        /\ got' \in {<<"start">>, <<>>}
    BY DEF Start
  <1>2. got' \in Seq(Events)
    <2>1. "start" \in Events
      BY DEF Events
    <2>2. <<"start">> \in Seq(Events) /\ <<>> \in Seq(Events)
      BY <2>1
    <2>3. QED
      BY <1>1, <2>2
  <1>3. StreamType' /\ StreamInv'
    BY <1>1, <1>2 DEF IInv, StreamType, StreamInv
  <1>4. PlaceType' /\ CountType' /\ FlagType'
    BY <1>1 DEF IInv, PlaceType, CountType, FlagType, turnVars, procVars
  <1>5. PhaseInv' /\ BytesInv'
    BY <1>1 DEF IInv, PhaseInv, BytesInv, turnVars, procVars
  <1>6. BindInv' /\ BoundOnlyOnSuccess'
    BY <1>1 DEF IInv, BindInv, BoundOnlyOnSuccess, Ended, turnVars, procVars
  <1>7. QED
    BY <1>3, <1>4, <1>5, <1>6 DEF IInv

\* What holds after the last step of a turn, whatever the turn waited for: its
\* response is there, and a binding only if it says success.
LEMMA FinishIInv ==
  ASSUME IInv, FinishTurn, pc \notin Ended,
         UNCHANGED <<runner, holder, pipe, truncated, timedOut,
                     decoder, streamed, notes, closed, client, got>>,
         out' \in 0..MaxOut, kept' \in 0..Cap, pipe <= out',
         runner # "http" => UNCHANGED <<out, kept>>,
         child' \in {child, "none"},
         res' \in {"ok", "fail", "error"}, bound' \in BOOLEAN,
         bound' => res' = "ok" /\ (runner = "run" => child' = "zero" /\ ~timedOut),
         runner = "run" => child' # "running" /\ ~holder /\ pipe = 0 /\ decoder = 0
  PROVE  IInv'
  <1>1. StreamType' /\ StreamInv' /\ pc' \in {"drain", "append"} /\ overlap' \in BOOLEAN
    BY FinishTurnIsSafe
  <1>2. PlaceType' /\ CountType'
    BY <1>1 DEF IInv, PlaceType, CountType
  <1>3. FlagType'
    BY <1>1 DEF IInv, FlagType
  <1>4. PhaseInv'
    BY <1>1 DEF IInv, PhaseInv, Ended
  <1>5. BytesInv'
    BY <1>1 DEF IInv, BytesInv, Min2
  <1>6. BindInv' /\ BoundOnlyOnSuccess'
    BY <1>1 DEF BindInv, BoundOnlyOnSuccess, Ended
  <1>7. QED
    BY <1>1, <1>2, <1>3, <1>4, <1>5, <1>6 DEF IInv

\* The same for the turns that end without a subprocess of run().
LEMMA EndTurnIInv ==
  ASSUME IInv, NEW r \in {"ok", "error"}, EndTurn(r), pc \notin Ended, runner # "run",
         UNCHANGED <<procVars, bound, notes, closed, client, got>>
  PROVE  IInv'
  <1>1. FinishTurn /\ res' = r /\ UNCHANGED <<decoder, streamed>>
    BY DEF EndTurn
  <1>2. ~bound' /\ bound' \in BOOLEAN
    BY DEF IInv, BindInv, FlagType
  <1>3. UNCHANGED <<runner, child, holder, pipe, out, kept, truncated, timedOut>>
    BY DEF procVars
  <1>4. out \in 0..MaxOut /\ kept \in 0..Cap /\ pipe <= out
    BY DEF IInv, CountType, BytesInv
  <1>5. QED
    BY <1>1, <1>2, <1>3, <1>4, FinishIInv

\* Refusals, export and unset; cd once the target was looked at.
LEMMA AtOnceIInv == ASSUME IInv, EndsAtOnce \/ (Cd /\ pc = "stat") PROVE IInv'
  <1>1. PICK r \in {"ok", "error"} : EndTurn(r)
    BY DEF EndsAtOnce, Cd
  <1>2. /\ pc \in {"turn", "stat"}
        /\ UNCHANGED <<procVars, bound, notes, closed, client, got>>
    BY DEF EndsAtOnce, Cd
  <1>3. pc \notin Ended /\ runner # "run"
    BY <1>2 DEF IInv, PhaseInv, Ended
  <1>4. QED
    BY <1>1, <1>2, <1>3, EndTurnIInv
-----------------------------------------------------------------------------
(* MCP and HTTP. *)

LEMMA McpNotifyIInv == ASSUME IInv, McpNotify PROVE IInv'
  <1>1. /\ pc \in {"wait", "body"} /\ runner = "mcp" /\ notes < MaxNotes /\ notes' = notes + 1
        /\ Push("progress") /\ "progress" \in Events
        /\ UNCHANGED <<pc, procVars, decoder, streamed, res, bound, closed, client, got, overlap>>
    BY DEF McpNotify, Events
  <1>2. StreamType' /\ StreamInv'
    BY <1>1, PushIsSafe DEF IInv, StreamType, StreamInv
  <1>3. PlaceType' /\ CountType' /\ FlagType'
    BY <1>1, Numbers DEF IInv, PlaceType, CountType, FlagType, procVars
  <1>4. PhaseInv' /\ BytesInv'
    BY <1>1 DEF IInv, PhaseInv, BytesInv, procVars
  <1>5. BindInv' /\ BoundOnlyOnSuccess'
    BY <1>1 DEF IInv, BindInv, BoundOnlyOnSuccess, procVars
  <1>6. QED
    BY <1>2, <1>3, <1>4, <1>5 DEF IInv

\* The headers of an answer: the turn goes on to its body.
LEMMA BodyBeginsIInv == ASSUME IInv, McpRefused \/ Headers PROVE IInv'
  <1>1. /\ pc = "wait" /\ pc' = "body" /\ runner \in {"mcp", "http"}
        /\ UNCHANGED <<procVars, turnVars, sseVars>>
    BY DEF McpRefused, Headers
  <1>2. StreamType' /\ StreamInv'
    BY <1>1, StreamFrame DEF Ended
  <1>3. PlaceType' /\ CountType' /\ FlagType'
    BY <1>1 DEF IInv, PlaceType, CountType, FlagType, turnVars, procVars, sseVars
  <1>4. PhaseInv' /\ BytesInv'
    BY <1>1 DEF IInv, PhaseInv, BytesInv, turnVars, procVars
  <1>5. BindInv' /\ BoundOnlyOnSuccess'
    BY <1>1 DEF IInv, BindInv, BoundOnlyOnSuccess, Ended, turnVars, procVars
  <1>6. QED
    BY <1>2, <1>3, <1>4, <1>5 DEF IInv

LEMMA McpEndsIInv == ASSUME IInv, McpEnds PROVE IInv'
  <1>1. PICK r \in McpResponse : Bind(r)
    BY DEF McpEnds
  <1>2. /\ pc \in {"wait", "body"} /\ runner = "mcp" /\ FinishTurn
        /\ UNCHANGED <<procVars, decoder, streamed, notes, closed, client, got>>
    BY DEF McpEnds
  <1>3. res' \in {"ok", "error"} /\ bound' \in BOOLEAN /\ (bound' => res' = "ok")
    BY <1>1 DEF Bind, McpResponse
  <1>4. out \in 0..MaxOut /\ kept \in 0..Cap /\ pipe <= out
    BY DEF IInv, CountType, BytesInv
  <1>5. QED
    BY <1>2, <1>3, <1>4, FinishIInv DEF Ended, procVars

\* fetch failed, or the body came to its end.
LEMMA HttpEndsIInv == ASSUME IInv, FetchFails \/ BodyEnds PROVE IInv'
  <1>1. /\ pc \in {"wait", "body"} /\ runner = "http"
        /\ UNCHANGED <<procVars, bound, notes, closed, client, got>>
        /\ EndTurn("ok") \/ EndTurn("error")
    BY DEF FetchFails, BodyEnds
  <1>2. QED
    BY <1>1, EndTurnIInv DEF Ended

\* A chunk of a URL's answer: more of it, or the end of the turn at the cap.
LEMMA BodyChunkIInv == ASSUME IInv, BodyChunk PROVE IInv'
  <1>1. PICK n \in 1..(MaxOut - out) :
          /\ out' = out + n
          /\ kept' = IF kept + n <= Cap THEN kept + n ELSE Cap
          /\ IF kept + n > Cap THEN EndTurn("ok") \/ EndTurn("error")
             ELSE UNCHANGED <<pc, res, decoder, streamed, queue, writing, overlap>>
    BY DEF BodyChunk
  <1>2. /\ pc = "body" /\ runner = "http"
        /\ UNCHANGED <<runner, child, holder, pipe, truncated, timedOut, bound, notes,
                       closed, client, got>>
    BY DEF BodyChunk
  <1>3. out' \in 0..MaxOut /\ kept' \in 0..Cap /\ pipe <= out'
    BY <1>1, Numbers DEF IInv, CountType, BytesInv
  <1>4. ~bound' /\ bound' \in BOOLEAN
    BY <1>2 DEF IInv, BindInv, FlagType, Ended
  <1>5. CASE kept + n > Cap
    <2>1. FinishTurn /\ res' \in {"ok", "error"} /\ UNCHANGED <<decoder, streamed>>
      BY <1>1, <1>5 DEF EndTurn
    <2>2. QED
      BY <1>2, <1>3, <1>4, <2>1, FinishIInv DEF Ended
  <1>6. CASE ~(kept + n > Cap)
    <2>1. UNCHANGED <<pc, res, decoder, streamed, queue, writing, overlap>>
      BY <1>1, <1>6
    <2>2. StreamType' /\ StreamInv'
      BY <1>2, <2>1, StreamFrame DEF sseVars
    <2>3. PlaceType' /\ CountType' /\ FlagType'
      BY <1>2, <1>3, <2>1 DEF IInv, PlaceType, CountType, FlagType
    <2>4. PhaseInv' /\ BytesInv'
      BY <1>2, <1>3, <2>1 DEF IInv, PhaseInv, BytesInv
    <2>5. BindInv' /\ BoundOnlyOnSuccess'
      BY <1>2, <1>4 DEF BindInv, BoundOnlyOnSuccess
    <2>6. QED
      BY <2>2, <2>3, <2>4, <2>5 DEF IInv
  <1>7. QED
    BY <1>5, <1>6
-----------------------------------------------------------------------------
(* The child process. *)

\* The child and its descendants write, come and go: nothing is read or kept.
LEMMA ChildIInv ==
  ASSUME IInv, Writes \/ Forks \/ HolderEnds \/ Exits \/ TimerFires
  PROVE  IInv'
  <1>1. /\ UNCHANGED <<pc, runner, kept, truncated, turnVars, sseVars>>
        /\ pipe' \in 0..MaxOut /\ out' \in 0..MaxOut
        /\ out' - pipe' = out - pipe /\ pipe' <= out'
    BY Numbers DEF Writes, Forks, HolderEnds, Exits, TimerFires, IInv, CountType, BytesInv
  <1>2. /\ child' \in {child, "zero", "nonzero", "signal"}
        /\ child' # child => child = "running"
        /\ holder' \in BOOLEAN /\ timedOut' \in BOOLEAN
        /\ child # "running" /\ ~holder => ~holder' /\ UNCHANGED <<pipe, out>>
        /\ timedOut' # timedOut => pc = "wait"
    <2>1. CASE Writes
      BY <2>1 DEF Writes, IInv, FlagType
    <2>2. CASE Forks
      BY <2>2 DEF Forks, IInv, FlagType
    <2>3. CASE HolderEnds
      BY <2>3 DEF HolderEnds, IInv, FlagType
    <2>4. CASE Exits
      BY <2>4 DEF Exits, IInv, FlagType
    <2>5. CASE TimerFires
      BY <2>5 DEF TimerFires, Kill, IInv, FlagType
    <2>6. QED
      BY <2>1, <2>2, <2>3, <2>4, <2>5
  <1>3. StreamType' /\ StreamInv'
    BY <1>1, StreamFrame
  <1>4. PlaceType' /\ CountType'
    BY <1>1, <1>2 DEF IInv, PlaceType, CountType, turnVars
  <1>5. FlagType'
    BY <1>1, <1>2 DEF IInv, FlagType, turnVars, sseVars
  <1>6. PhaseInv'
    BY <1>1, <1>2 DEF IInv, PhaseInv, turnVars, TimerFires, Writes, Forks, HolderEnds, Exits
  <1>7. BytesInv'
    <2>1. runner = "run" /\ pc # "wait" => child' # "running" /\ ~holder' /\ pipe' = 0
      BY <1>2 DEF IInv, BytesInv
    <2>2. QED
      BY <1>1, <2>1 DEF IInv, BytesInv, Min2, turnVars
  <1>8. BindInv' /\ BoundOnlyOnSuccess'
    BY <1>1, <1>2 DEF IInv, BindInv, BoundOnlyOnSuccess, Ended, turnVars
  <1>9. QED
    BY <1>3, <1>4, <1>5, <1>6, <1>7, <1>8 DEF IInv

\* run's stdout handler keeps what fits and streams exactly what it kept.
LEMMA RunDataIInv == ASSUME IInv, RunData PROVE IInv'
  <1>1. PICK n \in 1..pipe :
          /\ pipe' = pipe - n
          /\ Accept(n)
          /\ IF kept >= Cap THEN UNCHANGED <<decoder, streamed, queue, writing>>
             ELSE OnStdout(kept' - kept)
    BY DEF RunData
  <1>2. /\ runner = "run" /\ pipe > 0
        /\ UNCHANGED <<pc, runner, child, holder, out, timedOut, res, bound, notes,
                       closed, client, got, overlap>>
    BY DEF RunData
  <1>3. pc = "wait"
    BY <1>2 DEF IInv, CountType, BytesInv
  <1>4. /\ kept' = Min2(out - pipe', Cap) /\ (truncated' <=> out - pipe' > Cap)
        /\ pipe' \in 0..MaxOut /\ pipe' <= out /\ kept' \in 0..Cap /\ kept <= kept'
        /\ kept >= Cap => kept' = kept
    <2>1. /\ out \in Nat /\ pipe \in Nat /\ pipe <= out /\ out <= MaxOut
          /\ kept = Min2(out - pipe, Cap) /\ (truncated <=> out - pipe > Cap)
      BY <1>2, Numbers DEF IInv, CountType, BytesInv
    <2>2. /\ pipe' = pipe - n /\ n \in Nat /\ n >= 1 /\ n <= pipe
          /\ kept' = IF kept + n <= Cap THEN kept + n ELSE Cap
      BY <1>1, <2>1 DEF Accept
    <2>3. truncated' <=> truncated \/ kept + n > Cap
      BY <1>1 DEF Accept
    <2>4. CASE out - pipe <= Cap
      BY <2>1, <2>2, <2>3, <2>4, Numbers DEF Min2
    <2>5. CASE out - pipe > Cap
      BY <2>1, <2>2, <2>3, <2>5, Numbers DEF Min2
    <2>6. QED
      BY <2>1, <2>4, <2>5, Numbers
  <1>5. truncated' \in BOOLEAN
    BY <1>1 DEF Accept
  <1>6. /\ streamed' + decoder' = kept' /\ decoder' \in {0, 1} /\ streamed' \in 0..Cap
        /\ UNCHANGED <<queue, writing>> \/ Push("stdout")
    <2>1. CASE kept >= Cap
      BY <1>1, <1>2, <1>4, <2>1 DEF IInv, CountType, BytesInv
    <2>2. CASE ~(kept >= Cap)
      <3>1. PICK hold \in {0, 1} :
              /\ hold <= decoder + (kept' - kept)
              /\ decoder' = hold
              /\ streamed' = streamed + decoder + (kept' - kept) - hold
              /\ IF decoder + (kept' - kept) > hold THEN Push("stdout") ELSE UNCHANGED <<queue, writing>>
        BY <1>1, <2>2 DEF OnStdout
      <3>2. QED
        BY <1>2, <1>4, <3>1, Numbers DEF IInv, CountType, BytesInv
    <2>3. QED
      BY <2>1, <2>2
  <1>7. StreamType' /\ StreamInv'
    <2>1. "stdout" \in Events
      BY DEF Events
    <2>2. CASE Push("stdout")
      BY <1>2, <1>3, <2>1, <2>2, PushIsSafe DEF IInv, StreamType, StreamInv
    <2>3. CASE UNCHANGED <<queue, writing>>
      BY <1>2, <2>3, StreamFrame DEF sseVars
    <2>4. QED
      BY <1>6, <2>2, <2>3
  <1>8. PlaceType' /\ CountType'
    BY <1>2, <1>4, <1>6 DEF IInv, PlaceType, CountType
  <1>9. FlagType'
    BY <1>2, <1>5 DEF IInv, FlagType
  <1>10. PhaseInv'
    BY <1>2 DEF IInv, PhaseInv
  <1>11. BytesInv'
    BY <1>2, <1>3, <1>4, <1>6 DEF BytesInv
  <1>12. BindInv' /\ BoundOnlyOnSuccess'
    BY <1>2 DEF IInv, BindInv, BoundOnlyOnSuccess
  <1>13. QED
    BY <1>7, <1>8, <1>9, <1>10, <1>11, <1>12 DEF IInv

\* clipStdout counts for another runner.
LEMMA ClipStdoutIInv == ASSUME IInv, ClipStdout PROVE IInv'
  <1>1. /\ runner = "cli"
        /\ pipe' \in 0..MaxOut /\ pipe' <= out /\ kept' \in 0..Cap /\ child' \in {child, "signal"}
        /\ UNCHANGED <<pc, runner, holder, out, truncated, timedOut, turnVars, sseVars>>
    BY Numbers DEF ClipStdout, Kill, IInv, CountType, BytesInv
  <1>2. StreamType' /\ StreamInv'
    BY <1>1, StreamFrame
  <1>3. PlaceType' /\ CountType' /\ FlagType'
    BY <1>1 DEF IInv, PlaceType, CountType, FlagType, turnVars, sseVars
  <1>4. PhaseInv' /\ BytesInv'
    BY <1>1 DEF IInv, PhaseInv, BytesInv, turnVars
  <1>5. BindInv' /\ BoundOnlyOnSuccess'
    BY <1>1 DEF IInv, BindInv, BoundOnlyOnSuccess, turnVars
  <1>6. QED
    BY <1>2, <1>3, <1>4, <1>5 DEF IInv

\* run() resolves: pipe and decoder are empty, and nobody is left to write.
LEMMA RunClosesIInv == ASSUME IInv, RunCloses PROVE IInv'
  <1>1. /\ runner = "run" /\ pc = "wait" /\ pc' = "ran"
        /\ child \in {"zero", "nonzero", "signal"} /\ ~holder /\ pipe = 0
        /\ UNCHANGED <<procVars, res, bound, notes, closed, client, got, overlap>>
        /\ decoder' = 0 /\ streamed' = streamed + decoder
        /\ IF decoder > 0 THEN Push("stdout") ELSE UNCHANGED <<queue, writing>>
    BY DEF RunCloses, Settles, FlushDecoder
  <1>2. StreamType' /\ StreamInv'
    <2>1. "stdout" \in Events
      BY DEF Events
    <2>2. CASE Push("stdout")
      BY <1>1, <2>1, <2>2, PushIsSafe DEF IInv, StreamType, StreamInv
    <2>3. CASE UNCHANGED <<queue, writing>>
      BY <1>1, <2>3, StreamFrame DEF sseVars, Ended
    <2>4. QED
      BY <1>1, <2>2, <2>3
  <1>3. PlaceType' /\ FlagType'
    BY <1>1 DEF IInv, PlaceType, FlagType, procVars
  <1>4. CountType'
    BY <1>1, Numbers DEF IInv, CountType, BytesInv, procVars
  <1>5. PhaseInv'
    BY <1>1 DEF IInv, PhaseInv, procVars
  <1>6. BytesInv'
    BY <1>1, Numbers DEF IInv, CountType, BytesInv, procVars
  <1>7. BindInv' /\ BoundOnlyOnSuccess'
    BY <1>1 DEF IInv, BindInv, BoundOnlyOnSuccess, Ended, procVars
  <1>8. QED
    BY <1>2, <1>3, <1>4, <1>5, <1>6, <1>7 DEF IInv

\* The response of a shell command.
LEMMA RunReturnsIInv == ASSUME IInv, RunReturns PROVE IInv'
  <1>1. /\ pc = "ran" /\ FinishTurn
        /\ UNCHANGED <<procVars, decoder, streamed, notes, closed, client, got>>
    BY DEF RunReturns
  <1>2. /\ runner = "run" /\ ~bound /\ bound \in BOOLEAN
        /\ child # "running" /\ ~holder /\ pipe = 0 /\ decoder = 0
        /\ out \in 0..MaxOut /\ kept \in 0..Cap /\ pipe <= out
    BY <1>1 DEF IInv, PhaseInv, BindInv, BytesInv, CountType, FlagType, Ended
  <1>3. /\ res' \in {"ok", "fail", "error"} /\ bound' \in BOOLEAN
        /\ bound' => res' = "ok" /\ child = "zero" /\ ~timedOut
    BY <1>2 DEF RunReturns, Bind
  <1>4. QED
    BY <1>1, <1>2, <1>3, FinishIInv DEF Ended, procVars

\* spawn failed after all: there was no output.
LEMMA SpawnFailsIInv == ASSUME IInv, SpawnFails PROVE IInv'
  <1>1. /\ pc = "wait" /\ runner \in {"run", "cli"} /\ out = 0 /\ ~holder
        /\ child' = "none" /\ FinishTurn /\ res' = "error"
        /\ UNCHANGED <<runner, holder, pipe, out, kept, truncated, timedOut, bound, notes,
                       decoder, streamed, closed, client, got>>
    BY DEF SpawnFails, EndTurn
  <1>2. ~bound /\ bound \in BOOLEAN /\ out \in 0..MaxOut /\ kept \in 0..Cap /\ pipe <= out
    BY <1>1 DEF IInv, BindInv, FlagType, CountType, BytesInv, Ended
  <1>3. runner = "run" => pipe = 0 /\ decoder = 0
    BY <1>1, Numbers DEF IInv, CountType, BytesInv, Min2
  <1>4. QED
    BY <1>1, <1>2, <1>3, FinishIInv DEF Ended

LEMMA CliClosesIInv == ASSUME IInv, CliCloses PROVE IInv'
  <1>1. /\ pc = "wait" /\ runner = "cli"
        /\ UNCHANGED <<procVars, bound, notes, closed, client, got>>
        /\ EndTurn("ok") \/ EndTurn("error")
    BY DEF CliCloses, Settles
  <1>2. QED
    BY <1>1, EndTurnIInv DEF Ended
-----------------------------------------------------------------------------
(* The stream. *)

\* Once the client has done, an error event may follow.
LEMMA DoneThenError ==
  ASSUME got \in Seq(Events), DoneReceived, got' = Append(got, "error")
  PROVE  DoneReceived'
  <1>1. PICK i \in 1..Len(got) : got[i] = "done" /\ \A j \in (i + 1)..Len(got) : got[j] = "error"
    BY DEF DoneReceived
  <1>2. /\ Len(got') = Len(got) + 1 /\ Len(got) \in Nat
        /\ got'[Len(got) + 1] = "error"
        /\ \A j \in 1..Len(got) : got'[j] = got[j]
    BY AppendProperties
  <1>3. i \in 1..Len(got') /\ got'[i] = "done"
    BY <1>1, <1>2
  <1>4. ASSUME NEW j \in (i + 1)..Len(got') PROVE got'[j] = "error"
    BY <1>1, <1>2
  <1>5. QED
    BY <1>3, <1>4 DEF DoneReceived

\* The writer delivers done, or has nothing to do with it.
LEMMA WriteDoneIInv == ASSUME IInv, WriteDone PROVE IInv'
  <1>1. /\ writing # Idle
        /\ got' = IF writing.lost \/ ~client THEN got ELSE Append(got, writing.ev)
        /\ IF queue = <<>> THEN writing' = Idle /\ queue' = queue
           ELSE writing' = [ev |-> Head(queue), lost |-> closed] /\ queue' = Tail(queue)
        /\ UNCHANGED <<pc, procVars, turnVars, closed, client, overlap>>
    BY DEF WriteDone
  <1>2. got' \in Seq(Events)
    <2>1. CASE writing.lost \/ ~client
      BY <1>1, <2>1 DEF IInv, StreamType
    <2>2. CASE ~(writing.lost \/ ~client)
      <3>1. writing.ev \in Events
        <4>1. ~writing.lost /\ writing.lost \in BOOLEAN /\ writing.ev \in Events \cup {"none"}
          BY <2>2 DEF IInv, StreamType, WriteStates
        <4>2. CASE writing.ev = "none"
          <5>1. writing = [ev |-> "none", lost |-> FALSE]
            BY <4>1, <4>2 DEF IInv, StreamType, WriteStates
          <5>2. QED
            BY <1>1, <5>1 DEF Idle
        <4>3. QED
          BY <4>1, <4>2
      <3>2. QED
        BY <1>1, <2>2, <3>1 DEF IInv, StreamType
    <2>3. QED
      BY <2>1, <2>2
  <1>3. queue' \in Seq(Events) /\ writing' \in WriteStates
    <2>1. CASE queue = <<>>
      <3>1. Idle \in WriteStates
        BY DEF WriteStates, Idle
      <3>2. QED
        BY <1>1, <2>1, <3>1 DEF IInv, StreamType
    <2>2. CASE queue # <<>>
      <3>1. Head(queue) \in Events /\ Tail(queue) \in Seq(Events)
        BY <2>2 DEF IInv, StreamType
      <3>2. [ev |-> Head(queue), lost |-> closed] \in WriteStates
        BY <3>1 DEF IInv, FlagType, WriteStates
      <3>3. QED
        BY <1>1, <2>2, <3>1, <3>2
    <2>3. QED
      BY <2>1, <2>2
  <1>4. StreamInv'
    <2>1. (writing' = Idle => queue' = <<>>) /\ (writing'.lost => closed')
      <3>1. CASE queue = <<>>
        BY <1>1, <3>1 DEF Idle
      <3>2. CASE queue # <<>>
        <4>1. writing' = [ev |-> Head(queue), lost |-> closed] /\ Head(queue) \in Events
          BY <1>1, <3>2 DEF IInv, StreamType
        <4>2. QED
          BY <1>1, <4>1 DEF Idle, Events
      <3>3. QED
        BY <3>1, <3>2
    <2>2. closed' => pc' = "closed"
      BY <1>1 DEF IInv, StreamInv
    <2>3. ~overlap /\ pc \in {"append", "closed"} => FALSE
      BY <1>1 DEF IInv, StreamInv
    <2>4. ASSUME ~overlap, pc = "drain" PROVE writing' = Idle /\ (client => DoneReceived')
      <3>1. writing = [ev |-> "done", lost |-> FALSE] /\ queue = <<>>
        BY <1>1, <2>4 DEF IInv, StreamInv
      <3>2. writing' = Idle
        BY <1>1, <3>1
      <3>3. ASSUME client PROVE DoneReceived'
        <4>1. got' = Append(got, "done")
          BY <1>1, <3>1, <3>3
        <4>2. got \in Seq(Events)
          BY DEF IInv, StreamType
        <4>3. Len(got') = Len(got) + 1 /\ Len(got) \in Nat /\ got'[Len(got) + 1] = "done"
          BY <4>1, <4>2, AppendProperties
        <4>4. QED
          BY <4>3 DEF DoneReceived
      <3>4. QED
        BY <3>2, <3>3
    <2>5. QED
      BY <1>1, <2>1, <2>2, <2>3, <2>4 DEF StreamInv
  <1>5. PlaceType' /\ CountType' /\ FlagType'
    BY <1>1 DEF IInv, PlaceType, CountType, FlagType, procVars, turnVars
  <1>6. PhaseInv' /\ BytesInv'
    BY <1>1 DEF IInv, PhaseInv, BytesInv, procVars, turnVars
  <1>7. BindInv' /\ BoundOnlyOnSuccess'
    BY <1>1 DEF IInv, BindInv, BoundOnlyOnSuccess, procVars, turnVars
  <1>8. QED
    BY <1>2, <1>3, <1>4, <1>5, <1>6, <1>7 DEF IInv, StreamType

\* The way from the last drain to the close, and a client that goes away.
LEMMA CloseIInv ==
  ASSUME IInv, Drained \/ Recorded \/ RecordFails \/ ClientLeaves
  PROVE  IInv'
  <1>1. UNCHANGED <<procVars, turnVars, queue, writing, overlap>>
    BY DEF Drained, Recorded, RecordFails, ClientLeaves, sseVars
  <1>2. StreamType' /\ StreamInv' /\ PlaceType' /\ closed' \in BOOLEAN /\ client' \in BOOLEAN
    <2>1. CASE Drained
      BY <1>1, <2>1
         DEF Drained, IInv, StreamType, StreamInv, DoneReceived, PlaceType, FlagType,
             sseVars, procVars, turnVars, Idle
    <2>2. CASE Recorded
      BY <1>1, <2>2
         DEF Recorded, IInv, StreamType, StreamInv, DoneReceived, PlaceType, FlagType,
             procVars, turnVars
    <2>3. CASE RecordFails
      <3>1. got' \in Seq(Events)
        BY <2>3 DEF RecordFails, IInv, StreamType, Events
      <3>2. client /\ DoneReceived => DoneReceived'
        BY <2>3, DoneThenError DEF RecordFails, IInv, StreamType
      <3>3. QED
        BY <1>1, <2>3, <3>1, <3>2
           DEF RecordFails, IInv, StreamType, StreamInv, PlaceType, FlagType, procVars, turnVars
    <2>4. CASE ClientLeaves
      <3>1. client' = FALSE /\ UNCHANGED <<pc, closed, got>>
        BY <2>4 DEF ClientLeaves
      <3>2. StreamType' /\ StreamInv'
        BY <1>1, <3>1 DEF IInv, StreamType, StreamInv
      <3>3. PlaceType' /\ closed' \in BOOLEAN
        BY <1>1, <3>1 DEF IInv, PlaceType, FlagType, procVars, turnVars
      <3>4. QED
        BY <3>1, <3>2, <3>3
    <2>5. QED
      BY <2>1, <2>2, <2>3, <2>4
  <1>3. CountType' /\ FlagType'
    BY <1>1, <1>2 DEF IInv, CountType, FlagType, procVars, turnVars
  <1>4. pc' = pc \/ (pc \in Ended /\ pc' \in Ended)
    BY DEF Drained, Recorded, RecordFails, ClientLeaves, Ended
  <1>5. PhaseInv' /\ BytesInv'
    BY <1>1, <1>4 DEF IInv, PhaseInv, BytesInv, Ended, procVars, turnVars
  <1>6. BindInv' /\ BoundOnlyOnSuccess'
    BY <1>1, <1>4 DEF IInv, BindInv, BoundOnlyOnSuccess, Ended, procVars, turnVars
  <1>7. QED
    BY <1>2, <1>3, <1>5, <1>6 DEF IInv
-----------------------------------------------------------------------------
LEMMA StutterIInv == ASSUME IInv, UNCHANGED vars PROVE IInv'
  <1>1. UNCHANGED <<pc, procVars, turnVars, sseVars>>
    BY DEF vars
  <1>2. StreamType' /\ StreamInv'
    BY <1>1, StreamFrame
  <1>3. PlaceType' /\ CountType' /\ FlagType'
    BY <1>1 DEF IInv, PlaceType, CountType, FlagType, procVars, turnVars, sseVars
  <1>4. PhaseInv' /\ BytesInv'
    BY <1>1 DEF IInv, PhaseInv, BytesInv, procVars, turnVars
  <1>5. BindInv' /\ BoundOnlyOnSuccess'
    BY <1>1 DEF IInv, BindInv, BoundOnlyOnSuccess, procVars, turnVars
  <1>6. QED
    BY <1>2, <1>3, <1>4, <1>5 DEF IInv

LEMMA NextIInv == ASSUME IInv, Next PROVE IInv'
  <1>1. Cd => pc \in {"turn", "stat"}
    BY DEF Cd
  <1>2. QED
    BY <1>1, ChooseIInv, StartIInv, AtOnceIInv, McpNotifyIInv, BodyBeginsIInv, McpEndsIInv,
       HttpEndsIInv, BodyChunkIInv, ChildIInv, RunDataIInv, ClipStdoutIInv, RunClosesIInv,
       RunReturnsIInv, SpawnFailsIInv, CliClosesIInv, WriteDoneIInv, CloseIInv
       DEF Next

LEMMA Invariance == Spec => []IInv
  <1>1. IInv /\ [Next]_vars => IInv'
    BY NextIInv, StutterIInv
  <1>2. QED
    BY InitIInv, <1>1, PTL DEF Spec

\* Every variable keeps its type: no more bytes are kept or streamed than the
\* cap allows.
THEOREM TypeCorrect == Spec => []TypeOK
  <1>1. IInv => TypeOK
    BY TypeParts DEF IInv
  <1>2. QED
    BY <1>1, Invariance, PTL

\* A shell command's output is complete up to the cap, truncated says whether
\* it was cut, and the stream carried the same bytes, however its writes, the
\* reads of the pipe, its exit and its time-out interleave.
THEOREM OutputIsComplete == Spec => []OutputComplete
  <1>1. IInv => OutputComplete
    BY Numbers DEF IInv, CountType, BytesInv, OutputComplete
  <1>2. QED
    BY <1>1, Invariance, PTL

\* A binding is captured only from a success within its time.
THEOREM BindingsFromSuccess == Spec => []BoundOnlyOnSuccess
  <1>1. IInv => BoundOnlyOnSuccess
    BY DEF IInv
  <1>2. QED
    BY <1>1, Invariance, PTL

\* A client that stays gets done, and gets it last, unless the last drain met
\* another one.
THEOREM DoneIsDelivered == Spec => []DoneUnlessOverlap
  <1>1. IInv => DoneUnlessOverlap
    BY DEF IInv, StreamInv, DoneReceived, DoneUnlessOverlap
  <1>2. QED
    BY <1>1, Invariance, PTL
=============================================================================
