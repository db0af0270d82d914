----------------------------- MODULE McpStdio ------------------------------
(***************************************************************************)
(* The stdio transport of an MCP server: src/mcp/stdio-client.ts with the  *)
(* sliding-window limiter of src/mcp/rate-limit.ts.                        *)
(*                                                                         *)
(* The client writes id-correlated requests to a child process and reads   *)
(* answers from its stdout.  The child may answer late, twice, with an     *)
(* oversized line or never, and may exit at any moment; what it wrote      *)
(* before it exited is still read.  Lines that answer nothing              *)
(* (notifications, non-JSON, unknown ids) leave the request table alone.   *)
(***************************************************************************)
EXTENDS Integers, Sequences, FiniteSets

CONSTANTS
  Lists,     \* the list methods connect discovers with, in parallel
  MaxId,     \* bound: the last request id a behaviour uses
  MaxLines,  \* bound: unread lines on the child's stdout
  Rpm,       \* rate_limit_rpm
  Window,    \* WINDOW_MS, in ticks
  MaxTime    \* bound: ticks of the clock

ASSUME StdioAssumption ==
  /\ IsFiniteSet(Lists)
  /\ MaxId \in Nat /\ MaxId > Cardinality(Lists)
  /\ MaxLines \in Nat /\ Rpm \in Nat \ {0} /\ Window \in Nat /\ MaxTime \in Nat

Ids == 1..MaxId
Discovery == 2..(1 + Cardinality(Lists))  \* the ids of the list requests

VARIABLES
  phase,        \* where connectStdioMcpServer is
  nextRequestId,
  pending,      \* keys of the pending map
  timers,       \* requests whose setTimeout is armed
  outcome,      \* how each request's promise settled
  asked,        \* requests the child has been sent
  stdout,       \* lines the child wrote and the client has not read
  child,        \* the process: "up", or how it ended
  childExited, childExitError,
  stdinOpen,    \* proc.stdin.writable
  ladder,       \* where close() is on its way to SIGKILL
  now, timestamps,
  sends         \* history: when each request passed the limiter

rpcVars == <<nextRequestId, pending, timers, outcome, asked, timestamps, sends>>
procVars == <<child, childExited, childExitError, stdinOpen, ladder>>
vars == <<phase, rpcVars, procVars, stdout, now>>

Init ==
  /\ phase = "start"
  /\ nextRequestId = 1
  /\ pending = {} /\ timers = {} /\ asked = {}
  /\ outcome = [i \in Ids |-> "none"]
  /\ stdout = <<>>
  /\ child = "up" /\ childExited = FALSE /\ childExitError = FALSE
  /\ stdinOpen = TRUE /\ ladder = "none"
  /\ now = 0 /\ timestamps = <<>> /\ sends = <<>>
-----------------------------------------------------------------------------
(* The limiter and the request table. *)

\* Mutant: a timestamp exactly one window old is evicted.
StopsAtLate(n) == n = Len(timestamps) \/ timestamps[n + 1] > now - Window

\* The loop of acquire() has shifted n timestamps off the head and goes no
\* further: none is left, or the next one is inside the window.
StopsAt(n) == n = Len(timestamps) \/ timestamps[n + 1] >= now - Window

\* What that loop, which stops where it first can, leaves...
Evict ==
  LET n == CHOOSE n \in 0..Len(timestamps) : StopsAt(n) /\ \A m \in 0..(n - 1) : ~StopsAt(m)
  IN SubSeq(timestamps, n + 1, Len(timestamps))

\* ...and admits a request while there is room.
Room == Rpm - Len(Evict)

\* rpc() refuses outright once the child is gone or its stdin ended.
Reachable == ~childExited /\ stdinOpen

\* n requests pass the limiter in this tick and are written to stdin; those
\* in Failed throw from write() and leave the table again.
SendAll(n, Failed) ==
  LET new == nextRequestId..(nextRequestId + n - 1) IN
  /\ new \subseteq Ids
  /\ nextRequestId' = nextRequestId + n
  /\ timestamps' = Evict \o [k \in 1..n |-> now]
  /\ sends' = sends \o [k \in 1..n |-> now]
  /\ pending' = pending \cup (new \ Failed)
  /\ timers' = timers \cup (new \ Failed)
  /\ asked' = IF child = "up" THEN asked \cup (new \ Failed) ELSE asked
  /\ outcome' = [i \in Ids |-> IF i \in Failed THEN "unreachable" ELSE outcome[i]]

\* Mutant: a request leaves the table, but its timer stays armed.
SettleKeepsTimer(S, how) ==
  /\ pending' = pending \ S
  /\ outcome' = [i \in Ids |-> IF i \in S THEN how ELSE outcome[i]]
  /\ UNCHANGED timers

\* resolve() and reject() of a table entry clear its timer.
Settle(S, how) ==
  /\ pending' = pending \ S
  /\ timers' = timers \ S
  /\ outcome' = [i \in Ids |-> IF i \in S THEN how ELSE outcome[i]]

\* Mutant: the table is emptied without telling the callers.
ForgetAll(how) ==
  /\ pending' = {} /\ timers' = {}
  /\ UNCHANGED outcome

RejectAll(how) == Settle(pending, how)

\* A promise connect awaits has settled: its continuation is a microtask and
\* runs before the next event.
ContinuationDue ==
  \/ phase = "start"
  \/ phase = "handshake" /\ outcome[1] # "none"
  \/ phase = "discovery" /\ \/ \A i \in Discovery : outcome[i] # "none"
                            \/ \E i \in Discovery : outcome[i] \notin {"none", "result", "notfound"}
-----------------------------------------------------------------------------
(* connectStdioMcpServer. *)

\* spawn() throws: connect fails with nothing running.
SpawnFails ==
  /\ phase = "start"
  /\ phase' = "failed" /\ child' = "never"
  /\ UNCHANGED <<rpcVars, stdout, now, childExited, childExitError, stdinOpen, ladder>>

\* spawn() returned; the handlers are set up and initialize is sent.
Initialize ==
  /\ phase = "start"
  /\ phase' = "handshake"
  /\ \E Failed \in SUBSET {1} : SendAll(1, Failed)
  /\ UNCHANGED <<procVars, stdout, now>>

\* initialize was answered: the list requests go out together.  One the
\* limiter refuses, or that finds the child gone, fails connect; the others
\* are sent all the same.
Discover ==
  /\ phase = "handshake" /\ outcome[1] = "result"
  /\ \/ /\ Reachable /\ Room >= Cardinality(Lists)
        /\ phase' = "discovery"
        /\ \E Failed \in SUBSET Discovery : SendAll(Cardinality(Lists), Failed)
     \/ /\ Reachable /\ Room < Cardinality(Lists)
        /\ phase' = "failed"
        /\ SendAll(IF Room > 0 THEN Room ELSE 0, {})
     \/ /\ ~Reachable
        /\ phase' = "failed"
        /\ UNCHANGED rpcVars
  /\ UNCHANGED <<procVars, stdout, now>>

\* initialize failed, or a list request failed other than by method-not-found.
ConnectFails ==
  /\ \/ phase = "handshake" /\ outcome[1] \notin {"none", "result"}
     \/ phase = "discovery" /\ \E i \in Discovery : outcome[i] \notin {"none", "result", "notfound"}
  /\ phase' = "failed"
  /\ UNCHANGED <<rpcVars, procVars, stdout, now>>

\* Every list arrived or is not supported: the client is handed out.
Connected ==
  /\ phase = "discovery"
  /\ \A i \in Discovery : outcome[i] \in {"result", "notfound"}
  /\ phase' = "open"
  /\ UNCHANGED <<rpcVars, procVars, stdout, now>>
-----------------------------------------------------------------------------
(* The client in use. *)

\* callTool, readResource and getPrompt of something the catalog knows; also
\* a catalog refresh or an automatic subscription.
Call ==
  /\ phase = "open" /\ Reachable /\ Room > 0
  /\ \E Failed \in {{}, {nextRequestId}} : SendAll(1, Failed)
  /\ UNCHANGED <<phase, procVars, stdout, now>>

\* A request's timer fires.
Timeout(i) ==
  /\ i \in timers /\ ~ContinuationDue
  /\ timers' = timers \ {i}
  /\ pending' = pending \ {i}
  /\ outcome' = IF i \in pending THEN [outcome EXCEPT ![i] = "timeout"] ELSE outcome
  /\ UNCHANGED <<phase, nextRequestId, asked, timestamps, sends, procVars, stdout, now>>

\* handleIncomingLine: an answer settles its request if that is still pending.
HandleIncomingLine(line) == Settle({line.id} \cap pending, line.kind)

\* A line, or an unterminated one twice the limit, arrives on stdout.  An
\* oversized one rejects every request there is.
StdoutData ==
  /\ stdout # <<>>
  /\ stdout' = Tail(stdout)
  /\ IF Head(stdout).kind = "oversized" THEN RejectAll("toolarge")
     ELSE HandleIncomingLine(Head(stdout))
  /\ UNCHANGED <<phase, nextRequestId, asked, timestamps, sends, procVars, now>>

\* close(): end stdin, and start the way to SIGKILL.
Close ==
  /\ phase = "open" /\ ladder = "none"
  /\ IF childExited THEN ladder' = "done" /\ UNCHANGED stdinOpen
     ELSE ladder' = "eof" /\ stdinOpen' = FALSE
  /\ UNCHANGED <<phase, rpcVars, child, childExited, childExitError, stdout, now>>

\* Mutant: the timer after SIGTERM is never started.
TermTimerOnly ==
  /\ ladder = "eof" /\ ladder' = "done"
  /\ UNCHANGED <<phase, rpcVars, child, childExited, childExitError, stdinOpen, stdout, now>>

\* TERM_GRACE_MS after close(): SIGTERM a child that has not exited.
TermTimer ==
  /\ ladder = "eof"
  /\ ladder' = IF childExited THEN "done" ELSE "term"
  /\ UNCHANGED <<phase, rpcVars, child, childExited, childExitError, stdinOpen, stdout, now>>

\* KILL_GRACE_MS after close(): SIGKILL it.
KillTimer ==
  /\ ladder = "term"
  /\ ladder' = IF childExited THEN "done" ELSE "kill"
  /\ UNCHANGED <<phase, rpcVars, child, childExited, childExitError, stdinOpen, stdout, now>>
-----------------------------------------------------------------------------
(* The child process: not this repository's code. *)

\* It answers a request it was sent, perhaps for the second time.
ChildAnswers ==
  /\ child = "up" /\ phase # "start" /\ Len(stdout) < MaxLines
  /\ \E i \in asked, how \in {"result", "notfound", "rpcerror"} :
       stdout' = Append(stdout, [kind |-> how, id |-> i])
  /\ UNCHANGED <<phase, rpcVars, procVars, now>>

\* It writes more than MAX_LINE_BYTES before a newline.
ChildFloods ==
  /\ child = "up" /\ phase # "start" /\ Len(stdout) < MaxLines
  /\ stdout' = Append(stdout, [kind |-> "oversized", id |-> 0])
  /\ UNCHANGED <<phase, rpcVars, procVars, now>>

\* It ends: of its own accord with code 0 or another, or by a signal from
\* outside (the out-of-memory killer) or from close().  A child on the last
\* rung of close() cannot do anything else.
ChildEnds ==
  /\ child = "up" /\ phase # "start"
  /\ child' \in (IF ladder = "kill" THEN {"signalled"} ELSE {"zero", "nonzero", "signalled"})
  /\ UNCHANGED <<phase, rpcVars, childExited, childExitError, stdinOpen, ladder, stdout, now>>

\* The exit event.  Code 0, SIGTERM and SIGKILL count as orderly, whoever
\* caused them, and leave the pending requests to their timers; another code
\* or signal ("nonzero") rejects them.
ExitEvent ==
  /\ child \in {"zero", "nonzero", "signalled"} /\ ~childExited /\ ~ContinuationDue
  /\ childExited' = TRUE
  /\ childExitError' = (child = "nonzero")
  /\ IF child = "nonzero" THEN RejectAll("unreachable")
     ELSE UNCHANGED <<pending, timers, outcome>>
  /\ UNCHANGED <<phase, nextRequestId, asked, timestamps, sends, child, stdinOpen, ladder, stdout, now>>

\* The error event: the command could not be started after all.
ErrorEvent ==
  /\ phase = "handshake" /\ child = "up" /\ asked = {1} /\ stdout = <<>> /\ ~ContinuationDue
  /\ child' = "never"
  /\ childExited' = TRUE /\ childExitError' = TRUE
  /\ RejectAll("unreachable")
  /\ UNCHANGED <<phase, nextRequestId, asked, timestamps, sends, stdinOpen, ladder, stdout, now>>

Tick ==
  /\ now < MaxTime
  /\ now' = now + 1
  /\ UNCHANGED <<phase, rpcVars, procVars, stdout>>
-----------------------------------------------------------------------------
Next ==
  \/ SpawnFails \/ Initialize \/ Discover \/ ConnectFails \/ Connected
  \/ Call \/ StdoutData \/ Close \/ TermTimer \/ KillTimer
  \/ \E i \in Ids : Timeout(i)
  \/ ChildAnswers \/ ChildFloods \/ ChildEnds \/ ExitEvent \/ ErrorEvent
  \/ Tick

Spec == Init /\ [][Next]_vars

\* Timers and events of the process are delivered, a continuation that is due
\* runs, and a child that was sent SIGKILL ends.  Nothing is assumed of a
\* child that was not.
Fairness ==
  /\ WF_vars(Initialize) /\ WF_vars(Discover) /\ WF_vars(ConnectFails) /\ WF_vars(Connected)
  /\ \A i \in Ids : WF_vars(Timeout(i))
  /\ WF_vars(TermTimer) /\ WF_vars(KillTimer) /\ WF_vars(ExitEvent)
  /\ WF_vars(ladder = "kill" /\ ChildEnds)

FairSpec == Spec /\ Fairness
-----------------------------------------------------------------------------
(* Properties. *)

TypeOK ==
  /\ phase \in {"start", "handshake", "discovery", "open", "failed"}
  /\ nextRequestId \in 1..(MaxId + 1)
  /\ pending \subseteq Ids /\ timers \subseteq Ids /\ asked \subseteq Ids
  /\ outcome \in [Ids -> {"none", "result", "notfound", "rpcerror", "timeout",
                          "unreachable", "toolarge"}]
  /\ stdout \in Seq([kind : {"result", "notfound", "rpcerror", "oversized"}, id : Ids \cup {0}])
  /\ child \in {"up", "never", "zero", "nonzero", "signalled"}
  /\ childExited \in BOOLEAN /\ childExitError \in BOOLEAN /\ stdinOpen \in BOOLEAN
  /\ ladder \in {"none", "eof", "term", "kill", "done"}
  /\ now \in 0..MaxTime
  /\ timestamps \in Seq(0..MaxTime) /\ sends \in Seq(0..MaxTime)

\* The request table is exact: an entry, an armed timer and an unsettled
\* promise always go together, whatever order answers, duplicates, oversized
\* lines, time-outs and the child's death come in.  Nothing leaks, and no
\* caller is left without a timer.  After a crash (an exit code other than 0,
\* or a command that could not be started) the table is empty.
TableExact ==
  /\ pending = {i \in 1..(nextRequestId - 1) : outcome[i] = "none"}
  /\ timers = pending
  /\ childExitError => pending = {}

\* In no window of the limiter's length, both ends included, do more than Rpm
\* requests leave, handshake and discovery counted.
WindowRespected ==
  \A k \in 1..Len(sends) : k + Rpm <= Len(sends) => sends[k + Rpm] - sends[k] > Window

\* Every request settles, even when the child exits in good order and the
\* exit handler rejects nothing.
EveryCallSettles ==
  \A i \in Ids : (i \in pending) ~> (outcome[i] # "none")

\* close() ends the child, also one that ignores end-of-file and SIGTERM.
CloseEndsChild == (ladder \notin {"none"}) ~> (child # "up")
=============================================================================
