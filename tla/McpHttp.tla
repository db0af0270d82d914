------------------------------ MODULE McpHttp ------------------------------
(***************************************************************************)
(* The HTTP transport of an MCP server: src/mcp/client.ts (requests with   *)
(* the rotating Mcp-Session-Id, the long-lived notification stream), with  *)
(* the debouncer of src/mcp/catalog-dispatcher.ts and the list refresher   *)
(* of src/mcp/catalog-refresh.ts that the notifications drive.             *)
(*                                                                         *)
(* The server is not this repository's code: it may issue, keep or forget  *)
(* session ids, change its tool list, answer late, fail or not answer.     *)
(* Lists are version numbers.  The limiter modelled in McpStdio is one of  *)
(* the ways a request may fail here.                                       *)
(***************************************************************************)
EXTENDS Naturals, FiniteSets

CONSTANTS
  Main,        \* the slot of connect's own requests, later of a user's
  Refreshers,  \* slots for tools/list refreshes
  MaxInFlight, \* bound: requests under way at once
  MaxSid,      \* bound: session ids the server issues
  MaxVer,      \* bound: changes of the server's list
  Backoffs     \* STREAM_BACKOFFS_MS.length

Slots == {Main} \cup Refreshers

ASSUME HttpAssumption ==
  /\ IsFiniteSet(Refreshers) /\ Main \notin Refreshers
  /\ {MaxInFlight, MaxSid, MaxVer, Backoffs} \subseteq Nat

VARIABLES
  boot,             \* where connectMcpServer is
  closed,           \* close() was called
  cachedSessionId,  \* 0: null
  call,             \* the request each slot has under way
  overlapped,       \* history: two requests have been under way at once
  issued, valid,    \* the server's session ids: handed out, still accepted
  srvTools, note,   \* the server's list, and a notification it has to send
  tools,            \* the client's copy
  debounce,         \* pendingTimers has a list_changed timer
  excuse,           \* history: a notification or a refresh was lost
  stream, attempt, everConnected, streamStatus

idVars == <<cachedSessionId, overlapped, issued, valid>>
catVars == <<srvTools, note, tools, debounce, excuse>>
streamVars == <<stream, attempt, everConnected, streamStatus>>
httpVars == <<boot, closed, call, idVars, catVars, streamVars>>

NoReply == [kind |-> "none", id |-> 0, ver |-> 0]
Idle == [st |-> "idle", hdr |-> 0, retry |-> FALSE, rep |-> NoReply]
Sent(h, r) == [st |-> "sent", hdr |-> h, retry |-> r, rep |-> NoReply]

HttpInit ==
  /\ boot = "initialize" /\ closed = FALSE
  /\ cachedSessionId = 0 /\ overlapped = FALSE /\ issued = 0 /\ valid = {}
  /\ call = [s \in Slots |-> Idle]
  /\ srvTools = 0 /\ note = FALSE /\ tools = 0 /\ debounce = FALSE /\ excuse = FALSE
  /\ stream = "none" /\ attempt = 0 /\ everConnected = FALSE /\ streamStatus = "connecting"
-----------------------------------------------------------------------------
(* Requests. *)

UnderWay == {s \in Slots : call[s] # Idle}

Begin(s) ==
  /\ call[s] = Idle /\ Cardinality(UnderWay) < MaxInFlight
  /\ call' = [call EXCEPT ![s] = Sent(cachedSessionId, FALSE)]
  /\ overlapped' = (overlapped \/ UnderWay # {})

\* connect sends its next request, or a user of the client one.
Request ==
  /\ boot # "failed" /\ ~closed
  /\ Begin(Main)
  /\ UNCHANGED <<boot, closed, cachedSessionId, issued, valid, catVars, streamVars>>

\* What follows connect's requests: initialize and tools/list must succeed; a
\* server may lack resources and prompts.
AfterBoot(ok) ==
  CASE boot = "initialize" -> IF ok THEN {"tools"} ELSE {"failed"}
    [] boot = "tools"      -> IF ok THEN {"resources"} ELSE {"failed"}
    [] boot = "resources"  -> IF ok THEN {"prompts"} ELSE {"prompts", "failed"}
    [] boot = "prompts"    -> IF ok THEN {"open"} ELSE {"open", "failed"}
    [] OTHER -> {boot}

\* connect is done: the notification stream is opened if the server announced
\* notifications.
OpenStream ==
  \/ stream' = "connecting" /\ UNCHANGED <<attempt, everConnected, streamStatus>>
  \/ streamStatus' = "unavailable" /\ UNCHANGED <<stream, attempt, everConnected>>

\* connect and refreshTools put the list they fetched in place of the old one,
\* whatever was fetched meanwhile; a refresh that failed is logged.
TakeList(s, ok, ver) ==
  /\ tools' = IF ok /\ (s \in Refreshers \/ boot = "tools") THEN ver ELSE tools
  /\ excuse' = (excuse \/ (s \in Refreshers /\ (~ok \/ ver < tools)))

\* A request of slot s returned to whoever awaits it.
Return(s, ok, ver) ==
  /\ boot' \in (IF s = Main THEN AfterBoot(ok) ELSE {boot})
  /\ TakeList(s, ok, ver)
  /\ IF boot # "open" /\ boot' = "open" THEN OpenStream ELSE UNCHANGED streamVars
  /\ UNCHANGED <<srvTools, note, debounce>>

\* The limiter refuses, the fetch fails, the timer aborts it, before the server
\* saw the request or after, or the answer is an error other than a 400.
Fails(s) ==
  /\ call[s].st \in {"sent", "reply"}
  /\ call' = [call EXCEPT ![s] = Idle]
  /\ Return(s, FALSE, 0)
  /\ UNCHANGED <<closed, idVars>>

\* A 200 adopts the id it carries.  The timer of a 400 is cleared before its
\* body is read.
Receive(s) ==
  /\ call[s].st = "reply"
  /\ LET rep == call[s].rep IN
     \/ /\ rep.kind = "ok"
        /\ cachedSessionId' = IF rep.id # 0 THEN rep.id ELSE cachedSessionId
        /\ call' = [call EXCEPT ![s] = Idle]
        /\ Return(s, TRUE, rep.ver)
     \/ /\ rep.kind \in {"bad", "mention", "rejected"}
        /\ call' = [call EXCEPT ![s].st = "body"]
        /\ UNCHANGED <<boot, cachedSessionId, catVars, streamVars>>
  /\ UNCHANGED <<closed, overlapped, issued, valid>>

\* looksLikeSessionIdError goes by words of the body, which a 400 of another kind
\* may contain as well.
AboutSession(rep) == rep.kind \in {"rejected", "mention"}

\* Mutant: every 400 is taken for a session that is gone.
ReadBodyAny(s) ==
  /\ call[s].st = "body"
  /\ IF ~call[s].retry
       THEN /\ cachedSessionId' = 0
            /\ call' = [call EXCEPT ![s] = Sent(0, TRUE)]
            /\ UNCHANGED <<boot, catVars, streamVars>>
       ELSE /\ call' = [call EXCEPT ![s] = Idle]
            /\ Return(s, FALSE, 0)
            /\ UNCHANGED cachedSessionId
  /\ UNCHANGED <<closed, overlapped, issued, valid>>

\* The body of a 400 arrived.  If it is about the session id, rpc() drops the
\* cached one and tries once more without.
ReadBody(s) ==
  /\ call[s].st = "body"
  /\ IF AboutSession(call[s].rep) /\ ~call[s].retry
       THEN /\ cachedSessionId' = 0
            /\ call' = [call EXCEPT ![s] = Sent(0, TRUE)]
            /\ UNCHANGED <<boot, catVars, streamVars>>
       ELSE /\ call' = [call EXCEPT ![s] = Idle]
            /\ Return(s, FALSE, 0)
            /\ UNCHANGED cachedSessionId
  /\ UNCHANGED <<closed, overlapped, issued, valid>>
-----------------------------------------------------------------------------
(* The notification stream. *)

\* Mutant: the last rung gives up without a word.
GiveUpSilently ==
  IF attempt >= Backoffs
    THEN stream' = "ended" /\ UNCHANGED <<attempt, streamStatus>>
    ELSE stream' = "backoff" /\ attempt' = attempt + 1 /\ UNCHANGED streamStatus

\* backoffOrGiveUp
BackoffOrGiveUp ==
  IF attempt >= Backoffs
    THEN stream' = "ended" /\ streamStatus' = "disabled" /\ UNCHANGED attempt
    ELSE stream' = "backoff" /\ attempt' = attempt + 1 /\ UNCHANGED streamStatus

\* The GET failed or was answered by an error worth retrying.
StreamFails ==
  /\ stream = "connecting" /\ ~closed
  /\ IF everConnected THEN BackoffOrGiveUp
     ELSE stream' = "ended" /\ streamStatus' = "disabled" /\ UNCHANGED attempt
  /\ UNCHANGED <<boot, closed, call, idVars, catVars, everConnected>>

\* 404 and 405, or 401 and 403.
StreamRefused ==
  /\ stream = "connecting" /\ ~closed
  /\ stream' = "ended" /\ streamStatus' \in {"unsupported", "disabled"}
  /\ UNCHANGED <<boot, closed, call, idVars, catVars, attempt, everConnected>>

StreamOpens ==
  /\ stream = "connecting" /\ ~closed
  /\ stream' = "open" /\ everConnected' = TRUE /\ attempt' = 0 /\ streamStatus' = "connected"
  /\ UNCHANGED <<boot, closed, call, idVars, catVars>>

\* The server ended the stream: the status still says connected.
StreamEnds ==
  /\ stream = "open" /\ ~closed
  /\ BackoffOrGiveUp
  /\ UNCHANGED <<boot, closed, call, idVars, catVars, everConnected>>

\* The stream broke: onDisconnected, then back off.  attempt is 0 here.
StreamBreaks ==
  /\ stream = "open" /\ ~closed
  /\ streamStatus' = "disabled"
  /\ IF attempt >= Backoffs THEN stream' = "ended" /\ UNCHANGED attempt
     ELSE stream' = "backoff" /\ attempt' = attempt + 1
  /\ UNCHANGED <<boot, closed, call, idVars, catVars, everConnected>>

BackoffDone ==
  /\ stream = "backoff" /\ ~closed
  /\ stream' = "connecting"
  /\ UNCHANGED <<boot, closed, call, idVars, catVars, attempt, everConnected, streamStatus>>

\* close(): abort the stream wherever it is, and shut the dispatcher down.
CloseClient ==
  /\ boot = "open" /\ ~closed
  /\ closed' = TRUE /\ debounce' = FALSE
  /\ stream' = IF stream = "none" THEN "none" ELSE "ended"
  /\ UNCHANGED <<boot, call, idVars, srvTools, note, tools, excuse,
                 attempt, everConnected, streamStatus>>
-----------------------------------------------------------------------------
(* Dispatcher and refresher. *)

\* Mutant: a notification that finds a refresh under way is dropped.
DispatchCoalesces == debounce' = (~closed /\ (debounce \/ \A r \in Refreshers : call[r] = Idle))

\* dispatch(): a list_changed restarts the debounce timer, unless shut down.
Dispatch == debounce' = ~closed

\* The notification comes over the open stream, or in the event-stream body
\* of some request's answer.
Notify ==
  /\ note /\ \/ stream = "open"
             \/ \E s \in Slots : call[s].st = "reply" /\ call[s].rep.kind = "ok"
  /\ note' = FALSE
  /\ Dispatch
  /\ UNCHANGED <<boot, closed, call, idVars, srvTools, tools, excuse, streamVars>>

\* Mutant: the timer does nothing if the stream is not open when it fires.
FireIfStreaming ==
  /\ debounce /\ boot = "open"
  /\ debounce' = FALSE
  /\ IF stream = "open"
       THEN \E r \in Refreshers : Begin(r)
       ELSE UNCHANGED <<call, overlapped>>
  /\ UNCHANGED <<boot, closed, cachedSessionId, issued, valid, srvTools, note, tools, excuse, streamVars>>

\* The debounce timer fires: refreshTools, if the refresher is installed yet.
Fire ==
  /\ debounce
  /\ debounce' = FALSE
  /\ \/ /\ boot = "open"
        /\ \E r \in Refreshers : Begin(r)
        /\ UNCHANGED excuse
     \/ /\ boot # "open"
        /\ excuse' = TRUE
        /\ UNCHANGED <<call, overlapped>>
  /\ UNCHANGED <<boot, closed, cachedSessionId, issued, valid, srvTools, note, tools, streamVars>>
-----------------------------------------------------------------------------
(* The server. *)

\* It handles a request: one without an id, or with an id it accepts, is
\* answered, perhaps with the same or with a new id, or with a 400 that has
\* nothing to do with the id ("bad"), though its body may speak of the session
\* ("mention"); an unknown id is refused with a 400, whether or not in the words
\* the client looks for, and so may be a missing one after initialize.
Handle(s) ==
  /\ call[s].st = "sent"
  /\ LET h == call[s].hdr
         listed == s \in Refreshers \/ boot = "tools"
         Answer(kind, id) == call' = [call EXCEPT ![s].st = "reply", ![s].hdr = 0,
              ![s].rep = [kind |-> kind, id |-> id,
                          ver |-> IF kind = "ok" /\ listed THEN srvTools ELSE 0]]
     IN \/ /\ h = 0 \/ h \in valid
           /\ \/ Answer("ok", h) /\ UNCHANGED <<issued, valid>>
              \/ /\ issued < MaxSid
                 /\ issued' = issued + 1 /\ valid' = valid \cup {issued + 1}
                 /\ Answer("ok", issued + 1)
              \/ /\ Answer("bad", 0) \/ Answer("mention", 0)
                 /\ UNCHANGED <<issued, valid>>
        \/ /\ h \notin valid /\ ~(h = 0 /\ boot = "initialize")
           /\ Answer("bad", 0) \/ Answer("rejected", 0)
           /\ UNCHANGED <<issued, valid>>
  /\ UNCHANGED <<boot, closed, cachedSessionId, overlapped, catVars, streamVars>>

\* It forgets a session: expiry, or a restart.
Forget ==
  /\ \E i \in valid : valid' = valid \ {i}
  /\ UNCHANGED <<boot, closed, call, cachedSessionId, overlapped, issued, catVars, streamVars>>

ServerChanges ==
  /\ srvTools < MaxVer
  /\ srvTools' = srvTools + 1 /\ note' = TRUE
  /\ UNCHANGED <<boot, closed, call, idVars, tools, debounce, excuse, streamVars>>

\* With no stream to send it on, a notification is lost.
NoteLost ==
  /\ note /\ stream # "open"
  /\ note' = FALSE /\ excuse' = TRUE
  /\ UNCHANGED <<boot, closed, call, idVars, srvTools, tools, debounce, streamVars>>
-----------------------------------------------------------------------------
HttpNext ==
  \/ Request \/ CloseClient \/ Notify \/ Fire
  \/ \E s \in Slots : Fails(s) \/ Receive(s) \/ ReadBody(s) \/ Handle(s)
  \/ StreamFails \/ StreamRefused \/ StreamOpens \/ StreamEnds \/ StreamBreaks \/ BackoffDone
  \/ Forget \/ ServerChanges \/ NoteLost

HttpSpec == HttpInit /\ [][HttpNext]_httpVars

\* Timers fire and answers that arrived are processed.  Nothing is assumed of
\* the server, nor of the body of a 400, whose timer is cleared.
HttpFairness ==
  /\ \A s \in Slots : WF_httpVars(Fails(s)) /\ WF_httpVars(Receive(s))
  /\ WF_httpVars(Fire)

HttpFairSpec == HttpSpec /\ HttpFairness
-----------------------------------------------------------------------------
(* Properties. *)

HttpTypeOK ==
  /\ boot \in {"initialize", "tools", "resources", "prompts", "open", "failed"}
  /\ cachedSessionId \in 0..MaxSid /\ issued \in 0..MaxSid /\ valid \subseteq 1..issued
  /\ call \in [Slots -> [st : {"idle", "sent", "reply", "body"}, hdr : 0..MaxSid, retry : BOOLEAN,
                         rep : [kind : {"none", "ok", "bad", "mention", "rejected"},
                                id : 0..MaxSid, ver : 0..MaxVer]]]
  /\ srvTools \in 0..MaxVer /\ tools \in 0..MaxVer
  /\ {closed, overlapped, note, debounce, excuse, everConnected} \subseteq BOOLEAN
  /\ stream \in {"none", "connecting", "open", "backoff", "ended"} /\ attempt \in 0..Backoffs
  /\ streamStatus \in {"connecting", "connected", "unsupported", "disabled", "unavailable"}

\* A 400 of another kind that reads as if it were about the session.
Mistakable(s) == call[s].st = "body" /\ call[s].rep.kind = "mention"

\* A client whose calls do not overlap gives up a session the server still
\* holds only for one the server handed it, or for a 400 of another kind that
\* looksLikeSessionIdError mistakes, and then to ask again at once: a failed
\* request, a timeout, an error or any other 400 never costs it its session.
SessionKept ==
  [][~overlapped' /\ cachedSessionId \in valid /\ cachedSessionId' = 0
       => \E s \in Slots : Mistakable(s) /\ call'[s] = Sent(0, TRUE)]_httpVars

\* The client's list is the server's, unless a notification or a refresh is
\* under way, or one was lost, failed or was overtaken by an older answer.
CatalogFollows ==
  boot = "open" /\ ~closed /\ tools # srvTools =>
    note \/ debounce \/ excuse \/ \E r \in Refreshers : call[r] # Idle

\* A notification that was dispatched while the client is open leads to a
\* refresh with the news, if nothing is lost on the way and no answer is
\* stuck for ever in the body of a 400.
CatalogCatchesUp ==
  \A v \in 1..MaxVer :
    [](boot = "open" /\ debounce /\ srvTools = v
         => <>(tools >= v \/ excuse \/ closed \/ [](\E r \in Refreshers : call[r].st = "body")))

\* Once the stream is given up, the status shown to operators no longer says
\* that notifications flow.
GivenUpReported ==
  stream = "ended" /\ ~closed => streamStatus \in {"unsupported", "disabled"}
=============================================================================
