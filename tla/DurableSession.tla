--------------------------- MODULE DurableSession ---------------------------
(***************************************************************************)
(* What session persistence promises to a client, without saying how.      *)
(*                                                                         *)
(* A session has a working state that only grows (turns taken, mutations   *)
(* applied) and a saved state that a restart recovers.  A request may be   *)
(* answered with success only when the saved state covers it, unless the   *)
(* store is degraded: its latest save failed.  A crash forgets the working *)
(* state, and while the store is not degraded it forgets no answer.        *)
(***************************************************************************)
CONSTANTS
  Leq(_, _),       \* one state covers at least what another one does
  Covers(_, _)     \* a state covers what an answer claims

VARIABLES
  running,         \* the process that owns the session is alive
  working,         \* the state held in memory
  saved,           \* the state a restart would recover
  acked,           \* the claims of the answers given and not revoked
  degraded         \* the latest save failed

aVars == <<running, working, saved, acked, degraded>>

AInit ==
  /\ ~running
  /\ acked = {}
  /\ ~degraded

\* The session is created: there is a working state and nothing saved.
Start ==
  /\ ~running /\ running'
  /\ acked = {}
  /\ UNCHANGED <<saved, acked, degraded>>

\* Requests change the working state, and never undo what it covers.
Mutate ==
  /\ running /\ running'
  /\ Leq(working, working')
  /\ UNCHANGED <<saved, acked, degraded>>

\* Something no newer than the working state is saved; it covers what the
\* previously saved state did.
Save ==
  /\ running /\ running'
  /\ Leq(saved, saved') /\ Leq(saved', working)
  /\ ~degraded'
  /\ UNCHANGED <<working, acked>>

SaveFails ==
  /\ running /\ running'
  /\ degraded'
  /\ UNCHANGED <<working, saved, acked>>

Acknowledge ==
  /\ running /\ running'
  /\ \E c \in acked' : acked' = acked \cup {c} /\ (degraded \/ Covers(saved, c))
  /\ UNCHANGED <<working, saved, degraded>>

\* A crash revokes the answers the saved state does not cover: none of them,
\* unless the store is degraded.
Fail ==
  /\ running /\ ~running'
  /\ acked' = {c \in acked : Covers(saved, c)}
  /\ acked' # acked => degraded
  /\ ~degraded'
  /\ UNCHANGED saved

Recover ==
  /\ ~running /\ running'
  /\ working' = saved
  /\ UNCHANGED <<saved, acked, degraded>>

ANext == Start \/ Mutate \/ Save \/ SaveFails \/ Acknowledge \/ Fail \/ Recover

ASpec == AInit /\ [][ANext]_aVars
=============================================================================
