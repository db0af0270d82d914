------------------------- MODULE SessionStateProofs -------------------------
(***************************************************************************)
(* TLAPS proofs about SessionState, for every set of requests and every    *)
(* number of crashes.                                                      *)
(*                                                                         *)
(* AckDurable alone is not inductive: that the write which lets a request  *)
(* go on holds the request's effects depends on what memory, the snapshot  *)
(* being written and the dirty flag are at every earlier step.  IInv says  *)
(* it: disk <= body <= memory, the snapshot is memory unless the flag is   *)
(* set, and every request is covered by whichever of the three it has      *)
(* already reached.                                                        *)
(***************************************************************************)
EXTENDS SessionState, TLAPS

\* A run of the session that mutated memory to m, in one step or in several.
Mutates(m) == MarkDirty(m) \/ MarkDirtyRepeatedly(m)

\* The chain state.json <= snapshot <= memory.
FlushInv ==
  /\ live = "absent" => disk = NoState
  /\ live # "up" => flushStep = "idle" /\ ~stale
  /\ flushStep = "idle" => ~persistDirty
  /\ live = "up" => Leq(disk, mem)
  /\ flushStep # "idle" =>
       /\ body \in PersistedSession
       /\ Leq(disk, body) /\ Leq(body, mem)
       /\ ~persistDirty => body = mem
  /\ flushStep = "rename" => tmp = body
  /\ IdleMeansSaved

\* How far request r's effects have got.
ReqInv(r) ==
  /\ live = "absent" => pc[r] = "idle"
  /\ pc[r] = "idle" => r \notin mutated /\ turnOf[r] = 0
  /\ pc[r] = "dropped" => lossy
  /\ pc[r] \in {"exec", "sent", "append"} =>
       live = "up" /\ r \in ExecReqs /\ (r \in mutated => r \in mem.effects)
  /\ pc[r] = "append" => turnOf[r] <= mem.turn
  /\ pc[r] \in {"flush", "settled"} => live = "up"
  /\ pc[r] \in {"flush", "settled", "ok"} /\ live = "up" => Covers(mem, Claim(r))
  /\ pc[r] \in {"settled", "ok"} /\ flushStep # "idle" => Covers(body, Claim(r))
  /\ pc[r] \in {"settled", "ok"} /\ ~stale => Covers(disk, Claim(r))

\* The requests whose turn number is still in force.
Numbered == {r \in ExecReqs : pc[r] \in {"append", "flush", "settled", "ok"}}

TurnInv ==
  /\ \A r \in Numbered : live = "up" => turnOf[r] <= mem.turn
  /\ \A r, s \in Numbered : turnOf[r] = turnOf[s] => r = s

IInv ==
  /\ TypeOK
  /\ FlushInv
  /\ \A r \in Clients : ReqInv(r)
  /\ TurnInv
-----------------------------------------------------------------------------
(* The order on states. *)

\* Leq is reflexive and transitive on complete states.
LEMMA LeqReflexive == \A a \in PersistedSession : Leq(a, a)
  BY DEF Leq, PersistedSession

\* Leq is transitive past a state that exists.
LEMMA LeqTransitive ==
  ASSUME NEW a, NEW b, NEW c, Leq(a, b), Leq(b, c), b # NoState
  PROVE  Leq(a, c)
  BY DEF Leq, PersistedSession

\* What a state covers, every larger state covers.
LEMMA CoversMonotone ==
  ASSUME NEW a, NEW b, NEW c, c.turn \in Nat, Covers(a, c), Leq(a, b)
  PROVE  Covers(b, c)
  BY ConstantsAssumption DEF Leq, Covers, PersistedSession

\* Each mutation of the session leaves a larger state.
LEMMA MutationsGrow ==
  ASSUME NEW m \in PersistedSession
  PROVE  /\ \A r \in Mutators :
              LET n == [m EXCEPT !.effects = @ \cup {r}] IN
              n \in PersistedSession /\ Leq(m, n) /\ r \in n.effects
                /\ n.turn = m.turn /\ n.history = m.history
         /\ \A r \in ExecReqs :
              LET n == [m EXCEPT !.history = @ \cup {r}] IN
              n \in PersistedSession /\ Leq(m, n) /\ r \in n.history
                /\ n.turn = m.turn /\ n.effects = m.effects
         /\ LET n == [m EXCEPT !.turn = m.turn + 1] IN
              n \in PersistedSession /\ Leq(m, n)
                /\ n.turn = m.turn + 1 /\ n.effects = m.effects /\ n.history = m.history
  BY DEF Leq, PersistedSession, Mutators

-----------------------------------------------------------------------------
(* markDirty, in a running session. *)

\* A mutation that grows memory keeps the chain of states and the types.
LEMMA MarkDirtyKeepsFlushInv ==
  ASSUME TypeOK, FlushInv, live = "up", NEW m \in PersistedSession, Leq(mem, m),
         Mutates(m), UNCHANGED <<live, tmp, disk, ghostVars>>
  PROVE  /\ FlushInv'
         /\ mem' = m
         /\ persistDirty' \in BOOLEAN
         /\ flushStep' \in {"idle", "open", "write", "rename"}
         /\ body' \in PersistedSession \cup {NoState}
  <1>1. mem' = m /\ live' = "up" /\ disk' = disk /\ tmp' = tmp
    BY DEF Mutates, MarkDirty, MarkDirtyRepeatedly
  <1>2. mem # NoState
    BY ConstantsAssumption DEF TypeOK
  <1>3. Leq(disk, m)
    BY <1>2, LeqTransitive DEF FlushInv
  <1>4. CASE flushStep = "idle"
    <2>1. /\ flushStep' = "open"
          /\ \/ persistDirty' = FALSE /\ body' = m
             \/ persistDirty' = TRUE /\ body' = mem
      BY <1>4 DEF Mutates, MarkDirty, MarkDirtyRepeatedly
    <2>2. Leq(m, m) /\ mem \in PersistedSession /\ Leq(disk, mem)
      BY LeqReflexive DEF TypeOK, FlushInv
    <2>3. QED
      BY <1>1, <1>3, <2>1, <2>2 DEF FlushInv, IdleMeansSaved, Leq
  <1>5. CASE flushStep # "idle"
    <2>1. persistDirty' = TRUE /\ flushStep' = flushStep /\ body' = body
      BY <1>5 DEF Mutates, MarkDirty, MarkDirtyRepeatedly
    <2>2. body \in PersistedSession /\ Leq(disk, body) /\ Leq(body, mem)
      BY <1>5 DEF FlushInv
    <2>3. Leq(body, m)
      BY <1>2, <2>2, LeqTransitive
    <2>4. QED
      BY <1>1, <1>3, <1>5, <2>1, <2>2, <2>3 DEF FlushInv, IdleMeansSaved, Leq, TypeOK
  <1>6. QED
    BY <1>4, <1>5

\* ... and every request it does not concern stays covered.
LEMMA MarkDirtyKeepsReqInv ==
  ASSUME TypeOK, FlushInv, live = "up", NEW m \in PersistedSession, Leq(mem, m),
         Mutates(m), UNCHANGED <<live, tmp, disk, ghostVars>>,
         NEW r \in Clients, ReqInv(r),
         pc'[r] = pc[r], turnOf'[r] = turnOf[r], (r \in mutated') <=> (r \in mutated)
  PROVE  ReqInv(r)'
  <1>1. mem' = m /\ live' = "up" /\ disk' = disk /\ stale' = stale /\ lossy' = lossy
    BY DEF Mutates, MarkDirty, MarkDirtyRepeatedly, ghostVars
  <1>2. Claim(r)' = Claim(r) /\ Claim(r).turn \in Nat
    BY DEF Claim, TypeOK
  <1>3. \A s : Covers(s, Claim(r)) => Covers(s, Claim(r))'
    BY <1>2 DEF Covers
  <1>4. mem.turn <= m.turn /\ mem.effects \subseteq m.effects
    BY ConstantsAssumption DEF Leq, TypeOK
  <1>5. Covers(mem, Claim(r)) => Covers(m, Claim(r))
    BY <1>2, CoversMonotone
  <1>6. pc[r] \in {"settled", "ok"} /\ flushStep' # "idle" => Covers(body', Claim(r))
    <2>1. CASE flushStep = "idle"
      <3>1. body' = m \/ body' = mem
        BY <2>1 DEF Mutates, MarkDirty, MarkDirtyRepeatedly
      <3>2. QED
        BY <3>1, <1>5 DEF ReqInv
    <2>2. CASE flushStep # "idle"
      <3>1. body' = body
        BY <2>2 DEF Mutates, MarkDirty, MarkDirtyRepeatedly
      <3>2. QED
        BY <3>1, <2>2 DEF ReqInv
    <2>3. QED
      BY <2>1, <2>2
  <1>7. (pc[r] = "append" => turnOf[r] <= m.turn)
    BY <1>4 DEF ReqInv, TypeOK, PersistedSession
  <1>8. QED
    BY <1>1, <1>2, <1>4, <1>5, <1>6, <1>7 DEF ReqInv, Covers, ghostVars
-----------------------------------------------------------------------------
(* The inductive invariant. *)

\* A request at r that mutates memory to m in a running session, and moves
\* on: the rest of the invariant only has to be shown for r itself.
LEMMA MutatingStep ==
  ASSUME IInv, live = "up", NEW r \in Mutators, NEW m \in PersistedSession, Leq(mem, m),
         Mutates(m), UNCHANGED <<live, tmp, disk, ghostVars>>,
         pc' \in [Clients -> Steps], turnOf' \in [Clients -> Nat],
         mutated' \in SUBSET Mutators,
         \A s \in Clients \ {r} :
           pc'[s] = pc[s] /\ turnOf'[s] = turnOf[s] /\ (s \in mutated' <=> s \in mutated),
         ReqInv(r)', TurnInv'
  PROVE  IInv'
  <1>1. /\ FlushInv'
        /\ mem' = m
        /\ persistDirty' \in BOOLEAN
        /\ flushStep' \in {"idle", "open", "write", "rename"}
        /\ body' \in PersistedSession \cup {NoState}
    BY MarkDirtyKeepsFlushInv DEF IInv
  <1>2. TypeOK'
    BY <1>1 DEF IInv, TypeOK, ghostVars
  <1>3. ASSUME NEW s \in Clients PROVE ReqInv(s)'
    <2>1. CASE s = r
      BY <2>1
    <2>2. CASE s # r
      BY <2>2, MarkDirtyKeepsReqInv DEF IInv
    <2>3. QED
      BY <2>1, <2>2
  <1>4. QED
    BY <1>1, <1>2, <1>3 DEF IInv

\* A step that changes only request r's place.
LEMMA QuietStep ==
  ASSUME IInv, NEW r \in Clients, NEW p \in Steps,
         pc' = [pc EXCEPT ![r] = p],
         UNCHANGED <<live, mem, flushVars, tmp, disk, reqVars, ghostVars>>,
         ReqInv(r)', TurnInv'
  PROVE  IInv'
  <1>1. TypeOK'
    BY DEF IInv, TypeOK, flushVars, reqVars, ghostVars
  <1>2. FlushInv'
    BY DEF IInv, FlushInv, IdleMeansSaved, flushVars, Leq, ghostVars
  <1>3. ASSUME NEW s \in Clients PROVE ReqInv(s)'
    <2>1. CASE s = r
      BY <2>1
    <2>2. CASE s # r
      <3>1. pc'[s] = pc[s]
        BY <2>2 DEF IInv, TypeOK
      <3>2. ReqInv(s)
        BY DEF IInv
      <3>3. QED
        BY <3>1, <3>2 DEF ReqInv, Covers, Claim, flushVars, reqVars, ghostVars
    <2>3. QED
      BY <2>1, <2>2
  <1>4. QED
    BY <1>1, <1>2, <1>3 DEF IInv

\* Nothing is running before the session is created.
LEMMA InitIInv == Init => IInv
  <1> SUFFICES ASSUME Init PROVE IInv
    OBVIOUS
  <1>1. TypeOK
    BY DEF Init, TypeOK, Fresh, PersistedSession, Steps
  <1>2. FlushInv
    BY DEF Init, FlushInv, IdleMeansSaved
  <1>3. \A r \in Clients : ReqInv(r)
    BY DEF Init, ReqInv
  <1>4. TurnInv
    BY DEF Init, TurnInv, Numbered, Clients, Mutators
  <1>5. QED
    BY <1>1, <1>2, <1>3, <1>4 DEF IInv

\* create: an empty state, whose first write its answer waits for.
LEMMA CreateIInv == IInv /\ Create => IInv'
  <1> SUFFICES ASSUME IInv, Create PROVE IInv'
    OBVIOUS
  <1>1. /\ mem' = Fresh /\ live' = "up" /\ disk' = disk /\ tmp' = tmp /\ stale' = stale
        /\ flushStep = "idle" /\ flushStep' = "open" /\ body' = Fresh /\ persistDirty' = FALSE
        /\ turnOf' = turnOf /\ mutated' = mutated /\ crashes' = crashes /\ lossy' = lossy
        /\ ~stale /\ live = "absent"
    BY DEF Create, MarkDirty, IInv, FlushInv, reqVars, ghostVars
  <1>2. Fresh \in PersistedSession
    BY DEF Fresh, PersistedSession
  <1>3. /\ pc' \in [Clients -> Steps]
        /\ pc'[Creator] = "flush"
        /\ \A r \in Clients \ {Creator} : pc'[r] = "idle"
    BY <1>1 DEF Create, IInv, TypeOK, ReqInv, Steps, Awaiting, Saving, Clients
  <1>4. TypeOK'
    BY <1>1, <1>2, <1>3 DEF IInv, TypeOK, ghostVars
  <1>5. FlushInv'
    BY <1>1, <1>2, LeqReflexive DEF IInv, FlushInv, IdleMeansSaved, Leq
  <1>6. ASSUME NEW r \in Clients PROVE ReqInv(r)'
    <2>1. r \notin mutated /\ turnOf[r] = 0
      BY <1>1 DEF IInv, ReqInv
    <2>2. r = Creator => Covers(Fresh, Claim(r))
      <3>1. Creator \notin ExecReqs
        BY ConstantsAssumption DEF Mutators
      <3>2. Fresh.turn = 0
        BY DEF Fresh
      <3>3. Claim(r).req = r /\ Claim(r).turn = 0
        BY <2>1 DEF Claim
      <3>4. ~Claim(r).mutated
        BY <2>1 DEF Claim
      <3>5. QED
        BY <1>2, <3>1, <3>2, <3>3, <3>4 DEF Covers
    <2>3. QED
      BY <1>1, <1>3, <2>1, <2>2 DEF ReqInv, Covers, Claim
  <1>7. TurnInv'
    BY <1>3, ConstantsAssumption DEF TurnInv, Numbered, Clients, Mutators
  <1>8. QED
    BY <1>4, <1>5, <1>6, <1>7 DEF IInv

\* Requests of a session that does not run are not waiting.
LEMMA ExecStepIsUp ==
  ASSUME IInv, NEW r \in ExecReqs, pc[r] \in {"exec", "sent", "append"}
  PROVE  /\ live = "up" /\ mem \in PersistedSession /\ ReqInv(r)
         /\ r \in Mutators /\ r \in Clients
  BY DEF IInv, TypeOK, ReqInv, Clients, Mutators

\* The exec route finds the session and changes nothing.
LEMMA ExecStartIInv == ASSUME IInv, NEW r \in ExecReqs, ExecStart(r) PROVE IInv'
  <1>1. r \in Clients /\ "exec" \in Steps /\ live = "up"
    BY DEF Clients, Mutators, Steps, Awaiting, Saving, ExecStart, Reaches
  <1>2. r \notin mutated
    BY <1>1 DEF ExecStart, Reaches, IInv, ReqInv
  <1>3. pc'[r] = "exec"
    BY <1>1 DEF ExecStart, IInv, TypeOK
  <1>4. ReqInv(r)'
    BY <1>1, <1>2, <1>3 DEF ReqInv, ExecStart, reqVars, ghostVars
  <1>5. TurnInv'
    BY <1>1 DEF IInv, TypeOK, TurnInv, Numbered, ExecStart, reqVars, ghostVars, Clients, Mutators
  <1>6. QED
    BY <1>1, <1>4, <1>5, QuietStep DEF ExecStart

\* bind, setCwd, setEnv or unsetEnv during an exec.
LEMMA ExecMutateIInv == ASSUME IInv, NEW r \in ExecReqs, ExecMutate(r) PROVE IInv'
  <1> DEFINE m == [mem EXCEPT !.effects = @ \cup {r}]
  <1>1. /\ live = "up" /\ mem \in PersistedSession /\ ReqInv(r)
        /\ r \in Mutators /\ r \in Clients /\ pc[r] = "exec"
    BY ExecStepIsUp DEF ExecMutate
  <1>2. m \in PersistedSession /\ Leq(mem, m) /\ r \in m.effects /\ m.turn = mem.turn
    BY <1>1, MutationsGrow
  <1>3. Mutates(m) /\ mem' = m
    BY DEF ExecMutate, MarkDirty, Mutates
  <1>4. pc' = pc /\ turnOf' = turnOf /\ mutated' = mutated \cup {r}
    BY DEF ExecMutate
  <1>5. ReqInv(r)'
    BY <1>1, <1>2, <1>3, <1>4 DEF ReqInv, ExecMutate
  <1>6. TurnInv'
    BY <1>1, <1>2, <1>3, <1>4 DEF IInv, TurnInv, Numbered, ExecMutate
  <1>7. pc' \in [Clients -> Steps] /\ turnOf' \in [Clients -> Nat]
          /\ mutated' \in SUBSET Mutators
    BY <1>1, <1>4 DEF IInv, TypeOK
  <1>8. QED
    BY <1>1, <1>2, <1>3, <1>4, <1>5, <1>6, <1>7, MutatingStep DEF ExecMutate

\* An exec that fails leaves no claim.
LEMMA ExecThrowIInv == ASSUME IInv, NEW r \in ExecReqs, ExecThrow(r) PROVE IInv'
  <1>1. r \in Clients /\ "err" \in Steps /\ live = "up"
    BY ExecStepIsUp DEF Clients, Mutators, Steps, ExecThrow
  <1>2. pc'[r] = "err"
    BY <1>1 DEF ExecThrow, IInv, TypeOK
  <1>3. ReqInv(r)'
    BY <1>1, <1>2 DEF ReqInv, ExecThrow
  <1>4. TurnInv'
    BY <1>1 DEF IInv, TypeOK, TurnInv, Numbered, ExecThrow, reqVars, ghostVars, Clients, Mutators
  <1>5. QED
    BY <1>1, <1>3, <1>4, QuietStep DEF ExecThrow

\* A stream that sends `done' has taken no turn yet.
LEMMA SendDoneIInv == ASSUME IInv, NEW r \in ExecReqs, SendDone(r) PROVE IInv'
  <1>1. r \in Clients /\ "sent" \in Steps /\ live = "up" /\ ReqInv(r)
    BY ExecStepIsUp DEF Steps, Awaiting, Saving, SendDone
  <1>2. pc'[r] = "sent"
    BY <1>1 DEF SendDone, IInv, TypeOK
  <1>3. ReqInv(r)'
    BY <1>1, <1>2 DEF ReqInv, SendDone, reqVars, ghostVars
  <1>4. TurnInv'
    BY <1>1 DEF IInv, TypeOK, TurnInv, Numbered, SendDone, reqVars, ghostVars, Clients, Mutators
  <1>5. QED
    BY <1>1, <1>3, <1>4, QuietStep DEF SendDone

\* An append that fails leaves no claim, although the turn is taken.
LEMMA AppendThrowIInv == ASSUME IInv, NEW r \in ExecReqs, AppendThrow(r) PROVE IInv'
  <1>1. r \in Clients /\ "err" \in Steps /\ live = "up"
    BY ExecStepIsUp DEF Clients, Mutators, Steps, AppendThrow
  <1>2. pc'[r] = "err"
    BY <1>1 DEF AppendThrow, IInv, TypeOK
  <1>3. ReqInv(r)'
    BY <1>1, <1>2 DEF ReqInv, AppendThrow
  <1>4. TurnInv'
    BY <1>1 DEF IInv, TypeOK, TurnInv, Numbered, AppendThrow, reqVars, ghostVars, Clients, Mutators
  <1>5. QED
    BY <1>1, <1>3, <1>4, QuietStep DEF AppendThrow

\* nextTurn gives the exec a number above every number in force.
LEMMA ExecFinishIInv == ASSUME IInv, NEW r \in ExecReqs, ExecFinish(r) PROVE IInv'
  <1> DEFINE m == [mem EXCEPT !.turn = mem.turn + 1]
  <1>1. /\ live = "up" /\ mem \in PersistedSession /\ ReqInv(r)
        /\ r \in Mutators /\ r \in Clients /\ pc[r] \in {"exec", "sent"}
    BY ExecStepIsUp DEF ExecFinish
  <1>2. m \in PersistedSession /\ Leq(mem, m) /\ m.turn = mem.turn + 1
          /\ m.effects = mem.effects
    BY <1>1, MutationsGrow
  <1>3. Mutates(m) /\ mem' = m
    BY DEF ExecFinish, MarkDirty, Mutates, NextTurn
  <1>4. /\ turnOf' \in [Clients -> Nat] /\ turnOf'[r] = m.turn
        /\ pc' \in [Clients -> Steps] /\ pc'[r] = "append"
        /\ \A s \in Clients \ {r} : pc'[s] = pc[s] /\ turnOf'[s] = turnOf[s]
        /\ mutated' = mutated
    BY <1>1, <1>2 DEF ExecFinish, NextTurn, IInv, TypeOK, Steps, Awaiting, Saving, PersistedSession
  <1>5. ReqInv(r)'
    BY <1>1, <1>2, <1>3, <1>4 DEF ReqInv, ExecFinish, PersistedSession
  <1>6. TurnInv'
    <2>1. \A s \in Numbered' \ {r} : s \in Numbered /\ turnOf'[s] = turnOf[s] /\ s \in Clients
      BY <1>4 DEF Numbered, Clients, Mutators
    <2>2. \A s \in Numbered : turnOf[s] <= mem.turn
      BY <1>1 DEF IInv, TurnInv
    <2>3. mem.turn \in Nat /\ \A s \in Clients : turnOf[s] \in Nat
      BY <1>1 DEF IInv, TypeOK, PersistedSession
    <2>4. \A s \in Numbered' \ {r} : turnOf'[s] <= mem.turn /\ turnOf'[s] \in Nat
      BY <2>1, <2>2, <2>3
    <2>5. \A s \in Numbered' : turnOf'[s] <= mem'.turn
      BY <2>3, <2>4, <1>2, <1>3, <1>4
    <2>6. \A s, t \in Numbered' : turnOf'[s] = turnOf'[t] => s = t
      BY <2>1, <2>3, <2>4, <1>2, <1>4 DEF IInv, TurnInv
    <2>7. QED
      BY <2>5, <2>6 DEF TurnInv
  <1>7. mutated' \in SUBSET Mutators
    BY <1>4 DEF IInv, TypeOK
  <1>8. QED
    BY <1>1, <1>2, <1>3, <1>4, <1>5, <1>6, <1>7, MutatingStep DEF ExecFinish

\* Once the entry is appended, memory covers the whole exec.
LEMMA AppendDoneIInv == ASSUME IInv, NEW r \in ExecReqs, AppendDone(r) PROVE IInv'
  <1> DEFINE m == [mem EXCEPT !.history = @ \cup {r}]
  <1>1. /\ live = "up" /\ mem \in PersistedSession /\ ReqInv(r)
        /\ r \in Mutators /\ r \in Clients /\ pc[r] = "append"
    BY ExecStepIsUp DEF AppendDone
  <1>2. m \in PersistedSession /\ Leq(mem, m) /\ m.turn = mem.turn
          /\ m.effects = mem.effects /\ r \in m.history
    BY <1>1, MutationsGrow
  <1>3. Mutates(m) /\ mem' = m
    BY DEF AppendDone, MarkDirty, Mutates
  <1>4. /\ turnOf' = turnOf /\ turnOf \in [Clients -> Nat]
        /\ pc' \in [Clients -> Steps] /\ pc'[r] = "flush"
        /\ \A s \in Clients \ {r} : pc'[s] = pc[s]
        /\ mutated' = mutated /\ mutated \in SUBSET Mutators
    BY <1>1 DEF AppendDone, reqVars, ghostVars, IInv, TypeOK, Steps, Awaiting, Saving
  <1>5. Covers(m, Claim(r))
    BY <1>1, <1>2 DEF Covers, Claim, ReqInv
  <1>6. ReqInv(r)'
    BY <1>1, <1>3, <1>4, <1>5 DEF ReqInv, Covers, Claim, AppendDone
  <1>7. TurnInv'
    BY <1>1, <1>2, <1>3, <1>4 DEF IInv, TurnInv, Numbered, AppendDone, Clients, Mutators
  <1>8. QED
    BY <1>1, <1>2, <1>3, <1>4, <1>6, <1>7, MutatingStep DEF AppendDone

\* After a PATCH memory covers it, also when the running snapshot does not.
LEMMA PatchIInv == ASSUME IInv, NEW r \in PatchReqs, Patch(r) PROVE IInv'
  <1> DEFINE m == [mem EXCEPT !.effects = @ \cup {r}]
  <1>1. /\ live = "up" /\ mem \in PersistedSession /\ ReqInv(r)
        /\ r \in Mutators /\ r \in Clients /\ pc[r] = "idle" /\ r \notin ExecReqs
    BY ConstantsAssumption DEF Patch, Reaches, IInv, TypeOK, Clients, Mutators
  <1>2. m \in PersistedSession /\ Leq(mem, m) /\ r \in m.effects /\ m.turn = mem.turn
    BY <1>1, MutationsGrow
  <1>3. Mutates(m) /\ mem' = m
    BY DEF Patch, MarkDirty, MarkDirtyRepeatedly, Mutates
  <1>4. /\ turnOf' = turnOf /\ turnOf \in [Clients -> Nat]
        /\ pc' \in [Clients -> Steps] /\ pc'[r] = "flush"
        /\ \A s \in Clients \ {r} : pc'[s] = pc[s]
        /\ mutated' = mutated \cup {r} /\ mutated' \in SUBSET Mutators
    BY <1>1 DEF Patch, IInv, TypeOK, Steps, Awaiting, Saving
  <1>5. Covers(m, Claim(r)')
    BY <1>1, <1>2, <1>4 DEF Covers, Claim, ReqInv, PersistedSession
  <1>6. ReqInv(r)'
    BY <1>1, <1>3, <1>4, <1>5 DEF ReqInv, Covers, Patch
  <1>7. TurnInv'
    BY <1>1, <1>2, <1>3, <1>4 DEF IInv, TurnInv, Numbered, Patch, Clients, Mutators
  <1>8. QED
    BY <1>1, <1>2, <1>3, <1>4, <1>6, <1>7, MutatingStep DEF Patch

\* An answer claims what a settled flush has saved.
LEMMA RespondIInv == ASSUME IInv, NEW r \in Clients, Respond(r) PROVE IInv'
  <1>1. "ok" \in Steps /\ pc[r] = "settled"
    BY DEF Steps, Respond
  <1>2. pc'[r] = "ok"
    BY <1>1 DEF Respond, IInv, TypeOK
  <1>3. ReqInv(r)'
    BY <1>1, <1>2 DEF IInv, ReqInv, Respond, flushVars, reqVars, ghostVars, Covers, Claim
  <1>4. TurnInv'
    BY <1>1 DEF IInv, TypeOK, TurnInv, Numbered, Respond, reqVars, ghostVars, Clients, Mutators
  <1>5. QED
    BY <1>1, <1>3, <1>4, QuietStep DEF Respond

\* The writer's progress disturbs only the staged file.
LEMMA TmpStepIInv == IInv /\ (TmpOpened \/ TmpWritten) => IInv'
  <1> SUFFICES ASSUME IInv, TmpOpened \/ TmpWritten PROVE IInv'
    OBVIOUS
  <1>1. /\ flushStep \in {"open", "write"} /\ flushStep' \in {"write", "rename"}
        /\ flushStep' = "rename" => tmp' = body
        /\ tmp' \in {Torn, body}
        /\ UNCHANGED <<live, mem, persistDirty, body, disk, pc, turnOf, mutated, stale, lossy, crashes>>
    BY DEF TmpOpened, TmpWritten, reqVars, ghostVars
  <1>2. body \in PersistedSession
    BY <1>1 DEF IInv, FlushInv
  <1>3. TypeOK'
    BY <1>1, <1>2 DEF IInv, TypeOK
  <1>4. FlushInv'
    BY <1>1, <1>2 DEF IInv, FlushInv, IdleMeansSaved, Leq
  <1>5. ASSUME NEW r \in Clients PROVE ReqInv(r)'
    <2>1. ReqInv(r)
      BY DEF IInv
    <2>2. QED
      BY <1>1, <2>1 DEF ReqInv, Covers, Claim
  <1>6. TurnInv'
    BY <1>1 DEF IInv, TurnInv, Numbered
  <1>7. QED
    BY <1>3, <1>4, <1>5, <1>6 DEF IInv

\* A write ended, d is what it left in state.json and f whether it failed.
LEMMA WriteEndIInv ==
  ASSUME IInv, flushStep # "idle", LoopCheck,
         NEW d, disk' = d, d = disk \/ d = body,
         NEW f \in BOOLEAN, stale' = f, ~f => d = body,
         tmp' \in PersistedSession \cup {NoState, Torn},
         UNCHANGED <<live, mem, reqVars, lossy, crashes>>
  PROVE  IInv'
  <1>1. /\ live = "up" /\ body \in PersistedSession /\ mem \in PersistedSession
        /\ Leq(disk, body) /\ Leq(body, mem) /\ Leq(disk, mem)
        /\ ~persistDirty => body = mem
        /\ UNCHANGED <<live, mem, turnOf, mutated, lossy, crashes>>
    BY DEF IInv, FlushInv, TypeOK, reqVars, ghostVars
  <1>2. Leq(d, mem) /\ d \in PersistedSession \cup {NoState} /\ Leq(mem, mem)
    BY <1>1, LeqReflexive DEF IInv, TypeOK
  <1>3. \/ /\ persistDirty /\ persistDirty' = FALSE /\ flushStep' = "open" /\ body' = mem
           /\ pc' = pc
        \/ /\ ~persistDirty /\ persistDirty' = FALSE /\ flushStep' = "idle" /\ body' = NoState
           /\ pc' = SettleFlush
    BY DEF LoopCheck
  <1>4. /\ pc' \in [Clients -> Steps]
        /\ \A r \in Clients : \/ pc'[r] = pc[r]
                              \/ pc[r] = "flush" /\ pc'[r] = "settled" /\ ~persistDirty
    BY <1>3 DEF SettleFlush, IInv, TypeOK, Steps, Awaiting, Saving
  <1>5. TypeOK'
    BY <1>1, <1>2, <1>3, <1>4 DEF IInv, TypeOK
  <1>6. FlushInv'
    BY <1>1, <1>2, <1>3 DEF FlushInv, IdleMeansSaved, Leq
  <1>7. ASSUME NEW r \in Clients PROVE ReqInv(r)'
    <2>1. ReqInv(r)
      BY DEF IInv
    <2>2. Claim(r)' = Claim(r)
      BY <1>1 DEF Claim
    <2>3. pc'[r] \in {"settled", "ok"} /\ ~f => Covers(d, Claim(r))
      BY <1>1, <1>4, <2>1 DEF ReqInv
    <2>4. pc'[r] \in {"settled", "ok"} /\ flushStep' # "idle" => Covers(body', Claim(r))
      BY <1>1, <1>3, <1>4, <2>1 DEF ReqInv
    <2>5. QED
      BY <1>1, <1>4, <2>1, <2>2, <2>3, <2>4 DEF ReqInv, Covers
  <1>8. TurnInv'
    <2>1. Numbered' = Numbered
      BY <1>4 DEF Numbered, Clients, Mutators
    <2>2. QED
      BY <1>1, <2>1 DEF IInv, TurnInv
  <1>9. QED
    BY <1>5, <1>6, <1>7, <1>8 DEF IInv

\* A rename makes state.json the snapshot.
LEMMA RenamedIInv == IInv /\ Renamed => IInv'
  <1> SUFFICES ASSUME IInv, Renamed PROVE IInv'
    OBVIOUS
  <1>1. flushStep # "idle" /\ disk' = body
    BY DEF IInv, FlushInv, Renamed
  <1>2. LoopCheck /\ stale' = FALSE /\ tmp' = NoState
          /\ UNCHANGED <<live, mem, reqVars, lossy, crashes>>
    BY DEF Renamed
  <1>3. QED
    BY <1>1, <1>2, WriteEndIInv

\* A failed write leaves state.json and marks the session stale.
LEMMA WriteFailedIInv == IInv /\ WriteFailed => IInv'
  <1> SUFFICES ASSUME IInv, WriteFailed PROVE IInv'
    OBVIOUS
  <1>1. flushStep # "idle" /\ disk' = disk /\ stale' = TRUE /\ LoopCheck
          /\ UNCHANGED <<live, mem, reqVars, lossy, crashes>>
    BY DEF WriteFailed
  <1>2. tmp' \in PersistedSession \cup {NoState, Torn}
    BY DEF IInv, TypeOK, WriteFailed
  <1>3. QED
    BY <1>1, <1>2, WriteEndIInv

\* A crash keeps the answers that state.json covers.
LEMMA CrashIInv == IInv /\ Crash => IInv'
  <1> SUFFICES ASSUME IInv, Crash PROVE IInv'
    OBVIOUS
  <1>1. /\ live' = "down" /\ mem' = Fresh /\ persistDirty' = FALSE
        /\ flushStep' = "idle" /\ body' = NoState /\ stale' = FALSE
        /\ tmp' = tmp /\ disk' = disk /\ turnOf' = turnOf /\ mutated' = mutated
        /\ pc' = PcAfterCrash /\ crashes' \in Nat
        /\ lossy' \in BOOLEAN /\ (lossy \/ stale => lossy')
    BY DEF Crash, reqVars, IInv, TypeOK
  <1>2. /\ pc' \in [Clients -> Steps]
        /\ \A r \in Clients : \/ pc'[r] = "lost"
                              \/ pc'[r] = "dropped" /\ pc[r] = "ok" /\ ~Covers(disk, Claim(r))
                              \/ /\ pc'[r] = pc[r] /\ pc[r] \notin Awaiting
                                 /\ pc[r] = "ok" => Covers(disk, Claim(r))
    BY <1>1 DEF PcAfterCrash, IInv, TypeOK, Steps
  <1>3. TypeOK'
    BY <1>1, <1>2 DEF IInv, TypeOK, Fresh, PersistedSession
  <1>4. FlushInv'
    BY <1>1 DEF FlushInv, IdleMeansSaved
  <1>5. ASSUME NEW r \in Clients PROVE ReqInv(r)'
    <2>1. ReqInv(r)
      BY DEF IInv
    <2>2. Claim(r)' = Claim(r)
      BY <1>1 DEF Claim
    <2>3. pc'[r] = "dropped" => lossy'
      BY <1>1, <1>2, <2>1 DEF ReqInv, Awaiting, Saving
    <2>4. QED
      BY <1>1, <1>2, <2>1, <2>2, <2>3 DEF ReqInv, Covers, Awaiting, Saving
  <1>6. TurnInv'
    <2>1. \A r \in Numbered' : r \in Numbered
      BY <1>2 DEF Numbered, Clients, Mutators
    <2>2. QED
      BY <1>1, <2>1 DEF IInv, TurnInv
  <1>7. QED
    BY <1>3, <1>4, <1>5, <1>6 DEF IInv

\* resume makes memory the saved state, which covers every answer kept.
LEMMA ResumeIInv == IInv /\ Resume => IInv'
  <1> SUFFICES ASSUME IInv, Resume PROVE IInv'
    OBVIOUS
  <1>1. /\ live = "down" /\ live' = "up" /\ mem' = disk /\ disk \in PersistedSession
        /\ UNCHANGED <<persistDirty, flushStep, body, tmp, disk, pc, turnOf, mutated,
                       stale, lossy, crashes>>
        /\ flushStep = "idle" /\ ~stale
    BY DEF Resume, Restored, flushVars, reqVars, ghostVars, IInv, FlushInv
  <1>2. TypeOK'
    BY <1>1 DEF IInv, TypeOK
  <1>3. FlushInv'
    BY <1>1, LeqReflexive DEF IInv, FlushInv, IdleMeansSaved, Leq
  <1>4. ASSUME NEW r \in Clients PROVE ReqInv(r)'
    <2>1. ReqInv(r)
      BY DEF IInv
    <2>2. QED
      BY <1>1, <2>1 DEF ReqInv, Covers, Claim
  <1>5. TurnInv'
    <2>1. \A r \in Numbered : pc[r] = "ok" /\ Covers(disk, Claim(r))
      BY <1>1 DEF IInv, ReqInv, Numbered, Clients, Mutators
    <2>2. \A r \in Numbered : turnOf[r] <= disk.turn
      BY <2>1 DEF Covers, Claim
    <2>3. Numbered' = Numbered
      BY <1>1 DEF Numbered
    <2>4. QED
      BY <1>1, <2>2, <2>3 DEF IInv, TurnInv
  <1>6. QED
    BY <1>2, <1>3, <1>4, <1>5 DEF IInv

\* Every step keeps the invariant.
LEMMA NextIInv == IInv /\ [Next]_vars => IInv'
  <1> SUFFICES ASSUME IInv, [Next]_vars PROVE IInv'
    OBVIOUS
  <1>1. CASE UNCHANGED vars
    BY <1>1 DEF vars, flushVars, reqVars, ghostVars, IInv, TypeOK, FlushInv, IdleMeansSaved, Leq,
                ReqInv, Covers, Claim, TurnInv, Numbered
  <1>2. CASE Create
    BY <1>2, CreateIInv
  <1>3. CASE \E r \in ExecReqs : \/ ExecStart(r) \/ ExecMutate(r) \/ ExecThrow(r)
                                 \/ SendDone(r) \/ ExecFinish(r) \/ AppendDone(r) \/ AppendThrow(r)
    BY <1>3, ExecStartIInv, ExecMutateIInv, ExecThrowIInv, SendDoneIInv, ExecFinishIInv,
       AppendDoneIInv, AppendThrowIInv
  <1>4. CASE \E r \in PatchReqs : Patch(r)
    BY <1>4, PatchIInv
  <1>5. CASE \E r \in Clients : Respond(r)
    BY <1>5, RespondIInv
  <1>6. CASE TmpOpened \/ TmpWritten
    BY <1>6, TmpStepIInv
  <1>7. CASE Renamed \/ WriteFailed
    BY <1>7, RenamedIInv, WriteFailedIInv
  <1>8. CASE Crash \/ Resume
    BY <1>8, CrashIInv, ResumeIInv
  <1>9. QED
    BY <1>1, <1>2, <1>3, <1>4, <1>5, <1>6, <1>7, <1>8 DEF Next

\* IInv holds in every reachable state.
THEOREM Invariance == Spec => []IInv
  BY InitIInv, NextIInv, PTL DEF Spec
-----------------------------------------------------------------------------
(* What it gives. *)

\* Every reachable state is well typed; state.json is never a torn file.
THEOREM TypeCorrect == Spec => []TypeOK
  BY Invariance, PTL DEF IInv

\* A request that ended with success, a stream by closing without an error, is
\* in state.json unless the last write failed: what exec.ts awaits flush() for.
THEOREM AckDurability == Spec => []AckDurable
  <1>1. IInv => AckDurable
    BY DEF IInv, ReqInv, AckDurable, Acked
  <1>2. QED
    BY <1>1, Invariance, PTL

\* No mutation is left unsaved by a flush loop that ended.
THEOREM NoLostUpdate == Spec => []IdleMeansSaved
  <1>1. IInv => IdleMeansSaved
    BY DEF IInv, FlushInv
  <1>2. QED
    BY <1>1, Invariance, PTL

\* Two answered execs share a turn number only when a process crashed after a
\* failed write, and one of the two is an answer that crash dropped: nextTurn
\* goes on from the turn that state.json holds.
THEOREM TurnUniqueness == Spec => []AckedTurnsUnique
  <1>1. IInv => AckedTurnsUnique
    <2> SUFFICES ASSUME IInv, NEW r \in Answered \cap ExecReqs,
                        NEW s \in Answered \cap ExecReqs, turnOf[r] = turnOf[s], r # s
                 PROVE  lossy /\ "dropped" \in {pc[r], pc[s]}
      BY DEF AckedTurnsUnique
    <2>1. ~(pc[r] = "ok" /\ pc[s] = "ok")
      BY DEF IInv, TurnInv, Numbered
    <2>2. pc[r] \in {"ok", "dropped"} /\ pc[s] \in {"ok", "dropped"}
      BY DEF Answered
    <2>3. ReqInv(r) /\ ReqInv(s)
      BY DEF IInv, Answered
    <2>4. QED
      BY <2>1, <2>2, <2>3 DEF ReqInv
  <1>2. QED
    BY <1>1, Invariance, PTL

\* The one step that changes state.json replaces it by a larger state.
LEMMA DiskStep ==
  ASSUME IInv, [Next]_vars
  PROVE  disk' = disk \/ (Renamed /\ disk' = body /\ Leq(disk, body) /\ Leq(body, mem))
  <1>1. CASE Renamed
    BY <1>1 DEF Renamed, IInv, FlushInv
  <1>2. CASE ~Renamed
    BY <1>2 DEF Next, vars, Create, ExecStart, ExecMutate, ExecThrow, SendDone, ExecFinish,
                AppendDone, AppendThrow, Patch, Respond, TmpOpened, TmpWritten,
                WriteFailed, Crash, Resume
  <1>3. QED
    BY <1>1, <1>2

\* state.json never goes back, whatever crashes and resumes happen.
THEOREM SavedStateNeverRegresses == Spec => SavedStateGrows
  <1>1. IInv /\ [Next]_vars => [Leq(disk, disk')]_disk
    BY DiskStep
  <1>2. QED
    BY <1>1, Invariance, PTL DEF Spec, SavedStateGrows
-----------------------------------------------------------------------------
(* Refinement of the durable session. *)

\* A step that leaves the requests' places, or moves only between places that
\* are not an answer, gives and revokes no answer.
LEMMA AnswersKept ==
  ASSUME \A r \in Clients :
           /\ pc'[r] = "ok" <=> pc[r] = "ok"
           /\ pc[r] = "ok" => turnOf'[r] = turnOf[r] /\ (r \in mutated' <=> r \in mutated)
  PROVE  {Claim(r) : r \in Acked}' = {Claim(r) : r \in Acked}
  <1>1. Acked' = Acked
    BY DEF Acked
  <1>2. \A r \in Acked : Claim(r)' = Claim(r)
    BY DEF Acked, Claim
  <1>3. QED
    BY <1>1, <1>2

\* Each mutation is the abstract Mutate.
LEMMA MutatesAbstractly ==
  ASSUME IInv, NEW r \in Mutators, live = "up", NEW m, Leq(mem, m), Mutates(m),
         UNCHANGED <<live, disk, stale>>, pc[r] # "ok", pc'[r] # "ok",
         \A s \in Clients \ {r} :
           pc'[s] = pc[s] /\ turnOf'[s] = turnOf[s] /\ (s \in mutated' <=> s \in mutated)
  PROVE  Durable!Mutate
  <1>1. {Claim(s) : s \in Acked}' = {Claim(s) : s \in Acked}
    BY AnswersKept
  <1>2. mem' = m
    BY DEF Mutates, MarkDirty, MarkDirtyRepeatedly
  <1>3. QED
    BY <1>1, <1>2 DEF Durable!Mutate

\* The steps of an exec are abstract mutations, or invisible.
LEMMA ExecRefines ==
  ASSUME IInv, NEW r \in ExecReqs,
         \/ ExecStart(r) \/ ExecMutate(r) \/ ExecThrow(r)
         \/ SendDone(r) \/ ExecFinish(r) \/ AppendDone(r) \/ AppendThrow(r)
  PROVE  [Durable!ANext]_(Durable!aVars)
  <1>1. r \in Mutators /\ r \in Clients /\ pc \in [Clients -> Steps]
          /\ turnOf \in [Clients -> Nat] /\ mem \in PersistedSession
    BY DEF Clients, Mutators, IInv, TypeOK
  <1>2. CASE ExecStart(r) \/ ExecThrow(r) \/ SendDone(r) \/ AppendThrow(r)
    <2>1. pc[r] # "ok" /\ pc'[r] # "ok" /\ \A s \in Clients \ {r} : pc'[s] = pc[s]
      BY <1>1, <1>2 DEF ExecStart, Reaches, ExecThrow, SendDone, AppendThrow
    <2>2. UNCHANGED <<live, mem, disk, turnOf, mutated, stale>>
      BY <1>2 DEF ExecStart, ExecThrow, SendDone, AppendThrow, reqVars, ghostVars
    <2>3. {Claim(s) : s \in Acked}' = {Claim(s) : s \in Acked}
      BY <2>1, <2>2, AnswersKept
    <2>4. QED
      BY <2>2, <2>3 DEF Durable!aVars
  <1>3. CASE ExecMutate(r)
    <2>1. live = "up" /\ Leq(mem, [mem EXCEPT !.effects = @ \cup {r}])
      BY <1>1, <1>3, ExecStepIsUp, MutationsGrow DEF ExecMutate
    <2>2. QED
      BY <1>1, <1>3, <2>1, MutatesAbstractly DEF ExecMutate, Mutates, Durable!ANext, ghostVars
  <1>4. CASE ExecFinish(r)
    <2>1. live = "up" /\ Leq(mem, [mem EXCEPT !.turn = mem.turn + 1])
      BY <1>1, <1>4, ExecStepIsUp, MutationsGrow DEF ExecFinish
    <2>2. pc[r] # "ok" /\ pc'[r] # "ok"
            /\ \A s \in Clients \ {r} : pc'[s] = pc[s] /\ turnOf'[s] = turnOf[s]
      BY <1>1, <1>4 DEF ExecFinish
    <2>3. Mutates([mem EXCEPT !.turn = mem.turn + 1])
            /\ UNCHANGED <<live, disk, stale, mutated>>
      BY <1>4 DEF ExecFinish, NextTurn, Mutates, ghostVars
    <2>4. QED
      BY <1>1, <2>1, <2>2, <2>3, MutatesAbstractly DEF Durable!ANext
  <1>5. CASE AppendDone(r)
    <2>1. live = "up" /\ Leq(mem, [mem EXCEPT !.history = @ \cup {r}])
      BY <1>1, <1>5, ExecStepIsUp, MutationsGrow DEF AppendDone
    <2>2. pc[r] # "ok" /\ pc'[r] # "ok" /\ \A s \in Clients \ {r} : pc'[s] = pc[s]
      BY <1>1, <1>5 DEF AppendDone
    <2>3. Mutates([mem EXCEPT !.history = @ \cup {r}])
            /\ UNCHANGED <<live, disk, stale, turnOf, mutated>>
      BY <1>5 DEF AppendDone, reqVars, ghostVars, Mutates
    <2>4. QED
      BY <1>1, <2>1, <2>2, <2>3, MutatesAbstractly DEF Durable!ANext
  <1>6. QED
    BY <1>2, <1>3, <1>4, <1>5

\* A PATCH is an abstract mutation.
LEMMA PatchRefines ==
  ASSUME IInv, NEW r \in PatchReqs, Patch(r)
  PROVE  [Durable!ANext]_(Durable!aVars)
  <1>1. r \in Mutators /\ r \in Clients /\ pc \in [Clients -> Steps]
          /\ mem \in PersistedSession /\ live = "up"
    BY DEF Clients, Mutators, IInv, TypeOK, Patch, Reaches
  <1>2. Leq(mem, [mem EXCEPT !.effects = @ \cup {r}])
    BY <1>1, MutationsGrow
  <1>3. pc[r] # "ok" /\ pc'[r] # "ok" /\ \A s \in Clients \ {r} : pc'[s] = pc[s]
    BY <1>1 DEF Patch, Reaches
  <1>4. QED
    BY <1>1, <1>2, <1>3, MutatesAbstractly DEF Patch, Mutates, Durable!ANext, ghostVars

\* A 200 is the abstract Acknowledge.
LEMMA RespondRefines ==
  ASSUME IInv, NEW r \in Clients, Respond(r)
  PROVE  Durable!Acknowledge
  <1>1. UNCHANGED <<live, mem, disk, turnOf, mutated, stale>>
    BY DEF Respond, reqVars, ghostVars
  <1>2. live = "up" /\ (~stale => Covers(disk, Claim(r)))
    BY DEF Respond, IInv, ReqInv
  <1>3. Acked' = Acked \cup {r}
    BY DEF Acked, Respond, IInv, TypeOK
  <1>4. \A s \in Clients : Claim(s)' = Claim(s)
    BY <1>1 DEF Claim
  <1>5. {Claim(s) : s \in Acked}' = {Claim(s) : s \in Acked} \cup {Claim(r)}
    BY <1>3, <1>4 DEF Acked
  <1>6. Claim(r) \in {Claim(s) : s \in Acked}'
    BY <1>5
  <1>7. stale \/ Covers(disk, Claim(r))
    BY <1>2 DEF IInv, TypeOK
  <1>8. QED
    BY <1>1, <1>2, <1>5, <1>6, <1>7 DEF Durable!Acknowledge

\* The writer: staging is invisible, a rename is a Save, a failure SaveFails.
LEMMA WriterRefines ==
  ASSUME IInv, TmpOpened \/ TmpWritten \/ Renamed \/ WriteFailed
  PROVE  [Durable!ANext]_(Durable!aVars)
  <1>1. pc \in [Clients -> Steps] /\ flushStep # "idle" /\ live = "up"
    BY DEF IInv, TypeOK, FlushInv, TmpOpened, TmpWritten, Renamed, WriteFailed
  <1>2. UNCHANGED <<live, mem, turnOf, mutated>>
    BY DEF TmpOpened, TmpWritten, Renamed, WriteFailed, reqVars, ghostVars
  <1>3. \A s \in Clients : pc'[s] = "ok" <=> pc[s] = "ok"
    BY <1>1 DEF TmpOpened, TmpWritten, Renamed, WriteFailed, LoopCheck, SettleFlush
  <1>4. {Claim(s) : s \in Acked}' = {Claim(s) : s \in Acked}
    BY <1>2, <1>3, AnswersKept
  <1>5. CASE TmpOpened \/ TmpWritten
    BY <1>2, <1>4, <1>5 DEF TmpOpened, TmpWritten, Durable!aVars, ghostVars
  <1>6. CASE Renamed
    <2>1. disk' = body /\ Leq(disk, body) /\ Leq(body, mem) /\ stale' = FALSE
      BY <1>6 DEF Renamed, IInv, FlushInv
    <2>2. QED
      BY <1>1, <1>2, <1>4, <2>1 DEF Durable!Save, Durable!ANext
  <1>7. CASE WriteFailed
    BY <1>1, <1>2, <1>4, <1>7 DEF WriteFailed, Durable!SaveFails, Durable!ANext
  <1>8. QED
    BY <1>5, <1>6, <1>7

\* A crash revokes no answer unless the last write failed.
LEMMA CrashRefines ==
  ASSUME IInv, Crash
  PROVE  Durable!Fail
  <1>1. /\ live = "up" /\ live' = "down" /\ disk' = disk /\ stale' = FALSE
        /\ turnOf' = turnOf /\ mutated' = mutated /\ pc' = PcAfterCrash
    BY DEF Crash, reqVars, ghostVars
  <1>2. \A s \in Clients : Claim(s)' = Claim(s)
    BY <1>1 DEF Claim
  <1>3. \A s \in Clients : pc'[s] = "ok" <=> pc[s] = "ok" /\ Covers(disk, Claim(s))
    BY <1>1 DEF PcAfterCrash, Awaiting, Saving
  <1>4. {Claim(s) : s \in Acked}'
          = {c \in {Claim(s) : s \in Acked} : Covers(disk, c)}
    BY <1>2, <1>3 DEF Acked
  <1>5. ~stale => \A s \in Acked : Covers(disk, Claim(s))
    BY DEF IInv, ReqInv, Acked
  <1>6. {Claim(s) : s \in Acked}' # {Claim(s) : s \in Acked} => stale
    BY <1>4, <1>5
  <1>7. QED
    BY <1>1, <1>4, <1>6 DEF Durable!Fail

\* The session implements the durable session.
THEOREM Refinement == Spec => ImplementsDurableSession
  <1>1. Init => Durable!AInit
    BY DEF Init, Durable!AInit, Acked
  <1>2. IInv /\ [Next]_vars => [Durable!ANext]_(Durable!aVars)
    <2> SUFFICES ASSUME IInv, [Next]_vars PROVE [Durable!ANext]_(Durable!aVars)
      OBVIOUS
    <2>1. CASE UNCHANGED vars
      BY <2>1 DEF vars, reqVars, ghostVars, Durable!aVars, Acked, Claim
    <2>2. CASE Create
      <3>1. /\ live = "absent" /\ live' = "up" /\ stale' = stale /\ disk' = disk
            /\ turnOf' = turnOf /\ mutated' = mutated
            /\ \A r \in Clients : pc[r] = "idle"
            /\ \A r \in Clients : pc'[r] # "ok"
        BY <2>2 DEF Create, reqVars, ghostVars, IInv, TypeOK, ReqInv
      <3>2. Acked = {} /\ Acked' = {}
        BY <3>1 DEF Acked
      <3>3. QED
        BY <3>1, <3>2 DEF Durable!Start, Durable!ANext
    <2>3. CASE Crash
      BY <2>3, CrashRefines DEF Durable!ANext
    <2>4. CASE Resume
      BY <2>4 DEF Resume, Restored, reqVars, ghostVars, Acked, Claim, Durable!Recover, Durable!ANext
    <2>5. QED
      BY <2>1, <2>2, <2>3, <2>4, ExecRefines, PatchRefines, RespondRefines, WriterRefines
         DEF Next, Durable!ANext
  <1>3. QED
    BY <1>1, <1>2, Invariance, PTL DEF Spec, ImplementsDurableSession, Durable!ASpec
=============================================================================
