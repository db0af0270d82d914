------------------------ MODULE SessionManagerProofs ------------------------
(***************************************************************************)
(* One session id for any number of resumes, deletes, users, MCP servers   *)
(* and crashes: one object at a time owns the files, and a quiet delete    *)
(* tells the truth.                                                        *)
(***************************************************************************)
EXTENDS SessionManager, FiniteSetTheorems, TLAPS

Others == Resumers \cup Deleters \cup Users
Pcs == {"idle", "cwd", "catalog", "mcp", "badcwd", "failed", "threw", "read", "register",
        "held", "append", "flush", "rename", "unlink", "rmdir", "ok", "notfound", "conflict", "lost"}
Early == {"idle", "cwd", "catalog", "mcp", "badcwd", "failed", "threw"}
WritePcs == {"held", "append", "flush", "rename"}
ResumePcs == {"read", "register"}
DeletePcs == {"unlink", "rmdir"}

PlaceType ==
  /\ object \in Makers \cup {None}
  /\ pc \in [Clients -> Pcs]
  /\ holds \in [Clients -> Makers \cup {None}]
  /\ save \in [Users -> {"none", "open", "rename"}]
  /\ reaper \in {"idle", "unlink", "rmdir"}

DiskType ==
  /\ dir \in BOOLEAN /\ files \subseteq Entries /\ hasCatalog \in BOOLEAN
  /\ files # {} => dir
  /\ conns \subseteq Servers

FlagType == expired \in BOOLEAN /\ raced \in BOOLEAN /\ spoiled \in BOOLEAN

\* Where the requests of each route can be.
RoleInv ==
  /\ pc[Creator] \in Early \cup {"flush", "rename", "ok", "lost"}
  /\ \A r \in Resumers : pc[r] \notin WritePcs \cup DeletePcs
  /\ \A d \in Deleters : pc[d] \notin WritePcs \cup ResumePcs
  /\ \A u \in Users : pc[u] \notin ResumePcs \cup DeletePcs

\* Nobody else uses the id, and nothing is saved, before the create is answered;
\* before the session is registered there is no object and nothing to reap, and
\* the directory is there as long as the create goes on.
CreateInv ==
  /\ pc[Creator] # "ok" => \A c \in Others : pc[c] = "idle"
  /\ pc[Creator] \in Early => object = None /\ reaper = "idle"
  /\ pc[Creator] \in {"cwd", "catalog", "mcp"} => dir
  /\ pc[Creator] # "ok" => Saving = {}

\* But for a race: a resume runs alone, for an object that is not there and
\* with no removal or writer about; while a directory is being removed there
\* is no object; those who may write share one object, the one in the Map if
\* there is one; and that one has its files.
ResumeInv ==
  ~raced => \A r \in Resumers : pc[r] \in ResumePcs =>
    /\ object = None /\ Writing = {} /\ ~Removing
    /\ \A q \in Resumers : pc[q] \in ResumePcs => q = r
RemovalInv == ~raced /\ Removing => object = None
OwnerInv ==
  ~raced => \A c \in Writing :
    /\ holds[c] \in Makers /\ (object # None => holds[c] = object)
    /\ \A e \in Writing : holds[e] = holds[c]
FilesInv == ~raced /\ object # None => dir /\ "transcript" \in files

\* From a quiet delete on there is no object, no writer and no other removal,
\* the files go first and the directory after them, and no resume gets past
\* its read.
DeleteInv ==
  ~raced /\ ~spoiled => \A d \in Deleters :
    /\ pc[d] \in DeletePcs \cup {"ok"} =>
         object = None /\ Writing = {} /\ reaper = "idle" /\ \A r \in Resumers : pc[r] # "register"
    /\ pc[d] = "rmdir" => files = {}
    /\ pc[d] = "ok" => files = {} /\ ~dir

IInv ==
  /\ PlaceType /\ DiskType /\ FlagType /\ crashes \in Nat
  /\ RoleInv /\ CreateInv /\ ResumeInv /\ RemovalInv /\ OwnerInv /\ FilesInv /\ DeleteInv
-----------------------------------------------------------------------------
(* How steps move requests. *)

MovesTo(c, step) == \A e \in Clients : pc'[e] = IF e = c THEN step ELSE pc[e]

LEMMA GotoMoves ==
  ASSUME PlaceType, NEW c \in Clients, NEW step \in Pcs, Goto(c, step)
  PROVE  MovesTo(c, step) /\ pc' \in [Clients -> Pcs]
BY DEF PlaceType, Goto, MovesTo

\* The routes have clients of their own.
LEMMA Apart ==
  /\ Creator \in Clients /\ Others \subseteq Clients /\ Clients = {Creator} \cup Others
  /\ Creator \notin Others /\ Creator \in Makers /\ Resumers \subseteq Makers
  /\ Resumers \subseteq Others /\ Deleters \subseteq Others /\ Users \subseteq Others
  /\ Resumers \cap Deleters = {} /\ Resumers \cap Users = {} /\ Deleters \cap Users = {}
  /\ None \notin Makers
BY ConstantsAssumption DEF ConstantsAssumption, Clients, Makers, Others

\* The requests that a step may move, with where each kind of them goes.
CreateMove ==
  /\ \/ \E step \in Early \cup {"flush"} : Goto(Creator, step)
     \/ UNCHANGED pc
  /\ pc[Creator] \in Early
ResumeMove(r) ==
  /\ \E step \in {"conflict", "read", "register", "notfound", "ok"} : Goto(r, step)
  /\ r \in Resumers /\ ((pc[r] = "idle" /\ KnowsId) \/ pc[r] \in ResumePcs)
UseMove(u) ==
  /\ \E step \in {"notfound", "conflict", "held", "append", "flush"} : Goto(u, step)
  /\ u \in Users /\ ((pc[u] = "idle" /\ KnowsId) \/ pc[u] \in WritePcs)
FlushMove(c) ==
  /\ \E step \in {"rename", "ok"} : Goto(c, step)
  /\ c \in {Creator} \cup Users /\ pc[c] \in WritePcs
DeleteMove(d) ==
  /\ \E step \in {"notfound", "unlink", "rmdir", "ok"} : Goto(d, step)
  /\ d \in Deleters /\ ((pc[d] = "idle" /\ KnowsId) \/ pc[d] \in DeletePcs)

LEMMA StepKinds ==
  ASSUME [Next]_vars
  PROVE  \/ CreateMove \/ Crash \/ UNCHANGED pc
         \/ \E c \in Clients : ResumeMove(c) \/ UseMove(c) \/ FlushMove(c) \/ DeleteMove(c)
<1>1. CASE CreateStep
  BY <1>1 DEF CreateStep, CreateStart, CwdAccepted, CwdRejected, CatalogReady, CatalogFails, McpConnect,
     McpFails, CreateRegister, CreateThrows, Abandon, CreateMove, Early
<1>2. CASE Expire \/ SweepExpired \/ ReaperStep \/ ReaperFails \/ UNCHANGED vars
  BY <1>2 DEF Expire, SweepExpired, ReaperStep, ReaperFails, vars
<1>3. ASSUME NEW r \in Resumers, ResumeStep(r) PROVE ResumeMove(r)
  BY <1>3 DEF ResumeStep, ResumeConflict, ResumeStart, ResumeRead, ResumeRegister, ResumeRefused,
     ResumeThrows, ResumeMove, ResumePcs
<1>4. ASSUME NEW u \in Users, UseStep(u) PROVE UseMove(u)
  BY <1>4 DEF UseStep, GetMissing, GetExpired, GetOk, Patch, Exec, Append, UseMove, WritePcs
<1>5. ASSUME NEW d \in Deleters, DeleteStep(d) PROVE DeleteMove(d)
  BY <1>5 DEF DeleteStep, DeleteMissing, DeleteStart, AfterDrop, DeleteUnlink, DeleteRmFails, DeleteRmdir, DeleteMove,
     DeletePcs
<1>6. ASSUME NEW c \in {Creator} \cup Users, FlushStep(c) PROVE FlushMove(c)
  BY <1>6 DEF FlushStep, FlushOpen, FlushRename, FlushMove, WritePcs
<1>7. ASSUME NEW u \in Users, SaveStep(u) PROVE UNCHANGED pc
  BY <1>7 DEF SaveStep, SaveOpen, SaveRename
<1> QED
  BY <1>1, <1>2, <1>3, <1>4, <1>5, <1>6, <1>7, Apart DEF Next

LEMMA CrashMoves ==
  ASSUME PlaceType, Crash
  PROVE  /\ pc' \in [Clients -> Pcs]
         /\ \A c \in Clients : pc'[c] = IF pc[c] \in {"idle", "ok", "failed", "badcwd", "threw", "notfound", "conflict"}
                                        THEN pc[c] ELSE "lost"
BY DEF PlaceType, Crash, Pcs

\* Each route stays on its own steps, and the others wait for the create.
LEMMA NextRole ==
  ASSUME PlaceType, RoleInv, pc[Creator] # "ok" => \A c \in Others : pc[c] = "idle", [Next]_vars
  PROVE  /\ pc' \in [Clients -> Pcs] /\ RoleInv'
         /\ pc'[Creator] # "ok" => \A c \in Others : pc'[c] = "idle"
<1> DEFINE Goal == /\ pc' \in [Clients -> Pcs] /\ RoleInv'
                   /\ pc'[Creator] # "ok" => \A c \in Others : pc'[c] = "idle"
<1> HIDE DEF Goal
<1>1. CASE CreateMove
  <2>1. CASE UNCHANGED pc
    BY <2>1 DEF PlaceType, RoleInv, Goal
  <2>2. CASE \E step \in Early \cup {"flush"} : Goto(Creator, step)
    <3>1. PICK step \in Early \cup {"flush"} : Goto(Creator, step)
      BY <2>2
    <3>2. MovesTo(Creator, step) /\ pc' \in [Clients -> Pcs]
      BY <3>1, GotoMoves, Apart DEF Pcs, Early
    <3>3. RoleInv'
      BY <3>2, Apart DEF RoleInv, MovesTo
    <3>4. \A c \in Others : pc'[c] = "idle"
      BY <1>1, <3>2, Apart DEF CreateMove, MovesTo, Early
    <3> QED
      BY <3>2, <3>3, <3>4 DEF Goal
  <2> QED
    BY <1>1, <2>1, <2>2 DEF CreateMove
<1>2. CASE Crash
  <2>1. RoleInv'
    BY <1>2, CrashMoves, Apart DEF RoleInv, Early, WritePcs, ResumePcs, DeletePcs
  <2>2. pc'[Creator] # "ok" => \A c \in Others : pc'[c] = "idle"
    BY <1>2, CrashMoves, Apart
  <2> QED
    BY <1>2, <2>1, <2>2, CrashMoves DEF Goal
<1>3. CASE UNCHANGED pc
  BY <1>3 DEF PlaceType, RoleInv, Goal
<1>4. ASSUME NEW c \in Clients, ResumeMove(c) PROVE Goal
  <2>1. PICK step \in {"conflict", "read", "register", "notfound", "ok"} : Goto(c, step)
    BY <1>4 DEF ResumeMove
  <2>2. MovesTo(c, step) /\ pc' \in [Clients -> Pcs]
    BY <2>1, GotoMoves DEF Pcs
  <2>3. c \in Resumers /\ pc[Creator] = "ok"
    BY <1>4, Apart DEF ResumeMove, KnowsId, ResumePcs
  <2>4. RoleInv' /\ pc'[Creator] = "ok"
    BY <2>2, <2>3, Apart DEF MovesTo, RoleInv, WritePcs, DeletePcs
  <2> QED
    BY <2>2, <2>4 DEF Goal
<1>5. ASSUME NEW c \in Clients, UseMove(c) PROVE Goal
  <2>1. PICK step \in {"notfound", "conflict", "held", "append", "flush"} : Goto(c, step)
    BY <1>5 DEF UseMove
  <2>2. MovesTo(c, step) /\ pc' \in [Clients -> Pcs]
    BY <2>1, GotoMoves DEF Pcs
  <2>3. c \in Users /\ pc[Creator] = "ok"
    BY <1>5, Apart DEF UseMove, KnowsId, WritePcs
  <2>4. RoleInv' /\ pc'[Creator] = "ok"
    BY <2>2, <2>3, Apart DEF MovesTo, RoleInv, ResumePcs, DeletePcs
  <2> QED
    BY <2>2, <2>4 DEF Goal
<1>6. ASSUME NEW c \in Clients, FlushMove(c) PROVE Goal
  <2>1. PICK step \in {"rename", "ok"} : Goto(c, step)
    BY <1>6 DEF FlushMove
  <2>2. MovesTo(c, step) /\ pc' \in [Clients -> Pcs]
    BY <2>1, GotoMoves DEF Pcs
  <2>3. c = Creator \/ (c \in Users /\ pc[Creator] = "ok")
    BY <1>6, Apart DEF FlushMove, WritePcs
  <2>4. RoleInv'
    BY <2>2, <2>3, Apart DEF MovesTo, RoleInv, ResumePcs, DeletePcs
  <2>5. pc'[Creator] # "ok" => \A e \in Others : pc'[e] = "idle"
    <3>1. CASE c = Creator
      <4>1. pc[Creator] # "ok"
        BY <1>6, <3>1 DEF FlushMove, WritePcs
      <4> QED
        BY <2>2, <3>1, <4>1, Apart DEF MovesTo
    <3>2. CASE c \in Users /\ pc[Creator] = "ok"
      BY <2>2, <3>2, Apart DEF MovesTo
    <3> QED
      BY <2>3, <3>1, <3>2
  <2> QED
    BY <2>2, <2>4, <2>5 DEF Goal
<1>7. ASSUME NEW c \in Clients, DeleteMove(c) PROVE Goal
  <2>1. PICK step \in {"notfound", "unlink", "rmdir", "ok"} : Goto(c, step)
    BY <1>7 DEF DeleteMove
  <2>2. MovesTo(c, step) /\ pc' \in [Clients -> Pcs]
    BY <2>1, GotoMoves DEF Pcs
  <2>3. c \in Deleters /\ pc[Creator] = "ok"
    BY <1>7, Apart DEF DeleteMove, KnowsId, DeletePcs
  <2>4. RoleInv' /\ pc'[Creator] = "ok"
    BY <2>2, <2>3, Apart DEF MovesTo, RoleInv, WritePcs, ResumePcs
  <2> QED
    BY <2>2, <2>4 DEF Goal
<1> QED
  BY <1>1, <1>2, <1>3, <1>4, <1>5, <1>6, <1>7, StepKinds DEF Goal
-----------------------------------------------------------------------------
(* Before the create is answered. *)

\* Only an exec asks for a save.
LEMMA OnlyExecSaves ==
  ASSUME PlaceType, [Next]_vars, \A u \in Users : ~Exec(u)
  PROVE  Saving' \subseteq Saving
<1> USE DEF holdVars
<1>1. ASSUME UNCHANGED save PROVE Saving' \subseteq Saving
  BY <1>1 DEF Saving
<1>2. CASE CreateStep
  BY <1>1, <1>2 DEF CreateStep, CreateStart, CwdAccepted, CwdRejected, CatalogReady, CatalogFails, McpConnect,
     McpFails, CreateRegister, Register, CreateThrows
<1>3. CASE Expire \/ SweepExpired \/ ReaperStep \/ ReaperFails \/ UNCHANGED vars
  BY <1>1, <1>3 DEF Expire, SweepExpired, ReaperStep, ReaperFails, vars
<1>4. CASE Crash
  BY <1>4 DEF Crash, Saving
<1>5. ASSUME NEW r \in Resumers, ResumeStep(r) PROVE UNCHANGED save
  BY <1>5 DEF ResumeStep, ResumeConflict, ResumeStart, ResumeRead, ResumeRegister, Register, ResumeRefused,
     ResumeThrows
<1>6. ASSUME NEW u \in Users, UseStep(u) PROVE UNCHANGED save
  BY <1>6 DEF UseStep, GetMissing, GetExpired, GetOk, Patch, Append
<1>7. ASSUME NEW u \in Users, SaveStep(u) PROVE Saving' \subseteq Saving
  BY <1>7 DEF SaveStep, SaveOpen, SaveGoto, SaveRename, Saving, PlaceType
<1>8. ASSUME NEW d \in Deleters, DeleteStep(d) PROVE UNCHANGED save
  BY <1>8 DEF DeleteStep, DeleteMissing, DeleteStart, DeleteUnlink, DeleteRmFails, DeleteRmdir
<1>9. ASSUME NEW c \in {Creator} \cup Users, FlushStep(c) PROVE UNCHANGED save
  BY <1>9 DEF FlushStep, FlushOpen, FlushRename
<1> QED
  BY <1>1, <1>2, <1>3, <1>4, <1>5, <1>6, <1>7, <1>8, <1>9 DEF Next

\* An answered create stays answered.
LEMMA OkStays ==
  ASSUME PlaceType, RoleInv, [Next]_vars, pc[Creator] = "ok"
  PROVE  pc'[Creator] = "ok"
<1>1. ASSUME NEW c \in Clients \ {Creator}, NEW step \in Pcs, Goto(c, step)
      PROVE  pc'[Creator] = "ok"
  <2>1. MovesTo(c, step)
    BY <1>1, GotoMoves
  <2> QED
    BY <1>1, <2>1, Apart DEF MovesTo
<1>2. ~CreateMove
  BY DEF CreateMove, Early
<1>3. CASE Crash
  BY <1>3, CrashMoves, Apart
<1>4. ASSUME NEW c \in Clients, ResumeMove(c) \/ UseMove(c) \/ FlushMove(c) \/ DeleteMove(c)
      PROVE  c # Creator /\ \E step \in Pcs : Goto(c, step)
  <2>1. c # Creator
    BY <1>4, Apart DEF ResumeMove, UseMove, FlushMove, DeleteMove, WritePcs
  <2> QED
    BY <1>4, <2>1 DEF ResumeMove, UseMove, FlushMove, DeleteMove, Pcs
<1> QED
  BY <1>1, <1>2, <1>3, <1>4, StepKinds

LEMMA NextUnsaved ==
  ASSUME PlaceType, RoleInv, CreateInv, [Next]_vars, pc'[Creator] # "ok"
  PROVE  Saving' = {}
<1>1. pc[Creator] # "ok"
  BY OkStays
<1>2. Saving = {} /\ \A c \in Others : pc[c] = "idle"
  BY <1>1 DEF CreateInv
<1>3. \A u \in Users : ~Exec(u)
  BY <1>2, Apart DEF Exec
<1> QED
  BY <1>2, <1>3, OnlyExecSaves

\* Before the session is registered only the create, time and crashes act.
LEMMA EarlySteps ==
  ASSUME PlaceType, RoleInv, CreateInv, pc[Creator] \in Early, [Next]_vars
  PROVE  CreateStep \/ Expire \/ Crash \/ UNCHANGED vars
<1>1. /\ object = None /\ reaper = "idle" /\ ~KnowsId /\ \A c \in Others : pc[c] = "idle"
      /\ Saving = {}
  BY DEF CreateInv, KnowsId, Early
<1>2. ~SweepExpired /\ ~ReaperStep /\ ~ReaperFails
  BY <1>1 DEF SweepExpired, ReaperStep, ReaperFails
<1>3. ASSUME NEW r \in Resumers PROVE ~ResumeStep(r)
  BY <1>1, Apart DEF ResumeStep, ResumeConflict, ResumeStart, ResumeRead, ResumeRegister, ResumeRefused,
     ResumeThrows
<1>4. ASSUME NEW u \in Users PROVE ~UseStep(u) /\ ~SaveStep(u)
  BY <1>1, Apart DEF UseStep, GetMissing, GetExpired, GetOk, Patch, Exec, Append, SaveStep, SaveOpen,
     SaveRename, Saving
<1>5. ASSUME NEW d \in Deleters PROVE ~DeleteStep(d)
  BY <1>1, Apart DEF DeleteStep, DeleteMissing, DeleteStart, DeleteUnlink, DeleteRmFails, DeleteRmdir
<1>6. ASSUME NEW c \in {Creator} \cup Users PROVE ~FlushStep(c)
  BY <1>1, Apart DEF FlushStep, FlushOpen, FlushRename, Early
<1> QED
  BY <1>2, <1>3, <1>4, <1>5, <1>6 DEF Next

\* Whoever is early was early before.
LEMMA EarlyBefore ==
  ASSUME PlaceType, RoleInv, [Next]_vars, pc'[Creator] \in Early
  PROVE  pc[Creator] \in Early
<1>1. ASSUME NEW c \in Clients, NEW step \in {"conflict", "read", "register", "notfound", "ok", "held",
                                              "append", "flush", "rename", "unlink", "rmdir"}, Goto(c, step)
      PROVE  pc[Creator] \in Early
  <2>1. MovesTo(c, step)
    BY <1>1, GotoMoves DEF Pcs
  <2> QED
    BY <2>1, Apart DEF MovesTo, Early
<1>2. CASE CreateMove
  BY <1>2 DEF CreateMove
<1>3. CASE Crash
  BY <1>3, CrashMoves, Apart DEF Early
<1>4. ASSUME NEW c \in Clients, ResumeMove(c) \/ UseMove(c) \/ FlushMove(c) \/ DeleteMove(c)
      PROVE  pc[Creator] \in Early
  BY <1>1, <1>4 DEF ResumeMove, UseMove, FlushMove, DeleteMove
<1> QED
  BY <1>2, <1>3, <1>4, StepKinds

LEMMA NextCreate ==
  ASSUME PlaceType, RoleInv, CreateInv, [Next]_vars
  PROVE  CreateInv'
<1> DEFINE Rest == /\ object' = None /\ reaper' = "idle"
                   /\ pc'[Creator] \in {"cwd", "catalog", "mcp"} => dir'
<1>1. pc'[Creator] # "ok" => \A c \in Others : pc'[c] = "idle"
  BY NextRole DEF CreateInv
<1> SUFFICES ASSUME pc'[Creator] \in Early PROVE Rest
  BY <1>1, NextUnsaved DEF CreateInv, Early
<1>2. pc[Creator] \in Early
  BY EarlyBefore
<1>3. object = None /\ reaper = "idle"
  BY <1>2 DEF CreateInv
<1>4. CASE CreateStep
  <2>1. ASSUME NEW step \in Early, Goto(Creator, step) PROVE pc'[Creator] = step
    BY <2>1, GotoMoves, Apart DEF Pcs, Early, MovesTo
  <2> USE DEF diskVars
  <2>2. CASE CreateStart
    BY <1>3, <2>1, <2>2 DEF CreateStart, Early
  <2>3. CASE CwdAccepted \/ CwdRejected
    BY <1>3, <2>1, <2>3 DEF CwdAccepted, CwdRejected, Early, CreateInv
  <2>4. CASE CatalogReady
    BY <1>3, <2>1, <2>4 DEF CatalogReady, Early, CreateInv
  <2>5. CASE CatalogFails \/ McpFails
    BY <1>3, <2>1, <2>5 DEF CatalogFails, McpFails, Abandon, Early
  <2>6. ASSUME NEW s \in Servers, McpConnect(s) PROVE Rest
    BY <1>3, <2>6 DEF McpConnect, CreateInv
  <2>7. CASE CreateThrows
    BY <1>3, <2>1, <2>7 DEF CreateThrows, Early
  <2>8. CASE CreateRegister
    <3>1. pc'[Creator] = "flush"
      BY <2>8, GotoMoves, Apart DEF CreateRegister, Pcs, MovesTo
    <3> QED
      BY <3>1 DEF Early
  <2> QED
    BY <1>4, <2>2, <2>3, <2>4, <2>5, <2>6, <2>7, <2>8 DEF CreateStep
<1>5. CASE Expire \/ UNCHANGED vars
  BY <1>2, <1>3, <1>5 DEF Expire, vars, diskVars, CreateInv
<1>6. CASE Crash
  <2>1. pc'[Creator] \in {"cwd", "catalog", "mcp"} => FALSE
    BY <1>6, CrashMoves, Apart
  <2> QED
    BY <1>6, <2>1 DEF Crash, diskVars, CreateInv
<1> QED
  BY <1>2, <1>4, <1>5, <1>6, EarlySteps
-----------------------------------------------------------------------------
(* Types. *)

LEMMA NextDisk ==
  ASSUME PlaceType, DiskType, RoleInv, CreateInv, [Next]_vars
  PROVE  DiskType'
<1> USE DEF diskVars, DiskType
<1>1. ASSUME UNCHANGED diskVars, conns' \subseteq conns PROVE DiskType'
  BY <1>1
<1>10. ASSUME TranscriptFails, UNCHANGED conns PROVE DiskType'
  <2>1. CASE dir' = TRUE
    BY <1>10, <2>1 DEF TranscriptFails
  <2>2. CASE UNCHANGED dir
    BY <1>1, <1>10, <2>2 DEF TranscriptFails
  <2> QED
    BY <1>10, <2>1, <2>2 DEF TranscriptFails
<1>2. CASE CreateStep
  <2>1. CASE CreateStart
    BY <2>1 DEF CreateStart
  <2>2. CASE CwdAccepted \/ CwdRejected
    BY <2>2 DEF CwdAccepted, CwdRejected
  <2>3. CASE CatalogReady
    BY <2>3 DEF CatalogReady, CreateInv, Entries
  <2>4. CASE CatalogFails \/ McpFails
    BY <2>4 DEF CatalogFails, McpFails, Abandon, RmFails
  <2>5. ASSUME NEW s \in Servers, McpConnect(s) PROVE DiskType'
    BY <2>5 DEF McpConnect
  <2>6. CASE CreateRegister
    BY <2>6 DEF CreateRegister, Register, OpenTranscript, Entries
  <2>7. CASE CreateThrows
    BY <1>10, <2>7 DEF CreateThrows
  <2> QED
    BY <1>2, <2>1, <2>2, <2>3, <2>4, <2>5, <2>6, <2>7 DEF CreateStep
<1>3. CASE Expire \/ SweepExpired \/ Crash \/ UNCHANGED vars
  BY <1>1, <1>3 DEF Expire, SweepExpired, Expel, Crash, vars
<1>4. CASE ReaperStep \/ ReaperFails
  BY <1>4 DEF ReaperStep, ReaperFails, Unlink, Rmdir, RmFails
<1>5. ASSUME NEW r \in Resumers, ResumeStep(r) PROVE DiskType'
  <2>1. CASE ResumeRegister(r)
    BY <2>1 DEF ResumeRegister, Register, OpenTranscript, Entries
  <2>2. CASE ResumeThrows(r)
    BY <1>10, <2>2 DEF ResumeThrows
  <2>3. CASE ~ResumeRegister(r) /\ ~ResumeThrows(r)
    BY <1>1, <1>5, <2>3 DEF ResumeStep, ResumeConflict, ResumeStart, ResumeRead, ResumeRefused
  <2> QED
    BY <2>1, <2>2, <2>3
<1>6. ASSUME NEW u \in Users, UseStep(u) PROVE DiskType'
  <2>1. CASE Append(u)
    <3>1. CASE OpenTranscript
      BY <2>1, <3>1 DEF Append, OpenTranscript, Entries
    <3>2. CASE UNCHANGED diskVars
      BY <1>1, <2>1, <3>2 DEF Append
    <3> QED
      BY <2>1, <3>1, <3>2 DEF Append
  <2>2. CASE ~Append(u)
    BY <1>1, <1>6, <2>2 DEF UseStep, GetMissing, GetExpired, Expel, GetOk, Patch, Exec
  <2> QED
    BY <2>1, <2>2
<1>7. ASSUME NEW d \in Deleters, DeleteStep(d) PROVE DiskType'
  BY <1>7 DEF DeleteStep, DeleteMissing, DeleteStart, DeleteUnlink, DeleteRmFails, DeleteRmdir, Unlink, Rmdir,
     RmFails
<1>8. ASSUME NEW c \in {Creator} \cup Users, FlushStep(c) PROVE DiskType'
  BY <1>8 DEF FlushStep, FlushOpen, FlushRename, Place, Entries
<1>9. ASSUME NEW u \in Users, SaveStep(u) PROVE DiskType'
  BY <1>9 DEF SaveStep, SaveOpen, SaveRename, Place, Entries
<1> QED
  BY <1>2, <1>3, <1>4, <1>5, <1>6, <1>7, <1>8, <1>9 DEF Next

LEMMA NextPlace ==
  ASSUME PlaceType, RoleInv, CreateInv, [Next]_vars
  PROVE  PlaceType'
<1> USE DEF Unlink, Rmdir, holdVars
<1>1. pc' \in [Clients -> Pcs]
  BY NextRole DEF CreateInv
<1>2. ASSUME NEW c \in Makers, Register(c)
      PROVE  /\ object' \in Makers \cup {None} /\ holds' \in [Clients -> Makers \cup {None}]
             /\ UNCHANGED save
  BY <1>2 DEF Register, PlaceType
<1>3. CASE CreateStep
  BY <1>1, <1>2, <1>3, Apart DEF CreateStep, CreateStart, CwdAccepted, CwdRejected, CatalogReady,
     CatalogFails, McpConnect, McpFails, CreateRegister, CreateThrows, PlaceType
<1>4. CASE Expire \/ SweepExpired \/ Crash \/ ReaperStep \/ ReaperFails \/ UNCHANGED vars
  BY <1>1, <1>4 DEF Expire, SweepExpired, Expel, Drop, Crash, ReaperStep, ReaperFails, vars, PlaceType
<1>5. ASSUME NEW r \in Resumers, ResumeStep(r) PROVE PlaceType'
  BY <1>1, <1>2, <1>5, Apart DEF ResumeStep, ResumeConflict, ResumeStart, ResumeRead, ResumeRegister,
     ResumeRefused, ResumeThrows, PlaceType
<1>6. ASSUME NEW u \in Users, UseStep(u) PROVE PlaceType'
  BY <1>1, <1>6 DEF UseStep, GetMissing, GetExpired, Expel, Drop, GetOk, Patch, Exec, Append,
     PlaceType
<1>7. ASSUME NEW d \in Deleters, DeleteStep(d) PROVE PlaceType'
  BY <1>1, <1>7 DEF DeleteStep, DeleteMissing, DeleteStart, Drop, DeleteUnlink, DeleteRmFails,
     DeleteRmdir, PlaceType
<1>8. ASSUME NEW c \in {Creator} \cup Users, FlushStep(c) PROVE PlaceType'
  BY <1>1, <1>8 DEF FlushStep, FlushOpen, FlushRename, PlaceType
<1>9. ASSUME NEW u \in Users, SaveStep(u) PROVE PlaceType'
  BY <1>1, <1>9 DEF SaveStep, SaveOpen, SaveGoto, SaveRename, PlaceType
<1> QED
  BY <1>3, <1>4, <1>5, <1>6, <1>7, <1>8, <1>9 DEF Next

LEMMA NextFlag ==
  ASSUME FlagType, crashes \in Nat, [Next]_vars
  PROVE  FlagType' /\ crashes' \in Nat /\ (raced => raced') /\ (spoiled => spoiled')
<1> DEFINE Mono == FlagType' /\ (raced => raced') /\ (spoiled => spoiled')
<1> DEFINE Same == crashes' = crashes
<1> USE DEF histVars, FlagType
<1>1. CASE CreateStep
  <2>1. UNCHANGED <<expired, crashes, raced>> /\ (UNCHANGED spoiled \/ spoiled' = TRUE)
    BY <1>1 DEF CreateStep, CreateStart, CwdAccepted, CwdRejected, CatalogReady, CatalogFails, McpConnect,
       McpFails, CreateRegister, CreateThrows, Abandon, RmFails
  <2> QED
    BY <2>1
<1>2. CASE Expire \/ SweepExpired \/ ReaperStep \/ ReaperFails \/ UNCHANGED vars
  <2>1. Mono
    BY <1>2 DEF Expire, SweepExpired, Expel, ReaperStep, ReaperFails, RmFails, vars
  <2>2. Same
    BY <1>2 DEF Expire, SweepExpired, Expel, ReaperStep, ReaperFails, vars
  <2> QED
    BY <2>1, <2>2
<1>3. CASE Crash
  <2>1. Mono
    BY <1>3 DEF Crash
  <2>2. crashes' = crashes + 1
    BY <1>3 DEF Crash
  <2>3. crashes' \in Nat
    BY <2>2
  <2> QED
    BY <2>1, <2>3
<1>4. ASSUME NEW r \in Resumers, ResumeStep(r) PROVE Mono /\ Same
  BY <1>4 DEF ResumeStep, ResumeConflict, ResumeStart, ResumeRead, ResumeRegister, ResumeRefused,
     ResumeThrows
<1>5. ASSUME NEW u \in Users, UseStep(u) PROVE Mono /\ Same
  BY <1>5 DEF UseStep, GetMissing, GetExpired, Expel, GetOk, Patch, Exec, Append
<1>6. ASSUME NEW d \in Deleters, DeleteStep(d) PROVE Mono /\ Same
  BY <1>6 DEF DeleteStep, DeleteMissing, DeleteStart, DeleteUnlink, DeleteRmFails, RmFails, DeleteRmdir
<1>7. ASSUME NEW c \in {Creator} \cup Users, FlushStep(c) PROVE Mono /\ Same
  BY <1>7 DEF FlushStep, FlushOpen, FlushRename
<1>8. ASSUME NEW u \in Users, SaveStep(u) PROVE Mono /\ Same
  BY <1>8 DEF SaveStep, SaveOpen, SaveRename
<1> QED
  BY <1>1, <1>2, <1>3, <1>4, <1>5, <1>6, <1>7, <1>8 DEF Next
-----------------------------------------------------------------------------
(* One object at a time. *)

RaceInv == ResumeInv /\ RemovalInv /\ OwnerInv /\ FilesInv

\* Nobody begins to write, to resume or to remove.
Fewer ==
  /\ Writing' \subseteq Writing
  /\ \A c \in Writing' : holds'[c] = holds[c]
  /\ \A r \in Resumers : pc'[r] \in ResumePcs => pc[r] \in ResumePcs

\* Nor does an object come, or lose its files.
Calm ==
  /\ Fewer
  /\ object' \in {object, None}
  /\ Removing' => Removing
  /\ raced => raced'
  /\ ~raced /\ object' # None =>
       (dir => dir') /\ ("transcript" \in files => "transcript" \in files')

LEMMA WritersAre ==
  /\ Writing = {c \in Clients : pc[c] \in WritePcs} \cup Saving
  /\ Writing' = {c \in Clients : pc'[c] \in WritePcs} \cup Saving'
  /\ Resuming = {r \in Resumers : pc[r] \in ResumePcs}
BY DEF Writing, Resuming, WritePcs, ResumePcs

\* A request that goes to a step without writes, or wrote before, adds no writer.
LEMMA MoveWriting ==
  ASSUME NEW c \in Clients, NEW step, MovesTo(c, step), UNCHANGED save,
         step \in WritePcs => pc[c] \in WritePcs
  PROVE  Writing' \subseteq Writing
<1>1. Saving' = Saving
  BY DEF Saving
<1> QED
  BY <1>1, WritersAre DEF MovesTo

\* Nor does a step that moves nobody and asks for no save.
LEMMA StillWriting ==
  ASSUME UNCHANGED <<pc, holds>>, Saving' \subseteq Saving
  PROVE  Fewer
<1>1. Writing' \subseteq Writing
  BY WritersAre
<1> QED
  BY <1>1 DEF Fewer

LEMMA CalmRace ==
  ASSUME RaceInv, Calm
  PROVE  RaceInv'
<1>1. Writing' \subseteq Writing /\ \A c \in Writing' : holds'[c] = holds[c]
  BY DEF Calm, Fewer
<1>2. ResumeInv'
  BY <1>1 DEF Calm, Fewer, RaceInv, ResumeInv
<1>3. RemovalInv' /\ FilesInv'
  BY DEF Calm, RaceInv, RemovalInv, FilesInv
<1>4. OwnerInv'
  BY <1>1 DEF Calm, RaceInv, OwnerInv
<1> QED
  BY <1>2, <1>3, <1>4 DEF RaceInv

\* The object is dropped while nobody resumes it.
LEMMA DropRace ==
  ASSUME RaceInv, Fewer, object' = None, ~raced' => ~raced /\ Resuming = {}
  PROVE  RaceInv'
<1>1. Writing' \subseteq Writing /\ \A c \in Writing' : holds'[c] = holds[c]
  BY DEF Fewer
<1>2. ResumeInv'
  BY WritersAre DEF Fewer, ResumeInv
<1>3. RemovalInv' /\ FilesInv'
  BY DEF RemovalInv, FilesInv
<1>4. OwnerInv'
  BY <1>1 DEF RaceInv, OwnerInv
<1> QED
  BY <1>2, <1>3, <1>4 DEF RaceInv

\* A request goes to a step where it neither writes, resumes nor removes, or
\* did so before.
LEMMA MoveFewer ==
  ASSUME PlaceType, NEW c \in Clients, NEW step \in Pcs, Goto(c, step), UNCHANGED holdVars,
         step \in WritePcs => pc[c] \in WritePcs,
         step \in ResumePcs => pc[c] \in ResumePcs
  PROVE  Fewer
<1>1. MovesTo(c, step)
  BY GotoMoves
<1>2. Writing' \subseteq Writing
  BY <1>1, MoveWriting DEF holdVars
<1> QED
  BY <1>1, <1>2, Apart DEF MovesTo, Fewer, holdVars

LEMMA MoveCalm ==
  ASSUME PlaceType, NEW c \in Clients, NEW step \in Pcs, Goto(c, step), UNCHANGED holdVars,
         step \in WritePcs => pc[c] \in WritePcs,
         step \in ResumePcs => pc[c] \in ResumePcs,
         step \in DeletePcs => pc[c] \in DeletePcs,
         object' \in {object, None}, UNCHANGED reaper, raced => raced',
         ~raced /\ object' # None =>
           (dir => dir') /\ ("transcript" \in files => "transcript" \in files'),
         RaceInv
  PROVE  RaceInv'
<1>1. MovesTo(c, step)
  BY GotoMoves
<1>2. Fewer
  BY MoveFewer
<1>3. Removing' => Removing
  BY <1>1, Apart DEF MovesTo, Removing, DeletePcs
<1>4. Calm
  BY <1>2, <1>3 DEF Calm
<1> QED
  BY <1>4, CalmRace

LEMMA NextRace ==
  ASSUME PlaceType, DiskType, FlagType, RoleInv, CreateInv, RaceInv, [Next]_vars
  PROVE  RaceInv'
<1> USE DEF diskVars, holdVars, histVars
<1>1. Creator \in Clients /\ Resumers \subseteq Clients /\ Deleters \subseteq Clients /\ Users \subseteq Clients
  BY Apart
<1>2. CASE CreateStep /\ ~CreateRegister
  <2>1. object = None /\ UNCHANGED <<object, holds, save, reaper, raced>>
    BY <1>2 DEF CreateStep, CreateStart, CwdAccepted, CwdRejected, CatalogReady, CatalogFails, McpConnect,
       McpFails, CreateThrows, CreateInv, Early
  <2>2. \/ \E step \in Early : Goto(Creator, step)
        \/ UNCHANGED pc
    BY <1>2 DEF CreateStep, CreateStart, CwdAccepted, CwdRejected, CatalogReady, CatalogFails, McpConnect,
       McpFails, CreateThrows, Abandon, Early
  <2>3. CASE UNCHANGED pc
    <3>1. Fewer
      BY <2>1, <2>3, StillWriting DEF Saving
    <3> QED
      BY <2>1, <2>3, <3>1, CalmRace DEF Calm, Removing
  <2>4. ASSUME NEW step \in Early, Goto(Creator, step) PROVE RaceInv'
    <3>1. step \in Pcs /\ step \notin WritePcs /\ step \notin ResumePcs /\ step \notin DeletePcs
      BY DEF Pcs, Early, WritePcs, ResumePcs, DeletePcs
    <3> QED
      BY <1>1, <2>1, <2>4, <3>1, MoveCalm
  <2> QED
    BY <2>2, <2>3, <2>4
<1>3. CASE CreateRegister
  <2>1. /\ reaper = "idle" /\ \A c \in Others : pc[c] = "idle"
        /\ object' = Creator /\ dir' /\ "transcript" \in files' /\ UNCHANGED reaper
    BY <1>3 DEF CreateRegister, Register, OpenTranscript, CreateInv, Early
  <2>2. MovesTo(Creator, "flush")
    BY <1>1, <1>3, GotoMoves DEF CreateRegister, Pcs
  <2>3. holds'[Creator] = Creator
    BY <1>1, <1>3 DEF CreateRegister, Register, PlaceType
  <2>4. /\ {c \in Clients : pc'[c] \in WritePcs} = {Creator}
        /\ ~Removing' /\ \A r \in Resumers : pc'[r] = "idle"
    BY <2>1, <2>2, Apart DEF MovesTo, WritePcs, Removing
  <2>5. Saving' = {}
    BY <1>3 DEF CreateRegister, Register, Saving, CreateInv
  <2>6. Writing' = {Creator}
    BY <2>4, <2>5, WritersAre
  <2>7. ResumeInv' /\ RemovalInv' /\ FilesInv'
    BY <2>1, <2>4 DEF ResumeInv, RemovalInv, FilesInv, ResumePcs
  <2>8. OwnerInv'
    BY <2>1, <2>3, <2>6, Apart DEF OwnerInv
  <2> QED
    BY <2>7, <2>8 DEF RaceInv
<1>4. CASE Expire \/ UNCHANGED vars
  <2>1. UNCHANGED <<object, dir, files, pc, holds, save, reaper, raced>>
    BY <1>4 DEF Expire, vars
  <2>2. Fewer
    BY <2>1, StillWriting DEF Saving
  <2> QED
    BY <2>1, <2>2, CalmRace DEF Calm, Removing
<1>5. CASE SweepExpired
  <2>1. Fewer
    BY <1>5, StillWriting DEF SweepExpired, Saving
  <2> QED
    BY <1>5, <2>1, DropRace DEF SweepExpired, Expel, Drop
<1>6. CASE ReaperStep \/ ReaperFails
  <2>1. Removing /\ UNCHANGED <<object, pc, holds, save, raced>>
    BY <1>6 DEF ReaperStep, ReaperFails, Removing
  <2>2. ~raced => object = None
    BY <2>1 DEF RaceInv, RemovalInv
  <2>3. Fewer
    BY <2>1, StillWriting DEF Saving
  <2> QED
    BY <2>1, <2>2, <2>3, CalmRace DEF Calm
<1>7. CASE Crash
  <2>1. Fewer
    <3>1. Saving' = {} /\ UNCHANGED holds
      BY <1>7 DEF Crash, Saving
    <3>2. Writing' \subseteq Writing
      BY <1>7, <3>1, CrashMoves, WritersAre DEF WritePcs
    <3> QED
      BY <1>7, <3>1, <3>2, CrashMoves, Apart DEF Fewer, ResumePcs
  <2>2. ~Removing'
    BY <1>7, CrashMoves, Apart DEF Crash, Removing
  <2>3. Calm
    BY <1>7, <2>1, <2>2 DEF Crash, Calm
  <2> QED
    BY <2>3, CalmRace
<1>8. ASSUME NEW r \in Resumers, ResumeConflict(r) \/ ResumeRead(r) \/ ResumeRefused(r) \/ ResumeThrows(r)
      PROVE  RaceInv'
  <2>1. PICK step \in {"conflict", "register", "notfound"} :
          Goto(r, step) /\ (step = "register" => pc[r] = "read")
    BY <1>8 DEF ResumeConflict, ResumeRead, ResumeRefused, ResumeThrows
  <2>2. /\ step \in Pcs /\ step \notin WritePcs /\ step \notin DeletePcs
        /\ step \in ResumePcs => pc[r] \in ResumePcs
    BY <2>1 DEF Pcs, WritePcs, ResumePcs, DeletePcs
  <2>3. UNCHANGED <<object, files, holdVars, reaper, histVars>> /\ (dir => dir')
    BY <1>8 DEF ResumeConflict, ResumeRead, ResumeRefused, ResumeThrows, TranscriptFails, DiskType
  <2> QED
    BY <1>1, <2>1, <2>2, <2>3, MoveCalm
<1>9. ASSUME NEW r \in Resumers, ResumeStart(r) PROVE RaceInv'
  <2>1. /\ object = None /\ UNCHANGED <<object, holdVars, reaper>>
        /\ ~raced' => ~raced /\ Resuming = {} /\ ~Removing /\ Writing = {}
    BY <1>9 DEF ResumeStart, IsLive, FlagType
  <2>2. MovesTo(r, "read")
    BY <1>1, <1>9, GotoMoves DEF ResumeStart, Pcs
  <2>3. Writing' \subseteq Writing
    BY <1>1, <2>1, <2>2, MoveWriting DEF WritePcs
  <2>7. Removing' => Removing
    BY <2>1, <2>2, Apart DEF MovesTo, Removing
  <2>4. ~raced' => \A q \in Resumers : pc'[q] \in ResumePcs => q = r
    BY <1>1, <2>1, <2>2, WritersAre DEF MovesTo
  <2>5. ResumeInv'
    BY <2>1, <2>3, <2>4, <2>7 DEF ResumeInv
  <2>6. RemovalInv' /\ OwnerInv' /\ FilesInv'
    BY <2>1, <2>3 DEF RemovalInv, OwnerInv, FilesInv
  <2> QED
    BY <2>5, <2>6 DEF RaceInv
<1>10. ASSUME NEW r \in Resumers, ResumeRegister(r) PROVE RaceInv'
  <2>1. /\ pc[r] = "register" /\ object' = r /\ dir' /\ "transcript" \in files'
        /\ UNCHANGED <<save, reaper, raced>>
    BY <1>10 DEF ResumeRegister, Register, OpenTranscript
  <2>2. MovesTo(r, "ok")
    BY <1>1, <1>10, GotoMoves DEF ResumeRegister, Pcs
  <2>3. ~raced => Writing = {} /\ ~Removing /\ \A q \in Resumers : pc[q] \in ResumePcs => q = r
    BY <2>1 DEF RaceInv, ResumeInv, ResumePcs
  <2>4. Writing' \subseteq Writing
    BY <1>1, <2>1, <2>2, MoveWriting DEF WritePcs
  <2>7. Removing' => Removing
    BY <2>1, <2>2, Apart DEF MovesTo, Removing
  <2>5. ~raced' => \A q \in Resumers : pc'[q] \notin ResumePcs
    BY <1>1, <2>1, <2>2, <2>3 DEF MovesTo, ResumePcs
  <2>6. ResumeInv' /\ RemovalInv' /\ OwnerInv' /\ FilesInv'
    BY <2>1, <2>3, <2>4, <2>5, <2>7 DEF ResumeInv, RemovalInv, OwnerInv, FilesInv
  <2> QED
    BY <2>6 DEF RaceInv
<1>11. ASSUME NEW u \in Users, GetMissing(u) \/ Patch(u) \/ Append(u) PROVE RaceInv'
  <2>1. PICK step \in {"notfound", "flush"} :
          Goto(u, step) /\ (step = "flush" => pc[u] \in {"held", "append"})
    BY <1>11 DEF GetMissing, Patch, Append
  <2>2. /\ step \in Pcs /\ step \notin ResumePcs /\ step \notin DeletePcs
        /\ step \in WritePcs => pc[u] \in WritePcs
    BY <2>1 DEF Pcs, WritePcs, ResumePcs, DeletePcs
  <2>3. /\ UNCHANGED <<object, holdVars, reaper, histVars>>
        /\ (dir => dir') /\ ("transcript" \in files => "transcript" \in files')
    BY <1>11 DEF GetMissing, Patch, Append, OpenTranscript
  <2> QED
    BY <1>1, <2>1, <2>2, <2>3, MoveCalm
<1>12. ASSUME NEW u \in Users, GetExpired(u) PROVE RaceInv'
  <2>1. Goto(u, "conflict") /\ UNCHANGED holdVars /\ object' = None /\ raced' = (raced \/ Resuming # {})
    BY <1>12 DEF GetExpired, Expel, Drop
  <2>2. Fewer
    BY <1>1, <2>1, MoveFewer DEF Pcs, WritePcs, ResumePcs
  <2> QED
    BY <2>1, <2>2, DropRace
<1>13. ASSUME NEW u \in Users, GetOk(u) PROVE RaceInv'
  <2>1. object \in Makers /\ UNCHANGED <<object, diskVars, save, reaper, raced>>
    BY <1>13 DEF GetOk, PlaceType
  <2>2. MovesTo(u, "held")
    BY <1>1, <1>13, GotoMoves DEF GetOk, Pcs
  <2>3. \A c \in Clients : holds'[c] = IF c = u THEN object ELSE holds[c]
    BY <1>13 DEF GetOk, PlaceType
  <2>4. Removing' => Removing
    BY <2>1, <2>2, Apart DEF MovesTo, Removing
  <2>5. ~raced => \A q \in Resumers : pc'[q] \notin ResumePcs
    BY <1>1, <2>1, <2>2, Apart DEF MovesTo, RaceInv, ResumeInv, ResumePcs
  <2>9. Writing' \subseteq Writing \cup {u}
    BY <2>1, <2>2, WritersAre DEF MovesTo, Saving
  <2>6. ~raced => \A c \in Writing' : holds'[c] = object
    BY <1>1, <2>1, <2>3, <2>9, Apart DEF RaceInv, OwnerInv, Writing, Saving
  <2>7. ResumeInv' /\ RemovalInv' /\ FilesInv'
    BY <2>1, <2>4, <2>5 DEF RaceInv, ResumeInv, RemovalInv, FilesInv
  <2>8. OwnerInv'
    BY <2>1, <2>6 DEF OwnerInv
  <2> QED
    BY <2>7, <2>8 DEF RaceInv
<1>14. ASSUME NEW c \in {Creator} \cup Users, FlushStep(c) PROVE RaceInv'
  <2>1. PICK step \in {"rename", "ok"} : Goto(c, step)
    BY <1>14 DEF FlushStep, FlushOpen, FlushRename
  <2>2. step \in Pcs /\ step \notin ResumePcs /\ step \notin DeletePcs /\ pc[c] \in WritePcs
    BY <1>14 DEF FlushStep, FlushOpen, FlushRename, Pcs, WritePcs, ResumePcs, DeletePcs
  <2>3. /\ UNCHANGED <<object, dir, holdVars, reaper, raced>>
        /\ "transcript" \in files => "transcript" \in files'
    BY <1>14 DEF FlushStep, FlushOpen, FlushRename, Place
  <2> QED
    BY <1>1, <2>1, <2>2, <2>3, MoveCalm
<1>15. ASSUME NEW d \in Deleters, DeleteMissing(d) \/ DeleteUnlink(d) \/ DeleteRmFails(d) \/ DeleteRmdir(d)
       PROVE  RaceInv'
  <2>1. PICK step \in {"notfound", "rmdir", "ok"} : Goto(d, step) /\ (step = "rmdir" => pc[d] = "unlink")
    BY <1>15 DEF DeleteMissing, DeleteUnlink, DeleteRmFails, DeleteRmdir
  <2>2. /\ step \in Pcs /\ step \notin ResumePcs /\ step \notin WritePcs
        /\ step \in DeletePcs => pc[d] \in DeletePcs
    BY <2>1 DEF Pcs, WritePcs, ResumePcs, DeletePcs
  <2>3. /\ UNCHANGED <<object, holdVars, reaper, raced>>
        /\ UNCHANGED diskVars \/ Removing
    BY <1>15 DEF DeleteMissing, DeleteUnlink, DeleteRmFails, DeleteRmdir, Removing
  <2>4. ~raced /\ object' # None => UNCHANGED diskVars
    BY <2>3 DEF RaceInv, RemovalInv
  <2> QED
    BY <1>1, <2>1, <2>2, <2>3, <2>4, MoveCalm
<1>16. ASSUME NEW d \in Deleters, DeleteStart(d) PROVE RaceInv'
  <2>1. Goto(d, "unlink") /\ UNCHANGED holdVars /\ object' = None /\ raced' = (raced \/ Resuming # {})
    BY <1>16 DEF DeleteStart, AfterDrop, Drop
  <2>2. Fewer
    BY <1>1, <2>1, MoveFewer DEF Pcs, WritePcs, ResumePcs
  <2> QED
    BY <2>1, <2>2, DropRace
<1>17. ASSUME NEW u \in Users, Exec(u) PROVE RaceInv'
  <2>1. /\ pc[u] = "held" /\ Goto(u, "append")
        /\ UNCHANGED <<object, diskVars, holds, reaper, raced>>
    BY <1>17 DEF Exec
  <2>2. MovesTo(u, "append")
    BY <1>1, <2>1, GotoMoves DEF Pcs
  <2>3. Saving' \subseteq Saving \cup {u}
    BY <1>17 DEF Exec, Saving, PlaceType
  <2>4. Writing' \subseteq Writing
    BY <1>1, <2>1, <2>2, <2>3, WritersAre DEF MovesTo, WritePcs
  <2>5. Fewer
    BY <1>1, <2>1, <2>2, <2>4 DEF Fewer, MovesTo, ResumePcs
  <2>6. Removing' => Removing
    BY <2>1, <2>2, Apart DEF MovesTo, Removing
  <2> QED
    BY <2>1, <2>5, <2>6, CalmRace DEF Calm
<1>18. ASSUME NEW u \in Users, SaveStep(u) PROVE RaceInv'
  <2>1. /\ UNCHANGED <<object, dir, pc, holds, reaper, raced>>
        /\ "transcript" \in files => "transcript" \in files'
    BY <1>18 DEF SaveStep, SaveOpen, SaveRename, Place
  <2>2. Saving' \subseteq Saving
    BY <1>18 DEF SaveStep, SaveOpen, SaveGoto, SaveRename, Saving, PlaceType
  <2>3. Fewer
    BY <2>1, <2>2, StillWriting
  <2> QED
    BY <2>1, <2>3, CalmRace DEF Calm, Removing
<1> QED
  BY <1>2, <1>3, <1>4, <1>5, <1>6, <1>7, <1>8, <1>9, <1>10, <1>11, <1>12, <1>13, <1>14, <1>15, <1>16,
     <1>17, <1>18
  DEF Next, ResumeStep, UseStep, DeleteStep
-----------------------------------------------------------------------------
(* An honest delete. *)

\* No delete that counts is under way or over.
NoDelete == \A d \in Deleters : pc[d] \notin DeletePcs \cup {"ok"}

\* That is so while there is an object, a writer, a reaper, a resume past its
\* read, or a create that is not answered.
LEMMA NothingDeleted ==
  ASSUME CreateInv, DeleteInv, ~raced, ~spoiled,
         \/ object # None \/ Writing # {} \/ reaper # "idle" \/ pc[Creator] # "ok"
         \/ \E r \in Resumers : pc[r] = "register"
  PROVE  NoDelete
<1>1. CASE pc[Creator] # "ok"
  BY <1>1, Apart DEF CreateInv, NoDelete, DeletePcs
<1> QED
  BY <1>1 DEF DeleteInv, NoDelete

\* Then a step that moves no delete leaves it so.
LEMMA StaysUndeleted ==
  ASSUME CreateInv, DeleteInv, raced => raced', spoiled => spoiled',
         ~raced /\ ~spoiled => NoDelete,
         \A d \in Deleters : pc'[d] \in DeletePcs \cup {"ok"} => pc[d] \in DeletePcs \cup {"ok"}
  PROVE  DeleteInv'
BY DEF DeleteInv, NoDelete, DeletePcs

\* A step that brings nothing back.
LEMMA DeleteCalm ==
  ASSUME DeleteInv, raced => raced', spoiled => spoiled',
         object' \in {object, None}, Writing' \subseteq Writing, reaper' \in {reaper, "idle"},
         \A r \in Resumers : pc'[r] = "register" => pc[r] = "register",
         \A d \in Deleters : pc'[d] \in DeletePcs \cup {"ok"} => pc'[d] = pc[d],
         UNCHANGED <<dir, files>>
  PROVE  DeleteInv'
BY DEF DeleteInv, DeletePcs

LEMMA NextDelete ==
  ASSUME PlaceType, DiskType, FlagType, crashes \in Nat, RoleInv, CreateInv, RaceInv, DeleteInv, [Next]_vars
  PROVE  DeleteInv'
<1> USE DEF diskVars, holdVars, histVars
<1>1. (raced => raced') /\ (spoiled => spoiled')
  BY NextFlag
<1>2. Creator \in Clients /\ Resumers \subseteq Clients /\ Deleters \subseteq Clients /\ Users \subseteq Clients
  BY Apart
\* A step of somebody else.
<1>3. ASSUME NEW c \in Clients \ Deleters, NEW step \in Pcs, Goto(c, step)
      PROVE  \A d \in Deleters : pc'[d] = pc[d]
  <2>1. MovesTo(c, step)
    BY <1>3, GotoMoves
  <2> QED
    BY <1>2, <2>1 DEF MovesTo
<1>4. ASSUME UNCHANGED pc \/ \E c \in Clients \ Deleters, step \in Pcs : Goto(c, step),
             ~raced /\ ~spoiled => NoDelete
      PROVE  DeleteInv'
  BY <1>1, <1>3, <1>4, StaysUndeleted
<1>5. CASE CreateStep
  <2>1. CreateMove /\ pc[Creator] # "ok"
    BY <1>5 DEF CreateStep, CreateStart, CwdAccepted, CwdRejected, CatalogReady, CatalogFails, McpConnect,
       McpFails, CreateRegister, CreateThrows, Abandon, CreateMove, Early
  <2>2. UNCHANGED pc \/ \E c \in Clients \ Deleters, step \in Pcs : Goto(c, step)
    BY <2>1, Apart DEF CreateMove, Early, Pcs
  <2> QED
    BY <1>4, <2>1, <2>2, NothingDeleted
<1>6. CASE Expire \/ UNCHANGED vars
  <2>1. UNCHANGED <<object, pc, reaper, dir, files>> /\ Writing' = Writing
    BY <1>6 DEF Expire, vars, Writing, Saving
  <2> QED
    BY <1>1, <2>1, DeleteCalm
<1>7. CASE SweepExpired \/ ReaperStep \/ ReaperFails
  <2>1. UNCHANGED pc /\ (object # None \/ reaper # "idle")
    BY <1>7 DEF SweepExpired, ReaperStep, ReaperFails
  <2> QED
    BY <1>4, <2>1, NothingDeleted
<1>8. CASE Crash
  <2>1. /\ \A r \in Resumers : pc'[r] = "register" => pc[r] = "register"
        /\ \A d \in Deleters : pc'[d] \in DeletePcs \cup {"ok"} => pc'[d] = pc[d]
    BY <1>2, <1>8, CrashMoves DEF DeletePcs
  <2>2. Writing' \subseteq Writing
    BY <1>8, CrashMoves, WritersAre DEF WritePcs, Crash, Saving
  <2> QED
    BY <1>1, <1>8, <2>1, <2>2, DeleteCalm DEF Crash
<1>9. ASSUME NEW c \in Clients, NEW step \in {"conflict", "notfound", "read"}, Goto(c, step),
             UNCHANGED <<object, dir, files, save, reaper>>
      PROVE  DeleteInv'
  <2>1. MovesTo(c, step)
    BY <1>9, GotoMoves DEF Pcs
  <2>2. Writing' \subseteq Writing
    BY <1>9, <2>1, MoveWriting DEF WritePcs
  <2>3. /\ \A r \in Resumers : pc'[r] = "register" => pc[r] = "register"
        /\ \A d \in Deleters : pc'[d] \in DeletePcs \cup {"ok"} => pc'[d] = pc[d]
    BY <1>2, <2>1 DEF MovesTo, DeletePcs
  <2> QED
    BY <1>1, <1>9, <2>2, <2>3, DeleteCalm
<1>10. ASSUME NEW r \in Resumers, ResumeStep(r) PROVE DeleteInv'
  <2>1. CASE ResumeConflict(r) \/ ResumeStart(r) \/ ResumeRefused(r)
    BY <1>2, <1>9, <2>1 DEF ResumeConflict, ResumeStart, ResumeRefused
  <2>2. CASE ResumeRead(r)
    <3>1. CASE "state" \notin files
      BY <1>2, <1>9, <2>2, <3>1 DEF ResumeRead
    <3>2. CASE "state" \in files
      <4>1. pc[r] = "read" /\ Goto(r, "register")
        BY <2>2, <3>2 DEF ResumeRead
      <4>2. ~raced => ~Removing
        BY <4>1 DEF RaceInv, ResumeInv, ResumePcs
      <4>3. ~raced /\ ~spoiled => NoDelete
        BY <3>2, <4>2 DEF DeleteInv, NoDelete, Removing, DeletePcs
      <4> QED
        BY <1>4, <4>1, <4>3, Apart DEF Pcs
    <3> QED
      BY <3>1, <3>2
  <2>3. CASE ResumeRegister(r) \/ ResumeThrows(r)
    <3>1. PICK step \in {"ok", "conflict"} : pc[r] = "register" /\ Goto(r, step)
      BY <2>3 DEF ResumeRegister, ResumeThrows
    <3>2. ~raced /\ ~spoiled => NoDelete
      BY <3>1, NothingDeleted
    <3> QED
      BY <1>4, <3>1, <3>2, Apart DEF Pcs
  <2> QED
    BY <1>10, <2>1, <2>2, <2>3 DEF ResumeStep
<1>11. ASSUME NEW u \in Users, UseStep(u) PROVE DeleteInv'
  <2>1. CASE GetMissing(u)
    BY <1>2, <1>9, <2>1 DEF GetMissing
  <2>2. CASE GetExpired(u) \/ GetOk(u) \/ Patch(u) \/ Exec(u) \/ Append(u)
    <3>1. PICK step \in {"conflict", "held", "append", "flush"} : Goto(u, step)
      BY <2>2 DEF GetExpired, GetOk, Patch, Exec, Append
    <3>2. object # None \/ Writing # {}
      BY <1>2, <2>2 DEF GetExpired, GetOk, Patch, Exec, Append, Writing
    <3>3. ~raced /\ ~spoiled => NoDelete
      BY <3>2, NothingDeleted
    <3> QED
      BY <1>4, <3>1, <3>3, Apart DEF Pcs
  <2> QED
    BY <1>11, <2>1, <2>2 DEF UseStep
<1>12. ASSUME NEW c \in {Creator} \cup Users, FlushStep(c) PROVE DeleteInv'
  <2>1. PICK step \in {"rename", "ok"} : Goto(c, step)
    BY <1>12 DEF FlushStep, FlushOpen, FlushRename
  <2>2. Writing # {}
    BY <1>2, <1>12 DEF FlushStep, FlushOpen, FlushRename, Writing
  <2>3. ~raced /\ ~spoiled => NoDelete
    BY <2>2, NothingDeleted
  <2> QED
    BY <1>4, <2>1, <2>3, Apart DEF Pcs
<1>13. ASSUME NEW d \in Deleters, DeleteStep(d) PROVE DeleteInv'
  <2>1. CASE DeleteMissing(d)
    BY <1>2, <1>9, <2>1 DEF DeleteMissing
  <2>2. CASE DeleteStart(d)
    <3>1. object # None /\ object' = None /\ Goto(d, "unlink") /\ UNCHANGED <<save, reaper, dir, files>>
      BY <2>2 DEF DeleteStart, Drop, AfterDrop
    <3>2. MovesTo(d, "unlink")
      BY <1>2, <3>1, GotoMoves DEF Pcs
    <3>3. ~raced' /\ ~spoiled' => ~raced /\ ~spoiled /\ Writing = {} /\ Resuming = {}
      BY <2>2 DEF DeleteStart, FlagType
    <3>4. ~raced => reaper = "idle"
      BY <3>1 DEF RaceInv, RemovalInv, Removing
    <3>5. Writing' \subseteq Writing
      BY <1>2, <3>1, <3>2, MoveWriting DEF WritePcs
    <3>6. Resuming = {} => \A r \in Resumers : pc'[r] # "register"
      BY <1>2, <3>2, WritersAre DEF MovesTo, ResumePcs
    <3>7. ~raced /\ ~spoiled => NoDelete
      BY <3>1, NothingDeleted
    <3>8. ~raced' /\ ~spoiled' => \A e \in Deleters : pc'[e] # "rmdir" /\ pc'[e] # "ok"
      BY <1>2, <3>2, <3>3, <3>7 DEF MovesTo, NoDelete, DeletePcs
    <3> QED
      BY <3>1, <3>3, <3>4, <3>5, <3>6, <3>8 DEF DeleteInv
  <2>3. CASE DeleteUnlink(d) \/ DeleteRmdir(d)
    <3>1. PICK step \in {"rmdir", "ok"} :
            /\ Goto(d, step)
            /\ step = "rmdir" => pc[d] = "unlink" /\ files' = {} /\ dir' = dir
            /\ step = "ok" => pc[d] = "rmdir" /\ files' = files /\ dir' = (files # {})
      BY <2>3 DEF DeleteUnlink, DeleteRmdir, Unlink, Rmdir
    <3>2. UNCHANGED <<object, save, reaper, raced, spoiled>>
      BY <2>3 DEF DeleteUnlink, DeleteRmdir
    <3>3. MovesTo(d, step)
      BY <1>2, <3>1, GotoMoves DEF Pcs
    <3> SUFFICES ASSUME ~raced, ~spoiled PROVE DeleteInv'
      BY <3>2 DEF DeleteInv
    <3>4. /\ object = None /\ Writing = {} /\ reaper = "idle" /\ \A r \in Resumers : pc[r] # "register"
          /\ pc[d] = "rmdir" => files = {}
      BY <3>1 DEF DeleteInv, DeletePcs
    <3>8. Writing' \subseteq Writing
      BY <1>2, <3>2, <3>3, MoveWriting DEF WritePcs
    <3>5. Writing' = {} /\ \A r \in Resumers : pc'[r] # "register"
      BY <1>2, <3>3, <3>4, <3>8 DEF MovesTo
    <3>6. files' = {}
      BY <3>1, <3>4
    <3>7. ASSUME NEW e \in Deleters, pc'[e] = "ok" PROVE ~dir'
      <4>1. CASE e = d
        BY <1>2, <3>1, <3>3, <3>4, <3>7, <4>1 DEF MovesTo
      <4>2. CASE e # d
        <5>1. pc[e] = "ok"
          BY <1>2, <3>3, <3>7, <4>2 DEF MovesTo
        <5> QED
          BY <3>1, <5>1 DEF DeleteInv
      <4> QED
        BY <4>1, <4>2
    <3> QED
      BY <3>2, <3>4, <3>5, <3>6, <3>7 DEF DeleteInv
  <2>4. CASE DeleteRmFails(d)
    BY <2>4 DEF DeleteRmFails, RmFails, DeleteInv
  <2> QED
    BY <1>13, <2>1, <2>2, <2>3, <2>4 DEF DeleteStep
<1>14. ASSUME NEW u \in Users, SaveStep(u) PROVE DeleteInv'
  <2>1. UNCHANGED pc /\ Writing # {}
    BY <1>14 DEF SaveStep, SaveOpen, SaveRename, Writing, Saving
  <2> QED
    BY <1>4, <2>1, NothingDeleted
<1> QED
  BY <1>5, <1>6, <1>7, <1>8, <1>10, <1>11, <1>12, <1>13, <1>14 DEF Next
-----------------------------------------------------------------------------
(* The theorems. *)

LEMMA InitIInv == Init => IInv
<1> SUFFICES ASSUME Init PROVE IInv
  OBVIOUS
<1>1. \A c \in Clients : pc[c] = "idle"
  BY DEF Init
<1>2. PlaceType /\ DiskType /\ FlagType
  BY DEF Init, PlaceType, DiskType, FlagType, Pcs
<1>3. crashes \in Nat
  BY DEF Init
<1>4. Writing = {} /\ Saving = {} /\ ~Removing
  BY <1>1, Apart DEF Init, Writing, Saving, Removing
<1>5. RoleInv /\ CreateInv
  BY <1>1, <1>4, Apart DEF Init, RoleInv, CreateInv, Early, WritePcs, ResumePcs, DeletePcs
<1>6. ResumeInv /\ RemovalInv /\ OwnerInv /\ FilesInv /\ DeleteInv
  BY <1>1, <1>4, Apart DEF Init, ResumeInv, RemovalInv, OwnerInv, FilesInv, DeleteInv, ResumePcs, DeletePcs
<1> QED
  BY <1>2, <1>3, <1>5, <1>6 DEF IInv

LEMMA NextIInv == IInv /\ [Next]_vars => IInv'
<1> SUFFICES ASSUME IInv, [Next]_vars PROVE IInv'
  OBVIOUS
<1>1. PlaceType /\ DiskType /\ FlagType /\ crashes \in Nat /\ RoleInv /\ CreateInv /\ RaceInv /\ DeleteInv
  BY DEF IInv, RaceInv
<1>2. PlaceType' /\ DiskType'
  BY <1>1, NextPlace, NextDisk
<1>3. FlagType' /\ crashes' \in Nat
  BY <1>1, NextFlag
<1>4. RoleInv'
  BY <1>1, NextRole DEF CreateInv
<1>5. CreateInv' /\ RaceInv' /\ DeleteInv'
  BY <1>1, NextCreate, NextRace, NextDelete
<1> QED
  BY <1>2, <1>3, <1>4, <1>5 DEF IInv, RaceInv

LEMMA Invariance == Spec => []IInv
BY InitIInv, NextIInv, PTL DEF Spec

\* Every variable has its type, and no file is without its directory, in every
\* reachable state, for any requests and crashes.
THEOREM TypeCorrect == Spec => []TypeOK
<1>1. IInv => TypeOK
  BY DEF IInv, TypeOK, PlaceType, DiskType, FlagType, Pcs
<1> QED
  BY <1>1, Invariance, PTL

\* However many resumes, requests, saves and removals meet, and whichever of them
\* the file system fails, without one of the named races one object of the id
\* writes state.json and bounded-state.json, and the one in the Map has its
\* directory and transcript.
THEOREM OneOwner == Spec => []LiveOwnsFiles
<1>1. ASSUME IInv PROVE LiveOwnsFiles
  <2> DEFINE S == ({object} \cup {holds[c] : c \in Writing}) \ {None}
  <2>1. OwnerInv /\ FilesInv
    BY <1>1 DEF IInv
  <2>2. ASSUME ~raced PROVE S = {} \/ \E x : S = {x}
    <3>1. CASE object # None
      BY <2>1, <2>2, <3>1 DEF OwnerInv
    <3>2. CASE object = None /\ Writing = {}
      BY <3>2
    <3>3. CASE object = None /\ Writing # {}
      <4>1. PICK c \in Writing : TRUE
        BY <3>3
      <4>2. \A e \in Writing : holds[e] = holds[c]
        BY <2>1, <2>2 DEF OwnerInv
      <4>3. S \subseteq {holds[c]}
        BY <3>3, <4>2
      <4> QED
        BY <4>3
    <3> QED
      BY <3>1, <3>2, <3>3
  <2> HIDE DEF S
  <2>3. ASSUME ~raced PROVE Cardinality(S) <= 1
    <3>1. CASE S = {}
      BY <3>1, FS_EmptySet
    <3>2. ASSUME NEW x, S = {x} PROVE Cardinality(S) <= 1
      <4>1. Cardinality({x}) = 1
        BY FS_Singleton
      <4> QED
        BY <3>2, <4>1
    <3> QED
      BY <2>2, <2>3, <3>1, <3>2
  <2> QED
    BY <2>1, <2>3 DEF S, FilesInv, LiveOwnsFiles
<1> QED
  BY <1>1, Invariance, PTL

\* However many deletes, resumes, requests and saves there are, a 204 to a DELETE
\* that met no request and no save, and whose fsp.rm met no error, means that
\* neither the session nor its directory is left, then and for ever.
THEOREM DeleteIsHonest == Spec => []QuietDeleteHonest
<1>1. IInv => QuietDeleteHonest
  BY DEF IInv, DeleteInv, QuietDeleteHonest
<1> QED
  BY <1>1, Invariance, PTL
=============================================================================
