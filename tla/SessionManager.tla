--------------------------- MODULE SessionManager ---------------------------
(***************************************************************************)
(* The life of one session id in SessionManager (src/session/manager.ts):  *)
(* create, resume, get, delete and the expiry sweep, racing with requests  *)
(* that hold the session object across their awaits, and with crashes.     *)
(* A2E_SESSION_PERSISTENCE=true.                                           *)
(*                                                                         *)
(* A session object is named by the request that made it.  Recursive       *)
(* removal lists and unlinks the files, then removes the directory, which  *)
(* fails when a file appeared in between; any other error of the file      *)
(* system ends it half-way.  manager.ts ignores both failures.             *)
(*                                                                         *)
(* An exec of a bounded session leaves a write of bounded-state.json       *)
(* behind that nobody awaits (src/exec/pipeline-bounded.ts).               *)
(***************************************************************************)
EXTENDS Naturals, FiniteSets

CONSTANTS
  Creator,     \* POST /sessions
  Resumers,    \* POST /sessions/:id/resume
  Deleters,    \* DELETE /sessions/:id
  Users,       \* PATCH /sessions/:id/{cwd,env} and POST /sessions/:id/exec
  Servers,     \* the MCP servers the session connects to
  None,        \* no object
  MaxCrashes   \* bound: process crashes

Makers  == {Creator} \cup Resumers
Clients == Makers \cup Deleters \cup Users

ASSUME ConstantsAssumption ==
  /\ Creator \notin Resumers \cup Deleters \cup Users
  /\ Resumers \cap (Deleters \cup Users) = {}
  /\ Deleters \cap Users = {}
  /\ None \notin Makers
  /\ MaxCrashes \in Nat

VARIABLES
  object,    \* sessions.get(id): the object in the Map, or None
  dir,       \* the session directory exists
  files,     \* what it contains
  hasCatalog,\* the create request names a catalog
  conns,     \* open MCP clients of the created object
  expired,   \* expires_at lies in the past
  pc,        \* where each request is
  holds,     \* the object a request works on
  save,      \* the write of bounded-state.json that an exec asked for
  reaper,    \* the fire-and-forget removal started on expiry
  crashes,
  raced,     \* history: a resume overlapped another or a removal, or began
             \* while a request still held an object that left the Map
  spoiled    \* history: a request or a save held the object that was deleted,
             \* or a removal failed

diskVars == <<dir, files, hasCatalog>>
holdVars == <<holds, save>>
histVars == <<raced, spoiled>>
vars == <<object, diskVars, conns, expired, pc, holdVars, reaper, crashes, histVars>>

Init ==
  /\ object = None
  /\ dir = FALSE /\ files = {} /\ hasCatalog \in BOOLEAN
  /\ conns = {}
  /\ expired = FALSE
  /\ pc = [c \in Clients |-> "idle"]
  /\ holds = [c \in Clients |-> None]
  /\ save = [u \in Users |-> "none"]
  /\ reaper = "idle"
  /\ crashes = 0
  /\ raced = FALSE /\ spoiled = FALSE

Goto(c, step) == pc' = [pc EXCEPT ![c] = step]

\* Users whose save is waiting or being written.
Saving == {u \in Users : save[u] # "none"}

\* Requests that hold an object whose files they, or the save they asked for,
\* may still write.
Writing == {c \in Clients : pc[c] \in {"held", "append", "flush", "rename"}} \cup Saving

Removing == reaper # "idle" \/ \E d \in Deleters : pc[d] \in {"unlink", "rmdir"}

\* The client knows the id from the 201.
KnowsId == pc[Creator] = "ok"

Resuming == {r \in Resumers : pc[r] \in {"read", "register"}}
-----------------------------------------------------------------------------
(* create *)

\* mkdir of the session directory, the first change create makes.
CreateStart ==
  /\ pc[Creator] = "idle"
  /\ dir' = TRUE
  /\ Goto(Creator, "cwd")
  /\ UNCHANGED <<object, files, hasCatalog, conns, expired, holdVars, reaper, crashes, histVars>>

\* validateCwd accepts initial_cwd, or there is none.
CwdAccepted ==
  /\ pc[Creator] = "cwd"
  /\ Goto(Creator, "catalog")
  /\ UNCHANGED <<object, diskVars, conns, expired, holdVars, reaper, crashes, histVars>>

\* validateCwd throws: nothing is cleaned up.
CwdRejected ==
  /\ pc[Creator] = "cwd"
  /\ Goto(Creator, "badcwd")
  /\ UNCHANGED <<object, diskVars, conns, expired, holdVars, reaper, crashes, histVars>>

\* bootstrapCatalog succeeds, or there is no catalog.
CatalogReady ==
  /\ pc[Creator] = "catalog"
  /\ files' = IF hasCatalog THEN files \cup {"catalog"} ELSE files
  /\ Goto(Creator, "mcp")
  /\ UNCHANGED <<object, dir, hasCatalog, conns, expired, holdVars, reaper, crashes, histVars>>

\* fsp.rm fails half-way: some of the files are gone, the directory is not.
RmFails ==
  /\ files' \in SUBSET files
  /\ spoiled' = TRUE
  /\ UNCHANGED <<dir, hasCatalog>>

\* A failed create closes what it connected and wipes the directory.
Abandon ==
  /\ \/ dir' = FALSE /\ files' = {} /\ UNCHANGED <<hasCatalog, spoiled>>
     \/ RmFails
  /\ conns' = {}
  /\ Goto(Creator, "failed")

\* bootstrapCatalog throws.
CatalogFails ==
  /\ pc[Creator] = "catalog" /\ hasCatalog
  /\ Abandon
  /\ UNCHANGED <<object, expired, holdVars, reaper, crashes, raced>>

\* connectMcp for the next server of the request.
McpConnect(s) ==
  /\ pc[Creator] = "mcp" /\ s \notin conns
  /\ conns' = conns \cup {s}
  /\ UNCHANGED <<object, diskVars, expired, pc, holdVars, reaper, crashes, histVars>>

\* connectMcp throws.
McpFails ==
  /\ pc[Creator] = "mcp" /\ conns # Servers
  /\ Abandon
  /\ UNCHANGED <<object, expired, holdVars, reaper, crashes, raced>>

\* openTranscript makes the directory and the file if need be.
OpenTranscript ==
  /\ dir' = TRUE
  /\ files' = files \cup {"transcript"}
  /\ UNCHANGED hasCatalog

\* createSession and sessions.set: the new object replaces whatever is there.
Register(c) ==
  /\ OpenTranscript
  /\ object' = c
  /\ holds' = [holds EXCEPT ![c] = c]
  /\ UNCHANGED save

\* All servers are connected: the session is registered and its first
\* state.json is on its way.
CreateRegister ==
  /\ pc[Creator] = "mcp" /\ conns = Servers
  /\ Register(Creator)
  /\ Goto(Creator, "flush")
  /\ UNCHANGED <<conns, expired, reaper, crashes, histVars>>

\* openTranscript, which makes the directory and then the file, throws inside
\* createSession.
TranscriptFails ==
  /\ dir' = TRUE \/ UNCHANGED dir
  /\ UNCHANGED <<files, hasCatalog>>

\* Then neither the directory nor the connections are cleaned up.
CreateThrows ==
  /\ pc[Creator] = "mcp" /\ conns = Servers
  /\ TranscriptFails
  /\ Goto(Creator, "threw")
  /\ UNCHANGED <<object, conns, expired, holdVars, reaper, crashes, histVars>>
-----------------------------------------------------------------------------
(* resume *)

\* Mutant: a live session is not noticed.
IsLiveNever == FALSE

\* sessions.has(id)
IsLive == object # None

ResumeConflict(r) ==
  /\ pc[r] = "idle" /\ KnowsId /\ IsLive
  /\ Goto(r, "conflict")
  /\ UNCHANGED <<object, diskVars, conns, expired, holdVars, reaper, crashes, histVars>>

\* No live session: readState is called.
ResumeStart(r) ==
  /\ pc[r] = "idle" /\ KnowsId /\ ~IsLive
  /\ Goto(r, "read")
  /\ raced' = (raced \/ Resuming # {} \/ Removing \/ Writing # {})
  /\ UNCHANGED <<object, diskVars, conns, expired, holdVars, reaper, crashes, spoiled>>

\* readState finds state.json or fails.
ResumeRead(r) ==
  /\ pc[r] = "read"
  /\ Goto(r, IF "state" \in files THEN "register" ELSE "notfound")
  /\ UNCHANGED <<object, diskVars, conns, expired, holdVars, reaper, crashes, histVars>>

\* resume's catalog sanity check.
WorktreesExist == hasCatalog => "catalog" \in files

\* The run after the await: the expiry and catalog checks, then registration.
\* MCP servers are not connected again.
ResumeRegister(r) ==
  /\ pc[r] = "register"
  /\ ~expired /\ WorktreesExist
  /\ Register(r)
  /\ Goto(r, "ok")
  /\ UNCHANGED <<conns, expired, reaper, crashes, histVars>>

\* 409 for an expired session, 500 for missing catalog worktrees.
ResumeRefused(r) ==
  /\ pc[r] = "register"
  /\ expired \/ ~WorktreesExist
  /\ Goto(r, "conflict")
  /\ UNCHANGED <<object, diskVars, conns, expired, holdVars, reaper, crashes, histVars>>

\* createSession throws: 500.
ResumeThrows(r) ==
  /\ pc[r] = "register"
  /\ ~expired /\ WorktreesExist
  /\ TranscriptFails
  /\ Goto(r, "conflict")
  /\ UNCHANGED <<object, conns, expired, holdVars, reaper, crashes, histVars>>
-----------------------------------------------------------------------------
(* get, and a request that uses the session it returns *)

GetMissing(u) ==
  /\ pc[u] = "idle" /\ object = None /\ KnowsId
  /\ Goto(u, "notfound")
  /\ UNCHANGED <<object, diskVars, conns, expired, holdVars, reaper, crashes, histVars>>

\* The object leaves the Map.
Drop == object' = None

\* What get and sweepExpired do with an expired session: the removal of the
\* directory goes on by itself.
Expel ==
  /\ Drop
  /\ reaper' = "unlink"
  /\ raced' = (raced \/ Resuming # {})
  /\ UNCHANGED <<conns, spoiled>>

GetExpired(u) ==
  /\ pc[u] = "idle" /\ object # None /\ expired /\ KnowsId
  /\ Expel
  /\ Goto(u, "conflict")
  /\ UNCHANGED <<diskVars, expired, holdVars, crashes>>

GetOk(u) ==
  /\ pc[u] = "idle" /\ object # None /\ ~expired /\ KnowsId
  /\ holds' = [holds EXCEPT ![u] = object]
  /\ Goto(u, "held")
  /\ UNCHANGED <<object, diskVars, conns, expired, save, reaper, crashes, histVars>>

\* A PATCH has awaited its body and validateCwd; it now changes the object it
\* was given, in the Map or not, and waits for the flush.
Patch(u) ==
  /\ u \in Users /\ pc[u] = "held"
  /\ Goto(u, "flush")
  /\ UNCHANGED <<object, diskVars, conns, expired, holdVars, reaper, crashes, histVars>>

\* An exec has run its turn on that object and goes on to append to the
\* transcript.  The turn of a bounded session asks for a save.
Exec(u) ==
  /\ u \in Users /\ pc[u] = "held"
  /\ Goto(u, "append")
  /\ save' \in {save, [save EXCEPT ![u] = "open"]}
  /\ UNCHANGED <<object, diskVars, conns, expired, holds, reaper, crashes, histVars>>

\* appendTranscript writes to the file, making it, and when it rotates also the
\* directory, if it is gone; or it fails.  A request that failed is answered,
\* but nextTurn has set the flush going.
Append(u) ==
  /\ u \in Users /\ pc[u] = "append"
  /\ OpenTranscript \/ UNCHANGED diskVars
  /\ Goto(u, "flush")
  /\ UNCHANGED <<object, conns, expired, holdVars, reaper, crashes, histVars>>

\* rename of a staged file to its place; without the staged file, or on any
\* other error, it fails.
Place(staged, target) ==
  \/ staged \in files /\ files' = (files \ {staged}) \cup {target}
  \/ UNCHANGED files

\* The saves of one object run one after the other, and those that wait are
\* merged into one.
Merged(u) == {v \in Users \ {u} : save[v] = "open" /\ holds[v] = holds[u]}

SaveGoto(u, step) ==
  save' = [v \in Users |-> IF v = u THEN step ELSE IF v \in Merged(u) THEN "none" ELSE save[v]]

\* writeBoundedState opens bounded-state.json.tmp, or fails, as it must without a
\* directory.
SaveOpen(u) ==
  /\ save[u] = "open"
  /\ \A v \in Users : holds[v] = holds[u] => save[v] # "rename"
  /\ \/ dir /\ files' = files \cup {"btmp"} /\ SaveGoto(u, "rename")
     \/ UNCHANGED files /\ SaveGoto(u, "none")
  /\ UNCHANGED <<object, dir, hasCatalog, conns, expired, pc, holds, reaper, crashes, histVars>>

\* writeBoundedState renames the staged file, if it is still there, or fails.
SaveRename(u) ==
  /\ save[u] = "rename"
  /\ Place("btmp", "bounded")
  /\ save' = [save EXCEPT ![u] = "none"]
  /\ UNCHANGED <<object, dir, hasCatalog, conns, expired, pc, holds, reaper, crashes, histVars>>

\* writeState opens state.json.tmp, or fails, as it must without a directory; the
\* failure is logged and the request is answered all the same.
FlushOpen(c) ==
  /\ pc[c] = "flush"
  /\ \/ dir /\ files' = files \cup {"tmp"} /\ Goto(c, "rename")
     \/ UNCHANGED files /\ Goto(c, "ok")
  /\ UNCHANGED <<object, dir, hasCatalog, conns, expired, holdVars, reaper, crashes, histVars>>

\* writeState renames the staged file, if it is still there, or fails.
FlushRename(c) ==
  /\ pc[c] = "rename"
  /\ Place("tmp", "state")
  /\ Goto(c, "ok")
  /\ UNCHANGED <<object, dir, hasCatalog, conns, expired, holdVars, reaper, crashes, histVars>>
-----------------------------------------------------------------------------
(* delete and expiry *)

DeleteMissing(d) ==
  /\ pc[d] = "idle" /\ object = None /\ KnowsId
  /\ Goto(d, "notfound")
  /\ UNCHANGED <<object, diskVars, conns, expired, holdVars, reaper, crashes, histVars>>

\* Mutant: the removal is not awaited.
AfterDropNow == "ok"

\* delete goes on to await the removal of the directory.
AfterDrop == "unlink"

\* The object leaves the Map and its MCP clients are closed.
DeleteStart(d) ==
  /\ pc[d] = "idle" /\ object # None /\ KnowsId
  /\ Drop
  /\ conns' = IF object = Creator THEN {} ELSE conns
  /\ Goto(d, AfterDrop)
  /\ spoiled' = (spoiled \/ Writing # {})
  /\ raced' = (raced \/ Resuming # {})
  /\ UNCHANGED <<diskVars, expired, holdVars, reaper, crashes>>

\* fsp.rm lists the directory and unlinks what it found.
Unlink == files' = {} /\ UNCHANGED <<dir, hasCatalog>>

\* fsp.rm removes the directory, or fails because it is not empty.
Rmdir == dir' = (files # {}) /\ UNCHANGED <<files, hasCatalog>>

\* fsp.rm fails: 204 all the same.
DeleteRmFails(d) ==
  /\ d \in Deleters /\ pc[d] = "unlink"
  /\ RmFails
  /\ Goto(d, "ok")
  /\ UNCHANGED <<object, conns, expired, holdVars, reaper, crashes, raced>>

DeleteUnlink(d) ==
  /\ d \in Deleters /\ pc[d] = "unlink"
  /\ Unlink
  /\ Goto(d, "rmdir")
  /\ UNCHANGED <<object, conns, expired, holdVars, reaper, crashes, histVars>>

\* 204, whatever came of the removal.
DeleteRmdir(d) ==
  /\ d \in Deleters /\ pc[d] = "rmdir"
  /\ Rmdir
  /\ Goto(d, "ok")
  /\ UNCHANGED <<object, conns, expired, holdVars, reaper, crashes, histVars>>

Expire ==
  /\ ~expired /\ pc[Creator] # "idle"
  /\ expired' = TRUE
  /\ UNCHANGED <<object, diskVars, conns, pc, holdVars, reaper, crashes, histVars>>

\* sweepExpired, on its 60 s interval.
SweepExpired ==
  /\ object # None /\ expired
  /\ Expel
  /\ UNCHANGED <<diskVars, expired, pc, holdVars, crashes>>

ReaperStep ==
  /\ \/ reaper = "unlink" /\ Unlink /\ reaper' = "rmdir"
     \/ reaper = "rmdir" /\ Rmdir /\ reaper' = "idle"
  /\ UNCHANGED <<object, conns, expired, pc, holdVars, crashes, histVars>>

ReaperFails ==
  /\ reaper = "unlink" /\ RmFails
  /\ reaper' = "idle"
  /\ UNCHANGED <<object, conns, expired, pc, holdVars, crashes, raced>>

\* The process dies and is started again: only the files are left.
Crash ==
  /\ crashes < MaxCrashes
  /\ crashes' = crashes + 1
  /\ object' = None
  /\ conns' = {}
  /\ reaper' = "idle"
  /\ pc' = [c \in Clients |->
       IF pc[c] \in {"idle", "ok", "failed", "badcwd", "threw", "notfound", "conflict"}
       THEN pc[c] ELSE "lost"]
  /\ save' = [u \in Users |-> "none"]
  /\ UNCHANGED <<diskVars, expired, holds, histVars>>
-----------------------------------------------------------------------------
CreateStep ==
  \/ CreateStart \/ CwdAccepted \/ CwdRejected \/ CatalogReady \/ CatalogFails
  \/ (\E s \in Servers : McpConnect(s)) \/ McpFails \/ CreateRegister
  \/ CreateThrows

ResumeStep(r) ==
  \/ ResumeConflict(r) \/ ResumeStart(r) \/ ResumeRead(r)
  \/ ResumeRegister(r) \/ ResumeRefused(r) \/ ResumeThrows(r)

UseStep(u) ==
  GetMissing(u) \/ GetExpired(u) \/ GetOk(u) \/ Patch(u) \/ Exec(u) \/ Append(u)

SaveStep(u) == SaveOpen(u) \/ SaveRename(u)

FlushStep(c) == FlushOpen(c) \/ FlushRename(c)

DeleteStep(d) ==
  \/ DeleteMissing(d) \/ DeleteStart(d) \/ DeleteUnlink(d) \/ DeleteRmFails(d)
  \/ DeleteRmdir(d)

Next ==
  \/ CreateStep \/ Expire \/ SweepExpired \/ ReaperStep \/ ReaperFails \/ Crash
  \/ \E r \in Resumers : ResumeStep(r)
  \/ \E u \in Users : UseStep(u) \/ SaveStep(u)
  \/ \E d \in Deleters : DeleteStep(d)
  \/ \E c \in {Creator} \cup Users : FlushStep(c)

Spec == Init /\ [][Next]_vars
-----------------------------------------------------------------------------
(* Properties. *)

Entries == {"catalog", "transcript", "tmp", "state", "btmp", "bounded"}

\* Every variable has its type, and files are in a directory.
TypeOK ==
  /\ object \in Makers \cup {None}
  /\ dir \in BOOLEAN /\ files \subseteq Entries /\ hasCatalog \in BOOLEAN
  /\ files # {} => dir
  /\ conns \subseteq Servers
  /\ expired \in BOOLEAN
  /\ pc \in [Clients -> {"idle", "cwd", "catalog", "mcp", "badcwd", "failed", "threw",
                         "read", "register", "held", "append", "flush", "rename",
                         "unlink", "rmdir", "ok", "notfound", "conflict", "lost"}]
  /\ holds \in [Clients -> Makers \cup {None}]
  /\ save \in [Users -> {"none", "open", "rename"}]
  /\ reaper \in {"idle", "unlink", "rmdir"}
  /\ crashes \in Nat
  /\ raced \in BOOLEAN /\ spoiled \in BOOLEAN

\* Two objects of one id never write the same state.json or bounded-state.json,
\* and a session in the Map has its directory and transcript (no removal started
\* for an earlier object of the id hits it), as long as resumes do not overlap
\* each other, a removal, or a request or a save of a dropped session.
LiveOwnsFiles ==
  ~raced =>
    /\ Cardinality(({object} \cup {holds[c] : c \in Writing}) \ {None}) <= 1
    /\ object # None => dir /\ "transcript" \in files

\* A 204 is an honest "all gone" when the DELETE met neither a request that held
\* the session nor a save that one had left behind, and fsp.rm met no error of
\* the file system: nothing is left on disk and a resume finds nothing.
QuietDeleteHonest ==
  \A d \in Deleters :
    pc[d] = "ok" /\ ~raced /\ ~spoiled => object = None /\ ~dir
=============================================================================
