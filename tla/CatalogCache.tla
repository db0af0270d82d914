---------------------------- MODULE CatalogCache ----------------------------
(***************************************************************************)
(* The shared mirror of one catalog repository (src/catalog/cache.ts):     *)
(* worker processes that share A2E_CATALOG_CACHE_DIR, the requests of each *)
(* worker coalesced by its inFlight map, the lock file that keeps workers  *)
(* from cloning twice, the refresh, the worktrees of the sessions, and the *)
(* LRU sweep.  A2E_CATALOG_BOOTSTRAP_TIMEOUT_MS is below the ten minutes   *)
(* after which a lock is stale, so the lock of a clone that still runs is  *)
(* not.                                                                    *)
(*                                                                         *)
(* git is external: a command succeeds, fails, or is killed at its         *)
(* timeout, and needs a mirror directory, complete or not, to work in.     *)
(* runGit waits for `close', which a helper of git that holds the pipe can *)
(* put off after the kill.  A worker's git processes die with it.          *)
(***************************************************************************)
EXTENDS Naturals, FiniteSets

CONSTANTS
  Workers,     \* processes that share the cache directory
  Reqs,        \* calls of materialize for this repository
  WorkerOf,    \* the process each call is made in
  None,        \* no request
  MaxSweeps,   \* bound: sweeps of the cache
  MaxCrashes   \* bound: workers that die

ASSUME ConstantsAssumption ==
  /\ WorkerOf \in [Reqs -> Workers]
  /\ None \notin Reqs
  /\ MaxSweeps \in Nat
  /\ MaxCrashes \in Nat

VARIABLES
  home,       \* the directory of the repository exists
  mirror,     \* mirror.git in it: "absent", "partial" or "whole"
  worktrees,  \* requests whose worktree is registered in the mirror
  lock,       \* who created the .lock file, or None
  lockStale,  \* its mtime is more than MIRROR_LOCK_STALE_MS ago
  stuck,      \* a request left the file behind: it failed to write or remove it
  leader,     \* inFlight of each worker: the request whose promise it holds
  pc,         \* where each request is; "over" when it failed or its session ended
  late,       \* requests whose lock deadline has passed
  sweep,      \* where the sweep of each worker is
  sweeps, crashes,
  usurped,    \* history: two requests were about to steal the lock at once, or
              \* the lock of a request that still waits for git was stale
  evictRace,  \* history: a request was active during the removal of the mirror
  early       \* requests that succeeded with a worktree of a partial mirror

diskVars == <<home, mirror, worktrees>>
lockVars == <<lock, lockStale, stuck>>
sweepVars == <<sweep, sweeps>>
histVars == <<usurped, evictRace, early>>
vars == <<diskVars, lockVars, leader, pc, late, sweepVars, crashes, histVars>>

Init ==
  /\ home = FALSE /\ mirror = "absent" /\ worktrees = {}
  /\ lock = None /\ lockStale = FALSE /\ stuck = FALSE
  /\ leader = [w \in Workers |-> None]
  /\ pc = [r \in Reqs |-> "idle"]
  /\ late = {}
  /\ sweep = [w \in Workers |-> "idle"] /\ sweeps = 0
  /\ crashes = 0
  /\ usurped = FALSE /\ evictRace = FALSE /\ early = {}

\* Inside the lock: from the creation of the file to its removal.
Section ==
  {r \in Reqs : pc[r] \in {"opened", "spawned", "cloning", "hung", "unlockOk", "unlockErr"}}

\* Inside ensureMirror.
Ensuring ==
  Section \cup {r \in Reqs : pc[r] \in {"lock", "stat", "sleep", "steal", "fresh", "update"}}

\* Inside materialize.
Active == Ensuring \cup {r \in Reqs : pc[r] \in {"join", "resolve", "worktree"}}

Removing == \E w \in Workers : sweep[w] \in {"rm", "rmTree", "rmdir"}

Goto(r, step) == pc' = [pc EXCEPT ![r] = step]

\* The requests that wait for r's promise.
Joined(r) == {q \in Reqs : pc[q] = "join" /\ WorkerOf[q] = WorkerOf[r]}

\* The inFlight promise of r settles: its worker forgets it, and r and the
\* requests that joined it go on, or fail.
Settle(r, step) ==
  /\ leader' = [leader EXCEPT ![WorkerOf[r]] = None]
  /\ pc' = [q \in Reqs |-> IF q = r \/ q \in Joined(r) THEN step ELSE pc[q]]
-----------------------------------------------------------------------------
(* materialize and ensureMirror *)

\* inFlight.set
Lead(r) == [leader EXCEPT ![WorkerOf[r]] = r]

\* materializeViaMirror up to its first await: join the ensureMirror that is
\* running in this process or start one, which sees the mirror directory and
\* goes to its refresh, or makes its parent and goes for the lock.
Materialize(r) ==
  /\ pc[r] = "idle"
  /\ IF leader[WorkerOf[r]] # None
     THEN Goto(r, "join") /\ UNCHANGED <<leader, home>>
     ELSE /\ leader' = Lead(r)
          /\ IF mirror # "absent"
             THEN Goto(r, "fresh") /\ UNCHANGED home
             ELSE Goto(r, "lock") /\ home' = TRUE
  /\ evictRace' = (evictRace \/ Removing)
  /\ UNCHANGED <<mirror, worktrees, lockVars, late, sweepVars, crashes, usurped, early>>

\* acquireLock: open(lockPath, "wx").
OpenLock(r) ==
  /\ pc[r] = "lock" /\ home
  /\ IF lock = None
     THEN lock' = r /\ UNCHANGED <<lockStale, stuck>> /\ Goto(r, "opened")
     ELSE Goto(r, "stat") /\ UNCHANGED lockVars
  /\ UNCHANGED <<diskVars, leader, late, sweepVars, crashes, histVars>>

\* The open fails with another error than EEXIST: ensureMirror rejects.  The
\* directory may have been evicted since it was made.
OpenFails(r) ==
  /\ pc[r] = "lock"
  /\ Settle(r, "over")
  /\ late' = late \ {r}
  /\ UNCHANGED <<diskVars, lockVars, sweepVars, crashes, histVars>>

\* The lock's pid and time cannot be written: acquireLock throws and leaves the
\* file behind.
LockWriteFails(r) ==
  /\ pc[r] = "opened"
  /\ Settle(r, "over")
  /\ stuck' = (lock # None)
  /\ late' = late \ {r}
  /\ UNCHANGED <<diskVars, lock, lockStale, sweepVars, crashes, histVars>>

\* Mutant: the deadline is not looked at.
GivesUpNever(r) == FALSE

\* Date.now() > deadline
GivesUp(r) == r \in late

\* acquireLock: stat of a lock that is not stale.  TIMEOUT, or sleep.
WaitForLock(r) ==
  /\ pc[r] = "stat" /\ lock # None /\ ~lockStale
  /\ IF GivesUp(r)
     THEN Settle(r, "over") /\ late' = late \ {r}
     ELSE Goto(r, "sleep") /\ UNCHANGED <<leader, late>>
  /\ UNCHANGED <<diskVars, lockVars, sweepVars, crashes, histVars>>

\* MIRROR_LOCK_POLL_MS later: try again.
PollLock(r) ==
  /\ pc[r] = "sleep"
  /\ Goto(r, "lock")
  /\ UNCHANGED <<diskVars, lockVars, leader, late, sweepVars, crashes, histVars>>

\* acquireLock: the lock vanished between open and stat.
LockVanished(r) ==
  /\ pc[r] = "stat" /\ lock = None
  /\ Goto(r, "lock")
  /\ UNCHANGED <<diskVars, lockVars, leader, late, sweepVars, crashes, histVars>>

\* acquireLock: stat fails although the lock is there.  That is taken for a
\* lock that vanished, and the deadline is not looked at.
StatFails(r) ==
  /\ pc[r] = "stat" /\ lock # None
  /\ Goto(r, "lock")
  /\ UNCHANGED <<diskVars, lockVars, leader, late, sweepVars, crashes, histVars>>

\* Mutant: every lock in the way is taken for stale.
IsStaleAlways == TRUE

\* ageMs > MIRROR_LOCK_STALE_MS
IsStale == lockStale

\* acquireLock: the holder is taken for dead.
LockIsStale(r) ==
  /\ pc[r] = "stat" /\ lock # None /\ IsStale
  /\ Goto(r, "steal")
  /\ usurped' = (usurped \/ \E q \in Reqs : pc[q] = "steal")
  /\ UNCHANGED <<diskVars, lockVars, leader, late, sweepVars, crashes, evictRace, early>>

\* Removal of the lock file by name, whoever made it.
Unlink == lock' = None /\ lockStale' = FALSE /\ stuck' = FALSE

\* acquireLock: unlink the stale lock and try again.
StealLock(r) ==
  /\ pc[r] = "steal"
  /\ Unlink
  /\ Goto(r, "lock")
  /\ UNCHANGED <<diskVars, leader, late, sweepVars, crashes, histVars>>

\* The unlink fails, which is ignored: try again, and the deadline is not
\* looked at.
StealFails(r) ==
  /\ pc[r] = "steal" /\ lock # None
  /\ Goto(r, "lock")
  /\ UNCHANGED <<diskVars, lockVars, leader, late, sweepVars, crashes, histVars>>

\* The lock is written and closed: look again for the mirror, and spawn git
\* clone when it is still missing.
Locked(r) ==
  /\ pc[r] = "opened"
  /\ Goto(r, IF mirror = "absent" THEN "spawned" ELSE "unlockOk")
  /\ late' = late \ {r}
  /\ UNCHANGED <<diskVars, lockVars, leader, sweepVars, crashes, histVars>>

\* git clone --bare makes the mirror directory, or refuses because there is one.
CloneStart(r) ==
  /\ pc[r] = "spawned"
  /\ IF mirror = "absent"
     THEN home' = TRUE /\ mirror' = "partial" /\ Goto(r, "cloning")
     ELSE Goto(r, "unlockErr") /\ UNCHANGED <<home, mirror>>
  /\ UNCHANGED <<worktrees, lockVars, leader, late, sweepVars, crashes, histVars>>

\* git clone succeeds, if nobody removed what it was writing; the markers are
\* written, and a failure of that fails ensureMirror too.
CloneDone(r) ==
  /\ pc[r] = "cloning" /\ mirror # "absent"
  /\ mirror' = "whole"
  /\ Goto(r, "unlockOk") \/ Goto(r, "unlockErr")
  /\ UNCHANGED <<home, worktrees, lockVars, leader, late, sweepVars, crashes, histVars>>

\* git clone fails and removes what it made, or runGit kills it at its timeout
\* and what it made stays.
CloneFails(r) ==
  /\ pc[r] = "cloning"
  /\ \/ mirror' = "absent" /\ worktrees' = {}
     \/ UNCHANGED <<mirror, worktrees>>
  /\ Goto(r, "unlockErr")
  /\ UNCHANGED <<home, lockVars, leader, late, sweepVars, crashes, histVars>>

\* runGit killed git at its timeout, `close' has not come, and ten minutes have
\* gone by since r made the lock.
CloneHangs(r) ==
  /\ pc[r] = "cloning" /\ lock = r
  /\ Goto(r, "hung")
  /\ lockStale' = TRUE
  /\ usurped' = TRUE
  /\ UNCHANGED <<diskVars, lock, stuck, leader, late, sweepVars, crashes, evictRace, early>>

\* `close' comes after all: TIMEOUT.
HungCloses(r) ==
  /\ pc[r] = "hung"
  /\ Goto(r, "unlockErr")
  /\ UNCHANGED <<diskVars, lockVars, leader, late, sweepVars, crashes, histVars>>

\* Mutant: the lock is given back on success only.
ReleaseLockOnSuccess(r) ==
  IF pc[r] = "unlockOk" THEN Unlink ELSE UNCHANGED lockVars

\* releaseLock, in the finally block; a failure to unlink is ignored.
ReleaseLock(r) ==
  \/ Unlink
  \/ stuck' = (lock # None) /\ UNCHANGED <<lock, lockStale>>

\* ensureMirror ends after a claim or a clone.
Release(r) ==
  /\ pc[r] \in {"unlockOk", "unlockErr"}
  /\ ReleaseLock(r)
  /\ Settle(r, IF pc[r] = "unlockOk" THEN "resolve" ELSE "over")
  /\ UNCHANGED <<diskVars, late, sweepVars, crashes, histVars>>

\* needsRefresh: the marker of a complete mirror is recent enough.
StillFresh(r) ==
  /\ pc[r] = "fresh" /\ mirror = "whole"
  /\ Settle(r, "resolve")
  /\ UNCHANGED <<diskVars, lockVars, late, sweepVars, crashes, histVars>>

\* needsRefresh: the marker is old, or there is none (yet, or any more).
NeedsRefresh(r) ==
  /\ pc[r] = "fresh"
  /\ Goto(r, "update")
  /\ UNCHANGED <<diskVars, lockVars, leader, late, sweepVars, crashes, histVars>>

\* git remote update --prune, and markRefreshed.
RemoteUpdate(r) ==
  /\ pc[r] = "update"
  /\ \/ mirror # "absent" /\ Settle(r, "resolve")
     \/ Settle(r, "over")
  /\ UNCHANGED <<diskVars, lockVars, late, sweepVars, crashes, histVars>>
-----------------------------------------------------------------------------
(* The rest of materialize: each request for itself. *)

\* rev-parse, or the fetch of a SHA with its retries.
ResolveSha(r) ==
  /\ pc[r] = "resolve"
  /\ \/ mirror # "absent" /\ Goto(r, "worktree")
     \/ Goto(r, "over")
  /\ UNCHANGED <<diskVars, lockVars, leader, late, sweepVars, crashes, histVars>>

\* git worktree add, and touchAccess.  A git that is killed may have registered
\* the worktree; the create that fails with it removes the directory.
AddWorktree(r) ==
  /\ pc[r] = "worktree"
  /\ \/ /\ mirror # "absent" /\ worktrees' = worktrees \cup {r} /\ Goto(r, "ok")
        /\ early' = IF mirror = "partial" THEN early \cup {r} ELSE early
     \/ /\ \/ mirror # "absent" /\ worktrees' = worktrees \cup {r}
           \/ UNCHANGED worktrees
        /\ Goto(r, "over") /\ UNCHANGED early
  /\ UNCHANGED <<home, mirror, lockVars, leader, late, sweepVars, crashes, usurped, evictRace>>

\* The session ends and its directory, with the worktree in it, goes.
DropSession(r) ==
  /\ pc[r] = "ok"
  /\ Goto(r, "over")
  /\ early' = early \ {r}
  /\ UNCHANGED <<diskVars, lockVars, leader, late, sweepVars, crashes, usurped, evictRace>>
-----------------------------------------------------------------------------
(* The sweep. *)

SweepTo(w, step) == sweep' = [sweep EXCEPT ![w] = step]

\* listMirrors finds the mirror, complete or not.
Listed == mirror # "absent"

\* doSweepInner: take the listed mirrors that are not in flight in this process.
SweepList(w) ==
  /\ sweep[w] = "idle" /\ sweeps < MaxSweeps
  /\ Listed /\ leader[w] = None
  /\ SweepTo(w, "prune")
  /\ sweeps' = sweeps + 1
  /\ UNCHANGED <<diskVars, lockVars, leader, pc, late, crashes, histVars>>

\* git worktree prune forgets the worktrees whose directory is gone.
Prunable == {r \in worktrees : pc[r] # "ok"}

\* pruneOne; a failure is ignored.
SweepPrune(w) ==
  /\ sweep[w] = "prune"
  /\ worktrees' \in {worktrees \ Prunable, worktrees}
  /\ SweepTo(w, "measure")
  /\ UNCHANGED <<home, mirror, lockVars, leader, pc, late, sweeps, crashes, histVars>>

\* The sizes, access times and worktrees: the cache is within its limit, the
\* mirror is in use, or it is a candidate.
SweepMeasure(w) ==
  /\ sweep[w] = "measure"
  /\ \/ SweepTo(w, "idle")
     \/ worktrees = {} /\ SweepTo(w, "decide")
  /\ UNCHANGED <<diskVars, lockVars, leader, pc, late, sweeps, crashes, histVars>>

\* The second look at inFlight.
SweepDecide(w) ==
  /\ sweep[w] = "decide"
  /\ SweepTo(w, IF leader[w] # None THEN "idle" ELSE "recheck")
  /\ UNCHANGED <<diskVars, lockVars, leader, pc, late, sweeps, crashes, histVars>>

\* Mutant: the first look is trusted.
InUseNever == FALSE

\* hasLiveWorktrees
InUse == worktrees # {}

\* The second look at the worktrees, after which the removal starts.
SweepRecheck(w) ==
  /\ sweep[w] = "recheck"
  /\ SweepTo(w, IF InUse THEN "idle" ELSE "rm")
  /\ evictRace' = (evictRace \/ (~InUse /\ Active # {}))
  /\ UNCHANGED <<diskVars, lockVars, leader, pc, late, sweeps, crashes, usurped, early>>

\* fsp.rm has begun: files of the mirror are missing.
SweepRemove(w) ==
  /\ sweep[w] = "rm"
  /\ mirror' = IF mirror = "absent" THEN "absent" ELSE "partial"
  /\ SweepTo(w, "rmTree")
  /\ UNCHANGED <<home, worktrees, lockVars, leader, pc, late, sweeps, crashes, histVars>>

\* fsp.rm has removed the mirror, and a lock file it found beside it.
SweepRemoveTree(w) ==
  /\ sweep[w] = "rmTree"
  /\ mirror' = "absent" /\ worktrees' = {}
  /\ Unlink \/ UNCHANGED lockVars
  /\ SweepTo(w, "rmdir")
  /\ UNCHANGED <<home, leader, pc, late, sweeps, crashes, histVars>>

\* fsp.rm fails half-way: logged, and the sweep goes on with what is left.
SweepFails(w) ==
  /\ sweep[w] \in {"rm", "rmTree"}
  /\ SweepTo(w, "idle")
  /\ UNCHANGED <<diskVars, lockVars, leader, pc, late, sweeps, crashes, histVars>>

\* Something was put into the directory while it was being emptied.
Refilled == mirror # "absent" \/ lock # None

\* fsp.rm removes the directory, or fails because it is not empty.
SweepRmdir(w) ==
  /\ sweep[w] = "rmdir"
  /\ home' = Refilled
  /\ SweepTo(w, "idle")
  /\ UNCHANGED <<mirror, worktrees, lockVars, leader, pc, late, sweeps, crashes, histVars>>
-----------------------------------------------------------------------------
(* Time and crashes. *)

DeadlinePasses(r) ==
  /\ pc[r] \in {"lock", "stat", "sleep", "steal"} /\ r \notin late
  /\ late' = late \cup {r}
  /\ UNCHANGED <<diskVars, lockVars, leader, pc, sweepVars, crashes, histVars>>

\* Ten minutes go by.  A holder that is alive has left the section before,
\* unless it hangs (CloneHangs).
LockAges ==
  /\ lock # None /\ ~lockStale /\ lock \notin Section
  /\ lockStale' = TRUE
  /\ UNCHANGED <<diskVars, lock, stuck, leader, pc, late, sweepVars, crashes, histVars>>

\* A worker dies; its sessions are resumed elsewhere, their worktrees stay.
Crash(w) ==
  /\ crashes < MaxCrashes
  /\ crashes' = crashes + 1
  /\ pc' = [r \in Reqs |-> IF WorkerOf[r] = w /\ pc[r] \notin {"ok", "over"}
                           THEN "dead" ELSE pc[r]]
  /\ leader' = [leader EXCEPT ![w] = None]
  /\ SweepTo(w, "idle")
  /\ late' = {r \in late : WorkerOf[r] # w}
  /\ UNCHANGED <<diskVars, lockVars, sweeps, histVars>>
-----------------------------------------------------------------------------
LockStep(r) ==
  \/ OpenLock(r) \/ OpenFails(r) \/ LockWriteFails(r) \/ WaitForLock(r) \/ PollLock(r)
  \/ LockVanished(r) \/ StatFails(r) \/ LockIsStale(r) \/ StealLock(r) \/ StealFails(r)
  \/ Locked(r) \/ Release(r)

FreshStep(r) == StillFresh(r) \/ NeedsRefresh(r)

\* The steps that wait for git, and the places where they do.
GitStep(r) ==
  \/ CloneStart(r) \/ CloneDone(r) \/ CloneFails(r) \/ CloneHangs(r) \/ HungCloses(r)
  \/ RemoteUpdate(r) \/ ResolveSha(r) \/ AddWorktree(r)

WaitsForGit(r) == pc[r] \in {"spawned", "cloning", "hung", "update", "resolve", "worktree"}

SweepStep(w) ==
  \/ SweepList(w) \/ SweepPrune(w) \/ SweepMeasure(w) \/ SweepDecide(w)
  \/ SweepRecheck(w) \/ SweepRemove(w) \/ SweepRemoveTree(w) \/ SweepFails(w)
  \/ SweepRmdir(w)

Next ==
  \/ \E r \in Reqs : \/ Materialize(r) \/ LockStep(r) \/ FreshStep(r) \/ GitStep(r)
                     \/ DropSession(r) \/ DeadlinePasses(r)
  \/ \E w \in Workers : SweepStep(w) \/ Crash(w)
  \/ LockAges

Spec == Init /\ [][Next]_vars

\* File operations settle, polls and deadlines come.  git need not end.
FairSpec ==
  /\ Spec
  /\ \A r \in Reqs : /\ WF_vars(LockStep(r) \/ FreshStep(r))
                     /\ WF_vars(DeadlinePasses(r))
-----------------------------------------------------------------------------
(* Properties. *)

\* Every variable has its type, and what is in the directory has a directory.
TypeOK ==
  /\ home \in BOOLEAN
  /\ mirror \in {"absent", "partial", "whole"}
  /\ worktrees \subseteq Reqs
  /\ mirror # "absent" \/ lock # None => home
  /\ worktrees # {} => mirror # "absent"
  /\ lock \in Reqs \cup {None} /\ lockStale \in BOOLEAN /\ stuck \in BOOLEAN
  /\ leader \in [Workers -> Reqs \cup {None}]
  /\ pc \in [Reqs -> {"idle", "join", "lock", "opened", "stat", "sleep", "steal", "spawned",
                      "cloning", "hung", "unlockOk", "unlockErr", "fresh", "update",
                      "resolve", "worktree", "ok", "over", "dead"}]
  /\ late \subseteq Reqs
  /\ sweep \in [Workers -> {"idle", "prune", "measure", "decide", "recheck", "rm",
                            "rmTree", "rmdir"}]
  /\ sweeps \in Nat /\ crashes \in Nat
  /\ usurped \in BOOLEAN /\ evictRace \in BOOLEAN /\ early \subseteq Reqs

\* In one process there is one ensureMirror at a time, and whoever waits, waits
\* for one that is running.  Across processes the lock keeps two requests from
\* cloning at once, also when a holder died and its lock was stolen, provided
\* that no two requests were stealing it at the same time, no sweep removed
\* the mirror of a request in progress, and no holder sat on a killed git past
\* the ten minutes.
CloneExclusion ==
  /\ \A r, s \in Ensuring : WorkerOf[r] = WorkerOf[s] => r = s
  /\ \A r \in Reqs : pc[r] = "join" => \E s \in Ensuring : WorkerOf[s] = WorkerOf[r]
  /\ ~usurped /\ ~evictRace => \A r, s \in Section : r = s

\* The lock file is there for a request in its critical section, for one that
\* died there, or for one whose acquireLock could not write it or whose
\* releaseLock could not remove it: every other way out of ensureMirror, the
\* failed clone included, removes it.
NoOrphanLock ==
  lock # None => lock \in Section \/ stuck \/ pc[lock] = "dead"

\* The sweep and failing clones take no mirror from under a session: when no
\* request was in progress while a mirror was being removed, a materialize that
\* succeeded has its worktree registered in a complete mirror, as long as the
\* session lives, unless git added the worktree to a mirror that was not.
AnswerKept ==
  ~evictRace =>
    \A r \in Reqs \ early : pc[r] = "ok" => r \in worktrees /\ mirror = "whole"

\* Every materialize comes to an end: the lock of a dead holder, a joined
\* request that fails and a lock that changes hands do not keep it for ever.
\* Two things do, in the request itself or in the one of its process that it
\* joined: a git that never closes, and a lock file that acquireLock can neither
\* look at nor remove, whose loop passes the deadline by.
MaterializeSettles ==
  \A r \in Reqs :
    \/ r \in Active ~> r \notin Active
    \/ \E s \in {q \in Reqs : WorkerOf[q] = WorkerOf[r]} :
         <>[]WaitsForGit(s) \/ []<><<StatFails(s) \/ StealFails(s)>>_vars
=============================================================================
