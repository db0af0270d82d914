------------------------- MODULE CatalogCacheProofs -------------------------
(***************************************************************************)
(* The shared mirror for any number of worker processes, requests, sweeps  *)
(* and crashes: one ensureMirror per process, one holder of the lock, no   *)
(* lock without its maker, and no mirror taken from under a session.       *)
(***************************************************************************)
EXTENDS CatalogCache, TLAPS

SecPcs == {"opened", "spawned", "cloning", "hung", "unlockOk", "unlockErr"}
EnsPcs == SecPcs \cup {"lock", "stat", "sleep", "steal", "fresh", "update"}
ActPcs == EnsPcs \cup {"join", "resolve", "worktree"}
Pcs == ActPcs \cup {"idle", "ok", "over", "dead"}
PastPcs == {"resolve", "worktree", "ok", "over", "dead"}

PlaceType ==
  /\ leader \in [Workers -> Reqs \cup {None}]
  /\ pc \in [Reqs -> Pcs]
  /\ sweep \in [Workers -> {"idle", "prune", "measure", "decide", "recheck", "rm", "rmTree", "rmdir"}]

DiskType ==
  /\ home \in BOOLEAN
  /\ mirror \in {"absent", "partial", "whole"}
  /\ worktrees \subseteq Reqs
  /\ mirror # "absent" \/ lock # None => home
  /\ worktrees # {} => mirror # "absent"
  /\ lock \in Reqs \cup {None} /\ lockStale \in BOOLEAN /\ stuck \in BOOLEAN

HistType ==
  /\ late \subseteq Reqs /\ early \subseteq Reqs
  /\ usurped \in BOOLEAN /\ evictRace \in BOOLEAN

CountType == sweeps \in Nat /\ crashes \in Nat

\* inFlight of a worker is the one request of it that is inside ensureMirror,
\* and whoever joined is joined to that one.
LeaderInv ==
  /\ \A w \in Workers : leader[w] # None => WorkerOf[leader[w]] = w /\ pc[leader[w]] \in EnsPcs
  /\ \A r \in Reqs : pc[r] \in EnsPcs => leader[WorkerOf[r]] = r
  /\ \A r \in Reqs : pc[r] = "join" => leader[WorkerOf[r]] # None

\* The maker of the lock file is in its section or past it, and has died in it
\* unless the file was left behind; but for a holder that hangs, the maker of
\* a stale one is not in the section.
MakerInv ==
  /\ lock # None => pc[lock] \in SecPcs \cup PastPcs
  /\ lock # None /\ ~stuck => pc[lock] \in SecPcs \/ pc[lock] = "dead"
  /\ lockStale => lock # None /\ (usurped \/ pc[lock] \notin SecPcs)

StuckInv == stuck => lock # None

\* Without a race of thieves, one steals at a time; without a race with the
\* sweep either, whoever is in the section made the lock that is there, and
\* the lock a thief looked at is still the stale one.
StealInv == ~usurped => \A r, s \in Reqs : pc[r] = "steal" /\ pc[s] = "steal" => r = s
HolderInv ==
  ~usurped /\ ~evictRace =>
    \A r \in Reqs : /\ pc[r] \in SecPcs => lock = r
                    /\ pc[r] = "steal" => lockStale

\* Without a race with the sweep, nobody is at work while the mirror is being
\* removed, and no session has its worktree there.
EvictInv ==
  ~evictRace /\ Removing =>
    \A r \in Reqs : pc[r] \notin ActPcs /\ (pc[r] = "ok" => r \in early)

\* Then one clone runs at a time, on a mirror that is not complete, and the
\* worktrees that were added to a complete mirror are still in it.
MirrorInv ==
  ~evictRace =>
    /\ \A r, s \in Reqs : pc[r] = "cloning" /\ pc[s] = "cloning" => r = s
    /\ \A r \in Reqs : pc[r] = "cloning" => mirror = "partial"
    /\ \A r \in Reqs \ early : pc[r] = "ok" => r \in worktrees /\ mirror = "whole"

IInv ==
  /\ PlaceType /\ DiskType /\ HistType /\ CountType
  /\ LeaderInv /\ MakerInv /\ StuckInv /\ StealInv /\ HolderInv /\ EvictInv /\ MirrorInv
-----------------------------------------------------------------------------
(* How steps move requests. *)

\* One request goes to a step.
MovesTo(r, step) == \A q \in Reqs : pc'[q] = IF q = r THEN step ELSE pc[q]

\* One request settles and takes those that joined it along.
SettlesTo(r, step) ==
  /\ \A q \in Reqs : pc'[q] = IF q = r \/ (pc[q] = "join" /\ WorkerOf[q] = WorkerOf[r])
                              THEN step ELSE pc[q]
  /\ \A w \in Workers : leader'[w] = IF w = WorkerOf[r] THEN None ELSE leader[w]

LEMMA GotoMoves ==
  ASSUME PlaceType, NEW r \in Reqs, NEW step \in Pcs, Goto(r, step)
  PROVE  MovesTo(r, step) /\ pc' \in [Reqs -> Pcs]
BY DEF PlaceType, Goto, MovesTo

LEMMA SettleMoves ==
  ASSUME PlaceType, NEW r \in Reqs, NEW step \in Pcs, Settle(r, step)
  PROVE  /\ SettlesTo(r, step) /\ pc' \in [Reqs -> Pcs]
         /\ leader' \in [Workers -> Reqs \cup {None}]
<1>1. \A q \in Reqs : pc'[q] = IF q = r \/ (pc[q] = "join" /\ WorkerOf[q] = WorkerOf[r])
                              THEN step ELSE pc[q]
  BY DEF Settle, Joined
<1>2. \A q \in Reqs : pc'[q] \in Pcs
  BY <1>1 DEF PlaceType
<1>3. pc' \in [Reqs -> Pcs]
  BY <1>2 DEF Settle
<1>4. WorkerOf[r] \in Workers
  BY ConstantsAssumption DEF ConstantsAssumption
<1>5. /\ \A w \in Workers : leader'[w] = IF w = WorkerOf[r] THEN None ELSE leader[w]
      /\ leader' \in [Workers -> Reqs \cup {None}]
  BY <1>4 DEF Settle, PlaceType
<1> QED
  BY <1>1, <1>3, <1>5 DEF SettlesTo

\* A step that moves one request inside ensureMirror.
Inside(r) ==
  /\ \E step \in EnsPcs : Goto(r, step)
  /\ pc[r] \in EnsPcs /\ UNCHANGED <<leader, sweep>>

\* A step that moves one request past ensureMirror.
Past(r) ==
  /\ \E step \in {"worktree", "ok", "over"} : Goto(r, step)
  /\ pc[r] \in {"resolve", "worktree", "ok"} /\ UNCHANGED <<leader, sweep>>

\* A step that ends ensureMirror.
Ends(r) ==
  /\ \E step \in {"resolve", "over"} : Settle(r, step)
  /\ pc[r] \in EnsPcs /\ UNCHANGED sweep

\* A step of a sweep, or of time.
Aside == UNCHANGED <<pc, leader>>

\* Every step is one of these.
LEMMA StepKinds ==
  ASSUME [Next]_vars
  PROVE  \/ \E r \in Reqs : Inside(r) \/ Past(r) \/ Ends(r) \/ Materialize(r)
         \/ \E w \in Workers : Crash(w)
         \/ Aside
<1>1. ASSUME NEW r \in Reqs, LockStep(r) PROVE Inside(r) \/ Ends(r)
  BY <1>1 DEF LockStep, OpenLock, OpenFails, LockWriteFails, WaitForLock, PollLock, LockVanished,
     StatFails, LockIsStale, StealLock, StealFails, Locked, Release, Inside, Ends, EnsPcs, SecPcs, sweepVars
<1>2. ASSUME NEW r \in Reqs, FreshStep(r) \/ GitStep(r) PROVE Inside(r) \/ Past(r) \/ Ends(r)
  BY <1>2 DEF FreshStep, GitStep, CloneStart, CloneDone, CloneFails, CloneHangs, HungCloses, StillFresh,
     NeedsRefresh, RemoteUpdate, ResolveSha, AddWorktree, Inside, Past, Ends, EnsPcs, SecPcs, sweepVars
<1>3. ASSUME NEW r \in Reqs, DropSession(r) PROVE Past(r)
  BY <1>3 DEF DropSession, Past, sweepVars
<1>4. ASSUME NEW r \in Reqs, DeadlinePasses(r) PROVE Aside
  BY <1>4 DEF DeadlinePasses, Aside, sweepVars
<1>5. ASSUME NEW w \in Workers, SweepStep(w) PROVE Aside
  BY <1>5 DEF SweepStep, SweepList, SweepPrune, SweepMeasure, SweepDecide, SweepRecheck, SweepRemove,
     SweepRemoveTree, SweepFails, SweepRmdir, Aside
<1>6. CASE LockAges \/ UNCHANGED vars
  BY <1>6 DEF LockAges, Aside, vars
<1> QED
  BY <1>1, <1>2, <1>3, <1>4, <1>5, <1>6 DEF Next
-----------------------------------------------------------------------------
(* One ensureMirror per process. *)

LEMMA NextPlace ==
  ASSUME PlaceType, LeaderInv, [Next]_vars
  PROVE  /\ leader' \in [Workers -> Reqs \cup {None}] /\ pc' \in [Reqs -> Pcs]
         /\ LeaderInv'
<1> DEFINE Goal == /\ leader' \in [Workers -> Reqs \cup {None}] /\ pc' \in [Reqs -> Pcs]
                   /\ LeaderInv'
<1>1. WorkerOf \in [Reqs -> Workers] /\ None \notin Reqs
  BY ConstantsAssumption DEF ConstantsAssumption
<1>2. ASSUME NEW r \in Reqs, Inside(r) PROVE Goal
  <2>1. PICK step \in EnsPcs : Goto(r, step)
    BY <1>2 DEF Inside
  <2>2. MovesTo(r, step) /\ pc' \in [Reqs -> Pcs]
    BY <2>1, GotoMoves DEF Pcs, ActPcs
  <2>3. UNCHANGED leader /\ pc[r] \in EnsPcs /\ step # "join"
    BY <1>2 DEF Inside, EnsPcs, SecPcs
  <2>4. LeaderInv'
    BY <1>1, <2>2, <2>3 DEF MovesTo, LeaderInv, PlaceType
  <2> QED
    BY <2>2, <2>3, <2>4 DEF PlaceType
<1>3. ASSUME NEW r \in Reqs, Past(r) PROVE Goal
  <2>1. PICK step \in {"worktree", "ok", "over"} : Goto(r, step)
    BY <1>3 DEF Past
  <2>2. MovesTo(r, step) /\ pc' \in [Reqs -> Pcs]
    BY <2>1, GotoMoves DEF Pcs, ActPcs
  <2>3. UNCHANGED leader /\ pc[r] \notin EnsPcs /\ step \notin EnsPcs /\ step # "join"
    BY <1>3 DEF Past, EnsPcs, SecPcs
  <2>4. LeaderInv'
    BY <1>1, <2>2, <2>3 DEF MovesTo, LeaderInv, PlaceType
  <2> QED
    BY <2>2, <2>3, <2>4 DEF PlaceType
<1>4. ASSUME NEW r \in Reqs, Ends(r) PROVE Goal
  <2>1. PICK step \in {"resolve", "over"} : Settle(r, step)
    BY <1>4 DEF Ends
  <2>2. /\ SettlesTo(r, step) /\ pc' \in [Reqs -> Pcs]
        /\ leader' \in [Workers -> Reqs \cup {None}]
    BY <2>1, SettleMoves DEF Pcs, ActPcs
  <2>3. pc[r] \in EnsPcs /\ leader[WorkerOf[r]] = r
    BY <1>4 DEF Ends, LeaderInv
  <2>4. step \notin EnsPcs /\ step # "join" /\ "join" \notin EnsPcs
    BY DEF EnsPcs, SecPcs
  <2>5. \A w \in Workers : leader'[w] # None => WorkerOf[leader'[w]] = w /\ pc'[leader'[w]] \in EnsPcs
    <3> SUFFICES ASSUME NEW w \in Workers, leader'[w] # None
                 PROVE  WorkerOf[leader'[w]] = w /\ pc'[leader'[w]] \in EnsPcs
      OBVIOUS
    <3>1. leader'[w] = leader[w] /\ w # WorkerOf[r] /\ leader[w] \in Reqs
      BY <2>2 DEF SettlesTo, PlaceType
    <3>2. WorkerOf[leader[w]] = w /\ pc[leader[w]] \in EnsPcs
      BY <3>1 DEF LeaderInv
    <3>3. pc'[leader[w]] = pc[leader[w]]
      BY <2>2, <3>1, <3>2 DEF SettlesTo
    <3> QED
      BY <3>1, <3>2, <3>3
  <2>6. \A q \in Reqs : pc'[q] \in EnsPcs => leader'[WorkerOf[q]] = q
    <3> SUFFICES ASSUME NEW q \in Reqs, pc'[q] \in EnsPcs PROVE leader'[WorkerOf[q]] = q
      OBVIOUS
    <3>1. q # r /\ pc[q] \in EnsPcs
      BY <2>2, <2>4 DEF SettlesTo
    <3>2. leader[WorkerOf[q]] = q /\ WorkerOf[q] # WorkerOf[r]
      BY <2>3, <3>1 DEF LeaderInv
    <3> QED
      BY <1>1, <2>2, <3>2 DEF SettlesTo
  <2>7. \A q \in Reqs : pc'[q] = "join" => leader'[WorkerOf[q]] # None
    <3> SUFFICES ASSUME NEW q \in Reqs, pc'[q] = "join" PROVE leader'[WorkerOf[q]] # None
      OBVIOUS
    <3>1. pc[q] = "join" /\ WorkerOf[q] # WorkerOf[r]
      BY <2>2, <2>4 DEF SettlesTo
    <3> QED
      BY <1>1, <2>2, <3>1 DEF SettlesTo, LeaderInv
  <2> QED
    BY <2>2, <2>5, <2>6, <2>7 DEF LeaderInv
<1>5. ASSUME NEW r \in Reqs, Materialize(r) PROVE Goal
  <2>1. WorkerOf[r] \in Workers /\ pc[r] = "idle" /\ "idle" \notin EnsPcs /\ "join" \notin EnsPcs
    BY <1>1, <1>5 DEF Materialize, EnsPcs, SecPcs
  <2>2. CASE leader[WorkerOf[r]] # None
    <3>1. MovesTo(r, "join") /\ pc' \in [Reqs -> Pcs] /\ UNCHANGED leader
      BY <1>5, <2>2, GotoMoves DEF Materialize, Pcs, ActPcs
    <3>2. LeaderInv'
      BY <1>1, <2>1, <2>2, <3>1 DEF MovesTo, LeaderInv, PlaceType
    <3> QED
      BY <3>1, <3>2 DEF PlaceType
  <2>3. CASE leader[WorkerOf[r]] = None
    <3>1. PICK step \in {"fresh", "lock"} : Goto(r, step)
      BY <1>5, <2>3 DEF Materialize
    <3>2. MovesTo(r, step) /\ pc' \in [Reqs -> Pcs] /\ step \in EnsPcs /\ step # "join"
      BY <3>1, GotoMoves DEF Pcs, ActPcs, EnsPcs
    <3>3. /\ \A w \in Workers : leader'[w] = IF w = WorkerOf[r] THEN r ELSE leader[w]
          /\ leader' \in [Workers -> Reqs \cup {None}]
      BY <1>5, <2>1, <2>3 DEF Materialize, Lead, PlaceType
    <3>4. LeaderInv'
      <4>1. \A w \in Workers : leader'[w] # None => WorkerOf[leader'[w]] = w /\ pc'[leader'[w]] \in EnsPcs
        BY <2>1, <3>2, <3>3 DEF MovesTo, LeaderInv, PlaceType
      <4>2. \A q \in Reqs : pc'[q] \in EnsPcs => leader'[WorkerOf[q]] = q
        BY <1>1, <2>3, <3>2, <3>3 DEF MovesTo, LeaderInv
      <4>3. \A q \in Reqs : pc'[q] = "join" => leader'[WorkerOf[q]] # None
        BY <1>1, <3>2, <3>3 DEF MovesTo, LeaderInv
      <4> QED
        BY <4>1, <4>2, <4>3 DEF LeaderInv
    <3> QED
      BY <3>2, <3>3, <3>4
  <2> QED
    BY <2>2, <2>3
<1>6. ASSUME NEW w \in Workers, Crash(w) PROVE Goal
  <2>1. \A q \in Reqs : pc'[q] = IF WorkerOf[q] = w /\ pc[q] \notin {"ok", "over"}
                                 THEN "dead" ELSE pc[q]
    BY <1>6 DEF Crash
  <2>2. pc' \in [Reqs -> Pcs]
    BY <1>6 DEF Crash, PlaceType, Pcs
  <2>3. /\ \A v \in Workers : leader'[v] = IF v = w THEN None ELSE leader[v]
        /\ leader' \in [Workers -> Reqs \cup {None}]
    BY <1>6 DEF Crash, PlaceType
  <2>4. {"dead", "ok", "over"} \cap EnsPcs = {}
    BY DEF EnsPcs, SecPcs
  <2>5. \A v \in Workers : leader'[v] # None => WorkerOf[leader'[v]] = v /\ pc'[leader'[v]] \in EnsPcs
    BY <2>1, <2>3 DEF LeaderInv, PlaceType
  <2>6. \A q \in Reqs : pc'[q] \in EnsPcs => leader'[WorkerOf[q]] = q
    BY <1>1, <2>1, <2>3, <2>4 DEF LeaderInv
  <2>7. \A q \in Reqs : pc'[q] = "join" => leader'[WorkerOf[q]] # None
    BY <1>1, <2>1, <2>3 DEF LeaderInv
  <2> QED
    BY <2>2, <2>3, <2>5, <2>6, <2>7 DEF LeaderInv
<1>7. CASE Aside
  BY <1>7 DEF Aside, PlaceType, LeaderInv
<1> QED
  BY <1>2, <1>3, <1>4, <1>5, <1>6, <1>7, StepKinds
-----------------------------------------------------------------------------
(* One holder of the lock. *)

LockInv == MakerInv /\ StuckInv /\ StealInv /\ HolderInv

\* A step that leaves the lock file, takes nobody into the section or among
\* the thieves, and lets nobody out of the section but to die or to leave the
\* file behind.
Keeps ==
  /\ lock' = lock /\ lockStale' = lockStale
  /\ ~stuck' => ~stuck
  /\ stuck' => stuck \/ lock # None
  /\ \A q \in Reqs : /\ pc'[q] \in SecPcs => pc[q] \in SecPcs
                     /\ pc'[q] = "steal" => pc[q] = "steal"
                     /\ pc[q] = "dead" => pc'[q] = "dead"
                     /\ pc[q] \in PastPcs => pc'[q] \in PastPcs
                     /\ pc[q] \in SecPcs => \/ pc'[q] \in SecPcs \/ pc'[q] = "dead"
                                            \/ pc'[q] \in PastPcs /\ (lock # None => stuck')
  /\ usurped => usurped'
  /\ evictRace => evictRace'

LEMMA KeepsLock ==
  ASSUME DiskType, LockInv, Keeps
  PROVE  LockInv'
<1>1. lock' = lock /\ lockStale' = lockStale /\ lock \in Reqs \cup {None}
  BY DEF Keeps, DiskType
<1>2. MakerInv'
  <2>1. lock # None => pc'[lock] \in SecPcs \cup PastPcs
    BY <1>1 DEF Keeps, LockInv, MakerInv, PastPcs
  <2>2. lock # None /\ ~stuck' => pc'[lock] \in SecPcs \/ pc'[lock] = "dead"
    BY <1>1 DEF Keeps, LockInv, MakerInv
  <2>3. lockStale => lock # None /\ (usurped' \/ pc'[lock] \notin SecPcs)
    BY <1>1 DEF Keeps, LockInv, MakerInv
  <2> QED
    BY <1>1, <2>1, <2>2, <2>3 DEF MakerInv
<1>3. StealInv' /\ HolderInv'
  BY <1>1 DEF Keeps, LockInv, StealInv, HolderInv
<1>4. StuckInv'
  BY <1>1 DEF Keeps, LockInv, StuckInv
<1> QED
  BY <1>2, <1>3, <1>4 DEF LockInv

\* The section is empty while a lock is stale or being stolen.
LEMMA SectionEmpty ==
  ASSUME LockInv, ~usurped, ~evictRace,
         lockStale \/ lock = None \/ \E r \in Reqs : pc[r] = "steal"
  PROVE  \A r \in Reqs : pc[r] \notin SecPcs
<1>1. None \notin Reqs
  BY ConstantsAssumption DEF ConstantsAssumption
<1>2. lockStale \/ lock = None
  BY DEF LockInv, HolderInv
<1>3. lockStale => pc[lock] \notin SecPcs
  BY DEF LockInv, MakerInv
<1> QED
  BY <1>1, <1>2, <1>3 DEF LockInv, HolderInv

LEMMA NextLock ==
  ASSUME PlaceType, DiskType, HistType, LeaderInv, LockInv, EvictInv, [Next]_vars
  PROVE  LockInv'
<1>1. None \notin Reqs /\ lock \in Reqs \cup {None} /\ lockStale \in BOOLEAN
  BY ConstantsAssumption DEF ConstantsAssumption, DiskType
<1> USE DEF histVars, lockVars
<1>2. ASSUME NEW r \in Reqs, NEW step \in Pcs, Goto(r, step),
             step \in SecPcs => pc[r] \in SecPcs, step # "steal", pc[r] # "dead",
             pc[r] \in SecPcs => step \in SecPcs, pc[r] \in PastPcs => step \in PastPcs,
             UNCHANGED lockVars, usurped => usurped', evictRace => evictRace'
      PROVE  LockInv'
  <2>1. MovesTo(r, step)
    BY <1>2, GotoMoves
  <2>2. Keeps
    BY <1>2, <2>1 DEF Keeps, MovesTo
  <2> QED
    BY <2>2, KeepsLock
<1>3. ASSUME NEW r \in Reqs, NEW step \in {"resolve", "over"}, Settle(r, step), pc[r] \in EnsPcs,
             pc[r] \in SecPcs => (lock # None => stuck'), ~stuck' => ~stuck,
             stuck' => stuck \/ lock # None,
             UNCHANGED <<lock, lockStale, usurped, evictRace>>
      PROVE  LockInv'
  <2>1. SettlesTo(r, step)
    BY <1>3, SettleMoves DEF Pcs, ActPcs
  <2>2. pc[r] # "dead" /\ pc[r] \notin PastPcs /\ step \in PastPcs /\ step \notin SecPcs /\ step # "steal"
    BY <1>3 DEF EnsPcs, SecPcs, PastPcs
  <2>3. {"join"} \cap (SecPcs \cup PastPcs) = {}
    BY DEF SecPcs, PastPcs
  <2>4. \A q \in Reqs : /\ pc'[q] \in SecPcs => pc[q] \in SecPcs
                        /\ pc'[q] = "steal" => pc[q] = "steal"
                        /\ pc[q] = "dead" => pc'[q] = "dead"
                        /\ pc[q] \in PastPcs => pc'[q] \in PastPcs
    BY <2>1, <2>2, <2>3 DEF SettlesTo
  <2>5. \A q \in Reqs : pc[q] \in SecPcs => pc'[q] \in SecPcs \/ (pc'[q] \in PastPcs /\ q = r)
    BY <2>1, <2>2, <2>3 DEF SettlesTo
  <2>6. Keeps
    BY <1>3, <2>4, <2>5 DEF Keeps
  <2> QED
    BY <2>6, KeepsLock
<1>4. ASSUME NEW r \in Reqs, Materialize(r) PROVE LockInv'
  <2>1. PICK step \in {"join", "fresh", "lock"} : Goto(r, step)
    BY <1>4 DEF Materialize
  <2> QED
    BY <1>2, <1>4, <2>1 DEF Materialize, Pcs, ActPcs, EnsPcs, SecPcs, PastPcs
<1>5. ASSUME NEW r \in Reqs, OpenLock(r) PROVE LockInv'
  <2>1. CASE lock = None
    <3>1. lock' = r /\ UNCHANGED lockStale /\ Goto(r, "opened") /\ UNCHANGED histVars /\ pc[r] = "lock"
      BY <1>5, <2>1 DEF OpenLock
    <3>2. MovesTo(r, "opened")
      BY <3>1, GotoMoves DEF Pcs, ActPcs, EnsPcs, SecPcs
    <3>3. MakerInv'
      <4>1. ~lockStale
        BY <2>1 DEF LockInv, MakerInv
      <4> QED
        BY <3>1, <3>2, <4>1 DEF MakerInv, MovesTo, SecPcs
    <3>4. StealInv'
      BY <3>1, <3>2 DEF LockInv, StealInv, MovesTo
    <3>5. HolderInv'
      <4> SUFFICES ASSUME ~usurped, ~evictRace, NEW q \in Reqs
                   PROVE  (pc'[q] \in SecPcs => lock' = q) /\ pc'[q] # "steal"
        BY <3>1 DEF HolderInv
      <4>1. \A s \in Reqs : pc[s] \notin SecPcs
        BY <2>1, SectionEmpty
      <4>2. \A s \in Reqs : pc[s] # "steal"
        BY <2>1 DEF LockInv, HolderInv, MakerInv
      <4> QED
        BY <3>1, <3>2, <4>1, <4>2 DEF MovesTo
    <3>6. StuckInv'
      BY <1>1, <3>1 DEF StuckInv
    <3> QED
      BY <3>3, <3>4, <3>5, <3>6 DEF LockInv
  <2>2. CASE lock # None
    BY <1>2, <1>5, <2>2 DEF OpenLock, Pcs, ActPcs, EnsPcs, SecPcs, PastPcs
  <2> QED
    BY <2>1, <2>2
<1>6. ASSUME NEW r \in Reqs, OpenFails(r) \/ LockWriteFails(r) \/ WaitForLock(r) PROVE LockInv'
  <2>1. CASE OpenFails(r)
    BY <1>3, <2>1 DEF OpenFails, EnsPcs, SecPcs
  <2>2. CASE LockWriteFails(r)
    <3>1. /\ pc[r] = "opened" /\ Settle(r, "over") /\ stuck' = (lock # None)
          /\ UNCHANGED <<lock, lockStale, histVars>>
      BY <2>2 DEF LockWriteFails
    <3>2. ~stuck' => ~stuck
      BY <3>1 DEF LockInv, StuckInv
    <3> QED
      BY <1>3, <3>1, <3>2 DEF EnsPcs, SecPcs
  <2>3. CASE WaitForLock(r) /\ GivesUp(r)
    BY <1>3, <2>3 DEF WaitForLock, EnsPcs, SecPcs
  <2>4. CASE WaitForLock(r) /\ ~GivesUp(r)
    BY <1>2, <2>4 DEF WaitForLock, Pcs, ActPcs, EnsPcs, SecPcs, PastPcs
  <2> QED
    BY <1>6, <2>1, <2>2, <2>3, <2>4
<1>7. ASSUME NEW r \in Reqs, \/ LockVanished(r) \/ StatFails(r) \/ PollLock(r) \/ StealFails(r)
                           \/ Locked(r)
      PROVE  LockInv'
  BY <1>2, <1>7 DEF LockVanished, StatFails, PollLock, StealFails, Locked, Pcs, ActPcs, EnsPcs, SecPcs, PastPcs
<1>8. ASSUME NEW r \in Reqs, LockIsStale(r) PROVE LockInv'
  <2>1. /\ pc[r] = "stat" /\ lockStale /\ Goto(r, "steal") /\ UNCHANGED <<lockVars, evictRace>>
        /\ usurped' = (usurped \/ \E q \in Reqs : pc[q] = "steal")
    BY <1>8 DEF LockIsStale, IsStale
  <2>2. MovesTo(r, "steal")
    BY <2>1, GotoMoves DEF Pcs, ActPcs, EnsPcs
  <2>3. MakerInv'
    BY <2>1, <2>2, <1>1 DEF LockInv, MakerInv, MovesTo, SecPcs, PastPcs
  <2>4. StealInv'
    BY <2>1, <2>2 DEF LockInv, StealInv, MovesTo
  <2>5. HolderInv' /\ StuckInv'
    BY <2>1, <2>2 DEF LockInv, HolderInv, StuckInv, MovesTo, SecPcs
  <2> QED
    BY <2>3, <2>4, <2>5 DEF LockInv
\* The lock file is removed while nobody else relies on it.
<1>9. ASSUME lock' = None, lockStale' = FALSE, stuck' = FALSE, usurped => usurped', evictRace => evictRace',
             \A q \in Reqs : pc'[q] = "steal" => pc[q] = "steal",
             ~usurped /\ ~evictRace => \A q \in Reqs : pc'[q] \notin SecPcs /\ pc'[q] # "steal"
      PROVE  LockInv'
  BY <1>9 DEF LockInv, MakerInv, StuckInv, StealInv, HolderInv
<1>10. ASSUME NEW r \in Reqs, StealLock(r) PROVE LockInv'
  <2>1. pc[r] = "steal" /\ lock' = None /\ lockStale' = FALSE /\ stuck' = FALSE /\ UNCHANGED histVars
    BY <1>10 DEF StealLock, Unlink
  <2>2. MovesTo(r, "lock")
    BY <1>10, GotoMoves DEF StealLock, Pcs, ActPcs, EnsPcs
  <2>3. ~usurped /\ ~evictRace => \A q \in Reqs : pc[q] \notin SecPcs /\ (pc[q] = "steal" => q = r)
    BY <2>1, SectionEmpty DEF LockInv, StealInv
  <2> QED
    BY <1>9, <2>1, <2>2, <2>3 DEF MovesTo, SecPcs
<1>11. ASSUME NEW r \in Reqs, Release(r) PROVE LockInv'
  <2>1. pc[r] \in SecPcs /\ pc[r] \in EnsPcs /\ UNCHANGED histVars
    BY <1>11 DEF Release, EnsPcs, SecPcs
  <2>2. PICK step \in {"resolve", "over"} : Settle(r, step)
    BY <1>11 DEF Release
  <2>3. SettlesTo(r, step)
    BY <2>2, SettleMoves DEF Pcs, ActPcs
  <2>4. ~usurped /\ ~evictRace => \A q \in Reqs : pc[q] # "steal" /\ (pc[q] \in SecPcs => q = r)
    BY <2>1, SectionEmpty DEF LockInv, HolderInv
  <2>5. ~usurped /\ ~evictRace => \A q \in Reqs : pc'[q] \notin SecPcs /\ pc'[q] # "steal"
    BY <2>3, <2>4 DEF SettlesTo, SecPcs
  <2>6. \A q \in Reqs : pc'[q] = "steal" => pc[q] = "steal"
    BY <2>3 DEF SettlesTo
  <2>7. CASE Unlink
    BY <1>9, <2>1, <2>5, <2>6, <2>7 DEF Unlink
  <2>8. CASE stuck' = (lock # None) /\ UNCHANGED <<lock, lockStale>>
    <3>1. ~stuck' => ~stuck
      BY <2>8 DEF LockInv, StuckInv
    <3> QED
      BY <1>3, <2>1, <2>2, <2>8, <3>1
  <2> QED
    BY <1>11, <2>7, <2>8 DEF Release, ReleaseLock
<1>12. ASSUME NEW r \in Reqs, CloneStart(r) \/ CloneDone(r) \/ CloneFails(r) \/ HungCloses(r)
       PROVE  LockInv'
  <2>1. PICK step \in SecPcs : Goto(r, step)
    BY <1>12 DEF CloneStart, CloneDone, CloneFails, HungCloses, SecPcs
  <2>2. pc[r] \in SecPcs /\ UNCHANGED <<lockVars, histVars>>
    BY <1>12 DEF CloneStart, CloneDone, CloneFails, HungCloses, SecPcs
  <2> QED
    BY <1>2, <2>1, <2>2 DEF Pcs, ActPcs, EnsPcs, SecPcs, PastPcs
<1>13. ASSUME NEW r \in Reqs, StillFresh(r) \/ RemoteUpdate(r) PROVE LockInv'
  BY <1>3, <1>13 DEF StillFresh, RemoteUpdate, EnsPcs, SecPcs
<1>14. ASSUME NEW r \in Reqs, NeedsRefresh(r) \/ ResolveSha(r) \/ AddWorktree(r) \/ DropSession(r)
       PROVE  LockInv'
  <2>1. PICK step \in {"update", "worktree", "ok", "over"} :
          Goto(r, step) /\ (step = "update" => pc[r] = "fresh")
    BY <1>14 DEF NeedsRefresh, ResolveSha, AddWorktree, DropSession
  <2>2. pc[r] \in {"fresh", "resolve", "worktree", "ok"} /\ UNCHANGED <<lockVars, usurped, evictRace>>
    BY <1>14 DEF NeedsRefresh, ResolveSha, AddWorktree, DropSession
  <2> QED
    BY <1>2, <2>1, <2>2 DEF Pcs, ActPcs, EnsPcs, SecPcs, PastPcs
<1>15. ASSUME NEW w \in Workers, Crash(w) PROVE LockInv'
  <2>1. \A q \in Reqs : pc'[q] = IF WorkerOf[q] = w /\ pc[q] \notin {"ok", "over"}
                                 THEN "dead" ELSE pc[q]
    BY <1>15 DEF Crash
  <2>2. Keeps
    BY <1>15, <2>1 DEF Crash, Keeps, SecPcs, PastPcs
  <2> QED
    BY <2>2, KeepsLock
<1>16. ASSUME NEW r \in Reqs, DeadlinePasses(r) PROVE LockInv'
  BY <1>16, KeepsLock DEF DeadlinePasses, Keeps
<1>17. ASSUME NEW w \in Workers, SweepStep(w) PROVE LockInv'
  <2>1. CASE SweepRemoveTree(w) /\ Unlink
    <3>1. Removing /\ UNCHANGED <<pc, histVars>> /\ lock' = None /\ lockStale' = FALSE /\ stuck' = FALSE
      BY <2>1 DEF SweepRemoveTree, Removing, Unlink
    <3>2. ~evictRace => \A q \in Reqs : pc[q] \notin SecPcs /\ pc[q] # "steal"
      BY <3>1 DEF EvictInv, ActPcs, EnsPcs
    <3> QED
      BY <1>9, <3>1, <3>2
  <2>2. CASE UNCHANGED <<pc, lockVars, usurped>> /\ (evictRace => evictRace')
    BY <2>2, KeepsLock DEF Keeps
  <2>3. CASE SweepRemoveTree(w)
    BY <2>1, <2>2, <2>3 DEF SweepRemoveTree
  <2>4. CASE SweepRecheck(w)
    BY <2>2, <2>4 DEF SweepRecheck
  <2>5. CASE SweepList(w) \/ SweepPrune(w) \/ SweepMeasure(w) \/ SweepDecide(w) \/ SweepRemove(w) \/ SweepFails(w) \/ SweepRmdir(w)
    BY <2>2, <2>5 DEF SweepList, SweepPrune, SweepMeasure, SweepDecide, SweepRemove, SweepFails, SweepRmdir
  <2> QED
    BY <1>17, <2>3, <2>4, <2>5 DEF SweepStep
<1>18. CASE LockAges
  <2>1. lock # None /\ lock \in Reqs /\ pc[lock] \notin SecPcs
    BY <1>1, <1>18 DEF LockAges, Section, SecPcs
  <2>2. lock' = lock /\ lockStale' = TRUE /\ UNCHANGED <<pc, stuck, histVars>>
    BY <1>18 DEF LockAges
  <2>3. MakerInv'
    BY <2>1, <2>2 DEF LockInv, MakerInv
  <2>4. StealInv' /\ HolderInv'
    BY <2>2 DEF LockInv, StealInv, HolderInv
  <2> QED
    BY <2>2, <2>3, <2>4 DEF LockInv, StuckInv
<1>19. CASE UNCHANGED vars
  BY <1>19, KeepsLock DEF vars, Keeps
<1>20. ASSUME NEW r \in Reqs, CloneHangs(r) PROVE LockInv'
  <2>1. /\ pc[r] = "cloning" /\ lock = r /\ lock' = lock /\ lockStale' = TRUE /\ usurped' = TRUE
        /\ UNCHANGED stuck /\ Goto(r, "hung")
    BY <1>20 DEF CloneHangs
  <2>2. MovesTo(r, "hung")
    BY <2>1, GotoMoves DEF Pcs, ActPcs, EnsPcs, SecPcs
  <2>3. MakerInv' /\ StuckInv'
    BY <1>1, <2>1, <2>2 DEF MovesTo, MakerInv, SecPcs, StuckInv
  <2>4. StealInv' /\ HolderInv'
    BY <2>1 DEF StealInv, HolderInv
  <2> QED
    BY <2>3, <2>4 DEF LockInv
<1> QED
  BY <1>4, <1>5, <1>6, <1>7, <1>8, <1>10, <1>11, <1>12, <1>13, <1>14, <1>15, <1>16, <1>17, <1>18, <1>19,
     <1>20
  DEF Next, LockStep, FreshStep, GitStep
-----------------------------------------------------------------------------
(* No mirror taken from under a session. *)

GoneInv == EvictInv /\ MirrorInv

\* A step that leaves the mirror and the sweep, and lets nobody begin to work,
\* to clone or to have an answer.
Calm ==
  /\ UNCHANGED <<mirror, worktrees>>
  /\ \A q \in Reqs : /\ pc'[q] \in ActPcs => pc[q] \in ActPcs
                     /\ pc'[q] = "cloning" => pc[q] = "cloning"
                     /\ pc'[q] = "ok" => pc[q] = "ok"
  /\ \A q \in Reqs : q \in early /\ pc'[q] = "ok" => q \in early'
  /\ evictRace => evictRace'
  /\ Removing' => Removing

LEMMA CalmGone ==
  ASSUME GoneInv, Calm
  PROVE  GoneInv'
<1>1. EvictInv'
  BY DEF Calm, GoneInv, EvictInv
<1>2. MirrorInv'
  BY DEF Calm, GoneInv, MirrorInv
<1> QED
  BY <1>1, <1>2 DEF GoneInv

LEMMA NextGone ==
  ASSUME PlaceType, DiskType, HistType, LeaderInv, GoneInv, [Next]_vars
  PROVE  GoneInv'
<1> USE DEF histVars, diskVars, sweepVars
<1>1. ASSUME UNCHANGED sweep PROVE Removing' <=> Removing
  BY <1>1 DEF Removing
<1>2. ASSUME NEW r \in Reqs, NEW step \in Pcs, Goto(r, step),
             step \in ActPcs => pc[r] \in ActPcs, step # "cloning", step # "ok",
             UNCHANGED <<mirror, worktrees, sweep, evictRace>>, early \ {r} \subseteq early'
      PROVE  GoneInv'
  <2>1. MovesTo(r, step)
    BY <1>2, GotoMoves
  <2>2. Calm
    BY <1>1, <1>2, <2>1 DEF Calm, MovesTo
  <2> QED
    BY <2>2, CalmGone
<1>3. ASSUME NEW r \in Reqs, NEW step \in {"resolve", "over"}, Settle(r, step), pc[r] \in EnsPcs,
             UNCHANGED <<mirror, worktrees, sweep, evictRace, early>>
      PROVE  GoneInv'
  <2>1. SettlesTo(r, step)
    BY <1>3, SettleMoves DEF Pcs, ActPcs
  <2>2. Calm
    BY <1>1, <1>3, <2>1 DEF Calm, SettlesTo, ActPcs
  <2> QED
    BY <2>2, CalmGone
<1>4. ASSUME NEW r \in Reqs, Materialize(r) PROVE GoneInv'
  <2>1. PICK step \in {"join", "fresh", "lock"} : Goto(r, step)
    BY <1>4 DEF Materialize
  <2>2. MovesTo(r, step)
    BY <2>1, GotoMoves DEF Pcs, ActPcs, EnsPcs
  <2>3. evictRace' = (evictRace \/ Removing) /\ UNCHANGED <<mirror, worktrees, sweep, early>>
    BY <1>4 DEF Materialize
  <2>4. EvictInv'
    BY <1>1, <2>3 DEF EvictInv
  <2>5. MirrorInv'
    BY <2>2, <2>3 DEF GoneInv, MirrorInv, MovesTo
  <2> QED
    BY <2>4, <2>5 DEF GoneInv
<1>5. ASSUME NEW r \in Reqs, LockStep(r) PROVE GoneInv'
  <2>1. /\ pc[r] \in EnsPcs /\ pc[r] \in ActPcs /\ UNCHANGED <<mirror, worktrees, sweep, evictRace, early>>
    BY <1>5 DEF LockStep, OpenLock, OpenFails, LockWriteFails, WaitForLock, PollLock, LockVanished, StatFails,
       LockIsStale, StealLock, StealFails, Locked, Release, ActPcs, EnsPcs, SecPcs
  <2>2. \/ \E step \in {"opened", "stat", "lock", "sleep", "steal", "spawned", "unlockOk"} : Goto(r, step)
        \/ \E step \in {"resolve", "over"} : Settle(r, step)
    BY <1>5 DEF LockStep, OpenLock, OpenFails, LockWriteFails, WaitForLock, PollLock, LockVanished, StatFails,
       LockIsStale, StealLock, StealFails, Locked, Release
  <2>3. \A step \in {"opened", "stat", "lock", "sleep", "steal", "spawned", "unlockOk"} :
          step \in Pcs /\ step # "cloning" /\ step # "ok"
    BY DEF Pcs, ActPcs, EnsPcs, SecPcs
  <2> QED
    BY <1>2, <1>3, <2>1, <2>2, <2>3
<1>6. ASSUME NEW r \in Reqs, pc[r] \in SecPcs, ~evictRace PROVE ~Removing
  BY <1>6 DEF GoneInv, EvictInv, ActPcs, EnsPcs
<1>7. ASSUME NEW r \in Reqs, CloneStart(r) PROVE GoneInv'
  <2>1. CASE mirror = "absent"
    <3>1. pc[r] = "spawned" /\ mirror' = "partial" /\ Goto(r, "cloning")
          /\ UNCHANGED <<worktrees, sweep, evictRace, early>>
      BY <1>7, <2>1 DEF CloneStart
    <3>2. MovesTo(r, "cloning")
      BY <3>1, GotoMoves DEF Pcs, ActPcs, EnsPcs, SecPcs
    <3>3. EvictInv'
      BY <1>1, <1>6, <3>1 DEF EvictInv, SecPcs
    <3>4. MirrorInv'
      BY <2>1, <3>1, <3>2 DEF GoneInv, MirrorInv, MovesTo
    <3> QED
      BY <3>3, <3>4 DEF GoneInv
  <2>2. CASE mirror # "absent"
    BY <1>2, <1>7, <2>2 DEF CloneStart, Pcs, ActPcs, EnsPcs, SecPcs
  <2> QED
    BY <2>1, <2>2
<1>8. ASSUME NEW r \in Reqs, CloneDone(r) \/ CloneFails(r) PROVE GoneInv'
  <2>1. PICK step \in {"unlockOk", "unlockErr"} : Goto(r, step)
    BY <1>8 DEF CloneDone, CloneFails
  <2>2. pc[r] = "cloning" /\ UNCHANGED <<sweep, evictRace, early>>
    BY <1>8 DEF CloneDone, CloneFails
  <2>3. MovesTo(r, step)
    BY <2>1, GotoMoves DEF Pcs, ActPcs, EnsPcs, SecPcs
  <2>4. EvictInv'
    BY <1>1, <1>6, <2>2 DEF EvictInv, SecPcs
  <2>5. MirrorInv'
    <3> SUFFICES ASSUME ~evictRace PROVE MirrorInv'
      BY <2>2 DEF MirrorInv
    <3>1. mirror = "partial" /\ \A q \in Reqs : pc'[q] # "cloning"
      BY <2>2, <2>3 DEF GoneInv, MirrorInv, MovesTo
    <3>2. \A q \in Reqs \ early : pc'[q] # "ok"
      BY <2>3, <3>1 DEF GoneInv, MirrorInv, MovesTo
    <3> QED
      BY <2>2, <3>1, <3>2 DEF MirrorInv
  <2> QED
    BY <2>4, <2>5 DEF GoneInv
<1>9. ASSUME NEW r \in Reqs, StillFresh(r) \/ RemoteUpdate(r) PROVE GoneInv'
  <2>1. PICK step \in {"resolve", "over"} : Settle(r, step)
    BY <1>9 DEF StillFresh, RemoteUpdate
  <2> QED
    BY <1>3, <1>9, <2>1 DEF StillFresh, RemoteUpdate, EnsPcs
<1>10. ASSUME NEW r \in Reqs, \/ NeedsRefresh(r) \/ ResolveSha(r) \/ DropSession(r)
                            \/ CloneHangs(r) \/ HungCloses(r)
       PROVE  GoneInv'
  <2>1. PICK step \in {"update", "worktree", "over", "hung", "unlockErr"} :
          Goto(r, step) /\ (step # "over" => pc[r] \in {"fresh", "resolve", "cloning", "hung"})
    BY <1>10 DEF NeedsRefresh, ResolveSha, DropSession, CloneHangs, HungCloses
  <2>2. UNCHANGED <<mirror, worktrees, sweep, evictRace>> /\ early \ {r} \subseteq early'
    BY <1>10 DEF NeedsRefresh, ResolveSha, DropSession, CloneHangs, HungCloses
  <2> QED
    BY <1>2, <2>1, <2>2 DEF Pcs, ActPcs, EnsPcs, SecPcs
<1>11. ASSUME NEW r \in Reqs, AddWorktree(r) PROVE GoneInv'
  <2>1. /\ pc[r] = "worktree" /\ UNCHANGED <<mirror, sweep, evictRace>> /\ worktrees \subseteq worktrees'
        /\ early \subseteq early'
    BY <1>11 DEF AddWorktree
  <2>2. \/ /\ MovesTo(r, "ok") /\ r \in worktrees' /\ mirror # "absent"
           /\ mirror = "partial" => r \in early'
        \/ MovesTo(r, "over")
    BY <1>11, GotoMoves DEF AddWorktree, Pcs, ActPcs
  <2>3. EvictInv'
    <3>1. ~evictRace => ~Removing
      BY <2>1 DEF GoneInv, EvictInv, ActPcs
    <3> QED
      BY <1>1, <2>1, <3>1 DEF EvictInv
  <2>4. MirrorInv'
    <3> SUFFICES ASSUME ~evictRace PROVE MirrorInv'
      BY <2>1 DEF MirrorInv
    <3>1. \A q \in Reqs : pc'[q] = "cloning" => pc[q] = "cloning"
      BY <2>2 DEF MovesTo
    <3>2. ASSUME NEW q \in Reqs \ early', pc'[q] = "ok" PROVE q \in worktrees' /\ mirror' = "whole"
      <4>1. CASE q = r
        BY <2>1, <2>2, <3>2, <4>1 DEF MovesTo, DiskType
      <4>2. CASE q # r
        BY <2>1, <2>2, <3>2, <4>2 DEF MovesTo, GoneInv, MirrorInv
      <4> QED
        BY <4>1, <4>2
    <3> QED
      BY <2>1, <3>1, <3>2 DEF GoneInv, MirrorInv
  <2> QED
    BY <2>3, <2>4 DEF GoneInv
<1>12. ASSUME NEW w \in Workers, Crash(w) PROVE GoneInv'
  <2>1. \A q \in Reqs : pc'[q] = IF WorkerOf[q] = w /\ pc[q] \notin {"ok", "over"}
                                 THEN "dead" ELSE pc[q]
    BY <1>12 DEF Crash
  <2>2. Removing' => Removing
    BY <1>12 DEF Crash, SweepTo, Removing, PlaceType
  <2>3. Calm
    BY <1>12, <2>1, <2>2 DEF Crash, Calm, ActPcs, EnsPcs, SecPcs
  <2> QED
    BY <2>3, CalmGone
<1>13. ASSUME NEW r \in Reqs, DeadlinePasses(r) PROVE GoneInv'
  BY <1>1, <1>13, CalmGone DEF DeadlinePasses, Calm
<1>14. CASE LockAges \/ UNCHANGED vars
  BY <1>1, <1>14, CalmGone DEF LockAges, Calm, vars
\* Steps of the sweep before the removal, and its last one.
<1>15. ASSUME NEW w \in Workers, NEW step \in {"prune", "measure", "idle", "decide", "recheck"},
              SweepTo(w, step), UNCHANGED <<mirror, pc, evictRace, early>>,
              worktrees' \in {worktrees \ Prunable, worktrees}
       PROVE  GoneInv'
  <2>1. Removing' => Removing
    BY <1>15 DEF SweepTo, Removing, PlaceType
  <2>2. EvictInv'
    BY <1>15, <2>1 DEF GoneInv, EvictInv
  <2>3. \A q \in Reqs : pc[q] = "ok" /\ q \in worktrees => q \in worktrees'
    BY <1>15 DEF Prunable
  <2>4. MirrorInv'
    BY <1>15, <2>3 DEF GoneInv, MirrorInv
  <2> QED
    BY <2>2, <2>4 DEF GoneInv
<1>16. ASSUME NEW w \in Workers,
              SweepList(w) \/ SweepPrune(w) \/ SweepMeasure(w) \/ SweepDecide(w) \/ SweepFails(w)
                \/ SweepRmdir(w)
       PROVE  GoneInv'
  <2>1. PICK step \in {"prune", "measure", "idle", "decide", "recheck"} : SweepTo(w, step)
    BY <1>16 DEF SweepList, SweepPrune, SweepMeasure, SweepDecide, SweepFails, SweepRmdir
  <2>2. UNCHANGED <<mirror, pc, evictRace, early>> /\ worktrees' \in {worktrees \ Prunable, worktrees}
    BY <1>16 DEF SweepList, SweepPrune, SweepMeasure, SweepDecide, SweepFails, SweepRmdir
  <2> QED
    BY <1>15, <2>1, <2>2
<1>17. ASSUME NEW w \in Workers, SweepRecheck(w) PROVE GoneInv'
  <2>1. CASE InUse
    <3>1. evictRace' = evictRace /\ SweepTo(w, "idle") /\ UNCHANGED <<mirror, pc, early, worktrees>>
      BY <1>17, <2>1 DEF SweepRecheck, HistType
    <3> QED
      BY <1>15, <3>1
  <2>2. CASE ~InUse
    <3>1. worktrees = {} /\ evictRace' = (evictRace \/ Active # {}) /\ UNCHANGED <<mirror, pc, early, worktrees>>
      BY <1>17, <2>2 DEF SweepRecheck, InUse
    <3>2. Active = {} => \A q \in Reqs : pc[q] \notin ActPcs
      BY DEF Active, Ensuring, Section, ActPcs, EnsPcs, SecPcs
    <3>3. EvictInv'
      BY <3>1, <3>2 DEF GoneInv, EvictInv, MirrorInv
    <3>4. MirrorInv'
      BY <3>1 DEF GoneInv, MirrorInv
    <3> QED
      BY <3>3, <3>4 DEF GoneInv
  <2> QED
    BY <2>1, <2>2
<1>18. ASSUME NEW w \in Workers, SweepRemove(w) \/ SweepRemoveTree(w) PROVE GoneInv'
  <2>1. Removing /\ UNCHANGED <<pc, evictRace, early>>
    BY <1>18 DEF SweepRemove, SweepRemoveTree, Removing
  <2>2. ~evictRace => \A q \in Reqs : pc[q] \notin ActPcs /\ pc[q] # "cloning" /\ (pc[q] = "ok" => q \in early)
    BY <2>1 DEF GoneInv, EvictInv, ActPcs, EnsPcs, SecPcs
  <2>3. EvictInv' /\ MirrorInv'
    BY <2>1, <2>2 DEF EvictInv, MirrorInv
  <2> QED
    BY <2>3 DEF GoneInv
<1> QED
  BY <1>4, <1>5, <1>7, <1>8, <1>9, <1>10, <1>11, <1>12, <1>13, <1>14, <1>16, <1>17, <1>18
  DEF Next, FreshStep, GitStep, SweepStep
-----------------------------------------------------------------------------
(* Types, and the theorems. *)

\* What is in the directory has a directory, whoever puts it there or removes it.
LEMMA NextDisk ==
  ASSUME DiskType, [Next]_vars
  PROVE  DiskType'
<1> USE DEF diskVars, lockVars, DiskType
<1>1. ASSUME UNCHANGED <<diskVars, lockVars>> PROVE DiskType'
  BY <1>1
<1>2. ASSUME NEW r \in Reqs, Materialize(r) PROVE DiskType'
  BY <1>2 DEF Materialize
<1>3. ASSUME NEW r \in Reqs, LockStep(r) PROVE DiskType'
  <2>1. CASE OpenLock(r)
    BY <2>1 DEF OpenLock
  <2>2. CASE StealLock(r)
    BY <2>2 DEF StealLock, Unlink
  <2>3. CASE UNCHANGED <<diskVars, lockVars>>
    BY <1>1, <2>3
  <2>4. CASE Release(r)
    BY <2>4 DEF Release, ReleaseLock, Unlink
  <2>5. CASE LockWriteFails(r)
    BY <2>5 DEF LockWriteFails
  <2> QED
    BY <1>3, <2>1, <2>2, <2>3, <2>4, <2>5 DEF LockStep, OpenFails, WaitForLock, PollLock, LockVanished,
       StatFails, StealFails, LockIsStale, Locked
<1>4. ASSUME NEW r \in Reqs, FreshStep(r) \/ GitStep(r) PROVE DiskType'
  <2>1. CASE CloneStart(r)
    BY <2>1 DEF CloneStart
  <2>2. CASE CloneDone(r)
    BY <2>2 DEF CloneDone
  <2>3. CASE CloneFails(r)
    BY <2>3 DEF CloneFails
  <2>4. CASE CloneHangs(r)
    BY <2>4 DEF CloneHangs
  <2>5. CASE AddWorktree(r)
    BY <2>5 DEF AddWorktree
  <2>6. CASE UNCHANGED <<diskVars, lockVars>>
    BY <1>1, <2>6
  <2> QED
    BY <1>4, <2>1, <2>2, <2>3, <2>4, <2>5, <2>6
    DEF FreshStep, GitStep, HungCloses, StillFresh, NeedsRefresh, RemoteUpdate, ResolveSha
<1>5. ASSUME NEW r \in Reqs, DropSession(r) \/ DeadlinePasses(r) PROVE DiskType'
  BY <1>1, <1>5 DEF DropSession, DeadlinePasses
<1>6. ASSUME NEW w \in Workers, SweepStep(w) PROVE DiskType'
  <2>1. CASE SweepPrune(w)
    BY <2>1 DEF SweepPrune, Prunable
  <2>2. CASE SweepRemove(w)
    BY <2>2 DEF SweepRemove
  <2>3. CASE SweepRemoveTree(w)
    BY <2>3 DEF SweepRemoveTree, Unlink
  <2>4. CASE SweepRmdir(w)
    BY <2>4 DEF SweepRmdir, Refilled
  <2>5. CASE UNCHANGED <<diskVars, lockVars>>
    BY <1>1, <2>5
  <2> QED
    BY <1>6, <2>1, <2>2, <2>3, <2>4, <2>5 DEF SweepStep, SweepList, SweepMeasure, SweepDecide, SweepRecheck,
       SweepFails
<1>7. ASSUME NEW w \in Workers, Crash(w) PROVE DiskType'
  BY <1>1, <1>7 DEF Crash
<1>8. CASE LockAges
  BY <1>8 DEF LockAges
<1>9. CASE UNCHANGED vars
  BY <1>1, <1>9 DEF vars
<1> QED
  BY <1>2, <1>3, <1>4, <1>5, <1>6, <1>7, <1>8, <1>9 DEF Next

LEMMA NextHist ==
  ASSUME HistType, [Next]_vars
  PROVE  HistType'
<1> USE DEF histVars, HistType
<1>1. ASSUME UNCHANGED histVars, late' \subseteq late PROVE HistType'
  BY <1>1
<1>2. ASSUME NEW r \in Reqs, Materialize(r) PROVE HistType'
  BY <1>2 DEF Materialize
<1>3. ASSUME NEW r \in Reqs, LockStep(r) PROVE HistType'
  <2>1. CASE LockIsStale(r)
    BY <2>1 DEF LockIsStale
  <2>2. CASE UNCHANGED histVars /\ late' \subseteq late
    BY <1>1, <2>2
  <2> QED
    BY <1>3, <2>1, <2>2 DEF LockStep, OpenLock, OpenFails, LockWriteFails, WaitForLock, PollLock, LockVanished, StatFails,
       StealLock, StealFails, Locked, Release
<1>4. ASSUME NEW r \in Reqs, FreshStep(r) \/ GitStep(r) PROVE HistType'
  <2>1. CASE AddWorktree(r)
    BY <2>1 DEF AddWorktree
  <2>2. CASE CloneHangs(r)
    BY <2>2 DEF CloneHangs
  <2>3. CASE UNCHANGED histVars /\ late' \subseteq late
    BY <1>1, <2>3
  <2> QED
    BY <1>4, <2>1, <2>2, <2>3 DEF FreshStep, GitStep, CloneStart, CloneDone, CloneFails, HungCloses,
       StillFresh, NeedsRefresh, RemoteUpdate, ResolveSha
<1>5. ASSUME NEW r \in Reqs, DropSession(r) \/ DeadlinePasses(r) PROVE HistType'
  BY <1>5 DEF DropSession, DeadlinePasses
<1>6. ASSUME NEW w \in Workers, SweepStep(w) PROVE HistType'
  <2>1. CASE SweepRecheck(w)
    BY <2>1 DEF SweepRecheck
  <2>2. CASE UNCHANGED histVars /\ late' \subseteq late
    BY <1>1, <2>2
  <2> QED
    BY <1>6, <2>1, <2>2 DEF SweepStep, SweepList, SweepPrune, SweepMeasure, SweepDecide, SweepRemove,
       SweepRemoveTree, SweepFails, SweepRmdir
<1>7. ASSUME NEW w \in Workers, Crash(w) PROVE HistType'
  BY <1>7 DEF Crash
<1>8. CASE LockAges \/ UNCHANGED vars
  BY <1>1, <1>8 DEF LockAges, vars
<1> QED
  BY <1>2, <1>3, <1>4, <1>5, <1>6, <1>7, <1>8 DEF Next

SweepType ==
  sweep \in [Workers -> {"idle", "prune", "measure", "decide", "recheck", "rm", "rmTree", "rmdir"}]

LEMMA NextSweep ==
  ASSUME SweepType, CountType, [Next]_vars
  PROVE  SweepType' /\ CountType'
<1> USE DEF sweepVars
<1>1. ASSUME UNCHANGED <<sweepVars, crashes>> PROVE SweepType' /\ CountType'
  BY <1>1 DEF SweepType, CountType
<1>2. ASSUME NEW w \in Workers, SweepStep(w) PROVE SweepType' /\ CountType'
  <2>1. SweepType'
    BY <1>2 DEF SweepStep, SweepList, SweepPrune, SweepMeasure, SweepDecide, SweepRecheck, SweepRemove,
       SweepRemoveTree, SweepFails, SweepRmdir, SweepTo, SweepType
  <2>2. sweeps' \in {sweeps, sweeps + 1} /\ crashes' = crashes
    BY <1>2 DEF SweepStep, SweepList, SweepPrune, SweepMeasure, SweepDecide, SweepRecheck, SweepRemove,
       SweepRemoveTree, SweepFails, SweepRmdir
  <2>3. CountType'
    BY <2>2 DEF CountType
  <2> QED
    BY <2>1, <2>3
<1>3. ASSUME NEW w \in Workers, Crash(w) PROVE SweepType' /\ CountType'
  <2>1. SweepType'
    BY <1>3 DEF Crash, SweepTo, SweepType
  <2>2. crashes' = crashes + 1 /\ sweeps' = sweeps
    BY <1>3 DEF Crash
  <2> QED
    BY <2>1, <2>2 DEF CountType
<1>4. ASSUME NEW r \in Reqs, LockStep(r) PROVE UNCHANGED <<sweepVars, crashes>>
  BY <1>4 DEF LockStep, OpenLock, OpenFails, LockWriteFails, WaitForLock, PollLock, LockVanished, StatFails,
       LockIsStale, StealLock, StealFails, Locked, Release
<1>5. ASSUME NEW r \in Reqs, FreshStep(r) \/ GitStep(r) PROVE UNCHANGED <<sweepVars, crashes>>
  BY <1>5 DEF FreshStep, GitStep, CloneStart, CloneDone, CloneFails, CloneHangs, HungCloses, StillFresh,
     NeedsRefresh, RemoteUpdate, ResolveSha, AddWorktree
<1>6. ASSUME NEW r \in Reqs, Materialize(r) \/ DropSession(r) \/ DeadlinePasses(r)
      PROVE  UNCHANGED <<sweepVars, crashes>>
  BY <1>6 DEF Materialize, DropSession, DeadlinePasses
<1>7. CASE LockAges \/ UNCHANGED vars
  BY <1>1, <1>7 DEF LockAges, vars
<1> QED
  BY <1>1, <1>2, <1>3, <1>4, <1>5, <1>6, <1>7 DEF Next

LEMMA InitIInv == Init => IInv
<1> SUFFICES ASSUME Init PROVE IInv
  OBVIOUS
<1>1. WorkerOf \in [Reqs -> Workers] /\ None \notin Reqs
  BY ConstantsAssumption DEF ConstantsAssumption
<1>2. PlaceType /\ DiskType /\ HistType
  BY DEF Init, PlaceType, DiskType, HistType, Pcs
<1>3. CountType
  BY DEF Init, CountType
<1>4. (\A r \in Reqs : pc[r] = "idle") /\ \A w \in Workers : leader[w] = None
  BY DEF Init
<1>5. LeaderInv /\ MakerInv /\ StuckInv /\ StealInv /\ HolderInv
  BY <1>4 DEF Init, LeaderInv, MakerInv, StuckInv, StealInv, HolderInv, EnsPcs, SecPcs
<1>6. EvictInv /\ MirrorInv
  BY <1>4 DEF Init, EvictInv, MirrorInv, ActPcs, EnsPcs, SecPcs
<1> QED
  BY <1>2, <1>3, <1>5, <1>6 DEF IInv

LEMMA NextIInv == IInv /\ [Next]_vars => IInv'
<1> SUFFICES ASSUME IInv, [Next]_vars PROVE IInv'
  OBVIOUS
<1>1. /\ PlaceType /\ DiskType /\ HistType /\ CountType /\ LeaderInv
      /\ LockInv /\ GoneInv /\ EvictInv /\ SweepType
  BY DEF IInv, LockInv, GoneInv, PlaceType, SweepType
<1>2. leader' \in [Workers -> Reqs \cup {None}] /\ pc' \in [Reqs -> Pcs] /\ LeaderInv'
  BY <1>1, NextPlace
<1>3. SweepType' /\ CountType'
  BY <1>1, NextSweep
<1>4. PlaceType'
  BY <1>2, <1>3 DEF PlaceType, SweepType
<1>5. DiskType' /\ HistType'
  BY <1>1, NextDisk, NextHist
<1>6. LockInv'
  BY <1>1, NextLock
<1>7. GoneInv'
  BY <1>1, NextGone
<1> QED
  BY <1>2, <1>3, <1>4, <1>5, <1>6, <1>7 DEF IInv, LockInv, GoneInv

LEMMA Invariance == Spec => []IInv
BY InitIInv, NextIInv, PTL DEF Spec

\* Every variable has its type, and what is in the directory has a directory,
\* in every reachable state, for any workers and requests.
THEOREM TypeCorrect == Spec => []TypeOK
<1>1. IInv => TypeOK
  BY DEF IInv, TypeOK, PlaceType, DiskType, HistType, CountType, Pcs, ActPcs, EnsPcs, SecPcs
<1> QED
  BY <1>1, Invariance, PTL

\* One ensureMirror at a time in each process, and one holder of the lock among
\* all of them, but for a race of two thieves or with a sweep, or a holder
\* that waited past the ten minutes for a git that was killed to close.
THEOREM OneCloneAtATime == Spec => []CloneExclusion
<1>1. ASSUME IInv PROVE CloneExclusion
  <2>1. WorkerOf \in [Reqs -> Workers] /\ None \notin Reqs
    BY ConstantsAssumption DEF ConstantsAssumption
  <2>2. LeaderInv /\ HolderInv /\ PlaceType
    BY <1>1 DEF IInv
  <2>3. /\ Ensuring = {r \in Reqs : pc[r] \in EnsPcs}
        /\ Section = {r \in Reqs : pc[r] \in SecPcs}
    BY DEF Ensuring, Section, EnsPcs, SecPcs
  <2>4. \A r, s \in Ensuring : WorkerOf[r] = WorkerOf[s] => r = s
    BY <2>2, <2>3 DEF LeaderInv
  <2>5. ASSUME NEW r \in Reqs, pc[r] = "join"
        PROVE  \E s \in Ensuring : WorkerOf[s] = WorkerOf[r]
    <3>1. leader[WorkerOf[r]] # None /\ WorkerOf[r] \in Workers
      BY <2>1, <2>2, <2>5 DEF LeaderInv
    <3>2. leader[WorkerOf[r]] \in Ensuring /\ WorkerOf[leader[WorkerOf[r]]] = WorkerOf[r]
      BY <2>2, <2>3, <3>1 DEF LeaderInv, PlaceType
    <3> QED
      BY <3>2
  <2>6. ~usurped /\ ~evictRace => \A r, s \in Section : r = s
    BY <2>2, <2>3 DEF HolderInv
  <2> QED
    BY <2>4, <2>5, <2>6 DEF CloneExclusion
<1> QED
  BY <1>1, Invariance, PTL

\* Whoever made the lock file that is there is in its section or died there,
\* unless acquireLock failed to write it or a releaseLock failed, in silence,
\* to remove it: no way out of ensureMirror forgets it.
THEOREM LockHasItsMaker == Spec => []NoOrphanLock
<1>1. ASSUME IInv PROVE NoOrphanLock
  <2>1. MakerInv /\ lock \in Reqs \cup {None}
    BY <1>1 DEF IInv, DiskType
  <2> QED
    BY <2>1 DEF NoOrphanLock, MakerInv, Section, SecPcs
<1> QED
  BY <1>1, Invariance, PTL

\* No sweep and no failing clone takes the mirror from under a live session
\* whose worktree was added to a complete one.
THEOREM SessionsKeepTheirMirror == Spec => []AnswerKept
<1>1. IInv => AnswerKept
  BY DEF IInv, MirrorInv, AnswerKept
<1> QED
  BY <1>1, Invariance, PTL
=============================================================================
