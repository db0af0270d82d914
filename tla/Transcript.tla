----------------------------- MODULE Transcript -----------------------------
(***************************************************************************)
(* The transcript of one session: concurrent appends to transcript.jsonl,  *)
(* its rotation into time-stamped segments, and the reader behind GET      *)
(* /transcript and POST /replay (src/session/state.ts,                     *)
(* src/session/transcript.ts, src/http/routes/{state,replay}.ts).          *)
(*                                                                         *)
(* Files are inodes: an append opens a file by name and writes through its *)
(* descriptor later, so a rename in between takes the line with it.  Every *)
(* await on the file system is a step of its own.  A line is the turn      *)
(* number of its entry.                                                    *)
(***************************************************************************)
EXTENDS Naturals, FiniteSets, Sequences, Functions

CONSTANTS
  Appends,    \* the requests that append an entry
  Sizes,      \* byte lengths an entry can have
  MaxBytes,   \* policy.max_transcript_bytes
  None,       \* no such file, no descriptor
  MaxTime     \* bound: the millisecond clock stops here

ASSUME ConstantsAssumption ==
  /\ IsFiniteSet(Appends)
  /\ Sizes \subseteq Nat \ {0}
  /\ MaxBytes \in Nat
  /\ MaxTime \in Nat
  /\ None \notin Nat

Time  == 0 .. MaxTime
Turns == 1 .. Cardinality(Appends)

VARIABLES
  now,         \* Date.now()
  turn,        \* the session's turn counter
  bytes,       \* transcriptBytes
  historySize, \* historySize
  content,     \* per inode, the lines written to it; Len(content) inodes exist
  length,      \* per inode, its length in bytes
  current,     \* inode named transcript.jsonl, or None
  segs,        \* per time stamp, the inode named transcript.jsonl.<ts>.jsonl
  pc,          \* where each append is
  size,        \* byte length of its entry
  turnOf,      \* turn number of its entry
  stamp,       \* time stamp of the rotation it makes
  fd,          \* inode it has open
  rpc,         \* where the reader is
  todo,        \* time stamps of the segments it has listed and not read
  got,         \* lines it has yielded
  overwritten, \* history: inodes whose name a rotation took over
  overlapped,  \* history: two appends were in progress at once
  unrotated,   \* history: a rotation could not rename the file and left it
  due,         \* history: lines recorded when the reader listed the directory
  disturbed    \* history: the files changed while the reader was reading, or
               \* it could not list them

logVars  == <<turn, bytes, historySize>>
fileVars == <<content, length, current, segs, overwritten>>
reqVars  == <<pc, size, turnOf, stamp, fd>>
readVars == <<rpc, todo, got, due, disturbed>>
histVars == <<overlapped, unrotated>>
vars == <<now, logVars, fileVars, reqVars, readVars, histVars>>

Init ==
  /\ now = 0
  /\ turn = 0 /\ bytes = 0 /\ historySize = 0
  /\ content = << <<>> >> /\ length = <<0>>
  /\ current = 1
  /\ segs = [t \in Time |-> None]
  /\ pc = [r \in Appends |-> "idle"]
  /\ size = [r \in Appends |-> 0]
  /\ turnOf = [r \in Appends |-> 0]
  /\ stamp = [r \in Appends |-> 0]
  /\ fd = [r \in Appends |-> None]
  /\ rpc = "idle" /\ todo = <<>> /\ got = <<>>
  /\ overwritten = {}
  /\ overlapped = FALSE
  /\ unrotated = FALSE
  /\ due = {}
  /\ disturbed = FALSE
-----------------------------------------------------------------------------
(* Appends. *)

InProgress == {r \in Appends : pc[r] \in {"rename", "reopen", "open", "write", "count"}}

Reading == rpc = "segments"

\* The reader's view of a step that changes files.
Disturb ==
  /\ disturbed' = (disturbed \/ Reading)
  /\ UNCHANGED <<rpc, todo, got, due>>

\* TRANSCRIPT_ROTATION_THRESHOLD.
SoftCap == (MaxBytes * 8) \div 10

\* Rotate before an entry of n bytes that would pass the threshold, but never
\* an empty file.
NeedsRotation(n) == bytes > 0 /\ bytes + n > SoftCap

\* What follows the rotation test: an entry over the cap is refused.
AfterRotation(n) == IF n > MaxBytes THEN "err" ELSE "open"

\* nextTurn() and the start of appendTranscript, up to its first await.
AppendStart(r, n) ==
  /\ pc[r] = "idle"
  /\ turn' = turn + 1
  /\ turnOf' = [turnOf EXCEPT ![r] = turn + 1]
  /\ size' = [size EXCEPT ![r] = n]
  /\ pc' = [pc EXCEPT ![r] = IF NeedsRotation(n) THEN "rename" ELSE AfterRotation(n)]
  /\ stamp' = [stamp EXCEPT ![r] = IF NeedsRotation(n) THEN now ELSE 0]
  /\ overlapped' = (overlapped \/ InProgress # {})
  /\ UNCHANGED <<now, bytes, historySize, fileVars, fd, readVars, unrotated>>

\* rotateTranscript: the rename.  It replaces a segment of the same name, and
\* without a current file its failure is ignored.
Rename(r) ==
  /\ pc[r] = "rename"
  /\ pc' = [pc EXCEPT ![r] = "reopen"]
  /\ IF current = None
     THEN UNCHANGED <<current, segs, overwritten>>
     ELSE /\ segs' = [segs EXCEPT ![stamp[r]] = current]
          /\ current' = None
          /\ overwritten' = IF segs[stamp[r]] = None THEN overwritten
                            ELSE overwritten \cup {segs[stamp[r]]}
  /\ Disturb
  /\ UNCHANGED <<now, logVars, content, length, size, turnOf, stamp, fd, histVars>>

\* Any other failure of the rename is ignored too: the file stays where it is,
\* and the rotation goes on as if it had moved.
RenameFails(r) ==
  /\ pc[r] = "rename" /\ current # None
  /\ pc' = [pc EXCEPT ![r] = "reopen"]
  /\ unrotated' = TRUE
  /\ UNCHANGED <<now, logVars, fileVars, size, turnOf, stamp, fd, readVars, overlapped>>

\* Mutant: the file is truncated when it is there.
CreateIfMissingTruncates ==
  /\ content' = IF current = None THEN Append(content, <<>>)
                ELSE [content EXCEPT ![current] = <<>>]
  /\ length' = IF current = None THEN Append(length, 0) ELSE [length EXCEPT ![current] = 0]
  /\ current' = IF current = None THEN Len(content) + 1 ELSE current

\* The open of a file by name creates it when it is missing.
CreateIfMissing ==
  IF current = None
  THEN /\ content' = Append(content, <<>>) /\ length' = Append(length, 0)
       /\ current' = Len(content) + 1
  ELSE UNCHANGED <<content, length, current>>

\* rotateTranscript: openTranscript recreates the file, the counter restarts,
\* and appendTranscript goes on to its size check.
Reopen(r) ==
  /\ pc[r] = "reopen"
  /\ CreateIfMissing
  /\ bytes' = 0
  /\ pc' = [pc EXCEPT ![r] = AfterRotation(size[r])]
  /\ Disturb
  /\ UNCHANGED <<now, turn, historySize, segs, overwritten, size, turnOf, stamp, fd,
                 histVars>>

\* openTranscript throws: the append fails before the counter restarts.
ReopenFails(r) ==
  /\ pc[r] = "reopen"
  /\ pc' = [pc EXCEPT ![r] = "err"]
  /\ UNCHANGED <<now, logVars, fileVars, size, turnOf, stamp, fd, readVars, histVars>>

\* appendRaw: fsp.appendFile opens the file by name.
OpenFile(r) ==
  /\ pc[r] = "open"
  /\ CreateIfMissing
  /\ fd' = [fd EXCEPT ![r] = current']
  /\ pc' = [pc EXCEPT ![r] = "write"]
  /\ Disturb
  /\ UNCHANGED <<now, logVars, segs, overwritten, size, turnOf, stamp, histVars>>

\* appendRaw: the line goes to the end of the open file.
WriteLine(r) ==
  /\ pc[r] = "write"
  /\ content' = [content EXCEPT ![fd[r]] = Append(@, turnOf[r])]
  /\ length' = [length EXCEPT ![fd[r]] = @ + size[r]]
  /\ pc' = [pc EXCEPT ![r] = "count"]
  /\ Disturb
  /\ UNCHANGED <<now, logVars, current, segs, overwritten, size, turnOf, stamp, fd,
                 histVars>>

\* appendRaw fails, to open the file or to write: nothing is written or counted.
WriteFails(r) ==
  /\ pc[r] \in {"open", "write"}
  /\ pc' = [pc EXCEPT ![r] = "err"]
  /\ UNCHANGED <<now, logVars, fileVars, size, turnOf, stamp, fd, readVars, histVars>>

\* appendTranscript's last run: count the entry.
Count(r) ==
  /\ pc[r] = "count"
  /\ bytes' = bytes + size[r]
  /\ historySize' = historySize + 1
  /\ pc' = [pc EXCEPT ![r] = "ok"]
  /\ UNCHANGED <<now, turn, fileVars, size, turnOf, stamp, fd, readVars, histVars>>
-----------------------------------------------------------------------------
(* The reader. *)

\* The lines of all the files that have a name, and of the segments alone.
Segments == {t \in Time : segs[t] # None}
Named    == {segs[t] : t \in Segments} \cup ({current} \ {None})
Lines(i) == Range(content[i])

Recorded == {turnOf[r] : r \in {a \in Appends : pc[a] = "ok"}}

\* Mutant: the directory order is taken as it comes, newest first.
SortedStampsReversed ==
  [k \in 1 .. Cardinality(Segments) |->
     CHOOSE t \in Segments : Cardinality({u \in Segments : u >= t}) = k]

\* Mutant: rotated segments are not looked for.
SortedStampsNone == <<>>

\* The order of listRotatedSegments: the k-th stamp has k up to it.
SortedStamps ==
  [k \in 1 .. Cardinality(Segments) |->
     CHOOSE t \in Segments : Cardinality({u \in Segments : u <= t}) = k]

\* readFullTranscript: list the rotated segments.
ReadList ==
  /\ rpc = "idle"
  /\ rpc' = "segments"
  /\ todo' = SortedStamps
  /\ due' = Recorded
  /\ UNCHANGED <<now, logVars, fileVars, reqVars, got, disturbed, histVars>>

\* listRotatedSegments returns no segment when it cannot read the directory.
ListFails ==
  /\ rpc = "idle"
  /\ rpc' = "segments"
  /\ due' = Recorded
  /\ disturbed' = TRUE
  /\ UNCHANGED <<now, logVars, fileVars, reqVars, todo, got, histVars>>

\* Read the next listed segment.
ReadSegment ==
  /\ rpc = "segments" /\ todo # <<>>
  /\ got' = got \o content[segs[Head(todo)]]
  /\ todo' = Tail(todo)
  /\ UNCHANGED <<now, logVars, fileVars, reqVars, rpc, due, disturbed, histVars>>

\* Read transcript.jsonl by name; the read fails while a rotation has it away.
ReadCurrent ==
  /\ rpc = "segments" /\ todo = <<>>
  /\ IF current = None
     THEN rpc' = "err" /\ UNCHANGED got
     ELSE rpc' = "done" /\ got' = got \o content[current]
  /\ UNCHANGED <<now, logVars, fileVars, reqVars, todo, due, disturbed, histVars>>

Tick ==
  /\ now < MaxTime
  /\ now' = now + 1
  /\ UNCHANGED <<logVars, fileVars, reqVars, readVars, histVars>>

AppendStep(r) ==
  \/ \E n \in Sizes : AppendStart(r, n)
  \/ Rename(r) \/ RenameFails(r) \/ Reopen(r) \/ ReopenFails(r) \/ OpenFile(r)
  \/ WriteLine(r) \/ WriteFails(r) \/ Count(r)

ReadStep == ReadList \/ ListFails \/ ReadSegment \/ ReadCurrent

Next == Tick \/ ReadStep \/ \E r \in Appends : AppendStep(r)

Spec == Init /\ [][Next]_vars
-----------------------------------------------------------------------------
(* Properties. *)

\* Every variable has its type, and an append that writes has a file open.
TypeOK ==
  /\ now \in Time
  /\ turn \in Nat /\ bytes \in Nat /\ historySize \in Nat
  /\ content \in Seq(Seq(Turns)) /\ Len(content) > 0
  /\ length \in Seq(Nat) /\ Len(length) = Len(content)
  /\ current \in DOMAIN content \cup {None}
  /\ segs \in [Time -> DOMAIN content \cup {None}]
  /\ pc \in [Appends -> {"idle", "rename", "reopen", "open", "write", "count", "ok", "err"}]
  /\ size \in [Appends -> Sizes \cup {0}]
  /\ turnOf \in [Appends -> Turns \cup {0}]
  /\ stamp \in [Appends -> Time]
  /\ fd \in [Appends -> DOMAIN content \cup {None}]
  /\ \A r \in Appends : pc[r] \in {"write", "count", "ok"} => fd[r] # None
  /\ rpc \in {"idle", "segments", "done", "err"}
  /\ todo \in Seq(Time)
  /\ got \in Seq(Turns)
  /\ overwritten \subseteq DOMAIN content
  /\ overlapped \in BOOLEAN
  /\ unrotated \in BOOLEAN
  /\ due \subseteq Turns
  /\ disturbed \in BOOLEAN

\* Every recorded entry is in exactly one file and there once, whatever the
\* interleaving of appends and rotations, and that file still has a name
\* unless a later rotation of the same millisecond took the name over.
\* historySize counts them, and at rest the files hold nothing else.
EntriesKept ==
  /\ \A t \in Recorded :
       LET homes == {i \in DOMAIN content : t \in Lines(i)} IN
       \E i \in homes :
         /\ homes = {i}
         /\ Cardinality({n \in DOMAIN content[i] : content[i][n] = t}) = 1
         /\ i \in Named \cup overwritten
  /\ historySize = Cardinality(Recorded)
  /\ InProgress = {} => \A i \in Named : Lines(i) \subseteq Recorded

\* The files of the log in reading order.
LogFiles ==
  [k \in DOMAIN SortedStamps |-> segs[SortedStamps[k]]]
    \o (IF current = None THEN <<>> ELSE <<current>>)

\* When no two appends overlap, the log read file by file is in turn order, so
\* that POST /replay's hash does not depend on the rotations, whichever file
\* operations fail; and no file of it outgrows the policy's cap unless a
\* rotation left the file where it was and restarted its byte count.
SerialLogSound ==
  ~overlapped =>
    /\ \A i \in DOMAIN content : \A m, n \in DOMAIN content[i] :
         m < n => content[i][m] < content[i][n]
    /\ \A j, k \in DOMAIN LogFiles : j < k =>
         \A a \in Lines(LogFiles[j]), b \in Lines(LogFiles[k]) : a < b
    /\ ~unrotated => \A i \in DOMAIN content : length[i] <= MaxBytes

\* A read that could list the directory, and during which no file changed,
\* yields every entry recorded before it began, apart from those in an
\* overwritten segment.
QuietReadComplete ==
  rpc = "done" /\ ~disturbed =>
    due \subseteq Range(got) \cup UNION {Lines(i) : i \in overwritten}
-----------------------------------------------------------------------------
(* What the repository says of the transcript, refuted by the code. *)

\* "Transcript appends: each session is a single event-loop consumer - no
\* interleaving" (docs/ARCHITECTURE.md): no recorded entry is lost.
NoEntryLost ==
  \A t \in Recorded : \E i \in Named : t \in Lines(i)
=============================================================================
