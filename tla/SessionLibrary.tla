----------------------------- MODULE SessionLibrary -----------------------------
(***************************************************************************)
(* The session list of record and replay while neither is going on: which  *)
(* session is selected, the time range its buttons act on, and clips, the  *)
(* new sessions that hold a range of another one.  It all runs on the main *)
(* thread; a clip goes through the files of its source frame by frame, and *)
(* the disk may fail and the program end at each of them.                  *)
(* Files are closed without a look at whether that succeeds, and what is   *)
(* removed may be removed in part.                                         *)
(* A frame is its time stamp.  A session's name is the seconds it and what *)
(* it is a clip of were made in.  Left out: topics, sizes in bytes, the    *)
(* RTSP timeline and index, which follow the frames.                       *)
(***************************************************************************)
EXTENDS Integers, Sequences, FiniteSets, SequencesExt

CONSTANTS Recordings,  \* what recordings may have left: directories by name
          Second,      \* time stamps in a second
          ChunkLimit,  \* frames after which a clip goes on in another file
          Typed,       \* pairs of times a user types as a range, 0 for none
          Seconds,     \* the clock when a clip is made; it may have been set back
          MaxClips     \* bound on the clips

NoSelection == <<>>
Torn == 0    \* what a write that failed leaves, for which readBinaryFrame says
             \* Corrupt; less than four bytes are the end of the file for it
NoMeta == [here |-> FALSE, chunks |-> 0, count |-> 0, start |-> 0, end |-> 0]
EmptyDir == [files |-> <<>>, meta |-> NoMeta]
IdleClip == [at |-> "idle", id |-> NoSelection]
NoProgram == [at |-> "off", id |-> NoSelection]  \* the constructor is yet to run

\* A session directory: the files with frames, in the order of their names, and
\* session.json, if it is here.  A file that is gone reads like an empty one.
Directory ==
    [files : Seq(Seq(Nat)),
     meta : [here : BOOLEAN, chunks : Nat, count : Nat, start : Nat, end : Nat]]

ASSUME LibraryAssumption ==
    /\ Second \in Nat \ {0} /\ ChunkLimit \in Nat \ {0}
    /\ Seconds \subseteq Nat /\ MaxClips \in Nat /\ Typed \subseteq Nat \X Nat
    /\ \A dirs \in Recordings :
           /\ IsFiniteSet(DOMAIN dirs) /\ NoSelection \notin DOMAIN dirs
           /\ dirs \in [DOMAIN dirs -> Directory]
           /\ \A id \in DOMAIN dirs : dirs[id].meta.chunks <= Len(dirs[id].files)

VARIABLES
    sessionDirs,   \* the directories of the sessions: files and session.json
    sessionList,   \* sessionList_
    selectedIndex, \* selectedSessionIndex_, from 1, and 0 for none
    rangeText,     \* replayStartText_, replayEndText_, 0 for what is no time
    clip,          \* where clipSelectedRange is, and its local variables
    hung,          \* the main thread waits for stateMutex_, which it holds
    typed,         \* history: the range was typed since the session was selected
    stepped,       \* history: the selection was moved off an end of the list
    promise,       \* history: by clip, the files it was made of, the times it
                   \* should hold, and which of the files could not be opened
    reused,        \* history: clips written into the directory of an earlier one
    flawed         \* history: clips of which the close of a file has lost frames, or
                   \* a removal has left a part
listVars == <<sessionList, selectedIndex, rangeText, typed, stepped>>
libraryVars == <<sessionDirs, listVars, clip, hung, promise, reused, flawed>>

(* ------------------------------ the list ------------------------------- *)

With(f, x, y) == [z \in DOMAIN f \cup {x} |-> IF z = x THEN y ELSE f[z]]
Without(f, x) == [z \in DOMAIN f \ {x} |-> f[z]]

\* loadSession: the files session.json lists, all there are if it lists none.
Files(dir) ==
    IF dir.meta.chunks = 0 THEN dir.files ELSE SubSeq(dir.files, 1, dir.meta.chunks)
SelectedId == IF selectedIndex = 0 THEN NoSelection ELSE sessionList[selectedIndex].id
\* toSessionInfo, as far as anything reads it.
Row(id, dir) == [id |-> id, start |-> dir.meta.start, end |-> dir.meta.end]
\* formatDateTime: a time is shown, and read back, in whole seconds.
ShownTime(t) == t - (t % Second)

Select(list, index) ==
    /\ selectedIndex' = index
    /\ rangeText' = IF index = 0 THEN <<0, 0>>
                    ELSE <<ShownTime(list[index].start), ShownTime(list[index].end)>>
    /\ typed' = FALSE

(* refreshSessionList, with kept selected so far, and the selection that   *)
(* follows: of wanted, else of kept, else of the newest.  Sessions of the  *)
(* same start come in any order.                                           *)
ListSessions(dirs, kept, wanted) ==
    \E ids \in SetToSeqs({id \in DOMAIN dirs : Files(dirs[id]) # <<>>}) :
        LET list == [i \in DOMAIN ids |-> Row(ids[i], dirs[ids[i]])]
            At(id) == {i \in DOMAIN ids : ids[i] = id}
        IN  /\ \A i, j \in DOMAIN list : i < j => list[i].start >= list[j].start
            /\ sessionList' = list
            /\ \E index \in IF At(wanted) # {} THEN At(wanted)
                            ELSE IF At(kept) # {} THEN At(kept)
                            ELSE {IF list = <<>> THEN 0 ELSE 1} : Select(list, index)
            /\ stepped' = FALSE

LibraryInit ==
    /\ sessionDirs \in Recordings
    /\ sessionList = <<>> /\ selectedIndex = 0 /\ rangeText = <<0, 0>>
    /\ clip = NoProgram /\ hung = FALSE
    /\ typed = FALSE /\ stepped = FALSE
    /\ promise = [id \in {} |-> NoMeta] /\ reused = {} /\ flawed = {}

Free == clip.at = "idle" /\ ~hung
Clipping == clip.at \notin {"idle", "off"}
KeepsDisk == UNCHANGED <<sessionDirs, clip, hung, promise, reused, flawed>>

RefreshSessionList == Free /\ ListSessions(sessionDirs, SelectedId, NoSelection) /\ KeepsDisk

\* openSelectedSessionDirectory finds no directory.
OpenDirectory ==
    /\ Free /\ selectedIndex # 0 /\ SelectedId \notin DOMAIN sessionDirs
    /\ ListSessions(sessionDirs, SelectedId, NoSelection) /\ KeepsDisk

\* setSelectedSessionIndex, from the list or by a step to either side.
SetSelectedSessionIndex(i) ==
    LET index == IF i \in DOMAIN sessionList THEN i ELSE 0
    IN  /\ index # selectedIndex
        /\ Select(sessionList, index)
        /\ stepped' = (index = 0)
        /\ UNCHANGED sessionList
SelectSession ==
    /\ Free /\ KeepsDisk
    /\ \/ \E i \in DOMAIN sessionList : SetSelectedSessionIndex(i)
       \/ /\ Len(sessionList) > 1
          /\ \E i \in {selectedIndex - 1, selectedIndex + 1} : SetSelectedSessionIndex(i)

EditRange ==
    /\ Free /\ rangeText' \in Typed /\ typed' = TRUE
    /\ UNCHANGED <<sessionList, selectedIndex, stepped>> /\ KeepsDisk

(* The replay and the clip button without a selection: the text that says  *)
(* so is set under stateMutex_ by a function that takes stateMutex_.       *)
PressWithoutSession ==
    /\ Free /\ selectedIndex = 0
    /\ hung' = TRUE
    /\ UNCHANGED <<sessionDirs, listVars, clip, promise, reused, flawed>>

(* What removeRecursively may leave when it fails or the program ends in   *)
(* the middle of it: any of the files, with session.json or without.       *)
Remainder(dir, kept, meta) ==
    IF kept = {} /\ ~meta.here THEN EmptyDir
    ELSE [files |-> [i \in DOMAIN dir.files |-> IF i \in kept THEN dir.files[i] ELSE <<>>],
          meta |-> meta]
Remainders(dir) ==
    {Remainder(dir, kept, meta) : kept \in SUBSET DOMAIN dir.files, meta \in {dir.meta, NoMeta}}

\* The directory of a session becomes dir: other than was, something is lost.
Loses(id, dir, was) ==
    /\ sessionDirs' = [sessionDirs EXCEPT ![id] = dir]
    /\ flawed' = IF dir = was THEN flawed ELSE flawed \cup ({id} \cap DOMAIN promise)

\* removeSelectedSession: the list is not refreshed when a removal fails.
RemoveSelectedSession ==
    /\ Free /\ selectedIndex # 0
    /\ \/ /\ sessionDirs' = Without(sessionDirs, SelectedId)
          /\ ListSessions(sessionDirs', SelectedId, NoSelection)
          /\ UNCHANGED flawed
       \/ /\ SelectedId \in DOMAIN sessionDirs
          /\ \E dir \in Remainders(sessionDirs[SelectedId]) :
                 Loses(SelectedId, dir, sessionDirs[SelectedId])
          /\ UNCHANGED listVars
    /\ UNCHANGED <<clip, hung, promise, reused>>

(* -------------------------------- clips -------------------------------- *)

(* A place is a file and a position in it.  Who reads the files meets the  *)
(* places in the order of Before, and a frame at each that is not torn.    *)
Places(files) == UNION {{i} \X DOMAIN files[i] : i \in DOMAIN files}
Before(p, q) == p[1] < q[1] \/ (p[1] = q[1] /\ p[2] < q[2])
TimeAt(files, p) == files[p[1]][p[2]]
Frames(files) == {p \in Places(files) : TimeAt(files, p) # Torn}

(* The times a clip should hold: what was typed, or, if the range is as    *)
(* the view filled it in, all but the frames after the last whole second.  *)
(* The latter goes for a directory that has not changed since, where no    *)
(* frame is older than the first: the clock was not set back.              *)
Steady(dir) ==
    /\ Second <= dir.meta.start /\ dir.meta.start <= dir.meta.end
    /\ \A p \in Frames(Files(dir)) : dir.meta.start <= TimeAt(Files(dir), p)
Promised(dir, lo, hi) ==
    LET asShown == ~typed /\ sessionList[selectedIndex] = Row(SelectedId, dir) /\ Steady(dir)
    IN  [source |-> Files(dir), skipped |-> {},
         lo |-> IF asShown THEN 0 ELSE lo, hi |-> IF asShown THEN ShownTime(dir.meta.end) ELSE hi]

ClipSelectedRange ==
    /\ Free /\ selectedIndex # 0 /\ SelectedId \in DOMAIN sessionDirs
    /\ \E second \in Seconds :
       LET dir == sessionDirs[SelectedId]
           id == Append(SelectedId, second)
           a == IF rangeText[1] = 0 THEN dir.meta.start ELSE rangeText[1]
           b == IF rangeText[2] = 0 THEN dir.meta.end ELSE rangeText[2]
           lo == IF a > b THEN b ELSE a
           hi == IF a > b THEN a ELSE b
           there == id \in DOMAIN sessionDirs
       IN  /\ Files(dir) # <<>>
           /\ Cardinality(DOMAIN promise \cup {id}) <= MaxClips
           /\ sessionDirs' = IF there THEN sessionDirs ELSE With(sessionDirs, id, EmptyDir)
           /\ clip' = [at |-> "file", id |-> id, source |-> Files(dir), file |-> 0, next |-> 0,
                       lo |-> lo, hi |-> hi, listed |-> 0, full |-> 0,
                       count |-> 0, start |-> 0, end |-> 0]
           /\ promise' = With(promise, id, Promised(dir, lo, hi))
           /\ reused' = IF there THEN reused \cup {id} ELSE reused \ {id}
           /\ flawed' = IF there THEN flawed ELSE flawed \ {id}
    /\ UNCHANGED <<listVars, hung>>

\* The next file of the source is opened, or cannot be and is passed over.
OpenSource ==
    /\ clip.at = "file" /\ clip.file < Len(clip.source)
    /\ \/ /\ clip' = [clip EXCEPT !.at = "frame", !.file = @ + 1, !.next = 1]
          /\ UNCHANGED promise
       \/ /\ clip' = [clip EXCEPT !.file = @ + 1, !.next = 1]
          /\ promise' = [promise EXCEPT ![clip.id].skipped = @ \cup {clip.file + 1}]
    /\ UNCHANGED <<sessionDirs, listVars, hung, reused, flawed>>

\* The frame goes to the file the clip is at, or to a new one.
Rolls == clip.listed = 0 \/ clip.full >= ChunkLimit
PutFrame(files, t) ==
    IF Rolls
    THEN IF clip.listed < Len(files) THEN [files EXCEPT ![clip.listed + 1] = <<t>>]
         ELSE Append(files, <<t>>)
    ELSE [files EXCEPT ![clip.listed] = Append(@, t)]

(* closeChunk looks at no result: what is in the buffer of the file the    *)
(* clip is at may be lost, from some frame on or from within it.           *)
Cut(files, n, keep, end) == [files EXCEPT ![n] = SubSeq(@, 1, keep) \o end]
Closings(files) ==
    {files} \cup
    IF clip.listed = 0 THEN {}
    ELSE {Cut(files, clip.listed, keep, end) : keep \in 0..(clip.full - 1), end \in {<<>>, <<Torn>>}}
ClipDir == sessionDirs[clip.id]

\* What is read next, if the file has not ended.
ToRead == clip.next \in DOMAIN clip.source[clip.file]
Read == clip.source[clip.file][clip.next]

\* Mutant: what cannot be read ends the file, as it does in a replay.
ReadOn ==
    /\ clip' = IF ~ToRead \/ Read = Torn THEN [clip EXCEPT !.at = "file"]
               ELSE [clip EXCEPT !.next = @ + 1]
    /\ UNCHANGED <<sessionDirs, flawed>>
ReadAway ==
    /\ clip' = IF ~ToRead THEN [clip EXCEPT !.at = "file"]
               ELSE IF Read = Torn THEN [clip EXCEPT !.at = "failed"]
               ELSE [clip EXCEPT !.next = @ + 1]
    /\ UNCHANGED <<sessionDirs, flawed>>
CopyFrame(t) ==
    \E files \in IF Rolls THEN Closings(ClipDir.files) ELSE {ClipDir.files} :
        \/ /\ Loses(clip.id, [ClipDir EXCEPT !.files = PutFrame(files, t)],
                             [ClipDir EXCEPT !.files = PutFrame(@, t)])
           /\ clip' = [clip EXCEPT !.next = @ + 1,
                                   !.listed = IF Rolls THEN @ + 1 ELSE @,
                                   !.full = IF Rolls THEN 1 ELSE @ + 1,
                                   !.count = @ + 1,
                                   !.start = IF @ = 0 THEN t ELSE @, !.end = t]
        \/ /\ \E tail \in BOOLEAN :
                  LET Left(f) == IF tail THEN PutFrame(f, Torn) ELSE f
                  IN  Loses(clip.id, [ClipDir EXCEPT !.files = Left(files)],
                                     [ClipDir EXCEPT !.files = Left(@)])
           /\ clip' = [clip EXCEPT !.at = "failed", !.listed = IF Rolls THEN 0 ELSE @]
ClipFrame ==
    /\ clip.at = "frame"
    /\ IF ToRead /\ Read # Torn /\ clip.lo <= Read /\ Read <= clip.hi
       THEN CopyFrame(Read) ELSE ReadAway
    /\ UNCHANGED <<listVars, hung, promise, reused>>

\* The last file is closed, and session.json is written, or not, or stays what
\* it was.
FinishClip ==
    /\ clip.at = "file" /\ clip.file = Len(clip.source) /\ clip.count > 0
    /\ \E meta \in {[here |-> TRUE, chunks |-> clip.listed, count |-> clip.count,
                     start |-> clip.start, end |-> clip.end],
                    NoMeta, ClipDir.meta},
          files \in Closings(ClipDir.files) :
           Loses(clip.id, [files |-> files, meta |-> meta], [ClipDir EXCEPT !.meta = meta])
    /\ ListSessions(sessionDirs', SelectedId, clip.id)
    /\ clip' = IdleClip
    /\ UNCHANGED <<hung, promise, reused>>

\* Without a frame, or half-way: the directory is removed, or a part of it.
FailClip ==
    /\ clip.at = "failed" \/ (clip.at = "file" /\ clip.file = Len(clip.source) /\ clip.count = 0)
    /\ \/ sessionDirs' = Without(sessionDirs, clip.id) /\ UNCHANGED flawed
       \/ \E files \in Closings(ClipDir.files) :
          \E dir \in Remainders([ClipDir EXCEPT !.files = files]) : Loses(clip.id, dir, ClipDir)
    /\ clip' = IdleClip
    /\ UNCHANGED <<listVars, hung, promise, reused>>

(* ------------------------------ the world ------------------------------ *)

\* Somebody else deletes a directory.
Vanish ==
    /\ clip.at = "idle"
    /\ \E id \in DOMAIN sessionDirs : sessionDirs' = Without(sessionDirs, id)
    /\ UNCHANGED <<listVars, clip, hung, promise, reused, flawed>>

(* The program starts, or ends and starts again.  The file a clip was at   *)
(* keeps some of its frames, and perhaps a part of one.                    *)
Restart ==
    /\ \E keep \in 0..(IF Clipping THEN clip.full ELSE 0), end \in {<<>>, <<Torn>>} :
           sessionDirs' = IF ~Clipping \/ clip.listed = 0 THEN sessionDirs
                          ELSE [sessionDirs EXCEPT
                                   ![clip.id].files = Cut(@, clip.listed, keep, end)]
    /\ ListSessions(sessionDirs', NoSelection, NoSelection)
    /\ clip' = IdleClip /\ hung' = FALSE
    /\ UNCHANGED <<promise, reused, flawed>>

LibraryNext ==
    \/ RefreshSessionList \/ OpenDirectory \/ SelectSession \/ EditRange \/ PressWithoutSession
    \/ RemoveSelectedSession \/ ClipSelectedRange \/ OpenSource \/ ClipFrame
    \/ FinishClip \/ FailClip \/ Vanish \/ Restart
LibrarySpec == LibraryInit /\ [][LibraryNext]_libraryVars

(* ----------------------------- properties ------------------------------ *)

\* What of the files that could be opened is in the range.
Owed(due) ==
    {p \in Frames(due.source) :
        p[1] \notin due.skipped /\ due.lo <= TimeAt(due.source, p) /\ TimeAt(due.source, p) <= due.hi}

\* Each frame in the files is one that is owed, in the order of the source,
IsOwed(origin, files, due) ==
    /\ \A p \in Frames(files) : TimeAt(files, p) = TimeAt(due.source, origin[p])
    /\ \A p, q \in Frames(files) : Before(p, q) => Before(origin[p], origin[q])
\* and no other is missing before it.
FromTheFirst(origin, files, due) ==
    \A p \in Frames(files) : \A r \in Owed(due) :
        Before(r, origin[p]) => \E q \in Frames(files) : origin[q] = r

(* At any time, also after a crash or a failing disk, a clip holds what it *)
(* should hold up to some frame; once it has a session.json it holds all   *)
(* of it, in the files that are listed, and nothing of a torn source.      *)
(* Files that could not be opened are missing without a word.  A clip of   *)
(* which a file was not closed well, or which is left of a removal, lacks  *)
(* frames that its session.json counts; it holds no other than it should,  *)
(* and in their order.                                                     *)
ClipIsExact(dir, due, whole) ==
    \E origin \in [Frames(dir.files) -> Owed(due)] :
        /\ IsOwed(origin, dir.files, due)
        /\ whole => FromTheFirst(origin, dir.files, due)
        /\ dir.meta.here /\ ~whole => Cardinality(Frames(dir.files)) <= dir.meta.count
        /\ dir.meta.here /\ whole =>
               /\ \A r \in Owed(due) : \E p \in Frames(dir.files) : origin[p] = r
               /\ \A p \in Places(due.source) \ Frames(due.source) : p[1] \in due.skipped
               /\ dir.meta.chunks = Len(dir.files)
               /\ dir.meta.count = Cardinality(Places(dir.files))
               /\ Frames(dir.files) = Places(dir.files)
               /\ \E p \in Places(dir.files) : /\ dir.meta.start = TimeAt(dir.files, p)
                                               /\ \A q \in Places(dir.files) : ~Before(q, p)
               /\ \E p \in Places(dir.files) : /\ dir.meta.end = TimeAt(dir.files, p)
                                               /\ \A q \in Places(dir.files) : ~Before(p, q)

(* Clips are exact, but for those written over an earlier one of the same  *)
(* source and second (clipSelectedRange).  The main thread hangs only if   *)
(* nothing is selected, and with sessions in the list that takes a step    *)
(* off one of its ends.                                                    *)
ClipsAreExact ==
    /\ \A id \in (DOMAIN promise \cap DOMAIN sessionDirs) \ reused :
           ClipIsExact(sessionDirs[id], promise[id], id \notin flawed)
    /\ hung => selectedIndex = 0
    /\ selectedIndex = 0 => sessionList = <<>> \/ stepped
=============================================================================
