------------------------------ MODULE Recorder ------------------------------
(***************************************************************************)
(* Recording in RecordReplayController: bus messages are queued by the     *)
(* main thread and written to chunk files by the writer thread, until      *)
(* stopRecord lets the writer drain the queue, joins it and seals the      *)
(* session directory.  The disk may fail, and the process may die.  What   *)
(* is written is buffered, and nobody looks whether the closing of a file  *)
(* brings it to the disk; what is removed may be removed in part.          *)
(*                                                                         *)
(* A frame is its arrival number and its size.  A chunk file is the        *)
(* sequence of the numbers written to it; Torn stands for the bytes of a   *)
(* write that was cut short, past which a reader does not get: it may take *)
(* what follows for the rest of that frame, but for none of the others.    *)
(***************************************************************************)
EXTENDS Integers, Sequences, SequencesExt, FiniteSets

CONSTANTS QueueLimit,   \* kQueueLimitBytes
          ChunkLimit,   \* kChunkSizeBytes
          Sizes,        \* the sizes a frame may have
          Ids,          \* seconds of the clock, which name the sessions
          Arrivals      \* numbers of the frames that may arrive, a bound for TLC

ASSUME LimitsAssumption == QueueLimit \in Nat /\ ChunkLimit \in Nat \ {0}
ASSUME SizesAssumption == Sizes \subseteq Nat \ {0}
ASSUME IdsAssumption == Ids \subseteq Nat \ {0}
ASSUME ArrivalsAssumption == Arrivals \subseteq Nat \ {0}

VARIABLES
    clock,          \* the second now; newSessionId() tells no finer
    ui,             \* main thread: "idle", "counting" a drop, "joining" the writer
    recording,      \* recording_
    active,         \* activeSession_.sessionId, 0 if there is none
    queue,          \* queue_
    queuedBytes,    \* queuedBytes_
    dropped,        \* droppedFrameCount_, a plain integer both threads increment
    uiSeen,         \* the value the main thread is incrementing
    writer,         \* writer thread: "off", "waiting", "writing", "counting", "exited"
    writerSeen,     \* the value the writer is incrementing
    hand,           \* the frames (at most one) the writer has taken but not written
    writerStop,     \* writerStop_
    session,        \* the rest of activeSession_
    chunk,          \* the chunk being written: currentChunk{Index,Bytes,File}_
    files,          \* session directory -> chunk index -> contents
    meta,           \* session directory -> its session.json
    arrived,        \* frames that reached onBusMessage so far
    base,           \* how many of them before this recording
    reused,         \* directories that were recorded into more than once
    spoilt          \* directories in which a close has lost frames, or left a file
                    \* it was to delete, or a removal has stopped half-way

vars == <<clock, ui, recording, active, queue, queuedBytes, dropped, uiSeen,
          writer, writerSeen, hand, writerStop, session, chunk, files, meta,
          arrived, base, reused, spoilt>>

queueVars == <<queue, queuedBytes>>
sessionVars == <<session, chunk>>
disk == <<files, meta, spoilt>>
history == <<arrived, base, reused>>

Torn == 0

\* SessionData(), and what loadSession makes of a directory without session.json.
NoData == [chunks |-> <<>>, count |-> 0, first |-> 0, last |-> 0]
NoChunk == [index |-> 0, bytes |-> 0, open |-> FALSE]

With(f, i, contents) == [j \in DOMAIN f \cup {i} |-> IF j = i THEN contents ELSE f[j]]
Without(f, i) == [j \in DOMAIN f \ {i} |-> f[j]]

Init ==
    /\ clock \in Ids
    /\ ui = "idle"
    /\ recording = FALSE
    /\ active = 0
    /\ queue = <<>>
    /\ queuedBytes = 0
    /\ dropped = 0
    /\ uiSeen = 0
    /\ writer = "off"
    /\ writerSeen = 0
    /\ hand = <<>>
    /\ writerStop = FALSE
    /\ session = NoData
    /\ chunk = NoChunk
    /\ files = [s \in Ids |-> <<>>]
    /\ meta = [s \in Ids |-> NoData]
    /\ arrived = 0
    /\ base = 0
    /\ reused = {}
    /\ spoilt = {}

-----------------------------------------------------------------------------
(* Chunk files.                                                            *)

\* Session, open chunk and directory, as openNextChunk and friends find them, and
\* whether a close of theirs has lost something.
Now(d) == [session |-> session, chunk |-> chunk, dir |-> files[d], lost |-> FALSE]

\* Mutant: the file of an empty chunk is deleted, its name stays listed.
CloseKeepsName(now) ==
    IF ~now.chunk.open THEN now
    ELSE [now EXCEPT !.chunk.bytes = 0, !.chunk.open = FALSE,
                     !.dir = IF now.chunk.bytes = 0 THEN Without(@, now.chunk.index) ELSE @]

(* A chunk nothing was written to is deleted and taken off the list again. *)
CloseChunk(now) ==
    IF ~now.chunk.open THEN now
    ELSE [now EXCEPT
             !.session.chunks = IF now.chunk.bytes = 0 THEN Front(@) ELSE @,
             !.chunk.bytes = 0, !.chunk.open = FALSE,
             !.dir = IF now.chunk.bytes = 0 THEN Without(@, now.chunk.index) ELSE @]

\* What may be left of a file if not all of it got to the disk: it ends after a
\* frame or inside one.
Cut(written, kept, end) == SubSeq(written, 1, kept) \o end

Cuts(written) ==
    {Cut(written, kept, end) : kept \in 0..(Len(written) - 1), end \in {<<>>, <<Torn>>}}

(* closeCurrentChunk looks neither at flush() nor at close() nor, for an   *)
(* empty chunk, at QFile::remove().                                        *)
Closings(now) ==
    LET written == now.dir[now.chunk.index]
        left == Cuts(written) \cup (IF now.chunk.bytes = 0 THEN {written} ELSE {})
    IN  {CloseChunk(now)} \cup
        (IF ~now.chunk.open THEN {}
         ELSE {[CloseChunk(now) EXCEPT !.dir = With(now.dir, now.chunk.index, contents),
                                       !.lost = TRUE] : contents \in left})

(* openNextChunk, once the last one is closed.  The index moves on even if *)
(* the file cannot be created.                                             *)
OpenNextChunk(closed, created) ==
    LET index == closed.chunk.index + 1
    IN  IF created
        THEN [closed EXCEPT !.session.chunks = Append(@, index),
                            !.chunk = [index |-> index, bytes |-> 0, open |-> TRUE],
                            !.dir = With(@, index, <<>>)]
        ELSE [closed EXCEPT !.chunk.index = index]

Spoils(lost) == spoilt' = IF lost THEN spoilt \cup {active} ELSE spoilt

(* The directory of s holds dir and a session.json that reads data.  One   *)
(* that is empty is as good as new.                                        *)
Leave(s, dir, data, lost) ==
    LET gone == DOMAIN dir = {} /\ data = NoData
    IN  /\ files' = [files EXCEPT ![s] = dir]
        /\ meta' = [meta EXCEPT ![s] = data]
        /\ reused' = IF gone THEN reused \ {s} ELSE reused
        /\ spoilt' = IF gone THEN spoilt \ {s} ELSE IF lost THEN spoilt \cup {s} ELSE spoilt

(* removeRecursively, which may fail half-way: any of the files stay, with *)
(* session.json or without.                                                *)
RemoveDirectory(s, dir) ==
    \E kept \in SUBSET DOMAIN dir, data \in {meta[s], NoData} :
        Leave(s, [i \in kept |-> dir[i]], data, kept # DOMAIN dir \/ data # meta[s])

NeedsChunk == ~chunk.open \/ chunk.bytes >= ChunkLimit

-----------------------------------------------------------------------------
(* The main thread.                                                        *)

Tick ==
    /\ clock + 1 \in Ids
    /\ clock' = clock + 1
    /\ UNCHANGED <<ui, recording, active, queueVars, dropped, uiSeen, writer,
                   writerSeen, hand, writerStop, sessionVars, disk, history>>

\* Mutant: session directories are named after every other second.
CoarseSessionId == ((clock - 1) \div 2) * 2 + 1

NewSessionId == clock

(* startRecord: the directory is the second, so a recording stopped and    *)
(* started again within one second goes into the directory it had.         *)
StartRecord ==
    /\ ui = "idle"
    /\ ~recording
    /\ \E created \in BOOLEAN :
           LET id == NewSessionId
               fresh == [session |-> NoData, chunk |-> NoChunk, dir |-> files[id],
                         lost |-> FALSE]
               opened == OpenNextChunk(fresh, created)
           IN  /\ session' = IF created THEN opened.session ELSE NoData
               /\ chunk' = opened.chunk
               /\ files' = [files EXCEPT ![id] = opened.dir]
               /\ active' = IF created THEN id ELSE 0
               /\ recording' = created
               /\ writer' = IF created THEN "waiting" ELSE writer
               /\ writerStop' = IF created THEN FALSE ELSE writerStop
               /\ reused' = IF created /\ (DOMAIN files[id] # {} \/ meta[id] # NoData)
                            THEN reused \cup {id} ELSE reused
    /\ queue' = <<>>
    /\ queuedBytes' = 0
    /\ dropped' = 0
    /\ base' = arrived
    /\ UNCHANGED <<clock, ui, uiSeen, writerSeen, hand, meta, arrived, spoilt>>

(* onBusMessage, for a topic that passes the filter, while recording.      *)
Receive(size) ==
    /\ ui = "idle"
    /\ recording
    /\ arrived + 1 \in Arrivals
    /\ queuedBytes + size <= QueueLimit
    /\ queue' = Append(queue, [n |-> arrived + 1, size |-> size])
    /\ queuedBytes' = queuedBytes + size
    /\ arrived' = arrived + 1
    /\ UNCHANGED <<clock, ui, recording, active, dropped, uiSeen, writer, writerSeen,
                   hand, writerStop, sessionVars, disk, base, reused>>

(* The queue is full.  The frame is dropped and ++droppedFrameCount_ done  *)
(* holding queueMutex_, which the writer does not take for its own ++.     *)
ReceiveFull(size) ==
    /\ ui = "idle"
    /\ recording
    /\ arrived + 1 \in Arrivals
    /\ queuedBytes + size > QueueLimit
    /\ arrived' = arrived + 1
    /\ uiSeen' = dropped
    /\ ui' = "counting"
    /\ UNCHANGED <<clock, recording, active, queueVars, dropped, writer, writerSeen,
                   hand, writerStop, sessionVars, disk, base, reused>>

CountDrop ==
    /\ ui = "counting"
    /\ dropped' = uiSeen + 1
    /\ ui' = "idle"
    /\ UNCHANGED <<clock, recording, active, queueVars, uiSeen, writer, writerSeen,
                   hand, writerStop, sessionVars, disk, history>>

\* stopRecord up to the join.
StopRecord ==
    /\ ui = "idle"
    /\ recording
    /\ recording' = FALSE
    /\ writerStop' = TRUE
    /\ ui' = "joining"
    /\ UNCHANGED <<clock, active, queueVars, dropped, uiSeen, writer, writerSeen,
                   hand, sessionVars, disk, history>>

(* The rest of stopRecord: close the chunk, write session.json (which may  *)
(* stay as it was, or not be readable, without notice) or, if nothing was  *)
(* recorded, remove the directory.                                         *)
FinishStop ==
    /\ ui = "joining"
    /\ writer = "exited"
    /\ \E closed \in Closings(Now(active)) :
           /\ IF closed.session.count > 0 /\ closed.session.chunks # <<>>
              THEN \E data \in {closed.session, meta[active], NoData} :
                       Leave(active, closed.dir, data, closed.lost)
              ELSE RemoveDirectory(active, closed.dir)
           /\ chunk' = closed.chunk
    /\ session' = NoData
    /\ active' = 0
    /\ writer' = "off"
    /\ ui' = "idle"
    /\ UNCHANGED <<clock, recording, queueVars, dropped, uiSeen, writerSeen, hand,
                   writerStop, arrived, base>>

(* removeSelectedSession, of a session the list shows.                     *)
RemoveSession(s) ==
    /\ ui = "idle"
    /\ ~recording
    /\ DOMAIN files[s] # {} \/ meta[s].chunks # <<>>
    /\ RemoveDirectory(s, files[s])
    /\ UNCHANGED <<clock, ui, recording, active, queueVars, dropped, uiSeen, writer,
                   writerSeen, hand, writerStop, sessionVars, arrived, base>>

-----------------------------------------------------------------------------
(* The writer thread.                                                      *)

\* Mutant: the newest frame is taken first.
WriterTakeNewest ==
    /\ writer = "waiting"
    /\ ui # "counting"
    /\ queue # <<>>
    /\ hand' = <<Last(queue)>>
    /\ queue' = Front(queue)
    /\ queuedBytes' = queuedBytes - Last(queue).size
    /\ writer' = "writing"
    /\ UNCHANGED <<clock, ui, recording, active, dropped, uiSeen, writerSeen,
                   writerStop, sessionVars, disk, history>>

\* Mutant: the bytes of a popped frame stay on the account.
WriterTakeUncounted ==
    /\ writer = "waiting"
    /\ ui # "counting"
    /\ queue # <<>>
    /\ hand' = <<Head(queue)>>
    /\ queue' = Tail(queue)
    /\ writer' = "writing"
    /\ UNCHANGED <<clock, ui, recording, active, queuedBytes, dropped, uiSeen,
                   writerSeen, writerStop, sessionVars, disk, history>>

(* Pop a frame, unless the main thread holds the mutex to count a drop.    *)
WriterTake ==
    /\ writer = "waiting"
    /\ ui # "counting"
    /\ queue # <<>>
    /\ hand' = <<Head(queue)>>
    /\ queue' = Tail(queue)
    /\ queuedBytes' = queuedBytes - Head(queue).size
    /\ writer' = "writing"
    /\ UNCHANGED <<clock, ui, recording, active, dropped, uiSeen, writerSeen,
                   writerStop, sessionVars, disk, history>>

(* Told to stop, and the queue is empty.  Whether the writer was woken or  *)
(* its 100 ms were up makes no difference.                                 *)
WriterLeave ==
    /\ writer = "waiting"
    /\ ui # "counting"
    /\ queue = <<>>
    /\ writerStop
    /\ writer' = "exited"
    /\ UNCHANGED <<clock, ui, recording, active, queueVars, dropped, uiSeen,
                   writerSeen, hand, writerStop, sessionVars, disk, history>>

(* Where the frame is to go, after writeFrame rolled the chunk if it had   *)
(* to: the places are as many as the ways in which the last one closes.    *)
Targets ==
    IF NeedsChunk THEN {OpenNextChunk(closed, TRUE) : closed \in Closings(Now(active))}
    ELSE {Now(active)}

\* writeFrame, when it returns true.
WriteFrame ==
    /\ writer = "writing"
    /\ \E target \in Targets :
           LET frame == Head(hand)
               i == target.chunk.index
           IN  /\ session' = [target.session EXCEPT
                                  !.count = @ + 1,
                                  !.first = IF @ = 0 THEN frame.n ELSE @,
                                  !.last = frame.n]
               /\ chunk' = [target.chunk EXCEPT !.bytes = @ + frame.size]
               /\ files' = [files EXCEPT ![active] =
                                With(target.dir, i, Append(target.dir[i], frame.n))]
               /\ Spoils(target.lost)
    /\ hand' = <<>>
    /\ writer' = "waiting"
    /\ UNCHANGED <<clock, ui, recording, active, queueVars, dropped, uiSeen,
                   writerSeen, writerStop, meta, history>>

\* Mutant: the frame is counted before the write that then fails.
WriteFailsCounted ==
    /\ writer = "writing"
    /\ \E target \in Targets :
           /\ session' = [target.session EXCEPT !.count = @ + 1]
           /\ chunk' = target.chunk
           /\ files' = [files EXCEPT ![active] = target.dir]
           /\ Spoils(target.lost)
    /\ hand' = <<>>
    /\ writerSeen' = dropped
    /\ writer' = "counting"
    /\ UNCHANGED <<clock, ui, recording, active, queueVars, dropped, uiSeen,
                   writerStop, meta, history>>

\* Mutant: a frame that could not be written is put back to be tried again.
WriteRetries ==
    /\ writer = "writing"
    /\ queue' = hand \o queue
    /\ queuedBytes' = queuedBytes + Head(hand).size
    /\ hand' = <<>>
    /\ writer' = "waiting"
    /\ UNCHANGED <<clock, ui, recording, active, dropped, uiSeen, writerSeen,
                   writerStop, sessionVars, disk, history>>

(* writeFrame, when it returns false: no chunk could be opened, or the     *)
(* write failed and left nothing or a torn frame.  The counter is read.    *)
WriteFails ==
    /\ writer = "writing"
    /\ \/ /\ NeedsChunk
          /\ \E closed \in Closings(Now(active)) :
                 LET failed == OpenNextChunk(closed, FALSE)
                 IN  /\ session' = failed.session
                     /\ chunk' = failed.chunk
                     /\ files' = [files EXCEPT ![active] = failed.dir]
                     /\ Spoils(failed.lost)
       \/ \E target \in Targets, left \in {<<>>, <<Torn>>} :
              LET i == target.chunk.index
              IN  /\ session' = target.session
                  /\ chunk' = target.chunk
                  /\ files' = [files EXCEPT ![active] =
                                   With(target.dir, i, target.dir[i] \o left)]
                  /\ Spoils(target.lost)
    /\ hand' = <<>>
    /\ writerSeen' = dropped
    /\ writer' = "counting"
    /\ UNCHANGED <<clock, ui, recording, active, queueVars, dropped, uiSeen,
                   writerStop, meta, history>>

WriterCountDrop ==
    /\ writer = "counting"
    /\ dropped' = writerSeen + 1
    /\ writer' = "waiting"
    /\ UNCHANGED <<clock, ui, recording, active, queueVars, uiSeen, writerSeen,
                   hand, writerStop, sessionVars, disk, history>>

-----------------------------------------------------------------------------
(* The process dies and is started again.  Of the chunk that was open, the *)
(* part that had left the process is there, its last frame perhaps torn.   *)
Crash ==
    /\ IF chunk.open
       THEN LET written == files[active][chunk.index]
            IN  \E contents \in {written} \cup Cuts(written) :
                    files' = [files EXCEPT ![active] = With(@, chunk.index, contents)]
       ELSE UNCHANGED files
    /\ ui' = "idle"
    /\ recording' = FALSE
    /\ active' = 0
    /\ queue' = <<>>
    /\ queuedBytes' = 0
    /\ dropped' = 0
    /\ writer' = "off"
    /\ hand' = <<>>
    /\ writerStop' = FALSE
    /\ session' = NoData
    /\ chunk' = NoChunk
    /\ UNCHANGED <<clock, uiSeen, writerSeen, meta, spoilt, history>>

WriterStep ==
    WriterTake \/ WriterLeave \/ WriteFrame \/ WriteFails \/ WriterCountDrop

Next ==
    \/ Tick \/ StartRecord \/ CountDrop \/ StopRecord \/ FinishStop
    \/ \E size \in Sizes : Receive(size) \/ ReceiveFull(size)
    \/ \E s \in Ids : RemoveSession(s)
    \/ WriterStep
    \/ Crash

Spec == Init /\ [][Next]_vars

(* Both threads are scheduled: the writer goes on as long as it can, the   *)
(* main thread finishes what it is in the middle of.                       *)
FairSpec ==
    Spec /\ WF_vars(WriterStep) /\ WF_vars(CountDrop) /\ WF_vars(FinishStop)

-----------------------------------------------------------------------------
Frame == [n : Nat \ {0}, size : Sizes]

SessionData == [chunks : Seq(Nat \ {0}), count : Nat, first : Nat, last : Nat]

(* queuedBytes_ is what the queued frames add up to, so the limit is one   *)
(* on the queue and not on a counter that has drifted from it: there are   *)
(* running totals that start at 0, grow by the frames and end there.       *)
QueuedBytesExact ==
    \E total \in [0..Len(queue) -> 0..queuedBytes] :
        /\ total[0] = 0
        /\ \A i \in DOMAIN queue : total[i] = total[i - 1] + queue[i].size
        /\ total[Len(queue)] = queuedBytes

TypeOK ==
    /\ clock \in Ids
    /\ ui \in {"idle", "counting", "joining"}
    /\ recording \in BOOLEAN
    /\ active \in Ids \cup {0}
    /\ queue \in Seq(Frame)
    /\ queuedBytes \in 0..QueueLimit /\ QueuedBytesExact
    /\ dropped \in Nat
    /\ uiSeen \in Nat
    /\ writer \in {"off", "waiting", "writing", "counting", "exited"}
    /\ writerSeen \in Nat
    /\ hand \in Seq(Frame) /\ Len(hand) = IF writer = "writing" THEN 1 ELSE 0
    /\ writerStop \in BOOLEAN
    /\ session \in SessionData
    /\ chunk \in [index : Nat, bytes : Nat, open : BOOLEAN]
    /\ \A s \in Ids : \A i \in DOMAIN files[s] : files[s][i] \in Seq(Nat)
    /\ meta \in [Ids -> SessionData]
    /\ arrived \in Nat
    /\ base \in 0..arrived
    /\ reused \subseteq Ids
    /\ spoilt \subseteq Ids

(* A place on disk is a chunk, by its position in the list, and a position *)
(* in that chunk's file, if it is there; a frame is at each that is not    *)
(* torn.  A reader of the chunks meets the places in the order of Before,  *)
(* and of each file what is before the first torn frame.                   *)
At(dir, chunks, p) == dir[chunks[p[1]]][p[2]]

Whole(dir, chunks) ==
    {p \in UNION {{k} \X DOMAIN dir[chunks[k]] : k \in {k \in DOMAIN chunks : chunks[k] \in DOMAIN dir}} :
        At(dir, chunks, p) # Torn}

Places(dir, chunks) ==
    {p \in Whole(dir, chunks) : \A k \in 1..p[2] : <<p[1], k>> \in Whole(dir, chunks)}

Before(p, q) == p[1] < q[1] \/ (p[1] = q[1] /\ p[2] < q[2])

(* What is on disk, in the writer's hand and in the queue, in this order,  *)
(* is what arrived in its order, less some drops: the two threads and the  *)
(* rolling of chunks neither reorder nor duplicate a frame.                *)
ArrivalOrderKept ==
    active # 0 =>
        LET places == Whole(files[active], session.chunks)
            Number(p) == At(files[active], session.chunks, p)
            coming == hand \o queue
        IN  /\ \A p \in places : base < Number(p)
            /\ \A p, q \in places : Before(p, q) => Number(p) < Number(q)
            /\ \A p \in places : \A i \in DOMAIN coming : Number(p) < coming[i].n
            /\ \A i \in DOMAIN coming : base < coming[i].n
            /\ \A i, j \in DOMAIN coming : i < j => coming[i].n < coming[j].n

PendingDrops ==
    (IF ui = "counting" THEN 1 ELSE 0) + (IF writer = "counting" THEN 1 ELSE 0)

Kept == session.count + Len(hand) + Len(queue)

(* The two threads increment the drop counter without a common lock, so a  *)
(* drop may go uncounted.  Still it counts no drop that was none, and it   *)
(* is 0 only if every frame of the recording has been kept.                *)
DropCountIsHonest ==
    active # 0 =>
        /\ Kept + dropped + PendingDrops <= arrived - base
        /\ dropped = 0 => Kept + PendingDrops = arrived - base

(* A session.json that tells what is in the directory: its chunks are the  *)
(* files, none is without a frame, and it counts the frames and tells the  *)
(* first and the last.  A reader finds them all unless one is torn.        *)
MatchesDisk(data, dir) ==
    LET whole == Whole(dir, data.chunks)
    IN  /\ DOMAIN dir = ToSet(data.chunks)
        /\ \A i \in DOMAIN dir : \E k \in DOMAIN dir[i] : dir[i][k] # Torn
        /\ data.count = Cardinality(whole)
        /\ \E p \in whole : data.first = At(dir, data.chunks, p)
                            /\ \A q \in whole : ~Before(q, p)
        /\ \E p \in whole : data.last = At(dir, data.chunks, p)
                            /\ \A q \in whole : ~Before(p, q)

(* A session.json that claims no less than a reader finds: frames in the   *)
(* order they came, between the first and the last, and no more than it    *)
(* counts.                                                                 *)
CoversDisk(data, dir) ==
    LET places == Places(dir, data.chunks)
        Number(p) == At(dir, data.chunks, p)
    IN  /\ Cardinality(places) <= data.count
        /\ \A p \in places : data.first <= Number(p) /\ Number(p) <= data.last
        /\ \A p, q \in places : Before(p, q) => Number(p) < Number(q)

(* session.json of a finished recording covers what a reader of its chunks *)
(* finds, whatever was lost when they were closed or by a removal that     *)
(* stopped half-way, and tells exactly what is there if nothing was.  Not  *)
(* so for a directory that was recorded into twice: see reused.            *)
MetaMatchesDisk ==
    \A s \in Ids \ (reused \cup {active}) :
        meta[s] # NoData =>
            /\ CoversDisk(meta[s], files[s])
            /\ s \notin spoilt => MatchesDisk(meta[s], files[s])

(* Once the second it is named after has passed, a finished recording is   *)
(* left alone until it is removed, whatever else is recorded or crashes;   *)
(* a removal deletes what is there and changes nothing else.               *)
FinishedStays ==
    [][\A s \in Ids :
           DOMAIN files[s] # {} /\ s # active /\ s < clock =>
               \/ files'[s] = files[s] /\ meta'[s] = meta[s]
               \/ /\ ~recording
                  /\ DOMAIN files'[s] \subseteq DOMAIN files[s]
                  /\ \A i \in DOMAIN files'[s] : files'[s][i] = files[s][i]
                  /\ meta'[s] \in {meta[s], NoData}]_vars

(* stopRecord returns: the writer drains whatever is queued, failing disk  *)
(* or not, and lets itself be joined.                                      *)
StopReturns == ui = "joining" ~> ui = "idle"
=============================================================================
