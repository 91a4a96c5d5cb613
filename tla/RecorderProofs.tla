--------------------------- MODULE RecorderProofs ---------------------------
(***************************************************************************)
(* For every limit, frame size and length of recording, failing disks and  *)
(* crashes included: the drop counter of Recorder is honest although its   *)
(* two writers race, the queue stays within its bytes, frames reach the    *)
(* disk in the order they came, session.json covers what is found in the   *)
(* chunks and is true to them if no close or removal went wrong, and       *)
(* finished recordings are left alone.                                     *)
(***************************************************************************)
EXTENDS Recorder, FiniteSetTheorems, TLAPS

Shape(data) ==
    data = [chunks |-> data.chunks, count |-> data.count,
            first |-> data.first, last |-> data.last]

NowOf(data, ch, dir) == [session |-> data, chunk |-> ch, dir |-> dir, lost |-> FALSE]

RecordOf(now) ==
    [session |-> now.session, chunk |-> now.chunk, dir |-> now.dir, lost |-> now.lost]

(* Where the threads can be: there is a session exactly while there is a   *)
(* writer, and the writer holds a frame exactly while it writes.           *)
ControlInv ==
    /\ clock \in Ids
    /\ active \in Ids \cup {0}
    /\ ui \in {"idle", "counting", "joining"}
    /\ writer \in {"off", "waiting", "writing", "counting", "exited"}
    /\ recording <=> active # 0 /\ ui # "joining"
    /\ ui # "idle" => active # 0
    /\ active = 0 <=> writer = "off"
    /\ DOMAIN files = Ids /\ files = [s \in Ids |-> files[s]]
    /\ DOMAIN meta = Ids /\ meta = [s \in Ids |-> meta[s]]

\* The frames the recording still has a chance to keep.
KeptInv ==
    /\ Shape(session) /\ session.count \in Nat
    /\ queue \in Seq(Frame)
    /\ hand \in Seq(Frame) /\ Len(hand) = IF writer = "writing" THEN 1 ELSE 0
    /\ arrived \in Nat /\ base \in Nat
    /\ dropped \in Nat /\ uiSeen \in Nat /\ writerSeen \in Nat

(* A value either thread has read is no larger than the drops there have   *)
(* been, the ones still being counted left out; so is what it stores.      *)
RaceInv ==
    active # 0 =>
        /\ ui = "counting" => Kept + uiSeen + PendingDrops <= arrived - base
        /\ writer = "counting" => Kept + writerSeen + PendingDrops <= arrived - base

IInv == ControlInv /\ KeptInv /\ RaceInv /\ DropCountIsHonest

-----------------------------------------------------------------------------
LEMMA FieldsOfRecord ==
  ASSUME NEW now, NEW data, NEW ch, NEW dir, NEW lost,
         now = [session |-> data, chunk |-> ch, dir |-> dir, lost |-> lost]
  PROVE  /\ now = RecordOf(now)
         /\ now.session = data /\ now.chunk = ch /\ now.dir = dir /\ now.lost = lost
BY DEF RecordOf

(* No closing changes the counters.                                        *)
LEMMA CloseKeepsCount ==
  ASSUME NEW data, NEW ch, NEW dir, Shape(data), NEW closed \in Closings(NowOf(data, ch, dir))
  PROVE  closed = RecordOf(closed) /\ Shape(closed.session) /\ closed.session.count = data.count
<1> DEFINE now == NowOf(data, ch, dir)
           plain == CloseChunk(now)
<1>1. plain = RecordOf(plain) /\ Shape(plain.session) /\ plain.session.count = data.count
  BY DEF CloseChunk, NowOf, Shape, RecordOf
<1>2. closed = plain \/ \E left : closed = [plain EXCEPT !.dir = left, !.lost = TRUE]
  BY DEF Closings
<1> HIDE DEF plain
<1>3. CASE \E left : closed = [plain EXCEPT !.dir = left, !.lost = TRUE]
  <2>1. PICK left : closed = [plain EXCEPT !.dir = left, !.lost = TRUE]
    BY <1>3
  <2>2. PICK a, b, c, d : plain = [session |-> a, chunk |-> b, dir |-> c, lost |-> d]
    BY <1>1, Zenon DEF RecordOf
  <2>3. closed = [session |-> a, chunk |-> b, dir |-> left, lost |-> TRUE]
    BY <2>1, <2>2
  <2>4. closed = RecordOf(closed) /\ closed.session = a
    BY <2>3, FieldsOfRecord, Zenon
  <2>5. plain.session = a
    BY <2>2
  <2> QED BY <1>1, <2>4, <2>5
<1>4. CASE closed = plain
  BY <1>1, <1>4
<1> QED BY <1>2, <1>3, <1>4

LEMMA OpenKeepsCount ==
  ASSUME NEW closed, NEW created \in BOOLEAN, closed = RecordOf(closed), Shape(closed.session)
  PROVE  LET opened == OpenNextChunk(closed, created)
         IN  Shape(opened.session) /\ opened.session.count = closed.session.count
<1> DEFINE index == closed.chunk.index + 1
           opened == OpenNextChunk(closed, created)
<1>1. opened = IF created
               THEN [closed EXCEPT !.session.chunks = Append(@, index),
                                   !.chunk = [index |-> index, bytes |-> 0, open |-> TRUE],
                                   !.dir = With(@, index, <<>>)]
               ELSE [closed EXCEPT !.chunk.index = index]
  BY DEF OpenNextChunk
<1> HIDE DEF opened, index
<1>2. CASE created
  <2>1. opened.session = [closed.session EXCEPT !.chunks = Append(@, index)]
    BY <1>1, <1>2 DEF RecordOf
  <2> QED BY <2>1 DEF Shape, opened
<1>3. CASE ~created
  <2>1. opened.session = closed.session
    BY <1>1, <1>3 DEF RecordOf
  <2> QED BY <2>1 DEF opened
<1> QED BY <1>2, <1>3

LEMMA TargetKeepsCount ==
  ASSUME Shape(session), NEW target \in Targets
  PROVE  target = RecordOf(target) /\ Shape(target.session)
         /\ target.session.count = session.count
<1>1. Now(active) = NowOf(session, chunk, files[active])
  BY DEF Now, NowOf
<1>2. CASE NeedsChunk
  <2>1. PICK closed \in Closings(Now(active)) : target = OpenNextChunk(closed, TRUE)
    BY <1>2 DEF Targets
  <2>2. closed = RecordOf(closed) /\ Shape(closed.session) /\ closed.session.count = session.count
    BY <1>1, CloseKeepsCount
  <2>3. target = RecordOf(target)
    BY <2>1, <2>2 DEF OpenNextChunk, RecordOf
  <2> QED BY <2>1, <2>2, <2>3, OpenKeepsCount
<1>3. CASE ~NeedsChunk
  BY <1>1, <1>3 DEF Targets, NowOf, RecordOf
<1> QED BY <1>2, <1>3

-----------------------------------------------------------------------------
LEMMA InitInvariant == Init => IInv
BY DEF Init, IInv, ControlInv, KeptInv, RaceInv, DropCountIsHonest, Shape, NoData, Frame

(* What a step may do to the numbers, whatever it does to the disk.        *)
LEMMA StutterStep == ASSUME IInv, UNCHANGED vars PROVE IInv'
BY DEF IInv, ControlInv, KeptInv, RaceInv, DropCountIsHonest, Kept, PendingDrops, vars

LEMMA StartRecordStep == ASSUME IInv, StartRecord PROVE IInv'
<1> USE DEF IInv
<1>1. PICK created \in BOOLEAN :
        LET fresh == [session |-> NoData, chunk |-> NoChunk, dir |-> files[clock],
                      lost |-> FALSE]
            opened == OpenNextChunk(fresh, created)
        IN  /\ session' = IF created THEN opened.session ELSE NoData
            /\ files' = [files EXCEPT ![clock] = opened.dir]
            /\ active' = IF created THEN clock ELSE 0
            /\ recording' = created
            /\ writer' = IF created THEN "waiting" ELSE writer
  BY DEF StartRecord, NewSessionId
<1>2. Shape(NoData) /\ NoData.count = 0
  BY DEF Shape, NoData
<1>3. Shape(session') /\ session'.count = 0
  <2> DEFINE fresh == NowOf(NoData, NoChunk, files[clock])
  <2>1. fresh = RecordOf(fresh) /\ fresh.session = NoData
    BY DEF NowOf, RecordOf
  <2>2. session' = IF created THEN OpenNextChunk(fresh, created).session ELSE NoData
    BY <1>1 DEF NowOf
  <2> HIDE DEF fresh
  <2> QED BY <1>2, <2>1, <2>2, OpenKeepsCount
<1>4. active = 0 /\ writer = "off" /\ ui = "idle" /\ hand = <<>>
  BY DEF StartRecord, ControlInv, KeptInv
<1>5. ControlInv'
  BY <1>1, <1>4, IdsAssumption DEF StartRecord, ControlInv
<1>6. KeptInv'
  BY <1>1, <1>3, <1>4 DEF StartRecord, KeptInv, Frame
<1>7. ui' = "idle" /\ writer' # "counting" /\ dropped' = 0
  BY <1>1, <1>4 DEF StartRecord
<1>8. Kept' = 0 /\ arrived' - base' = 0
  BY <1>3, <1>4 DEF StartRecord, Kept, KeptInv
<1> QED BY <1>5, <1>6, <1>7, <1>8 DEF RaceInv, DropCountIsHonest, PendingDrops

(* onBusMessage: one more frame, which is queued or about to be counted.   *)
LEMMA ReceiveStep == ASSUME IInv, NEW size \in Sizes, Receive(size) PROVE IInv'
<1> USE DEF IInv
<1>1. ControlInv' BY DEF Receive, ControlInv, sessionVars, disk
<1>2. queue' \in Seq(Frame) /\ Len(queue') = Len(queue) + 1
  BY DEF Receive, KeptInv, Frame
<1>3. KeptInv'
  <2>1. arrived' \in Nat /\ session' = session /\ hand' = hand /\ writer' = writer
        /\ base' = base /\ dropped' = dropped /\ uiSeen' = uiSeen /\ writerSeen' = writerSeen
    BY DEF Receive, KeptInv, sessionVars
  <2> QED BY <1>2, <2>1 DEF KeptInv
<1>4. Kept' = Kept + 1 /\ arrived' - base' = arrived - base + 1 /\ PendingDrops' = PendingDrops
  <2>1. Kept' = Kept + 1
    <3>1. session' = session /\ hand' = hand
      BY DEF Receive, sessionVars
    <3>2. session.count \in Int /\ Len(hand) \in Int /\ Len(queue) \in Int
      BY DEF KeptInv
    <3> QED BY <1>2, <3>1, <3>2 DEF Kept
  <2>2. arrived' - base' = arrived - base + 1
    BY DEF Receive, KeptInv
  <2>3. PendingDrops' = PendingDrops
    BY DEF Receive, PendingDrops
  <2> QED BY <2>1, <2>2, <2>3
<1>5. Kept \in Int /\ PendingDrops \in Int
  BY DEF Kept, PendingDrops, KeptInv
<1>6. RaceInv'
  BY <1>4, <1>5 DEF Receive, RaceInv, KeptInv
<1>7. DropCountIsHonest'
  BY <1>4, <1>5 DEF Receive, DropCountIsHonest, KeptInv
<1> QED BY <1>1, <1>3, <1>6, <1>7

LEMMA ReceiveFullStep == ASSUME IInv, NEW size \in Sizes, ReceiveFull(size) PROVE IInv'
<1> USE DEF IInv
<1>1. ControlInv' BY DEF ReceiveFull, ControlInv, sessionVars, disk
<1>2. KeptInv' BY DEF ReceiveFull, KeptInv, sessionVars, queueVars
<1>3. /\ Kept' = Kept /\ arrived' - base' = arrived - base + 1
      /\ PendingDrops' = PendingDrops + 1 /\ uiSeen' = dropped /\ dropped' = dropped
      /\ active # 0 /\ active' = active /\ writer' = writer /\ writerSeen' = writerSeen
  <2>1. Kept' = Kept
    BY DEF ReceiveFull, Kept, sessionVars, queueVars
  <2>2. arrived' - base' = arrived - base + 1
    BY DEF ReceiveFull, KeptInv
  <2>3. PendingDrops' = PendingDrops + 1
    BY DEF ReceiveFull, PendingDrops
  <2>4. active # 0
    BY DEF ReceiveFull, ControlInv
  <2> QED BY <2>1, <2>2, <2>3, <2>4 DEF ReceiveFull
<1>4. Kept \in Int /\ PendingDrops \in Int
  BY DEF Kept, PendingDrops, KeptInv
<1>5. RaceInv'
  BY <1>3, <1>4 DEF RaceInv, KeptInv, DropCountIsHonest
<1>6. DropCountIsHonest'
  BY <1>3, <1>4 DEF DropCountIsHonest, KeptInv
<1> QED BY <1>1, <1>2, <1>5, <1>6

(* A stored value is one more than a value that was honest when it was     *)
(* read and has stayed so, since drops only grow; and it is not 0.         *)
LEMMA CountStep == ASSUME IInv, CountDrop \/ WriterCountDrop PROVE IInv'
<1> USE DEF IInv
<1>1. ControlInv'
  BY DEF CountDrop, WriterCountDrop, ControlInv, sessionVars, disk
<1>2. KeptInv'
  <2>1. UNCHANGED <<session, queue, hand, arrived, base, uiSeen, writerSeen>>
    BY DEF CountDrop, WriterCountDrop, sessionVars, queueVars, history
  <2>2. dropped' \in Nat /\ (writer' = "writing" <=> writer = "writing")
    BY DEF CountDrop, WriterCountDrop, KeptInv
  <2> QED BY <2>1, <2>2 DEF KeptInv
<1>3. Kept \in Int /\ PendingDrops \in Int
  BY DEF Kept, PendingDrops, KeptInv
<1>4. /\ Kept' = Kept /\ arrived' - base' = arrived - base
      /\ PendingDrops' = PendingDrops - 1
      /\ active # 0 /\ active' = active /\ uiSeen' = uiSeen /\ writerSeen' = writerSeen
  <2>1. Kept' = Kept
    BY DEF CountDrop, WriterCountDrop, Kept, sessionVars, queueVars
  <2>2. PendingDrops' = PendingDrops - 1
    BY DEF CountDrop, WriterCountDrop, PendingDrops
  <2>3. active # 0
    BY DEF CountDrop, WriterCountDrop, ControlInv
  <2> QED BY <2>1, <2>2, <2>3 DEF CountDrop, WriterCountDrop, history
<1>5. /\ ui' = "counting" => ui = "counting"
      /\ writer' = "counting" => writer = "counting"
      /\ \/ ui = "counting" /\ dropped' = uiSeen + 1
         \/ writer = "counting" /\ dropped' = writerSeen + 1
  BY DEF CountDrop, WriterCountDrop
<1>6. RaceInv'
  BY <1>3, <1>4, <1>5 DEF RaceInv, KeptInv
<1>7. DropCountIsHonest'
  BY <1>3, <1>4, <1>5 DEF RaceInv, DropCountIsHonest, KeptInv
<1> QED BY <1>1, <1>2, <1>6, <1>7

LEMMA TakeStep == ASSUME IInv, WriterTake PROVE IInv'
<1> USE DEF IInv
<1>1. ControlInv' BY DEF WriterTake, ControlInv, sessionVars, disk
<1>2. /\ queue' \in Seq(Frame) /\ Len(queue') = Len(queue) - 1
      /\ hand' \in Seq(Frame) /\ Len(hand') = 1 /\ Len(hand) = 0
  BY DEF WriterTake, KeptInv
<1>3. /\ writer' = "writing" /\ session' = session /\ arrived' = arrived /\ base' = base
      /\ dropped' = dropped /\ uiSeen' = uiSeen /\ writerSeen' = writerSeen
      /\ active' = active /\ ui' = ui /\ writer = "waiting"
  BY DEF WriterTake, sessionVars, history
<1>4. KeptInv' BY <1>2, <1>3 DEF KeptInv
<1>5. Kept' = Kept /\ PendingDrops' = PendingDrops /\ Kept \in Int /\ PendingDrops \in Int
  <2>1. Kept' = Kept /\ Kept \in Int
    <3>1. session.count \in Int /\ Len(queue) \in Int
      BY DEF KeptInv
    <3>2. /\ Kept = session.count + 0 + Len(queue)
          /\ Kept' = session.count + 1 + (Len(queue) - 1)
      BY <1>2, <1>3 DEF Kept
    <3> QED BY <3>1, <3>2
  <2>2. PendingDrops' = PendingDrops /\ PendingDrops \in Int
    BY <1>3 DEF PendingDrops
  <2> QED BY <2>1, <2>2
<1>6. RaceInv' /\ DropCountIsHonest'
  BY <1>3, <1>5 DEF RaceInv, DropCountIsHonest
<1> QED BY <1>1, <1>4, <1>6

LEMMA WriteFrameStep == ASSUME IInv, WriteFrame PROVE IInv'
<1> USE DEF IInv
<1>1. ControlInv' BY DEF WriteFrame, ControlInv
<1>3. PICK target \in Targets :
          session' = [target.session EXCEPT
                         !.count = @ + 1,
                         !.first = IF @ = 0 THEN Head(hand).n ELSE @,
                         !.last = Head(hand).n]
  BY DEF WriteFrame
<1>2. Shape(target.session) /\ target.session.count = session.count
  BY TargetKeepsCount DEF KeptInv
<1>4. Shape(session') /\ session'.count = session.count + 1
  BY <1>2, <1>3 DEF Shape
<1>5. /\ writer = "writing" /\ writer' = "waiting" /\ hand' = <<>> /\ queue' = queue
      /\ arrived' = arrived /\ base' = base /\ dropped' = dropped /\ uiSeen' = uiSeen
      /\ writerSeen' = writerSeen /\ active' = active /\ ui' = ui
  BY DEF WriteFrame, queueVars, history
<1>6. KeptInv'
  BY <1>4, <1>5 DEF KeptInv
<1>7. Kept' = Kept /\ PendingDrops' = PendingDrops
  BY <1>4, <1>5 DEF Kept, PendingDrops, KeptInv
<1>8. RaceInv' /\ DropCountIsHonest'
  BY <1>5, <1>7 DEF RaceInv, DropCountIsHonest
<1> QED BY <1>1, <1>6, <1>8

LEMMA WriteFailsStep == ASSUME IInv, WriteFails PROVE IInv'
<1> USE DEF IInv
<1>1. ControlInv' BY DEF WriteFails, ControlInv, queueVars
<1>2. Shape(session') /\ session'.count = session.count
  <2>1. Shape(session)
    BY DEF KeptInv
  <2>2. CASE \E closed \in Closings(Now(active)) : session' = OpenNextChunk(closed, FALSE).session
    <3>1. PICK closed \in Closings(Now(active)) : session' = OpenNextChunk(closed, FALSE).session
      BY <2>2
    <3>2. closed = RecordOf(closed) /\ Shape(closed.session)
          /\ closed.session.count = session.count
      BY <2>1, CloseKeepsCount DEF Now, NowOf
    <3> QED BY <3>1, <3>2, OpenKeepsCount
  <2>3. CASE \E target \in Targets : session' = target.session
    BY <2>1, <2>3, TargetKeepsCount
  <2> QED BY <2>2, <2>3 DEF WriteFails
<1>3. /\ writer = "writing" /\ writer' = "counting" /\ hand' = <<>> /\ queue' = queue
      /\ arrived' = arrived /\ base' = base /\ dropped' = dropped /\ uiSeen' = uiSeen
      /\ writerSeen' = dropped /\ active' = active /\ ui' = ui
  BY DEF WriteFails, queueVars, history
<1>4. KeptInv'
  BY <1>2, <1>3 DEF KeptInv
<1>5. Kept' = Kept - 1 /\ PendingDrops' = PendingDrops + 1 /\ Kept \in Int /\ PendingDrops \in Int
  BY <1>2, <1>3 DEF Kept, PendingDrops, KeptInv
<1>6. RaceInv'
  <2>1. active # 0
    BY <1>3 DEF ControlInv
  <2>2. /\ Kept + dropped + PendingDrops <= arrived - base
        /\ ui = "counting" => Kept + uiSeen + PendingDrops <= arrived - base
    BY <2>1 DEF RaceInv, DropCountIsHonest
  <2>3. arrived - base \in Int /\ dropped \in Int /\ uiSeen \in Int
    BY DEF KeptInv
  <2>4. /\ Kept' + dropped + PendingDrops' <= arrived - base
        /\ ui = "counting" => Kept' + uiSeen + PendingDrops' <= arrived - base
    BY <1>5, <2>2, <2>3
  <2> QED BY <1>3, <2>4 DEF RaceInv
<1>7. DropCountIsHonest'
  BY <1>3, <1>5 DEF DropCountIsHonest, KeptInv
<1> QED BY <1>1, <1>4, <1>6, <1>7

\* There is a directory, perhaps an empty one, for every second.
DirectoriesKept ==
    /\ DOMAIN files' = Ids /\ files' = [s \in Ids |-> files'[s]]
    /\ DOMAIN meta' = Ids /\ meta' = [s \in Ids |-> meta'[s]]

LEMMA LeaveKeepsDirectories ==
  ASSUME ControlInv, NEW s, NEW dir, NEW data, NEW lost, Leave(s, dir, data, lost)
  PROVE  DirectoriesKept
BY DEF Leave, ControlInv, DirectoriesKept

LEMMA RemovalKeepsDirectories ==
  ASSUME ControlInv, NEW s, NEW dir, RemoveDirectory(s, dir)
  PROVE  DirectoriesKept
BY LeaveKeepsDirectories DEF RemoveDirectory

\* Without a session there is nothing to count.
LEMMA EndStep == ASSUME IInv, FinishStop \/ Crash PROVE IInv'
<1> USE DEF IInv
<1>1. active' = 0 /\ writer' = "off" /\ ui' = "idle" /\ session' = NoData
  BY DEF FinishStop, Crash
<1>2. ControlInv'
  <2>1. DirectoriesKept
    <3>1. CASE FinishStop
      BY <3>1, LeaveKeepsDirectories, RemovalKeepsDirectories DEF FinishStop, ControlInv
    <3>2. CASE Crash
      BY <3>2 DEF Crash, ControlInv, DirectoriesKept
    <3> QED BY <3>1, <3>2
  <2>2. clock' = clock /\ ~recording'
    BY DEF FinishStop, Crash, ControlInv
  <2> QED BY <1>1, <2>1, <2>2, IdsAssumption DEF ControlInv, DirectoriesKept
<1>3. KeptInv'
  <2>1. Shape(session') /\ session'.count = 0
    BY <1>1 DEF Shape, NoData
  <2>2. queue' \in Seq(Frame) /\ hand' \in Seq(Frame) /\ Len(hand') = 0
    <3>1. CASE FinishStop
      <4>1. queue' = queue /\ hand' = hand /\ writer = "exited"
        BY <3>1 DEF FinishStop, queueVars
      <4> QED BY <4>1 DEF KeptInv
    <3>2. CASE Crash
      <4>1. queue' = <<>> /\ hand' = <<>>
        BY <3>2 DEF Crash
      <4> QED BY <4>1
    <3> QED BY <3>1, <3>2
  <2>3. /\ arrived' \in Nat /\ base' \in Nat /\ dropped' \in Nat
        /\ uiSeen' \in Nat /\ writerSeen' \in Nat
    BY DEF FinishStop, Crash, KeptInv, history
  <2> QED BY <1>1, <2>1, <2>2, <2>3 DEF KeptInv
<1> QED BY <1>1, <1>2, <1>3 DEF RaceInv, DropCountIsHonest

LEMMA OtherStep ==
  ASSUME IInv, Tick \/ StopRecord \/ WriterLeave \/ (\E s \in Ids : RemoveSession(s))
  PROVE  IInv'
<1> USE DEF IInv
<1>1. ControlInv'
  <2>1. CASE \E s \in Ids : RemoveSession(s)
    <3>1. PICK s \in Ids : RemoveSession(s)
      BY <2>1
    <3>2. DirectoriesKept
      BY <3>1, RemovalKeepsDirectories DEF RemoveSession
    <3> QED BY <3>1, <3>2 DEF RemoveSession, ControlInv, DirectoriesKept
  <2> QED BY <2>1 DEF Tick, StopRecord, WriterLeave, ControlInv, disk
<1>2. KeptInv'
  BY DEF Tick, StopRecord, WriterLeave, RemoveSession, KeptInv, queueVars, sessionVars, history
<1>3. Kept' = Kept /\ arrived' = arrived /\ base' = base /\ dropped' = dropped
      /\ uiSeen' = uiSeen /\ writerSeen' = writerSeen /\ active' = active
  BY DEF Tick, StopRecord, WriterLeave, RemoveSession, Kept, queueVars, sessionVars, history
<1>4. /\ ui' = "counting" <=> ui = "counting"
      /\ writer' = "counting" <=> writer = "counting"
  BY DEF Tick, StopRecord, WriterLeave, RemoveSession
<1>5. PendingDrops' = PendingDrops
  BY <1>4 DEF PendingDrops
<1> QED BY <1>1, <1>2, <1>3, <1>4, <1>5 DEF RaceInv, DropCountIsHonest

-----------------------------------------------------------------------------
(* The inductive invariant: what each thread has read of the counter it    *)
(* increments is bounded by the drops there have been.                     *)
THEOREM RecorderInvariant == Spec => []IInv
<1>1. IInv /\ [Next]_vars => IInv'
  BY StutterStep, StartRecordStep, ReceiveStep, ReceiveFullStep, CountStep, TakeStep,
     WriteFrameStep, WriteFailsStep, EndStep, OtherStep DEF Next, WriterStep
<1> QED BY InitInvariant, <1>1, PTL DEF Spec

(* The number of drops stopRecord reports is never too high, and it is 0   *)
(* only if every frame that arrived was kept.                              *)
THEOREM DropReportIsHonest == Spec => []DropCountIsHonest
BY RecorderInvariant, PTL DEF IInv

(* The only directories a step touches are the active one, the one of this *)
(* second and the one the user removes, of which a removal deletes, all or *)
(* in part.                                                                *)
THEOREM FinishedRecordingsStay == Spec => FinishedStays
<1> DEFINE Stays ==
               \A s \in Ids :
                   DOMAIN files[s] # {} /\ s # active /\ s < clock =>
                       \/ files'[s] = files[s] /\ meta'[s] = meta[s]
                       \/ /\ ~recording
                          /\ DOMAIN files'[s] \subseteq DOMAIN files[s]
                          /\ \A i \in DOMAIN files'[s] : files'[s][i] = files[s][i]
                          /\ meta'[s] \in {meta[s], NoData}
<1>1. IInv /\ [Next]_vars => [Stays]_vars
  <2> SUFFICES ASSUME IInv, Next, NEW s \in Ids, s # active, s < clock
               PROVE  \/ files'[s] = files[s] /\ meta'[s] = meta[s]
                      \/ /\ ~recording
                         /\ DOMAIN files'[s] \subseteq DOMAIN files[s]
                         /\ \A i \in DOMAIN files'[s] : files'[s][i] = files[s][i]
                         /\ meta'[s] \in {meta[s], NoData}
    OBVIOUS
  <2>1. /\ DOMAIN files = Ids /\ files = [t \in Ids |-> files[t]]
        /\ DOMAIN meta = Ids /\ meta = [t \in Ids |-> meta[t]]
    BY DEF IInv, ControlInv
  <2>2. CASE StartRecord
    <3>1. s # clock
      BY IdsAssumption DEF IInv, ControlInv
    <3> QED BY <2>1, <2>2, <3>1 DEF StartRecord, NewSessionId
  <2>3. CASE FinishStop
    BY <2>1, <2>3 DEF FinishStop, RemoveDirectory, Leave
  <2>4. CASE \E t \in Ids : RemoveSession(t)
    <3>1. PICK t \in Ids : RemoveSession(t)
      BY <2>4
    <3>2. CASE t = s
      <4>1. PICK kept \in SUBSET DOMAIN files[s], data \in {meta[s], NoData} :
                /\ files' = [files EXCEPT ![s] = [i \in kept |-> files[s][i]]]
                /\ meta' = [meta EXCEPT ![s] = data]
        <5>1. RemoveDirectory(s, files[s])
          BY <3>1, <3>2 DEF RemoveSession
        <5>2. PICK kept \in SUBSET DOMAIN files[s], data \in {meta[s], NoData} :
                  Leave(s, [i \in kept |-> files[s][i]], data,
                        kept # DOMAIN files[s] \/ data # meta[s])
          BY <5>1 DEF RemoveDirectory
        <5> QED BY <5>2 DEF Leave
      <4>2. files'[s] = [i \in kept |-> files[s][i]] /\ meta'[s] = data
        BY <2>1, <4>1
      <4> QED BY <3>1, <4>2 DEF RemoveSession
    <3>3. CASE t # s
      BY <2>1, <3>1, <3>3 DEF RemoveSession, RemoveDirectory, Leave
    <3> QED BY <3>2, <3>3
  <2>5. CASE WriteFrame \/ WriteFails \/ Crash
    BY <2>1, <2>5 DEF WriteFrame, WriteFails, Crash
  <2>6. CASE UNCHANGED disk
    BY <2>6 DEF disk
  <2> QED BY <2>2, <2>3, <2>4, <2>5, <2>6
          DEF Next, WriterStep, Tick, CountDrop, StopRecord, Receive, ReceiveFull,
              WriterTake, WriterLeave, WriterCountDrop
<1> QED BY RecorderInvariant, <1>1, PTL DEF Spec, FinishedStays

-----------------------------------------------------------------------------
(* The chunk files.  `now' is a session, its open chunk and its directory  *)
(* as CloseChunk and OpenNextChunk take and return them.                   *)
PlacesOf(now) == Whole(now.dir, now.session.chunks)
NumberOf(now, p) == At(now.dir, now.session.chunks, p)

IsChunk == [index : Nat, bytes : Nat, open : BOOLEAN]
Directories == UNION {[D -> Seq(Nat)] : D \in SUBSET (Nat \ {0})}

(* The listed chunks are files, in the order they were opened, the open    *)
(* one last; it holds no frame if nothing was written to it.               *)
ChunksInv(now) ==
    /\ now = RecordOf(now)
    /\ now.session \in SessionData
    /\ now.chunk \in IsChunk
    /\ now.dir \in Directories
    /\ \A k \in DOMAIN now.session.chunks :
           /\ now.session.chunks[k] \in DOMAIN now.dir
           /\ now.session.chunks[k] <= now.chunk.index
           /\ \A l \in DOMAIN now.session.chunks :
                  k < l => now.session.chunks[k] < now.session.chunks[l]
    /\ now.chunk.open =>
           /\ Len(now.session.chunks) > 0
           /\ now.session.chunks[Len(now.session.chunks)] = now.chunk.index
           /\ now.chunk.bytes = 0 =>
                  \A j \in DOMAIN now.dir[now.chunk.index] : now.dir[now.chunk.index][j] = Torn

(* All of them hold a frame but an open one with nothing in it.            *)
Filled(now) ==
    \A k \in DOMAIN now.session.chunks :
        \/ now.chunk.open /\ k = Len(now.session.chunks) /\ now.chunk.bytes = 0
        \/ \E j \in DOMAIN now.dir[now.session.chunks[k]] :
               now.dir[now.session.chunks[k]][j] # Torn

SameCounters(a, b) ==
    /\ b.session.count = a.session.count
    /\ b.session.first = a.session.first
    /\ b.session.last = a.session.last

\* Frames may have been lost between a and b, none was written or moved.
FewerFrames(a, b) ==
    /\ PlacesOf(b) \subseteq PlacesOf(a)
    /\ \A p \in PlacesOf(b) : NumberOf(b, p) = NumberOf(a, p)
    /\ SameCounters(a, b)

\* No frame was lost either, and no file was left over.
SameFrames(a, b) ==
    /\ PlacesOf(b) = PlacesOf(a)
    /\ \A p \in PlacesOf(a) : NumberOf(b, p) = NumberOf(a, p)
    /\ SameCounters(a, b)
    /\ DOMAIN a.dir = ToSet(a.session.chunks) => DOMAIN b.dir = ToSet(b.session.chunks)
    /\ Filled(a) => Filled(b)

\* What a closing and what follows it make of a: nothing is lost unseen.
Keeps(a, b) ==
    /\ ChunksInv(b)
    /\ FewerFrames(a, b)
    /\ b.lost \/ SameFrames(a, b)

LEMMA SameIsFewer == ASSUME NEW a, NEW b, SameFrames(a, b) PROVE FewerFrames(a, b)
<1> HIDE DEF PlacesOf, NumberOf
<1> QED BY DEF SameFrames, FewerFrames

LEMMA SameFramesTransitive ==
  ASSUME NEW a, NEW b, NEW c, SameFrames(a, b), SameFrames(b, c)
  PROVE  SameFrames(a, c)
BY DEF SameFrames, SameCounters

LEMMA FewerFramesTransitive ==
  ASSUME NEW a, NEW b, NEW c, FewerFrames(a, b), FewerFrames(b, c)
  PROVE  FewerFrames(a, c)
BY DEF FewerFrames, SameCounters

LEMMA PlaceMember ==
  ASSUME NEW dir, NEW chunks, NEW p
  PROVE  p \in Whole(dir, chunks) <=>
             \E k \in DOMAIN chunks : \E j \in DOMAIN dir[chunks[k]] :
                 chunks[k] \in DOMAIN dir /\ p = <<k, j>> /\ dir[chunks[k]][j] # Torn
BY DEF Whole, At

LEMMA FrontOf ==
  ASSUME NEW S, NEW s \in Seq(S), Len(s) > 0
  PROVE  /\ Front(s) \in Seq(S) /\ Len(Front(s)) = Len(s) - 1
         /\ DOMAIN Front(s) = 1..(Len(s) - 1)
         /\ \A k \in 1..(Len(s) - 1) : Front(s)[k] = s[k]
<1>1. Front(s) = [k \in 1..(Len(s) - 1) |-> s[k]]
  BY DEF Front
<1>2. Len(s) - 1 \in Nat /\ \A k \in 1..(Len(s) - 1) : s[k] \in S
  OBVIOUS
<1> HIDE DEF Front
<1> QED BY <1>1, <1>2

(* list2 is list1 less some chunks at its end that hold no frame.          *)
Shortened(dir1, list1, dir2, list2) ==
    /\ DOMAIN list2 \subseteq DOMAIN list1
    /\ \A k \in DOMAIN list2 : /\ list2[k] = list1[k] /\ dir2[list2[k]] = dir1[list2[k]]
                               /\ list2[k] \in DOMAIN dir1 /\ list2[k] \in DOMAIN dir2
    /\ \A k \in DOMAIN list1 \ DOMAIN list2 :
           \A j \in DOMAIN dir1[list1[k]] : dir1[list1[k]][j] = Torn

LEMMA SamePlaces ==
  ASSUME NEW dir1, NEW list1, NEW dir2, NEW list2, Shortened(dir1, list1, dir2, list2)
  PROVE  /\ Whole(dir1, list1) = Whole(dir2, list2)
         /\ \A p \in Whole(dir2, list2) : At(dir1, list1, p) = At(dir2, list2, p)
<1> USE DEF Shortened
<1>1. ASSUME NEW p \in Whole(dir1, list1) PROVE p \in Whole(dir2, list2)
  <2>1. PICK k \in DOMAIN list1 : \E j \in DOMAIN dir1[list1[k]] :
            p = <<k, j>> /\ dir1[list1[k]][j] # Torn
    BY <1>1, PlaceMember
  <2>2. k \in DOMAIN list2
    BY <2>1
  <2>3. \E j \in DOMAIN dir2[list2[k]] :
            list2[k] \in DOMAIN dir2 /\ p = <<k, j>> /\ dir2[list2[k]][j] # Torn
    BY <2>1, <2>2
  <2> QED BY <2>2, <2>3, PlaceMember
<1>2. ASSUME NEW p \in Whole(dir2, list2)
      PROVE  p \in Whole(dir1, list1) /\ At(dir1, list1, p) = At(dir2, list2, p)
  <2>1. PICK k \in DOMAIN list2 : \E j \in DOMAIN dir2[list2[k]] :
            p = <<k, j>> /\ dir2[list2[k]][j] # Torn
    BY <1>2, PlaceMember
  <2>2. k \in DOMAIN list1 /\ list2[k] = list1[k] /\ dir2[list2[k]] = dir1[list2[k]]
        /\ list1[k] \in DOMAIN dir1
    BY <2>1
  <2>3. \E j \in DOMAIN dir1[list1[k]] :
            list1[k] \in DOMAIN dir1 /\ p = <<k, j>> /\ dir1[list1[k]][j] # Torn
    BY <2>1, <2>2
  <2>4. p[1] = k
    BY <2>1
  <2> QED BY <2>2, <2>3, <2>4, PlaceMember DEF At
<1> QED BY <1>1, <1>2

LEMMA SameFilesSameFrames ==
  ASSUME NEW a, NEW b, a.session = b.session, a.dir = b.dir, Filled(a) => Filled(b)
  PROVE  SameFrames(a, b)
<1>1. PlacesOf(b) = PlacesOf(a)
  BY DEF PlacesOf
<1>2. \A p : NumberOf(b, p) = NumberOf(a, p)
  BY DEF NumberOf
<1>3. DOMAIN a.dir = ToSet(a.session.chunks) => DOMAIN b.dir = ToSet(b.session.chunks)
  OBVIOUS
<1>4. SameCounters(a, b)
  BY DEF SameCounters
<1> HIDE DEF PlacesOf, NumberOf
<1> QED BY <1>1, <1>2, <1>3, <1>4 DEF SameFrames

(* CloseChunk, field by field.                                             *)
LEMMA ClosedFields ==
  ASSUME NEW now, ChunksInv(now), now.chunk.open
  PROVE  CloseChunk(now) =
            [session |-> IF now.chunk.bytes = 0
                         THEN [now.session EXCEPT !.chunks = Front(@)] ELSE now.session,
             chunk |-> [index |-> now.chunk.index, bytes |-> 0, open |-> FALSE],
             dir |-> IF now.chunk.bytes = 0 THEN Without(now.dir, now.chunk.index) ELSE now.dir,
             lost |-> now.lost]
<1>1. PICK data, ch, dir, lost :
          now = [session |-> data, chunk |-> ch, dir |-> dir, lost |-> lost]
  BY DEF ChunksInv, RecordOf
<1>2. now.session = data /\ now.chunk = ch /\ now.dir = dir /\ now.lost = lost
  BY <1>1, Zenon, FieldsOfRecord
<1>3. ch = [index |-> ch.index, bytes |-> ch.bytes, open |-> ch.open]
  BY <1>2 DEF ChunksInv, IsChunk
<1>4. data = [data EXCEPT !.chunks = @]
  BY <1>2 DEF ChunksInv, SessionData
<1> QED BY <1>1, <1>2, <1>3, <1>4 DEF CloseChunk

LEMMA AppendTo ==
  ASSUME NEW S, NEW s \in Seq(S), NEW e \in S
  PROVE  /\ Append(s, e) \in Seq(S) /\ Len(Append(s, e)) = Len(s) + 1 /\ Len(s) \in Nat
         /\ DOMAIN s = 1..Len(s) /\ DOMAIN Append(s, e) = 1..(Len(s) + 1)
         /\ Append(s, e)[Len(s) + 1] = e
         /\ \A k \in 1..Len(s) : Append(s, e)[k] = s[k]
OBVIOUS

LEMMA CloseKeepsFrames ==
  ASSUME NEW now, ChunksInv(now)
  PROVE  /\ ChunksInv(CloseChunk(now)) /\ SameFrames(now, CloseChunk(now))
         /\ ~CloseChunk(now).chunk.open
         /\ CloseChunk(now).chunk.index = now.chunk.index
         /\ CloseChunk(now).lost = now.lost
         /\ \A k \in DOMAIN CloseChunk(now).session.chunks :
                /\ k \in DOMAIN now.session.chunks
                /\ CloseChunk(now).session.chunks[k] = now.session.chunks[k]
         /\ now.chunk.open =>
                \A k \in DOMAIN CloseChunk(now).session.chunks :
                    CloseChunk(now).session.chunks[k] \in DOMAIN CloseChunk(now).dir
<1> DEFINE closed == CloseChunk(now)
           list == now.session.chunks
           i == now.chunk.index
<1>1. CASE ~now.chunk.open
  <2>1. closed = now
    BY <1>1 DEF CloseChunk
  <2>2. SameFrames(now, now)
    BY SameFilesSameFrames
  <2> QED BY <1>1, <2>1, <2>2
<1>2. CASE now.chunk.open /\ now.chunk.bytes # 0
  <2>1. closed = [session |-> now.session, chunk |-> [index |-> i, bytes |-> 0, open |-> FALSE],
                  dir |-> now.dir, lost |-> now.lost]
    BY <1>2, ClosedFields
  <2> HIDE DEF closed, i
  <2>2. /\ closed = RecordOf(closed) /\ closed.session = now.session /\ closed.dir = now.dir
        /\ closed.chunk = [index |-> i, bytes |-> 0, open |-> FALSE] /\ closed.lost = now.lost
    <3>1. /\ closed.session = now.session /\ closed.dir = now.dir
          /\ closed.chunk = [index |-> i, bytes |-> 0, open |-> FALSE] /\ closed.lost = now.lost
      BY <2>1
    <3> QED BY <2>1, <3>1, Zenon DEF RecordOf
  <2>3. closed.chunk \in IsChunk /\ closed.chunk.index = i /\ ~closed.chunk.open
    <3>1. i \in Nat
      BY DEF ChunksInv, IsChunk, i
    <3> QED BY <2>2, <3>1 DEF IsChunk
  <2>4. ChunksInv(closed)
    BY <1>2, <2>2, <2>3 DEF ChunksInv, i
  <2>5. Filled(now) => Filled(closed)
    BY <1>2, <2>2 DEF Filled
  <2>6. SameFrames(now, closed)
    BY <2>2, <2>5, SameFilesSameFrames
  <2>7. \A k \in DOMAIN now.session.chunks : now.session.chunks[k] \in DOMAIN now.dir
    BY DEF ChunksInv
  <2> QED BY <2>2, <2>3, <2>4, <2>6, <2>7 DEF closed, i
<1>3. CASE now.chunk.open /\ now.chunk.bytes = 0
  <2>1. closed = [session |-> [now.session EXCEPT !.chunks = Front(list)],
                  chunk |-> [index |-> i, bytes |-> 0, open |-> FALSE],
                  dir |-> Without(now.dir, i), lost |-> now.lost]
    BY <1>3, ClosedFields
  <2>2. /\ list \in Seq(Nat \ {0}) /\ Len(list) \in Nat /\ DOMAIN list = 1..Len(list)
        /\ Len(list) > 0 /\ list[Len(list)] = i
        /\ \A j \in DOMAIN now.dir[i] : now.dir[i][j] = Torn
    BY <1>3 DEF ChunksInv, SessionData
  <2>3. /\ closed.session.chunks = Front(list) /\ closed.session \in SessionData
        /\ closed.session.count = now.session.count
        /\ closed.session.first = now.session.first /\ closed.session.last = now.session.last
        /\ closed.chunk \in IsChunk /\ closed.chunk.index = i /\ ~closed.chunk.open
        /\ closed.dir = Without(now.dir, i)
        /\ closed = RecordOf(closed) /\ closed.lost = now.lost
    <3>1. Front(list) \in Seq(Nat \ {0})
      BY <2>2, FrontOf
    <3>2. now.session \in SessionData /\ now.chunk \in IsChunk
      BY DEF ChunksInv
    <3>3. [now.session EXCEPT !.chunks = Front(list)] \in SessionData
      BY <3>1, <3>2 DEF SessionData
    <3>4. [index |-> i, bytes |-> 0, open |-> FALSE] \in IsChunk
      BY <3>2 DEF IsChunk
    <3>5. /\ closed.session = [now.session EXCEPT !.chunks = Front(list)]
          /\ closed.chunk = [index |-> i, bytes |-> 0, open |-> FALSE]
          /\ closed.dir = Without(now.dir, i) /\ closed.lost = now.lost
      BY <2>1
    <3>6. closed = RecordOf(closed)
      <4> HIDE DEF closed, list, i
      <4> QED BY <2>1, <3>5, Zenon DEF RecordOf
    <3> HIDE DEF closed, list, i
    <3> QED BY <3>2, <3>3, <3>4, <3>5, <3>6 DEF SessionData, IsChunk
  <2> DEFINE rest == closed.session.chunks
  <2>4. /\ rest \in Seq(Nat \ {0}) /\ Len(rest) = Len(list) - 1 /\ DOMAIN rest = 1..(Len(list) - 1)
        /\ \A k \in DOMAIN rest : k \in DOMAIN list /\ rest[k] = list[k]
    <3>1. /\ Front(list) \in Seq(Nat \ {0}) /\ Len(Front(list)) = Len(list) - 1
          /\ DOMAIN Front(list) = 1..(Len(list) - 1)
          /\ \A k \in 1..(Len(list) - 1) : Front(list)[k] = list[k]
      BY <2>2, FrontOf
    <3>2. rest = Front(list)
      BY <2>3
    <3>3. Len(list) \in Nat /\ DOMAIN list = 1..Len(list)
      BY <2>2
    <3> HIDE DEF rest, list
    <3> QED BY <3>1, <3>2, <3>3
  <2>5. /\ DOMAIN closed.dir = DOMAIN now.dir \ {i}
        /\ \A j \in DOMAIN closed.dir : closed.dir[j] = now.dir[j]
        /\ closed.dir \in Directories
    <3>1. PICK D \in SUBSET (Nat \ {0}) : now.dir \in [D -> Seq(Nat)]
      BY DEF ChunksInv, Directories
    <3>2. Without(now.dir, i) \in [D \ {i} -> Seq(Nat)]
      BY <3>1 DEF Without
    <3> HIDE DEF closed
    <3> QED BY <2>3, <3>1, <3>2 DEF Directories, Without
  <2> HIDE DEF closed
  <2>6. \A k \in DOMAIN rest : rest[k] \in DOMAIN closed.dir /\ rest[k] < i
    <3>1. \A k \in DOMAIN list : list[k] \in DOMAIN now.dir
              /\ \A l \in DOMAIN list : k < l => list[k] < list[l]
      BY DEF ChunksInv
    <3>2. \A k \in DOMAIN rest : k \in DOMAIN list /\ k < Len(list) /\ Len(list) \in DOMAIN list
      <4>1. DOMAIN rest = 1..(Len(list) - 1) /\ DOMAIN list = 1..Len(list) /\ Len(list) \in Nat
        BY <2>2, <2>4
      <4> HIDE DEF rest, list
      <4> QED BY <4>1
    <3>3. i \in Nat /\ \A k \in DOMAIN list : list[k] \in Nat
      BY <2>2
    <3>4. \A k \in DOMAIN rest : list[k] < i
      <4>1. list[Len(list)] = i
        BY <2>2
      <4> HIDE DEF rest, list, i
      <4> QED BY <3>1, <3>2, <4>1
    <3>5. \A k \in DOMAIN rest : list[k] # i /\ list[k] \in DOMAIN now.dir
      <4> HIDE DEF rest, list, i
      <4> QED BY <3>1, <3>2, <3>3, <3>4
    <3>6. \A k \in DOMAIN rest : rest[k] = list[k]
      BY <2>4
    <3>7. DOMAIN closed.dir = DOMAIN now.dir \ {i}
      BY <2>5
    <3> HIDE DEF rest, list, i
    <3> QED BY <3>4, <3>5, <3>6, <3>7
  <2>7. ChunksInv(closed)
    <3>2. \A k, l \in DOMAIN rest : k < l => rest[k] < rest[l]
      BY <2>4 DEF ChunksInv
    <3>3. i \in Nat /\ \A k \in DOMAIN rest : rest[k] \in Nat
      BY <2>4, SMTT(30) DEF ChunksInv, IsChunk
    <3> QED BY <2>3, <2>5, <2>6, <3>2, <3>3 DEF ChunksInv
  <2>9. ASSUME Filled(now) PROVE Filled(closed)
    <3> SUFFICES ASSUME NEW k \in DOMAIN rest
                 PROVE  \E j \in DOMAIN closed.dir[rest[k]] : closed.dir[rest[k]][j] # Torn
      BY DEF Filled
    <3>1. k \in DOMAIN list /\ k # Len(list) /\ rest[k] = list[k]
      BY <2>2, <2>4
    <3>2. \E j \in DOMAIN now.dir[list[k]] : now.dir[list[k]][j] # Torn
      BY <2>9, <3>1 DEF Filled
    <3> QED BY <2>5, <2>6, <3>1, <3>2
  <2>8. /\ PlacesOf(closed) = PlacesOf(now)
        /\ \A p \in PlacesOf(now) : NumberOf(closed, p) = NumberOf(now, p)
    <3>1. \A k \in DOMAIN list \ DOMAIN rest : list[k] = i
      BY <2>2, <2>4
    <3>2. DOMAIN rest \subseteq DOMAIN list
          /\ \A k \in DOMAIN rest : /\ rest[k] = list[k] /\ closed.dir[rest[k]] = now.dir[rest[k]]
                                   /\ rest[k] \in DOMAIN now.dir /\ rest[k] \in DOMAIN closed.dir
      BY <2>4, <2>5, <2>6
    <3>3. \A k \in DOMAIN list \ DOMAIN rest :
              \A j \in DOMAIN now.dir[list[k]] : now.dir[list[k]][j] = Torn
      BY <2>2, <3>1
    <3>4. /\ Whole(now.dir, list) = Whole(closed.dir, rest)
          /\ \A p \in Whole(closed.dir, rest) : At(now.dir, list, p) = At(closed.dir, rest, p)
      <4>1. Shortened(now.dir, list, closed.dir, rest)
        BY <3>2, <3>3 DEF Shortened
      <4> HIDE DEF list, rest
      <4> QED BY <4>1, SamePlaces
    <3> QED BY <3>4 DEF PlacesOf, NumberOf
  <2>10. ASSUME DOMAIN now.dir = ToSet(list) PROVE DOMAIN closed.dir = ToSet(rest)
    <3>1. ToSet(list) = ToSet(rest) \cup {i} /\ i \notin ToSet(rest)
      <4>1. DOMAIN list = DOMAIN rest \cup {Len(list)} /\ list[Len(list)] = i
            /\ \A k \in DOMAIN rest : rest[k] = list[k]
        <5>1. /\ DOMAIN rest = 1..(Len(list) - 1) /\ DOMAIN list = 1..Len(list)
              /\ Len(list) \in Nat /\ Len(list) > 0
          BY <2>2, <2>4
        <5>2. list[Len(list)] = i /\ \A k \in DOMAIN rest : rest[k] = list[k]
          BY <2>2, <2>4
        <5> HIDE DEF rest, list, i
        <5> QED BY <5>1, <5>2
      <4>2. \A k \in DOMAIN rest : rest[k] # i
        <5>1. i \in Nat /\ \A k \in DOMAIN rest : rest[k] \in Nat /\ rest[k] < i
          BY <2>4, <2>6 DEF ChunksInv, IsChunk
        <5> HIDE DEF rest, i
        <5> QED BY <5>1
      <4> HIDE DEF rest, list, i
      <4> QED BY <4>1, <4>2 DEF ToSet
    <3> QED BY <2>5, <2>10, <3>1, SMTT(30)
  <2>11. SameFrames(now, closed)
    BY <2>3, <2>8, <2>9, <2>10 DEF SameFrames, SameCounters
  <2> QED BY <2>3, <2>4, <2>6, <2>7, <2>11 DEF closed
<1> QED BY <1>1, <1>2, <1>3

LEMMA ConcatOne ==
  ASSUME NEW f \in Seq(Nat)
  PROVE  f \o <<>> = f /\ f \o <<Torn>> = Append(f, Torn)
BY DEF Torn

(* What a cut leaves of a file: frames where they were, or torn bytes.     *)
LEMMA CutOf ==
  ASSUME NEW written \in Seq(Nat), NEW contents \in Cuts(written) \cup {written}
  PROVE  /\ contents \in Seq(Nat) /\ DOMAIN contents \subseteq DOMAIN written
         /\ \A j \in DOMAIN contents : contents[j] = written[j] \/ contents[j] = Torn
<1>1. CASE contents = written
  BY <1>1
<1>2. CASE contents \in Cuts(written)
  <2>1. PICK kept \in 0..(Len(written) - 1), end \in {<<>>, <<Torn>>} :
            contents = SubSeq(written, 1, kept) \o end
    <3>1. \E kept \in 0..(Len(written) - 1), end \in {<<>>, <<Torn>>} :
              contents = Cut(written, kept, end)
      BY <1>2 DEF Cuts
    <3> QED BY <3>1 DEF Cut
  <2> DEFINE start == SubSeq(written, 1, kept)
  <2>2. kept \in Nat /\ kept < Len(written) /\ DOMAIN written = 1..Len(written)
        /\ Len(written) \in Nat
    BY <2>1
  <2>3. start \in Seq(Nat) /\ Len(start) = kept /\ \A j \in 1..kept : start[j] = written[j]
    <3>1. start = [j \in 1..kept |-> written[j]]
      BY <2>2
    <3>2. \A j \in 1..kept : written[j] \in Nat
      BY <2>2
    <3> HIDE DEF start
    <3> QED BY <2>2, <3>1, <3>2
  <2>4. contents = start \o end
    BY <2>1 DEF start
  <2> HIDE DEF start
  <2>5. CASE end = <<>>
    <3>1. contents = start
      BY <2>3, <2>4, <2>5, ConcatOne
    <3> QED BY <2>2, <2>3, <3>1
  <2>6. CASE end = <<Torn>>
    <3>1. contents = Append(start, Torn)
      BY <2>3, <2>4, <2>6, ConcatOne
    <3>2. Torn \in Nat
      BY DEF Torn
    <3>3. /\ Append(start, Torn) \in Seq(Nat)
          /\ DOMAIN Append(start, Torn) = 1..(Len(start) + 1)
          /\ Append(start, Torn)[Len(start) + 1] = Torn
          /\ \A j \in 1..Len(start) : Append(start, Torn)[j] = start[j]
      BY <2>3, <3>2, AppendTo
    <3>4. /\ contents \in Seq(Nat) /\ DOMAIN contents = 1..(kept + 1) /\ contents[kept + 1] = Torn
          /\ \A j \in 1..kept : contents[j] = written[j]
      BY <2>3, <3>1, <3>3
    <3> QED BY <2>2, <3>4
  <2> QED BY <2>1, <2>5, <2>6
<1> QED BY <1>1, <1>2

\* new is the directory dir, in which the file i has got the contents.
Rewrites(new, dir, i, contents) ==
    /\ new \in Directories
    /\ DOMAIN new = DOMAIN dir \cup {i}
    /\ new[i] = contents
    /\ \A j \in DOMAIN dir : j # i => new[j] = dir[j]

LEMMA WithRewrites ==
  ASSUME NEW dir, NEW i, NEW contents,
         dir \in Directories, i \in Nat \ {0}, contents \in Seq(Nat)
  PROVE  Rewrites(With(dir, i, contents), dir, i, contents)
<1>1. PICK D \in SUBSET (Nat \ {0}) : dir \in [D -> Seq(Nat)]
  BY DEF Directories
<1>2. With(dir, i, contents) = [j \in D \cup {i} |-> IF j = i THEN contents ELSE dir[j]]
  BY <1>1 DEF With
<1>3. With(dir, i, contents) \in [D \cup {i} -> Seq(Nat)] /\ D \cup {i} \in SUBSET (Nat \ {0})
  BY <1>1, <1>2
<1> QED BY <1>1, <1>2, <1>3 DEF Directories, Rewrites

(* A close that is not checked: the file holds less than was written to it,*)
(* or is still there when it should have been deleted.                     *)
LEMMA LossKeepsFrames ==
  ASSUME NEW now, ChunksInv(now), now.chunk.open,
         NEW contents \in Cuts(now.dir[now.chunk.index]) \cup {now.dir[now.chunk.index]},
         NEW closed, closed = RecordOf(closed),
         closed.session = CloseChunk(now).session, closed.chunk = CloseChunk(now).chunk,
         closed.dir = With(now.dir, now.chunk.index, contents)
  PROVE  ChunksInv(closed) /\ FewerFrames(now, closed)
<1> DEFINE plain == CloseChunk(now)
           list == plain.session.chunks
           i == now.chunk.index
           written == now.dir[i]
<1>1. /\ ChunksInv(plain) /\ SameFrames(now, plain) /\ ~plain.chunk.open
      /\ plain.chunk.index = i
      /\ \A k \in DOMAIN list : /\ k \in DOMAIN now.session.chunks
                               /\ list[k] = now.session.chunks[k]
  BY CloseKeepsFrames
<1> HIDE DEF plain
<1>2. i \in DOMAIN now.dir /\ i \in Nat \ {0} /\ written \in Seq(Nat) /\ now.dir \in Directories
  <2>1. now.session.chunks \in Seq(Nat \ {0}) /\ Len(now.session.chunks) > 0
        /\ now.session.chunks[Len(now.session.chunks)] = i
    BY DEF ChunksInv, SessionData
  <2>2. Len(now.session.chunks) \in DOMAIN now.session.chunks
    BY <2>1
  <2>3. i \in DOMAIN now.dir /\ now.dir \in Directories
    BY <2>1, <2>2 DEF ChunksInv
  <2>4. i \in Nat \ {0}
    BY <2>1, <2>2
  <2>5. written \in Seq(Nat)
    BY <2>3 DEF Directories
  <2> QED BY <2>3, <2>4, <2>5
<1>3. /\ contents \in Seq(Nat) /\ DOMAIN contents \subseteq DOMAIN written
      /\ \A j \in DOMAIN contents : contents[j] = written[j] \/ contents[j] = Torn
  BY <1>2, CutOf
<1>4. /\ closed.dir \in Directories /\ DOMAIN closed.dir = DOMAIN now.dir
      /\ closed.dir[i] = contents
      /\ \A j \in DOMAIN now.dir : j # i => closed.dir[j] = now.dir[j]
  <2>1. /\ closed.dir \in Directories /\ DOMAIN closed.dir = DOMAIN now.dir \cup {i}
        /\ closed.dir[i] = contents
        /\ \A j \in DOMAIN now.dir : j # i => closed.dir[j] = now.dir[j]
    <3>1. Rewrites(With(now.dir, i, contents), now.dir, i, contents)
      BY <1>2, <1>3, WithRewrites
    <3>2. Rewrites(closed.dir, now.dir, i, contents)
      BY <3>1
    <3> HIDE DEF i
    <3> QED BY <3>2 DEF Rewrites
  <2> QED BY <1>2, <2>1
<1>5. ChunksInv(closed)
  <2>1. \A k \in DOMAIN list : list[k] \in DOMAIN closed.dir
    BY <1>1, <1>4 DEF ChunksInv
  <2>2. /\ plain.session \in SessionData /\ plain.chunk \in IsChunk
        /\ \A k \in DOMAIN list :
               /\ list[k] <= plain.chunk.index
               /\ \A l \in DOMAIN list : k < l => list[k] < list[l]
    BY <1>1 DEF ChunksInv
  <2>3. closed.session = plain.session /\ closed.chunk = plain.chunk
    BY DEF plain
  <2> QED BY <1>1, <1>4, <2>1, <2>2, <2>3 DEF ChunksInv
<1>6. ASSUME NEW p \in PlacesOf(closed)
      PROVE  p \in PlacesOf(now) /\ NumberOf(closed, p) = NumberOf(now, p)
  <2>1. closed.session.chunks = list
    BY DEF plain
  <2>2. PICK k \in DOMAIN list : \E j \in DOMAIN closed.dir[list[k]] :
            list[k] \in DOMAIN closed.dir /\ p = <<k, j>> /\ closed.dir[list[k]][j] # Torn
    BY <1>6, <2>1, PlaceMember DEF PlacesOf
  <2>3. PICK j \in DOMAIN closed.dir[list[k]] :
            list[k] \in DOMAIN closed.dir /\ p = <<k, j>> /\ closed.dir[list[k]][j] # Torn
    BY <2>2
  <2>4. /\ k \in DOMAIN now.session.chunks /\ now.session.chunks[k] = list[k]
        /\ list[k] \in DOMAIN now.dir
    BY <1>1, <1>4, <2>3
  <2> HIDE DEF list, i
  <2>5. j \in DOMAIN now.dir[list[k]] /\ closed.dir[list[k]][j] = now.dir[list[k]][j]
    <3>1. CASE list[k] = i
      BY <1>3, <1>4, <2>3, <3>1
    <3>2. CASE list[k] # i
      BY <1>4, <2>3, <2>4, <3>2
    <3> QED BY <3>1, <3>2
  <2>6. p \in PlacesOf(now)
    BY <2>3, <2>4, <2>5, PlaceMember DEF PlacesOf
  <2>7. p[1] = k /\ p[2] = j
    BY <2>3
  <2> QED BY <2>1, <2>4, <2>5, <2>6, <2>7 DEF NumberOf, At
<1>7. SameCounters(now, closed)
  BY <1>1, SMTT(30) DEF SameFrames, SameCounters, plain
<1> QED BY <1>5, <1>6, <1>7 DEF FewerFrames

(* However the chunk closes.                                               *)
LEMMA ClosingKeepsFrames ==
  ASSUME NEW now, ChunksInv(now), NEW closed \in Closings(now)
  PROVE  /\ Keeps(now, closed) /\ ~closed.chunk.open /\ closed.chunk.index = now.chunk.index
         /\ closed.lost \in {now.lost, TRUE}
<1> DEFINE plain == CloseChunk(now)
           written == now.dir[now.chunk.index]
<1>1. /\ ChunksInv(plain) /\ SameFrames(now, plain) /\ ~plain.chunk.open
      /\ plain.chunk.index = now.chunk.index
  BY CloseKeepsFrames
<1>2. FewerFrames(now, plain)
  BY <1>1, SameIsFewer
<1>3. CASE closed = plain
  <2>1. plain.lost = now.lost
    <3>1. CASE ~now.chunk.open
      BY <3>1 DEF CloseChunk
    <3>2. CASE now.chunk.open
      BY <3>2, ClosedFields
    <3> QED BY <3>1, <3>2
  <2> QED BY <1>1, <1>2, <1>3, <2>1 DEF Keeps
<1>4. CASE now.chunk.open /\ \E contents \in Cuts(written) \cup {written} :
              closed = [plain EXCEPT !.dir = With(now.dir, now.chunk.index, contents),
                                     !.lost = TRUE]
  <2>1. PICK contents \in Cuts(written) \cup {written} :
            closed = [plain EXCEPT !.dir = With(now.dir, now.chunk.index, contents),
                                   !.lost = TRUE]
    BY <1>4
  <2>2. PICK a, b, c, d : plain = [session |-> a, chunk |-> b, dir |-> c, lost |-> d]
    BY <1>1 DEF ChunksInv, RecordOf
  <2> DEFINE dir == With(now.dir, now.chunk.index, contents)
  <2>3. closed = [session |-> a, chunk |-> b, dir |-> dir, lost |-> TRUE]
    <3> HIDE DEF dir, plain
    <3>1. closed = [plain EXCEPT !.dir = dir, !.lost = TRUE]
      BY <2>1 DEF dir
    <3> QED BY <2>2, <3>1
  <2>4. /\ closed = RecordOf(closed) /\ closed.session = a /\ closed.chunk = b
        /\ closed.dir = dir /\ closed.lost = TRUE
    <3> HIDE DEF dir
    <3>1. closed.session = a /\ closed.chunk = b /\ closed.dir = dir /\ closed.lost = TRUE
      BY <2>3
    <3> QED BY <2>3, <3>1, Zenon DEF RecordOf
  <2>5. plain.session = a /\ plain.chunk = b
    BY <2>2
  <2>6. ChunksInv(closed) /\ FewerFrames(now, closed)
    <3>1. closed.session = plain.session /\ closed.chunk = plain.chunk
      BY <2>4, <2>5
    <3> HIDE DEF plain
    <3> QED BY <1>4, <2>4, <3>1, LossKeepsFrames DEF plain
  <2> HIDE DEF plain
  <2> QED BY <1>1, <2>4, <2>5, <2>6 DEF Keeps
<1> QED BY <1>3, <1>4 DEF Closings

(* OpenNextChunk, field by field.                                          *)
LEMMA OpenedFields ==
  ASSUME NEW closed, ChunksInv(closed), NEW created \in BOOLEAN
  PROVE  LET index == closed.chunk.index + 1
         IN  OpenNextChunk(closed, created) =
                IF created
                THEN [session |-> [closed.session EXCEPT !.chunks = Append(@, index)],
                      chunk |-> [index |-> index, bytes |-> 0, open |-> TRUE],
                      dir |-> With(closed.dir, index, <<>>), lost |-> closed.lost]
                ELSE [session |-> closed.session,
                      chunk |-> [index |-> index, bytes |-> closed.chunk.bytes,
                                 open |-> closed.chunk.open],
                      dir |-> closed.dir, lost |-> closed.lost]
<1>1. PICK data, ch, dir, lost :
          closed = [session |-> data, chunk |-> ch, dir |-> dir, lost |-> lost]
  BY DEF ChunksInv, RecordOf
<1>2. closed.session = data /\ closed.chunk = ch /\ closed.dir = dir /\ closed.lost = lost
  BY <1>1
<1>3. ch = [index |-> ch.index, bytes |-> ch.bytes, open |-> ch.open]
  BY <1>2 DEF ChunksInv, IsChunk
<1> DEFINE index == closed.chunk.index + 1
<1>4. CASE created
  <2>1. OpenNextChunk(closed, created) =
           [closed EXCEPT !.session.chunks = Append(@, index),
                          !.chunk = [index |-> index, bytes |-> 0, open |-> TRUE],
                          !.dir = With(@, index, <<>>)]
    BY <1>4 DEF OpenNextChunk
  <2> HIDE DEF index
  <2>2. OpenNextChunk(closed, created) =
           [session |-> [data EXCEPT !.chunks = Append(@, index)],
            chunk |-> [index |-> index, bytes |-> 0, open |-> TRUE],
            dir |-> With(dir, index, <<>>), lost |-> lost]
    BY <1>1, <2>1
  <2> QED BY <1>2, <1>4, <2>2 DEF index
<1>5. CASE ~created
  <2>1. OpenNextChunk(closed, created) = [closed EXCEPT !.chunk.index = index]
    BY <1>5 DEF OpenNextChunk
  <2> HIDE DEF index
  <2>2. OpenNextChunk(closed, created) =
           [session |-> data, chunk |-> [ch EXCEPT !.index = index], dir |-> dir, lost |-> lost]
    BY <1>1, <2>1
  <2>3. [ch EXCEPT !.index = index] = [index |-> index, bytes |-> ch.bytes, open |-> ch.open]
    BY <1>3
  <2> QED BY <1>2, <1>5, <2>2, <2>3 DEF index
<1> QED BY <1>4, <1>5

LEMMA OpenKeepsFrames ==
  ASSUME NEW closed, ChunksInv(closed), ~closed.chunk.open, NEW created \in BOOLEAN
  PROVE  /\ ChunksInv(OpenNextChunk(closed, created))
         /\ SameFrames(closed, OpenNextChunk(closed, created))
         /\ OpenNextChunk(closed, created).lost = closed.lost
         /\ created => OpenNextChunk(closed, created).chunk.open
<1> DEFINE opened == OpenNextChunk(closed, created)
           list == closed.session.chunks
           index == closed.chunk.index + 1
<1>1. ChunksInv(closed) /\ ~closed.chunk.open
  OBVIOUS
<1>2. opened = IF created
               THEN [session |-> [closed.session EXCEPT !.chunks = Append(@, index)],
                     chunk   |-> [index |-> index, bytes |-> 0, open |-> TRUE],
                     dir     |-> With(closed.dir, index, <<>>), lost |-> closed.lost]
               ELSE [session |-> closed.session,
                     chunk   |-> [index |-> index, bytes |-> closed.chunk.bytes,
                                  open |-> closed.chunk.open],
                     dir     |-> closed.dir, lost |-> closed.lost]
  BY OpenedFields
<1> HIDE DEF opened
<1>3. /\ closed = RecordOf(closed)
      /\ closed.session \in SessionData /\ closed.chunk \in IsChunk
      /\ list \in Seq(Nat \ {0}) /\ closed.chunk.index \in Nat /\ index \in Nat \ {0}
  BY <1>1 DEF ChunksInv, SessionData, IsChunk
<1>4. CASE ~created
  <2> HIDE DEF index
  <2>0. opened = [session |-> closed.session,
                  chunk |-> [index |-> index, bytes |-> closed.chunk.bytes,
                             open |-> closed.chunk.open],
                  dir |-> closed.dir, lost |-> closed.lost]
    BY <1>2, <1>4
  <2>1. /\ opened.session = closed.session /\ opened.dir = closed.dir
        /\ opened.chunk = [index |-> index, bytes |-> closed.chunk.bytes,
                           open |-> closed.chunk.open]
        /\ opened.lost = closed.lost
    BY <2>0
  <2>6. opened = RecordOf(opened)
    BY <2>0, <2>1, Zenon DEF RecordOf
  <2>2. opened.chunk \in IsChunk /\ opened.chunk.index = index /\ ~opened.chunk.open
    <3>1. closed.chunk.bytes \in Nat /\ closed.chunk.open \in BOOLEAN
      BY <1>3 DEF IsChunk
    <3> QED BY <1>1, <1>3, <2>1, <3>1 DEF IsChunk
  <2>3. \A k \in DOMAIN list : list[k] \in Nat
    BY <1>3
  <2>4. ChunksInv(opened)
    <3>1. \A k \in DOMAIN list : list[k] <= closed.chunk.index
      BY <1>1 DEF ChunksInv
    <3>2. \A k \in DOMAIN list : list[k] <= opened.chunk.index
      BY <1>3, <2>2, <2>3, <3>1 DEF index
    <3> QED BY <1>1, <2>1, <2>2, <2>6, <3>2 DEF ChunksInv
  <2>5. Filled(closed) => Filled(opened)
    BY <1>1, <2>1 DEF Filled
  <2>7. SameFrames(closed, opened)
    BY <2>1, <2>5, SameFilesSameFrames
  <2> QED BY <1>4, <2>1, <2>4, <2>7 DEF opened
<1>5. CASE created
  <2> DEFINE more == opened.session.chunks
  <2>0. opened = [session |-> [closed.session EXCEPT !.chunks = Append(@, index)],
                  chunk |-> [index |-> index, bytes |-> 0, open |-> TRUE],
                  dir |-> With(closed.dir, index, <<>>), lost |-> closed.lost]
    BY <1>2, <1>5
  <2>1. /\ opened = RecordOf(opened)
        /\ opened.session = [closed.session EXCEPT !.chunks = Append(@, index)]
        /\ opened.chunk = [index |-> index, bytes |-> 0, open |-> TRUE]
        /\ opened.dir = With(closed.dir, index, <<>>)
        /\ opened.lost = closed.lost
    <3> HIDE DEF index
    <3>1. /\ opened.session = [closed.session EXCEPT !.chunks = Append(@, index)]
          /\ opened.chunk = [index |-> index, bytes |-> 0, open |-> TRUE]
          /\ opened.dir = With(closed.dir, index, <<>>)
          /\ opened.lost = closed.lost
      BY <2>0
    <3> QED BY <2>0, <3>1, Zenon DEF RecordOf
  <2>2. /\ more = Append(list, index) /\ opened.session \in SessionData
        /\ opened.session.count = closed.session.count
        /\ opened.session.first = closed.session.first
        /\ opened.session.last = closed.session.last
    <3>1. Append(list, index) \in Seq(Nat \ {0})
      BY <1>3
    <3> HIDE DEF index
    <3> QED BY <1>3, <2>1, <3>1 DEF SessionData
  <2>3. /\ Len(list) \in Nat /\ DOMAIN list = 1..Len(list) /\ Len(more) = Len(list) + 1
        /\ DOMAIN more = 1..(Len(list) + 1) /\ more[Len(list) + 1] = index
        /\ \A k \in 1..Len(list) : more[k] = list[k]
    <3> HIDE DEF list, index, more
    <3> QED BY <1>3, <2>2, AppendTo
  <2>4. \A k \in DOMAIN list : /\ list[k] \in DOMAIN closed.dir /\ list[k] < index /\ list[k] \in Nat
                               /\ \A l \in DOMAIN list : k < l => list[k] < list[l]
    <3>1. \A k \in DOMAIN list : list[k] <= closed.chunk.index /\ list[k] \in Nat
      BY <1>1, <1>3 DEF ChunksInv
    <3>2. \A k \in DOMAIN list : list[k] < index
      BY <1>3, <3>1
    <3> HIDE DEF list
    <3> QED BY <1>1, <3>1, <3>2 DEF list, ChunksInv
  <2>5. /\ DOMAIN opened.dir = DOMAIN closed.dir \cup {index}
        /\ opened.dir[index] = <<>>
        /\ \A i \in DOMAIN closed.dir : i # index => opened.dir[i] = closed.dir[i]
        /\ opened.dir \in Directories
    <3>1. closed.dir \in Directories /\ <<>> \in Seq(Nat)
      BY <1>1 DEF ChunksInv
    <3>2. Rewrites(With(closed.dir, index, <<>>), closed.dir, index, <<>>)
      <4> HIDE DEF index
      <4> QED BY <1>3, <3>1, WithRewrites
    <3>3. Rewrites(opened.dir, closed.dir, index, <<>>)
      BY <2>1, <3>2
    <3> HIDE DEF index
    <3> QED BY <3>3 DEF Rewrites
  <2>6. \A k \in DOMAIN list : more[k] = list[k] /\ opened.dir[more[k]] = closed.dir[more[k]]
    <3>1. \A k \in DOMAIN list : more[k] = list[k] /\ list[k] # index
      <4> HIDE DEF list, more, index
      <4> QED BY <1>3, <2>3, <2>4
    <3> HIDE DEF list, more, index
    <3> QED BY <2>4, <2>5, <3>1
  <2>7. ChunksInv(opened)
    <3>1. opened.chunk \in IsChunk /\ opened.chunk.index = index /\ opened.chunk.open
          /\ opened.chunk.bytes = 0
      <4> HIDE DEF index
      <4> QED BY <1>3, <2>1 DEF IsChunk
    <3>2. DOMAIN more = DOMAIN list \cup {Len(list) + 1} /\ Len(list) + 1 = Len(more)
      <4> HIDE DEF list, more
      <4> QED BY <2>3
    <3>3. \A k \in DOMAIN more : more[k] \in DOMAIN opened.dir /\ more[k] <= index
      <4> HIDE DEF list, more, index
      <4> QED BY <1>3, <2>3, <2>4, <2>5, <2>6, <3>2
    <3>4. \A k, l \in DOMAIN more : k < l => more[k] < more[l]
      <4> SUFFICES ASSUME NEW k \in DOMAIN more, NEW l \in DOMAIN more, k < l
                   PROVE  more[k] < more[l]
        OBVIOUS
      <4>1. k \in DOMAIN list
        <5> HIDE DEF list, more
        <5> QED BY <2>3
      <4>2. CASE l \in DOMAIN list
        <5> HIDE DEF list, more
        <5> QED BY <2>4, <2>6, <4>1, <4>2
      <4>3. CASE l = Len(list) + 1
        <5> HIDE DEF list, more, index
        <5> QED BY <2>3, <2>4, <2>6, <4>1, <4>3
      <4> QED BY <3>2, <4>2, <4>3
    <3>6. Len(more) > 0 /\ more[Len(more)] = index /\ DOMAIN opened.dir[index] = {}
      <4>1. DOMAIN opened.dir[index] = {}
        BY <2>5
      <4> HIDE DEF list, more, index
      <4> QED BY <2>3, <4>1
    <3> HIDE DEF index, list
    <3> QED BY <2>1, <2>2, <2>5, <3>1, <3>2, <3>3, <3>4, <3>6 DEF ChunksInv
  <2>8. PlacesOf(opened) = PlacesOf(closed)
        /\ \A p \in PlacesOf(closed) : NumberOf(opened, p) = NumberOf(closed, p)
    <3>1. \A k \in DOMAIN more \ DOMAIN list : more[k] = index
      <4> HIDE DEF list, more, index
      <4> QED BY <2>3
    <3>2. Shortened(opened.dir, more, closed.dir, list)
      <4>1. DOMAIN list \subseteq DOMAIN more
            /\ \A k \in DOMAIN list : list[k] \in DOMAIN closed.dir /\ list[k] \in DOMAIN opened.dir
        <5> HIDE DEF list, more
        <5> QED BY <2>3, <2>4, <2>5
      <4> HIDE DEF list, more, index
      <4> QED BY <2>5, <2>6, <3>1, <4>1 DEF Shortened
    <3>3. /\ Whole(opened.dir, more) = Whole(closed.dir, list)
          /\ \A p \in Whole(closed.dir, list) : At(opened.dir, more, p) = At(closed.dir, list, p)
      <4> HIDE DEF list, more
      <4> QED BY <3>2, SamePlaces
    <3> QED BY <3>3 DEF PlacesOf, NumberOf
  <2>9. DOMAIN closed.dir = ToSet(list) => DOMAIN opened.dir = ToSet(more)
    <3>1. ToSet(more) = ToSet(list) \cup {index}
      <4>1. DOMAIN more = DOMAIN list \cup {Len(list) + 1} /\ more[Len(list) + 1] = index
        <5> HIDE DEF list, more
        <5> QED BY <2>3
      <4> HIDE DEF list, more, index
      <4> QED BY <2>6, <4>1 DEF ToSet
    <3> QED BY <2>5, <3>1
  <2>12. Filled(closed) => Filled(opened)
    <3> SUFFICES ASSUME Filled(closed), NEW k \in DOMAIN more, k # Len(more)
                 PROVE  \E j \in DOMAIN opened.dir[more[k]] : opened.dir[more[k]][j] # Torn
      <4>1. opened.chunk.open /\ opened.chunk.bytes = 0
        BY <2>1
      <4> QED BY <4>1 DEF Filled
    <3>1. k \in DOMAIN list
      <4> HIDE DEF list, more
      <4> QED BY <2>3
    <3>2. \E j \in DOMAIN closed.dir[list[k]] : closed.dir[list[k]][j] # Torn
      BY <1>1, <3>1 DEF Filled
    <3> HIDE DEF list, more
    <3> QED BY <2>6, <3>1, <3>2
  <2>10. SameFrames(closed, opened)
    BY <2>2, <2>8, <2>9, <2>12 DEF SameFrames, SameCounters
  <2>11. opened.chunk.open
    BY <2>1
  <2> QED BY <2>1, <2>7, <2>10, <2>11 DEF opened
<1> QED BY <1>4, <1>5

LEMMA KeepsThenSame ==
  ASSUME NEW a, NEW b, NEW c, Keeps(a, b), ChunksInv(c), SameFrames(b, c), c.lost = b.lost
  PROVE  Keeps(a, c)
<1>1. FewerFrames(a, c)
  BY SameIsFewer, FewerFramesTransitive DEF Keeps
<1>2. b.lost \/ SameFrames(a, c)
  BY SameFramesTransitive DEF Keeps
<1>3. c.lost \/ SameFrames(a, c)
  BY <1>2
<1> QED BY <1>1, <1>3 DEF Keeps

(* What a write appends to the open chunk, a frame or the torn bytes of    *)
(* one, comes after everything that is there.                              *)
NextPlace(now) == <<Len(now.session.chunks), Len(now.dir[now.chunk.index]) + 1>>

Appended(now, n, size) ==
    [session |-> now.session,
     chunk   |-> [now.chunk EXCEPT !.bytes = @ + size],
     dir     |-> With(now.dir, now.chunk.index, Append(now.dir[now.chunk.index], n)),
     lost    |-> now.lost]

LEMMA AppendKeepsFrames ==
  ASSUME NEW now, ChunksInv(now), now.chunk.open, NEW n \in Nat, NEW size \in Nat,
         n = Torn <=> size = 0
  PROVE  LET new == Appended(now, n, size)
             p0 == NextPlace(now)
         IN  /\ ChunksInv(new) /\ new.session = now.session /\ DOMAIN new.dir = DOMAIN now.dir
             /\ new.lost = now.lost /\ (Filled(now) => Filled(new))
             /\ PlacesOf(new) = PlacesOf(now) \cup (IF n = Torn THEN {} ELSE {p0})
             /\ \A p \in PlacesOf(now) : NumberOf(new, p) = NumberOf(now, p)
             /\ NumberOf(new, p0) = n
             /\ \A p \in PlacesOf(now) : p # p0 /\ Before(p, p0) /\ ~Before(p0, p)
<1> DEFINE new == Appended(now, n, size)
           p0 == NextPlace(now)
           list == now.session.chunks
           i == now.chunk.index
           f == now.dir[i]
<1>1. /\ list \in Seq(Nat \ {0}) /\ Len(list) \in Nat /\ Len(list) > 0
      /\ DOMAIN list = 1..Len(list) /\ list[Len(list)] = i /\ Len(list) \in DOMAIN list
  BY DEF ChunksInv, SessionData
<1>2. /\ i \in DOMAIN now.dir /\ f \in Seq(Nat) /\ now.chunk \in IsChunk
  BY <1>1 DEF ChunksInv, Directories
<1>3. /\ Append(f, n) \in Seq(Nat) /\ Len(Append(f, n)) = Len(f) + 1 /\ Len(f) \in Nat
      /\ DOMAIN f = 1..Len(f) /\ DOMAIN Append(f, n) = 1..(Len(f) + 1)
      /\ Append(f, n)[Len(f) + 1] = n
      /\ \A k \in 1..Len(f) : Append(f, n)[k] = f[k]
  <2> HIDE DEF f
  <2> QED BY <1>2, AppendTo
<1> DEFINE g == Append(f, n)
<1>4. /\ new = RecordOf(new) /\ new.lost = now.lost
      /\ new.session = now.session
      /\ new.chunk = [now.chunk EXCEPT !.bytes = @ + size]
      /\ new.dir = With(now.dir, i, g)
  <2>1. new = [session |-> now.session, chunk |-> [now.chunk EXCEPT !.bytes = @ + size],
               dir |-> With(now.dir, i, g), lost |-> now.lost]
    BY DEF Appended
  <2> HIDE DEF new, i, g
  <2>2. /\ new.session = now.session /\ new.lost = now.lost
        /\ new.chunk = [now.chunk EXCEPT !.bytes = @ + size]
        /\ new.dir = With(now.dir, i, g)
    BY <2>1
  <2> QED BY <2>1, <2>2, Zenon DEF RecordOf
<1>5. /\ DOMAIN new.dir = DOMAIN now.dir /\ new.dir[i] = g /\ new.dir \in Directories
      /\ \A j \in DOMAIN now.dir : j # i => new.dir[j] = now.dir[j]
  <2>1. now.dir \in Directories /\ i \in Nat \ {0} /\ g \in Seq(Nat)
    <3>1. i \in Nat \ {0}
      BY <1>1
    <3>2. now.dir \in Directories
      BY DEF ChunksInv
    <3> QED BY <1>3, <3>1, <3>2
  <2>2. Rewrites(With(now.dir, i, g), now.dir, i, g)
    <3> HIDE DEF i, g
    <3> QED BY <2>1, WithRewrites
  <2> HIDE DEF new, i, g
  <2>3. Rewrites(new.dir, now.dir, i, g)
    BY <1>4, <2>2
  <2>4. DOMAIN now.dir \cup {i} = DOMAIN now.dir
    BY <1>2
  <2> QED BY <2>3, <2>4 DEF Rewrites
<1>6. /\ new.chunk.index = i /\ new.chunk.open /\ new.chunk.bytes = now.chunk.bytes + size
      /\ new.chunk \in IsChunk /\ now.chunk.bytes \in Nat
  <2>1. new.chunk = [index |-> i, bytes |-> now.chunk.bytes + size, open |-> TRUE]
        /\ i \in Nat /\ now.chunk.bytes \in Nat
    BY <1>2, <1>4 DEF IsChunk
  <2> HIDE DEF new, i
  <2>2. now.chunk.bytes + size \in Nat
    BY <2>1
  <2> QED BY <2>1, <2>2 DEF IsChunk
<1>7. \A k \in DOMAIN list : k # Len(list) => list[k] # i /\ new.dir[list[k]] = now.dir[list[k]]
  <2>1. \A k \in DOMAIN list : list[k] \in DOMAIN now.dir /\ list[k] \in Nat
                               /\ \A l \in DOMAIN list : k < l => list[k] < list[l]
    BY <1>1 DEF ChunksInv
  <2>2. \A k \in DOMAIN list : k # Len(list) => k < Len(list)
    <3> HIDE DEF list
    <3> QED BY <1>1
  <2>3. list[Len(list)] = i /\ Len(list) \in DOMAIN list
    BY <1>1
  <2>4. \A j \in DOMAIN now.dir : j # i => new.dir[j] = now.dir[j]
    BY <1>5
  <2> HIDE DEF list, i, new
  <2>5. \A k \in DOMAIN list : k # Len(list) => list[k] < list[Len(list)]
    BY <2>1, <2>2, <2>3
  <2>6. \A k \in DOMAIN list : k # Len(list) => list[k] # i
    BY <2>1, <2>3, <2>5
  <2> QED BY <2>1, <2>4, <2>6
<1>8. p0 = <<Len(list), Len(f) + 1>>
  BY DEF NextPlace
<1> HIDE DEF new, p0
<1>9. ASSUME NEW p \in PlacesOf(now)
      PROVE  /\ p \in PlacesOf(new) /\ NumberOf(new, p) = NumberOf(now, p)
             /\ p # p0 /\ Before(p, p0) /\ ~Before(p0, p)
  <2>1. PICK k \in DOMAIN list : \E j \in DOMAIN now.dir[list[k]] :
            list[k] \in DOMAIN now.dir /\ p = <<k, j>> /\ now.dir[list[k]][j] # Torn
    BY <1>9, PlaceMember DEF PlacesOf
  <2>2. PICK j \in DOMAIN now.dir[list[k]] : p = <<k, j>> /\ now.dir[list[k]][j] # Torn
    BY <2>1
  <2>3. j \in DOMAIN new.dir[list[k]] /\ new.dir[list[k]][j] = now.dir[list[k]][j]
    <3>1. CASE k = Len(list)
      <4>1. j \in 1..Len(f) /\ j \in 1..(Len(f) + 1)
        <5>1. j \in DOMAIN f
          BY <1>1, <2>2, <3>1
        <5> HIDE DEF f
        <5> QED BY <1>3, <5>1
      <4>2. list[k] = i /\ new.dir[i] = g /\ now.dir[i] = f
        BY <1>1, <1>5, <3>1
      <4>3. j \in DOMAIN g /\ g[j] = f[j]
        <5> HIDE DEF f
        <5> QED BY <1>3, <4>1
      <4> HIDE DEF f, g, list, i
      <4> QED BY <4>2, <4>3
    <3>2. CASE k # Len(list)
      BY <1>7, <2>2, <3>2
    <3> QED BY <3>1, <3>2
  <2>4. p \in Whole(new.dir, list)
    <3>1. list[k] \in DOMAIN new.dir
      BY <1>5, <2>1
    <3> QED BY <2>2, <2>3, <3>1, PlaceMember
  <2>5. p[1] = k /\ p[2] = j
    BY <2>2
  <2>6. NumberOf(new, p) = NumberOf(now, p)
    BY <1>4, <2>3, <2>5 DEF NumberOf, At
  <2>7. k < Len(list) \/ (k = Len(list) /\ j < Len(f) + 1)
    <3>1. CASE k = Len(list)
      <4>1. j \in DOMAIN f
        BY <1>1, <2>2, <3>1
      <4> HIDE DEF f
      <4> QED BY <1>3, <3>1, <4>1
    <3>2. CASE k # Len(list)
      <4> HIDE DEF list
      <4> QED BY <1>1, <3>2
    <3> QED BY <3>1, <3>2
  <2>8. p0[1] = Len(list) /\ p0[2] = Len(f) + 1
    BY <1>8
  <2>9. k \in Nat /\ Len(list) \in Nat /\ Len(f) \in Nat
    BY <1>1, <1>3
  <2>10. j \in Nat \/ k < Len(list)
    <3>1. CASE k = Len(list)
      <4>1. j \in DOMAIN f
        BY <1>1, <2>2, <3>1
      <4> HIDE DEF f
      <4> QED BY <1>3, <4>1
    <3> QED BY <2>7, <3>1
  <2> HIDE DEF list, f
  <2>11. p # p0 /\ Before(p, p0) /\ ~Before(p0, p)
    BY <2>5, <2>7, <2>8, <2>9, <2>10 DEF Before
  <2> QED BY <1>4, <2>4, <2>6, <2>11 DEF PlacesOf, list
<1>10. NumberOf(new, p0) = n
  <2>1. p0[1] = Len(list) /\ p0[2] = Len(f) + 1
    BY <1>8
  <2>2. new.dir[list[Len(list)]][Len(f) + 1] = n
    BY <1>1, <1>3, <1>5
  <2>3. new.session.chunks = list
    BY <1>4
  <2> HIDE DEF list, f
  <2> QED BY <2>1, <2>2, <2>3 DEF NumberOf, At
<1>11. n # Torn => p0 \in PlacesOf(new)
  <2>1. Len(f) + 1 \in DOMAIN new.dir[list[Len(list)]] /\ new.dir[list[Len(list)]][Len(f) + 1] = n
    BY <1>1, <1>3, <1>5
  <2>2. new.session.chunks = list
    BY <1>4
  <2>3. list[Len(list)] \in DOMAIN new.dir
    BY <1>1, <1>2, <1>5
  <2> HIDE DEF list, f
  <2> QED BY <1>1, <1>8, <2>1, <2>2, <2>3, PlaceMember DEF PlacesOf
<1>12. ASSUME NEW p \in PlacesOf(new)
       PROVE  p \in PlacesOf(now) \/ (n # Torn /\ p = p0)
  <2>1. PICK k \in DOMAIN list : \E j \in DOMAIN new.dir[list[k]] :
            list[k] \in DOMAIN new.dir /\ p = <<k, j>> /\ new.dir[list[k]][j] # Torn
    <3>1. p \in Whole(new.dir, list)
      BY <1>4, <1>12 DEF PlacesOf
    <3> QED BY <3>1, PlaceMember
  <2>2. PICK j \in DOMAIN new.dir[list[k]] : p = <<k, j>> /\ new.dir[list[k]][j] # Torn
    BY <2>1
  <2>5. list[k] \in DOMAIN now.dir
    BY <1>5, <2>1
  <2>3. CASE k # Len(list)
    <3>1. j \in DOMAIN now.dir[list[k]] /\ now.dir[list[k]][j] # Torn
      BY <1>7, <2>2, <2>3
    <3> QED BY <2>2, <2>5, <3>1, PlaceMember DEF PlacesOf
  <2>4. CASE k = Len(list)
    <3>1. j \in DOMAIN g /\ g[j] # Torn /\ now.dir[list[k]] = f
      BY <1>1, <1>5, <2>2, <2>4
    <3>2. CASE j = Len(f) + 1
      <4> HIDE DEF f, list
      <4> QED BY <1>3, <1>8, <2>2, <2>4, <3>1, <3>2
    <3>3. CASE j # Len(f) + 1
      <4>1. j \in DOMAIN f /\ f[j] # Torn
        <5> HIDE DEF f
        <5> QED BY <1>3, <3>1, <3>3
      <4> QED BY <2>2, <2>5, <3>1, <4>1, PlaceMember DEF PlacesOf
    <3> QED BY <3>2, <3>3
  <2> QED BY <2>3, <2>4
<1>13. ChunksInv(new)
  <2>1. new.session \in SessionData /\ new.session.chunks = list
    BY <1>4 DEF ChunksInv
  <2>2. \A k \in DOMAIN list : list[k] \in DOMAIN new.dir /\ list[k] <= new.chunk.index
            /\ \A l \in DOMAIN list : k < l => list[k] < list[l]
    BY <1>5, <1>6 DEF ChunksInv
  <2>5. new.chunk.bytes = 0 => \A j \in DOMAIN g : g[j] = Torn
    <3> SUFFICES ASSUME new.chunk.bytes = 0, NEW j \in DOMAIN g PROVE g[j] = Torn
      OBVIOUS
    <3>1. size = 0 /\ now.chunk.bytes = 0 /\ n = Torn
      <4> HIDE DEF g
      <4> QED BY <1>6
    <3>2. \A l \in DOMAIN f : f[l] = Torn
      BY <3>1 DEF ChunksInv
    <3> HIDE DEF f
    <3> QED BY <1>3, <3>1, <3>2
  <2> HIDE DEF list, g, f, i
  <2> QED BY <1>1, <1>4, <1>5, <1>6, <2>1, <2>2, <2>5 DEF ChunksInv
<1>15. ASSUME Filled(now) PROVE Filled(new)
  <2>3. ASSUME NEW k \in DOMAIN list, k # Len(list)
        PROVE  \E j \in DOMAIN new.dir[list[k]] : new.dir[list[k]][j] # Torn
    BY <1>7, <1>15, <2>3 DEF Filled
  <2>4. (new.chunk.bytes = 0) \/ \E j \in DOMAIN g : g[j] # Torn
    <3>1. CASE size # 0
      <4>1. Len(f) + 1 \in DOMAIN g /\ g[Len(f) + 1] # Torn
        <5> HIDE DEF f
        <5> QED BY <1>3, <3>1
      <4> QED BY <4>1
    <3>2. CASE size = 0 /\ now.chunk.bytes # 0
      <4>1. PICK j \in DOMAIN f : f[j] # Torn
        BY <1>1, <1>15, <3>2, SMTT(30) DEF Filled
      <4>2. j \in DOMAIN g /\ g[j] # Torn
        <5> HIDE DEF f
        <5> QED BY <1>3, <4>1
      <4> QED BY <4>2
    <3>3. CASE size = 0 /\ now.chunk.bytes = 0
      BY <1>6, <3>3
    <3> QED BY <3>1, <3>2, <3>3
  <2>5. new.session.chunks = list /\ new.dir[list[Len(list)]] = g
    BY <1>1, <1>4, <1>5
  <2> HIDE DEF list, g, f, i
  <2> QED BY <1>6, <2>3, <2>4, <2>5 DEF Filled
<1>14. PlacesOf(new) = PlacesOf(now) \cup (IF n = Torn THEN {} ELSE {p0})
  BY <1>9, <1>11, <1>12
<1> QED BY <1>4, <1>5, <1>9, <1>10, <1>13, <1>14, <1>15 DEF new, p0

(* The counters of the session are those of the frames in its chunks.      *)
CountsTrue(now) ==
    /\ IsFiniteSet(PlacesOf(now)) /\ now.session.count = Cardinality(PlacesOf(now))
    /\ PlacesOf(now) = {} => now.session.first = 0
    /\ PlacesOf(now) # {} =>
           /\ \E p \in PlacesOf(now) : now.session.first = NumberOf(now, p)
                                       /\ \A q \in PlacesOf(now) : ~Before(q, p)
           /\ \E p \in PlacesOf(now) : now.session.last = NumberOf(now, p)
                                       /\ \A q \in PlacesOf(now) : ~Before(p, q)

\* If some have been lost, they count them still.
CountsCover(now) ==
    IsFiniteSet(PlacesOf(now)) /\ Cardinality(PlacesOf(now)) <= now.session.count

LEMMA FewerFramesCovered ==
  ASSUME NEW a, NEW b, ChunksInv(a), FewerFrames(a, b), CountsCover(a)
  PROVE  CountsCover(b)
<1> DEFINE A == PlacesOf(a)
           B == PlacesOf(b)
<1>1. B \subseteq A /\ IsFiniteSet(A)
  BY DEF FewerFrames, CountsCover
<1>2. Cardinality(A) <= a.session.count /\ b.session.count = a.session.count
  BY DEF FewerFrames, CountsCover, SameCounters
<1>3. a.session.count \in Nat
  BY DEF ChunksInv, SessionData
<1> HIDE DEF A, B
<1>4. IsFiniteSet(B) /\ Cardinality(B) <= Cardinality(A)
  BY <1>1, FS_Subset
<1>5. Cardinality(A) \in Nat /\ Cardinality(B) \in Nat
  BY <1>1, <1>4, FS_CardinalityType
<1>6. Cardinality(B) <= b.session.count
  BY <1>2, <1>3, <1>4, <1>5
<1> QED BY <1>4, <1>6 DEF CountsCover, B

LEMMA SameFramesCounts ==
  ASSUME NEW a, NEW b, SameFrames(a, b), CountsTrue(a)
  PROVE  CountsTrue(b)
<1>1. /\ PlacesOf(b) = PlacesOf(a)
      /\ \A p \in PlacesOf(a) : NumberOf(b, p) = NumberOf(a, p)
      /\ b.session.count = a.session.count
      /\ b.session.first = a.session.first
      /\ b.session.last = a.session.last
  BY DEF SameFrames, SameCounters
<1> HIDE DEF PlacesOf, NumberOf
<1>2. /\ IsFiniteSet(PlacesOf(b)) /\ b.session.count = Cardinality(PlacesOf(b))
      /\ PlacesOf(b) = {} => b.session.first = 0
  <2>1. /\ IsFiniteSet(PlacesOf(a)) /\ a.session.count = Cardinality(PlacesOf(a))
        /\ PlacesOf(a) = {} => a.session.first = 0
    BY DEF CountsTrue
  <2>2. PlacesOf(b) = PlacesOf(a)
    BY <1>1
  <2>3. b.session.count = a.session.count /\ b.session.first = a.session.first
    BY <1>1
  <2> QED BY <2>1, <2>2, <2>3, Zenon
<1>3. ASSUME PlacesOf(b) # {}
      PROVE  \E p \in PlacesOf(b) : b.session.first = NumberOf(b, p)
                                    /\ \A q \in PlacesOf(b) : ~Before(q, p)
  <2>1. PICK p \in PlacesOf(a) : a.session.first = NumberOf(a, p)
                                 /\ \A q \in PlacesOf(a) : ~Before(q, p)
    BY <1>1, <1>3 DEF CountsTrue
  <2>2. p \in PlacesOf(b) /\ b.session.first = NumberOf(b, p)
    BY <1>1, <2>1
  <2>3. \A q \in PlacesOf(b) : ~Before(q, p)
    BY <1>1, <2>1
  <2> QED BY <2>2, <2>3
<1>4. ASSUME PlacesOf(b) # {}
      PROVE  \E p \in PlacesOf(b) : b.session.last = NumberOf(b, p)
                                    /\ \A q \in PlacesOf(b) : ~Before(p, q)
  <2>1. PICK p \in PlacesOf(a) : a.session.last = NumberOf(a, p)
                                 /\ \A q \in PlacesOf(a) : ~Before(p, q)
    BY <1>1, <1>4 DEF CountsTrue
  <2>2. p \in PlacesOf(b) /\ b.session.last = NumberOf(b, p)
    BY <1>1, <2>1
  <2>3. \A q \in PlacesOf(b) : ~Before(p, q)
    BY <1>1, <2>1
  <2> QED BY <2>2, <2>3
<1> QED BY <1>2, <1>3, <1>4 DEF CountsTrue

\* What writeFrame makes of a session, chunk and directory.
Recorded(now, n, size) ==
    [session |-> [now.session EXCEPT !.count = @ + 1, !.first = IF @ = 0 THEN n ELSE @,
                                     !.last = n],
     chunk   |-> Appended(now, n, size).chunk,
     dir     |-> Appended(now, n, size).dir,
     lost    |-> now.lost]

LEMMA RecordedKeeps ==
  ASSUME NEW now, ChunksInv(now), now.chunk.open, CountsCover(now),
         NEW n \in Nat \ {0}, NEW size \in Nat \ {0}
  PROVE  LET new == Recorded(now, n, size)
             p0 == NextPlace(now)
         IN  /\ ChunksInv(new) /\ CountsCover(new)
             /\ CountsTrue(now) => CountsTrue(new)
             /\ Filled(now) => Filled(new)
             /\ new.lost = now.lost
             /\ new.session.first = IF now.session.first = 0 THEN n ELSE now.session.first
             /\ new.session.last = n
             /\ new.session.chunks = now.session.chunks /\ DOMAIN new.dir = DOMAIN now.dir
             /\ PlacesOf(new) = PlacesOf(now) \cup {p0}
             /\ \A p \in PlacesOf(now) : /\ NumberOf(new, p) = NumberOf(now, p)
                                         /\ p # p0 /\ Before(p, p0) /\ ~Before(p0, p)
             /\ NumberOf(new, p0) = n
<1> DEFINE new == Recorded(now, n, size)
           mid == Appended(now, n, size)
           p0 == NextPlace(now)
<1>1. /\ ChunksInv(mid) /\ mid.session = now.session /\ DOMAIN mid.dir = DOMAIN now.dir
      /\ PlacesOf(mid) = PlacesOf(now) \cup {p0}
      /\ \A p \in PlacesOf(now) : NumberOf(mid, p) = NumberOf(now, p)
      /\ NumberOf(mid, p0) = n
      /\ \A p \in PlacesOf(now) : p # p0 /\ Before(p, p0) /\ ~Before(p0, p)
      /\ Filled(now) => Filled(mid)
  BY AppendKeepsFrames DEF Torn
<1>2. /\ new = RecordOf(new) /\ new.lost = now.lost
      /\ new.session = [now.session EXCEPT !.count = @ + 1, !.first = IF @ = 0 THEN n ELSE @,
                                           !.last = n]
      /\ new.chunk = mid.chunk /\ new.dir = mid.dir
  <2> DEFINE data == [now.session EXCEPT !.count = @ + 1, !.first = IF @ = 0 THEN n ELSE @,
                                         !.last = n]
  <2>1. new = [session |-> data, chunk |-> mid.chunk, dir |-> mid.dir, lost |-> now.lost]
    BY DEF Recorded
  <2> HIDE DEF new, mid, data
  <2>2. /\ new.session = data /\ new.chunk = mid.chunk /\ new.dir = mid.dir
        /\ new.lost = now.lost
    BY <2>1
  <2>3. new = RecordOf(new)
    BY <2>1, <2>2, Zenon DEF RecordOf
  <2> QED BY <2>2, <2>3 DEF data
<1> HIDE DEF new, mid, p0
<1>3. /\ new.session \in SessionData /\ new.session.chunks = now.session.chunks
      /\ new.session.count = now.session.count + 1
      /\ new.session.first = IF now.session.first = 0 THEN n ELSE now.session.first
      /\ new.session.last = n
  <2>1. now.session \in SessionData
    BY DEF ChunksInv
  <2> DEFINE old == now.session
             first == IF old.first = 0 THEN n ELSE old.first
  <2>2. old.chunks \in Seq(Nat \ {0}) /\ old.count \in Nat /\ old.first \in Nat
    BY <2>1 DEF SessionData
  <2>3. new.session = [chunks |-> old.chunks, count |-> old.count + 1, first |-> first,
                       last |-> n]
    BY <1>2, <2>1 DEF SessionData
  <2>4. first \in Nat /\ n \in Nat /\ old.count + 1 \in Nat
    BY <2>2
  <2>5. new.session \in SessionData
    <3> HIDE DEF first, old
    <3> QED BY <2>2, <2>3, <2>4 DEF SessionData
  <2> QED BY <2>3, <2>5
<1>4. ChunksInv(new)
  BY <1>1, <1>2, <1>3 DEF ChunksInv
<1>5. PlacesOf(new) = PlacesOf(mid) /\ \A p : NumberOf(new, p) = NumberOf(mid, p)
  BY <1>1, <1>2, <1>3 DEF PlacesOf, NumberOf
<1>7. Filled(now) => Filled(new)
  BY <1>1, <1>2, <1>3 DEF Filled
<1>8. CountsCover(new)
  <2>1. IsFiniteSet(PlacesOf(now)) /\ p0 \notin PlacesOf(now)
    BY <1>1 DEF CountsCover
  <2>2. IsFiniteSet(PlacesOf(new)) /\ Cardinality(PlacesOf(new)) = Cardinality(PlacesOf(now)) + 1
    BY <1>1, <1>5, <2>1, FS_AddElement
  <2>3. Cardinality(PlacesOf(now)) <= now.session.count /\ now.session.count \in Nat
    BY DEF CountsCover, ChunksInv, SessionData
  <2>4. Cardinality(PlacesOf(now)) \in Nat
    BY <2>1, FS_CardinalityType
  <2>5. Cardinality(PlacesOf(new)) <= new.session.count
    <3> DEFINE old == Cardinality(PlacesOf(now))
               all == Cardinality(PlacesOf(new))
    <3>1. all = old + 1 /\ old \in Nat /\ old <= now.session.count
      BY <2>2, <2>3, <2>4
    <3> HIDE DEF old, all
    <3>2. all <= new.session.count
      BY <1>3, <2>3, <3>1
    <3> QED BY <3>2 DEF all
  <2> QED BY <2>2, <2>5 DEF CountsCover
<1>6. ASSUME CountsTrue(now) PROVE CountsTrue(new)
  <2>1. IsFiniteSet(PlacesOf(new)) /\ new.session.count = Cardinality(PlacesOf(new))
    <3>1. IsFiniteSet(PlacesOf(now)) /\ now.session.count = Cardinality(PlacesOf(now))
          /\ p0 \notin PlacesOf(now)
      BY <1>1, <1>6 DEF CountsTrue
    <3> QED BY <1>1, <1>3, <1>5, <3>1, FS_AddElement
  <2>2. \E p \in PlacesOf(new) : new.session.last = NumberOf(new, p)
                                 /\ \A q \in PlacesOf(new) : ~Before(p, q)
    <3>1. ~Before(p0, p0)
      <4>1. Len(now.session.chunks) \in Nat /\ Len(now.dir[now.chunk.index]) \in Nat
        <5>1. now.session.chunks \in Seq(Nat \ {0})
          BY DEF ChunksInv, SessionData
        <5>2. now.dir[now.chunk.index] \in Seq(Nat)
          BY <5>1 DEF ChunksInv, Directories
        <5> QED BY <5>1, <5>2
      <4> QED BY <4>1 DEF Before, p0, NextPlace
    <3> QED BY <1>1, <1>3, <1>5, <3>1
  <2>3. \E p \in PlacesOf(new) : new.session.first = NumberOf(new, p)
                                 /\ \A q \in PlacesOf(new) : ~Before(q, p)
    <3>1. CASE PlacesOf(now) = {}
      <4>1. new.session.first = n /\ PlacesOf(new) = {p0}
        BY <1>1, <1>3, <1>5, <1>6, <3>1 DEF CountsTrue
      <4> QED BY <1>1, <1>5, <2>2, <4>1
    <3>2. CASE PlacesOf(now) # {}
      <4>1. PICK p \in PlacesOf(now) : now.session.first = NumberOf(now, p)
                                       /\ \A q \in PlacesOf(now) : ~Before(q, p)
        BY <1>6, <3>2 DEF CountsTrue
      <4>2. NumberOf(now, p) # 0
        BY DEF PlacesOf, NumberOf, Whole, Torn
      <4>3. new.session.first = NumberOf(new, p)
        BY <1>1, <1>3, <1>5, <4>1, <4>2
      <4> QED BY <1>1, <1>5, <4>1, <4>3
    <3> QED BY <3>1, <3>2
  <2> QED BY <1>1, <1>5, <2>1, <2>2, <2>3 DEF CountsTrue
<1> QED BY <1>1, <1>2, <1>3, <1>4, <1>5, <1>6, <1>7, <1>8 DEF new, p0

\* NoData and no chunk, over any directory: where startRecord begins.
LEMMA FreshIsSound ==
  ASSUME NEW dir \in Directories
  PROVE  LET fresh == NowOf(NoData, NoChunk, dir)
         IN  /\ ChunksInv(fresh) /\ CountsTrue(fresh) /\ CountsCover(fresh) /\ Filled(fresh)
             /\ PlacesOf(fresh) = {}
<1> DEFINE fresh == NowOf(NoData, NoChunk, dir)
<1>1. /\ fresh = RecordOf(fresh)
      /\ fresh.session = NoData /\ fresh.chunk = NoChunk /\ fresh.dir = dir
  BY DEF NowOf, RecordOf
<1>2. /\ NoData \in SessionData /\ NoChunk \in IsChunk /\ ~NoChunk.open
      /\ NoData.chunks = <<>> /\ DOMAIN NoData.chunks = {}
      /\ NoData.count = 0 /\ NoData.first = 0
  BY DEF NoData, NoChunk, SessionData, IsChunk
<1> HIDE DEF fresh
<1>3. ChunksInv(fresh)
  BY <1>1, <1>2 DEF ChunksInv
<1>4. PlacesOf(fresh) = {}
  BY <1>1, <1>2 DEF PlacesOf, Whole
<1>5. CountsTrue(fresh)
  BY <1>1, <1>2, <1>4, FS_EmptySet DEF CountsTrue
<1>6. Cardinality({}) = 0 /\ IsFiniteSet({})
  BY FS_EmptySet
<1>7. CountsCover(fresh)
  BY <1>1, <1>2, <1>4, <1>6 DEF CountsCover
<1>8. Filled(fresh)
  BY <1>1, <1>2 DEF Filled
<1> QED BY <1>3, <1>4, <1>5, <1>7, <1>8 DEF fresh

-----------------------------------------------------------------------------
(* The disk: the directory of the recording that runs holds the chunks of  *)
(* the session and, unless it was recorded into before or has lost a file, *)
(* nothing else; a session.json of any other tells what is in it.          *)
DiskTyped ==
    /\ files \in [Ids -> Directories]
    /\ meta \in [Ids -> SessionData]
    /\ reused \subseteq Ids
    /\ spoilt \subseteq Ids
    /\ session \in SessionData
    /\ chunk \in IsChunk
    /\ chunk.open => active # 0

ActiveInv ==
    active # 0 =>
        /\ ChunksInv(Now(active))
        /\ CountsCover(Now(active))
        /\ active \notin spoilt => CountsTrue(Now(active)) /\ Filled(Now(active))
        /\ active \notin reused =>
               /\ meta[active] = NoData
               /\ active \notin spoilt => DOMAIN files[active] = ToSet(session.chunks)

Told(data, dir) == CoversDisk(data, dir) /\ IsFiniteSet(Places(dir, data.chunks))

FinishedInv ==
    \A s \in Ids \ (reused \cup {active}) :
        meta[s] # NoData =>
            /\ Told(meta[s], files[s])
            /\ s \notin spoilt => MatchesDisk(meta[s], files[s])

DiskInv == DiskTyped /\ ActiveInv /\ FinishedInv

(* What is on disk and what is coming to it, between two frame numbers.    *)
(* The session knows of no frame after the ones it has written.            *)
Ordered(now, coming, low, high) ==
    /\ \A p \in PlacesOf(now) : low < NumberOf(now, p) /\ NumberOf(now, p) <= high
    /\ \A p, q \in PlacesOf(now) : Before(p, q) => NumberOf(now, p) < NumberOf(now, q)
    /\ \A p \in PlacesOf(now) : \A i \in DOMAIN coming : NumberOf(now, p) < coming[i].n
    /\ \A i \in DOMAIN coming : low < coming[i].n /\ coming[i].n <= high
    /\ \A i, j \in DOMAIN coming : i < j => coming[i].n < coming[j].n
    /\ now.session.first = 0 => PlacesOf(now) = {}
    /\ \A p \in PlacesOf(now) : /\ now.session.first <= NumberOf(now, p)
                                /\ NumberOf(now, p) <= now.session.last
    /\ now.session.first <= high /\ now.session.last <= high
    /\ \A i \in DOMAIN coming : /\ now.session.first < coming[i].n
                                /\ now.session.last < coming[i].n

OrderInv ==
    /\ base <= arrived
    /\ active # 0 => Ordered(Now(active), hand \o queue, base, arrived)

(* The running totals of the queue, which never fall.                      *)
BytesInv ==
    /\ queuedBytes \in Nat /\ queuedBytes <= QueueLimit
    /\ \E total \in [0..Len(queue) -> Nat] :
           /\ total[0] = 0
           /\ \A i \in DOMAIN queue : total[i] = total[i - 1] + queue[i].size
           /\ \A i, j \in 0..Len(queue) : i <= j => total[i] <= total[j]
           /\ total[Len(queue)] = queuedBytes

(* The invariants of this section, on top of those before.                 *)
LEMMA DiskInitially == Init => DiskInv
<1> SUFFICES ASSUME Init PROVE DiskInv
  OBVIOUS
<1>1. NoData \in SessionData /\ NoChunk \in IsChunk /\ ~NoChunk.open
  BY DEF NoData, NoChunk, SessionData, IsChunk
<1>2. <<>> \in Directories
  <2>1. <<>> \in [{} -> Seq(Nat)] /\ {} \in SUBSET (Nat \ {0})
    OBVIOUS
  <2> QED BY <2>1 DEF Directories
<1>3. DiskTyped
  BY <1>1, <1>2 DEF Init, DiskTyped
<1> QED BY <1>3 DEF Init, DiskInv, ActiveInv, FinishedInv

LEMMA ChunkKeptDisk ==
  ASSUME IInv, DiskInv, UNCHANGED <<active, session, chunk, files, meta, reused, spoilt>>
  PROVE  DiskInv'
<1>1. DiskTyped' /\ ActiveInv'
  BY DEF DiskInv, DiskTyped, ActiveInv, Now
<1>2. FinishedInv'
  BY DEF DiskInv, FinishedInv
<1> QED BY <1>1, <1>2 DEF DiskInv

\* Whether something was lost before this step is forgotten, and known to spoilt.
LEMMA LossForgotten ==
  ASSUME NEW after
  PROVE  LET bare == NowOf(after.session, after.chunk, after.dir)
         IN  /\ ChunksInv(after) => ChunksInv(bare)
             /\ CountsCover(after) => CountsCover(bare)
             /\ CountsTrue(after) => CountsTrue(bare)
             /\ Filled(after) => Filled(bare)
             /\ \A coming, low, high :
                    Ordered(after, coming, low, high) => Ordered(bare, coming, low, high)
<1> DEFINE bare == NowOf(after.session, after.chunk, after.dir)
<1>1. /\ bare.session = after.session /\ bare.chunk = after.chunk /\ bare.dir = after.dir
      /\ bare = RecordOf(bare)
  BY DEF NowOf, RecordOf
<1> HIDE DEF bare
<1>2. PlacesOf(bare) = PlacesOf(after) /\ \A p : NumberOf(bare, p) = NumberOf(after, p)
  BY <1>1 DEF PlacesOf, NumberOf
<1>3. ChunksInv(after) => ChunksInv(bare)
  BY <1>1 DEF ChunksInv
<1>4. CountsCover(after) => CountsCover(bare)
  BY <1>1, <1>2 DEF CountsCover
<1>5. CountsTrue(after) => CountsTrue(bare)
  BY <1>1, <1>2 DEF CountsTrue
<1>6. Filled(after) => Filled(bare)
  BY <1>1 DEF Filled
<1>7. ASSUME NEW coming, NEW low, NEW high, Ordered(after, coming, low, high)
      PROVE  Ordered(bare, coming, low, high)
  BY <1>1, <1>2, <1>7 DEF Ordered
<1> QED BY <1>3, <1>4, <1>5, <1>6, <1>7 DEF bare

\* Now(active), once a step has left session, chunk and directory so.
LEMMA NowAfter ==
  ASSUME NEW after, active' \in Ids, files \in [Ids -> Directories],
         session' = after.session, chunk' = after.chunk,
         files' = [files EXCEPT ![active'] = after.dir]
  PROVE  Now(active)' = NowOf(after.session, after.chunk, after.dir)
<1>1. files'[active'] = after.dir
  OBVIOUS
<1> QED BY <1>1 DEF Now, NowOf

(* What a step of the writer may make of the active recording.             *)
Follows(after) ==
    /\ ChunksInv(after)
    /\ CountsCover(after)
    /\ ~after.lost /\ active \notin spoilt =>
           /\ CountsTrue(after) /\ Filled(after)
           /\ DOMAIN files[active] = ToSet(session.chunks) =>
                  DOMAIN after.dir = ToSet(after.session.chunks)

LEMMA KeepsFollows ==
  ASSUME DiskInv, active # 0, NEW after, Keeps(Now(active), after)
  PROVE  Follows(after)
<1>1. /\ ChunksInv(Now(active)) /\ CountsCover(Now(active))
      /\ active \notin spoilt => CountsTrue(Now(active)) /\ Filled(Now(active))
  BY DEF DiskInv, ActiveInv
<1>2. ChunksInv(after) /\ CountsCover(after)
  BY <1>1, FewerFramesCovered DEF Keeps
<1>3. ASSUME ~after.lost, active \notin spoilt
      PROVE  /\ CountsTrue(after) /\ Filled(after)
             /\ DOMAIN files[active] = ToSet(session.chunks) =>
                    DOMAIN after.dir = ToSet(after.session.chunks)
  <2>1. SameFrames(Now(active), after)
    BY <1>3 DEF Keeps
  <2>2. CountsTrue(after)
    BY <1>1, <1>3, <2>1, SameFramesCounts
  <2>3. Now(active).dir = files[active] /\ Now(active).session = session
    BY DEF Now
  <2> QED BY <1>1, <1>3, <2>1, <2>2, <2>3 DEF SameFrames
<1> QED BY <1>2, <1>3 DEF Follows

LEMMA ActiveTarget ==
  ASSUME IInv, DiskInv, active # 0, NEW target \in Targets
  PROVE  Keeps(Now(active), target) /\ target.chunk.open
<1>1. ChunksInv(Now(active))
  BY DEF DiskInv, ActiveInv
<1>2. CASE NeedsChunk
  <2>1. PICK closed \in Closings(Now(active)) : target = OpenNextChunk(closed, TRUE)
    BY <1>2 DEF Targets
  <2>2. Keeps(Now(active), closed) /\ ~closed.chunk.open
    BY <1>1, ClosingKeepsFrames
  <2>3. /\ ChunksInv(target) /\ SameFrames(closed, target) /\ target.lost = closed.lost
        /\ target.chunk.open
    BY <2>1, <2>2, OpenKeepsFrames DEF Keeps
  <2> QED BY <2>2, <2>3, KeepsThenSame
<1>3. CASE ~NeedsChunk
  <2>1. target = Now(active) /\ Now(active).chunk = chunk /\ chunk.open
    BY <1>3 DEF Targets, Now, NeedsChunk
  <2>2. SameFrames(Now(active), Now(active))
    BY SameFilesSameFrames
  <2>3. FewerFrames(Now(active), Now(active))
    BY <2>2, SameIsFewer
  <2> QED BY <1>1, <2>1, <2>2, <2>3 DEF Keeps
<1> QED BY <1>2, <1>3

(* The step leaves session, chunk and directory as `after' has them.       *)
LEMMA ActiveStepDisk ==
  ASSUME IInv, DiskInv, active # 0, active' = active, reused' = reused, meta' = meta,
         NEW after, Follows(after), Spoils(after.lost),
         session' = after.session, chunk' = after.chunk,
         files' = [files EXCEPT ![active] = after.dir]
  PROVE  DiskInv'
<1>1. /\ active \in Ids /\ files \in [Ids -> Directories] /\ after.dir \in Directories
      /\ ChunksInv(after)
  BY DEF IInv, ControlInv, DiskInv, DiskTyped, ChunksInv, Follows
<1>2. /\ spoilt' \subseteq Ids /\ spoilt \subseteq spoilt'
      /\ active \notin spoilt' => active \notin spoilt /\ ~after.lost
      /\ \A s \in Ids \ {active} : s \in spoilt' <=> s \in spoilt
  <2>1. spoilt \subseteq Ids
    BY DEF DiskInv, DiskTyped
  <2>2. CASE after.lost
    BY <1>1, <2>1, <2>2 DEF Spoils
  <2>3. CASE ~after.lost
    BY <1>1, <2>1, <2>3 DEF Spoils
  <2> QED BY <2>2, <2>3
<1>3. DiskTyped'
  <2>1. files' \in [Ids -> Directories]
    BY <1>1
  <2>2. session' \in SessionData /\ chunk' \in IsChunk
    BY <1>1 DEF ChunksInv
  <2> QED BY <1>2, <2>1, <2>2 DEF DiskInv, DiskTyped
<1>4. files'[active] = after.dir /\ \A s \in Ids \ {active} : files'[s] = files[s]
  BY <1>1
<1>5. FinishedInv'
  <2> SUFFICES ASSUME NEW s \in Ids \ (reused \cup {active}), meta[s] # NoData
               PROVE  /\ Told(meta[s], files'[s])
                      /\ s \notin spoilt' => MatchesDisk(meta[s], files'[s])
    BY DEF FinishedInv
  <2>1. /\ Told(meta[s], files[s])
        /\ s \notin spoilt => MatchesDisk(meta[s], files[s])
    BY DEF DiskInv, FinishedInv
  <2>2. files'[s] = files[s] /\ (s \in spoilt' <=> s \in spoilt)
    BY <1>2, <1>4
  <2> QED BY <2>1, <2>2
<1>6. ActiveInv'
  <2> DEFINE bare == NowOf(after.session, after.chunk, after.dir)
  <2>1. Now(active)' = bare
    BY <1>1, NowAfter
  <2>2. /\ ChunksInv(bare) /\ CountsCover(bare)
        /\ active \notin spoilt' => CountsTrue(bare) /\ Filled(bare)
    BY <1>2, LossForgotten DEF Follows
  <2> HIDE DEF bare
  <2>3. ChunksInv(Now(active)') /\ CountsCover(Now(active)')
    BY <2>1, <2>2
  <2>4. active' \notin spoilt' => CountsTrue(Now(active)') /\ Filled(Now(active)')
    BY <2>1, <2>2
  <2>5. ChunksInv(Now(active))' /\ CountsCover(Now(active))'
    BY <2>3 DEF ChunksInv, RecordOf, CountsCover, PlacesOf, Whole, At
  <2>6. active' \notin spoilt' => CountsTrue(Now(active))' /\ Filled(Now(active))'
    BY <2>4 DEF CountsTrue, Filled, PlacesOf, NumberOf, Whole, At, Before
  <2>7. active' \notin reused' =>
            /\ meta'[active'] = NoData
            /\ active' \notin spoilt' => DOMAIN files'[active'] = ToSet(session'.chunks)
    BY <1>2, <1>4 DEF DiskInv, ActiveInv, Follows
  <2> QED BY <2>5, <2>6, <2>7 DEF ActiveInv
<1> QED BY <1>3, <1>5, <1>6 DEF DiskInv

LEMMA WriteFrameDisk == ASSUME IInv, DiskInv, WriteFrame PROVE DiskInv'
<1> DEFINE n == Head(hand).n
           size == Head(hand).size
<1>1. active # 0 /\ UNCHANGED <<active, reused, meta>>
  BY DEF WriteFrame, IInv, ControlInv, history
<1>2. n \in Nat \ {0} /\ size \in Nat \ {0}
  <2>1. hand \in Seq(Frame) /\ Len(hand) = 1
    BY DEF WriteFrame, IInv, KeptInv
  <2>2. Head(hand) \in Frame
    BY <2>1
  <2> QED BY <2>2, SizesAssumption DEF Frame
<1>3. PICK target \in Targets :
          /\ session' = Recorded(target, n, size).session
          /\ chunk' = Recorded(target, n, size).chunk
          /\ files' = [files EXCEPT ![active] = Recorded(target, n, size).dir]
          /\ Spoils(target.lost)
  BY DEF WriteFrame, Recorded, Appended
<1> DEFINE after == Recorded(target, n, size)
<1>4. Keeps(Now(active), target) /\ target.chunk.open
  BY <1>1, ActiveTarget
<1>5. Follows(target) /\ ChunksInv(target) /\ CountsCover(target)
  BY <1>1, <1>4, KeepsFollows DEF Follows
<1>6. /\ ChunksInv(after) /\ CountsCover(after) /\ after.lost = target.lost
      /\ CountsTrue(target) => CountsTrue(after)
      /\ Filled(target) => Filled(after)
      /\ after.session.chunks = target.session.chunks /\ DOMAIN after.dir = DOMAIN target.dir
  BY <1>2, <1>4, <1>5, RecordedKeeps
<1> HIDE DEF after
<1>7. Follows(after)
  BY <1>5, <1>6 DEF Follows
<1>8. /\ session' = after.session /\ chunk' = after.chunk
      /\ files' = [files EXCEPT ![active] = after.dir]
      /\ Spoils(after.lost)
  BY <1>3, <1>6 DEF after
<1> QED BY <1>1, <1>7, <1>8, ActiveStepDisk

(* A write that fails leaves the open chunk as it was, perhaps with torn   *)
(* bytes at its end.                                                       *)
LEMMA FailedWriteKeepsFrames ==
  ASSUME NEW T, ChunksInv(T), T.chunk.open, NEW left \in {<<>>, <<Torn>>}
  PROVE  \E after : /\ ChunksInv(after) /\ SameFrames(T, after) /\ after.lost = T.lost
                    /\ after.session = T.session /\ after.chunk = T.chunk
                    /\ after.dir = With(T.dir, T.chunk.index, T.dir[T.chunk.index] \o left)
<1> DEFINE i == T.chunk.index
           mid == Appended(T, Torn, 0)
<1>1. i \in DOMAIN T.dir /\ T.dir \in Directories
  <2>1. T.session.chunks \in Seq(Nat \ {0}) /\ Len(T.session.chunks) > 0
        /\ T.session.chunks[Len(T.session.chunks)] = i
    BY DEF ChunksInv, SessionData
  <2> QED BY <2>1 DEF ChunksInv
<1>2. T.dir[i] \in Seq(Nat)
  BY <1>1 DEF Directories
<1>3. CASE left = <<>>
  <2>1. With(T.dir, i, T.dir[i]) = T.dir
    <3>1. PICK D \in SUBSET (Nat \ {0}) : T.dir \in [D -> Seq(Nat)]
      BY <1>1 DEF Directories
    <3>2. D \cup {i} = D
      BY <1>1, <3>1
    <3> HIDE DEF i
    <3> QED BY <3>1, <3>2 DEF With
  <2>2. T.dir[i] \o left = T.dir[i]
    BY <1>2, <1>3, ConcatOne
  <2>3. SameFrames(T, T)
    BY SameFilesSameFrames
  <2> QED BY <2>1, <2>2, <2>3
<1>4. CASE left = <<Torn>>
  <2>1. Torn \in Nat /\ 0 \in Nat /\ (Torn = Torn <=> 0 = 0)
    BY DEF Torn
  <2>2. /\ ChunksInv(mid) /\ mid.session = T.session /\ DOMAIN mid.dir = DOMAIN T.dir
        /\ mid.lost = T.lost /\ (Filled(T) => Filled(mid))
        /\ PlacesOf(mid) = PlacesOf(T) \cup (IF Torn = Torn THEN {} ELSE {NextPlace(T)})
        /\ \A p \in PlacesOf(T) : NumberOf(mid, p) = NumberOf(T, p)
    BY <2>1, AppendKeepsFrames
  <2>3. mid.chunk = T.chunk /\ mid.dir = With(T.dir, i, Append(T.dir[i], Torn))
    <3>1. mid.chunk = [T.chunk EXCEPT !.bytes = @ + 0]
          /\ mid.dir = With(T.dir, i, Append(T.dir[i], Torn))
      BY DEF Appended
    <3>2. T.chunk \in IsChunk
      BY DEF ChunksInv
    <3> QED BY <3>1, <3>2 DEF IsChunk
  <2>4. T.dir[i] \o left = Append(T.dir[i], Torn)
    BY <1>2, <1>4, ConcatOne
  <2> HIDE DEF mid
  <2>5. SameFrames(T, mid)
    <3>1. PlacesOf(mid) = PlacesOf(T)
      BY <2>2
    <3>2. SameCounters(T, mid)
      BY <2>2 DEF SameCounters
    <3>3. DOMAIN T.dir = ToSet(T.session.chunks) => DOMAIN mid.dir = ToSet(mid.session.chunks)
      BY <2>2
    <3>4. \A p \in PlacesOf(T) : NumberOf(mid, p) = NumberOf(T, p)
      BY <2>2
    <3>5. Filled(T) => Filled(mid)
      BY <2>2
    <3> QED BY <3>1, <3>2, <3>3, <3>4, <3>5 DEF SameFrames
  <2> QED BY <2>2, <2>3, <2>4, <2>5
<1> QED BY <1>3, <1>4

\* What a writer's step leaves of the active recording.
Leaves(after) ==
    /\ session' = after.session /\ chunk' = after.chunk
    /\ files' = [files EXCEPT ![active] = after.dir]
    /\ Spoils(after.lost)

LEMMA WriteFailsKeepsFrames ==
  ASSUME IInv, DiskInv, WriteFails
  PROVE  \E after : Keeps(Now(active), after) /\ Leaves(after)
<1>1. active # 0
  BY DEF WriteFails, IInv, ControlInv
<1>2. ChunksInv(Now(active))
  BY <1>1 DEF DiskInv, ActiveInv
<1>3. CASE \E closed \in Closings(Now(active)) : Leaves(OpenNextChunk(closed, FALSE))
  <2>1. PICK closed \in Closings(Now(active)) : Leaves(OpenNextChunk(closed, FALSE))
    BY <1>3
  <2> DEFINE failed == OpenNextChunk(closed, FALSE)
  <2>2. Keeps(Now(active), closed) /\ ~closed.chunk.open
    BY <1>2, ClosingKeepsFrames
  <2>3. ChunksInv(failed) /\ SameFrames(closed, failed) /\ failed.lost = closed.lost
    BY <2>2, OpenKeepsFrames DEF Keeps
  <2>4. Keeps(Now(active), failed)
    BY <2>2, <2>3, KeepsThenSame
  <2> QED BY <2>1, <2>4
<1>4. CASE \E target \in Targets, left \in {<<>>, <<Torn>>} :
               /\ session' = target.session /\ chunk' = target.chunk
               /\ files' = [files EXCEPT ![active] =
                                With(target.dir, target.chunk.index,
                                     target.dir[target.chunk.index] \o left)]
               /\ Spoils(target.lost)
  <2>1. PICK T \in Targets, left \in {<<>>, <<Torn>>} :
               /\ session' = T.session /\ chunk' = T.chunk
               /\ files' = [files EXCEPT ![active] =
                                With(T.dir, T.chunk.index, T.dir[T.chunk.index] \o left)]
               /\ Spoils(T.lost)
    BY <1>4
  <2>2. Keeps(Now(active), T) /\ T.chunk.open /\ ChunksInv(T)
    BY <1>1, ActiveTarget DEF Keeps
  <2>3. PICK after : /\ ChunksInv(after) /\ SameFrames(T, after) /\ after.lost = T.lost
                     /\ after.session = T.session /\ after.chunk = T.chunk
                     /\ after.dir = With(T.dir, T.chunk.index, T.dir[T.chunk.index] \o left)
    BY <2>2, FailedWriteKeepsFrames
  <2>4. Keeps(Now(active), after)
    BY <2>2, <2>3, KeepsThenSame
  <2>5. Leaves(after)
    BY <2>1, <2>3 DEF Leaves
  <2> QED BY <2>4, <2>5
<1> QED BY <1>3, <1>4 DEF WriteFails, Leaves

LEMMA WriteFailsDisk == ASSUME IInv, DiskInv, WriteFails PROVE DiskInv'
<1>1. active # 0 /\ UNCHANGED <<active, reused, meta>>
  BY DEF WriteFails, IInv, ControlInv, history
<1>2. PICK after : Keeps(Now(active), after) /\ Leaves(after)
  BY WriteFailsKeepsFrames
<1>3. Follows(after)
  BY <1>1, <1>2, KeepsFollows
<1> QED BY <1>1, <1>2, <1>3, ActiveStepDisk DEF Leaves

(* A directory in which there is something is marked as recorded into      *)
(* twice, so that one which is not is empty and has no session.json.       *)
LEMMA StartRecordDisk == ASSUME IInv, DiskInv, StartRecord PROVE DiskInv'
<1> DEFINE fresh == NowOf(NoData, NoChunk, files[clock])
<1>1. PICK created \in BOOLEAN :
          LET opened == OpenNextChunk(fresh, created)
          IN  /\ session' = IF created THEN opened.session ELSE NoData
              /\ chunk' = opened.chunk
              /\ files' = [files EXCEPT ![clock] = opened.dir]
              /\ active' = IF created THEN clock ELSE 0
              /\ reused' = IF created /\ (DOMAIN files[clock] # {} \/ meta[clock] # NoData)
                           THEN reused \cup {clock} ELSE reused
  BY DEF StartRecord, NewSessionId, NowOf
<1> DEFINE opened == OpenNextChunk(fresh, created)
<1>2. /\ clock \in Ids /\ clock # 0 /\ active = 0 /\ 0 \notin Ids
      /\ meta' = meta /\ spoilt' = spoilt
  BY IdsAssumption DEF StartRecord, IInv, ControlInv
<1>3. files \in [Ids -> Directories] /\ files[clock] \in Directories
  BY <1>2 DEF DiskInv, DiskTyped
<1>4. ChunksInv(fresh) /\ CountsTrue(fresh) /\ CountsCover(fresh) /\ Filled(fresh)
  BY <1>3, FreshIsSound
<1>5. fresh.dir = files[clock] /\ fresh.session = NoData /\ fresh.chunk = NoChunk
  BY DEF NowOf
<1>6. ~fresh.chunk.open
  BY <1>5 DEF NoChunk
<1>7. ChunksInv(opened) /\ SameFrames(fresh, opened)
  BY <1>4, <1>6, OpenKeepsFrames
<1>8. /\ session' = IF created THEN opened.session ELSE NoData
      /\ chunk' = opened.chunk
      /\ files' = [files EXCEPT ![clock] = opened.dir]
  BY <1>1
<1>9. ~created => ~opened.chunk.open /\ opened.dir = files[clock]
  <2> SUFFICES ASSUME created = FALSE PROVE ~opened.chunk.open /\ opened.dir = files[clock]
    OBVIOUS
  <2>1. opened = [fresh EXCEPT !.chunk.index = fresh.chunk.index + 1]
    BY DEF OpenNextChunk
  <2>2. fresh = [session |-> NoData, chunk |-> NoChunk, dir |-> files[clock], lost |-> FALSE]
    BY DEF NowOf
  <2> HIDE DEF opened, fresh
  <2> QED BY <2>1, <2>2 DEF NoChunk
<1> HIDE DEF opened, fresh
<1>10. CountsTrue(opened) /\ CountsCover(opened) /\ Filled(opened)
  <2>1. CountsTrue(opened)
    BY <1>4, <1>7, SameFramesCounts
  <2>2. FewerFrames(fresh, opened)
    BY <1>7, SameIsFewer
  <2>3. CountsCover(opened)
    BY <1>4, <2>2, FewerFramesCovered
  <2> QED BY <1>4, <1>7, <2>1, <2>3 DEF SameFrames
<1>11. DiskTyped'
  <2>1. opened.dir \in Directories /\ opened.session \in SessionData /\ opened.chunk \in IsChunk
    BY <1>7 DEF ChunksInv
  <2>2. files' \in [Ids -> Directories]
    BY <1>3, <1>8, <2>1
  <2>3. NoData \in SessionData
    BY DEF NoData, SessionData
  <2>4. reused' \subseteq Ids /\ (chunk'.open => active' # 0)
    BY <1>1, <1>2, <1>8, <1>9 DEF DiskInv, DiskTyped
  <2> QED BY <1>2, <1>8, <2>1, <2>2, <2>3, <2>4 DEF DiskInv, DiskTyped
<1>12. ActiveInv'
  <2>1. CASE ~created
    BY <1>1, <2>1 DEF ActiveInv
  <2>2. CASE created
    <3> DEFINE bare == NowOf(opened.session, opened.chunk, opened.dir)
    <3>1. active' = clock /\ session' = opened.session /\ chunk' = opened.chunk
      BY <1>1, <1>8, <2>2
    <3>2. files'[clock] = opened.dir /\ files' = [files EXCEPT ![active'] = opened.dir]
      BY <1>3, <1>8, <3>1, <1>2
    <3>3. Now(active)' = bare
      BY <1>2, <1>3, <3>1, <3>2, NowAfter
    <3>4. ChunksInv(bare) /\ CountsTrue(bare) /\ CountsCover(bare) /\ Filled(bare)
      BY <1>7, <1>10, LossForgotten
    <3> HIDE DEF bare
    <3>5. /\ ChunksInv(Now(active)') /\ CountsCover(Now(active)')
          /\ CountsTrue(Now(active)') /\ Filled(Now(active)')
      BY <3>3, <3>4, SMTT(30)
    <3>6. ChunksInv(Now(active))' /\ CountsCover(Now(active))'
      BY <3>5 DEF ChunksInv, RecordOf, CountsCover, PlacesOf, Whole, At
    <3>7. CountsTrue(Now(active))' /\ Filled(Now(active))'
      BY <3>5 DEF CountsTrue, Filled, PlacesOf, NumberOf, Whole, At, Before
    <3>8. ASSUME clock \notin reused'
          PROVE  DOMAIN opened.dir = ToSet(opened.session.chunks) /\ meta[clock] = NoData
      <4>1. DOMAIN files[clock] = {} /\ meta[clock] = NoData
        BY <1>1, <2>2, <3>8
      <4>2. ToSet(NoData.chunks) = {}
        BY DEF ToSet, NoData
      <4> QED BY <1>5, <1>7, <4>1, <4>2 DEF SameFrames
    <3>9. active' \notin reused' =>
              /\ meta'[active'] = NoData
              /\ active' \notin spoilt' => DOMAIN files'[active'] = ToSet(session'.chunks)
      BY <1>2, <3>1, <3>2, <3>8
    <3> QED BY <3>6, <3>7, <3>9 DEF ActiveInv
  <2> QED BY <2>1, <2>2
<1>13. FinishedInv'
  <2> SUFFICES ASSUME NEW s \in Ids \ (reused' \cup {active'}), meta[s] # NoData
               PROVE  /\ Told(meta[s], files'[s])
                      /\ s \notin spoilt => MatchesDisk(meta[s], files'[s])
    BY <1>2 DEF FinishedInv
  <2>1. s \notin reused /\ s # active
    BY <1>1, <1>2
  <2>2. /\ Told(meta[s], files[s])
        /\ s \notin spoilt => MatchesDisk(meta[s], files[s])
    BY <2>1 DEF DiskInv, FinishedInv
  <2>3. files'[s] = files[s]
    BY <1>1, <1>3, <1>8, <1>9
  <2> QED BY <2>2, <2>3
<1> QED BY <1>11, <1>12, <1>13 DEF DiskInv

(* What a reader finds is part of what is there, so if the session counts  *)
(* and spans all that, it does so for what is found.                       *)
LEMMA OrderedIsTold ==
  ASSUME NEW now, CountsCover(now), NEW coming, NEW low, NEW high,
         Ordered(now, coming, low, high), now.session.count \in Nat
  PROVE  Told(now.session, now.dir)
<1> DEFINE found == Places(now.dir, now.session.chunks)
           whole == PlacesOf(now)
<1>1. found \subseteq whole
  BY DEF Places, PlacesOf
<1>2. IsFiniteSet(whole) /\ Cardinality(whole) <= now.session.count
  BY DEF CountsCover
<1>3. \A p \in whole : NumberOf(now, p) = At(now.dir, now.session.chunks, p)
  BY DEF NumberOf
<1>4. \A p \in whole : /\ now.session.first <= NumberOf(now, p)
                       /\ NumberOf(now, p) <= now.session.last
  BY DEF Ordered
<1>5. \A p, q \in whole : Before(p, q) => NumberOf(now, p) < NumberOf(now, q)
  BY DEF Ordered
<1> HIDE DEF found, whole
<1>6. IsFiniteSet(found) /\ Cardinality(found) <= Cardinality(whole)
  BY <1>1, <1>2, FS_Subset
<1>7. Cardinality(found) \in Nat /\ Cardinality(whole) \in Nat
  BY <1>2, <1>6, FS_CardinalityType
<1>8. Cardinality(found) <= now.session.count
  BY <1>2, <1>6, <1>7
<1>9. \A p \in found : /\ now.session.first <= At(now.dir, now.session.chunks, p)
                       /\ At(now.dir, now.session.chunks, p) <= now.session.last
  BY <1>1, <1>3, <1>4
<1>10. \A p, q \in found : Before(p, q) =>
           At(now.dir, now.session.chunks, p) < At(now.dir, now.session.chunks, q)
  BY <1>1, <1>3, <1>5
<1> QED BY <1>6, <1>8, <1>9, <1>10 DEF Told, CoversDisk, found

\* What a removal that stops half-way leaves of a directory.
Less(dir, kept) == [i \in kept |-> dir[i]]

LEMMA LessIsDirectory ==
  ASSUME NEW dir \in Directories, NEW kept \in SUBSET DOMAIN dir
  PROVE  Less(dir, kept) \in Directories
<1>1. PICK D \in SUBSET (Nat \ {0}) : dir \in [D -> Seq(Nat)]
  BY DEF Directories
<1>2. Less(dir, kept) \in [kept -> Seq(Nat)] /\ kept \in SUBSET (Nat \ {0})
  BY <1>1 DEF Less
<1> QED BY <1>2 DEF Directories

LEMMA AllIsNotLess ==
  ASSUME NEW dir \in Directories
  PROVE  Less(dir, DOMAIN dir) = dir
BY DEF Less, Directories

LEMMA LessIsWhole ==
  ASSUME NEW dir, NEW kept \in SUBSET DOMAIN dir, NEW chunks,
         NEW p \in Whole(Less(dir, kept), chunks)
  PROVE  /\ p \in Whole(dir, chunks) /\ chunks[p[1]] \in kept
         /\ At(Less(dir, kept), chunks, p) = At(dir, chunks, p)
<1> DEFINE less == Less(dir, kept)
<1>1. DOMAIN less = kept /\ \A i \in kept : less[i] = dir[i]
  BY DEF Less
<1> HIDE DEF less
<1>2. PICK k \in DOMAIN chunks : \E j \in DOMAIN less[chunks[k]] :
          chunks[k] \in DOMAIN less /\ p = <<k, j>> /\ less[chunks[k]][j] # Torn
  BY PlaceMember DEF less
<1>3. chunks[k] \in kept /\ less[chunks[k]] = dir[chunks[k]] /\ chunks[k] \in DOMAIN dir
  BY <1>1, <1>2
<1>4. \E j \in DOMAIN dir[chunks[k]] :
          chunks[k] \in DOMAIN dir /\ p = <<k, j>> /\ dir[chunks[k]][j] # Torn
  BY <1>2, <1>3
<1>5. p \in Whole(dir, chunks)
  BY <1>4, PlaceMember
<1>6. p[1] = k
  BY <1>2
<1> QED BY <1>3, <1>5, <1>6 DEF At, less

(* It holds no more than there was, in the same places.                    *)
LEMMA LessIsTold ==
  ASSUME NEW dir, NEW kept \in SUBSET DOMAIN dir, NEW data, Told(data, dir), data.count \in Nat
  PROVE  Told(data, Less(dir, kept))
<1> DEFINE chunks == data.chunks
           found == Places(Less(dir, kept), chunks)
           all == Places(dir, chunks)
<1>1. \A p \in found : p \in all /\ At(Less(dir, kept), chunks, p) = At(dir, chunks, p)
  <2> SUFFICES ASSUME NEW p \in found
               PROVE  p \in all /\ At(Less(dir, kept), chunks, p) = At(dir, chunks, p)
    OBVIOUS
  <2>1. p \in Whole(Less(dir, kept), chunks)
        /\ \A k \in 1..p[2] : <<p[1], k>> \in Whole(Less(dir, kept), chunks)
    BY DEF Places
  <2>2. p \in Whole(dir, chunks) /\ At(Less(dir, kept), chunks, p) = At(dir, chunks, p)
    BY <2>1, LessIsWhole
  <2>3. \A k \in 1..p[2] : <<p[1], k>> \in Whole(dir, chunks)
    BY <2>1, LessIsWhole
  <2> QED BY <2>2, <2>3 DEF Places
<1>2. /\ IsFiniteSet(all) /\ Cardinality(all) <= data.count
      /\ \A p \in all : data.first <= At(dir, chunks, p) /\ At(dir, chunks, p) <= data.last
      /\ \A p, q \in all : Before(p, q) => At(dir, chunks, p) < At(dir, chunks, q)
  BY DEF Told, CoversDisk
<1> HIDE DEF found, all
<1>3. IsFiniteSet(found) /\ Cardinality(found) <= Cardinality(all)
  <2>1. found \subseteq all
    BY <1>1
  <2> QED BY <1>2, <2>1, FS_Subset
<1>4. Cardinality(found) \in Nat /\ Cardinality(all) \in Nat
  BY <1>2, <1>3, FS_CardinalityType
<1>5. Cardinality(found) <= data.count
  BY <1>2, <1>3, <1>4
<1>6. \A p \in found : /\ data.first <= At(Less(dir, kept), chunks, p)
                       /\ At(Less(dir, kept), chunks, p) <= data.last
  BY <1>1, <1>2
<1>7. \A p, q \in found : Before(p, q) =>
          At(Less(dir, kept), chunks, p) < At(Less(dir, kept), chunks, q)
  BY <1>1, <1>2
<1> QED BY <1>3, <1>5, <1>6, <1>7 DEF Told, CoversDisk, found

(* The step leaves dir and data in the directory of s, and no recording.   *)
LEMMA LeaveDisk ==
  ASSUME DiskInv, NEW s \in Ids, NEW dir \in Directories, NEW data \in SessionData,
         NEW lost \in BOOLEAN, Leave(s, dir, data, lost),
         active \in {0, s}, active' = 0,
         session' \in SessionData, chunk' \in IsChunk, ~chunk'.open,
         data # NoData /\ s \notin reused =>
             /\ Told(data, dir)
             /\ ~lost /\ s \notin spoilt => MatchesDisk(data, dir)
  PROVE  DiskInv'
<1>1. /\ files \in [Ids -> Directories] /\ meta \in [Ids -> SessionData]
      /\ reused \subseteq Ids /\ spoilt \subseteq Ids
  BY DEF DiskInv, DiskTyped
<1>2. /\ files' = [files EXCEPT ![s] = dir] /\ meta' = [meta EXCEPT ![s] = data]
      /\ reused' \subseteq Ids /\ spoilt' \subseteq Ids
      /\ data # NoData =>
             /\ reused' = reused
             /\ spoilt' = IF lost THEN spoilt \cup {s} ELSE spoilt
      /\ \A t \in Ids \ {s} : (t \in reused' <=> t \in reused) /\ (t \in spoilt' <=> t \in spoilt)
  <2>1. CASE DOMAIN dir = {} /\ data = NoData
    BY <1>1, <2>1 DEF Leave
  <2>2. CASE ~(DOMAIN dir = {} /\ data = NoData)
    BY <1>1, <2>2 DEF Leave
  <2> QED BY <2>1, <2>2
<1>3. files'[s] = dir /\ meta'[s] = data
      /\ \A t \in Ids \ {s} : files'[t] = files[t] /\ meta'[t] = meta[t]
  BY <1>1, <1>2
<1>4. DiskTyped'
  <2>1. files' \in [Ids -> Directories] /\ meta' \in [Ids -> SessionData]
    BY <1>1, <1>2
  <2> QED BY <1>2, <2>1 DEF DiskTyped
<1>5. FinishedInv'
  <2> SUFFICES ASSUME NEW t \in Ids \ reused', meta'[t] # NoData
               PROVE  /\ Told(meta'[t], files'[t])
                      /\ t \notin spoilt' => MatchesDisk(meta'[t], files'[t])
    BY DEF FinishedInv
  <2>1. CASE t = s
    <3>1. data # NoData /\ s \notin reused /\ (s \notin spoilt' => ~lost /\ s \notin spoilt)
      BY <1>2, <1>3, <2>1
    <3> QED BY <1>3, <2>1, <3>1
  <2>2. CASE t # s
    <3>1. t \in Ids \ (reused \cup {active}) /\ meta[t] # NoData
      BY <1>2, <1>3, <2>2, IdsAssumption
    <3>2. /\ Told(meta[t], files[t])
          /\ t \notin spoilt => MatchesDisk(meta[t], files[t])
      BY <3>1 DEF DiskInv, FinishedInv
    <3> QED BY <1>2, <1>3, <2>2, <3>2
  <2> QED BY <2>1, <2>2
<1>6. ActiveInv'
  BY DEF ActiveInv
<1> QED BY <1>4, <1>5, <1>6 DEF DiskInv

(* A removal leaves less of everything, or everything and says so.         *)
LEMMA RemovalDisk ==
  ASSUME DiskInv, NEW s \in Ids, NEW dir \in Directories, RemoveDirectory(s, dir),
         active \in {0, s}, active' = 0,
         session' \in SessionData, chunk' \in IsChunk, ~chunk'.open,
         meta[s] # NoData /\ s \notin reused =>
             /\ Told(meta[s], dir)
             /\ s \notin spoilt => MatchesDisk(meta[s], dir)
  PROVE  DiskInv'
<1>1. PICK kept \in SUBSET DOMAIN dir, data \in {meta[s], NoData} :
          Leave(s, Less(dir, kept), data, kept # DOMAIN dir \/ data # meta[s])
  BY DEF RemoveDirectory, Less
<1> DEFINE less == Less(dir, kept)
           lost == kept # DOMAIN dir \/ data # meta[s]
<1>2. less \in Directories /\ lost \in BOOLEAN /\ Leave(s, less, data, lost)
  BY <1>1, LessIsDirectory
<1>3. NoData \in SessionData /\ meta[s] \in SessionData
  BY DEF NoData, SessionData, DiskInv, DiskTyped
<1>4. data \in SessionData /\ meta[s].count \in Nat
  BY <1>3 DEF SessionData
<1>5. ASSUME data # NoData, s \notin reused
      PROVE  /\ Told(data, less)
             /\ ~lost /\ s \notin spoilt => MatchesDisk(data, less)
  <2>1. data = meta[s] /\ Told(meta[s], dir)
    BY <1>5
  <2>2. Told(data, less)
    BY <1>4, <2>1, LessIsTold
  <2>3. kept = DOMAIN dir => less = dir
    BY AllIsNotLess
  <2> HIDE DEF less
  <2> QED BY <1>5, <2>1, <2>2, <2>3
<1> HIDE DEF less, lost
<1> QED BY <1>2, <1>4, <1>5, LeaveDisk

(* A closing keeps the order of the frames it does not lose.               *)
LEMMA OrderedFewer ==
  ASSUME NEW a, NEW b, FewerFrames(a, b), NEW coming, NEW low, NEW high,
         Ordered(a, coming, low, high)
  PROVE  Ordered(b, coming, low, high)
<1>1. /\ PlacesOf(b) \subseteq PlacesOf(a)
      /\ \A p \in PlacesOf(b) : NumberOf(b, p) = NumberOf(a, p)
      /\ b.session.first = a.session.first /\ b.session.last = a.session.last
  BY DEF FewerFrames, SameCounters
<1> HIDE DEF PlacesOf, NumberOf
<1>2. /\ \A p \in PlacesOf(b) : low < NumberOf(b, p) /\ NumberOf(b, p) <= high
      /\ \A p, q \in PlacesOf(b) : Before(p, q) => NumberOf(b, p) < NumberOf(b, q)
      /\ \A p \in PlacesOf(b) : \A i \in DOMAIN coming : NumberOf(b, p) < coming[i].n
  BY <1>1 DEF Ordered
<1>3. /\ \A i \in DOMAIN coming : low < coming[i].n /\ coming[i].n <= high
      /\ \A i, j \in DOMAIN coming : i < j => coming[i].n < coming[j].n
  BY DEF Ordered
<1>4. b.session.first = 0 => PlacesOf(b) = {}
  BY <1>1 DEF Ordered
<1>5. \A p \in PlacesOf(b) : /\ b.session.first <= NumberOf(b, p)
                             /\ NumberOf(b, p) <= b.session.last
  BY <1>1 DEF Ordered
<1>6. /\ b.session.first <= high /\ b.session.last <= high
      /\ \A i \in DOMAIN coming : /\ b.session.first < coming[i].n
                                  /\ b.session.last < coming[i].n
  BY <1>1 DEF Ordered
<1> QED BY <1>2, <1>3, <1>4, <1>5, <1>6 DEF Ordered

(* What a close makes of the last chunk is what session.json tells.        *)
LEMMA ClosedMatches ==
  ASSUME DiskInv, active # 0, active \notin reused \cup spoilt,
         NEW closed, Follows(closed), ~closed.lost, ~closed.chunk.open,
         closed.session.count > 0
  PROVE  MatchesDisk(closed.session, closed.dir)
<1>1. DOMAIN files[active] = ToSet(session.chunks)
  BY DEF DiskInv, ActiveInv
<1>2. CountsTrue(closed) /\ Filled(closed) /\ DOMAIN closed.dir = ToSet(closed.session.chunks)
  BY <1>1 DEF Follows
<1>3. \A i \in DOMAIN closed.dir : \E k \in DOMAIN closed.dir[i] : closed.dir[i][k] # Torn
  <2> SUFFICES ASSUME NEW i \in DOMAIN closed.dir
               PROVE  \E k \in DOMAIN closed.dir[i] : closed.dir[i][k] # Torn
    OBVIOUS
  <2>1. PICK l \in DOMAIN closed.session.chunks : i = closed.session.chunks[l]
    BY <1>2 DEF ToSet
  <2> QED BY <1>2, <2>1 DEF Filled
<1>4. PlacesOf(closed) # {}
  <2>1. closed.session.count = Cardinality(PlacesOf(closed)) /\ closed.session.count > 0
    BY <1>2 DEF CountsTrue
  <2>2. Cardinality({}) = 0
    BY FS_EmptySet
  <2> QED BY <2>1, <2>2
<1> QED BY <1>2, <1>3, <1>4 DEF MatchesDisk, CountsTrue, PlacesOf, NumberOf

LEMMA FinishStopDisk == ASSUME IInv, DiskInv, OrderInv, FinishStop PROVE DiskInv'
<1>1. PICK closed \in Closings(Now(active)) :
          /\ IF closed.session.count > 0 /\ closed.session.chunks # <<>>
             THEN \E data \in {closed.session, meta[active], NoData} :
                      Leave(active, closed.dir, data, closed.lost)
             ELSE RemoveDirectory(active, closed.dir)
          /\ chunk' = closed.chunk
  BY DEF FinishStop
<1>2. /\ active \in Ids /\ active # 0 /\ active' = 0 /\ session' = NoData
      /\ meta \in [Ids -> SessionData] /\ NoData \in SessionData
  BY DEF FinishStop, IInv, ControlInv, DiskInv, DiskTyped, NoData, SessionData
<1>3. ChunksInv(Now(active))
  BY <1>2 DEF DiskInv, ActiveInv
<1>4. /\ Keeps(Now(active), closed) /\ ~closed.chunk.open
      /\ closed.lost \in {Now(active).lost, TRUE}
  BY <1>3, ClosingKeepsFrames
<1>5. Follows(closed) /\ FewerFrames(Now(active), closed)
  BY <1>2, <1>4, KeepsFollows DEF Keeps
<1>6. /\ ChunksInv(closed) /\ CountsCover(closed)
      /\ closed.dir \in Directories /\ closed.session \in SessionData /\ closed.chunk \in IsChunk
  BY <1>5 DEF Follows, ChunksInv
<1>7. chunk' \in IsChunk /\ ~chunk'.open
  BY <1>1, <1>4, <1>6
<1>8. active \notin reused => meta[active] = NoData
  BY <1>2 DEF DiskInv, ActiveInv
<1>9. CASE closed.session.count > 0 /\ closed.session.chunks # <<>>
  <2>1. PICK data \in {closed.session, meta[active], NoData} :
            Leave(active, closed.dir, data, closed.lost)
    BY <1>1, <1>9
  <2>2. Told(closed.session, closed.dir)
    <3>1. Ordered(Now(active), hand \o queue, base, arrived)
      BY <1>2 DEF OrderInv
    <3>2. Ordered(closed, hand \o queue, base, arrived)
      BY <1>5, <3>1, OrderedFewer
    <3>3. closed.session.count \in Nat
      BY <1>6 DEF SessionData
    <3> QED BY <1>6, <3>2, <3>3, OrderedIsTold
  <2>3. active \notin reused \cup spoilt /\ ~closed.lost => MatchesDisk(closed.session, closed.dir)
    BY <1>2, <1>4, <1>5, <1>9, ClosedMatches
  <2>4. data # NoData /\ active \notin reused =>
            /\ Told(data, closed.dir)
            /\ ~closed.lost /\ active \notin spoilt => MatchesDisk(data, closed.dir)
    BY <1>8, <2>2, <2>3
  <2>5. data \in SessionData
    BY <1>2, <1>6
  <2>6. CASE closed.lost = TRUE
    <3>1. Leave(active, closed.dir, data, TRUE)
      BY <2>1, <2>6
    <3>2. data # NoData /\ active \notin reused =>
              /\ Told(data, closed.dir)
              /\ ~TRUE /\ active \notin spoilt => MatchesDisk(data, closed.dir)
      BY <2>4
    <3>3. TRUE \in BOOLEAN
      OBVIOUS
    <3> QED BY <1>2, <1>6, <1>7, <2>5, <3>1, <3>2, <3>3, LeaveDisk
  <2>7. CASE closed.lost = FALSE
    <3>1. Leave(active, closed.dir, data, FALSE)
      BY <2>1, <2>7
    <3>2. data # NoData /\ active \notin reused =>
              /\ Told(data, closed.dir)
              /\ ~FALSE /\ active \notin spoilt => MatchesDisk(data, closed.dir)
      BY <2>4, <2>7
    <3>3. FALSE \in BOOLEAN
      OBVIOUS
    <3> QED BY <1>2, <1>6, <1>7, <2>5, <3>1, <3>2, <3>3, LeaveDisk
  <2>8. closed.lost \in {Now(active).lost, TRUE} /\ Now(active).lost = FALSE
    BY <1>4 DEF Now
  <2> QED BY <2>6, <2>7, <2>8
<1>10. CASE ~(closed.session.count > 0 /\ closed.session.chunks # <<>>)
  <2>1. RemoveDirectory(active, closed.dir)
    BY <1>1, <1>10
  <2> QED BY <1>2, <1>6, <1>7, <1>8, <2>1, RemovalDisk
<1> QED BY <1>9, <1>10

LEMMA RemoveDisk == ASSUME IInv, DiskInv, NEW s \in Ids, RemoveSession(s) PROVE DiskInv'
<1>1. /\ active = 0 /\ active' = 0 /\ session' = session /\ chunk' = chunk
      /\ RemoveDirectory(s, files[s])
  BY DEF RemoveSession, sessionVars, IInv, ControlInv
<1>2. files[s] \in Directories /\ session' \in SessionData /\ chunk' \in IsChunk /\ ~chunk'.open
  BY <1>1 DEF DiskInv, DiskTyped
<1>3. meta[s] # NoData /\ s \notin reused =>
          /\ Told(meta[s], files[s])
          /\ s \notin spoilt => MatchesDisk(meta[s], files[s])
  BY <1>1, IdsAssumption DEF DiskInv, FinishedInv
<1> QED BY <1>1, <1>2, <1>3, RemovalDisk

(* A crash cuts the file of the open chunk at some place.                  *)
LEMMA CrashDisk == ASSUME IInv, DiskInv, Crash PROVE DiskInv'
<1>1. /\ active' = 0 /\ session' = NoData /\ chunk' = NoChunk /\ meta' = meta
      /\ reused' = reused /\ spoilt' = spoilt
  BY DEF Crash, history
<1>2. files \in [Ids -> Directories]
  BY DEF DiskInv, DiskTyped
<1>3. files' \in [Ids -> Directories] /\ \A s \in Ids \ {active} : files'[s] = files[s]
  <2>1. CASE ~chunk.open
    BY <1>2, <2>1 DEF Crash
  <2>2. CASE chunk.open
    <3> DEFINE written == files[active][chunk.index]
    <3>1. active \in Ids /\ ChunksInv(Now(active))
      BY <2>2 DEF DiskInv, DiskTyped, ActiveInv, IInv, ControlInv
    <3>2. chunk.index \in DOMAIN files[active] /\ chunk.index \in Nat \ {0} /\ written \in Seq(Nat)
      <4>1. /\ Now(active).session = session /\ Now(active).chunk = chunk
            /\ Now(active).dir = files[active]
        BY DEF Now
      <4>2. session.chunks \in Seq(Nat \ {0}) /\ Len(session.chunks) > 0
            /\ session.chunks[Len(session.chunks)] = chunk.index
        BY <2>2, <3>1, <4>1 DEF ChunksInv, SessionData
      <4>3. chunk.index \in DOMAIN files[active]
        BY <3>1, <4>1, <4>2 DEF ChunksInv
      <4>4. files[active] \in Directories
        BY <1>2, <3>1
      <4> QED BY <4>3, <4>4 DEF Directories
    <3>3. PICK contents \in Cuts(written) \cup {written} :
              files' = [files EXCEPT ![active] = With(@, chunk.index, contents)]
      BY <2>2 DEF Crash
    <3> HIDE DEF written
    <3>4. contents \in Seq(Nat)
      BY <3>2, CutOf
    <3>5. files[active] \in Directories
      BY <1>2, <3>1
    <3>6. With(files[active], chunk.index, contents) \in Directories
      BY <3>2, <3>4, <3>5, WithRewrites DEF Rewrites
    <3>7. files' = [files EXCEPT ![active] = With(files[active], chunk.index, contents)]
      BY <1>2, <3>1, <3>3
    <3> QED BY <1>2, <3>1, <3>6, <3>7
  <2> QED BY <2>1, <2>2
<1>4. NoData \in SessionData /\ NoChunk \in IsChunk /\ ~NoChunk.open
  BY DEF NoData, NoChunk, SessionData, IsChunk
<1>5. DiskTyped'
  BY <1>1, <1>3, <1>4 DEF DiskInv, DiskTyped
<1>6. FinishedInv'
  <2> SUFFICES ASSUME NEW s \in Ids \ reused, meta[s] # NoData
               PROVE  /\ Told(meta[s], files'[s])
                      /\ s \notin spoilt => MatchesDisk(meta[s], files'[s])
    BY <1>1 DEF FinishedInv
  <2>1. s # active
    BY IdsAssumption DEF DiskInv, ActiveInv
  <2>2. /\ Told(meta[s], files[s])
        /\ s \notin spoilt => MatchesDisk(meta[s], files[s])
    BY <2>1 DEF DiskInv, FinishedInv
  <2>3. files'[s] = files[s]
    BY <1>3, <2>1
  <2> QED BY <2>2, <2>3
<1>7. ActiveInv'
  BY <1>1 DEF ActiveInv
<1> QED BY <1>5, <1>6, <1>7 DEF DiskInv

-----------------------------------------------------------------------------
(* The order of the frames.                                                *)
LEMMA NumbersOnDisk ==
  ASSUME NEW now, ChunksInv(now), NEW p \in PlacesOf(now)
  PROVE  NumberOf(now, p) \in Nat
<1>1. PICK k \in DOMAIN now.session.chunks : \E j \in DOMAIN now.dir[now.session.chunks[k]] :
          p = <<k, j>>
  BY PlaceMember DEF PlacesOf
<1>2. now.session.chunks[k] \in DOMAIN now.dir /\ now.dir \in Directories
  BY DEF ChunksInv
<1>3. now.dir[now.session.chunks[k]] \in Seq(Nat)
  BY <1>2 DEF Directories
<1> QED BY <1>1, <1>3 DEF NumberOf, At

LEMMA OneAhead ==
  ASSUME NEW f \in Frame, NEW q \in Seq(Frame)
  PROVE  LET all == <<f>> \o q
         IN  /\ all \in Seq(Frame) /\ Len(all) = Len(q) + 1 /\ Len(q) \in Nat
             /\ DOMAIN all = 1..(Len(q) + 1) /\ DOMAIN q = 1..Len(q)
             /\ all[1] = f
             /\ \A i \in 1..Len(q) : all[i + 1] = q[i] /\ i + 1 \in DOMAIN all
OBVIOUS

LEMMA OrderedRest ==
  ASSUME NEW now, NEW f \in Frame, NEW q \in Seq(Frame), NEW low, NEW high,
         Ordered(now, <<f>> \o q, low, high)
  PROVE  /\ Ordered(now, q, low, high)
         /\ low < f.n /\ f.n <= high
         /\ \A p \in PlacesOf(now) : NumberOf(now, p) < f.n
         /\ \A i \in DOMAIN q : f.n < q[i].n
         /\ now.session.first < f.n /\ now.session.last < f.n
<1> DEFINE all == <<f>> \o q
<1>1. /\ DOMAIN all = 1..(Len(q) + 1) /\ DOMAIN q = 1..Len(q) /\ Len(q) \in Nat
      /\ all[1] = f
      /\ \A i \in 1..Len(q) : all[i + 1] = q[i] /\ i + 1 \in DOMAIN all
  BY OneAhead
<1> HIDE DEF all
<1>2. /\ \A p \in PlacesOf(now) : low < NumberOf(now, p) /\ NumberOf(now, p) <= high
      /\ \A p, r \in PlacesOf(now) : Before(p, r) => NumberOf(now, p) < NumberOf(now, r)
      /\ \A p \in PlacesOf(now) : \A i \in DOMAIN all : NumberOf(now, p) < all[i].n
      /\ \A i \in DOMAIN all : low < all[i].n /\ all[i].n <= high
      /\ \A i, j \in DOMAIN all : i < j => all[i].n < all[j].n
      /\ \A i \in DOMAIN all : now.session.first < all[i].n /\ now.session.last < all[i].n
  BY DEF Ordered, all
<1>3. 1 \in DOMAIN all
  BY <1>1
<1>4. /\ \A i \in DOMAIN q : i + 1 \in DOMAIN all /\ all[i + 1] = q[i] /\ i \in Nat /\ 1 < i + 1
  BY <1>1
<1>5. \A i, j \in DOMAIN q : i < j => i + 1 < j + 1
  BY <1>1
<1>6. \A i, j \in DOMAIN q : i < j => q[i].n < q[j].n
  <2> SUFFICES ASSUME NEW i \in DOMAIN q, NEW j \in DOMAIN q, i < j PROVE q[i].n < q[j].n
    OBVIOUS
  <2>1. all[i + 1].n < all[j + 1].n
    BY <1>2, <1>4, <1>5
  <2> QED BY <1>4, <2>1
<1>7. \A i \in DOMAIN q : low < q[i].n /\ q[i].n <= high /\ f.n < q[i].n
  <2> SUFFICES ASSUME NEW i \in DOMAIN q
               PROVE  low < q[i].n /\ q[i].n <= high /\ f.n < q[i].n
    OBVIOUS
  <2>1. low < all[i + 1].n /\ all[i + 1].n <= high /\ all[1].n < all[i + 1].n
    BY <1>2, <1>3, <1>4
  <2> QED BY <1>1, <1>4, <2>1
<1>8. \A p \in PlacesOf(now) : \A i \in DOMAIN q : NumberOf(now, p) < q[i].n
  <2> SUFFICES ASSUME NEW p \in PlacesOf(now), NEW i \in DOMAIN q
               PROVE  NumberOf(now, p) < q[i].n
    OBVIOUS
  <2>1. NumberOf(now, p) < all[i + 1].n
    BY <1>2, <1>4
  <2> QED BY <1>4, <2>1
<1>9. low < f.n /\ f.n <= high /\ \A p \in PlacesOf(now) : NumberOf(now, p) < f.n
  BY <1>1, <1>2, <1>3
<1>10. /\ now.session.first = 0 => PlacesOf(now) = {}
       /\ \A p \in PlacesOf(now) : /\ now.session.first <= NumberOf(now, p)
                                   /\ NumberOf(now, p) <= now.session.last
       /\ now.session.first <= high /\ now.session.last <= high
  BY DEF Ordered
<1>11. now.session.first < f.n /\ now.session.last < f.n
  BY <1>1, <1>2, <1>3
<1>12. \A i \in DOMAIN q : now.session.first < q[i].n /\ now.session.last < q[i].n
  <2> SUFFICES ASSUME NEW i \in DOMAIN q
               PROVE  now.session.first < q[i].n /\ now.session.last < q[i].n
    OBVIOUS
  <2>1. now.session.first < all[i + 1].n /\ now.session.last < all[i + 1].n
    BY <1>2, <1>4
  <2> QED BY <1>4, <2>1
<1>13. Ordered(now, q, low, high)
  BY <1>2, <1>6, <1>7, <1>8, <1>10, <1>12 DEF Ordered
<1> QED BY <1>7, <1>9, <1>11, <1>13

LEMMA OrderedRecorded ==
  ASSUME NEW now, ChunksInv(now), now.chunk.open, CountsCover(now),
         NEW f \in Frame, NEW q \in Seq(Frame), NEW low, NEW high,
         Ordered(now, <<f>> \o q, low, high)
  PROVE  Ordered(Recorded(now, f.n, f.size), q, low, high)
<1> DEFINE new == Recorded(now, f.n, f.size)
           p0 == NextPlace(now)
<1>1. f.n \in Nat \ {0} /\ f.size \in Nat \ {0}
  BY SizesAssumption DEF Frame
<1>2. /\ PlacesOf(new) = PlacesOf(now) \cup {p0}
      /\ \A p \in PlacesOf(now) : /\ NumberOf(new, p) = NumberOf(now, p)
                                  /\ p # p0 /\ Before(p, p0) /\ ~Before(p0, p)
      /\ NumberOf(new, p0) = f.n
      /\ ~Before(p0, p0)
      /\ new.session.first = IF now.session.first = 0 THEN f.n ELSE now.session.first
      /\ new.session.last = f.n
  <2>1. ~Before(p0, p0)
    <3>1. Len(now.session.chunks) \in Nat /\ Len(now.dir[now.chunk.index]) \in Nat
      <4>1. now.session.chunks \in Seq(Nat \ {0})
        BY DEF ChunksInv, SessionData
      <4>2. now.dir[now.chunk.index] \in Seq(Nat)
        BY <4>1 DEF ChunksInv, Directories
      <4> QED BY <4>1, <4>2
    <3> QED BY <3>1 DEF Before, NextPlace
  <2> QED BY <1>1, <2>1, RecordedKeeps
<1>3. /\ Ordered(now, q, low, high)
      /\ low < f.n /\ f.n <= high
      /\ \A p \in PlacesOf(now) : NumberOf(now, p) < f.n
      /\ \A i \in DOMAIN q : f.n < q[i].n
      /\ now.session.first < f.n /\ now.session.last < f.n
  BY OrderedRest
<1> HIDE DEF new, p0
<1>4. /\ \A p \in PlacesOf(now) : low < NumberOf(now, p) /\ NumberOf(now, p) <= high
      /\ \A p, r \in PlacesOf(now) : Before(p, r) => NumberOf(now, p) < NumberOf(now, r)
      /\ \A p \in PlacesOf(now) : \A i \in DOMAIN q : NumberOf(now, p) < q[i].n
      /\ \A i \in DOMAIN q : low < q[i].n /\ q[i].n <= high
      /\ \A i, j \in DOMAIN q : i < j => q[i].n < q[j].n
      /\ now.session.first = 0 => PlacesOf(now) = {}
      /\ \A p \in PlacesOf(now) : now.session.first <= NumberOf(now, p)
      /\ now.session.first <= high
      /\ \A i \in DOMAIN q : now.session.first < q[i].n
  BY <1>3 DEF Ordered
<1>5. \A p \in PlacesOf(new) : low < NumberOf(new, p) /\ NumberOf(new, p) <= high
  BY <1>2, <1>3, <1>4
<1>6. \A p, r \in PlacesOf(new) : Before(p, r) => NumberOf(new, p) < NumberOf(new, r)
  BY <1>2, <1>3, <1>4
<1>7. \A p \in PlacesOf(new) : \A i \in DOMAIN q : NumberOf(new, p) < q[i].n
  BY <1>2, <1>3, <1>4
<1>8. new.session.first # 0 /\ new.session.first <= f.n
  <2>1. now.session.first \in Nat
    BY DEF ChunksInv, SessionData
  <2> QED BY <1>1, <1>2, <1>3, <2>1
<1>9. \A p \in PlacesOf(new) : new.session.first <= NumberOf(new, p)
  <2> SUFFICES ASSUME NEW p \in PlacesOf(new) PROVE new.session.first <= NumberOf(new, p)
    OBVIOUS
  <2>1. CASE p = p0
    BY <1>2, <1>8, <2>1
  <2>2. CASE p \in PlacesOf(now)
    BY <1>2, <1>4, <2>2
  <2> QED BY <1>2, <2>1, <2>2
<1>10. \A p \in PlacesOf(now) : NumberOf(now, p) \in Nat
  BY NumbersOnDisk
<1>11. \A p \in PlacesOf(new) : NumberOf(new, p) <= new.session.last
  BY <1>1, <1>2, <1>3, <1>10
<1>12. /\ new.session.first <= high /\ new.session.last <= high
       /\ \A i \in DOMAIN q : /\ new.session.first < q[i].n
                              /\ new.session.last < q[i].n
  BY <1>1, <1>2, <1>3, <1>4
<1> QED BY <1>4, <1>5, <1>6, <1>7, <1>8, <1>9, <1>11, <1>12 DEF Ordered, new

LEMMA EmptyHand ==
  ASSUME KeptInv
  PROVE  /\ writer # "writing" => hand = <<>> /\ hand \o queue = queue
         /\ writer = "writing" => /\ hand = <<Head(hand)>> /\ Head(hand) \in Frame
                                  /\ hand \o queue = <<Head(hand)>> \o queue
<1>1. hand \in Seq(Frame) /\ queue \in Seq(Frame) /\ Len(hand) = IF writer = "writing" THEN 1 ELSE 0
  BY DEF KeptInv
<1>2. CASE writer # "writing"
  BY <1>1, <1>2
<1>3. CASE writer = "writing"
  <2>1. Len(hand) = 1
    BY <1>1, <1>3
  <2>2. hand = <<Head(hand)>> /\ Head(hand) \in Frame
    BY <1>1, <2>1
  <2> QED BY <1>3, <2>2
<1> QED BY <1>2, <1>3

LEMMA OrderInitially == Init => OrderInv
BY DEF Init, OrderInv

LEMMA NumbersComing ==
  ASSUME NEW c \in Seq(Frame), NEW i \in DOMAIN c
  PROVE  c[i].n \in Nat
<1>1. c[i] \in Frame
  OBVIOUS
<1> QED BY <1>1 DEF Frame

(* One frame more is coming, with a higher number.                         *)
LEMMA ReceiveOrder ==
  ASSUME IInv, DiskInv, OrderInv, NEW size \in Sizes, Receive(size)
  PROVE  OrderInv'
<1> DEFINE f == [n |-> arrived + 1, size |-> size]
           c == hand \o queue
<1>1. /\ queue' = Append(queue, f) /\ arrived' = arrived + 1
      /\ UNCHANGED <<active, hand, session, chunk, files, base, writer>> /\ active # 0
  BY DEF Receive, sessionVars, disk, IInv, ControlInv
<1>2. arrived \in Nat /\ base \in Nat /\ base <= arrived /\ hand \in Seq(Frame) /\ queue \in Seq(Frame)
  BY DEF IInv, KeptInv, OrderInv
<1>3. f \in Frame /\ f.n = arrived + 1
  BY <1>2 DEF Frame
<1> HIDE DEF f
<1>4. c \in Seq(Frame) /\ hand' \o queue' = Append(c, f)
  BY <1>1, <1>2, <1>3
<1> HIDE DEF c
<1>5. /\ Append(c, f) \in Seq(Frame) /\ Len(c) \in Nat
      /\ DOMAIN c = 1..Len(c) /\ DOMAIN Append(c, f) = 1..(Len(c) + 1)
      /\ Append(c, f)[Len(c) + 1] = f
      /\ \A k \in 1..Len(c) : Append(c, f)[k] = c[k]
  BY <1>3, <1>4, AppendTo
<1>6. Now(active)' = Now(active)
  BY <1>1 DEF Now
<1> DEFINE now == Now(active)
           d == Append(c, f)
<1> HIDE DEF now, d
<1>7. Ordered(now, c, base, arrived)
  BY <1>1 DEF OrderInv, c, now
<1>8. /\ \A p \in PlacesOf(now) : base < NumberOf(now, p) /\ NumberOf(now, p) <= arrived
      /\ \A p, r \in PlacesOf(now) : Before(p, r) => NumberOf(now, p) < NumberOf(now, r)
      /\ \A p \in PlacesOf(now) : \A i \in DOMAIN c : NumberOf(now, p) < c[i].n
      /\ \A i \in DOMAIN c : base < c[i].n /\ c[i].n <= arrived
      /\ \A i, j \in DOMAIN c : i < j => c[i].n < c[j].n
      /\ now.session.first = 0 => PlacesOf(now) = {}
      /\ \A p \in PlacesOf(now) : /\ now.session.first <= NumberOf(now, p)
                                  /\ NumberOf(now, p) <= now.session.last
      /\ now.session.first <= arrived /\ now.session.last <= arrived
      /\ \A i \in DOMAIN c : /\ now.session.first < c[i].n
                             /\ now.session.last < c[i].n
  BY <1>7 DEF Ordered
<1>9. /\ \A p \in PlacesOf(now) : NumberOf(now, p) \in Nat
      /\ now.session.first \in Nat /\ now.session.last \in Nat
  <2>1. ChunksInv(now)
    BY <1>1 DEF DiskInv, ActiveInv, now
  <2> QED BY <2>1, NumbersOnDisk DEF ChunksInv, SessionData
<1>10. \A i \in DOMAIN c : c[i].n \in Nat
  BY <1>4, NumbersComing
<1>11. /\ DOMAIN d = DOMAIN c \cup {Len(c) + 1} /\ d[Len(c) + 1] = f
       /\ \A k \in DOMAIN c : d[k] = c[k] /\ k < Len(c) + 1 /\ k \in Nat
       /\ Len(c) + 1 \in Nat
  BY <1>5 DEF d
<1>12. Ordered(now, d, base, arrived + 1)
  <2>1. \A p \in PlacesOf(now) : base < NumberOf(now, p) /\ NumberOf(now, p) <= arrived + 1
    BY <1>2, <1>8, <1>9
  <2>2. \A p \in PlacesOf(now) : \A i \in DOMAIN d : NumberOf(now, p) < d[i].n
    BY <1>2, <1>3, <1>8, <1>9, <1>11
  <2>3. \A i \in DOMAIN d : base < d[i].n /\ d[i].n <= arrived + 1
    BY <1>2, <1>3, <1>8, <1>10, <1>11
  <2>4. \A i, j \in DOMAIN d : i < j => d[i].n < d[j].n
    <3> SUFFICES ASSUME NEW i \in DOMAIN d, NEW j \in DOMAIN d, i < j PROVE d[i].n < d[j].n
      OBVIOUS
    <3>1. i \in DOMAIN c
      BY <1>11
    <3>2. CASE j \in DOMAIN c
      BY <1>8, <1>11, <3>1, <3>2
    <3>3. CASE j = Len(c) + 1
      BY <1>2, <1>3, <1>8, <1>10, <1>11, <3>1, <3>3
    <3> QED BY <1>11, <3>2, <3>3
  <2>5. now.session.first <= arrived + 1 /\ now.session.last <= arrived + 1
    BY <1>2, <1>8, <1>9
  <2>6. \A i \in DOMAIN d : now.session.first < d[i].n /\ now.session.last < d[i].n
    BY <1>2, <1>3, <1>8, <1>9, <1>11
  <2> QED BY <1>8, <2>1, <2>2, <2>3, <2>4, <2>5, <2>6 DEF Ordered
<1>13. hand' \o queue' = d /\ Now(active)' = now
  BY <1>4, <1>6 DEF d, now
<1>14. Ordered(Now(active)', hand' \o queue', base', arrived')
  BY <1>1, <1>12, <1>13
<1>15. base' <= arrived'
  BY <1>1, <1>2, SMTT(30)
<1>16. Ordered(Now(active), hand \o queue, base, arrived)'
  BY <1>14 DEF Ordered, PlacesOf, NumberOf, Whole, At, Before
<1> QED BY <1>15, <1>16 DEF OrderInv

(* What is coming stays, and frames that are dropped at once only arrive.  *)
LEMMA KeptOrder ==
  ASSUME IInv, DiskInv, OrderInv, UNCHANGED <<active, session, chunk, files, base>>,
         hand' \o queue' = hand \o queue,
         arrived' = arrived \/ arrived' = arrived + 1
  PROVE  OrderInv'
<1>1. arrived \in Nat /\ base \in Nat /\ base <= arrived /\ base' <= arrived'
      /\ arrived' \in Nat /\ arrived <= arrived'
  BY SMTT(30) DEF IInv, KeptInv, OrderInv
<1> SUFFICES ASSUME active # 0
             PROVE  Ordered(Now(active)', hand' \o queue', base', arrived')
  BY <1>1 DEF OrderInv, Ordered, PlacesOf, NumberOf, Whole, At, Before
<1> DEFINE now == Now(active)
           c == hand \o queue
<1>2. Now(active)' = now
  BY DEF Now
<1>3. hand \in Seq(Frame) /\ queue \in Seq(Frame)
  BY DEF IInv, KeptInv
<1>4. \A i \in DOMAIN c : c[i].n \in Nat
  <2>1. c \in Seq(Frame)
    BY <1>3
  <2> HIDE DEF c
  <2> QED BY <2>1, NumbersComing
<1>5. ChunksInv(now)
  BY DEF DiskInv, ActiveInv
<1> HIDE DEF now, c
<1>6. /\ \A p \in PlacesOf(now) : NumberOf(now, p) \in Nat
      /\ now.session.first \in Nat /\ now.session.last \in Nat
  BY <1>5, NumbersOnDisk DEF ChunksInv, SessionData
<1>7. Ordered(now, c, base, arrived)
  BY DEF OrderInv, now, c
<1>8. Ordered(now, c, base, arrived')
  BY <1>1, <1>4, <1>6, <1>7 DEF Ordered
<1> QED BY <1>2, <1>8 DEF c

LEMMA TakeOrder == ASSUME IInv, DiskInv, OrderInv, WriterTake PROVE OrderInv'
<1>1. /\ hand' = <<Head(queue)>> /\ queue' = Tail(queue) /\ queue # <<>> /\ writer = "waiting"
      /\ UNCHANGED <<active, session, chunk, files, base, arrived>>
  BY DEF WriterTake, sessionVars, disk, history
<1>2. hand \o queue = queue /\ queue \in Seq(Frame)
  BY <1>1, EmptyHand DEF IInv, KeptInv
<1>3. <<Head(queue)>> \o Tail(queue) = queue
  BY <1>1, <1>2
<1> QED BY <1>1, <1>2, <1>3, KeptOrder

LEMMA WriteFrameOrder == ASSUME IInv, DiskInv, OrderInv, WriteFrame PROVE OrderInv'
<1> DEFINE f == Head(hand)
<1>1. /\ active # 0 /\ active \in Ids /\ UNCHANGED <<active, queue, base, arrived>>
      /\ hand' = <<>> /\ writer = "writing" /\ files \in [Ids -> Directories]
  BY DEF WriteFrame, IInv, ControlInv, history, queueVars, DiskInv, DiskTyped
<1>2. f \in Frame /\ hand \o queue = <<f>> \o queue /\ queue \in Seq(Frame)
  BY <1>1, EmptyHand DEF IInv, KeptInv
<1>3. PICK target \in Targets :
          /\ session' = Recorded(target, f.n, f.size).session
          /\ chunk' = Recorded(target, f.n, f.size).chunk
          /\ files' = [files EXCEPT ![active] = Recorded(target, f.n, f.size).dir]
  BY DEF WriteFrame, Recorded, Appended
<1> DEFINE after == Recorded(target, f.n, f.size)
           bare == NowOf(after.session, after.chunk, after.dir)
<1>4. Keeps(Now(active), target) /\ target.chunk.open
  BY <1>1, ActiveTarget
<1>5. ChunksInv(target) /\ CountsCover(target) /\ FewerFrames(Now(active), target)
  BY <1>1, <1>4, KeepsFollows DEF Follows, Keeps
<1>6. Ordered(target, <<f>> \o queue, base, arrived)
  <2>1. Ordered(Now(active), <<f>> \o queue, base, arrived)
    BY <1>1, <1>2 DEF OrderInv
  <2> QED BY <1>5, <2>1, OrderedFewer
<1>7. Ordered(after, queue, base, arrived)
  BY <1>2, <1>4, <1>5, <1>6, OrderedRecorded
<1> HIDE DEF after
<1>8. Ordered(bare, queue, base, arrived)
  BY <1>7, LossForgotten
<1>9. Now(active)' = bare
  <2>1. /\ session' = after.session /\ chunk' = after.chunk
        /\ files' = [files EXCEPT ![active'] = after.dir]
    BY <1>1, <1>3 DEF after
  <2> QED BY <1>1, <2>1, NowAfter
<1> HIDE DEF bare
<1>10. hand' \o queue' = queue
  BY <1>1, <1>2
<1>11. Ordered(Now(active)', hand' \o queue', base', arrived')
  BY <1>1, <1>8, <1>9, <1>10
<1>12. Ordered(Now(active), hand \o queue, base, arrived)'
  BY <1>11 DEF Ordered, PlacesOf, NumberOf, Whole, At, Before
<1> QED BY <1>1, <1>12 DEF OrderInv

LEMMA WriteFailsOrder == ASSUME IInv, DiskInv, OrderInv, WriteFails PROVE OrderInv'
<1> DEFINE f == Head(hand)
<1>1. /\ active # 0 /\ active \in Ids /\ UNCHANGED <<active, queue, base, arrived>>
      /\ hand' = <<>> /\ writer = "writing" /\ files \in [Ids -> Directories]
  BY DEF WriteFails, IInv, ControlInv, history, queueVars, DiskInv, DiskTyped
<1>2. f \in Frame /\ hand \o queue = <<f>> \o queue /\ queue \in Seq(Frame)
  BY <1>1, EmptyHand DEF IInv, KeptInv
<1>3. PICK after : Keeps(Now(active), after) /\ Leaves(after)
  BY WriteFailsKeepsFrames
<1> DEFINE bare == NowOf(after.session, after.chunk, after.dir)
<1>4. Ordered(Now(active), <<f>> \o queue, base, arrived)
  BY <1>1, <1>2 DEF OrderInv
<1>5. Ordered(Now(active), queue, base, arrived)
  BY <1>2, <1>4, OrderedRest
<1>6. Ordered(after, queue, base, arrived)
  BY <1>3, <1>5, OrderedFewer DEF Keeps
<1>7. Ordered(bare, queue, base, arrived)
  BY <1>6, LossForgotten
<1>8. Now(active)' = bare
  <2>1. /\ session' = after.session /\ chunk' = after.chunk
        /\ files' = [files EXCEPT ![active'] = after.dir]
    BY <1>1, <1>3 DEF Leaves
  <2> QED BY <1>1, <2>1, NowAfter
<1> HIDE DEF bare
<1>9. hand' \o queue' = queue
  BY <1>1, <1>2
<1>10. Ordered(Now(active)', hand' \o queue', base', arrived')
  BY <1>1, <1>7, <1>8, <1>9
<1>11. Ordered(Now(active), hand \o queue, base, arrived)'
  BY <1>10 DEF Ordered, PlacesOf, NumberOf, Whole, At, Before
<1> QED BY <1>1, <1>11 DEF OrderInv

LEMMA StartRecordOrder == ASSUME IInv, DiskInv, OrderInv, StartRecord PROVE OrderInv'
<1> DEFINE fresh == NowOf(NoData, NoChunk, files[clock])
           opened == OpenNextChunk(fresh, TRUE)
           bare == NowOf(opened.session, opened.chunk, opened.dir)
<1>1. /\ queue' = <<>> /\ base' = arrived /\ arrived' = arrived /\ hand' = hand /\ writer = "off"
      /\ clock \in Ids /\ files \in [Ids -> Directories] /\ arrived \in Nat
  BY DEF StartRecord, IInv, ControlInv, KeptInv, DiskInv, DiskTyped
<1>2. hand' \o queue' = <<>>
  BY <1>1, EmptyHand DEF IInv
<1>3. ASSUME active' # 0
      PROVE  Ordered(Now(active)', hand' \o queue', base', arrived')
  <2>1. /\ session' = opened.session /\ chunk' = opened.chunk /\ active' = clock
        /\ files' = [files EXCEPT ![clock] = opened.dir]
    BY <1>3 DEF StartRecord, NewSessionId, NowOf
  <2>2. ChunksInv(fresh) /\ PlacesOf(fresh) = {} /\ fresh.session = NoData /\ ~fresh.chunk.open
    BY <1>1, FreshIsSound DEF NowOf, NoChunk
  <2>3. SameFrames(fresh, opened)
    BY <2>2, OpenKeepsFrames
  <2> HIDE DEF opened, fresh
  <2>4. PlacesOf(opened) = {} /\ opened.session.first = 0 /\ opened.session.last = 0
    <3>1. NoData.first = 0 /\ NoData.last = 0
      BY DEF NoData
    <3>2. SameCounters(fresh, opened) /\ PlacesOf(opened) = PlacesOf(fresh)
      BY <2>3 DEF SameFrames
    <3> QED BY <2>2, <3>1, <3>2 DEF SameCounters
  <2>5. Ordered(opened, <<>>, arrived, arrived)
    BY <1>1, <2>4 DEF Ordered
  <2>6. Ordered(bare, <<>>, arrived, arrived)
    BY <2>5, LossForgotten
  <2>7. Now(active)' = bare
    <3>1. active' \in Ids /\ files' = [files EXCEPT ![active'] = opened.dir]
      BY <1>1, <2>1
    <3> QED BY <1>1, <2>1, <3>1, NowAfter
  <2> HIDE DEF bare
  <2> QED BY <1>1, <1>2, <2>6, <2>7
<1>4. active' # 0 => Ordered(Now(active), hand \o queue, base, arrived)'
  BY <1>3 DEF Ordered, PlacesOf, NumberOf, Whole, At, Before
<1>5. base' <= arrived'
  BY <1>1
<1> QED BY <1>4, <1>5 DEF OrderInv

(* Only together are the two inductive: that session.json covers what is   *)
(* there needs the order of the frames.                                    *)
LEMMA DiskAndOrder == Spec => [](DiskInv /\ OrderInv)
<1>1. IInv /\ DiskInv /\ OrderInv /\ [Next]_vars => DiskInv'
  <2> SUFFICES ASSUME IInv, DiskInv, OrderInv, [Next]_vars PROVE DiskInv'
    OBVIOUS
  <2>1. CASE UNCHANGED <<active, session, chunk, files, meta, reused, spoilt>>
    BY <2>1, ChunkKeptDisk
  <2>2. CASE StartRecord
    BY <2>2, StartRecordDisk
  <2>3. CASE FinishStop
    BY <2>3, FinishStopDisk
  <2>4. CASE \E s \in Ids : RemoveSession(s)
    BY <2>4, RemoveDisk
  <2>5. CASE WriteFrame
    BY <2>5, WriteFrameDisk
  <2>6. CASE WriteFails
    BY <2>6, WriteFailsDisk
  <2>7. CASE Crash
    BY <2>7, CrashDisk
  <2> QED BY <2>1, <2>2, <2>3, <2>4, <2>5, <2>6, <2>7
          DEF Next, vars, WriterStep, Tick, CountDrop, StopRecord, Receive, ReceiveFull,
              WriterTake, WriterLeave, WriterCountDrop, sessionVars, disk, history
<1>2. IInv /\ DiskInv /\ OrderInv /\ [Next]_vars => OrderInv'
  <2> SUFFICES ASSUME IInv, DiskInv, OrderInv, [Next]_vars PROVE OrderInv'
    OBVIOUS
  <2>1. CASE /\ UNCHANGED <<active, session, chunk, files, base, hand, queue>>
             /\ arrived' = arrived \/ arrived' = arrived + 1
    BY <2>1, KeptOrder
  <2>2. CASE StartRecord
    BY <2>2, StartRecordOrder
  <2>3. CASE FinishStop \/ Crash \/ \E s \in Ids : RemoveSession(s)
    BY <2>3 DEF FinishStop, Crash, RemoveSession, OrderInv, IInv, ControlInv, history
  <2>4. CASE \E size \in Sizes : Receive(size)
    BY <2>4, ReceiveOrder
  <2>5. CASE WriteFrame
    BY <2>5, WriteFrameOrder
  <2>6. CASE WriteFails
    BY <2>6, WriteFailsOrder
  <2>7. CASE WriterTake
    BY <2>7, TakeOrder
  <2> QED BY <2>1, <2>2, <2>3, <2>4, <2>5, <2>6, <2>7
          DEF Next, vars, WriterStep, Tick, CountDrop, StopRecord, ReceiveFull, WriterLeave,
              WriterCountDrop, queueVars, sessionVars, disk, history
<1> QED BY RecorderInvariant, DiskInitially, OrderInitially, <1>1, <1>2, PTL DEF Spec

(* What session.json says of a finished recording covers what a reader     *)
(* finds, whichever closes lost frames, writes failed or removals stopped  *)
(* half-way; where none did, it is exactly what is on the disk.            *)
THEOREM SessionFileIsTrue == Spec => []MetaMatchesDisk
<1>1. DiskInv => MetaMatchesDisk
  BY DEF DiskInv, FinishedInv, MetaMatchesDisk, Told
<1> QED BY DiskAndOrder, <1>1, PTL

(* No frame is duplicated, and none overtakes another, on its way from the *)
(* bus through the queue and the writer's hand into the chunk files,       *)
(* whatever fails and however the two threads interleave.                  *)
THEOREM FramesKeepTheirOrder == Spec => []ArrivalOrderKept
<1>1. OrderInv => ArrivalOrderKept
  <2>1. Now(active).dir = files[active] /\ Now(active).session = session
    BY DEF Now
  <2> QED BY <2>1 DEF OrderInv, ArrivalOrderKept, Ordered, PlacesOf, NumberOf
<1> QED BY DiskAndOrder, <1>1, PTL

-----------------------------------------------------------------------------
(* The account of the queue.                                               *)
Totals(q, bytes) ==
    \E total \in [0..Len(q) -> Nat] :
        /\ total[0] = 0
        /\ \A i \in DOMAIN q : total[i] = total[i - 1] + q[i].size
        /\ \A i, j \in 0..Len(q) : i <= j => total[i] <= total[j]
        /\ total[Len(q)] = bytes

LEMMA EmptyTotals == Totals(<<>>, 0)
<1> DEFINE total == [i \in 0..0 |-> 0]
<1>1. total \in [0..Len(<<>>) -> Nat] /\ total[0] = 0 /\ Len(<<>>) = 0
  OBVIOUS
<1>2. \A i, j \in 0..Len(<<>>) : total[i] <= total[j]
  BY <1>1
<1> HIDE DEF total
<1> QED BY <1>1, <1>2 DEF Totals

LEMMA AppendTotals ==
  ASSUME NEW q \in Seq(Frame), NEW bytes, Totals(q, bytes), NEW f \in Frame
  PROVE  Totals(Append(q, f), bytes + f.size)
<1>1. PICK total \in [0..Len(q) -> Nat] :
        /\ total[0] = 0
        /\ \A i \in DOMAIN q : total[i] = total[i - 1] + q[i].size
        /\ \A i, j \in 0..Len(q) : i <= j => total[i] <= total[j]
        /\ total[Len(q)] = bytes
  BY DEF Totals
<1> DEFINE r == Append(q, f)
           more == [i \in 0..(Len(q) + 1) |-> IF i <= Len(q) THEN total[i] ELSE bytes + f.size]
<1>2. /\ Len(q) \in Nat /\ DOMAIN q = 1..Len(q) /\ Len(r) = Len(q) + 1
      /\ DOMAIN r = 1..(Len(q) + 1) /\ r[Len(q) + 1] = f
      /\ \A k \in 1..Len(q) : r[k] = q[k]
  BY AppendTo
<1> HIDE DEF r
<1>3. f.size \in Nat /\ bytes \in Nat
  <2>1. Len(q) \in 0..Len(q)
    BY <1>2
  <2>2. bytes \in Nat
    BY <1>1, <2>1
  <2> QED BY <2>2, SizesAssumption DEF Frame
<1>4. /\ \A i \in 0..Len(q) : more[i] = total[i] /\ more[i] \in Nat /\ more[i] <= bytes
      /\ more[Len(q) + 1] = bytes + f.size
  BY <1>1, <1>2, <1>3
<1>5. more \in [0..Len(r) -> Nat] /\ more[0] = 0 /\ more[Len(r)] = bytes + f.size
  BY <1>1, <1>2, <1>3, <1>4
<1> HIDE DEF more
<1>6. \A i \in DOMAIN r : more[i] = more[i - 1] + r[i].size
  <2> SUFFICES ASSUME NEW i \in DOMAIN r PROVE more[i] = more[i - 1] + r[i].size
    OBVIOUS
  <2>1. CASE i \in 1..Len(q)
    <3>1. i - 1 \in 0..Len(q) /\ i \in 0..Len(q) /\ i \in DOMAIN q
      BY <1>2, <2>1
    <3>2. total[i] = total[i - 1] + q[i].size
      BY <1>1, <3>1
    <3> QED BY <1>2, <1>4, <2>1, <3>1, <3>2
  <2>2. CASE i = Len(q) + 1
    <3>1. i - 1 = Len(q) /\ Len(q) \in 0..Len(q)
      BY <1>2, <2>2
    <3> QED BY <1>1, <1>2, <1>4, <2>2, <3>1
  <2> QED BY <1>2, <2>1, <2>2
<1>7. \A i, j \in 0..Len(r) : i <= j => more[i] <= more[j]
  <2> SUFFICES ASSUME NEW i \in 0..Len(r), NEW j \in 0..Len(r), i <= j
               PROVE  more[i] <= more[j]
    OBVIOUS
  <2>1. CASE j \in 0..Len(q)
    <3>1. i \in 0..Len(q)
      BY <1>2, <2>1
    <3> QED BY <1>1, <1>4, <2>1, <3>1
  <2>2. CASE j = Len(q) + 1 /\ i \in 0..Len(q)
    BY <1>3, <1>4, <2>2
  <2>3. CASE j = i
    BY <1>5, <2>3
  <2> QED BY <1>2, <2>1, <2>2, <2>3
<1> QED BY <1>5, <1>6, <1>7 DEF Totals, r

LEMMA TailTotals ==
  ASSUME NEW q \in Seq(Frame), q # <<>>, NEW bytes, Totals(q, bytes)
  PROVE  /\ Totals(Tail(q), bytes - Head(q).size)
         /\ bytes - Head(q).size \in Nat /\ bytes - Head(q).size <= bytes
<1>1. PICK total \in [0..Len(q) -> Nat] :
        /\ total[0] = 0
        /\ \A i \in DOMAIN q : total[i] = total[i - 1] + q[i].size
        /\ \A i, j \in 0..Len(q) : i <= j => total[i] <= total[j]
        /\ total[Len(q)] = bytes
  BY DEF Totals
<1> DEFINE r == Tail(q)
           size == Head(q).size
           less == [i \in 0..(Len(q) - 1) |-> total[i + 1] - size]
<1>2. /\ Len(q) \in Nat /\ Len(q) >= 1 /\ DOMAIN q = 1..Len(q) /\ Len(r) = Len(q) - 1
      /\ DOMAIN r = 1..(Len(q) - 1) /\ \A k \in 1..(Len(q) - 1) : r[k] = q[k + 1]
  OBVIOUS
<1>3. Head(q) = q[1] /\ q[1] \in Frame
  OBVIOUS
<1>4. size \in Nat /\ size = total[1] /\ bytes \in Nat /\ size <= bytes
  <2>1. size \in Nat
    BY <1>3, SizesAssumption DEF Frame
  <2>2. total[1] = total[0] + q[1].size
    <3>1. 1 \in DOMAIN q /\ 1 - 1 = 0
      BY <1>2
    <3> QED BY <1>1, <3>1
  <2>3. size = total[1]
    BY <1>1, <1>3, <2>1, <2>2
  <2>4. 1 \in 0..Len(q) /\ Len(q) \in 0..Len(q)
    BY <1>2
  <2> QED BY <1>1, <1>2, <2>1, <2>3, <2>4
<1> HIDE DEF r, size
<1>5. \A i \in 0..(Len(q) - 1) : /\ i + 1 \in 0..Len(q) /\ less[i] = total[i + 1] - size
                                 /\ total[i + 1] >= size /\ less[i] \in Nat
  <2> SUFFICES ASSUME NEW i \in 0..(Len(q) - 1)
               PROVE  i + 1 \in 0..Len(q) /\ total[i + 1] >= size /\ total[i + 1] \in Nat
    BY <1>4
  <2>1. i + 1 \in 0..Len(q) /\ 1 \in 0..Len(q) /\ 1 <= i + 1
    BY <1>2
  <2> QED BY <1>1, <1>4, <2>1
<1>6. less \in [0..Len(r) -> Nat]
  BY <1>2, <1>5
<1> HIDE DEF less
<1>7. less[0] = 0 /\ less[Len(r)] = bytes - size
  <2>1. 0 \in 0..(Len(q) - 1) /\ Len(q) - 1 \in 0..(Len(q) - 1) /\ Len(q) - 1 + 1 = Len(q)
    BY <1>2
  <2>2. less[0] = total[0 + 1] - size /\ less[Len(q) - 1] = total[Len(q) - 1 + 1] - size
    BY <1>5, <2>1
  <2> QED BY <1>1, <1>2, <1>4, <2>1, <2>2
<1>8. \A i \in DOMAIN r : less[i] = less[i - 1] + r[i].size
  <2> SUFFICES ASSUME NEW i \in 1..(Len(q) - 1) PROVE less[i] = less[i - 1] + r[i].size
    BY <1>2
  <2>1. /\ i \in 0..(Len(q) - 1) /\ i - 1 \in 0..(Len(q) - 1) /\ i - 1 + 1 = i
        /\ i + 1 \in DOMAIN q /\ i + 1 - 1 = i /\ i \in 0..Len(q) /\ i + 1 \in 0..Len(q)
    BY <1>2
  <2>2. total[i + 1] = total[i] + q[i + 1].size
    <3>1. total[i + 1] = total[i + 1 - 1] + q[i + 1].size
      BY <1>1, <2>1
    <3> QED BY <2>1, <3>1
  <2>3. less[i] = total[i + 1] - size /\ less[i - 1] = total[i] - size
    BY <1>5, <2>1
  <2>4. q[i + 1].size \in Nat
    <3>1. q[i + 1] \in Frame
      BY <2>1
    <3> QED BY <3>1, SizesAssumption DEF Frame
  <2>5. total[i] \in Nat /\ total[i + 1] \in Nat /\ r[i] = q[i + 1]
    BY <1>1, <1>2, <2>1
  <2> QED BY <1>4, <2>2, <2>3, <2>4, <2>5
<1>9. \A i, j \in 0..Len(r) : i <= j => less[i] <= less[j]
  <2> SUFFICES ASSUME NEW i \in 0..(Len(q) - 1), NEW j \in 0..(Len(q) - 1), i <= j
               PROVE  less[i] <= less[j]
    BY <1>2
  <2>1. i + 1 \in 0..Len(q) /\ j + 1 \in 0..Len(q) /\ i + 1 <= j + 1
    BY <1>2
  <2>2. total[i + 1] <= total[j + 1]
    BY <1>1, <2>1
  <2>3. total[i + 1] \in Nat /\ total[j + 1] \in Nat
    BY <1>1, <2>1
  <2>4. less[i] = total[i + 1] - size /\ less[j] = total[j + 1] - size
    BY <1>5
  <2> QED BY <1>4, <2>2, <2>3, <2>4
<1>10. Totals(r, bytes - size)
  BY <1>6, <1>7, <1>8, <1>9 DEF Totals
<1> QED BY <1>4, <1>10 DEF r, size

LEMMA BytesInitially == Init => BytesInv
<1> SUFFICES ASSUME Init PROVE BytesInv
  OBVIOUS
<1>1. queue = <<>> /\ queuedBytes = 0 /\ QueueLimit \in Nat
  BY LimitsAssumption DEF Init
<1>2. Totals(queue, queuedBytes)
  BY <1>1, EmptyTotals
<1> QED BY <1>1, <1>2 DEF BytesInv, Totals

LEMMA BytesInvariant == Spec => []BytesInv
<1>1. IInv /\ BytesInv /\ [Next]_vars => BytesInv'
  <2> SUFFICES ASSUME IInv, BytesInv, [Next]_vars PROVE BytesInv'
    OBVIOUS
  <2>1. /\ queue \in Seq(Frame) /\ Totals(queue, queuedBytes)
        /\ queuedBytes \in Nat /\ queuedBytes <= QueueLimit /\ QueueLimit \in Nat
    BY LimitsAssumption DEF IInv, KeptInv, BytesInv, Totals
  <2> SUFFICES Totals(queue', queuedBytes') /\ queuedBytes' \in Nat /\ queuedBytes' <= QueueLimit
    BY DEF BytesInv, Totals
  <2>2. CASE UNCHANGED <<queue, queuedBytes>>
    BY <2>1, <2>2
  <2>3. CASE queue' = <<>> /\ queuedBytes' = 0
    BY <2>1, <2>3, EmptyTotals
  <2>4. CASE \E size \in Sizes : Receive(size)
    <3>1. PICK size \in Sizes : Receive(size)
      BY <2>4
    <3> DEFINE f == [n |-> arrived + 1, size |-> size]
    <3>2. queue' = Append(queue, f) /\ queuedBytes' = queuedBytes + f.size
          /\ queuedBytes + size <= QueueLimit
      BY <3>1 DEF Receive
    <3>3. f \in Frame /\ f.size = size /\ size \in Nat
      BY SizesAssumption DEF Frame, IInv, KeptInv
    <3> HIDE DEF f
    <3> QED BY <2>1, <3>2, <3>3, AppendTotals
  <2>5. CASE WriterTake
    <3>1. queue # <<>> /\ queue' = Tail(queue) /\ queuedBytes' = queuedBytes - Head(queue).size
      BY <2>5 DEF WriterTake
    <3>2. /\ Totals(Tail(queue), queuedBytes - Head(queue).size)
          /\ queuedBytes - Head(queue).size \in Nat
          /\ queuedBytes - Head(queue).size <= queuedBytes
      BY <2>1, <3>1, TailTotals
    <3> QED BY <2>1, <3>1, <3>2
  <2> QED BY <2>2, <2>3, <2>4, <2>5
          DEF Next, vars, WriterStep, Tick, StartRecord, CountDrop, StopRecord, FinishStop,
              ReceiveFull, RemoveSession, WriterLeave, WriteFrame, WriteFails, WriterCountDrop,
              Crash, queueVars
<1> QED BY RecorderInvariant, BytesInitially, <1>1, PTL DEF Spec

FlagsInv == recording \in BOOLEAN /\ writerStop \in BOOLEAN

LEMMA FlagsInvariant == Spec => []FlagsInv
<1>1. Init => FlagsInv
  BY DEF Init, FlagsInv
<1>2. FlagsInv /\ [Next]_vars => FlagsInv'
  BY DEF FlagsInv, Next, vars, WriterStep, Tick, StartRecord, CountDrop, StopRecord, FinishStop,
         Receive, ReceiveFull, RemoveSession, WriterTake, WriterLeave, WriteFrame, WriteFails,
         WriterCountDrop, Crash
<1> QED BY <1>1, <1>2, PTL DEF Spec

(* The queue never holds more bytes than it may, counted frame by frame,   *)
(* and the writer at most one frame more; the rest is types.               *)
THEOREM QueueStaysInBounds == Spec => []TypeOK
<1>1. ASSUME IInv, DiskInv, OrderInv, BytesInv, FlagsInv PROVE TypeOK
  <2>1. QueuedBytesExact
    <3>1. PICK total \in [0..Len(queue) -> Nat] :
              /\ total[0] = 0
              /\ \A i \in DOMAIN queue : total[i] = total[i - 1] + queue[i].size
              /\ \A i, j \in 0..Len(queue) : i <= j => total[i] <= total[j]
              /\ total[Len(queue)] = queuedBytes
      BY <1>1 DEF BytesInv
    <3>2. Len(queue) \in Nat
      BY <1>1 DEF IInv, KeptInv
    <3>3. total \in [0..Len(queue) -> 0..queuedBytes]
      <4>1. \A i \in 0..Len(queue) : total[i] \in 0..queuedBytes
        <5> SUFFICES ASSUME NEW i \in 0..Len(queue) PROVE total[i] \in 0..queuedBytes
          OBVIOUS
        <5>1. Len(queue) \in 0..Len(queue) /\ i <= Len(queue)
          BY <3>2
        <5>2. total[i] <= total[Len(queue)]
          BY <3>1, <5>1
        <5> QED BY <3>1, <5>1, <5>2
      <4> QED BY <4>1
    <3> QED BY <3>1, <3>3 DEF QueuedBytesExact
  <2>2. \A s \in Ids : \A i \in DOMAIN files[s] : files[s][i] \in Seq(Nat)
    <3> SUFFICES ASSUME NEW s \in Ids, NEW i \in DOMAIN files[s] PROVE files[s][i] \in Seq(Nat)
      OBVIOUS
    <3>1. files[s] \in Directories
      BY <1>1 DEF DiskInv, DiskTyped
    <3> QED BY <3>1 DEF Directories
  <2>3. queuedBytes \in 0..QueueLimit /\ base \in 0..arrived
    BY <1>1, LimitsAssumption DEF BytesInv, OrderInv, IInv, KeptInv
  <2>4. chunk \in [index : Nat, bytes : Nat, open : BOOLEAN] /\ session \in SessionData
        /\ meta \in [Ids -> SessionData] /\ reused \subseteq Ids /\ spoilt \subseteq Ids
    BY <1>1 DEF DiskInv, DiskTyped, IsChunk
  <2> QED BY <1>1, <2>1, <2>2, <2>3, <2>4 DEF TypeOK, IInv, ControlInv, KeptInv, FlagsInv
<1> QED BY RecorderInvariant, DiskAndOrder, BytesInvariant, FlagsInvariant,
           <1>1, PTL
=============================================================================
