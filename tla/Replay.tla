-------------------------------- MODULE Replay --------------------------------
(***************************************************************************)
(* Replaying a recorded session: the main thread starts, stops and seeks,  *)
(* the replay thread walks through the recorded frames and publishes them, *)
(* and a live receiver (net or serial) keeps quiet meanwhile.  The threads *)
(* share replaying_, replayStop_ and replaySeekRequestUs_; what the replay *)
(* thread has to say arrives later, as a posted event or a bus message.    *)
(*                                                                         *)
(* A frame is its time stamp.  A session's log is what readBinaryFrame     *)
(* yields of its chunks, one after the other, each up to a torn frame.     *)
(***************************************************************************)
EXTENDS Integers, Sequences, SequencesExt, FiniteSets

CONSTANTS Times,        \* time stamps a user may ask for
          Sessions,     \* what loadSession may return
          MaxReplays,   \* starts of a replay, a bound for TLC
          MaxSeeks      \* seeks that reach a replay, a bound for TLC

Session == [log : Seq(Nat), start : Nat, end : Nat]

ASSUME TimesAssumption == Times \subseteq Nat
ASSUME SessionsAssumption == Sessions \subseteq Session
ASSUME BoundsAssumption == MaxReplays \in Nat /\ MaxSeeks \in Nat

VARIABLES
    ui,           \* main thread: "idle", or joining the replay thread to "stop" or "start"
    replaying,    \* replaying_
    recording,    \* recording_
    request,      \* what startReplay is starting: session, window, range to show
    thread,       \* replay thread: see ThreadStates
    log,          \* the frames it replays
    window,       \* useRange, effective and display bounds
    pos,          \* the frame it reads next
    cursor,       \* replayCursorUs
    previous,     \* previousUs, 0 if firstFrame
    stop,         \* replayStop_
    seek,         \* replaySeekRequestUs_
    posted,       \* end-of-replay lambdas in the main thread's event queue
    bus,          \* "started" and "stopped" messages on their way to the receiver
    active,       \* the receiver's replayActive_
    up,           \* its runtimeStarted_
    bindFailed,   \* whether its last attempt to come up failed
    published,    \* frames published since the replay began or last sought
    wanted,       \* where the user last asked this replay to be
    replays,      \* bounds
    seeks

threadVars == <<thread, pos, cursor, previous, published>>
receiverVars == <<active, up, bindFailed>>
replayArgs == <<log, window>>
bounds == <<replays, seeks>>

vars == <<ui, replaying, recording, request, threadVars, replayArgs, stop, seek,
          posted, bus, receiverVars, wanted, bounds>>

ThreadStates == {"none", "begin", "scan", "wait", "tail", "done", "broken", "post", "exited"}

\* Still in its loop, looking out for seeks.
InLoop == thread \in {"begin", "scan", "wait", "tail"}

Clamp(t) ==
    LET atMost == IF t < window.hi THEN t ELSE window.hi
    IN  IF atMost < window.lo THEN window.lo ELSE atMost

NoSession == [log |-> <<>>, start |-> 0, end |-> 0]
NoWindow == [useRange |-> FALSE, lo |-> 0, hi |-> 0, from |-> 0, to |-> 0]

Init ==
    /\ ui = "idle"
    /\ replaying = FALSE
    /\ recording = FALSE
    /\ request = [session |-> NoSession, window |-> NoWindow]
    /\ thread = "none"
    /\ log = <<>>
    /\ window = NoWindow
    /\ pos = 1
    /\ cursor = 0
    /\ previous = 0
    /\ stop = FALSE
    /\ seek = -1
    /\ posted = 0
    /\ bus = <<>>
    /\ active = FALSE
    /\ up \in BOOLEAN
    /\ bindFailed = ~up
    /\ published = <<>>
    /\ wanted = 0
    /\ replays = 0
    /\ seeks = 0

-----------------------------------------------------------------------------
(* The main thread.                                                        *)

(* The windows startReplay accepts for a session: all of it, or the part   *)
(* of a range from..to that lies in it.                                    *)
Windows(s) ==
    {[useRange |-> FALSE, lo |-> s.start, hi |-> s.end, from |-> s.start, to |-> s.end]}
    \cup
    {w \in {[useRange |-> TRUE,
             lo |-> IF from < s.start THEN s.start ELSE from,
             hi |-> IF to > s.end THEN s.end ELSE to,
             from |-> from, to |-> to] : from \in Times, to \in Times} :
        w.from <= w.to /\ w.from <= s.end /\ s.start <= w.to /\ w.lo <= w.hi}

StartReplay ==
    /\ ui = "idle"
    /\ ~recording /\ ~replaying
    /\ replays < MaxReplays
    /\ \E s \in Sessions : \E w \in Windows(s) : request' = [session |-> s, window |-> w]
    /\ stop' = TRUE
    /\ ui' = "start"
    /\ replays' = replays + 1
    /\ UNCHANGED <<replaying, recording, threadVars, replayArgs, seek, posted, bus,
                   receiverVars, wanted, seeks>>

(* startReplayThread, once the thread of an earlier replay is joined.      *)
LaunchReplay ==
    /\ ui = "start"
    /\ thread \in {"none", "exited"}
    /\ ui' = "idle"
    /\ stop' = FALSE
    /\ seek' = -1
    /\ replaying' = TRUE
    /\ log' = request.session.log
    /\ window' = request.window
    /\ thread' = "begin"
    /\ pos' = 1
    /\ cursor' = request.window.lo
    /\ previous' = 0
    /\ published' = <<>>
    /\ wanted' = request.window.lo
    /\ UNCHANGED <<recording, request, posted, bus, receiverVars, bounds>>

StopReplay ==
    /\ ui = "idle"
    /\ replaying \/ thread # "none"
    /\ stop' = TRUE
    /\ ui' = "stop"
    /\ UNCHANGED <<replaying, recording, request, threadVars, replayArgs, seek, posted,
                   bus, receiverVars, wanted, bounds>>

FinishStopReplay ==
    /\ ui = "stop"
    /\ thread \in {"none", "exited"}
    /\ ui' = "idle"
    /\ stop' = FALSE
    /\ seek' = -1
    /\ replaying' = FALSE
    /\ thread' = "none"
    /\ UNCHANGED <<recording, request, pos, cursor, previous, published, replayArgs,
                   posted, bus, receiverVars, wanted, bounds>>

(* seekReplayByProgress during a replay; its progress is a point between   *)
(* the display bounds.  Without a replay a seek is only shown.             *)
Seek(t) ==
    /\ ui = "idle"
    /\ replaying
    /\ seeks < MaxSeeks
    /\ window.from <= t /\ (t <= window.to \/ t = window.from)
    /\ seek' = t
    /\ wanted' = IF InLoop THEN Clamp(t) ELSE wanted
    /\ seeks' = seeks + 1
    /\ UNCHANGED <<ui, replaying, recording, request, threadVars, replayArgs, stop,
                   posted, bus, receiverVars, replays>>

StartRecord ==
    /\ ui = "idle"
    /\ ~recording /\ ~replaying
    /\ recording' = TRUE
    /\ UNCHANGED <<ui, replaying, request, threadVars, replayArgs, stop, seek, posted,
                   bus, receiverVars, wanted, bounds>>

StopRecord ==
    /\ ui = "idle"
    /\ recording
    /\ recording' = FALSE
    /\ UNCHANGED <<ui, replaying, request, threadVars, replayArgs, stop, seek, posted,
                   bus, receiverVars, wanted, bounds>>

(* The lambda a replay thread posted when it ended.  It clears the flag of *)
(* whatever replay is on by then.  User input and posted events come from  *)
(* different queues: a stop and a start may be handled before it.          *)
RunPosted ==
    /\ ui = "idle"
    /\ posted > 0
    /\ posted' = posted - 1
    /\ replaying' = FALSE
    /\ UNCHANGED <<ui, recording, request, threadVars, replayArgs, stop, seek, bus,
                   receiverVars, wanted, bounds>>

\* Mutant: the end of a replay is noted, the receiver is not started.
DeliverForgetsStart ==
    /\ ui = "idle"
    /\ bus # <<>>
    /\ bus' = Tail(bus)
    /\ active' = (Head(bus) = "started")
    /\ IF active' = active \/ ~active' THEN UNCHANGED <<up, bindFailed>>
       ELSE up' = FALSE /\ UNCHANGED bindFailed
    /\ UNCHANGED <<ui, replaying, recording, request, threadVars, replayArgs, stop,
                   seek, posted, wanted, bounds>>

(* The receiver's handleReplayStateChanged.  It may fail to come up again. *)
DeliverStatus ==
    /\ ui = "idle"
    /\ bus # <<>>
    /\ bus' = Tail(bus)
    /\ active' = (Head(bus) = "started")
    /\ IF active' = active THEN UNCHANGED <<up, bindFailed>>
       ELSE IF active' THEN up' = FALSE /\ UNCHANGED bindFailed
       ELSE \E ok \in BOOLEAN : up' = ok /\ bindFailed' = ~ok
    /\ UNCHANGED <<ui, replaying, recording, request, threadVars, replayArgs, stop,
                   seek, posted, wanted, bounds>>

-----------------------------------------------------------------------------
(* The replay thread.                                                      *)

mainVars == <<ui, replaying, recording, request, replayArgs, receiverVars, wanted, bounds>>

Begin ==
    /\ thread = "begin"
    /\ bus' = Append(bus, "started")
    /\ thread' = "scan"
    /\ UNCHANGED <<mainVars, pos, cursor, previous, published, stop, seek, posted>>

\* replayStop_ ends the loop wherever the thread looks at it.
BreakOff ==
    /\ thread \in {"scan", "wait", "tail"}
    /\ stop
    /\ thread' = "broken"
    /\ UNCHANGED <<mainVars, pos, cursor, previous, published, stop, seek, posted, bus>>

\* Mutant: the scan goes on from where it is.
TakeSeekGoingOn ==
    /\ thread \in {"scan", "tail"}
    /\ ~stop /\ seek >= 0
    /\ seek' = -1
    /\ cursor' = Clamp(seek)
    /\ previous' = 0
    /\ published' = <<>>
    /\ thread' = "scan"
    /\ UNCHANGED <<mainVars, pos, stop, posted, bus>>

\* applySeek, and the scan starts over from the first chunk.
TakeSeek ==
    /\ thread \in {"scan", "tail"}
    /\ ~stop /\ seek >= 0
    /\ seek' = -1
    /\ cursor' = Clamp(seek)
    /\ previous' = 0
    /\ pos' = 1
    /\ published' = <<>>
    /\ thread' = "scan"
    /\ UNCHANGED <<mainVars, stop, posted, bus>>

Accepts(ts) ==
    /\ window.useRange => window.lo <= ts /\ ts <= window.hi
    /\ ts >= cursor

ReadFrame ==
    /\ thread = "scan"
    /\ ~stop /\ seek = -1
    /\ pos <= Len(log)
    /\ IF Accepts(log[pos])
       THEN thread' = "wait" /\ UNCHANGED pos
       ELSE pos' = pos + 1 /\ UNCHANGED thread
    /\ UNCHANGED <<mainVars, cursor, previous, published, stop, seek, posted, bus>>

\* A seek came while the thread slept: the frame is not published.
WaitCutShort ==
    /\ thread = "wait"
    /\ ~stop /\ seek >= 0
    /\ thread' = "scan"
    /\ pos' = pos + 1
    /\ UNCHANGED <<mainVars, cursor, previous, published, stop, seek, posted, bus>>

\* Mutant: the cursor stays on the frame.
PublishSameMoment ==
    /\ thread = "wait"
    /\ ~stop /\ seek = -1
    /\ previous' = log[pos]
    /\ cursor' = log[pos]
    /\ published' = Append(published, log[pos])
    /\ pos' = pos + 1
    /\ thread' = "scan"
    /\ UNCHANGED <<mainVars, stop, seek, posted, bus>>

(* The time to the frame is over (a wait ends by itself if it is not cut   *)
(* short, and a notification that is missed only makes it last that long). *)
PublishFrame ==
    /\ thread = "wait"
    /\ ~stop /\ seek = -1
    /\ previous' = log[pos]
    /\ cursor' = log[pos] + 1
    /\ published' = Append(published, log[pos])
    /\ pos' = pos + 1
    /\ thread' = "scan"
    /\ UNCHANGED <<mainVars, stop, seek, posted, bus>>

(* All is read.  A range is waited out to its end, if frames came before.  *)
EndScan ==
    /\ thread = "scan"
    /\ ~stop /\ seek = -1
    /\ pos > Len(log)
    /\ thread' = IF window.useRange /\ published # <<>> /\ previous < window.to
                 THEN "tail" ELSE "done"
    /\ UNCHANGED <<mainVars, pos, cursor, previous, published, stop, seek, posted, bus>>

EndTail ==
    /\ thread = "tail"
    /\ ~stop /\ seek = -1
    /\ thread' = "done"
    /\ UNCHANGED <<mainVars, pos, cursor, previous, published, stop, seek, posted, bus>>

\* Mutant: a replay that is broken off ends without a message.
SayOnlyWhenDone ==
    /\ thread \in {"done", "broken"}
    /\ bus' = IF thread = "done" THEN Append(bus, "stopped") ELSE bus
    /\ thread' = "post"
    /\ UNCHANGED <<mainVars, pos, cursor, previous, published, stop, seek, posted>>

SayStopped ==
    /\ thread \in {"done", "broken"}
    /\ bus' = Append(bus, "stopped")
    /\ thread' = "post"
    /\ UNCHANGED <<mainVars, pos, cursor, previous, published, stop, seek, posted>>

\* Mutants: nothing posted if nothing was published; posted with a wait for
\* the main thread (BlockingQueuedConnection).
PostIfPublished ==
    /\ thread = "post"
    /\ posted' = IF published = <<>> THEN posted ELSE posted + 1
    /\ thread' = "exited"
    /\ UNCHANGED <<mainVars, pos, cursor, previous, published, stop, seek, bus>>

PostAndWait ==
    /\ thread = "post"
    /\ ui = "idle"
    /\ posted' = posted + 1
    /\ thread' = "exited"
    /\ UNCHANGED <<mainVars, pos, cursor, previous, published, stop, seek, bus>>

PostEnd ==
    /\ thread = "post"
    /\ posted' = posted + 1
    /\ thread' = "exited"
    /\ UNCHANGED <<mainVars, pos, cursor, previous, published, stop, seek, bus>>

ThreadStep ==
    \/ Begin \/ BreakOff \/ TakeSeek \/ ReadFrame \/ WaitCutShort \/ PublishFrame
    \/ EndScan \/ EndTail \/ SayStopped \/ PostEnd

MainStep ==
    \/ StartReplay \/ LaunchReplay \/ StopReplay \/ FinishStopReplay
    \/ \E t \in Times \cup {0} : Seek(t)
    \/ StartRecord \/ StopRecord \/ RunPosted \/ DeliverStatus

Next == MainStep \/ ThreadStep

Spec == Init /\ [][Next]_vars

(* The replay thread is scheduled and its sleeps end; the main thread goes *)
(* on once it has joined, and handles its bus messages.                    *)
FairSpec ==
    Spec /\ WF_vars(ThreadStep) /\ WF_vars(LaunchReplay) /\ WF_vars(FinishStopReplay)
         /\ WF_vars(DeliverStatus)

-----------------------------------------------------------------------------
Window == [useRange : BOOLEAN, lo : Nat, hi : Nat, from : Nat, to : Nat]

TypeOK ==
    /\ ui \in {"idle", "start", "stop"}
    /\ replaying \in BOOLEAN
    /\ recording \in BOOLEAN
    /\ request \in [session : Session, window : Window]
    /\ thread \in ThreadStates
    /\ log \in Seq(Nat)
    /\ window \in Window
    /\ pos \in 1..(Len(log) + 1)
    /\ thread = "wait" => pos <= Len(log)
    /\ cursor \in Nat
    /\ previous \in Nat
    /\ stop \in BOOLEAN
    /\ seek \in Nat \cup {-1}
    /\ posted \in Nat
    /\ bus \in Seq({"started", "stopped"})
    /\ active \in BOOLEAN /\ up \in BOOLEAN /\ bindFailed \in BOOLEAN
    /\ published \in Seq(Nat)
    /\ wanted \in Nat
    /\ replays \in 0..MaxReplays
    /\ seeks \in 0..MaxSeeks

(* What a replay publishes moves forward in time, however the frames were  *)
(* recorded, and never leaves the range the user chose.                    *)
ReplayedInOrder ==
    \A i \in DOMAIN published :
        /\ window.lo <= published[i]
        /\ window.useRange => published[i] <= window.hi
        /\ \A j \in 1..(i - 1) : published[j] < published[i]

(* The frames of the log that replay owes from a point on: those that are  *)
(* later than every frame of the range before them.                        *)
Counts(from, i) ==
    /\ from <= log[i]
    /\ window.useRange => window.lo <= log[i] /\ log[i] <= window.hi

Due(from) ==
    {i \in DOMAIN log :
        Counts(from, i) /\ \A j \in 1..(i - 1) : Counts(from, j) => log[j] < log[i]}

(* A replay that ends by itself has published all it owes from where the   *)
(* user last wanted it to be, and in its order: no seek is lost that came  *)
(* while it was still in its loop, and none of the frames after it.        *)
PassComplete ==
    thread = "done" =>
        /\ ToSet(published) = {log[i] : i \in Due(wanted)}
        /\ \A i, j \in DOMAIN published : i < j => published[i] < published[j]

(* The last of the status messages says whether a replay is on, so that a  *)
(* receiver that has handled them all is not left silent or talking.       *)
StatusTellsTruth ==
    LET said == IF bus = <<>> THEN active ELSE Last(bus) = "started"
    IN  said <=> thread \in {"scan", "wait", "tail", "done", "broken"}

(* replaying_ does not stay set behind a replay that is over: the thread   *)
(* is still there, or its last word is in the event queue.                 *)
NoStuckReplay ==
    replaying /\ ui = "idle" => thread \notin {"none", "exited"} \/ posted > 0

(* stopReplay and startReplay come back from joining the replay thread.    *)
JoinReturns == ui # "idle" ~> ui = "idle"

(* When replaying is over for good the receiver is back, unless it could   *)
(* not bind.                                                               *)
ReceiverComesBack ==
    <>[](thread \in {"none", "exited"}) => <>[](~active /\ (up \/ bindFailed))

(* startRecord refuses with "currently recording or replaying"; so nothing *)
(* is recorded while a replay is under way.                                *)
RecordingExcludesReplay == recording => ~InLoop
=============================================================================
