----------------------------- MODULE ReplayProofs -----------------------------
(***************************************************************************)
(* For every set of sessions, windows and seeks: what a replay publishes   *)
(* moves forward within its range, and by its end it is all the replay     *)
(* owes; the status messages tell the truth; replaying_ does not stay set  *)
(* behind a replay that is over.  Of the sessions themselves: a clip holds *)
(* the frames of its range, whatever the recordings and the failures.      *)
(***************************************************************************)
EXTENDS Replay, SessionLibrary, FiniteSetTheorems, TLAPS

USE TimesAssumption, SessionsAssumption, BoundsAssumption

(* What is published lies behind the cursor, the cursor is not before the  *)
(* window, and a frame that is waited for has been accepted.               *)
CursorInv ==
    /\ window.lo <= cursor
    /\ thread = "wait" => Accepts(log[pos])
    /\ \A i \in DOMAIN published : published[i] < cursor

IInv == TypeOK /\ CursorInv /\ ReplayedInOrder

-----------------------------------------------------------------------------
(* Types.                                                                  *)

LEMMA WindowsAreWindows ==
  ASSUME NEW s \in Session
  PROVE  Windows(s) \subseteq Window
<1>1. s.start \in Nat /\ s.end \in Nat
  BY DEF Session
<1>2. ASSUME NEW w \in Windows(s) PROVE w \in Window
  <2>1. CASE w = [useRange |-> FALSE, lo |-> s.start, hi |-> s.end,
                  from |-> s.start, to |-> s.end]
    BY <1>1, <2>1 DEF Window
  <2>2. ASSUME NEW from \in Times, NEW to \in Times,
               w = [useRange |-> TRUE,
                    lo |-> IF from < s.start THEN s.start ELSE from,
                    hi |-> IF to > s.end THEN s.end ELSE to,
                    from |-> from, to |-> to]
        PROVE  w \in Window
    <3>1. from \in Nat /\ to \in Nat
      OBVIOUS
    <3> QED
      BY <1>1, <2>2, <3>1 DEF Window
  <2> QED
    BY <1>2, <2>1, <2>2 DEF Windows
<1> QED
  BY <1>2

LEMMA ClampInWindow ==
  ASSUME window \in Window, NEW t \in Nat
  PROVE  Clamp(t) \in Nat /\ window.lo <= Clamp(t)
BY DEF Clamp, Window

LEMMA InitTypeOK == Init => TypeOK
<1> SUFFICES ASSUME Init PROVE TypeOK
  OBVIOUS
<1>1. request \in [session : Session, window : Window] /\ window \in Window
  BY DEF Init, NoSession, NoWindow, Session, Window
<1>2. log \in Seq(Nat) /\ pos \in 1..(Len(log) + 1)
  BY DEF Init
<1>3. up \in BOOLEAN /\ bindFailed \in BOOLEAN
  BY Zenon DEF Init
<1>4. bus \in Seq({"started", "stopped"}) /\ published \in Seq(Nat)
  BY DEF Init
<1>5. replays \in 0..MaxReplays /\ seeks \in 0..MaxSeeks
  BY DEF Init
<1>6. /\ ui = "idle" /\ replaying = FALSE /\ recording = FALSE /\ thread = "none"
      /\ cursor = 0 /\ previous = 0 /\ stop = FALSE /\ seek = -1 /\ posted = 0
      /\ active = FALSE /\ wanted = 0
  BY DEF Init
<1> QED
  BY <1>1, <1>2, <1>3, <1>4, <1>5, <1>6 DEF TypeOK, ThreadStates

LEMMA MainTypeOK == TypeOK /\ MainStep => TypeOK'
<1> SUFFICES ASSUME TypeOK, MainStep PROVE TypeOK'
  OBVIOUS
<1> USE DEF TypeOK, ThreadStates, threadVars, receiverVars, replayArgs, bounds
<1>1. CASE StartReplay
  <2>1. PICK s \in Sessions : \E w \in Windows(s) : request' = [session |-> s, window |-> w]
    BY <1>1 DEF StartReplay
  <2>2. PICK w \in Windows(s) : request' = [session |-> s, window |-> w]
    BY <2>1
  <2>3. s \in Session /\ w \in Window
    BY WindowsAreWindows
  <2>4. request' \in [session : Session, window : Window]
    BY <2>2, <2>3
  <2> QED
    BY <1>1, <2>4 DEF StartReplay
<1>2. CASE LaunchReplay
  <2>1. /\ request.session.log \in Seq(Nat) /\ request.window \in Window
        /\ request.window.lo \in Nat
    BY DEF Session, Window
  <2>2. pos' \in 1..(Len(log') + 1)
    BY <1>2, <2>1 DEF LaunchReplay
  <2>3. /\ ui' = "idle" /\ stop' = FALSE /\ seek' = -1 /\ replaying' = TRUE
        /\ thread' = "begin" /\ previous' = 0 /\ published' = <<>>
        /\ log' = request.session.log /\ window' = request.window
        /\ cursor' = request.window.lo /\ wanted' = request.window.lo
    BY <1>2 DEF LaunchReplay
  <2>4. UNCHANGED <<recording, request, posted, bus, active, up, bindFailed, replays, seeks>>
    BY <1>2 DEF LaunchReplay
  <2>5. log' \in Seq(Nat) /\ window' \in Window /\ cursor' \in Nat /\ wanted' \in Nat
    BY <2>1, <2>3
  <2>6. /\ recording' \in BOOLEAN /\ request' \in [session : Session, window : Window]
        /\ posted' \in Nat /\ bus' \in Seq({"started", "stopped"})
        /\ replays' \in 0..MaxReplays /\ seeks' \in 0..MaxSeeks
    BY <2>4
  <2>7. active' \in BOOLEAN /\ up' \in BOOLEAN /\ bindFailed' \in BOOLEAN
    BY <2>4, Zenon
  <2>8. published' \in Seq(Nat)
    BY <2>3
  <2> QED
    BY <2>2, <2>3, <2>5, <2>6, <2>7, <2>8, Zenon
<1>3. CASE StopReplay
  BY <1>3 DEF StopReplay
<1>4. CASE FinishStopReplay
  BY <1>4 DEF FinishStopReplay
<1>5. ASSUME NEW t \in Times \cup {0}, Seek(t) PROVE TypeOK'
  <2>1. t \in Nat
    OBVIOUS
  <2>2. Clamp(t) \in Nat
    BY <2>1, ClampInWindow
  <2> QED
    BY <1>5, <2>1, <2>2 DEF Seek
<1>6. CASE StartRecord
  <2>1. recording' \in BOOLEAN
    BY <1>6 DEF StartRecord
  <2> QED
    BY <1>6, <2>1, SMTT(20) DEF StartRecord
<1>7. CASE StopRecord
  <2>1. recording' \in BOOLEAN
    BY <1>7 DEF StopRecord
  <2> QED
    BY <1>7, <2>1, SMTT(20) DEF StopRecord
<1>8. CASE RunPosted
  <2>1. posted' \in Nat
    BY <1>8 DEF RunPosted
  <2>2. replaying' \in BOOLEAN
    BY <1>8 DEF RunPosted
  <2> QED
    BY <1>8, <2>1, <2>2, SMTT(20) DEF RunPosted
<1>9. CASE DeliverStatus
  <2>1. Tail(bus) \in Seq({"started", "stopped"}) /\ active' \in BOOLEAN
    BY <1>9 DEF DeliverStatus
  <2>2. up' \in BOOLEAN /\ bindFailed' \in BOOLEAN
    BY <1>9, Zenon DEF DeliverStatus
  <2> QED
    BY <1>9, <2>1, <2>2 DEF DeliverStatus
<1> QED
  BY <1>1, <1>2, <1>3, <1>4, <1>5, <1>6, <1>7, <1>8, <1>9 DEF MainStep

LEMMA ThreadTypeOK == TypeOK /\ ThreadStep => TypeOK'
<1> SUFFICES ASSUME TypeOK, ThreadStep PROVE TypeOK'
  OBVIOUS
<1> USE DEF TypeOK, ThreadStates, mainVars, receiverVars, replayArgs, bounds
<1>1. CASE Begin
  BY <1>1 DEF Begin
<1>2. CASE BreakOff
  BY <1>2 DEF BreakOff
<1>3. CASE TakeSeek
  <2>1. Clamp(seek) \in Nat
    BY <1>3, ClampInWindow DEF TakeSeek
  <2> QED
    BY <1>3, <2>1 DEF TakeSeek
<1>4. CASE ReadFrame
  BY <1>4 DEF ReadFrame
<1>5. CASE WaitCutShort
  BY <1>5 DEF WaitCutShort
<1>6. CASE PublishFrame
  <2>1. log[pos] \in Nat /\ log[pos] + 1 \in Nat /\ pos + 1 \in 1..(Len(log) + 1)
    <3>1. log \in Seq(Nat) /\ pos \in 1..(Len(log) + 1) /\ pos <= Len(log)
      BY <1>6 DEF PublishFrame
    <3> QED
      BY <3>1
  <2>2. Append(published, log[pos]) \in Seq(Nat)
    BY <2>1
  <2> QED
    BY <1>6, <2>1, <2>2, Zenon DEF PublishFrame
<1>7. CASE EndScan
  BY <1>7 DEF EndScan
<1>8. CASE EndTail
  BY <1>8 DEF EndTail
<1>9. CASE SayStopped
  BY <1>9 DEF SayStopped
<1>10. CASE PostEnd
  BY <1>10 DEF PostEnd
<1> QED
  BY <1>1, <1>2, <1>3, <1>4, <1>5, <1>6, <1>7, <1>8, <1>9, <1>10 DEF ThreadStep

(* Replay keeps its types: the place in the log never runs past its end,   *)
(* wherever stops and seeks hit the replay thread.                         *)
THEOREM ReplayTypeCorrect == Spec => []TypeOK
<1>1. TypeOK /\ UNCHANGED vars => TypeOK'
  BY DEF TypeOK, vars, threadVars, receiverVars, replayArgs, bounds
<1>2. TypeOK /\ [Next]_vars => TypeOK'
  BY <1>1, MainTypeOK, ThreadTypeOK DEF Next
<1> QED
  BY <1>2, InitTypeOK, PTL DEF Spec

-----------------------------------------------------------------------------
(* Order.                                                                  *)

\* The variables ReplayedInOrder and CursorInv speak of.
orderVars == <<thread, log, window, pos, cursor, published>>

LEMMA OrderUntouched ==
  ASSUME CursorInv, ReplayedInOrder, UNCHANGED <<log, window, pos, cursor, published>>,
         thread' = "wait" => thread = "wait"
  PROVE  CursorInv' /\ ReplayedInOrder'
BY DEF CursorInv, ReplayedInOrder, Accepts

LEMMA MainKeepsOrder ==
  ASSUME TypeOK, CursorInv, ReplayedInOrder, MainStep
  PROVE  CursorInv' /\ ReplayedInOrder'
<1> USE DEF threadVars, replayArgs
<1>1. CASE LaunchReplay
  <2>1. /\ cursor' = window'.lo /\ thread' = "begin" /\ published' = <<>>
        /\ window'.lo \in Nat
    BY <1>1 DEF LaunchReplay, TypeOK, Window
  <2> QED
    BY <2>1 DEF CursorInv, ReplayedInOrder
<1>2. CASE FinishStopReplay
  BY <1>2, OrderUntouched DEF FinishStopReplay
<1>3. CASE ~LaunchReplay /\ ~FinishStopReplay
  <2>1. UNCHANGED orderVars
    BY <1>3 DEF MainStep, StartReplay, StopReplay, Seek, StartRecord, StopRecord,
                RunPosted, DeliverStatus, orderVars
  <2> QED
    BY <2>1, OrderUntouched DEF orderVars
<1> QED
  BY <1>1, <1>2, <1>3

LEMMA ThreadKeepsOrder ==
  ASSUME TypeOK, CursorInv, ReplayedInOrder, ThreadStep
  PROVE  CursorInv' /\ ReplayedInOrder'
<1> USE DEF mainVars, replayArgs
<1>1. CASE Begin
  BY <1>1, OrderUntouched DEF Begin
<1>2. CASE BreakOff
  BY <1>2, OrderUntouched DEF BreakOff
<1>3. CASE TakeSeek
  <2>1. cursor' = Clamp(seek) /\ published' = <<>> /\ thread' = "scan" /\ window' = window
    BY <1>3 DEF TakeSeek
  <2>2. window \in Window /\ seek \in Nat
    BY <1>3 DEF TakeSeek, TypeOK
  <2>3. window.lo <= Clamp(seek)
    BY <2>2, ClampInWindow
  <2> QED
    BY <2>1, <2>3 DEF CursorInv, ReplayedInOrder
<1>4. CASE ReadFrame
  <2>1. UNCHANGED <<log, window, cursor, published>>
    BY <1>4 DEF ReadFrame
  <2>2. thread' = "wait" => pos' = pos /\ Accepts(log[pos])
    BY <1>4 DEF ReadFrame
  <2> QED
    BY <2>1, <2>2 DEF CursorInv, ReplayedInOrder, Accepts
<1>5. CASE WaitCutShort
  BY <1>5 DEF WaitCutShort, CursorInv, ReplayedInOrder
<1>6. CASE PublishFrame
  <2> DEFINE ts == log[pos]
  <2>1. /\ ts \in Nat /\ cursor \in Nat /\ window.lo \in Nat /\ window.hi \in Nat
        /\ published \in Seq(Nat)
    <3>1. log \in Seq(Nat) /\ pos \in 1..(Len(log) + 1) /\ pos <= Len(log)
      BY <1>6 DEF PublishFrame, TypeOK
    <3>2. window \in Window /\ cursor \in Nat /\ published \in Seq(Nat)
      BY DEF TypeOK
    <3>3. ts \in Nat
      BY <3>1
    <3>4. window.lo \in Nat /\ window.hi \in Nat
      BY <3>2 DEF Window
    <3> QED
      BY <3>2, <3>3, <3>4
  <2>2. /\ window.useRange => window.lo <= ts /\ ts <= window.hi
        /\ cursor <= ts /\ window.lo <= cursor
        /\ \A i \in DOMAIN published : published[i] < cursor
    BY <1>6, <2>1 DEF PublishFrame, CursorInv, Accepts
  <2>3. /\ cursor' = ts + 1 /\ published' = Append(published, ts)
        /\ thread' = "scan" /\ window' = window
    BY <1>6 DEF PublishFrame
  <2>4. /\ DOMAIN published' = 1..(Len(published) + 1)
        /\ published'[Len(published) + 1] = ts
        /\ \A i \in 1..Len(published) : published'[i] = published[i]
        /\ DOMAIN published = 1..Len(published) /\ Len(published) \in Nat
    BY <2>1, <2>3
  <2>5. CursorInv'
    <3>1. \A i \in DOMAIN published' : published'[i] < ts + 1
      <4> SUFFICES ASSUME NEW i \in DOMAIN published' PROVE published'[i] < ts + 1
        OBVIOUS
      <4>1. CASE i = Len(published) + 1
        BY <4>1, <2>1, <2>4
      <4>2. CASE i \in 1..Len(published)
        <5>1. published[i] \in Nat /\ published[i] < cursor /\ published'[i] = published[i]
          BY <4>2, <2>1, <2>2, <2>4
        <5> QED
          BY <5>1, <2>1, <2>2
      <4> QED
        BY <4>1, <4>2, <2>4
    <3> QED
      BY <3>1, <2>1, <2>2, <2>3 DEF CursorInv
  <2>6. ReplayedInOrder'
    <3> SUFFICES ASSUME NEW i \in DOMAIN published'
                 PROVE  /\ window.lo <= published'[i]
                        /\ window.useRange => published'[i] <= window.hi
                        /\ \A j \in 1..(i - 1) : published'[j] < published'[i]
      BY <2>3 DEF ReplayedInOrder
    <3>1. CASE i \in 1..Len(published)
      <4>1. \A j \in 1..(i - 1) : j \in 1..Len(published)
        BY <3>1, <2>4
      <4> QED
        BY <3>1, <4>1, <2>4 DEF ReplayedInOrder
    <3>2. CASE i = Len(published) + 1
      <4>1. published'[i] = ts /\ \A j \in 1..(i - 1) : j \in 1..Len(published)
        BY <3>2, <2>4
      <4>2. ASSUME NEW j \in 1..(i - 1) PROVE published'[j] \in Nat /\ published'[j] < cursor
        <5>1. published'[j] = published[j] /\ published[j] \in Nat
          BY <4>1, <2>1, <2>4
        <5> QED
          BY <5>1, <4>1, <2>2, <2>4
      <4> QED
        BY <4>1, <4>2, <2>1, <2>2
    <3> QED
      BY <3>1, <3>2, <2>4
  <2> QED
    BY <2>5, <2>6
<1>7. CASE EndScan
  BY <1>7, OrderUntouched DEF EndScan
<1>8. CASE EndTail
  BY <1>8, OrderUntouched DEF EndTail
<1>9. CASE SayStopped
  BY <1>9, OrderUntouched DEF SayStopped
<1>10. CASE PostEnd
  BY <1>10, OrderUntouched DEF PostEnd
<1> QED
  BY <1>1, <1>2, <1>3, <1>4, <1>5, <1>6, <1>7, <1>8, <1>9, <1>10 DEF ThreadStep

LEMMA InitKeepsOrder == Init => IInv
<1>1. Init => CursorInv /\ ReplayedInOrder
  BY DEF Init, CursorInv, ReplayedInOrder, NoWindow
<1> QED
  BY <1>1, InitTypeOK DEF IInv

LEMMA NextKeepsOrder == IInv /\ [Next]_vars => IInv'
<1> SUFFICES ASSUME IInv, [Next]_vars PROVE IInv'
  OBVIOUS
<1>1. CASE MainStep
  BY <1>1, MainTypeOK, MainKeepsOrder DEF IInv
<1>2. CASE ThreadStep
  BY <1>2, ThreadTypeOK, ThreadKeepsOrder DEF IInv
<1>3. CASE UNCHANGED vars
  BY <1>3 DEF IInv, TypeOK, CursorInv, ReplayedInOrder, Accepts, vars, threadVars,
              receiverVars, replayArgs, bounds
<1> QED
  BY <1>1, <1>2, <1>3 DEF Next

(* Frames are published in strictly increasing time within the range,      *)
(* however they were recorded and whatever is sought.                      *)
THEOREM ReplayMovesForward == Spec => []ReplayedInOrder
<1>1. IInv => ReplayedInOrder
  BY DEF IInv
<1> QED
  BY <1>1, InitKeepsOrder, NextKeepsOrder, PTL DEF Spec

-----------------------------------------------------------------------------
(* What the others are told.                                               *)

LEMMA LastOfTail ==
  ASSUME NEW S, NEW s \in Seq(S), s # <<>>
  PROVE  /\ Tail(s) = <<>> => Head(s) = Last(s)
         /\ Tail(s) # <<>> => Last(Tail(s)) = Last(s)
<1>1. /\ Len(s) \in Nat /\ Len(s) >= 1 /\ Head(s) = s[1]
      /\ Tail(s) \in Seq(S) /\ Len(Tail(s)) = Len(s) - 1
      /\ \A i \in 1..(Len(s) - 1) : Tail(s)[i] = s[i + 1]
  OBVIOUS
<1>2. Tail(s) = <<>> => Len(s) = 1
  <2> DEFINE t == Tail(s)
  <2>1. t = <<>> => Len(t) = 0
    <3> HIDE DEF t
    <3> QED
      OBVIOUS
  <2> QED
    BY <1>1, <2>1
<1>3. Tail(s) # <<>> => Len(s) - 1 >= 1
  BY <1>1
<1> QED
  BY <1>1, <1>2, <1>3 DEF Last

LEMMA LastOfAppend ==
  ASSUME NEW S, NEW s \in Seq(S), NEW e \in S
  PROVE  Append(s, e) # <<>> /\ Last(Append(s, e)) = e
BY DEF Last

(* The last message, delivered or on its way, says whether a replay is on. *)
THEOREM StatusIsTrue == Spec => []StatusTellsTruth
<1> DEFINE Inv == TypeOK /\ StatusTellsTruth
<1>1. Init => Inv
  <2>1. Init => StatusTellsTruth
    BY DEF Init, StatusTellsTruth
  <2> QED
    BY <2>1, InitTypeOK
<1>2. Inv /\ [Next]_vars => Inv'
  <2> SUFFICES ASSUME TypeOK, StatusTellsTruth, [Next]_vars PROVE Inv'
    OBVIOUS
  <2>1. TypeOK'
    <3>1. UNCHANGED vars => TypeOK'
      BY DEF TypeOK, vars, threadVars, receiverVars, replayArgs, bounds
    <3> QED
      BY <3>1, MainTypeOK, ThreadTypeOK DEF Next
  <2>2. bus \in Seq({"started", "stopped"})
    BY DEF TypeOK
  <2>3. CASE DeliverStatus
    <3>1. bus # <<>> /\ bus' = Tail(bus) /\ active' = (Head(bus) = "started") /\ thread' = thread
      BY <2>3 DEF DeliverStatus, threadVars
    <3> QED
      BY <2>1, <2>2, <3>1, LastOfTail DEF StatusTellsTruth
  <2>4. CASE Begin
    <3>1. bus' = Append(bus, "started") /\ thread' = "scan"
      BY <2>4 DEF Begin
    <3> QED
      BY <2>1, <2>2, <3>1, LastOfAppend DEF StatusTellsTruth
  <2>5. CASE SayStopped
    <3>1. bus' = Append(bus, "stopped") /\ thread' = "post"
      BY <2>5 DEF SayStopped
    <3>2. Last(bus') = "stopped" /\ bus' # <<>>
      BY <2>2, <3>1, LastOfAppend
    <3> QED
      BY <2>1, <3>1, <3>2 DEF StatusTellsTruth
  <2>6. CASE ~DeliverStatus /\ ~Begin /\ ~SayStopped
    <3>1. UNCHANGED <<bus, active>>
      BY <2>6 DEF Next, MainStep, ThreadStep, StartReplay, LaunchReplay, StopReplay,
                  FinishStopReplay, Seek, StartRecord, StopRecord, RunPosted, BreakOff,
                  TakeSeek, ReadFrame, WaitCutShort, PublishFrame, EndScan, EndTail,
                  PostEnd, vars, mainVars, receiverVars
    <3>2. thread' \in {"scan", "wait", "tail", "done", "broken"}
            <=> thread \in {"scan", "wait", "tail", "done", "broken"}
      BY <2>6 DEF Next, MainStep, ThreadStep, StartReplay, LaunchReplay, StopReplay,
                  FinishStopReplay, Seek, StartRecord, StopRecord, RunPosted, BreakOff,
                  TakeSeek, ReadFrame, WaitCutShort, PublishFrame, EndScan, EndTail,
                  PostEnd, vars, threadVars
    <3> QED
      BY <2>1, <3>1, <3>2 DEF StatusTellsTruth
  <2> QED
    BY <2>3, <2>4, <2>5, <2>6
<1>3. Inv => StatusTellsTruth
  OBVIOUS
<1> QED
  BY <1>1, <1>2, <1>3, PTL DEF Spec

(* replaying_ set while the main thread is idle means a thread that still  *)
(* runs, or an end that is still in the event queue.                       *)
THEOREM ReplayingIsNotStuck == Spec => []NoStuckReplay
<1> DEFINE Inv == TypeOK /\ NoStuckReplay
<1>1. Init => Inv
  <2>1. Init => NoStuckReplay
    BY DEF Init, NoStuckReplay
  <2> QED
    BY <2>1, InitTypeOK
<1>2. Inv /\ [Next]_vars => Inv'
  <2> SUFFICES ASSUME TypeOK, NoStuckReplay, [Next]_vars PROVE Inv'
    OBVIOUS
  <2>1. TypeOK'
    <3>1. UNCHANGED vars => TypeOK'
      BY DEF TypeOK, vars, threadVars, receiverVars, replayArgs, bounds
    <3> QED
      BY <3>1, MainTypeOK, ThreadTypeOK DEF Next
  <2>2. posted \in Nat
    BY DEF TypeOK
  <2>3. CASE MainStep
    <3>1. NoStuckReplay'
      BY <2>2, <2>3 DEF NoStuckReplay, MainStep, StartReplay, LaunchReplay, StopReplay,
                        FinishStopReplay, Seek, StartRecord, StopRecord, RunPosted,
                        DeliverStatus, threadVars
    <3> QED
      BY <2>1, <3>1
  <2>4. CASE ThreadStep
    <3>1. CASE PostEnd
      BY <2>1, <2>2, <3>1 DEF NoStuckReplay, PostEnd
    <3>2. CASE ~PostEnd
      <4>1. thread' \notin {"none", "exited"} /\ thread \notin {"none", "exited"}
        BY <2>4, <3>2 DEF ThreadStep, Begin, BreakOff, TakeSeek, ReadFrame, WaitCutShort,
                          PublishFrame, EndScan, EndTail, SayStopped
      <4> QED
        BY <2>1, <4>1 DEF NoStuckReplay
    <3> QED
      BY <3>1, <3>2
  <2>5. CASE UNCHANGED vars
    BY <2>1, <2>5 DEF NoStuckReplay, vars, threadVars
  <2> QED
    BY <2>3, <2>4, <2>5 DEF Next
<1>3. Inv => NoStuckReplay
  OBVIOUS
<1> QED
  BY <1>1, <1>2, <1>3, PTL DEF Spec

-----------------------------------------------------------------------------
(* What is published is what is due.                                       *)

(* The cursor is where the user wanted to be, or just behind the last      *)
(* frame that counts; what was due so far is published.                    *)
Progress ==
    /\ wanted <= cursor
    /\ \A i \in 1..(pos - 1) : Counts(wanted, i) => log[i] < cursor
    /\ cursor = wanted \/ \E i \in 1..(pos - 1) : Counts(wanted, i) /\ cursor = log[i] + 1
    /\ ToSet(published) = {log[i] : i \in {j \in Due(wanted) : j < pos}}

(* A seek that is pending will take the replay to where it is wanted.      *)
PassInv ==
    /\ InLoop /\ seek >= 0 => wanted = Clamp(seek)
    /\ InLoop /\ seek = -1 => Progress
    /\ thread = "tail" => pos > Len(log)
    /\ thread = "done" => ToSet(published) = {log[i] : i \in Due(wanted)}

LEMMA FreshProgress ==
  ASSUME TypeOK', pos' = 1, published' = <<>>, cursor' = wanted'
  PROVE  Progress'
<1>1. \A i : ~(i \in 1..(pos' - 1))
  OBVIOUS
<1>2. \A j \in Due(wanted)' : ~(j < pos')
  <2>1. \A j \in Due(wanted)' : j \in DOMAIN log'
    BY DEF Due
  <2>2. DOMAIN log' = 1..Len(log') /\ Len(log') \in Nat
    BY DEF TypeOK
  <2> QED BY <2>1, <2>2
<1>3. ToSet(published)' = {}
  BY DEF ToSet
<1>4. wanted' \in Nat /\ wanted' <= cursor'
  BY DEF TypeOK
<1> QED BY <1>1, <1>2, <1>3, <1>4 DEF Progress

(* The frame the scan is at is due exactly if it is accepted.              *)
LEMMA AcceptedIsDue ==
  ASSUME TypeOK, Progress, pos <= Len(log)
  PROVE  /\ Accepts(log[pos]) <=> pos \in Due(wanted)
         /\ Accepts(log[pos]) => Counts(wanted, pos)
         /\ Counts(wanted, pos) => Accepts(log[pos]) \/ log[pos] < cursor
<1>1. log \in Seq(Nat) /\ pos \in 1..Len(log) /\ DOMAIN log = 1..Len(log) /\ Len(log) \in Nat
      /\ log[pos] \in Nat /\ \A i \in 1..(pos - 1) : i \in 1..Len(log) /\ log[i] \in Nat
  BY DEF TypeOK
<1>2. wanted \in Nat /\ cursor \in Nat
  BY DEF TypeOK
<1>3. ASSUME Accepts(log[pos]) PROVE Counts(wanted, pos) /\ pos \in Due(wanted)
  <2>1. Counts(wanted, pos)
    BY <1>1, <1>2, <1>3 DEF Accepts, Counts, Progress
  <2>2. \A j \in 1..(pos - 1) : Counts(wanted, j) => log[j] < log[pos]
    BY <1>1, <1>2, <1>3 DEF Accepts, Progress
  <2> QED BY <1>1, <2>1, <2>2 DEF Due
<1>4. ASSUME Counts(wanted, pos), ~Accepts(log[pos]) PROVE log[pos] < cursor
  BY <1>1, <1>2, <1>4 DEF Counts, Accepts
<1>5. ASSUME pos \in Due(wanted) PROVE Accepts(log[pos])
  <2>1. Counts(wanted, pos) /\ \A j \in 1..(pos - 1) : Counts(wanted, j) => log[j] < log[pos]
    BY <1>5 DEF Due
  <2>2. cursor <= log[pos]
    <3>1. CASE cursor = wanted
      BY <2>1, <3>1 DEF Counts
    <3>2. CASE \E i \in 1..(pos - 1) : Counts(wanted, i) /\ cursor = log[i] + 1
      <4>1. PICK i \in 1..(pos - 1) : Counts(wanted, i) /\ cursor = log[i] + 1
        BY <3>2
      <4>2. log[i] < log[pos] /\ log[i] \in Nat
        BY <1>1, <2>1, <4>1
      <4> QED BY <1>1, <4>1, <4>2
    <3> QED BY <3>1, <3>2 DEF Progress
  <2> QED BY <1>1, <1>2, <2>1, <2>2 DEF Accepts, Counts
<1> QED BY <1>3, <1>4, <1>5

LEMMA SkipKeepsProgress ==
  ASSUME TypeOK, Progress, pos <= Len(log), ~Accepts(log[pos]),
         pos' = pos + 1, UNCHANGED <<log, window, cursor, published, wanted>>
  PROVE  Progress'
<1>1. pos \in 1..Len(log) /\ pos \notin Due(wanted)
      /\ (Counts(wanted, pos) => log[pos] < cursor)
  BY AcceptedIsDue DEF TypeOK
<1>2. \A i : Counts(wanted, i)' <=> Counts(wanted, i)
  BY DEF Counts
<1>3. Due(wanted)' = Due(wanted)
  BY DEF Due, Counts
<1>4. 1..(pos' - 1) = 1..(pos - 1) \cup {pos}
  BY <1>1
<1>5. \A j \in Due(wanted) : j < pos' <=> j < pos
  <2>1. \A j \in Due(wanted) : j \in 1..Len(log)
    BY DEF Due, TypeOK
  <2> QED BY <1>1, <2>1
<1>6. \A i \in 1..(pos' - 1) : Counts(wanted, i)' => log[i] < cursor
  BY <1>1, <1>2, <1>4 DEF Progress
<1>7. cursor = wanted \/ \E i \in 1..(pos' - 1) : Counts(wanted, i)' /\ cursor = log[i] + 1
  BY <1>2, <1>4 DEF Progress
<1>8. ToSet(published') = {log[i] : i \in {j \in Due(wanted)' : j < pos'}}
  BY <1>3, <1>5 DEF Progress
<1> QED BY <1>6, <1>7, <1>8 DEF Progress

LEMMA PublishKeepsProgress ==
  ASSUME TypeOK, Progress, pos <= Len(log), Accepts(log[pos]),
         pos' = pos + 1, cursor' = log[pos] + 1, published' = Append(published, log[pos]),
         UNCHANGED <<log, window, wanted>>
  PROVE  Progress'
<1>1. pos \in 1..Len(log) /\ pos \in Due(wanted) /\ Counts(wanted, pos)
  BY AcceptedIsDue DEF TypeOK
<1>2. \A i : Counts(wanted, i)' <=> Counts(wanted, i)
  BY DEF Counts
<1>3. Due(wanted)' = Due(wanted)
  BY DEF Due, Counts
<1>4. 1..(pos' - 1) = 1..(pos - 1) \cup {pos}
  BY <1>1
<1>5. \A j \in Due(wanted) : j < pos' <=> j < pos \/ j = pos
  BY <1>1 DEF Due, TypeOK
<1>6. log[pos] \in Nat /\ cursor \in Nat /\ wanted \in Nat /\ cursor <= log[pos]
      /\ \A i \in 1..(pos - 1) : log[i] \in Nat
  BY <1>1, SMTT(30) DEF TypeOK, Accepts
<1>7. \A i \in 1..(pos' - 1) : Counts(wanted, i)' => log[i] < cursor'
  <2> SUFFICES ASSUME NEW i \in 1..(pos' - 1), Counts(wanted, i) PROVE log[i] < log[pos] + 1
    BY <1>2
  <2>1. CASE i = pos
    BY <1>6, <2>1
  <2>2. CASE i \in 1..(pos - 1)
    BY <1>6, <2>2 DEF Progress
  <2> QED BY <1>4, <2>1, <2>2
<1>8. \E i \in 1..(pos' - 1) : Counts(wanted, i)' /\ cursor' = log[i] + 1
  BY <1>1, <1>2, <1>4
<1>9. ToSet(published') = ToSet(published) \cup {log[pos]}
  <2> DEFINE n == Len(published)
  <2>1. /\ n \in Nat /\ DOMAIN published = 1..n /\ DOMAIN published' = 1..(n + 1)
        /\ published'[n + 1] = log[pos]
        /\ \A i \in 1..n : published'[i] = published[i]
    BY <1>6 DEF TypeOK
  <2>2. 1..(n + 1) = 1..n \cup {n + 1}
    BY <2>1
  <2> HIDE DEF n
  <2>3. ASSUME NEW x PROVE x \in ToSet(published') <=> x \in ToSet(published) \cup {log[pos]}
    BY <2>1, <2>2 DEF ToSet
  <2> QED BY <2>3
<1>10. ToSet(published') = {log[i] : i \in {j \in Due(wanted)' : j < pos'}}
  BY <1>1, <1>3, <1>5, <1>9 DEF Progress
<1>11. wanted <= cursor'
  BY <1>6 DEF Progress
<1> QED BY <1>7, <1>8, <1>10, <1>11 DEF Progress

LEMMA EverythingDue ==
  ASSUME TypeOK, Progress, pos > Len(log)
  PROVE  ToSet(published) = {log[i] : i \in Due(wanted)}
<1>1. \A j \in Due(wanted) : j < pos
  <2>1. \A j \in Due(wanted) : j \in DOMAIN log
    BY DEF Due
  <2>2. DOMAIN log = 1..Len(log) /\ Len(log) \in Nat /\ pos \in Nat
    BY DEF TypeOK
  <2> QED BY <2>1, <2>2
<1> QED BY <1>1 DEF Progress

LEMMA PassUntouched ==
  ASSUME PassInv, UNCHANGED <<thread, pos, cursor, published, log, window, wanted, seek>>
  PROVE  PassInv'
BY DEF PassInv, InLoop, Progress, Due, Counts, Clamp

LEMMA PassMain ==
  ASSUME TypeOK, TypeOK', PassInv, MainStep
  PROVE  PassInv'
<1>1. CASE LaunchReplay
  <2>1. /\ pos' = 1 /\ published' = <<>> /\ cursor' = wanted' /\ seek' = -1 /\ thread' = "begin"
    BY <1>1 DEF LaunchReplay
  <2>2. Progress'
    BY <2>1, FreshProgress
  <2> QED BY <2>1, <2>2 DEF PassInv
<1>2. CASE FinishStopReplay
  BY <1>2 DEF FinishStopReplay, PassInv, InLoop
<1>3. CASE \E t \in Times \cup {0} : Seek(t)
  <2>1. PICK t \in Times \cup {0} : Seek(t)
    BY <1>3
  <2>2. /\ seek' = t /\ t \in Nat /\ wanted' = IF InLoop THEN Clamp(t) ELSE wanted
        /\ UNCHANGED <<thread, pos, cursor, published, log, window>>
    BY <2>1 DEF Seek, threadVars, replayArgs
  <2>3. InLoop' <=> InLoop
    BY <2>2 DEF InLoop
  <2>4. CASE InLoop
    <3>1. wanted' = Clamp(seek)' /\ thread' # "done" /\ seek' # -1
      BY <2>2, <2>4 DEF Clamp, InLoop
    <3> QED BY <2>2, <2>3, <3>1 DEF PassInv
  <2>5. CASE ~InLoop
    <3>1. Due(wanted)' = Due(wanted)
      BY <2>2, <2>5 DEF Due, Counts
    <3> QED BY <2>2, <2>3, <2>5, <3>1 DEF PassInv, InLoop
  <2> QED BY <2>4, <2>5
<1>4. CASE ~LaunchReplay /\ ~FinishStopReplay /\ ~(\E t \in Times \cup {0} : Seek(t))
  <2>1. UNCHANGED <<thread, pos, cursor, published, log, window, wanted, seek>>
    BY <1>4 DEF MainStep, StartReplay, StopReplay, StartRecord, StopRecord, RunPosted,
                DeliverStatus, threadVars, replayArgs
  <2> QED BY <2>1, PassUntouched
<1> QED BY <1>1, <1>2, <1>3, <1>4 DEF MainStep

LEMMA PassThread ==
  ASSUME TypeOK, TypeOK', CursorInv, PassInv, ThreadStep
  PROVE  PassInv'
<1> USE DEF mainVars, replayArgs
<1>0. seek \in Nat \cup {-1} /\ (seek = -1 <=> ~(seek >= 0))
  BY DEF TypeOK
<1>1. CASE Begin
  <2>1. UNCHANGED <<pos, cursor, published, log, window, wanted, seek>> /\ InLoop /\ thread' = "scan"
    BY <1>1 DEF Begin, InLoop
  <2> QED BY <2>1 DEF PassInv, Progress, Due, Counts, Clamp
<1>2. CASE BreakOff
  BY <1>2 DEF BreakOff, PassInv, InLoop
<1>3. CASE TakeSeek
  <2>1. /\ seek' = -1 /\ cursor' = Clamp(seek) /\ pos' = 1 /\ published' = <<>> /\ thread' = "scan"
        /\ wanted' = wanted /\ wanted = Clamp(seek)
    BY <1>3 DEF TakeSeek, PassInv, InLoop
  <2>2. Progress'
    BY <2>1, FreshProgress
  <2> QED BY <2>1, <2>2 DEF PassInv
<1>4. CASE ReadFrame
  <2>1. /\ seek = -1 /\ seek' = -1 /\ pos <= Len(log) /\ Progress
        /\ UNCHANGED <<log, window, cursor, published, wanted>>
        /\ thread' \in {"wait", "scan"}
    BY <1>4 DEF ReadFrame, PassInv, InLoop
  <2>2. CASE Accepts(log[pos])
    <3>1. pos' = pos
      BY <1>4, <2>2 DEF ReadFrame
    <3>2. Progress'
      BY <2>1, <3>1 DEF Progress, Due, Counts
    <3> QED BY <2>1, <3>2 DEF PassInv
  <2>3. CASE ~Accepts(log[pos])
    <3>1. pos' = pos + 1
      BY <1>4, <2>3 DEF ReadFrame
    <3>2. Progress'
      BY <2>1, <2>3, <3>1, SkipKeepsProgress
    <3> QED BY <2>1, <3>2 DEF PassInv
  <2> QED BY <2>2, <2>3
<1>5. CASE WaitCutShort
  <2>1. /\ seek >= 0 /\ seek' = seek /\ thread' = "scan" /\ wanted' = wanted
        /\ window' = window /\ wanted = Clamp(seek)
    BY <1>5 DEF WaitCutShort, PassInv, InLoop
  <2> QED BY <1>0, <2>1 DEF PassInv, Clamp
<1>6. CASE PublishFrame
  <2>1. /\ seek = -1 /\ seek' = -1 /\ pos <= Len(log) /\ Progress /\ Accepts(log[pos])
        /\ pos' = pos + 1 /\ cursor' = log[pos] + 1 /\ published' = Append(published, log[pos])
        /\ UNCHANGED <<log, window, wanted>> /\ thread' = "scan"
    BY <1>6 DEF PublishFrame, PassInv, InLoop, CursorInv, TypeOK
  <2>2. Progress'
    BY <2>1, PublishKeepsProgress
  <2> QED BY <2>1, <2>2 DEF PassInv
<1>7. CASE EndScan
  <2>1. /\ seek = -1 /\ seek' = -1 /\ pos > Len(log) /\ Progress /\ thread' \in {"tail", "done"}
        /\ UNCHANGED <<log, window, cursor, published, wanted, pos>>
    BY <1>7 DEF EndScan, PassInv, InLoop
  <2>2. Progress'
    BY <2>1 DEF Progress, Due, Counts
  <2>3. ToSet(published) = {log[i] : i \in Due(wanted)}
    BY <2>1, EverythingDue
  <2>4. (ToSet(published) = {log[i] : i \in Due(wanted)})'
    BY <2>1, <2>3 DEF Due, Counts
  <2> QED BY <2>1, <2>2, <2>4 DEF PassInv
<1>8. CASE EndTail
  <2>1. /\ seek = -1 /\ pos > Len(log) /\ Progress /\ thread' = "done"
        /\ UNCHANGED <<log, window, cursor, published, wanted, pos>>
    BY <1>8 DEF EndTail, PassInv, InLoop
  <2>2. (ToSet(published) = {log[i] : i \in Due(wanted)})'
    BY <2>1, EverythingDue DEF Due, Counts
  <2> QED BY <2>1, <2>2 DEF PassInv, InLoop
<1>9. CASE SayStopped
  BY <1>9 DEF SayStopped, PassInv, InLoop
<1>10. CASE PostEnd
  BY <1>10 DEF PostEnd, PassInv, InLoop
<1> QED
  BY <1>1, <1>2, <1>3, <1>4, <1>5, <1>6, <1>7, <1>8, <1>9, <1>10 DEF ThreadStep

(* A replay that ends by itself has published exactly the frames it owes   *)
(* from where the user last wanted it to be, in order of time.             *)
THEOREM PassIsComplete == Spec => []PassComplete
<1> DEFINE Inv == IInv /\ PassInv
<1>1. Init => PassInv
  BY DEF Init, PassInv, InLoop
<1>2. Inv /\ [Next]_vars => Inv'
  <2> SUFFICES ASSUME IInv, PassInv, [Next]_vars PROVE IInv' /\ PassInv'
    OBVIOUS
  <2>1. IInv'
    BY NextKeepsOrder
  <2>2. TypeOK /\ TypeOK' /\ CursorInv
    BY <2>1 DEF IInv
  <2>3. CASE UNCHANGED vars
    <3>1. UNCHANGED <<thread, pos, cursor, published, log, window, wanted, seek>>
      BY <2>3 DEF vars, threadVars, replayArgs
    <3>2. PassInv'
      BY <3>1, PassUntouched
    <3> QED BY <2>1, <3>2
  <2> QED BY <2>1, <2>2, <2>3, PassMain, PassThread DEF Next
<1>3. Inv => PassComplete
  <2> SUFFICES ASSUME TypeOK, ReplayedInOrder, PassInv, thread = "done" PROVE PassComplete
    BY DEF IInv, PassComplete
  <2>1. DOMAIN published = 1..Len(published) /\ Len(published) \in Nat
    BY DEF TypeOK
  <2>2. ASSUME NEW i \in DOMAIN published, NEW j \in DOMAIN published, i < j
        PROVE  published[i] < published[j]
    BY <2>1, <2>2 DEF ReplayedInOrder
  <2> QED BY <2>2 DEF PassComplete, PassInv
<1> QED
  BY <1>1, <1>2, <1>3, InitKeepsOrder, PTL DEF Spec

-----------------------------------------------------------------------------
(* Clips of sessions.                                                      *)

LEMMA Sizes == Second \in Nat \ {0} /\ ChunkLimit \in Nat \ {0}
  BY LibraryAssumption
USE Sizes

LEMMA ElementIs ==
  ASSUME NEW s \in Seq(Nat), NEW k \in 1..Len(s)
  PROVE  s[k] \in Nat
  OBVIOUS

Source == Seq(Seq(Nat))

(* Of what is owed before a place, or of any of it, all is copied, or, if  *)
(* frames have been lost, some.                                            *)
Reaches(origin, upto, files, due, whole) ==
    /\ \A p \in Frames(files) : Before(origin[p], upto)
    /\ whole => \A r \in Owed(due) : Before(r, upto) => \E p \in Frames(files) : origin[p] = r
CopiedUpTo(upto, files, due, whole) ==
    \E origin \in [Frames(files) -> Owed(due)] :
        IsOwed(origin, files, due) /\ Reaches(origin, upto, files, due, whole)
Copied(files, due, whole) ==
    \E origin \in [Frames(files) -> Owed(due)] :
        IsOwed(origin, files, due) /\ (whole => FromTheFirst(origin, files, due))

LEMMA PlacesAre ==
  ASSUME NEW files \in Source
  PROVE  /\ \A p \in Places(files) :
              /\ p[1] \in 1..Len(files) /\ p[2] \in 1..Len(files[p[1]])
              /\ p = <<p[1], p[2]>> /\ TimeAt(files, p) \in Nat
              /\ p[1] \in Nat /\ p[2] \in Nat
         /\ \A i \in 1..Len(files) : \A k \in 1..Len(files[i]) : <<i, k>> \in Places(files)
<1>1. \A i \in 1..Len(files) : files[i] \in Seq(Nat) /\ DOMAIN files[i] = 1..Len(files[i])
  BY DEF Source
<1>2. DOMAIN files = 1..Len(files)
  BY DEF Source
<1>3. ASSUME NEW p \in Places(files)
      PROVE  /\ p[1] \in 1..Len(files) /\ p[2] \in 1..Len(files[p[1]])
             /\ p = <<p[1], p[2]>> /\ TimeAt(files, p) \in Nat
             /\ p[1] \in Nat /\ p[2] \in Nat
  <2>1. PICK i \in 1..Len(files) : p \in {i} \X (1..Len(files[i]))
    BY <1>1, <1>2, <1>3 DEF Places
  <2>2. p = <<p[1], p[2]>> /\ p[1] = i /\ p[2] \in 1..Len(files[i])
    BY <2>1
  <2>3. Len(files[i]) \in Nat /\ Len(files) \in Nat
    BY <1>1 DEF Source
  <2>4. files[i][p[2]] \in Nat
    BY <1>1, <2>2
  <2> QED
    BY <2>2, <2>3, <2>4 DEF TimeAt
<1>4. ASSUME NEW i \in 1..Len(files), NEW k \in 1..Len(files[i])
      PROVE  <<i, k>> \in Places(files)
  BY <1>1, <1>2 DEF Places
<1> QED
  BY <1>3, <1>4

LEMMA OwedArePlaces ==
  ASSUME NEW due, due.source \in Source, NEW r \in Owed(due)
  PROVE  /\ r \in Places(due.source) /\ r[1] \notin due.skipped
         /\ r[1] \in Nat /\ r[2] \in Nat
<1>1. r \in Places(due.source) /\ r[1] \notin due.skipped
  BY DEF Owed, Frames
<1> QED
  BY <1>1, PlacesAre

LEMMA PlacesAreFinite ==
  ASSUME NEW files \in Source
  PROVE  IsFiniteSet(Places(files)) /\ IsFiniteSet(Frames(files))
<1> DEFINE row == [i \in 1..Len(files) |-> {i} \X DOMAIN files[i]]
           rows == {{i} \X DOMAIN files[i] : i \in DOMAIN files}
<1>1. DOMAIN files = 1..Len(files) /\ Len(files) \in Nat
  BY DEF Source
<1>2. IsFiniteSet(1..Len(files))
  BY <1>1, FS_Interval
<1>3. row \in Surjection(1..Len(files), rows)
  BY <1>1 DEF Surjection
<1>4. IsFiniteSet(rows)
  BY <1>2, <1>3, FS_Surjection
<1>5. ASSUME NEW T \in rows PROVE IsFiniteSet(T)
  <2>1. PICK i \in 1..Len(files) : T = {i} \X DOMAIN files[i]
    BY <1>1, <1>5
  <2>2. DOMAIN files[i] = 1..Len(files[i]) /\ Len(files[i]) \in Nat
    BY DEF Source
  <2>3. IsFiniteSet(DOMAIN files[i]) /\ IsFiniteSet({i})
    <3>1. IsFiniteSet(1..Len(files[i]))
      BY <2>2, FS_Interval
    <3>2. IsFiniteSet(DOMAIN files[i])
      BY <2>2, <3>1, Zenon
    <3>3. IsFiniteSet({i})
      BY FS_Singleton, Zenon
    <3> QED
      BY <3>2, <3>3
  <2> QED
    BY <2>1, <2>3, FS_Product
<1>6. Places(files) = UNION rows
  BY DEF Places
<1> HIDE DEF rows, row
<1>7. IsFiniteSet(Places(files))
  BY <1>4, <1>5, <1>6, FS_UNION
<1>8. Frames(files) \subseteq Places(files)
  BY DEF Frames
<1> QED
  BY <1>7, <1>8, FS_Subset

LEMMA UpToIsCopied ==
  ASSUME NEW files, NEW due, due.source \in Source, NEW whole,
         NEW upto \in Nat \X Nat, CopiedUpTo(upto, files, due, whole)
  PROVE  Copied(files, due, whole)
<1>1. PICK origin \in [Frames(files) -> Owed(due)] :
         IsOwed(origin, files, due) /\ Reaches(origin, upto, files, due, whole)
  BY DEF CopiedUpTo
<1>2. ASSUME whole, NEW p \in Frames(files), NEW r \in Owed(due), Before(r, origin[p])
      PROVE  \E q \in Frames(files) : origin[q] = r
  <2>1. origin[p] \in Owed(due) /\ Before(origin[p], upto)
    BY <1>1 DEF Reaches
  <2>2. origin[p][1] \in Nat /\ origin[p][2] \in Nat /\ r[1] \in Nat /\ r[2] \in Nat
    BY <2>1, OwedArePlaces
  <2>3. upto[1] \in Nat /\ upto[2] \in Nat
    OBVIOUS
  <2>4. Before(r, upto)
    BY <1>2, <2>1, <2>2, <2>3 DEF Before
  <2> QED
    BY <1>1, <1>2, <2>4 DEF Reaches
<1>3. whole => FromTheFirst(origin, files, due)
  BY <1>2 DEF FromTheFirst
<1> QED
  BY <1>1, <1>3 DEF Copied

(* A copy that loses frames is a copy of some, and one that loses them at  *)
(* its end is a copy still.                                                *)
Fewer(less, files) ==
    /\ Frames(less) \subseteq Frames(files)
    /\ \A p \in Frames(less) : TimeAt(less, p) = TimeAt(files, p)

LEMMA LessIsCopied ==
  ASSUME NEW files, NEW less, NEW due, NEW whole, Fewer(less, files)
  PROVE  /\ Copied(files, due, whole) => Copied(less, due, FALSE)
         /\ \A upto : CopiedUpTo(upto, files, due, whole) => CopiedUpTo(upto, less, due, FALSE)
<1>1. ASSUME NEW origin \in [Frames(files) -> Owed(due)], IsOwed(origin, files, due)
      PROVE  \E cut \in [Frames(less) -> Owed(due)] :
                 IsOwed(cut, less, due) /\ \A p \in Frames(less) : cut[p] = origin[p]
  <2> DEFINE cut == [p \in Frames(less) |-> origin[p]]
  <2>1. cut \in [Frames(less) -> Owed(due)] /\ \A p \in Frames(less) : cut[p] = origin[p]
    BY DEF Fewer
  <2> HIDE DEF cut
  <2>2. IsOwed(cut, less, due)
    BY <1>1, <2>1 DEF IsOwed, Fewer
  <2> QED
    BY <2>1, <2>2
<1>2. Copied(files, due, whole) => Copied(less, due, FALSE)
  BY <1>1 DEF Copied
<1>3. ASSUME NEW upto, CopiedUpTo(upto, files, due, whole)
      PROVE  CopiedUpTo(upto, less, due, FALSE)
  <2>1. PICK origin \in [Frames(files) -> Owed(due)] :
           IsOwed(origin, files, due) /\ Reaches(origin, upto, files, due, whole)
    BY <1>3 DEF CopiedUpTo
  <2>2. PICK cut \in [Frames(less) -> Owed(due)] :
           IsOwed(cut, less, due) /\ \A p \in Frames(less) : cut[p] = origin[p]
    BY <1>1, <2>1
  <2>3. Reaches(cut, upto, less, due, FALSE)
    BY <2>1, <2>2 DEF Reaches, Fewer
  <2> QED
    BY <2>2, <2>3 DEF CopiedUpTo
<1> QED
  BY <1>2, <1>3

LEMMA CutKeepsCopied ==
  ASSUME NEW files \in Source, NEW less, NEW due, due.source \in Source, NEW whole,
         Copied(files, due, whole), Fewer(less, files),
         \A p \in Frames(less) : \A q \in Frames(files) : Before(q, p) => q \in Frames(less)
  PROVE  Copied(less, due, whole)
<1>1. PICK origin \in [Frames(files) -> Owed(due)] :
        IsOwed(origin, files, due) /\ (whole => FromTheFirst(origin, files, due))
  BY DEF Copied
<1> DEFINE cut == [p \in Frames(less) |-> origin[p]]
<1>2. cut \in [Frames(less) -> Owed(due)]
  BY <1>1 DEF Fewer
<1>3. \A p \in Frames(less) : cut[p] = origin[p]
  OBVIOUS
<1> HIDE DEF cut
<1>4. IsOwed(cut, less, due)
  BY <1>1, <1>3 DEF IsOwed, Fewer
<1>5. ASSUME whole, NEW p \in Frames(less), NEW r \in Owed(due), Before(r, cut[p])
      PROVE  \E q \in Frames(less) : cut[q] = r
  <2>1. p \in Frames(files) /\ Before(r, origin[p])
    BY <1>3, <1>5 DEF Fewer
  <2>2. PICK q \in Frames(files) : origin[q] = r
    BY <1>1, <1>5, <2>1 DEF FromTheFirst
  <2>3. p \in Places(files) /\ q \in Places(files)
    BY <2>1, <2>2 DEF Frames
  <2>4. /\ p = <<p[1], p[2]>> /\ p[1] \in Nat /\ p[2] \in Nat
        /\ q = <<q[1], q[2]>> /\ q[1] \in Nat /\ q[2] \in Nat
    BY <2>3, PlacesAre
  <2>5. origin[p] \in Owed(due) /\ origin[q] \in Owed(due)
    BY <1>1, <2>1
  <2>6. /\ origin[p][1] \in Nat /\ origin[p][2] \in Nat
        /\ origin[q][1] \in Nat /\ origin[q][2] \in Nat
    BY <2>5, OwedArePlaces
  <2>7. ~Before(origin[p], origin[q])
    BY <2>1, <2>2, <2>6 DEF Before
  <2>8. ~Before(p, q)
    BY <1>1, <2>1, <2>7 DEF IsOwed
  <2>9. p = q \/ Before(q, p)
    BY <2>4, <2>8 DEF Before
  <2>10. q \in Frames(less)
    BY <2>9
  <2> QED
    BY <1>3, <2>2, <2>10
<1>6. whole => FromTheFirst(cut, less, due)
  BY <1>5 DEF FromTheFirst
<1> QED
  BY <1>2, <1>4, <1>6 DEF Copied

LEMMA NothingIsCopied ==
  ASSUME NEW due, due.source \in Source
  PROVE  /\ CopiedUpTo(<<0, 0>>, <<>>, due, TRUE) /\ Frames(<<>>) = {} /\ Places(<<>>) = {}
         /\ Copied(<<>>, due, TRUE)
<1>1. Places(<<>>) = {}
  BY DEF Places
<1>2. Frames(<<>>) = {}
  BY <1>1 DEF Frames
<1> DEFINE none == [p \in {} |-> <<>>]
<1>3. none \in [{} -> Owed(due)]
  OBVIOUS
<1>4. \A r \in Owed(due) : ~Before(r, <<0, 0>>)
  BY OwedArePlaces DEF Before
<1> HIDE DEF none
<1>5. /\ IsOwed(none, <<>>, due) /\ Reaches(none, <<0, 0>>, <<>>, due, TRUE)
      /\ FromTheFirst(none, <<>>, due)
  BY <1>2, <1>4 DEF IsOwed, Reaches, FromTheFirst
<1>6. CopiedUpTo(<<0, 0>>, <<>>, due, TRUE) /\ Copied(<<>>, due, TRUE)
  BY <1>2, <1>3, <1>5 DEF Copied, CopiedUpTo
<1> QED
  BY <1>1, <1>2, <1>6

-----------------------------------------------------------------------------
(* A frame, or a torn one, is put behind the others.                       *)

Grown(files, more, place, t) ==
    /\ more \in Source /\ place \in Nat \X Nat
    /\ Places(more) = Places(files) \cup {place}
    /\ \A p \in Places(files) :
           TimeAt(more, p) = TimeAt(files, p) /\ Before(p, place) /\ p # place
    /\ TimeAt(more, place) = t

Target == IF Rolls THEN <<clip.listed + 1, 1>> ELSE <<clip.listed, clip.full + 1>>

LEMMA PutGrows ==
  ASSUME NEW files \in Source, NEW t \in Nat,
         clip.listed = Len(files), clip.full \in Nat,
         ~Rolls => clip.full = Len(files[clip.listed])
  PROVE  /\ Grown(files, PutFrame(files, t), Target, t)
         /\ Len(PutFrame(files, t)) = Target[1]
<1>1. Len(files) \in Nat /\ clip.listed \in Nat /\ DOMAIN files = 1..Len(files)
  BY DEF Source
<1>2. \A i \in 1..Len(files) : files[i] \in Seq(Nat) /\ Len(files[i]) \in Nat
  BY DEF Source
<1>3. CASE Rolls
  <2> DEFINE more == Append(files, <<t>>)
  <2>1. PutFrame(files, t) = more /\ Target = <<Len(files) + 1, 1>>
    BY <1>1, <1>3 DEF PutFrame, Target
  <2>2. <<t>> \in Seq(Nat) /\ Len(<<t>>) = 1 /\ <<t>>[1] = t
    OBVIOUS
  <2>3. /\ more \in Source /\ Len(more) = Len(files) + 1 /\ more[Len(files) + 1] = <<t>>
        /\ \A i \in 1..Len(files) : more[i] = files[i]
    BY <1>1, <2>2 DEF Source
  <2> HIDE DEF more
  <2>4. ASSUME NEW p \in Places(files)
        PROVE  p \in Places(more) /\ TimeAt(more, p) = TimeAt(files, p)
               /\ Before(p, <<Len(files) + 1, 1>>) /\ p # <<Len(files) + 1, 1>>
    <3>1. p[1] \in 1..Len(files) /\ p[2] \in 1..Len(files[p[1]]) /\ p = <<p[1], p[2]>>
      BY PlacesAre
    <3>2. more[p[1]] = files[p[1]] /\ p[1] \in 1..Len(more)
      BY <1>1, <2>3, <3>1
    <3>3. <<p[1], p[2]>> \in Places(more)
      BY <2>3, <3>1, <3>2, PlacesAre
    <3>4. p \in Places(more)
      BY <3>1, <3>3
    <3>5. TimeAt(more, p) = TimeAt(files, p)
      BY <3>2 DEF TimeAt
    <3>6. p[1] < Len(files) + 1
      BY <1>1, <3>1
    <3> QED
      BY <3>4, <3>5, <3>6 DEF Before
  <2>5. <<Len(files) + 1, 1>> \in Places(more)
    <3>1. Len(files) + 1 \in 1..Len(more) /\ 1 \in 1..Len(more[Len(files) + 1])
      BY <1>1, <2>2, <2>3
    <3> QED
      BY <2>3, <3>1, PlacesAre
  <2>6. ASSUME NEW p \in Places(more) PROVE p \in Places(files) \cup {<<Len(files) + 1, 1>>}
    <3>1. p[1] \in 1..(Len(files) + 1) /\ p[2] \in 1..Len(more[p[1]]) /\ p = <<p[1], p[2]>>
      BY <2>3, PlacesAre
    <3>2. CASE p[1] = Len(files) + 1
      <4>1. p[2] \in 1..1
        BY <2>2, <2>3, <3>1, <3>2
      <4>2. p[2] = 1
        BY <4>1
      <4> QED
        BY <3>1, <3>2, <4>2
    <3>3. CASE p[1] \in 1..Len(files)
      BY <2>3, <3>1, <3>3, PlacesAre
    <3> QED
      BY <1>1, <3>1, <3>2, <3>3
  <2>7. Places(more) = Places(files) \cup {<<Len(files) + 1, 1>>}
    BY <2>4, <2>5, <2>6
  <2>8. TimeAt(more, <<Len(files) + 1, 1>>) = t
    BY <2>2, <2>3 DEF TimeAt
  <2>9. Grown(files, more, <<Len(files) + 1, 1>>, t)
    BY <1>1, <2>3, <2>4, <2>7, <2>8 DEF Grown
  <2> QED
    BY <2>1, <2>3, <2>9
<1>4. CASE ~Rolls
  <2> DEFINE n == Len(files)
             last == Append(files[n], t)
             more == [files EXCEPT ![n] = last]
  <2>1. n > 0 /\ n \in 1..Len(files) /\ clip.full = Len(files[n])
    BY <1>1, <1>4 DEF Rolls
  <2>2. PutFrame(files, t) = more /\ Target = <<n, Len(files[n]) + 1>>
    BY <1>4, <2>1 DEF PutFrame, Target
  <2>3. /\ last \in Seq(Nat) /\ Len(last) = Len(files[n]) + 1
        /\ last[Len(files[n]) + 1] = t
        /\ \A k \in 1..Len(files[n]) : last[k] = files[n][k]
    BY <1>2, <2>1, SMTT(30)
  <2> HIDE DEF last
  <2>4. /\ more \in Source /\ Len(more) = n /\ more[n] = last
        /\ \A i \in 1..n : i # n => more[i] = files[i]
    <3>1. more \in Seq(Seq(Nat)) /\ Len(more) = Len(files)
      BY <2>1, <2>3 DEF Source
    <3> QED
      BY <1>1, <2>1, <3>1 DEF Source
  <2> HIDE DEF more, n
  <2>5. Len(files[n]) \in Nat /\ n \in Nat /\ Len(files) = n
    BY <1>1, <1>2, <2>1 DEF n
  <2>6. ASSUME NEW p \in Places(files)
        PROVE  p \in Places(more) /\ TimeAt(more, p) = TimeAt(files, p)
               /\ Before(p, <<n, Len(files[n]) + 1>>) /\ p # <<n, Len(files[n]) + 1>>
    <3>1. p[1] \in 1..n /\ p[2] \in 1..Len(files[p[1]]) /\ p = <<p[1], p[2]>>
      BY <2>5, PlacesAre
    <3>2. p[2] \in 1..Len(more[p[1]]) /\ more[p[1]][p[2]] = files[p[1]][p[2]]
      <4>1. CASE p[1] = n
        <5>1. p[2] \in 1..Len(files[n]) /\ more[p[1]] = last
          BY <2>4, <3>1, <4>1
        <5> QED
          BY <2>3, <2>5, <4>1, <5>1, SMTT(30)
      <4>2. CASE p[1] # n
        BY <2>4, <3>1, <4>2
      <4> QED
        BY <4>1, <4>2
    <3>3. <<p[1], p[2]>> \in Places(more)
      BY <2>4, <3>1, <3>2, PlacesAre
    <3>4. p[1] < n \/ (p[1] = n /\ p[2] < Len(files[n]) + 1)
      BY <2>5, <3>1
    <3> DEFINE q == <<n, Len(files[n]) + 1>>
    <3>5. q[1] = n /\ q[2] = Len(files[n]) + 1
      OBVIOUS
    <3> HIDE DEF q
    <3>6. p \in Places(more)
      BY <3>1, <3>3
    <3>7. TimeAt(more, p) = TimeAt(files, p)
      BY <3>2 DEF TimeAt
    <3>8. Before(p, q)
      BY <3>4, <3>5 DEF Before
    <3>9. p # q
      BY <2>5, <3>1, <3>4, <3>5
    <3> QED
      BY <3>6, <3>7, <3>8, <3>9 DEF q
  <2>7. <<n, Len(files[n]) + 1>> \in Places(more)
    <3>1. n \in 1..Len(more) /\ Len(files[n]) + 1 \in 1..Len(more[n])
      BY <2>1, <2>3, <2>4, <2>5
    <3> QED
      BY <2>4, <3>1, PlacesAre
  <2>8. ASSUME NEW p \in Places(more) PROVE p \in Places(files) \cup {<<n, Len(files[n]) + 1>>}
    <3>1. p[1] \in 1..n /\ p[2] \in 1..Len(more[p[1]]) /\ p = <<p[1], p[2]>>
      BY <2>4, PlacesAre
    <3>2. CASE p[1] = n /\ p[2] = Len(files[n]) + 1
      BY <3>1, <3>2
    <3>3. CASE ~(p[1] = n /\ p[2] = Len(files[n]) + 1)
      <4>1. p[2] \in 1..Len(files[p[1]])
        BY <2>3, <2>4, <2>5, <3>1, <3>3, SMTT(30)
      <4> QED
        BY <2>5, <3>1, <4>1, PlacesAre
    <3> QED
      BY <3>2, <3>3
  <2>9. Places(more) = Places(files) \cup {<<n, Len(files[n]) + 1>>}
    BY <2>6, <2>7, <2>8
  <2>10. TimeAt(more, <<n, Len(files[n]) + 1>>) = t
    BY <2>3, <2>4 DEF TimeAt
  <2>11. Grown(files, more, <<n, Len(files[n]) + 1>>, t)
    BY <2>4, <2>5, <2>6, <2>9, <2>10 DEF Grown
  <2> QED
    BY <2>2, <2>4, <2>5, <2>11
<1> QED
  BY <1>3, <1>4

LEMMA GrownIsCopied ==
  ASSUME NEW files \in Source, NEW more, NEW place, NEW t \in Nat, t # Torn,
         NEW due, due.source \in Source, NEW f \in Nat, NEW n \in Nat, NEW whole,
         CopiedUpTo(<<f, n>>, files, due, whole), Grown(files, more, place, t),
         <<f, n>> \in Owed(due), TimeAt(due.source, <<f, n>>) = t
  PROVE  CopiedUpTo(<<f, n + 1>>, more, due, whole)
<1>1. PICK origin \in [Frames(files) -> Owed(due)] :
         IsOwed(origin, files, due) /\ Reaches(origin, <<f, n>>, files, due, whole)
  BY DEF CopiedUpTo
<1>2. /\ Frames(more) = Frames(files) \cup {place}
      /\ \A p \in Frames(files) : p # place /\ Before(p, place) /\ TimeAt(more, p) = TimeAt(files, p)
      /\ TimeAt(more, place) = t /\ place \in Nat \X Nat
  BY DEF Grown, Frames
<1> DEFINE next == [p \in Frames(more) |-> IF p = place THEN <<f, n>> ELSE origin[p]]
<1>3. next \in [Frames(more) -> Owed(due)]
  BY <1>1, <1>2
<1>4. /\ \A p \in Frames(files) : p \in Frames(more) /\ next[p] = origin[p]
      /\ place \in Frames(more) /\ next[place] = <<f, n>>
  BY <1>2
<1> HIDE DEF next
<1>5. \A p \in Frames(more) : TimeAt(more, p) = TimeAt(due.source, next[p])
  BY <1>1, <1>2, <1>4 DEF IsOwed
<1>6. ASSUME NEW p \in Frames(more), NEW q \in Frames(more), Before(p, q)
      PROVE  Before(next[p], next[q])
  <2>1. CASE p \in Frames(files) /\ q \in Frames(files)
    BY <1>1, <1>4, <1>6, <2>1 DEF IsOwed
  <2>2. CASE p \in Frames(files) /\ q = place
    <3>1. origin[p] \in Owed(due) /\ Before(origin[p], <<f, n>>)
      BY <1>1, <2>2 DEF Reaches
    <3> QED
      BY <1>4, <2>2, <3>1
  <2>3. CASE p = place
    <3>1. q = place \/ Before(q, place)
      BY <1>2
    <3>2. place[1] \in Nat /\ place[2] \in Nat
      BY <1>2
    <3>3. q \in Nat \X Nat
      <4>1. CASE q \in Frames(files)
        BY <4>1, PlacesAre DEF Frames
      <4> QED
        BY <1>2, <4>1
    <3> QED
      BY <1>6, <2>3, <3>1, <3>2, <3>3 DEF Before
  <2> QED
    BY <1>2, <2>1, <2>2, <2>3
<1>7. IsOwed(next, more, due)
  BY <1>5, <1>6 DEF IsOwed
<1>8. ASSUME NEW p \in Frames(more) PROVE Before(next[p], <<f, n + 1>>)
  <2>1. CASE p \in Frames(files)
    <3>1. origin[p] \in Owed(due) /\ Before(origin[p], <<f, n>>) /\ next[p] = origin[p]
      BY <1>1, <1>4, <2>1 DEF Reaches
    <3>2. origin[p][1] \in Nat /\ origin[p][2] \in Nat
      BY <3>1, OwedArePlaces
    <3> QED
      BY <3>1, <3>2 DEF Before
  <2>2. CASE p = place
    BY <1>4, <2>2 DEF Before
  <2> QED
    BY <1>2, <2>1, <2>2
<1>9. ASSUME whole, NEW r \in Owed(due), Before(r, <<f, n + 1>>)
      PROVE  \E p \in Frames(more) : next[p] = r
  <2>1. r \in Places(due.source) /\ r[1] \in Nat /\ r[2] \in Nat
    BY OwedArePlaces
  <2>2. r = <<r[1], r[2]>>
    BY <2>1, PlacesAre
  <2>3. Before(r, <<f, n>>) \/ r = <<f, n>>
    BY <1>9, <2>1, <2>2 DEF Before
  <2>4. Before(r, <<f, n>>) => \E p \in Frames(files) : origin[p] = r
    BY <1>1, <1>9 DEF Reaches
  <2> QED
    BY <1>4, <2>3, <2>4
<1>10. Reaches(next, <<f, n + 1>>, more, due, whole)
  BY <1>8, <1>9 DEF Reaches
<1> QED
  BY <1>3, <1>7, <1>10 DEF CopiedUpTo

LEMMA TornIsCopied ==
  ASSUME NEW files \in Source, NEW more, NEW place, NEW due, due.source \in Source, NEW whole,
         Copied(files, due, whole), Grown(files, more, place, Torn)
  PROVE  Copied(more, due, whole) /\ Frames(more) = Frames(files) /\ Fewer(more, files)
<1>1. /\ Frames(more) = Frames(files)
      /\ \A p \in Frames(files) : TimeAt(more, p) = TimeAt(files, p)
  BY DEF Grown, Frames
<1>2. Fewer(more, files)
  BY <1>1 DEF Fewer
<1> QED
  BY <1>1, <1>2, CutKeepsCopied

LEMMA CursorMoves ==
  ASSUME NEW files, NEW due, NEW c, NEW d, NEW whole, CopiedUpTo(c, files, due, whole),
         \A r \in Owed(due) : Before(r, c) <=> Before(r, d)
  PROVE  CopiedUpTo(d, files, due, whole)
<1>1. PICK origin \in [Frames(files) -> Owed(due)] :
         IsOwed(origin, files, due) /\ Reaches(origin, c, files, due, whole)
  BY DEF CopiedUpTo
<1>2. Reaches(origin, d, files, due, whole)
  BY <1>1 DEF Reaches
<1> QED
  BY <1>1, <1>2 DEF CopiedUpTo

(* A file that is passed over owes nothing.                                *)
LEMMA SkippedIsNotOwed ==
  ASSUME NEW files, NEW due, NEW d, due.source \in Source, NEW f \in Nat, NEW n \in Nat,
         NEW whole, CopiedUpTo(<<f, n>>, files, due, whole),
         \A r \in Owed(due) : r[1] <= f => Before(r, <<f, n>>),
         d.source = due.source, d.lo = due.lo, d.hi = due.hi,
         d.skipped = due.skipped \cup {f + 1}
  PROVE  CopiedUpTo(<<f + 1, 1>>, files, d, whole)
<1>1. Owed(d) = {r \in Owed(due) : r[1] # f + 1}
  BY DEF Owed
<1>2. PICK origin \in [Frames(files) -> Owed(due)] :
         IsOwed(origin, files, due) /\ Reaches(origin, <<f, n>>, files, due, whole)
  BY DEF CopiedUpTo
<1>3. ASSUME NEW p \in Frames(files)
      PROVE  origin[p] \in Owed(d) /\ Before(origin[p], <<f + 1, 1>>)
  <2>1. origin[p] \in Owed(due) /\ Before(origin[p], <<f, n>>)
    BY <1>2 DEF Reaches
  <2>2. origin[p][1] \in Nat
    BY <2>1, OwedArePlaces
  <2> QED
    BY <1>1, <2>1, <2>2 DEF Before
<1>4. origin \in [Frames(files) -> Owed(d)]
  BY <1>2, <1>3
<1>5. ASSUME whole, NEW r \in Owed(d), Before(r, <<f + 1, 1>>)
      PROVE  \E p \in Frames(files) : origin[p] = r
  <2>1. r \in Owed(due) /\ r[1] # f + 1 /\ r[1] \in Nat /\ r[2] \in Nat
    BY <1>1, OwedArePlaces
  <2>2. Before(r, <<f, n>>)
    BY <1>5, <2>1 DEF Before
  <2> QED
    BY <1>2, <1>5, <2>1, <2>2 DEF Reaches
<1>6. Reaches(origin, <<f + 1, 1>>, files, d, whole)
  BY <1>3, <1>5 DEF Reaches
<1>7. IsOwed(origin, files, d)
  BY <1>2 DEF IsOwed
<1> QED
  BY <1>4, <1>6, <1>7 DEF CopiedUpTo

-----------------------------------------------------------------------------
(* The invariant.                                                          *)

Promise == [source : Source, skipped : SUBSET Nat, lo : Nat, hi : Nat]
ClipState ==
    [at : {"file", "frame", "failed"}, id : DOMAIN promise \cap DOMAIN sessionDirs,
     source : Source, file : Nat, next : Nat, lo : Nat, hi : Nat,
     listed : Nat, full : Nat, count : Nat, start : Nat, end : Nat]

Sound(dirs) ==
    /\ dirs \in [DOMAIN dirs -> Directory] /\ IsFiniteSet(DOMAIN dirs)
    /\ \A id \in DOMAIN dirs : dirs[id].meta.chunks <= Len(dirs[id].files)

DiskInv == Sound(sessionDirs) /\ promise \in [DOMAIN promise -> Promise]

(* The list and the selection agree, and the range is that of the          *)
(* selection until it is typed.                                            *)
ListInv ==
    /\ \A i \in DOMAIN sessionList : sessionList[i].start \in Nat /\ sessionList[i].end \in Nat
    /\ 0 \notin DOMAIN sessionList /\ selectedIndex \in {0} \cup DOMAIN sessionList
    /\ rangeText \in Nat \X Nat
    /\ selectedIndex = 0 => sessionList = <<>> \/ stepped
    /\ ~typed /\ selectedIndex # 0 =>
           rangeText = <<ShownTime(sessionList[selectedIndex].start),
                         ShownTime(sessionList[selectedIndex].end)>>

HungInv == hung => selectedIndex = 0 /\ ~Clipping

(* The clip is in the file it has listed last and in the source file it    *)
(* reads, also when it is written over another.                            *)
PlaceInv ==
    Clipping =>
        LET files == sessionDirs[clip.id].files
        IN  /\ clip \in ClipState
            /\ clip.listed <= Len(files)
            /\ clip.listed > 0 => /\ clip.full <= Len(files[clip.listed])
                                  /\ clip.at # "failed" => clip.full = Len(files[clip.listed])
            /\ clip.file <= Len(clip.source)
            /\ clip.at = "frame" =>
                   clip.file > 0 /\ clip.next \in 1..(Len(clip.source[clip.file]) + 1)

(* A clip that goes well has copied what is owed before the place it is    *)
(* at, has met nothing torn, and knows what it has written; of a flawed    *)
(* one, some of it is still in its files.                                  *)
Tells(c, files) ==
    /\ \A p \in Places(files) : TimeAt(files, p) # Torn
    /\ c.count = Cardinality(Places(files))
    /\ c.listed > 0 =>
           /\ <<1, 1>> \in Places(files) /\ c.start = TimeAt(files, <<1, 1>>)
           /\ <<c.listed, c.full>> \in Places(files) /\ c.end = TimeAt(files, <<c.listed, c.full>>)
GoesWell(c, files, due, whole) ==
    /\ CopiedUpTo(<<c.file, c.next>>, files, due, whole)
    /\ c.at = "frame" => c.file \notin due.skipped
    /\ c.at = "file" =>
           \A p \in Places(c.source) :
               p[1] <= c.file /\ p[1] \notin due.skipped => Before(p, <<c.file, c.next>>)
    /\ \A i \in due.skipped : i <= c.file
    /\ \A p \in Places(c.source) :
           Before(p, <<c.file, c.next>>) /\ TimeAt(c.source, p) = Torn => p[1] \in due.skipped
    /\ Len(files) = c.listed /\ Cardinality(Frames(files)) <= c.count
    /\ c.listed = 0 => c.count = 0 /\ c.start = 0
    /\ c.listed > 0 => c.count > 0 /\ c.start # 0
    /\ whole => Tells(c, files)

Copying(c, dir, due, whole) ==
    /\ due.source = c.source /\ dir.meta = NoMeta
    /\ \A p \in Frames(c.source) :
           LET t == TimeAt(c.source, p)
           IN  (due.lo <= t /\ t <= due.hi) <=> (c.lo <= t /\ t <= c.hi)
    /\ c.listed # 0 => \A p \in Frames(dir.files) : p[1] <= c.listed
    /\ c.at # "failed" => GoesWell(c, dir.files, due, whole)

CopyInv ==
    Clipping /\ clip.id \notin reused =>
        Copying(clip, sessionDirs[clip.id], promise[clip.id], clip.id \notin flawed)

ExactInv ==
    \A id \in (DOMAIN promise \cap DOMAIN sessionDirs) \ reused :
        ClipIsExact(sessionDirs[id], promise[id], id \notin flawed)

LibraryInv == DiskInv /\ ListInv /\ HungInv /\ PlaceInv /\ CopyInv /\ ExactInv

-----------------------------------------------------------------------------
(* The list.                                                               *)

LEMMA ShownTimeIs ==
  ASSUME NEW t \in Nat
  PROVE  ShownTime(t) \in Nat /\ ShownTime(t) <= t /\ (Second <= t => ShownTime(t) > 0)
<1>1. t % Second \in 0..(Second - 1) /\ t % Second <= t
  OBVIOUS
<1> QED
  BY <1>1 DEF ShownTime

LEMMA FilesAre ==
  ASSUME NEW dirs, Sound(dirs), NEW id \in DOMAIN dirs
  PROVE  /\ dirs[id] \in Directory /\ dirs[id].files \in Source /\ Files(dirs[id]) \in Source
         /\ dirs[id].meta.start \in Nat /\ dirs[id].meta.end \in Nat
<1>1. dirs[id] \in Directory /\ dirs[id].meta.chunks <= Len(dirs[id].files)
  BY DEF Sound
<1>2. /\ dirs[id].files \in Source /\ dirs[id].meta.chunks \in Nat
      /\ dirs[id].meta.start \in Nat /\ dirs[id].meta.end \in Nat
  BY <1>1 DEF Directory, Source
<1> DEFINE files == dirs[id].files
           n == dirs[id].meta.chunks
<1>3. SubSeq(files, 1, n) \in Seq(Seq(Nat))
  BY <1>1, <1>2 DEF Source
<1> QED
  BY <1>1, <1>2, <1>3 DEF Files, Source

LEMMA ListIs ==
  ASSUME NEW dirs, Sound(dirs), NEW kept, NEW asked, ListSessions(dirs, kept, asked)
  PROVE  ListInv'
<1> DEFINE shown == {id \in DOMAIN dirs : Files(dirs[id]) # <<>>}
<1>1. PICK ids \in SetToSeqs(shown) :
        /\ sessionList' = [i \in DOMAIN ids |-> Row(ids[i], dirs[ids[i]])]
        /\ \E index \in IF {i \in DOMAIN ids : ids[i] = asked} # {}
                        THEN {i \in DOMAIN ids : ids[i] = asked}
                        ELSE IF {i \in DOMAIN ids : ids[i] = kept} # {}
                             THEN {i \in DOMAIN ids : ids[i] = kept}
                             ELSE {IF sessionList' = <<>> THEN 0 ELSE 1} :
               Select(sessionList', index)
        /\ stepped' = FALSE
  BY DEF ListSessions
<1>2. IsFiniteSet(shown)
  BY FS_Subset DEF Sound
<1>3. Cardinality(shown) \in Nat
  BY <1>2, FS_CardinalityType
<1>4. ids \in [1..Cardinality(shown) -> shown]
  BY DEF SetToSeqs
<1>5. /\ DOMAIN sessionList' = 1..Cardinality(shown)
      /\ \A i \in 1..Cardinality(shown) :
             sessionList'[i].start \in Nat /\ sessionList'[i].end \in Nat
  BY <1>1, <1>4, FilesAre DEF Row
<1>6. sessionList' # <<>> => 1 \in DOMAIN sessionList'
  <2>1. ASSUME Cardinality(shown) = 0 PROVE sessionList' = <<>>
    BY <1>1, <1>4, <2>1
  <2> QED
    BY <1>3, <1>5, <2>1
<1>7. PICK index : /\ Select(sessionList', index)
                   /\ index \in DOMAIN sessionList' \/ (index = 0 /\ sessionList' = <<>>)
  BY <1>1, <1>4, <1>5, <1>6
<1>8. 0 \notin DOMAIN sessionList'
  BY <1>5
<1>9. CASE index = 0
  BY <1>5, <1>7, <1>8, <1>9 DEF ListInv, Select
<1>10. CASE index \in DOMAIN sessionList'
  <2>1. /\ ShownTime(sessionList'[index].start) \in Nat
        /\ ShownTime(sessionList'[index].end) \in Nat
    BY <1>5, <1>10, ShownTimeIs
  <2>2. /\ selectedIndex' = index /\ index # 0
        /\ rangeText' = <<ShownTime(sessionList'[index].start), ShownTime(sessionList'[index].end)>>
    BY <1>7, <1>8, <1>10 DEF Select
  <2>3. rangeText' \in Nat \X Nat
    BY <2>1, <2>2
  <2> QED
    BY <1>5, <1>8, <1>10, <2>2, <2>3 DEF ListInv
<1> QED
  BY <1>7, <1>9, <1>10

-----------------------------------------------------------------------------
(* Directories that are removed, or lose their files.                      *)

LEMMA CopiedIsExact ==
  ASSUME NEW dir, NEW due, NEW whole
  PROVE  /\ Copied(dir.files, due, whole) /\ ~dir.meta.here => ClipIsExact(dir, due, whole)
         /\ ClipIsExact(dir, due, whole) => Copied(dir.files, due, whole)
BY DEF Copied, ClipIsExact

LEMMA LostIsExact ==
  ASSUME NEW dir, NEW due, Copied(dir.files, due, FALSE),
         dir.meta.here => Cardinality(Frames(dir.files)) <= dir.meta.count
  PROVE  ClipIsExact(dir, due, FALSE)
BY DEF Copied, ClipIsExact

LEMMA EmptyIsExact ==
  ASSUME NEW due \in Promise
  PROVE  ClipIsExact(EmptyDir, due, TRUE) /\ EmptyDir \in Directory /\ EmptyDir.files = <<>>
         /\ EmptyDir.meta = NoMeta /\ NoMeta.chunks = 0
<1>1. EmptyDir.files = <<>> /\ EmptyDir.meta = NoMeta /\ ~NoMeta.here /\ NoMeta.chunks = 0
  BY DEF EmptyDir, NoMeta
<1>2. EmptyDir \in Directory
  BY DEF EmptyDir, NoMeta, Directory
<1>3. due.source \in Source
  BY DEF Promise
<1>4. Copied(EmptyDir.files, due, TRUE)
  BY <1>1, <1>3, NothingIsCopied
<1>5. ~EmptyDir.meta.here
  BY <1>1
<1> QED
  BY <1>1, <1>2, <1>4, <1>5, CopiedIsExact

LEMMA EmptyIsDirectory == EmptyDir \in Directory /\ EmptyDir.meta.chunks <= Len(EmptyDir.files)
  BY DEF EmptyDir, NoMeta, Directory

(* What is left of a directory, whatever was lost.                         *)
Lesser(less, dir) ==
    /\ less \in Directory /\ less.meta.chunks <= Len(less.files)
    /\ Fewer(less.files, dir.files) /\ less.meta \in {dir.meta, NoMeta}

LEMMA LesserIsExact ==
  ASSUME NEW dir \in Directory, NEW less, NEW due, NEW whole,
         ClipIsExact(dir, due, whole), Lesser(less, dir)
  PROVE  ClipIsExact(less, due, FALSE)
<1>1. Copied(dir.files, due, whole)
  BY CopiedIsExact
<1>2. Fewer(less.files, dir.files)
  BY DEF Lesser
<1>3. Copied(less.files, due, FALSE)
  BY <1>1, <1>2, LessIsCopied
<1>4. ASSUME less.meta.here PROVE Cardinality(Frames(less.files)) <= less.meta.count
  <2>1. less.meta = dir.meta /\ dir.meta.here
    BY <1>4 DEF Lesser, NoMeta
  <2>2. Cardinality(Frames(dir.files)) <= dir.meta.count
    <3>1. CASE whole
      <4>1. dir.meta.count = Cardinality(Places(dir.files)) /\ Frames(dir.files) = Places(dir.files)
        BY <2>1, <3>1 DEF ClipIsExact
      <4>2. dir.meta.count \in Nat
        BY DEF Directory
      <4> QED
        BY <4>1, <4>2
    <3>2. CASE ~whole
      BY <2>1, <3>2 DEF ClipIsExact
    <3> QED
      BY <3>1, <3>2
  <2>3. dir.files \in Source
    BY DEF Directory, Source
  <2>4. IsFiniteSet(Frames(dir.files))
    BY <2>3, PlacesAreFinite
  <2>5. /\ IsFiniteSet(Frames(less.files))
        /\ Cardinality(Frames(less.files)) <= Cardinality(Frames(dir.files))
    BY <1>2, <2>4, FS_Subset DEF Fewer
  <2>6. /\ Cardinality(Frames(less.files)) \in Nat /\ Cardinality(Frames(dir.files)) \in Nat
        /\ dir.meta.count \in Nat
    BY <2>4, <2>5, FS_CardinalityType DEF Directory
  <2> QED
    BY <2>1, <2>2, <2>5, <2>6
<1> QED
  BY <1>3, <1>4, LostIsExact

Shrinks(dirs, lost) ==
    /\ dirs = [id \in DOMAIN dirs |-> dirs[id]] /\ DOMAIN dirs \subseteq DOMAIN sessionDirs
    /\ \A id \in DOMAIN dirs :
           \/ dirs[id] = sessionDirs[id] /\ (id \in lost <=> id \in flawed)
           \/ Lesser(dirs[id], sessionDirs[id]) /\ (id \in DOMAIN promise => id \in lost)

LEMMA ShrinkKeeps ==
  ASSUME DiskInv, ExactInv, Shrinks(sessionDirs', flawed'), promise' = promise, reused' = reused
  PROVE  DiskInv' /\ ExactInv'
<1>1. Sound(sessionDirs')
  <2>1. IsFiniteSet(DOMAIN sessionDirs')
    BY FS_Subset DEF DiskInv, Sound, Shrinks
  <2>2. ASSUME NEW id \in DOMAIN sessionDirs'
        PROVE  /\ sessionDirs'[id] \in Directory
               /\ sessionDirs'[id].meta.chunks <= Len(sessionDirs'[id].files)
    BY DEF DiskInv, Sound, Shrinks, Lesser
  <2>3. sessionDirs' \in [DOMAIN sessionDirs' -> Directory]
    BY <2>2 DEF Shrinks
  <2> QED
    BY <2>1, <2>2, <2>3 DEF Sound
<1>2. ASSUME NEW id \in (DOMAIN promise \cap DOMAIN sessionDirs') \ reused
      PROVE  ClipIsExact(sessionDirs'[id], promise[id], id \notin flawed')
  <2>1. id \in (DOMAIN promise \cap DOMAIN sessionDirs) \ reused
    BY DEF Shrinks
  <2>2. ClipIsExact(sessionDirs[id], promise[id], id \notin flawed)
    BY <2>1 DEF ExactInv
  <2>3. CASE sessionDirs'[id] = sessionDirs[id] /\ (id \in flawed' <=> id \in flawed)
    BY <2>2, <2>3 DEF ClipIsExact
  <2>4. CASE Lesser(sessionDirs'[id], sessionDirs[id]) /\ id \in flawed'
    <3>1. sessionDirs[id] \in Directory
      BY <2>1 DEF DiskInv, Sound
    <3>2. ClipIsExact(sessionDirs'[id], promise[id], FALSE)
      BY <2>2, <2>4, <3>1, LesserIsExact
    <3> QED
      BY <2>4, <3>2 DEF ClipIsExact
  <2> QED
    BY <2>3, <2>4 DEF Shrinks
<1>3. DiskInv'
  BY <1>1 DEF DiskInv
<1>4. ExactInv'
  BY <1>2 DEF ExactInv
<1> QED
  BY <1>3, <1>4

LEMMA WithoutShrinks ==
  ASSUME NEW id
  PROVE  Shrinks(Without(sessionDirs, id), flawed)
BY DEF Shrinks, Without

LEMMA LosesShrinks ==
  ASSUME DiskInv, NEW id \in DOMAIN sessionDirs, NEW dir, Lesser(dir, sessionDirs[id]),
         Loses(id, dir, sessionDirs[id])
  PROVE  Shrinks(sessionDirs', flawed')
<1>1. sessionDirs \in [DOMAIN sessionDirs -> Directory]
  BY DEF DiskInv, Sound
<1>2. /\ DOMAIN sessionDirs' = DOMAIN sessionDirs /\ sessionDirs'[id] = dir
      /\ \A other \in DOMAIN sessionDirs : other # id => sessionDirs'[other] = sessionDirs[other]
      /\ sessionDirs' = [other \in DOMAIN sessionDirs' |-> sessionDirs'[other]]
  BY <1>1 DEF Loses
<1>3. ASSUME NEW other \in DOMAIN sessionDirs, other # id
      PROVE  other \in flawed' <=> other \in flawed
  BY <1>3 DEF Loses
<1>4. CASE dir = sessionDirs[id]
  <2>1. flawed' = flawed
    BY <1>4 DEF Loses
  <2> QED
    BY <1>2, <1>4, <2>1 DEF Shrinks
<1>5. CASE dir # sessionDirs[id]
  <2>1. id \in DOMAIN promise => id \in flawed'
    BY <1>5 DEF Loses
  <2> QED
    BY <1>2, <1>3, <2>1 DEF Shrinks
<1> QED
  BY <1>4, <1>5

LEMMA FewerIsTransitive ==
  ASSUME NEW a, NEW b, NEW c, Fewer(a, b), Fewer(b, c)
  PROVE  Fewer(a, c)
BY DEF Fewer

LEMMA RemainderIs ==
  ASSUME NEW dir \in Directory, dir.meta.chunks <= Len(dir.files), NEW less \in Remainders(dir)
  PROVE  Lesser(less, dir)
<1>1. PICK kept \in SUBSET DOMAIN dir.files, meta \in {dir.meta, NoMeta} :
         less = Remainder(dir, kept, meta)
  BY DEF Remainders
<1>2. CASE less = EmptyDir
  <2>1. EmptyDir.files = <<>> /\ EmptyDir.meta = NoMeta
    BY DEF EmptyDir
  <2>2. Frames(<<>>) = {}
    BY DEF Frames, Places
  <2> QED
    BY <1>2, <2>1, <2>2, EmptyIsDirectory DEF Lesser, Fewer
<1> DEFINE files == [i \in DOMAIN dir.files |-> IF i \in kept THEN dir.files[i] ELSE <<>>]
<1>3. CASE less = [files |-> files, meta |-> meta]
  <2>1. /\ dir.files \in Source /\ dir.meta.chunks \in Nat
        /\ dir.meta \in [here : BOOLEAN, chunks : Nat, count : Nat, start : Nat, end : Nat]
    BY DEF Directory, Source
  <2>2. /\ DOMAIN dir.files = 1..Len(dir.files) /\ Len(dir.files) \in Nat
        /\ \A i \in 1..Len(dir.files) : dir.files[i] \in Seq(Nat)
    BY <2>1 DEF Source
  <2>3. files \in [1..Len(dir.files) -> Seq(Nat)]
    <3>1. \A i \in 1..Len(dir.files) : (IF i \in kept THEN dir.files[i] ELSE <<>>) \in Seq(Nat)
      BY <2>2
    <3> QED
      BY <2>2, <3>1
  <2>4. \A i \in 1..Len(dir.files) : files[i] = dir.files[i] \/ files[i] = <<>>
    BY <2>2
  <2> HIDE DEF files
  <2>5. files \in Source /\ Len(files) = Len(dir.files)
    BY <2>2, <2>3 DEF Source
  <2>6. ASSUME NEW p \in Frames(files)
        PROVE  p \in Frames(dir.files) /\ TimeAt(files, p) = TimeAt(dir.files, p)
    <3>1. p \in Places(files) /\ TimeAt(files, p) # Torn
      BY DEF Frames
    <3>2. p[1] \in 1..Len(dir.files) /\ p[2] \in 1..Len(files[p[1]]) /\ p = <<p[1], p[2]>>
      BY <2>5, <3>1, PlacesAre
    <3>3. files[p[1]] # <<>>
      BY <3>2
    <3>4. files[p[1]] = dir.files[p[1]]
      BY <2>4, <3>2, <3>3
    <3>5. <<p[1], p[2]>> \in Places(dir.files)
      BY <2>1, <3>2, <3>4, PlacesAre
    <3> QED
      BY <3>1, <3>2, <3>4, <3>5 DEF Frames, TimeAt
  <2>7. Fewer(files, dir.files)
    BY <2>6 DEF Fewer
  <2>8. /\ NoMeta \in [here : BOOLEAN, chunks : Nat, count : Nat, start : Nat, end : Nat]
        /\ NoMeta.chunks = 0
    BY DEF NoMeta
  <2>9. meta.chunks <= Len(files)
    BY <2>1, <2>2, <2>5, <2>8
  <2>10. less \in Directory
    BY <1>3, <2>1, <2>5, <2>8 DEF Directory, Source
  <2> QED
    BY <1>3, <2>7, <2>9, <2>10 DEF Lesser
<1> QED
  BY <1>1, <1>2, <1>3 DEF Remainder

LEMMA ListActions ==
  ASSUME LibraryInv,
         RefreshSessionList \/ OpenDirectory \/ SelectSession \/ EditRange \/ PressWithoutSession
  PROVE  LibraryInv'
<1>1. ~Clipping /\ ~hung
  BY DEF RefreshSessionList, OpenDirectory, SelectSession, EditRange, PressWithoutSession,
         Free, Clipping
<1>2. /\ sessionDirs' = sessionDirs /\ clip' = clip /\ promise' = promise /\ reused' = reused
      /\ flawed' = flawed
      /\ hung' => PressWithoutSession
  BY <1>1 DEF RefreshSessionList, OpenDirectory, SelectSession, EditRange, PressWithoutSession,
              KeepsDisk
<1>3. ListInv'
  <2>1. CASE RefreshSessionList \/ OpenDirectory
    BY <2>1, ListIs DEF LibraryInv, DiskInv, RefreshSessionList, OpenDirectory
  <2>2. CASE SelectSession
    <3>1. PICK i : SetSelectedSessionIndex(i)
      BY <2>2 DEF SelectSession
    <3> DEFINE index == IF i \in DOMAIN sessionList THEN i ELSE 0
    <3>2. /\ index # selectedIndex /\ Select(sessionList, index)
          /\ stepped' = (index = 0) /\ sessionList' = sessionList
      BY <3>1 DEF SetSelectedSessionIndex
    <3>3. index \in {0} \cup DOMAIN sessionList
      OBVIOUS
    <3> HIDE DEF index
    <3>4. CASE index = 0
      BY <3>2, <3>4 DEF Select, ListInv, LibraryInv
    <3>5. CASE index # 0
      <4>1. /\ ShownTime(sessionList[index].start) \in Nat
            /\ ShownTime(sessionList[index].end) \in Nat
        BY <3>3, <3>5, ShownTimeIs DEF LibraryInv, ListInv
      <4>2. /\ rangeText' = <<ShownTime(sessionList[index].start),
                              ShownTime(sessionList[index].end)>>
            /\ selectedIndex' = index
        BY <3>2, <3>5 DEF Select
      <4>3. rangeText' \in Nat \X Nat
        BY <4>1, <4>2
      <4> QED
        BY <3>2, <3>3, <3>5, <4>2, <4>3 DEF ListInv, LibraryInv
    <3> QED
      BY <3>4, <3>5
  <2>3. CASE EditRange
    <3>1. Typed \subseteq Nat \X Nat
      BY LibraryAssumption
    <3> QED
      BY <2>3, <3>1 DEF EditRange, ListInv, LibraryInv
  <2>4. CASE PressWithoutSession
    BY <2>4 DEF PressWithoutSession, listVars, ListInv, LibraryInv
  <2> QED
    BY <2>1, <2>2, <2>3, <2>4
<1>4. HungInv'
  BY <1>1, <1>2 DEF HungInv, Clipping, PressWithoutSession, listVars
<1>5. ~Clipping'
  BY <1>1, <1>2 DEF Clipping
<1>6. DiskInv' /\ ExactInv'
  BY <1>2 DEF LibraryInv, DiskInv, Sound, ExactInv
<1> QED
  BY <1>3, <1>4, <1>5, <1>6 DEF LibraryInv, PlaceInv, CopyInv

-----------------------------------------------------------------------------
(* The program ends, also in the middle of a clip.                         *)

LEMMA JoinedIs ==
  ASSUME NEW a \in Seq(Nat), NEW b \in Seq(Nat)
  PROVE  /\ a \o b \in Seq(Nat) /\ Len(a \o b) = Len(a) + Len(b)
         /\ \A k \in 1..Len(a) : (a \o b)[k] = a[k]
         /\ \A k \in 1..Len(b) : (a \o b)[Len(a) + k] = b[k]
OBVIOUS

LEMMA CutFileIs ==
  ASSUME NEW files \in Source, NEW n \in 1..Len(files), NEW keep \in 0..Len(files[n]),
         NEW end \in {<<>>, <<Torn>>}
  PROVE  LET less == Cut(files, n, keep, end)
         IN  /\ less \in Source /\ Len(less) = Len(files) /\ Fewer(less, files)
             /\ (\A p \in Frames(files) : p[1] <= n) =>
                    \A p \in Frames(less) : \A q \in Frames(files) :
                        Before(q, p) => q \in Frames(less)
<1> DEFINE cut == SubSeq(files[n], 1, keep) \o end
           less == [files EXCEPT ![n] = cut]
<1>1. /\ files[n] \in Seq(Nat) /\ Len(files[n]) \in Nat /\ keep \in Nat /\ keep <= Len(files[n])
      /\ n \in Nat /\ Len(files) \in Nat
  BY DEF Source
<1>2. /\ SubSeq(files[n], 1, keep) \in Seq(Nat) /\ Len(SubSeq(files[n], 1, keep)) = keep
      /\ \A k \in 1..keep : SubSeq(files[n], 1, keep)[k] = files[n][k]
  BY <1>1
<1>3. end \in Seq(Nat) /\ Len(end) \in 0..1 /\ (Len(end) = 1 => end[1] = Torn)
  <2>1. CASE end = <<>>
    BY <2>1
  <2>2. CASE end = <<Torn>>
    <3>1. Torn \in Nat
      BY DEF Torn
    <3> QED
      BY <2>2, <3>1
  <2> QED
    BY <2>1, <2>2
<1>4. /\ cut \in Seq(Nat) /\ Len(cut) \in keep..(keep + 1)
      /\ \A k \in 1..keep : cut[k] = files[n][k]
      /\ Len(cut) = keep + 1 => cut[keep + 1] = Torn
  <2> DEFINE head == SubSeq(files[n], 1, keep)
  <2>1. head \in Seq(Nat) /\ Len(head) = keep /\ \A k \in 1..keep : head[k] = files[n][k]
    BY <1>2
  <2>2. cut = head \o end
    OBVIOUS
  <2> HIDE DEF head, cut
  <2>3. end \in Seq(Nat)
    BY <1>3
  <2>4. /\ cut \in Seq(Nat) /\ Len(cut) = Len(head) + Len(end)
        /\ \A k \in 1..Len(head) : cut[k] = head[k]
        /\ \A k \in 1..Len(end) : cut[Len(head) + k] = end[k]
    BY <2>1, <2>2, <2>3, JoinedIs
  <2>5. Len(end) = 0 \/ (Len(end) = 1 /\ end[1] = Torn)
    BY <1>3
  <2>6. CASE Len(end) = 0
    BY <1>1, <2>1, <2>4, <2>6
  <2>7. CASE Len(end) = 1 /\ end[1] = Torn
    <3>1. 1 \in 1..Len(end)
      BY <2>7
    <3>2. cut[Len(head) + 1] = end[1]
      BY <2>4, <3>1
    <3> QED
      BY <1>1, <2>1, <2>4, <2>7, <3>2
  <2> QED
    BY <2>5, <2>6, <2>7
<1> HIDE DEF cut
<1>5. /\ less \in Source /\ Len(less) = Len(files) /\ less[n] = cut
      /\ \A i \in 1..Len(files) : i # n => less[i] = files[i]
  <2>1. less \in Seq(Seq(Nat)) /\ Len(less) = Len(files)
    BY <1>4 DEF Source
  <2> QED
    BY <1>1, <2>1 DEF Source
<1> HIDE DEF less
<1>6. ASSUME NEW p \in Frames(less)
      PROVE  /\ p \in Frames(files) /\ TimeAt(less, p) = TimeAt(files, p)
             /\ p[1] \in Nat /\ p[2] \in Nat /\ (p[1] = n => p[2] <= keep)
  <2>1. p \in Places(less) /\ TimeAt(less, p) # Torn
    BY DEF Frames
  <2>2. p[1] \in 1..Len(files) /\ p[2] \in 1..Len(less[p[1]]) /\ p = <<p[1], p[2]>>
    BY <1>5, <2>1, PlacesAre
  <2>3. CASE p[1] = n
    <3>1. p[2] \in 1..Len(cut) /\ cut[p[2]] # Torn
      BY <1>5, <2>1, <2>2, <2>3 DEF TimeAt
    <3>2. p[2] \in 1..keep
      BY <1>1, <1>4, <3>1
    <3>3. p[2] \in 1..Len(files[n]) /\ cut[p[2]] = files[n][p[2]]
      <4>1. cut[p[2]] = files[n][p[2]]
        BY <1>4, <3>2
      <4>2. p[2] \in 1..Len(files[n])
        BY <1>1, <3>2
      <4> QED
        BY <4>1, <4>2
    <3>4. p \in Places(files)
      BY <2>2, <2>3, <3>3, PlacesAre
    <3>5. TimeAt(less, p) = TimeAt(files, p)
      BY <1>5, <2>3, <3>3 DEF TimeAt
    <3> QED
      BY <1>1, <2>1, <2>3, <3>2, <3>4, <3>5 DEF Frames
  <2>4. CASE p[1] # n
    <3>1. less[p[1]] = files[p[1]]
      BY <1>5, <2>2, <2>4
    <3>2. p \in Places(files)
      BY <2>2, <3>1, PlacesAre
    <3>3. TimeAt(less, p) = TimeAt(files, p)
      BY <3>1 DEF TimeAt
    <3> QED
      BY <2>1, <2>4, <3>2, <3>3, PlacesAre DEF Frames
  <2> QED
    BY <2>3, <2>4
<1>7. ASSUME \A p \in Frames(files) : p[1] <= n,
             NEW p \in Frames(less), NEW q \in Frames(files), Before(q, p)
      PROVE  q \in Frames(less)
  <2>1. q \in Places(files) /\ TimeAt(files, q) # Torn
    BY DEF Frames
  <2>2. /\ q[1] \in 1..Len(files) /\ q[2] \in 1..Len(files[q[1]]) /\ q = <<q[1], q[2]>>
        /\ q[1] \in Nat /\ q[2] \in Nat
    BY <2>1, PlacesAre
  <2>3. p[1] \in Nat /\ p[2] \in Nat /\ (p[1] = n => p[2] <= keep) /\ p[1] <= n
    BY <1>6, <1>7
  <2>4. CASE q[1] = n
    <3>1. q[2] \in 1..keep
      BY <1>1, <1>7, <2>2, <2>3, <2>4 DEF Before
    <3>2. q[2] \in 1..Len(cut) /\ cut[q[2]] = files[n][q[2]]
      <4>1. Len(cut) \in Nat /\ keep <= Len(cut)
        BY <1>1, <1>4
      <4>2. cut[q[2]] = files[n][q[2]]
        BY <1>4, <3>1
      <4>3. q[2] \in 1..Len(cut)
        BY <1>1, <3>1, <4>1
      <4> QED
        BY <4>2, <4>3
    <3>3. q \in Places(less)
      BY <1>1, <1>5, <2>2, <2>4, <3>2, PlacesAre
    <3>4. TimeAt(less, q) = TimeAt(files, q)
      BY <1>5, <2>4, <3>2 DEF TimeAt
    <3> QED
      BY <2>1, <3>3, <3>4 DEF Frames
  <2>5. CASE q[1] # n
    <3>1. less[q[1]] = files[q[1]]
      BY <1>5, <2>2, <2>5
    <3>2. q \in Places(less)
      BY <1>5, <2>2, <3>1, PlacesAre
    <3>3. TimeAt(less, q) = TimeAt(files, q)
      BY <3>1 DEF TimeAt
    <3> QED
      BY <2>1, <3>2, <3>3 DEF Frames
  <2> QED
    BY <2>4, <2>5
<1>8. less = Cut(files, n, keep, end)
  BY DEF less, cut, Cut
<1>9. Fewer(less, files)
  BY <1>6 DEF Fewer
<1> QED
  BY <1>5, <1>7, <1>8, <1>9

LEMMA ReplaceIs ==
  ASSUME DiskInv, NEW id \in DOMAIN sessionDirs, NEW dir \in Directory,
         dir.meta.chunks <= Len(dir.files)
  PROVE  LET dirs == [sessionDirs EXCEPT ![id] = dir]
         IN  /\ Sound(dirs) /\ DOMAIN dirs = DOMAIN sessionDirs /\ dirs[id] = dir
             /\ \A other \in DOMAIN dirs : other # id => dirs[other] = sessionDirs[other]
<1> DEFINE dirs == [sessionDirs EXCEPT ![id] = dir]
<1>1. /\ sessionDirs \in [DOMAIN sessionDirs -> Directory] /\ IsFiniteSet(DOMAIN sessionDirs)
      /\ \A i \in DOMAIN sessionDirs : sessionDirs[i].meta.chunks <= Len(sessionDirs[i].files)
  BY DEF DiskInv, Sound
<1>2. /\ DOMAIN dirs = DOMAIN sessionDirs /\ dirs[id] = dir
      /\ \A other \in DOMAIN dirs : other # id => dirs[other] = sessionDirs[other]
      /\ dirs \in [DOMAIN dirs -> Directory]
  BY <1>1
<1> HIDE DEF dirs
<1>3. ASSUME NEW i \in DOMAIN dirs PROVE dirs[i].meta.chunks <= Len(dirs[i].files)
  BY <1>1, <1>2
<1>4. Sound(dirs)
  BY <1>1, <1>2, <1>3 DEF Sound
<1> QED
  BY <1>2, <1>4 DEF dirs

LEMMA DirectoryIs ==
  ASSUME DiskInv, NEW id \in DOMAIN sessionDirs, NEW more \in Source,
         Len(more) >= Len(sessionDirs[id].files)
  PROVE  LET dirs == [sessionDirs EXCEPT ![id].files = more]
         IN  /\ Sound(dirs) /\ DOMAIN dirs = DOMAIN sessionDirs
             /\ dirs[id].files = more /\ dirs[id].meta = sessionDirs[id].meta
             /\ \A other \in DOMAIN dirs : other # id => dirs[other] = sessionDirs[other]
<1> DEFINE dirs == [sessionDirs EXCEPT ![id].files = more]
<1>1. /\ sessionDirs \in [DOMAIN sessionDirs -> Directory] /\ IsFiniteSet(DOMAIN sessionDirs)
      /\ \A i \in DOMAIN sessionDirs : sessionDirs[i].meta.chunks <= Len(sessionDirs[i].files)
  BY DEF DiskInv, Sound
<1>2. /\ sessionDirs[id] \in Directory /\ sessionDirs[id].meta.chunks \in Nat
      /\ Len(sessionDirs[id].files) \in Nat /\ Len(more) \in Nat
  BY <1>1 DEF Directory, Source
<1>3. [sessionDirs[id] EXCEPT !.files = more] \in Directory
  BY <1>2 DEF Directory, Source
<1>4. /\ DOMAIN dirs = DOMAIN sessionDirs /\ dirs[id] = [sessionDirs[id] EXCEPT !.files = more]
      /\ \A other \in DOMAIN dirs : other # id => dirs[other] = sessionDirs[other]
  BY <1>1
<1>5. dirs[id].files = more /\ dirs[id].meta = sessionDirs[id].meta
  BY <1>2, <1>4 DEF Directory
<1>6. dirs \in [DOMAIN dirs -> Directory]
  BY <1>1, <1>3, <1>4
<1> HIDE DEF dirs
<1>7. ASSUME NEW i \in DOMAIN dirs PROVE dirs[i].meta.chunks <= Len(dirs[i].files)
  <2>1. CASE i = id
    <3>1. sessionDirs[id].meta.chunks <= Len(sessionDirs[id].files)
      BY <1>1
    <3> QED
      BY <1>2, <1>5, <2>1, <3>1
  <2>2. CASE i # id
    BY <1>1, <1>4, <2>2
  <2> QED
    BY <2>1, <2>2
<1>8. Sound(dirs)
  BY <1>1, <1>4, <1>6, <1>7 DEF Sound
<1> QED
  BY <1>4, <1>5, <1>8 DEF dirs

LEMMA RestartKeeps ==
  ASSUME LibraryInv, Restart
  PROVE  LibraryInv'
<1>1. /\ ListSessions(sessionDirs', NoSelection, NoSelection)
      /\ ~Clipping' /\ ~hung' /\ promise' = promise /\ reused' = reused
      /\ flawed' = flawed
  BY DEF Restart, Clipping, IdleClip
<1>2. DiskInv' /\ ExactInv'
  <2>1. CASE sessionDirs' = sessionDirs
    BY <1>1, <2>1 DEF LibraryInv, DiskInv, Sound, ExactInv
  <2>2. CASE ~(sessionDirs' = sessionDirs)
    <3> DEFINE id == clip.id
               files == sessionDirs[id].files
               n == clip.listed
    <3>1. /\ Clipping /\ n # 0
          /\ \E keep \in 0..clip.full, end \in {<<>>, <<Torn>>} :
                 sessionDirs' = [sessionDirs EXCEPT ![id].files = Cut(@, n, keep, end)]
      BY <2>2 DEF Restart
    <3>2. PICK keep \in 0..clip.full, end \in {<<>>, <<Torn>>} :
             sessionDirs' = [sessionDirs EXCEPT ![id].files = Cut(@, n, keep, end)]
      BY <3>1
    <3> DEFINE less == Cut(files, n, keep, end)
    <3>3. /\ id \in DOMAIN sessionDirs /\ id \in DOMAIN promise /\ n \in Nat /\ n <= Len(files)
          /\ clip.full \in Nat /\ clip.full <= Len(files[n])
      BY <3>1 DEF LibraryInv, PlaceInv, ClipState
    <3>4. files \in Source /\ sessionDirs[id] \in Directory
      BY <3>3, FilesAre DEF LibraryInv, DiskInv
    <3>5. sessionDirs' = [sessionDirs EXCEPT ![id].files = less]
      BY <3>2
    <3> HIDE DEF files, n
    <3>6. n \in 1..Len(files) /\ keep \in 0..Len(files[n])
      <4>1. Len(files) \in Nat /\ files[n] \in Seq(Nat)
        BY <3>1, <3>3, <3>4 DEF Source
      <4> QED
        BY <3>1, <3>3, <4>1
    <3>7. less \in Source /\ Len(less) = Len(files)
      <4>1. less \in Seq(Seq(Nat)) /\ Len(less) = Len(files)
        <5>1. files[n] \in Seq(Nat) /\ end \in Seq(Nat)
          <6>1. Torn \in Nat
            BY DEF Torn
          <6>2. <<>> \in Seq(Nat) /\ <<Torn>> \in Seq(Nat)
            BY <6>1
          <6>3. end \in Seq(Nat)
            BY <3>2, <6>2
          <6>4. files[n] \in Seq(Nat)
            BY <3>4, <3>6 DEF Source
          <6> QED
            BY <6>3, <6>4
        <5>2. SubSeq(files[n], 1, keep) \in Seq(Nat)
          BY <3>6, <5>1
        <5>3. SubSeq(files[n], 1, keep) \o end \in Seq(Nat)
          BY <5>1, <5>2
        <5> QED
          BY <3>4, <3>6, <5>3 DEF Source, Cut
      <4> QED
        BY <4>1 DEF Source
    <3> HIDE DEF less
    <3>8. /\ Sound(sessionDirs') /\ DOMAIN sessionDirs' = DOMAIN sessionDirs
          /\ sessionDirs'[id].files = less /\ sessionDirs'[id].meta = sessionDirs[id].meta
          /\ \A other \in DOMAIN sessionDirs : other # id => sessionDirs'[other] = sessionDirs[other]
      <4>1. Len(less) >= Len(sessionDirs[id].files)
        BY <3>4, <3>7 DEF files, Source
      <4> QED
        BY <3>3, <3>5, <3>7, <4>1, DirectoryIs DEF LibraryInv
    <3>9. ASSUME id \notin reused
          PROVE  ClipIsExact(sessionDirs'[id], promise[id], id \notin flawed)
      <4>1. /\ ClipIsExact(sessionDirs[id], promise[id], id \notin flawed)
            /\ Copying(clip, sessionDirs[id], promise[id], id \notin flawed)
        BY <3>1, <3>3, <3>9 DEF LibraryInv, ExactInv, CopyInv
      <4>2. promise[id].source \in Source
        BY <3>3 DEF LibraryInv, DiskInv, Promise
      <4>3. Copied(files, promise[id], id \notin flawed)
        BY <4>1, CopiedIsExact DEF files
      <4>4. \A p \in Frames(files) : p[1] <= n
        BY <3>1, <4>1 DEF Copying, files, n
      <4>5. /\ Fewer(less, files)
            /\ \A p \in Frames(less) : \A q \in Frames(files) : Before(q, p) => q \in Frames(less)
        BY <3>4, <3>6, <4>4, CutFileIs DEF less
      <4>6. Copied(less, promise[id], id \notin flawed)
        BY <3>4, <4>2, <4>3, <4>5, CutKeepsCopied
      <4>7. ~sessionDirs'[id].meta.here
        BY <3>8, <4>1 DEF Copying, NoMeta
      <4> QED
        BY <3>8, <4>6, <4>7, CopiedIsExact
    <3>10. ExactInv'
      <4>1. ASSUME NEW other \in (DOMAIN promise \cap DOMAIN sessionDirs) \ reused, other # id
            PROVE  ClipIsExact(sessionDirs'[other], promise[other], other \notin flawed)
        BY <3>8, <4>1 DEF LibraryInv, ExactInv
      <4> QED
        BY <1>1, <3>8, <3>9, <4>1 DEF ExactInv
    <3>11. DiskInv'
      BY <1>1, <3>8 DEF LibraryInv, DiskInv
    <3> QED
      BY <3>10, <3>11
  <2> QED
    BY <2>1, <2>2
<1>3. ListInv'
  BY <1>1, <1>2, ListIs DEF DiskInv
<1> QED
  BY <1>1, <1>2, <1>3 DEF LibraryInv, HungInv, PlaceInv, CopyInv

-----------------------------------------------------------------------------
(* A clip goes on.                                                         *)

LEMMA ClipGoesOn ==
  ASSUME LibraryInv, Clipping, Clipping', UNCHANGED <<listVars, hung, reused>>,
         flawed' \in {flawed, flawed \cup {clip.id}},
         clip'.id = clip.id, NEW more \in Source, NEW due \in Promise,
         Len(more) >= Len(sessionDirs[clip.id].files),
         sessionDirs' = [sessionDirs EXCEPT ![clip.id].files = more],
         promise' = [promise EXCEPT ![clip.id] = due],
         PlaceInv',
         clip.id \notin reused =>
             /\ Copied(more, due, clip.id \notin flawed')
             /\ Copying(clip', sessionDirs'[clip.id], due, clip.id \notin flawed')
  PROVE  LibraryInv'
<1> DEFINE id == clip.id
<1>1. id \in DOMAIN sessionDirs /\ id \in DOMAIN promise
  BY DEF LibraryInv, PlaceInv, ClipState
<1>2. /\ Sound(sessionDirs') /\ DOMAIN sessionDirs' = DOMAIN sessionDirs
      /\ sessionDirs'[id].files = more
      /\ \A other \in DOMAIN sessionDirs : other # id => sessionDirs'[other] = sessionDirs[other]
  <2> DEFINE dirs == [sessionDirs EXCEPT ![id].files = more]
  <2>1. /\ Sound(dirs) /\ DOMAIN dirs = DOMAIN sessionDirs
        /\ dirs[id].files = more /\ dirs[id].meta = sessionDirs[id].meta
        /\ \A other \in DOMAIN dirs : other # id => dirs[other] = sessionDirs[other]
    BY <1>1, DirectoryIs DEF LibraryInv
  <2>2. sessionDirs' = dirs
    OBVIOUS
  <2> HIDE DEF dirs, id
  <2> QED
    BY <2>1, <2>2
<1>3. /\ promise' \in [DOMAIN promise' -> Promise] /\ DOMAIN promise' = DOMAIN promise
      /\ promise'[id] = due
      /\ \A other \in DOMAIN promise : other # id => promise'[other] = promise[other]
  BY <1>1 DEF LibraryInv, DiskInv
<1>4. DiskInv'
  BY <1>2, <1>3 DEF DiskInv
<1>5. ListInv'
  BY DEF LibraryInv, ListInv, listVars
<1>6. HungInv'
  BY DEF LibraryInv, HungInv
<1>7. CopyInv'
  BY <1>3 DEF CopyInv
<1>8. ExactInv'
  <2>1. ASSUME id \notin reused PROVE ClipIsExact(sessionDirs'[id], promise'[id], id \notin flawed')
    <3>1. Copied(sessionDirs'[id].files, due, id \notin flawed')
      BY <1>2, <2>1
    <3>2. sessionDirs'[id].meta = NoMeta
      BY <2>1 DEF Copying
    <3>3. ~sessionDirs'[id].meta.here
      BY <3>2 DEF NoMeta
    <3> QED
      BY <1>3, <3>1, <3>3, CopiedIsExact
  <2>2. ASSUME NEW other \in (DOMAIN promise \cap DOMAIN sessionDirs) \ reused, other # id
        PROVE  ClipIsExact(sessionDirs'[other], promise'[other], other \notin flawed')
    <3>1. ClipIsExact(sessionDirs[other], promise[other], other \notin flawed)
      BY <1>2, <1>3, <2>2 DEF LibraryInv, ExactInv
    <3>2. other \in flawed' <=> other \in flawed
      BY <2>2
    <3>3. sessionDirs'[other] = sessionDirs[other] /\ promise'[other] = promise[other]
      BY <1>2, <1>3, <2>2
    <3>4. (other \notin flawed') = (other \notin flawed)
      BY <3>2
    <3> QED
      BY <3>1, <3>3, <3>4, Zenon
  <2> QED
    BY <1>2, <1>3, <2>1, <2>2 DEF ExactInv
<1> QED
  BY <1>4, <1>5, <1>6, <1>7, <1>8 DEF LibraryInv

(* What is known of the clip, its directory and its promise.               *)
LEMMA ClipIs ==
  ASSUME LibraryInv, Clipping
  PROVE  /\ clip \in ClipState /\ clip.id \in DOMAIN sessionDirs /\ clip.id \in DOMAIN promise
         /\ clip.source \in Source /\ clip.file \in Nat /\ clip.next \in Nat
         /\ clip.listed \in Nat /\ clip.full \in Nat /\ clip.count \in Nat
         /\ promise[clip.id] \in Promise /\ promise[clip.id].source \in Source
         /\ sessionDirs[clip.id] \in Directory /\ sessionDirs[clip.id].files \in Source
         /\ Len(sessionDirs[clip.id].files) \in Nat
<1>1. clip \in ClipState
  BY DEF LibraryInv, PlaceInv
<1>2. clip.id \in DOMAIN sessionDirs /\ clip.id \in DOMAIN promise
  BY <1>1 DEF ClipState
<1>3. /\ clip.source \in Source /\ clip.file \in Nat /\ clip.next \in Nat
      /\ clip.listed \in Nat /\ clip.full \in Nat /\ clip.count \in Nat
  BY <1>1 DEF ClipState
<1>4. promise[clip.id] \in Promise
  BY <1>2 DEF LibraryInv, DiskInv
<1>5. promise[clip.id].source \in Source
  BY <1>4 DEF Promise
<1>6. sessionDirs[clip.id] \in Directory /\ sessionDirs[clip.id].files \in Source
  BY <1>2, FilesAre DEF LibraryInv, DiskInv
<1>7. Len(sessionDirs[clip.id].files) \in Nat
  BY <1>6 DEF Source
<1> QED
  BY <1>1, <1>2, <1>3, <1>4, <1>5, <1>6, <1>7

(* A file that is closed may have lost its last frames.                    *)
LEMMA ClosingIs ==
  ASSUME LibraryInv, Clipping, NEW files \in Closings(ClipDir.files)
  PROVE  files \in Source /\ Len(files) = Len(ClipDir.files) /\ Fewer(files, ClipDir.files)
<1> DEFINE old == ClipDir.files
           n == clip.listed
<1>1. old \in Source /\ Len(old) \in Nat /\ n \in Nat /\ clip.full \in Nat
  BY ClipIs DEF ClipDir
<1>2. n <= Len(old) /\ (n > 0 => clip.full <= Len(old[n]))
  BY DEF LibraryInv, PlaceInv, ClipDir
<1> HIDE DEF old, n
<1>3. CASE files = old
  BY <1>1, <1>3 DEF Fewer, old
<1>4. CASE n # 0 /\ \E keep \in 0..(clip.full - 1), end \in {<<>>, <<Torn>>} :
                       files = Cut(old, n, keep, end)
  <2>1. PICK keep \in 0..(clip.full - 1), end \in {<<>>, <<Torn>>} : files = Cut(old, n, keep, end)
    BY <1>4
  <2>2. n \in 1..Len(old)
    BY <1>1, <1>2, <1>4
  <2>3. Len(old[n]) \in Nat
    BY <1>1, <2>2 DEF Source
  <2>4. keep \in 0..Len(old[n])
    BY <1>1, <1>2, <2>2, <2>3
  <2> QED
    BY <1>1, <2>1, <2>2, <2>4, CutFileIs DEF old
<1> QED
  BY <1>3, <1>4 DEF Closings, old, n

LEMMA RemoveActions ==
  ASSUME LibraryInv, RemoveSelectedSession \/ Vanish \/ FailClip
  PROVE  LibraryInv'
<1>1. /\ promise' = promise /\ reused' = reused /\ hung' = hung /\ ~Clipping'
      /\ ~Vanish => ~hung
  BY DEF RemoveSelectedSession, Vanish, FailClip, Free, Clipping, IdleClip, LibraryInv, HungInv
<1>2. Shrinks(sessionDirs', flawed')
  <2>1. CASE RemoveSelectedSession
    <3>1. CASE sessionDirs' = Without(sessionDirs, SelectedId) /\ flawed' = flawed
      BY <3>1, WithoutShrinks
    <3>2. CASE /\ SelectedId \in DOMAIN sessionDirs
               /\ \E dir \in Remainders(sessionDirs[SelectedId]) :
                      Loses(SelectedId, dir, sessionDirs[SelectedId])
      <4>1. PICK dir \in Remainders(sessionDirs[SelectedId]) :
                Loses(SelectedId, dir, sessionDirs[SelectedId])
        BY <3>2
      <4>2. /\ sessionDirs[SelectedId] \in Directory
            /\ sessionDirs[SelectedId].meta.chunks <= Len(sessionDirs[SelectedId].files)
        BY <3>2 DEF LibraryInv, DiskInv, Sound
      <4>3. Lesser(dir, sessionDirs[SelectedId])
        BY <4>2, RemainderIs
      <4> QED
        BY <3>2, <4>1, <4>3, LosesShrinks DEF LibraryInv
    <3> QED
      BY <2>1, <3>1, <3>2 DEF RemoveSelectedSession
  <2>2. CASE Vanish
    <3>1. PICK id \in DOMAIN sessionDirs : sessionDirs' = Without(sessionDirs, id)
      BY <2>2 DEF Vanish
    <3>2. flawed' = flawed
      BY <2>2 DEF Vanish
    <3> QED
      BY <3>1, <3>2, WithoutShrinks
  <2>3. CASE FailClip
    <3>1. Clipping
      BY <2>3 DEF FailClip, Clipping
    <3>2. /\ clip.id \in DOMAIN sessionDirs /\ ClipDir \in Directory /\ ClipDir.files \in Source
          /\ ClipDir.meta.chunks <= Len(ClipDir.files) /\ ClipDir.meta.chunks \in Nat
      BY <3>1, ClipIs DEF LibraryInv, DiskInv, Sound, ClipDir, Directory
    <3>3. CASE sessionDirs' = Without(sessionDirs, clip.id) /\ flawed' = flawed
      BY <3>3, WithoutShrinks
    <3>4. CASE \E files \in Closings(ClipDir.files) :
               \E dir \in Remainders([ClipDir EXCEPT !.files = files]) :
                   Loses(clip.id, dir, ClipDir)
      <4>1. PICK files \in Closings(ClipDir.files) :
               \E dir \in Remainders([ClipDir EXCEPT !.files = files]) :
                   Loses(clip.id, dir, ClipDir)
        BY <3>4
      <4> DEFINE closed == [ClipDir EXCEPT !.files = files]
      <4>2. PICK dir \in Remainders(closed) : Loses(clip.id, dir, ClipDir)
        BY <4>1
      <4>3. files \in Source /\ Len(files) = Len(ClipDir.files) /\ Fewer(files, ClipDir.files)
        BY <3>1, <4>1, ClosingIs
      <4>4. closed \in Directory /\ closed.files = files /\ closed.meta = ClipDir.meta
        BY <3>2, <4>3 DEF Directory, Source
      <4> HIDE DEF closed
      <4>5. Lesser(dir, closed)
        BY <3>2, <4>2, <4>3, <4>4, RemainderIs
      <4>6. Lesser(dir, ClipDir)
        BY <4>3, <4>4, <4>5, FewerIsTransitive DEF Lesser
      <4> QED
        BY <3>2, <4>2, <4>6, LosesShrinks DEF LibraryInv, ClipDir
    <3> QED
      BY <2>3, <3>3, <3>4 DEF FailClip
  <2> QED
    BY <2>1, <2>2, <2>3
<1>3. DiskInv' /\ ExactInv'
  BY <1>1, <1>2, ShrinkKeeps DEF LibraryInv
<1>4. ListInv'
  <2>1. CASE UNCHANGED listVars
    BY <2>1 DEF listVars, ListInv, LibraryInv
  <2>2. CASE ListSessions(sessionDirs', SelectedId, NoSelection)
    BY <1>3, <2>2, ListIs DEF DiskInv
  <2> QED
    BY <2>1, <2>2 DEF RemoveSelectedSession, Vanish, FailClip
<1>5. HungInv'
  <2>1. CASE Vanish
    BY <1>1, <2>1 DEF Vanish, listVars, HungInv, LibraryInv
  <2> QED
    BY <1>1, <2>1 DEF HungInv
<1> QED
  BY <1>1, <1>3, <1>4, <1>5 DEF LibraryInv, PlaceInv, CopyInv

LEMMA SameDirectory ==
  ASSUME DiskInv, NEW id \in DOMAIN sessionDirs
  PROVE  sessionDirs = [sessionDirs EXCEPT ![id].files = sessionDirs[id].files]
<1>1. sessionDirs[id] \in Directory /\ sessionDirs \in [DOMAIN sessionDirs -> Directory]
  BY DEF DiskInv, Sound
<1> DEFINE dir == [sessionDirs[id] EXCEPT !.files = sessionDirs[id].files]
<1>2. dir = sessionDirs[id]
  BY <1>1 DEF Directory
<1> HIDE DEF dir
<1>3. sessionDirs = [sessionDirs EXCEPT ![id] = dir]
  BY <1>1, <1>2
<1> QED
  BY <1>3 DEF dir

LEMMA SamePromise ==
  ASSUME DiskInv, NEW id \in DOMAIN promise
  PROVE  promise = [promise EXCEPT ![id] = promise[id]]
BY DEF DiskInv

LEMMA OwedIsRead ==
  ASSUME NEW c, NEW due, c.source \in Source, due.source = c.source,
         \A p \in Frames(c.source) :
             LET t == TimeAt(c.source, p)
             IN  (due.lo <= t /\ t <= due.hi) <=> (c.lo <= t /\ t <= c.hi)
  PROVE  \A r : r \in Owed(due) <=>
             /\ r \in Places(c.source) /\ TimeAt(c.source, r) # Torn
             /\ r[1] \notin due.skipped
             /\ c.lo <= TimeAt(c.source, r) /\ TimeAt(c.source, r) <= c.hi
BY DEF Owed, Frames

LEMMA OpenedIs ==
  ASSUME NEW c \in ClipState, NEW at \in {"file", "frame"}
  PROVE  [c EXCEPT !.at = at, !.file = @ + 1, !.next = 1] \in ClipState
<1> DEFINE Ids == DOMAIN promise \cap DOMAIN sessionDirs
<1> HIDE DEF Ids
<1>1. /\ c \in [at : {"file", "frame", "failed"}, id : Ids, source : Source, file : Nat,
                next : Nat, lo : Nat, hi : Nat, listed : Nat, full : Nat, count : Nat,
                start : Nat, end : Nat]
      /\ c.file + 1 \in Nat
  BY DEF ClipState, Ids
<1>2. [c EXCEPT !.at = at, !.file = @ + 1, !.next = 1]
        \in [at : {"file", "frame", "failed"}, id : Ids, source : Source, file : Nat,
             next : Nat, lo : Nat, hi : Nat, listed : Nat, full : Nat, count : Nat,
             start : Nat, end : Nat]
  BY <1>1
<1> QED
  BY <1>2 DEF ClipState, Ids

LEMMA OpenKeeps ==
  ASSUME LibraryInv, OpenSource
  PROVE  LibraryInv'
<1> DEFINE id == clip.id
           dir == sessionDirs[id]
           files == dir.files
           due == promise[id]
<1>1. Clipping /\ clip.at = "file" /\ clip.file < Len(clip.source)
      /\ UNCHANGED <<sessionDirs, listVars, hung, reused, flawed>>
  BY DEF OpenSource, Clipping
<1>2. /\ clip \in ClipState /\ id \in DOMAIN sessionDirs /\ id \in DOMAIN promise
      /\ clip.source \in Source /\ clip.file \in Nat /\ clip.next \in Nat
      /\ due \in Promise /\ due.source \in Source /\ files \in Source
      /\ Len(files) \in Nat
  BY <1>1, ClipIs
<1>3. Len(clip.source) \in Nat /\ clip.file + 1 \in 1..Len(clip.source)
  BY <1>1, <1>2 DEF Source
<1>4. sessionDirs' = [sessionDirs EXCEPT ![id].files = files]
  BY <1>1, <1>2, SameDirectory DEF LibraryInv
<1>5. Len(clip.source[clip.file + 1]) \in Nat
  BY <1>2, <1>3 DEF Source
<1> DEFINE passed == [due EXCEPT !.skipped = @ \cup {clip.file + 1}]
<1>6. PICK at \in {"file", "frame"} :
        /\ clip' = [clip EXCEPT !.at = at, !.file = @ + 1, !.next = 1]
        /\ promise' = [promise EXCEPT ![id] = IF at = "frame" THEN due ELSE passed]
  <2>1. CASE clip' = [clip EXCEPT !.at = "frame", !.file = @ + 1, !.next = 1] /\ UNCHANGED promise
    <3>1. promise' = [promise EXCEPT ![id] = due]
      BY <1>2, <2>1, SamePromise DEF LibraryInv
    <3> QED
      BY <2>1, <3>1
  <2>2. CASE /\ clip' = [clip EXCEPT !.file = @ + 1, !.next = 1]
             /\ promise' = [promise EXCEPT ![id].skipped = @ \cup {clip.file + 1}]
    <3>1. clip' = [clip EXCEPT !.at = "file", !.file = @ + 1, !.next = 1]
      BY <1>1, <1>2, <2>2 DEF ClipState
    <3>2. promise' = [promise EXCEPT ![id] = passed]
      BY <2>2
    <3> HIDE DEF passed, due
    <3> QED
      BY <3>1, <3>2
  <2> QED
    BY <2>1, <2>2 DEF OpenSource
<1> DEFINE new == IF at = "frame" THEN due ELSE passed
<1>7. promise' = [promise EXCEPT ![id] = new]
  BY <1>6
<1>8. /\ new \in Promise /\ new.source = due.source /\ new.lo = due.lo /\ new.hi = due.hi
      /\ new.skipped = IF at = "frame" THEN due.skipped ELSE due.skipped \cup {clip.file + 1}
  <2>1. /\ passed \in Promise /\ passed.source = due.source /\ passed.lo = due.lo
        /\ passed.hi = due.hi /\ passed.skipped = due.skipped \cup {clip.file + 1}
    BY <1>2 DEF Promise
  <2> HIDE DEF passed
  <2> QED
    BY <1>2, <2>1
<1> HIDE DEF new, passed
<1>9. /\ clip'.id = id /\ clip'.at = at /\ clip'.file = clip.file + 1 /\ clip'.next = 1
      /\ clip'.source = clip.source /\ clip'.lo = clip.lo /\ clip'.hi = clip.hi
      /\ clip'.listed = clip.listed /\ clip'.full = clip.full /\ clip'.count = clip.count
      /\ clip'.start = clip.start /\ clip'.end = clip.end
  BY <1>2, <1>6 DEF ClipState
<1>10. Clipping'
  BY <1>9 DEF Clipping
<1>11. DOMAIN promise' = DOMAIN promise
  BY <1>2, <1>7
<1>12. clip' \in ClipState'
  <2>1. ClipState' = ClipState
    BY <1>1, <1>11 DEF ClipState
  <2>2. clip' \in ClipState
    BY <1>2, <1>6, OpenedIs
  <2> QED
    BY <2>1, <2>2
<1>13. PlaceInv'
  <2>1. 1 \in 1..(Len(clip.source[clip.file + 1]) + 1)
    BY <1>5
  <2>2. /\ clip.listed <= Len(files)
        /\ clip.listed > 0 => clip.full <= Len(files[clip.listed])
                              /\ clip.full = Len(files[clip.listed])
    BY <1>1 DEF LibraryInv, PlaceInv
  <2> QED
    BY <1>1, <1>2, <1>3, <1>9, <1>12, <2>1, <2>2 DEF PlaceInv
<1> DEFINE whole == id \notin flawed
<1>14. ASSUME id \notin reused
       PROVE  Copied(files, new, whole) /\ Copying(clip', sessionDirs'[id], new, whole)
  <2>1. Copying(clip, dir, due, whole) /\ GoesWell(clip, files, due, whole)
    BY <1>1, <1>14 DEF LibraryInv, CopyInv, Copying
  <2> HIDE DEF whole
  <2>2. due.source = clip.source
    BY <2>1 DEF Copying
  <2>3. \A p \in Places(clip.source) :
            /\ p[1] \in Nat /\ p[2] \in Nat
            /\ p[1] <= clip.file /\ p[1] \notin due.skipped => Before(p, <<clip.file, clip.next>>)
            /\ p[1] >= 1 /\ p[2] >= 1
    <3>1. \A p \in Places(clip.source) :
              p[1] <= clip.file /\ p[1] \notin due.skipped => Before(p, <<clip.file, clip.next>>)
      BY <1>1, <2>1 DEF GoesWell
    <3>2. \A p \in Places(clip.source) :
              p[1] \in Nat /\ p[2] \in Nat /\ p[1] >= 1 /\ p[2] >= 1
      <4>1. \A p \in Places(clip.source) :
                /\ p[1] \in 1..Len(clip.source) /\ p[2] \in 1..Len(clip.source[p[1]])
                /\ p[1] \in Nat /\ p[2] \in Nat
        BY <1>2, PlacesAre
      <4> QED
        BY <4>1
    <3> QED
      BY <3>1, <3>2
  <2>4. \A r \in Owed(due) : /\ r[1] \in Nat /\ r[2] \in Nat /\ r[2] >= 1
                             /\ r[1] <= clip.file => Before(r, <<clip.file, clip.next>>)
    BY <1>2, <2>2, <2>3, OwedArePlaces
  <2>5. CopiedUpTo(<<clip.file, clip.next>>, files, due, whole)
    BY <2>1 DEF GoesWell
  <2>6. CopiedUpTo(<<clip.file + 1, 1>>, files, new, whole)
    <3>1. CASE at = "frame"
      <4>1. \A r \in Owed(due) :
                Before(r, <<clip.file, clip.next>>) <=> Before(r, <<clip.file + 1, 1>>)
        BY <1>2, <2>4 DEF Before
      <4>2. new = due
        BY <3>1 DEF new
      <4> QED
        BY <2>5, <4>1, <4>2, CursorMoves
    <3>2. CASE at = "file"
      <4>1. new.skipped = due.skipped \cup {clip.file + 1}
        BY <1>8, <3>2
      <4> QED
        BY <1>2, <1>8, <2>4, <2>5, <4>1, SkippedIsNotOwed
    <3> QED
      BY <3>1, <3>2
  <2>7. Copied(files, new, whole)
    BY <1>2, <1>8, <2>6, UpToIsCopied
  <2>8. \A i \in due.skipped : i <= clip.file /\ i \in Nat
    BY <1>2, <2>1 DEF GoesWell, Promise
  <2>9. \A i \in new.skipped : i <= clip.file + 1
    BY <1>2, <1>8, <2>8
  <2>10. at = "frame" => clip.file + 1 \notin new.skipped
    BY <1>2, <1>8, <2>8
  <2>11. at = "file" =>
           \A p \in Places(clip.source) :
               p[1] <= clip.file + 1 /\ p[1] \notin new.skipped => Before(p, <<clip.file + 1, 1>>)
    BY <1>2, <1>8, <2>3 DEF Before
  <2>12. ASSUME NEW p \in Places(clip.source), Before(p, <<clip.file + 1, 1>>),
                TimeAt(clip.source, p) = Torn
         PROVE  p[1] \in new.skipped
    <3>1. p[1] <= clip.file
      BY <1>2, <2>3, <2>12 DEF Before
    <3>2. p[1] \in due.skipped
      BY <2>1, <2>3, <2>12, <3>1 DEF GoesWell
    <3> QED
      BY <1>8, <3>2
  <2>13. GoesWell(clip', files, new, whole)
    BY <1>9, <2>1, <2>6, <2>9, <2>10, <2>11, <2>12 DEF GoesWell, Tells
  <2>14. Copying(clip', dir, new, whole)
    BY <1>8, <1>9, <2>1, <2>13 DEF Copying
  <2> QED
    BY <1>1, <2>7, <2>14
<1>15. Len(files) >= Len(sessionDirs[clip.id].files)
  BY <1>2
<1>16. UNCHANGED <<listVars, hung, reused, flawed>> /\ clip'.id = clip.id
  BY <1>1, <1>9
<1> HIDE DEF dir, due, files
<1> QED
  BY <1>1, <1>2, <1>4, <1>7, <1>8, <1>10, <1>13, <1>14, <1>15, <1>16, ClipGoesOn

LEMMA FrameStep ==
  ASSUME LibraryInv, clip.at = "frame", UNCHANGED <<listVars, hung, promise, reused>>,
         flawed' \in {flawed, flawed \cup {clip.id}}, clip' \in ClipState, clip'.id = clip.id, clip'.source = clip.source,
         clip'.file = clip.file, clip'.lo = clip.lo, clip'.hi = clip.hi,
         NEW more \in Source, Len(more) >= Len(sessionDirs[clip.id].files),
         sessionDirs' = [sessionDirs EXCEPT ![clip.id].files = more],
         clip'.listed <= Len(more),
         clip'.listed > 0 => /\ clip'.full <= Len(more[clip'.listed])
                             /\ clip'.at # "failed" => clip'.full = Len(more[clip'.listed]),
         clip'.at = "frame" => clip'.next \in 1..(Len(clip.source[clip.file]) + 1),
         clip.id \notin reused =>
             /\ Copied(more, promise[clip.id], clip.id \notin flawed')
             /\ clip'.listed # 0 => \A p \in Frames(more) : p[1] <= clip'.listed
             /\ clip'.at # "failed" =>
                    GoesWell(clip', more, promise[clip.id], clip.id \notin flawed')
  PROVE  LibraryInv'
<1> DEFINE id == clip.id
           due == promise[id]
<1>1. Clipping
  BY DEF Clipping
<1>2. /\ id \in DOMAIN sessionDirs /\ id \in DOMAIN promise
      /\ clip.file \in Nat /\ clip.file > 0 /\ clip.file <= Len(clip.source)
      /\ due \in Promise
  <2>1. /\ id \in DOMAIN sessionDirs /\ id \in DOMAIN promise
        /\ clip.file \in Nat /\ due \in Promise
    BY <1>1, ClipIs
  <2>2. clip.file > 0 /\ clip.file <= Len(clip.source)
    BY <1>1 DEF LibraryInv, PlaceInv
  <2> QED
    BY <2>1, <2>2
<1>3. Clipping'
  BY DEF Clipping, ClipState
<1> DEFINE dirs == [sessionDirs EXCEPT ![id].files = more]
<1>4. /\ DOMAIN dirs = DOMAIN sessionDirs /\ dirs[id].files = more
      /\ dirs[id].meta = sessionDirs[id].meta
  <2>1. DiskInv
    BY DEF LibraryInv
  <2> QED
    BY <1>2, <2>1, DirectoryIs
<1>5. sessionDirs' = dirs
  OBVIOUS
<1> HIDE DEF dirs
<1>6. /\ DOMAIN sessionDirs' = DOMAIN sessionDirs /\ sessionDirs'[id].files = more
      /\ sessionDirs'[id].meta = sessionDirs[id].meta
  BY <1>4, <1>5
<1>7. promise' = promise
  OBVIOUS
<1>8. clip' \in ClipState'
  BY <1>6, <1>7 DEF ClipState
<1>9. PlaceInv'
  <2>1. sessionDirs'[clip'.id].files = more
    BY <1>6
  <2> QED
    BY <1>2, <1>8, <2>1 DEF PlaceInv
<1> DEFINE whole == id \notin flawed'
<1>10. ASSUME id \notin reused
       PROVE  Copied(more, due, whole) /\ Copying(clip', sessionDirs'[id], due, whole)
  <2>1. Copying(clip, sessionDirs[id], due, id \notin flawed)
    BY <1>1, <1>10 DEF LibraryInv, CopyInv
  <2>2. /\ Copied(more, due, whole)
        /\ clip'.listed # 0 => \A p \in Frames(more) : p[1] <= clip'.listed
        /\ clip'.at # "failed" => GoesWell(clip', more, due, whole)
    BY <1>10
  <2> HIDE DEF whole
  <2> QED
    BY <1>6, <2>1, <2>2 DEF Copying
<1>11. promise' = [promise EXCEPT ![id] = due]
  BY <1>2, <1>7, SamePromise DEF LibraryInv
<1> HIDE DEF due
<1> QED
  BY <1>1, <1>2, <1>3, <1>9, <1>10, <1>11, ClipGoesOn

LEMMA ClipStateIs ==
  ASSUME NEW c \in ClipState
  PROVE  /\ [c EXCEPT !.at = "file"] \in ClipState /\ [c EXCEPT !.at = "failed"] \in ClipState
         /\ \A n \in Nat : [c EXCEPT !.at = "failed", !.listed = n] \in ClipState
         /\ [c EXCEPT !.next = @ + 1] \in ClipState
         /\ \A t \in Nat, n \in Nat, k \in Nat, s \in Nat :
                [c EXCEPT !.next = @ + 1, !.listed = n, !.full = k, !.count = @ + 1,
                          !.start = s, !.end = t] \in ClipState
<1> DEFINE Ids == DOMAIN promise \cap DOMAIN sessionDirs
<1> HIDE DEF Ids
<1> DEFINE State ==
        [at : {"file", "frame", "failed"}, id : Ids, source : Source, file : Nat,
         next : Nat, lo : Nat, hi : Nat, listed : Nat, full : Nat, count : Nat,
         start : Nat, end : Nat]
<1>1. c \in State /\ c.next + 1 \in Nat /\ c.count + 1 \in Nat
  BY DEF ClipState, Ids
<1>2. /\ [c EXCEPT !.at = "file"] \in State
      /\ [c EXCEPT !.at = "failed"] \in State
      /\ \A n \in Nat : [c EXCEPT !.at = "failed", !.listed = n] \in State
      /\ [c EXCEPT !.next = @ + 1] \in State
  BY <1>1
<1>3. ASSUME NEW t \in Nat, NEW n \in Nat, NEW k \in Nat, NEW s \in Nat
      PROVE  [c EXCEPT !.next = @ + 1, !.listed = n, !.full = k, !.count = @ + 1,
                       !.start = s, !.end = t] \in State
  BY <1>1
<1>4. State = ClipState
  BY DEF ClipState, Ids
<1> HIDE DEF State
<1> QED
  BY <1>2, <1>3, <1>4

LEMMA ReadKeeps ==
  ASSUME LibraryInv, clip.at = "frame", UNCHANGED <<listVars, hung, promise, reused>>,
         ~(ToRead /\ Read # Torn /\ clip.lo <= Read /\ Read <= clip.hi), ReadAway
  PROVE  LibraryInv'
<1> DEFINE id == clip.id
           files == sessionDirs[id].files
           due == promise[id]
           source == clip.source
           f == clip.file
           n == clip.next
<1>1. Clipping
  BY DEF Clipping
<1>2. /\ clip \in ClipState /\ id \in DOMAIN sessionDirs
      /\ source \in Source /\ f \in Nat /\ n \in Nat /\ clip.listed \in Nat
      /\ due.source \in Source /\ files \in Source /\ Len(files) \in Nat
  BY <1>1, ClipIs
<1>3. /\ f > 0 /\ f <= Len(source) /\ n \in 1..(Len(source[f]) + 1)
      /\ clip.listed <= Len(files)
      /\ clip.listed > 0 => clip.full <= Len(files[clip.listed])
                            /\ clip.full = Len(files[clip.listed])
  BY <1>1 DEF LibraryInv, PlaceInv
<1>4. /\ Len(source) \in Nat /\ f \in 1..Len(source) /\ Len(source[f]) \in Nat
      /\ DOMAIN source[f] = 1..Len(source[f])
  BY <1>2, <1>3 DEF Source
<1>5. sessionDirs' = [sessionDirs EXCEPT ![id].files = files]
  BY <1>2, SameDirectory DEF LibraryInv, ReadAway
<1>6. \/ ~ToRead /\ clip' = [clip EXCEPT !.at = "file"]
      \/ ToRead /\ Read = Torn /\ clip' = [clip EXCEPT !.at = "failed"]
      \/ ToRead /\ Read # Torn /\ clip' = [clip EXCEPT !.next = @ + 1]
  BY DEF ReadAway
<1>7. /\ clip' \in ClipState /\ clip'.id = clip.id /\ clip'.source = clip.source
      /\ clip'.file = clip.file /\ clip'.lo = clip.lo /\ clip'.hi = clip.hi
      /\ clip'.listed = clip.listed /\ clip'.full = clip.full /\ clip'.count = clip.count
      /\ clip'.start = clip.start /\ clip'.end = clip.end
  <2>1. clip' \in ClipState
    BY <1>2, <1>6, ClipStateIs
  <2> QED
    BY <1>2, <1>6, <2>1 DEF ClipState
<1>8. /\ ~ToRead => clip'.at = "file" /\ clip'.next = n
      /\ ToRead /\ Read = Torn => clip'.at = "failed"
      /\ ToRead /\ Read # Torn => clip'.at = "frame" /\ clip'.next = n + 1
  BY <1>2, <1>6 DEF ClipState
<1>9. clip'.at = "frame" => clip'.next \in 1..(Len(source[f]) + 1)
  <2>1. ToRead => n \in 1..Len(source[f])
    <3>1. ToRead => n \in DOMAIN source[f]
      BY DEF ToRead
    <3> QED
      BY <1>4, <3>1, Zenon
  <2>2. clip'.at = "frame" => ToRead /\ Read # Torn
    BY <1>8
  <2>3. clip'.at = "frame" => clip'.next = n + 1
    BY <1>8, <2>2
  <2> DEFINE k == Len(source[f])
  <2>4. k \in Nat /\ (ToRead => n \in 1..k)
    BY <1>4, <2>1
  <2> HIDE DEF k
  <2>5. clip'.at = "frame" => clip'.next \in 1..(k + 1)
    BY <2>2, <2>3, <2>4
  <2> QED
    BY <2>5 DEF k
<1> DEFINE whole == id \notin flawed
<1>10. ASSUME id \notin reused
       PROVE  /\ Copied(files, due, whole)
              /\ clip'.listed # 0 => \A p \in Frames(files) : p[1] <= clip'.listed
              /\ clip'.at # "failed" => GoesWell(clip', files, due, whole)
  <2>1. Copying(clip, sessionDirs[id], due, whole) /\ GoesWell(clip, files, due, whole)
    BY <1>1, <1>10 DEF LibraryInv, CopyInv, Copying
  <2> HIDE DEF whole
  <2>2. due.source = source /\ (clip.listed # 0 => \A p \in Frames(files) : p[1] <= clip.listed)
    BY <2>1 DEF Copying
  <2>3. CopiedUpTo(<<f, n>>, files, due, whole)
    BY <2>1 DEF GoesWell
  <2>4. Copied(files, due, whole)
    BY <1>2, <2>3, UpToIsCopied
  <2>5. \A r : r \in Owed(due) <=>
               /\ r \in Places(source) /\ TimeAt(source, r) # Torn
               /\ r[1] \notin due.skipped
               /\ clip.lo <= TimeAt(source, r) /\ TimeAt(source, r) <= clip.hi
    BY <1>2, <2>1, OwedIsRead DEF Copying
  <2>6. \A p \in Places(source) :
            /\ p[1] \in Nat /\ p[2] \in Nat /\ p = <<p[1], p[2]>>
            /\ p[2] \in 1..Len(source[p[1]])
    BY <1>2, PlacesAre
  <2>7. CASE ~ToRead
    <3>1. n > Len(source[f])
      BY <1>3, <1>4, <2>7 DEF ToRead
    <3>2. \A p \in Places(source) :
              p[1] <= f /\ p[1] \notin due.skipped => Before(p, <<f, n>>)
      BY <1>2, <1>4, <2>6, <3>1, SMTT(30) DEF Before
    <3> QED
      BY <1>7, <1>8, <2>1, <2>2, <2>4, <2>7, <3>2 DEF GoesWell, Tells
  <2>8. CASE ToRead /\ Read = Torn
    BY <1>7, <1>8, <2>2, <2>4, <2>8
  <2>9. CASE ToRead /\ Read # Torn
    <3>1. TimeAt(source, <<f, n>>) = Read
      BY DEF TimeAt, Read
    <3>2. <<f, n>> \notin Owed(due)
      BY <2>5, <2>9, <3>1
    <3>3. \A r \in Owed(due) : r \in Places(source) /\ r # <<f, n>>
      BY <2>5, <3>2
    <3>4. \A r \in Owed(due) : Before(r, <<f, n>>) <=> Before(r, <<f, n + 1>>)
      BY <1>2, <2>6, <3>3 DEF Before
    <3>5. CopiedUpTo(<<f, n + 1>>, files, due, whole)
      BY <2>3, <3>4, CursorMoves
    <3>6. ASSUME NEW p \in Places(source), Before(p, <<f, n + 1>>), TimeAt(source, p) = Torn
          PROVE  p[1] \in due.skipped
      <4>1. p # <<f, n>>
        BY <2>9, <3>1, <3>6
      <4>2. Before(p, <<f, n>>)
        BY <1>2, <2>6, <3>6, <4>1 DEF Before
      <4> QED
        BY <2>1, <3>6, <4>2 DEF GoesWell
    <3>7. clip'.at = "frame" /\ clip'.next = n + 1
      BY <1>8, <2>9
    <3>8. GoesWell(clip', files, due, whole)
      BY <1>7, <2>1, <3>5, <3>6, <3>7 DEF GoesWell, Tells
    <3> QED
      BY <1>7, <2>2, <2>4, <3>8
  <2> QED
    BY <2>7, <2>8, <2>9
<1>11. /\ clip'.listed <= Len(files)
       /\ clip'.listed > 0 => /\ clip'.full <= Len(files[clip'.listed])
                              /\ clip'.at # "failed" => clip'.full = Len(files[clip'.listed])
  BY <1>3, <1>7
<1>12. Len(files) >= Len(sessionDirs[clip.id].files)
  BY <1>2
<1>13. flawed' = flawed
  BY DEF ReadAway
<1> HIDE DEF files, due, source, f, n
<1> QED
  BY <1>2, <1>5, <1>7, <1>9, <1>10, <1>11, <1>12, <1>13, FrameStep DEF due, source, f

LEMMA PutStays ==
  ASSUME NEW files \in Source, NEW t \in Nat, clip.listed \in Nat, clip.full \in Nat,
         clip.listed <= Len(files), ~Rolls => clip.full = Len(files[clip.listed])
  PROVE  LET more == PutFrame(files, t)
         IN  /\ more \in Source /\ Len(more) >= Len(files)
             /\ Target[1] \in Nat /\ Target[2] \in Nat /\ Target = <<Target[1], Target[2]>>
             /\ Target[1] <= Len(more) /\ Len(more[Target[1]]) = Target[2]
             /\ ~Rolls => clip.full <= Len(more[clip.listed])
<1> DEFINE n == clip.listed
<1>1. Len(files) \in Nat /\ DOMAIN files = 1..Len(files) /\ n \in 0..Len(files)
  BY DEF Source
<1>2. \A i \in 1..Len(files) : files[i] \in Seq(Nat) /\ Len(files[i]) \in Nat
  BY DEF Source
<1>3. <<t>> \in Seq(Nat) /\ Len(<<t>>) = 1
  OBVIOUS
<1>4. CASE Rolls /\ n < Len(files)
  <2> DEFINE more == [files EXCEPT ![n + 1] = <<t>>]
  <2>1. PutFrame(files, t) = more /\ Target = <<n + 1, 1>>
    BY <1>4 DEF PutFrame, Target
  <2>2. n + 1 \in 1..Len(files)
    BY <1>1, <1>4
  <2>3. more \in Seq(Seq(Nat)) /\ Len(more) = Len(files)
    BY <1>3, <2>2 DEF Source
  <2>4. more[n + 1] = <<t>> /\ \A i \in 1..Len(files) : i # n + 1 => more[i] = files[i]
    BY <1>1, <2>2
  <2> HIDE DEF more
  <2>6. more \in Source
    BY <2>3 DEF Source
  <2>7. Target[1] = n + 1 /\ Target[2] = 1
    BY <2>1
  <2>9. Len(more) >= Len(files) /\ n + 1 <= Len(more) /\ n + 1 \in Nat
    BY <1>1, <2>2, <2>3
  <2>10. Len(more[n + 1]) = 1
    BY <1>3, <2>4
  <2> QED
    BY <1>4, <2>1, <2>6, <2>7, <2>9, <2>10
<1>5. CASE Rolls /\ n = Len(files)
  <2> DEFINE more == Append(files, <<t>>)
  <2>1. PutFrame(files, t) = more /\ Target = <<n + 1, 1>>
    BY <1>1, <1>5 DEF PutFrame, Target
  <2>2. /\ more \in Seq(Seq(Nat)) /\ Len(more) = Len(files) + 1 /\ more[n + 1] = <<t>>
        /\ \A i \in 1..Len(files) : more[i] = files[i]
    BY <1>1, <1>3, <1>5 DEF Source
  <2> HIDE DEF more
  <2>4. more \in Source
    BY <2>2 DEF Source
  <2>5. Target[1] = n + 1 /\ Target[2] = 1
    BY <2>1
  <2>7. Len(more) >= Len(files) /\ n + 1 <= Len(more) /\ n + 1 \in Nat
    BY <1>1, <1>5, <2>2
  <2>8. Len(more[n + 1]) = 1
    BY <1>3, <2>2
  <2> QED
    BY <1>5, <2>1, <2>4, <2>5, <2>7, <2>8
<1>6. CASE ~Rolls
  <2> DEFINE last == Append(files[n], t)
             more == [files EXCEPT ![n] = last]
  <2>1. n > 0 /\ n \in 1..Len(files) /\ clip.full = Len(files[n])
    BY <1>1, <1>6 DEF Rolls
  <2>2. PutFrame(files, t) = more /\ Target = <<n, Len(files[n]) + 1>>
    BY <1>6, <2>1 DEF PutFrame, Target
  <2>3. last \in Seq(Nat) /\ Len(last) = Len(files[n]) + 1
    BY <1>2, <2>1
  <2> HIDE DEF last
  <2>4. more \in Seq(Seq(Nat)) /\ Len(more) = Len(files) /\ more[n] = last
    BY <2>1, <2>3 DEF Source
  <2> HIDE DEF more
  <2>5. more \in Source
    BY <2>4 DEF Source
  <2>6. Target[1] = n /\ Target[2] = Len(files[n]) + 1
    BY <2>2
  <2>7. Len(files[n]) \in Nat
    BY <1>2, <2>1
  <2>8. clip.full <= Len(more[n]) /\ Len(more[n]) = Target[2] /\ Target[2] \in Nat
    BY <2>1, <2>3, <2>4, <2>6, <2>7
  <2>9. Len(more) >= Len(files) /\ n <= Len(more)
    BY <1>1, <2>4
  <2> QED
    BY <2>2, <2>5, <2>6, <2>8, <2>9
<1> QED
  BY <1>1, <1>4, <1>5, <1>6

(* The files as a frame finds them: the one before is closed if it goes to *)
(* a new one, and may have lost frames.                                    *)
Based(base, files, lost) ==
    /\ base \in Source /\ Len(base) = Len(files) /\ Fewer(base, files)
    /\ ~Rolls \/ clip.id \notin lost => base = files
    /\ lost \in {flawed, flawed \cup {clip.id}}

LEMMA BasedIsCopied ==
  ASSUME NEW base, NEW files \in Source, NEW lost, Based(base, files, lost), NEW due, NEW upto
  PROVE  /\ Copied(files, due, clip.id \notin flawed) => Copied(base, due, clip.id \notin lost)
         /\ CopiedUpTo(upto, files, due, clip.id \notin flawed) =>
                CopiedUpTo(upto, base, due, clip.id \notin lost)
<1>1. CASE clip.id \notin lost
  <2>1. base = files /\ clip.id \notin flawed
    BY <1>1 DEF Based
  <2> QED
    BY <1>1, <2>1 DEF Copied, CopiedUpTo, Reaches
<1>2. CASE clip.id \in lost
  <2>1. Fewer(base, files)
    BY DEF Based
  <2>2. /\ Copied(files, due, clip.id \notin flawed) => Copied(base, due, FALSE)
        /\ CopiedUpTo(upto, files, due, clip.id \notin flawed) => CopiedUpTo(upto, base, due, FALSE)
    BY <2>1, LessIsCopied
  <2> QED
    BY <1>2, <2>2 DEF Copied, CopiedUpTo, Reaches
<1> QED
  BY <1>1, <1>2

LEMMA CopyFails ==
  ASSUME LibraryInv, clip.at = "frame", UNCHANGED <<listVars, hung, promise, reused>>,
         NEW base, Based(base, sessionDirs[clip.id].files, flawed'),
         NEW more \in {base, PutFrame(base, Torn)},
         sessionDirs' = [sessionDirs EXCEPT ![clip.id].files = more],
         clip' = [clip EXCEPT !.at = "failed", !.listed = IF Rolls THEN 0 ELSE @]
  PROVE  LibraryInv'
<1> DEFINE id == clip.id
           files == sessionDirs[id].files
           due == promise[id]
           whole == id \notin flawed'
<1>1. Clipping
  BY DEF Clipping
<1>2. /\ clip \in ClipState /\ id \in DOMAIN sessionDirs
      /\ clip.listed \in Nat /\ clip.full \in Nat /\ clip.file \in Nat /\ clip.next \in Nat
      /\ due.source \in Source /\ files \in Source /\ Len(files) \in Nat
  BY <1>1, ClipIs
<1>3. /\ clip.listed <= Len(files)
      /\ clip.listed > 0 => clip.full = Len(files[clip.listed])
  BY <1>1 DEF LibraryInv, PlaceInv
<1>4. /\ base \in Source /\ Len(base) = Len(files)
      /\ ~Rolls => base = files /\ clip.listed > 0 /\ clip.full = Len(base[clip.listed])
  BY <1>2, <1>3 DEF Based, Rolls
<1> DEFINE n == IF Rolls THEN 0 ELSE clip.listed
<1>5. /\ clip' \in ClipState /\ clip'.id = clip.id /\ clip'.source = clip.source
      /\ clip'.file = clip.file /\ clip'.lo = clip.lo /\ clip'.hi = clip.hi
      /\ clip'.listed = n /\ clip'.full = clip.full /\ clip'.at = "failed"
  <2>1. n \in Nat /\ clip' = [clip EXCEPT !.at = "failed", !.listed = n]
    BY <1>2
  <2> HIDE DEF n
  <2>2. [clip EXCEPT !.at = "failed", !.listed = n] \in ClipState
    <3>1. clip \in ClipState
      BY <1>2
    <3> QED
      BY <2>1, <3>1, ClipStateIs, Zenon
  <2>3. clip' \in ClipState
    BY <2>1, <2>2, Zenon
  <2> QED
    BY <1>2, <2>1, <2>3 DEF ClipState
<1> DEFINE put == PutFrame(base, Torn)
<1>6. Torn \in Nat
  BY DEF Torn
<1>7. /\ put \in Source /\ Len(put) >= Len(base)
      /\ ~Rolls => clip.full <= Len(put[clip.listed])
  BY <1>2, <1>3, <1>4, <1>6, PutStays
<1>8. Len(put) \in Nat
  BY <1>7 DEF Source
<1>9. ASSUME id \notin reused
      PROVE  /\ Copied(more, due, whole)
             /\ n # 0 => \A p \in Frames(more) : p[1] <= n
  <2>1. Copying(clip, sessionDirs[id], due, id \notin flawed)
    BY <1>1, <1>9 DEF LibraryInv, CopyInv
  <2>2. GoesWell(clip, files, due, id \notin flawed)
    BY <2>1 DEF Copying
  <2>3. CopiedUpTo(<<clip.file, clip.next>>, files, due, id \notin flawed)
    BY <2>2 DEF GoesWell
  <2>4. Copied(files, due, id \notin flawed) /\ Len(files) = clip.listed
    BY <1>2, <2>2, <2>3, UpToIsCopied DEF GoesWell
  <2>5. Copied(base, due, whole)
    BY <1>2, <2>4, BasedIsCopied
  <2>6. Grown(base, put, Target, Torn)
    BY <1>2, <1>4, <1>6, <2>4, PutGrows
  <2> HIDE DEF put, whole
  <2>7. Copied(put, due, whole) /\ Frames(put) = Frames(base)
    BY <1>2, <1>4, <2>5, <2>6, TornIsCopied
  <2>8. Copied(more, due, whole) /\ Frames(more) = Frames(base)
    BY <2>5, <2>7 DEF put
  <2>9. ASSUME n # 0 PROVE \A p \in Frames(more) : p[1] <= n
    <3>1. base = files /\ n = clip.listed
      BY <1>4, <2>9
    <3>2. \A p \in Frames(files) : p[1] <= clip.listed
      BY <2>1, <2>9, <3>1 DEF Copying
    <3> QED
      BY <2>8, <3>1, <3>2
  <2> QED
    BY <2>8, <2>9
<1>10. more \in {base, put}
  OBVIOUS
<1> HIDE DEF put
<1>11. /\ more \in Source /\ Len(more) >= Len(files) /\ n <= Len(more)
       /\ n > 0 => clip.full <= Len(more[n])
  <2>1. Len(more) \in Nat /\ more \in Source /\ Len(more) >= Len(files)
    BY <1>2, <1>4, <1>7, <1>8, <1>10
  <2>2. n <= Len(more)
    BY <1>2, <1>3, <2>1
  <2>3. ~Rolls => clip.full <= Len(more[clip.listed])
    BY <1>2, <1>4, <1>7, <1>10
  <2> QED
    BY <2>1, <2>2, <2>3
<1>12. Len(more) >= Len(sessionDirs[clip.id].files)
  BY <1>11
<1>13. flawed' \in {flawed, flawed \cup {clip.id}}
  BY DEF Based
<1> HIDE DEF n
<1>14. /\ clip'.listed <= Len(more)
       /\ clip'.listed > 0 => /\ clip'.full <= Len(more[clip'.listed])
                              /\ clip'.at # "failed" => clip'.full = Len(more[clip'.listed])
  BY <1>5, <1>11
<1>15. clip.id \notin reused =>
             /\ Copied(more, promise[clip.id], clip.id \notin flawed')
             /\ clip'.listed # 0 => \A p \in Frames(more) : p[1] <= clip'.listed
             /\ clip'.at # "failed" =>
                    GoesWell(clip', more, promise[clip.id], clip.id \notin flawed')
  BY <1>5, <1>9
<1>16. clip'.at # "frame"
  BY <1>5
<1> HIDE DEF files, due, whole
<1> QED
  BY <1>5, <1>11, <1>12, <1>13, <1>14, <1>15, <1>16, FrameStep

LEMMA CopySucceeds ==
  ASSUME LibraryInv, clip.at = "frame", UNCHANGED <<listVars, hung, promise, reused>>,
         ToRead, Read # Torn, clip.lo <= Read, Read <= clip.hi,
         NEW base, Based(base, sessionDirs[clip.id].files, flawed'),
         sessionDirs' = [sessionDirs EXCEPT ![clip.id].files = PutFrame(base, Read)],
         clip' = [clip EXCEPT !.next = @ + 1, !.listed = Target[1], !.full = Target[2],
                              !.count = @ + 1, !.start = IF @ = 0 THEN Read ELSE @, !.end = Read]
  PROVE  LibraryInv'
<1> DEFINE id == clip.id
           files == sessionDirs[id].files
           due == promise[id]
           source == clip.source
           f == clip.file
           n == clip.next
           more == PutFrame(base, Read)
           whole == id \notin flawed'
<1>1. Clipping
  BY DEF Clipping
<1>2. /\ clip \in ClipState /\ id \in DOMAIN sessionDirs
      /\ source \in Source /\ f \in Nat /\ n \in Nat
      /\ clip.listed \in Nat /\ clip.full \in Nat /\ clip.count \in Nat
      /\ due.source \in Source /\ files \in Source /\ Len(files) \in Nat
  BY <1>1, ClipIs
<1>3. /\ f > 0 /\ f <= Len(source) /\ n \in 1..(Len(source[f]) + 1)
      /\ clip.listed <= Len(files)
      /\ clip.listed > 0 => clip.full = Len(files[clip.listed])
  BY <1>1 DEF LibraryInv, PlaceInv
<1>4. /\ Len(source) \in Nat /\ f \in 1..Len(source) /\ Len(source[f]) \in Nat
      /\ n \in 1..Len(source[f]) /\ Read \in Nat
  <2>1. /\ Len(source) \in Nat /\ f \in 1..Len(source) /\ source[f] \in Seq(Nat)
        /\ Len(source[f]) \in Nat /\ DOMAIN source[f] = 1..Len(source[f])
    <3>1. Len(source) \in Nat /\ DOMAIN source = 1..Len(source)
      BY <1>2 DEF Source
    <3>2. f \in 1..Len(source)
      BY <1>2, <1>3, <3>1
    <3>3. source[f] \in Seq(Nat)
      BY <1>2, <3>2 DEF Source
    <3> QED
      BY <3>1, <3>2, <3>3
  <2>2. n \in 1..Len(source[f])
    BY <2>1 DEF ToRead
  <2>3. source[f][n] \in Nat
    <3>1. source[f] \in Seq(Nat) /\ n \in 1..Len(source[f])
      BY <2>1, <2>2
    <3> QED
      BY <3>1, ElementIs
  <2>4. Read \in Nat
    BY <2>3 DEF Read
  <2> QED
    BY <2>1, <2>2, <2>4
<1>14. /\ base \in Source /\ Len(base) = Len(files) /\ clip.listed <= Len(base)
       /\ ~Rolls => base = files /\ clip.full = Len(base[clip.listed])
  BY <1>2, <1>3 DEF Based, Rolls
<1>5. /\ more \in Source /\ Len(more) >= Len(files)
      /\ Target[1] \in Nat /\ Target[2] \in Nat /\ Target = <<Target[1], Target[2]>>
      /\ Target[1] <= Len(more) /\ Len(more[Target[1]]) = Target[2]
  <2>1. clip.listed <= Len(base) /\ (~Rolls => clip.full = Len(base[clip.listed]))
    BY <1>14
  <2> QED
    BY <1>2, <1>4, <1>14, <2>1, PutStays
<1>6. sessionDirs' = [sessionDirs EXCEPT ![id].files = more]
  OBVIOUS
<1> HIDE DEF more
<1>7. /\ clip' \in ClipState /\ clip'.id = clip.id /\ clip'.source = clip.source
      /\ clip'.file = clip.file /\ clip'.lo = clip.lo /\ clip'.hi = clip.hi
      /\ clip'.at = "frame" /\ clip'.next = n + 1
      /\ clip'.listed = Target[1] /\ clip'.full = Target[2] /\ clip'.count = clip.count + 1
      /\ clip'.start = (IF clip.start = 0 THEN Read ELSE clip.start) /\ clip'.end = Read
  <2> DEFINE first == IF clip.start = 0 THEN Read ELSE clip.start
  <2>1. first \in Nat
    BY <1>2, <1>4 DEF ClipState
  <2>2. clip' = [clip EXCEPT !.next = @ + 1, !.listed = Target[1], !.full = Target[2],
                             !.count = @ + 1, !.start = first, !.end = Read]
    OBVIOUS
  <2> HIDE DEF first
  <2>3. clip' \in ClipState
    <3>1. \A t \in Nat, k \in Nat, m \in Nat, s \in Nat :
              [clip EXCEPT !.next = @ + 1, !.listed = k, !.full = m, !.count = @ + 1,
                           !.start = s, !.end = t] \in ClipState
      BY <1>2, ClipStateIs
    <3>2. [clip EXCEPT !.next = @ + 1, !.listed = Target[1], !.full = Target[2],
                       !.count = @ + 1, !.start = first, !.end = Read] \in ClipState
      BY <1>4, <1>5, <2>1, <3>1
    <3> QED
      BY <2>2, <3>2
  <2>4. /\ clip'.id = clip.id /\ clip'.source = clip.source
        /\ clip'.file = clip.file /\ clip'.lo = clip.lo /\ clip'.hi = clip.hi
        /\ clip'.at = clip.at /\ clip'.next = n + 1
        /\ clip'.listed = Target[1] /\ clip'.full = Target[2] /\ clip'.count = clip.count + 1
        /\ clip'.start = first /\ clip'.end = Read
    BY <1>2, <2>2 DEF ClipState
  <2> QED
    BY <2>3, <2>4 DEF first
<1>8. clip'.next \in 1..(Len(source[f]) + 1)
  <2>1. \A a \in Nat : \A b \in 1..a : b + 1 \in 1..(a + 1)
    OBVIOUS
  <2>2. n + 1 \in 1..(Len(source[f]) + 1)
    BY <1>4, <2>1, Zenon
  <2>3. clip'.next = n + 1
    BY <1>7
  <2> QED
    BY <2>2, <2>3, Zenon
<1>9. ASSUME id \notin reused
      PROVE  /\ Copied(more, due, whole)
             /\ \A p \in Frames(more) : p[1] <= clip'.listed
             /\ GoesWell(clip', more, due, whole)
  <2>1. /\ Copying(clip, sessionDirs[id], due, id \notin flawed)
        /\ GoesWell(clip, files, due, id \notin flawed)
    BY <1>1, <1>9 DEF LibraryInv, CopyInv, Copying
  <2>2. /\ due.source = source /\ CopiedUpTo(<<f, n>>, files, due, id \notin flawed)
        /\ f \notin due.skipped /\ Len(files) = clip.listed
    BY <2>1 DEF Copying, GoesWell
  <2>3. Grown(base, more, Target, Read) /\ Len(more) = Target[1]
    BY <1>2, <1>4, <1>14, <2>2, PutGrows DEF more
  <2>4. TimeAt(source, <<f, n>>) = Read /\ <<f, n>> \in Places(source)
    BY <1>2, <1>4, PlacesAre DEF TimeAt, Read
  <2>5. <<f, n>> \in Owed(due)
    <3>1. \A r : r \in Owed(due) <=>
               /\ r \in Places(source) /\ TimeAt(source, r) # Torn
               /\ r[1] \notin due.skipped
               /\ clip.lo <= TimeAt(source, r) /\ TimeAt(source, r) <= clip.hi
      BY <1>2, <2>1, OwedIsRead DEF Copying
    <3> QED
      BY <2>2, <2>4, <3>1
  <2>20. CopiedUpTo(<<f, n>>, base, due, whole)
    BY <1>2, <2>2, BasedIsCopied
  <2>21. whole => base = files /\ id \notin flawed
    BY DEF Based
  <2>22. Fewer(base, files) /\ Frames(base) \subseteq Frames(files)
    BY DEF Based, Fewer
  <2> HIDE DEF whole
  <2>6. CopiedUpTo(<<f, n + 1>>, more, due, whole)
    BY <1>2, <1>4, <1>14, <2>2, <2>3, <2>4, <2>5, <2>20, GrownIsCopied
  <2>7. Copied(more, due, whole)
    BY <1>2, <2>6, UpToIsCopied
  <2>8. \A p \in Places(more) : p[1] <= Len(more)
    BY <1>5, PlacesAre
  <2>9. \A p \in Frames(more) : p[1] <= clip'.listed
    BY <1>7, <2>3, <2>8 DEF Frames
  <2>10. ASSUME NEW p \in Places(source), Before(p, <<f, n + 1>>), TimeAt(source, p) = Torn
         PROVE  p[1] \in due.skipped
    <3>1. p # <<f, n>> /\ p = <<p[1], p[2]>> /\ p[1] \in Nat /\ p[2] \in Nat
      BY <1>2, <2>4, <2>10, PlacesAre
    <3>2. Before(p, <<f, n>>)
      BY <1>2, <2>10, <3>1 DEF Before
    <3> QED
      BY <2>1, <2>10, <3>2 DEF GoesWell
  <2>11. /\ Places(more) = Places(base) \cup {Target} /\ Target \notin Places(base)
         /\ \A p \in Places(base) : TimeAt(more, p) = TimeAt(base, p)
         /\ TimeAt(more, Target) = Read
    BY <2>3 DEF Grown
  <2>12. Cardinality(Frames(more)) <= clip.count + 1
    <3>1. IsFiniteSet(Frames(files)) /\ Cardinality(Frames(files)) <= clip.count
      BY <1>2, <2>1, PlacesAreFinite DEF GoesWell
    <3>2. IsFiniteSet(Frames(base)) /\ Cardinality(Frames(base)) <= Cardinality(Frames(files))
      BY <2>22, <3>1, FS_Subset
    <3>3. Frames(more) = Frames(base) \cup {Target} /\ Target \notin Frames(base)
      BY <2>11 DEF Frames
    <3>4. Cardinality(Frames(more)) = Cardinality(Frames(base)) + 1
      BY <3>2, <3>3, FS_AddElement
    <3>5. Cardinality(Frames(files)) \in Nat /\ Cardinality(Frames(base)) \in Nat
      BY <3>1, <3>2, FS_CardinalityType
    <3> QED
      BY <1>2, <3>1, <3>2, <3>4, <3>5
  <2>13. Target[1] > 0
    BY <1>2 DEF Target, Rolls
  <2>14. clip.listed = 0 => Target = <<1, 1>> /\ clip.start = 0
    BY <2>1 DEF Target, Rolls, GoesWell
  <2>15. Read # 0
    BY DEF Torn
  <2>16. clip'.count > 0 /\ clip'.start # 0
    BY <1>2, <1>7, <2>15
  <2>17. \A i \in due.skipped : i <= f
    BY <2>1 DEF GoesWell
  <2>18. ASSUME whole PROVE Tells(clip', more)
    <3>1. base = files /\ Tells(clip, files)
      BY <2>1, <2>18, <2>21 DEF GoesWell
    <3>2. \A p \in Places(more) : TimeAt(more, p) # Torn
      BY <2>11, <3>1 DEF Tells
    <3>3. Cardinality(Places(more)) = clip.count + 1
      <4>1. IsFiniteSet(Places(files)) /\ clip.count = Cardinality(Places(files))
        BY <1>2, <3>1, PlacesAreFinite DEF Tells
      <4> QED
        BY <2>11, <3>1, <4>1, FS_AddElement
    <3>4. <<1, 1>> \in Places(more) /\ clip'.start = TimeAt(more, <<1, 1>>)
      <4>1. CASE clip.listed > 0
        <5>1. /\ clip.start # 0 /\ <<1, 1>> \in Places(files)
              /\ clip.start = TimeAt(files, <<1, 1>>)
          BY <2>1, <3>1, <4>1 DEF GoesWell, Tells
        <5> QED
          BY <1>7, <2>11, <3>1, <5>1
      <4>2. CASE clip.listed = 0
        BY <1>7, <2>11, <2>14, <4>2
      <4> QED
        BY <1>2, <4>1, <4>2
    <3>5. /\ <<clip'.listed, clip'.full>> \in Places(more)
          /\ clip'.end = TimeAt(more, <<clip'.listed, clip'.full>>)
      BY <1>5, <1>7, <2>11
    <3> QED
      BY <1>7, <3>2, <3>3, <3>4, <3>5 DEF Tells
  <2>19. GoesWell(clip', more, due, whole)
    BY <1>7, <2>2, <2>3, <2>6, <2>10, <2>12, <2>13, <2>16, <2>17, <2>18 DEF GoesWell
  <2> QED
    BY <2>7, <2>9, <2>19
<1>10. Len(more) >= Len(sessionDirs[clip.id].files)
  BY <1>5
<1>11. /\ clip'.listed <= Len(more)
       /\ clip'.listed > 0 => /\ clip'.full <= Len(more[clip'.listed])
                              /\ clip'.at # "failed" => clip'.full = Len(more[clip'.listed])
  BY <1>5, <1>7
<1>12. clip'.at = "frame" => clip'.next \in 1..(Len(clip.source[clip.file]) + 1)
  BY <1>8
<1>13. clip.id \notin reused =>
             /\ Copied(more, promise[clip.id], clip.id \notin flawed')
             /\ clip'.listed # 0 => \A p \in Frames(more) : p[1] <= clip'.listed
             /\ clip'.at # "failed" =>
                    GoesWell(clip', more, promise[clip.id], clip.id \notin flawed')
  BY <1>9
<1>15. flawed' \in {flawed, flawed \cup {clip.id}}
  BY DEF Based
<1> HIDE DEF files, due, source, f, n, whole
<1> QED
  BY <1>5, <1>6, <1>7, <1>10, <1>11, <1>12, <1>13, <1>15, FrameStep DEF source

LEMMA LosesIs ==
  ASSUME LibraryInv, Clipping, NEW more, NEW was,
         Loses(clip.id, [ClipDir EXCEPT !.files = more], was)
  PROVE  /\ sessionDirs' = [sessionDirs EXCEPT ![clip.id].files = more]
         /\ flawed' = (IF [ClipDir EXCEPT !.files = more] = was THEN flawed
                       ELSE flawed \cup {clip.id})
<1>1. clip.id \in DOMAIN promise
  BY ClipIs
<1>2. {clip.id} \cap DOMAIN promise = {clip.id}
  BY <1>1
<1> QED
  BY <1>2 DEF Loses, ClipDir

LEMMA FrameKeeps ==
  ASSUME LibraryInv, ClipFrame
  PROVE  LibraryInv'
<1>1. clip.at = "frame" /\ UNCHANGED <<listVars, hung, promise, reused>> /\ Clipping
  BY DEF ClipFrame, Clipping
<1>2. CASE ToRead /\ Read # Torn /\ clip.lo <= Read /\ Read <= clip.hi
  <2> DEFINE old == ClipDir.files
  <2>1. CopyFrame(Read)
    BY <1>2 DEF ClipFrame
  <2>2. PICK files \in IF Rolls THEN Closings(old) ELSE {old} :
           \/ /\ Loses(clip.id, [ClipDir EXCEPT !.files = PutFrame(files, Read)],
                                [ClipDir EXCEPT !.files = PutFrame(@, Read)])
              /\ clip' = [clip EXCEPT !.next = @ + 1,
                                      !.listed = IF Rolls THEN @ + 1 ELSE @,
                                      !.full = IF Rolls THEN 1 ELSE @ + 1,
                                      !.count = @ + 1,
                                      !.start = IF @ = 0 THEN Read ELSE @, !.end = Read]
           \/ /\ \E tail \in BOOLEAN :
                     LET Left(f) == IF tail THEN PutFrame(f, Torn) ELSE f
                     IN  Loses(clip.id, [ClipDir EXCEPT !.files = Left(files)],
                                        [ClipDir EXCEPT !.files = Left(@)])
              /\ clip' = [clip EXCEPT !.at = "failed", !.listed = IF Rolls THEN 0 ELSE @]
    BY <2>1 DEF CopyFrame
  <2>3. old \in Source /\ ClipDir \in Directory /\ ClipDir.files = sessionDirs[clip.id].files
    BY <1>1, ClipIs DEF ClipDir
  <2>4. files \in Source /\ Len(files) = Len(old) /\ Fewer(files, old) /\ (~Rolls => files = old)
    <3>1. CASE Rolls
      BY <1>1, <2>2, <3>1, ClosingIs
    <3>2. CASE ~Rolls
      BY <2>2, <2>3, <3>2 DEF Fewer
    <3> QED
      BY <3>1, <3>2
  <2> HIDE DEF old
  <2>5. /\ Based(files, old, flawed \cup {clip.id}) /\ Based(old, old, flawed)
    BY <2>3, <2>4 DEF Based, Fewer
  <2>6. ASSUME NEW base, Based(base, old, flawed'),
               \E more \in {base, PutFrame(base, Torn)} :
                   sessionDirs' = [sessionDirs EXCEPT ![clip.id].files = more],
               clip' = [clip EXCEPT !.at = "failed", !.listed = IF Rolls THEN 0 ELSE @]
        PROVE  LibraryInv'
    BY <1>1, <2>3, <2>6, CopyFails DEF old
  <2>7. ASSUME NEW base, Based(base, old, flawed'),
               sessionDirs' = [sessionDirs EXCEPT ![clip.id].files = PutFrame(base, Read)],
               clip' = [clip EXCEPT !.next = @ + 1,
                               !.listed = IF Rolls THEN @ + 1 ELSE @,
                               !.full = IF Rolls THEN 1 ELSE @ + 1,
                               !.count = @ + 1,
                               !.start = IF @ = 0 THEN Read ELSE @, !.end = Read]
        PROVE  LibraryInv'
    <3>1. /\ (IF Rolls THEN clip.listed + 1 ELSE clip.listed) = Target[1]
          /\ (IF Rolls THEN 1 ELSE clip.full + 1) = Target[2]
      BY DEF Target
    <3>2. clip' = [clip EXCEPT !.next = @ + 1, !.listed = Target[1], !.full = Target[2],
                               !.count = @ + 1, !.start = IF @ = 0 THEN Read ELSE @, !.end = Read]
      BY <2>7, <3>1
    <3>3. Based(base, sessionDirs[clip.id].files, flawed')
      BY <2>3, <2>7 DEF old
    <3> QED
      BY <1>1, <1>2, <2>7, <3>2, <3>3, CopySucceeds
  <2>8. CASE /\ Loses(clip.id, [ClipDir EXCEPT !.files = PutFrame(files, Read)],
                               [ClipDir EXCEPT !.files = PutFrame(@, Read)])
             /\ clip' = [clip EXCEPT !.next = @ + 1,
                                     !.listed = IF Rolls THEN @ + 1 ELSE @,
                                     !.full = IF Rolls THEN 1 ELSE @ + 1,
                                     !.count = @ + 1,
                                     !.start = IF @ = 0 THEN Read ELSE @, !.end = Read]
    <3> DEFINE new == PutFrame(files, Read)
               well == PutFrame(old, Read)
    <3>1. Loses(clip.id, [ClipDir EXCEPT !.files = new], [ClipDir EXCEPT !.files = well])
      BY <2>8 DEF old
    <3> HIDE DEF new, well
    <3>2. /\ sessionDirs' = [sessionDirs EXCEPT ![clip.id].files = new]
          /\ flawed' = (IF [ClipDir EXCEPT !.files = new] = [ClipDir EXCEPT !.files = well]
                        THEN flawed ELSE flawed \cup {clip.id})
      BY <1>1, <3>1, LosesIs
    <3>3. CASE new = well
      <4>1. flawed' = flawed /\ sessionDirs' = [sessionDirs EXCEPT ![clip.id].files = well]
        BY <3>2, <3>3
      <4> QED
        BY <2>5, <2>7, <2>8, <4>1 DEF well
    <3>4. CASE new # well
      <4>1. [ClipDir EXCEPT !.files = new] # [ClipDir EXCEPT !.files = well]
        BY <2>3, <3>4 DEF Directory
      <4>2. flawed' = flawed \cup {clip.id}
        BY <3>2, <4>1
      <4> QED
        BY <2>5, <2>7, <2>8, <3>2, <4>2 DEF new
    <3> QED
      BY <3>3, <3>4
  <2>9. CASE /\ \E tail \in BOOLEAN :
                    LET Left(f) == IF tail THEN PutFrame(f, Torn) ELSE f
                    IN  Loses(clip.id, [ClipDir EXCEPT !.files = Left(files)],
                                       [ClipDir EXCEPT !.files = Left(@)])
             /\ clip' = [clip EXCEPT !.at = "failed", !.listed = IF Rolls THEN 0 ELSE @]
    <3>1. PICK tail \in BOOLEAN :
             Loses(clip.id,
                   [ClipDir EXCEPT !.files = IF tail THEN PutFrame(files, Torn) ELSE files],
                   [ClipDir EXCEPT !.files = IF tail THEN PutFrame(@, Torn) ELSE @])
      BY <2>9
    <3> DEFINE new == IF tail THEN PutFrame(files, Torn) ELSE files
               well == IF tail THEN PutFrame(old, Torn) ELSE old
    <3>2. Loses(clip.id, [ClipDir EXCEPT !.files = new], [ClipDir EXCEPT !.files = well])
      BY <3>1 DEF old
    <3>3. new \in {files, PutFrame(files, Torn)} /\ well \in {old, PutFrame(old, Torn)}
      OBVIOUS
    <3> HIDE DEF new, well
    <3>4. /\ sessionDirs' = [sessionDirs EXCEPT ![clip.id].files = new]
          /\ flawed' = (IF [ClipDir EXCEPT !.files = new] = [ClipDir EXCEPT !.files = well]
                        THEN flawed ELSE flawed \cup {clip.id})
      BY <1>1, <3>2, LosesIs
    <3>5. CASE new = well
      <4>1. flawed' = flawed /\ sessionDirs' = [sessionDirs EXCEPT ![clip.id].files = well]
        BY <3>4, <3>5
      <4> QED
        BY <2>5, <2>6, <2>9, <3>3, <4>1
    <3>6. CASE new # well
      <4>1. [ClipDir EXCEPT !.files = new] # [ClipDir EXCEPT !.files = well]
        BY <2>3, <3>6 DEF Directory
      <4>2. flawed' = flawed \cup {clip.id}
        BY <3>4, <4>1
      <4> QED
        BY <2>5, <2>6, <2>9, <3>3, <3>4, <4>2
    <3> QED
      BY <3>5, <3>6
  <2> QED
    BY <2>2, <2>8, <2>9
<1>3. CASE ~(ToRead /\ Read # Torn /\ clip.lo <= Read /\ Read <= clip.hi)
  <2>1. ReadAway
    BY <1>3 DEF ClipFrame
  <2> QED
    BY <1>1, <1>3, <2>1, ReadKeeps
<1> QED
  BY <1>2, <1>3

-----------------------------------------------------------------------------
(* The end of a clip, and its beginning.                                   *)

LEMMA WholeIsExact ==
  ASSUME NEW c, NEW files \in Source, NEW due, NEW dir, due.source \in Source,
         GoesWell(c, files, due, TRUE), c.source = due.source, dir.files = files,
         c.at = "file", c.file = Len(c.source), c.next \in Nat, c.listed \in Nat, c.count \in Nat,
         c.count > 0, c.full = Len(files[c.listed]),
         dir.meta = [here |-> TRUE, chunks |-> c.listed, count |-> c.count,
                     start |-> c.start, end |-> c.end]
  PROVE  ClipIsExact(dir, due, TRUE)
<1> DEFINE upto == <<c.file, c.next>>
<1>1. PICK origin \in [Frames(files) -> Owed(due)] :
         IsOwed(origin, files, due) /\ Reaches(origin, upto, files, due, TRUE)
  BY DEF GoesWell, CopiedUpTo
<1>13. Tells(c, files)
  BY DEF GoesWell
<1>2. \A p \in Places(due.source) : p[1] <= c.file /\ (p[1] \notin due.skipped => Before(p, upto))
  <2>1. \A p \in Places(due.source) : p[1] \in 1..Len(due.source)
    BY PlacesAre
  <2>2. Len(due.source) \in Nat
    BY DEF Source
  <2>3. \A p \in Places(due.source) : p[1] <= c.file
    BY <2>1, <2>2
  <2>4. \A p \in Places(due.source) :
            p[1] <= c.file /\ p[1] \notin due.skipped => Before(p, <<c.file, c.next>>)
    BY DEF GoesWell
  <2> QED
    BY <2>3, <2>4
<1> HIDE DEF upto
<1>3. \A r \in Owed(due) : Before(r, upto)
  BY <1>2, OwedArePlaces
<1>4. \A r \in Owed(due) : \E p \in Frames(files) : origin[p] = r
  BY <1>1, <1>3 DEF Reaches
<1>5. FromTheFirst(origin, files, due)
  BY <1>4 DEF FromTheFirst
<1>6. \A p \in Places(due.source) \ Frames(due.source) : p[1] \in due.skipped
  BY <1>2 DEF GoesWell, Frames, upto
<1>7. Frames(files) = Places(files)
  BY <1>13 DEF Tells, Frames
<1>8. /\ Len(files) = c.listed /\ c.count = Cardinality(Places(files)) /\ c.listed > 0
  BY <1>13 DEF GoesWell, Tells
<1>9. /\ <<1, 1>> \in Places(files) /\ c.start = TimeAt(files, <<1, 1>>)
      /\ <<c.listed, c.full>> \in Places(files) /\ c.end = TimeAt(files, <<c.listed, c.full>>)
  BY <1>8, <1>13 DEF Tells
<1>10. \A q \in Places(files) : ~Before(q, <<1, 1>>) /\ ~Before(<<c.listed, c.full>>, q)
  <2>1. \A q \in Places(files) : /\ q[1] \in 1..Len(files) /\ q[2] \in 1..Len(files[q[1]])
                                 /\ q[1] \in Nat /\ q[2] \in Nat
    BY PlacesAre
  <2>2. files[c.listed] \in Seq(Nat) /\ c.full \in Nat
    <3>1. c.listed \in 1..Len(files)
      BY <1>8
    <3>2. files[c.listed] \in Seq(Nat)
      BY <3>1 DEF Source
    <3> QED
      BY <3>2
  <2>3. ASSUME NEW q \in Places(files) PROVE q[1] = c.listed => q[2] <= c.full
    BY <2>1, <2>2
  <2>4. ASSUME NEW q \in Places(files) PROVE q[1] <= c.listed
    BY <1>8, <2>1
  <2>5. ASSUME NEW q \in Places(files) PROVE ~Before(<<c.listed, c.full>>, q)
    BY <2>1, <2>2, <2>3, <2>4 DEF Before
  <2>6. ASSUME NEW q \in Places(files) PROVE ~Before(q, <<1, 1>>)
    <3>1. q[1] >= 1 /\ q[2] >= 1
      <4>1. Len(files) \in Nat /\ files[q[1]] \in Seq(Nat)
        BY <2>1 DEF Source
      <4> QED
        BY <2>1, <4>1
    <3> QED
      BY <2>1, <3>1 DEF Before
  <2> QED
    BY <2>5, <2>6
<1>11. /\ dir.meta.chunks = c.listed /\ dir.meta.count = c.count
       /\ dir.meta.start = c.start /\ dir.meta.end = c.end
  OBVIOUS
<1>12. /\ \E p \in Places(files) : /\ dir.meta.start = TimeAt(files, p)
                                   /\ \A q \in Places(files) : ~Before(q, p)
       /\ \E p \in Places(files) : /\ dir.meta.end = TimeAt(files, p)
                                   /\ \A q \in Places(files) : ~Before(p, q)
  BY <1>9, <1>10, <1>11
<1> QED
  BY <1>1, <1>4, <1>5, <1>6, <1>7, <1>8, <1>11, <1>12 DEF ClipIsExact

LEMMA FinishKeeps ==
  ASSUME LibraryInv, FinishClip
  PROVE  LibraryInv'
<1> DEFINE id == clip.id
           dir == sessionDirs[id]
           due == promise[id]
           told == [here |-> TRUE, chunks |-> clip.listed, count |-> clip.count,
                    start |-> clip.start, end |-> clip.end]
<1>1. /\ Clipping /\ clip.at = "file" /\ clip.file = Len(clip.source) /\ clip.count > 0
      /\ UNCHANGED <<hung, promise, reused>> /\ ~Clipping'
      /\ ListSessions(sessionDirs', SelectedId, clip.id)
  BY DEF FinishClip, Clipping, IdleClip
<1>2. PICK meta \in {told, NoMeta, dir.meta}, files \in Closings(ClipDir.files) :
        Loses(id, [files |-> files, meta |-> meta], [ClipDir EXCEPT !.meta = meta])
  BY DEF FinishClip, ClipDir
<1>3. /\ clip \in ClipState /\ id \in DOMAIN sessionDirs /\ id \in DOMAIN promise
      /\ clip.next \in Nat /\ clip.listed \in Nat /\ clip.count \in Nat
      /\ due.source \in Source /\ dir \in Directory /\ dir.files \in Source
      /\ Len(dir.files) \in Nat
  BY <1>1, ClipIs
<1>4. /\ clip.listed <= Len(dir.files)
      /\ clip.listed > 0 => clip.full = Len(dir.files[clip.listed])
  BY <1>1 DEF LibraryInv, PlaceInv
<1> DEFINE Meta == [here : BOOLEAN, chunks : Nat, count : Nat, start : Nat, end : Nat]
<1>5. meta \in Meta /\ meta.chunks <= Len(dir.files)
  <2>1. told \in Meta /\ told.chunks <= Len(dir.files)
    BY <1>3, <1>4 DEF ClipState
  <2>2. NoMeta \in Meta /\ NoMeta.chunks <= Len(dir.files)
    BY <1>3 DEF NoMeta
  <2>3. dir.meta \in Meta
    BY <1>3 DEF Directory
  <2>4. dir.meta.chunks <= Len(dir.files)
    BY <1>3 DEF LibraryInv, DiskInv, Sound
  <2> HIDE DEF told, Meta, dir
  <2> QED
    BY <2>1, <2>2, <2>3, <2>4
<1>6. /\ files \in Source /\ Len(files) = Len(dir.files) /\ Fewer(files, dir.files)
      /\ [files |-> files, meta |-> meta] \in Directory
  <2>1. files \in Source /\ Len(files) = Len(dir.files) /\ Fewer(files, dir.files)
    BY <1>1, ClosingIs DEF ClipDir
  <2> QED
    BY <1>5, <2>1 DEF Directory, Source
<1> DEFINE new == [files |-> files, meta |-> meta]
           dirs == [sessionDirs EXCEPT ![id] = new]
<1>7. /\ Sound(dirs) /\ DOMAIN dirs = DOMAIN sessionDirs /\ dirs[id] = new
      /\ \A other \in DOMAIN dirs : other # id => dirs[other] = sessionDirs[other]
  <2>1. new.meta.chunks <= Len(new.files) /\ new \in Directory
    BY <1>5, <1>6
  <2>2. DiskInv
    BY DEF LibraryInv
  <2> HIDE DEF new
  <2> QED
    BY <1>3, <2>1, <2>2, ReplaceIs
<1>13. sessionDirs' = dirs
  BY <1>2 DEF Loses
<1>14. /\ flawed' \in {flawed, flawed \cup {id}}
       /\ id \notin flawed' => files = dir.files /\ id \notin flawed
  <2>1. {id} \cap DOMAIN promise = {id}
    BY <1>3
  <2>2. [ClipDir EXCEPT !.meta = meta].files = dir.files
    BY <1>3 DEF ClipDir, Directory
  <2>3. CASE new = [ClipDir EXCEPT !.meta = meta]
    <3>1. flawed' = flawed
      BY <1>2, <2>3 DEF Loses
    <3>2. new.files = files
      OBVIOUS
    <3>3. files = dir.files
      BY <2>2, <2>3, <3>2
    <3> QED
      BY <3>1, <3>3
  <2>4. CASE new # [ClipDir EXCEPT !.meta = meta]
    BY <1>2, <2>1, <2>4 DEF Loses
  <2> QED
    BY <2>3, <2>4
<1>15. new.files = files /\ new.meta = meta
  OBVIOUS
<1> HIDE DEF dirs, new
<1>8. ASSUME id \notin reused PROVE ClipIsExact(sessionDirs'[id], promise[id], id \notin flawed')
  <2>1. Copying(clip, dir, due, id \notin flawed) /\ GoesWell(clip, dir.files, due, id \notin flawed)
    BY <1>1, <1>8 DEF LibraryInv, CopyInv, Copying
  <2>2. dir.meta = NoMeta /\ due.source = clip.source
    BY <2>1 DEF Copying
  <2>3. Based(files, dir.files, flawed') \/ id \in flawed'
    BY <1>6, <1>14 DEF Based
  <2>4. <<clip.file, clip.next>> \in Nat \X Nat
    BY <1>3 DEF ClipState
  <2>5. Copied(dir.files, due, id \notin flawed)
    <3>1. CopiedUpTo(<<clip.file, clip.next>>, dir.files, due, id \notin flawed)
      BY <2>1 DEF GoesWell
    <3> QED
      BY <1>3, <2>4, <3>1, UpToIsCopied
  <2>6. CASE id \notin flawed'
    <3>1. files = dir.files /\ id \notin flawed
      BY <1>14, <2>6
    <3>2. GoesWell(clip, files, due, TRUE)
      BY <2>1, <3>1 DEF GoesWell, CopiedUpTo, Reaches
    <3>3. CASE meta = told
      <4>1. clip.listed > 0
        BY <1>1, <1>3, <2>1 DEF GoesWell
      <4>2. clip.full = Len(files[clip.listed])
        BY <1>4, <3>1, <4>1
      <4>3. ClipIsExact(new, due, TRUE)
        <5>1. /\ files \in Source /\ due.source \in Source /\ clip.source = due.source
              /\ new.files = files /\ clip.at = "file" /\ clip.file = Len(clip.source)
              /\ clip.next \in Nat /\ clip.listed \in Nat /\ clip.count \in Nat /\ clip.count > 0
              /\ new.meta = told
          BY <1>1, <1>3, <1>6, <1>15, <2>2, <3>3
        <5> HIDE DEF due, dir
        <5> QED
          BY <3>2, <4>2, <5>1, WholeIsExact
      <4> QED
        BY <1>7, <1>13, <2>6, <4>3 DEF ClipIsExact
    <3>4. CASE meta = NoMeta
      <4>1. ~new.meta.here /\ Copied(new.files, due, id \notin flawed)
        BY <1>15, <2>5, <3>1, <3>4 DEF NoMeta
      <4>2. ClipIsExact(new, due, id \notin flawed)
        BY <4>1, CopiedIsExact
      <4> QED
        BY <1>7, <1>13, <2>6, <3>1, <4>2 DEF ClipIsExact
    <3> QED
      BY <2>2, <3>3, <3>4
  <2>7. CASE id \in flawed'
    <3>1. Copied(new.files, due, FALSE)
      BY <1>6, <1>15, <2>5, LessIsCopied
    <3>2. ASSUME new.meta.here PROVE Cardinality(Frames(new.files)) <= new.meta.count
      <4>1. new.meta.count = clip.count
        BY <1>15, <2>2, <3>2 DEF NoMeta
      <4>2. Cardinality(Frames(dir.files)) <= clip.count /\ IsFiniteSet(Frames(dir.files))
        BY <1>3, <2>1, PlacesAreFinite DEF GoesWell
      <4>3. /\ Cardinality(Frames(files)) <= Cardinality(Frames(dir.files))
            /\ IsFiniteSet(Frames(files))
        BY <1>6, <4>2, FS_Subset DEF Fewer
      <4>4. Cardinality(Frames(files)) \in Nat /\ Cardinality(Frames(dir.files)) \in Nat
        BY <4>2, <4>3, FS_CardinalityType
      <4> QED
        BY <1>3, <1>15, <4>1, <4>2, <4>3, <4>4
    <3>3. ClipIsExact(new, due, FALSE)
      BY <3>1, <3>2, LostIsExact
    <3> QED
      BY <1>7, <1>13, <2>7, <3>3 DEF ClipIsExact
  <2> QED
    BY <2>6, <2>7
<1>9. ExactInv'
  <2>1. ASSUME NEW other \in (DOMAIN promise \cap DOMAIN sessionDirs) \ reused, other # id
        PROVE  ClipIsExact(sessionDirs'[other], promise[other], other \notin flawed')
    <3>1. ClipIsExact(sessionDirs[other], promise[other], other \notin flawed)
      BY DEF LibraryInv, ExactInv
    <3>2. sessionDirs'[other] = sessionDirs[other] /\ (other \in flawed' <=> other \in flawed)
      BY <1>7, <1>13, <1>14, <2>1
    <3> QED
      BY <3>1, <3>2 DEF ClipIsExact
  <2>2. DOMAIN sessionDirs' = DOMAIN sessionDirs
    BY <1>7, <1>13
  <2>3. promise' = promise /\ reused' = reused
    BY <1>1
  <2> HIDE DEF id
  <2>4. \A other \in (DOMAIN promise \cap DOMAIN sessionDirs) \ reused :
            ClipIsExact(sessionDirs'[other], promise[other], other \notin flawed')
    BY <1>8, <2>1
  <2> QED
    BY <2>2, <2>3, <2>4 DEF ExactInv
<1>10. DiskInv'
  BY <1>1, <1>7, <1>13 DEF LibraryInv, DiskInv
<1>11. ListInv'
  BY <1>1, <1>10, ListIs DEF DiskInv
<1>12. ~hung'
  BY <1>1 DEF LibraryInv, HungInv
<1> QED
  BY <1>1, <1>9, <1>10, <1>11, <1>12 DEF LibraryInv, HungInv, PlaceInv, CopyInv

LEMMA ShownTimeRises ==
  ASSUME NEW a \in Nat, NEW b \in Nat, a <= b
  PROVE  ShownTime(a) <= ShownTime(b)
<1> DEFINE q == a \div Second
           r == b \div Second
<1>1. Second \in Nat /\ Second > 0
  OBVIOUS
<1>2. q \in Int /\ r \in Int /\ a % Second \in 0..(Second - 1) /\ b % Second \in 0..(Second - 1)
  BY <1>1
<1>3. a = Second * q + (a % Second) /\ b = Second * r + (b % Second)
  BY <1>1
<1> DEFINE x == Second * q
           y == Second * r
<1>4. x \in Int /\ y \in Int /\ ShownTime(a) = x /\ ShownTime(b) = y
  BY <1>1, <1>2, <1>3 DEF ShownTime
<1>5. q <= r \/ q >= r + 1
  BY <1>2
<1>6. q <= r => x <= y
  BY <1>1, <1>2
<1>7. q >= r + 1 => x >= y + Second
  <2>1. ASSUME q >= r + 1 PROVE Second * q >= Second * (r + 1)
    BY <1>1, <1>2, <2>1
  <2>2. Second * (r + 1) = Second * r + Second
    BY <1>1, <1>2
  <2> QED
    BY <2>1, <2>2
<1> HIDE DEF q, r, x, y
<1>8. a = x + (a % Second) /\ b = y + (b % Second)
  BY <1>3 DEF x, y
<1> QED
  BY <1>1, <1>2, <1>4, <1>5, <1>6, <1>7, <1>8

(* A range as the view filled it in has the frames that are promised.      *)
LEMMA ShownRangeIs ==
  ASSUME NEW start \in Nat, NEW end \in Nat, Second <= start, start <= end,
         NEW t \in Nat, start <= t,
         NEW lo, NEW hi,
         LET a == IF ShownTime(start) = 0 THEN start ELSE ShownTime(start)
             b == IF ShownTime(end) = 0 THEN end ELSE ShownTime(end)
         IN  lo = (IF a > b THEN b ELSE a) /\ hi = (IF a > b THEN a ELSE b)
  PROVE  (0 <= t /\ t <= ShownTime(end)) <=> (lo <= t /\ t <= hi)
<1>1. /\ ShownTime(start) \in Nat /\ ShownTime(start) <= start /\ ShownTime(start) > 0
      /\ ShownTime(end) \in Nat /\ ShownTime(end) > 0
  <2>1. Second <= end
    OBVIOUS
  <2> QED
    BY <2>1, ShownTimeIs
<1>2. ShownTime(start) <= ShownTime(end)
  BY ShownTimeRises
<1>3. lo = ShownTime(start) /\ hi = ShownTime(end)
  BY <1>1, <1>2
<1> QED
  BY <1>1, <1>3

LEMMA ClipBegins ==
  ASSUME LibraryInv, ClipSelectedRange
  PROVE  LibraryInv'
<1>1. /\ ~Clipping /\ ~hung /\ selectedIndex # 0 /\ SelectedId \in DOMAIN sessionDirs
      /\ UNCHANGED <<listVars, hung>>
  BY DEF ClipSelectedRange, Free, Clipping
<1> DEFINE dir == sessionDirs[SelectedId]
           a == IF rangeText[1] = 0 THEN dir.meta.start ELSE rangeText[1]
           b == IF rangeText[2] = 0 THEN dir.meta.end ELSE rangeText[2]
           lo == IF a > b THEN b ELSE a
           hi == IF a > b THEN a ELSE b
           source == Files(dir)
           due == Promised(dir, lo, hi)
<1>2. PICK second \in Seconds :
        LET id == Append(SelectedId, second)
            there == id \in DOMAIN sessionDirs
        IN  /\ sessionDirs' = IF there THEN sessionDirs ELSE With(sessionDirs, id, EmptyDir)
            /\ clip' = [at |-> "file", id |-> id, source |-> source, file |-> 0, next |-> 0,
                        lo |-> lo, hi |-> hi, listed |-> 0, full |-> 0,
                        count |-> 0, start |-> 0, end |-> 0]
            /\ promise' = With(promise, id, due)
            /\ reused' = IF there THEN reused \cup {id} ELSE reused \ {id}
            /\ flawed' = IF there THEN flawed ELSE flawed \ {id}
  BY DEF ClipSelectedRange
<1> DEFINE id == Append(SelectedId, second)
           there == id \in DOMAIN sessionDirs
<1>3. Clipping'
  BY <1>2 DEF Clipping
<1>4. /\ dir \in Directory /\ source \in Source /\ dir.meta.start \in Nat /\ dir.meta.end \in Nat
  BY <1>1, FilesAre DEF LibraryInv, DiskInv
<1>5. /\ rangeText[1] \in Nat /\ rangeText[2] \in Nat
  BY DEF LibraryInv, ListInv
<1>6. lo \in Nat /\ hi \in Nat
  BY <1>4, <1>5
<1> HIDE DEF lo, hi
<1>7. /\ due.source = source /\ due.skipped = {} /\ due \in Promise
      /\ due.source \in Source
  <2>1. ShownTime(dir.meta.end) \in Nat
    BY <1>4, ShownTimeIs
  <2> HIDE DEF source, dir
  <2> QED
    BY <1>4, <1>6, <2>1 DEF Promised, Promise, source
<1>8. /\ promise' = With(promise, id, due) /\ clip'.id = id /\ clip'.at = "file"
      /\ clip'.source = source /\ clip'.file = 0 /\ clip'.next = 0 /\ clip'.lo = lo
      /\ clip'.hi = hi /\ clip'.listed = 0 /\ clip'.count = 0 /\ clip'.start = 0
  BY <1>2
<1> HIDE DEF due
<1>9. /\ DOMAIN promise' = DOMAIN promise \cup {id} /\ promise'[id] = due
      /\ \A other \in DOMAIN promise : other # id => promise'[other] = promise[other]
      /\ promise' \in [DOMAIN promise' -> Promise]
  BY <1>7, <1>8 DEF With, LibraryInv, DiskInv
<1>10. /\ DOMAIN sessionDirs' = DOMAIN sessionDirs \cup {id}
       /\ sessionDirs'[id] = IF there THEN sessionDirs[id] ELSE EmptyDir
       /\ \A other \in DOMAIN sessionDirs : other # id => sessionDirs'[other] = sessionDirs[other]
       /\ sessionDirs' = [other \in DOMAIN sessionDirs' |-> sessionDirs'[other]]
  <2>1. CASE there
    <3>1. sessionDirs' = sessionDirs
      BY <1>2, <2>1
    <3> QED
      BY <2>1, <3>1 DEF LibraryInv, DiskInv, Sound
  <2>2. CASE ~there
    <3>1. sessionDirs' = With(sessionDirs, id, EmptyDir)
      BY <1>2, <2>2
    <3> QED
      BY <2>2, <3>1 DEF With
  <2> QED
    BY <2>1, <2>2
<1>11. /\ reused' = IF there THEN reused \cup {id} ELSE reused \ {id}
       /\ flawed' = IF there THEN flawed ELSE flawed \ {id}
  BY <1>2
<1> HIDE DEF id, there, source
<1>12. Sound(sessionDirs')
  <2>1. IsFiniteSet(DOMAIN sessionDirs')
    BY <1>10, FS_AddElement DEF LibraryInv, DiskInv, Sound
  <2>2. ASSUME NEW i \in DOMAIN sessionDirs'
        PROVE  /\ sessionDirs'[i] \in Directory
               /\ sessionDirs'[i].meta.chunks <= Len(sessionDirs'[i].files)
    <3>1. CASE i = id /\ ~there
      BY <1>10, <3>1, EmptyIsDirectory
    <3>2. CASE ~(i = id /\ ~there)
      <4>1. i \in DOMAIN sessionDirs /\ sessionDirs'[i] = sessionDirs[i]
        BY <1>10, <3>2 DEF there
      <4> QED
        BY <4>1 DEF LibraryInv, DiskInv, Sound
    <3> QED
      BY <3>1, <3>2
  <2>3. sessionDirs' \in [DOMAIN sessionDirs' -> Directory]
    BY <1>10, <2>2
  <2> QED
    BY <2>1, <2>2, <2>3 DEF Sound
<1>13. DiskInv'
  BY <1>9, <1>12 DEF DiskInv
<1>14. ListInv' /\ HungInv'
  BY <1>1 DEF LibraryInv, ListInv, HungInv, listVars
<1>15. clip' \in ClipState'
  <2>1. id \in DOMAIN promise' \cap DOMAIN sessionDirs'
    BY <1>9, <1>10
  <2> DEFINE Ids == DOMAIN promise' \cap DOMAIN sessionDirs'
  <2>2. clip' = [at |-> "file", id |-> id, source |-> source, file |-> 0, next |-> 0,
                 lo |-> lo, hi |-> hi, listed |-> 0, full |-> 0,
                 count |-> 0, start |-> 0, end |-> 0]
    BY <1>2 DEF id, source
  <2>3. source \in Source
    BY <1>7
  <2> HIDE DEF Ids
  <2>4. id \in Ids
    BY <2>1 DEF Ids
  <2>5. clip' \in [at : {"file", "frame", "failed"}, id : Ids, source : Source, file : Nat,
                   next : Nat, lo : Nat, hi : Nat, listed : Nat, full : Nat, count : Nat,
                   start : Nat, end : Nat]
    BY <1>6, <2>2, <2>3, <2>4
  <2> QED
    BY <2>5 DEF ClipState, Ids
<1>16. PlaceInv'
  <2>1. Len(source) \in Nat /\ Len(sessionDirs'[id].files) \in Nat
    <3>1. source \in Source
      BY <1>7
    <3>2. sessionDirs'[id].files \in Source
      BY <1>10, <1>12, FilesAre
    <3> QED
      BY <3>1, <3>2 DEF Source
  <2> QED
    BY <1>8, <1>15, <2>1 DEF PlaceInv
<1>17. ASSUME id \notin reused'
       PROVE  /\ Copying(clip', sessionDirs'[id], due, TRUE)
              /\ ClipIsExact(sessionDirs'[id], due, TRUE) /\ id \notin flawed'
  <2>1. ~there /\ sessionDirs'[id] = EmptyDir
    BY <1>10, <1>11, <1>17
  <2>2. EmptyDir.files = <<>> /\ EmptyDir.meta = NoMeta /\ ClipIsExact(EmptyDir, due, TRUE)
    BY <1>7, EmptyIsExact
  <2>3. /\ CopiedUpTo(<<0, 0>>, <<>>, due, TRUE) /\ Frames(<<>>) = {} /\ Places(<<>>) = {}
    BY <1>7, NothingIsCopied
  <2>4. ASSUME NEW p \in Frames(source)
        PROVE  LET t == TimeAt(source, p)
               IN  (due.lo <= t /\ t <= due.hi) <=> (lo <= t /\ t <= hi)
    <3> DEFINE t == TimeAt(source, p)
               asShown == /\ ~typed /\ sessionList[selectedIndex] = Row(SelectedId, dir)
                          /\ Steady(dir)
    <3>1. t \in Nat
      <4>1. p \in Places(source) /\ source \in Source
        BY <1>7 DEF Frames
      <4> QED
        BY <4>1, PlacesAre
    <3>2. CASE ~asShown
      <4>1. due.lo = lo /\ due.hi = hi
        BY <3>2 DEF due, Promised
      <4> QED
        BY <4>1
    <3>3. CASE asShown
      <4>1. due.lo = 0 /\ due.hi = ShownTime(dir.meta.end)
        BY <3>3 DEF due, Promised
      <4>2. Second <= dir.meta.start /\ dir.meta.start <= dir.meta.end /\ dir.meta.start <= t
        BY <3>3 DEF Steady, source
      <4>3. /\ sessionList[selectedIndex].start = dir.meta.start
            /\ sessionList[selectedIndex].end = dir.meta.end
        BY <3>3 DEF Row
      <4>4. rangeText = <<ShownTime(dir.meta.start), ShownTime(dir.meta.end)>>
        BY <1>1, <3>3, <4>3 DEF LibraryInv, ListInv
      <4> DEFINE x == IF ShownTime(dir.meta.start) = 0 THEN dir.meta.start
                      ELSE ShownTime(dir.meta.start)
                 y == IF ShownTime(dir.meta.end) = 0 THEN dir.meta.end
                      ELSE ShownTime(dir.meta.end)
      <4>5. lo = (IF x > y THEN y ELSE x) /\ hi = (IF x > y THEN x ELSE y)
        BY <4>4 DEF lo, hi
      <4> HIDE DEF t, dir
      <4>6. (0 <= t /\ t <= ShownTime(dir.meta.end)) <=> (lo <= t /\ t <= hi)
        BY <1>4, <3>1, <4>2, <4>5, ShownRangeIs
      <4> QED
        BY <4>1, <4>6 DEF t
    <3> QED
      BY <3>2, <3>3
  <2>5. IsFiniteSet({}) /\ Cardinality({}) = 0
    BY FS_EmptySet
  <2>6. \A p \in Places(source) : p[1] \in Nat /\ p[2] \in Nat /\ p[1] > 0
    BY <1>7, PlacesAre
  <2>7. GoesWell(clip', <<>>, due, TRUE)
    <3>1. CopiedUpTo(<<clip'.file, clip'.next>>, <<>>, due, TRUE)
      BY <1>8, <2>3
    <3>2. \A p \in Places(clip'.source) : p[1] > clip'.file /\ ~Before(p, <<clip'.file, clip'.next>>)
      BY <1>8, <2>6 DEF Before
    <3>3. clip'.count = 0 /\ clip'.listed = 0 /\ Len(<<>>) = 0
      BY <1>8
    <3>7. Cardinality(Frames(<<>>)) = 0 /\ Cardinality(Places(<<>>)) = 0 /\ Places(<<>>) = {}
      BY <2>3, <2>5
    <3>8. Tells(clip', <<>>)
      BY <3>3, <3>7 DEF Tells
    <3>4. \A p \in Places(clip'.source) : p[1] <= clip'.file => FALSE
      BY <1>8, <2>6
    <3>5. /\ clip'.at = "file" /\ clip'.listed = 0 /\ clip'.count = 0 /\ clip'.start = 0
      BY <1>8
    <3>6. \A i \in due.skipped : i <= clip'.file
      BY <1>7
    <3> HIDE DEF due
    <3>9. Len(<<>>) = clip'.listed /\ Cardinality(Frames(<<>>)) <= clip'.count
      BY <3>3, <3>7
    <3>10. /\ clip'.at # "frame" /\ ~(clip'.listed > 0)
           /\ clip'.listed = 0 => clip'.count = 0 /\ clip'.start = 0
      BY <3>5
    <3> QED
      BY <3>1, <3>2, <3>4, <3>6, <3>8, <3>9, <3>10, Zenon DEF GoesWell
  <2>8. Copying(clip', EmptyDir, due, TRUE)
    BY <1>7, <1>8, <2>2, <2>3, <2>4, <2>7 DEF Copying
  <2> QED
    BY <1>11, <2>1, <2>2, <2>8
<1>18. CopyInv'
  <2>1. ASSUME id \notin reused' PROVE Copying(clip', sessionDirs'[id], due, id \notin flawed')
    BY <1>17, <2>1 DEF Copying, GoesWell, CopiedUpTo, Reaches
  <2> QED
    BY <1>8, <1>9, <2>1 DEF CopyInv
<1>19. ExactInv'
  <2>1. ASSUME NEW other \in (DOMAIN promise' \cap DOMAIN sessionDirs') \ reused', other # id
        PROVE  ClipIsExact(sessionDirs'[other], promise'[other], other \notin flawed')
    <3>1. other \in (DOMAIN promise \cap DOMAIN sessionDirs) \ reused
      BY <1>9, <1>10, <1>11, <2>1
    <3>2. sessionDirs'[other] = sessionDirs[other] /\ promise'[other] = promise[other]
      BY <1>9, <1>10, <2>1, <3>1
    <3>3. ClipIsExact(sessionDirs[other], promise[other], other \notin flawed)
      BY <3>1 DEF LibraryInv, ExactInv
    <3>4. other \in flawed' <=> other \in flawed
      BY <1>11, <2>1
    <3> QED
      BY <3>2, <3>3, <3>4 DEF ClipIsExact
  <2>2. ASSUME id \notin reused' PROVE ClipIsExact(sessionDirs'[id], promise'[id], id \notin flawed')
    BY <1>9, <1>17, <2>2 DEF ClipIsExact
  <2> QED
    BY <2>1, <2>2 DEF ExactInv
<1> QED
  BY <1>13, <1>14, <1>16, <1>18, <1>19 DEF LibraryInv

------------------------------------------------------------------------------
(* Every clip is exact.                                                    *)

LEMMA InitLibrary ==
  ASSUME LibraryInit
  PROVE  LibraryInv
<1>1. ~Clipping
  BY DEF LibraryInit, NoProgram, Clipping
<1>2. DOMAIN promise = {}
  BY DEF LibraryInit
<1>3. DiskInv
  <2>1. Sound(sessionDirs)
    BY LibraryAssumption DEF LibraryInit, Sound
  <2>2. promise \in [DOMAIN promise -> Promise]
    BY DEF LibraryInit
  <2> QED
    BY <2>1, <2>2 DEF DiskInv
<1>4. ListInv
  BY DEF LibraryInit, ListInv
<1>5. HungInv /\ PlaceInv /\ CopyInv
  BY <1>1 DEF LibraryInit, HungInv, PlaceInv, CopyInv
<1>6. ExactInv
  BY <1>2 DEF ExactInv
<1> QED
  BY <1>3, <1>4, <1>5, <1>6 DEF LibraryInv

LEMMA NextLibrary ==
  ASSUME LibraryInv, [LibraryNext]_libraryVars
  PROVE  LibraryInv'
<1>1. CASE RefreshSessionList \/ OpenDirectory \/ SelectSession \/ EditRange \/ PressWithoutSession
  BY <1>1, ListActions
<1>2. CASE RemoveSelectedSession \/ Vanish \/ FailClip
  BY <1>2, RemoveActions
<1>3. CASE ClipSelectedRange
  BY <1>3, ClipBegins
<1>4. CASE OpenSource
  BY <1>4, OpenKeeps
<1>5. CASE ClipFrame
  BY <1>5, FrameKeeps
<1>6. CASE FinishClip
  BY <1>6, FinishKeeps
<1>7. CASE Restart
  BY <1>7, RestartKeeps
<1>8. CASE UNCHANGED libraryVars
  <2>1. /\ DiskInv' /\ HungInv'
    BY <1>8 DEF libraryVars, listVars, LibraryInv, DiskInv, HungInv, Clipping
  <2>2. ListInv'
    BY <1>8 DEF libraryVars, listVars, LibraryInv, ListInv
  <2>3. PlaceInv'
    BY <1>8 DEF libraryVars, listVars, LibraryInv, PlaceInv, Clipping, ClipState
  <2>4. CopyInv' /\ ExactInv'
    <3>1. /\ sessionDirs' = sessionDirs /\ promise' = promise /\ reused' = reused
          /\ flawed' = flawed /\ clip' = clip
      BY <1>8 DEF libraryVars
    <3> QED
      BY <3>1 DEF LibraryInv, CopyInv, ExactInv, Clipping
  <2> QED
    BY <2>1, <2>2, <2>3, <2>4 DEF LibraryInv
<1> QED
  BY <1>1, <1>2, <1>3, <1>4, <1>5, <1>6, <1>7, <1>8 DEF LibraryNext

(* Whatever the recordings, their sizes and the ranges typed, and wherever *)
(* the disk fails or the program ends: a clip that was not written over an *)
(* earlier one holds frames it should hold and no other, in the order of   *)
(* the source, and no more of them than its session.json counts.  Unless   *)
(* one of its chunks was closed with a loss or a removal of it stopped     *)
(* half-way, these are the frames up to some frame, and all of them once   *)
(* it has a session.json (clipSelectedRange).  The main thread hangs only  *)
(* without a selection.                                                    *)
THEOREM ClipsStayExact == LibrarySpec => []ClipsAreExact
<1>1. LibraryInit => LibraryInv
  BY InitLibrary
<1>2. LibraryInv /\ [LibraryNext]_libraryVars => LibraryInv'
  BY NextLibrary
<1>3. LibraryInv => ClipsAreExact
  BY DEF LibraryInv, ExactInv, HungInv, ListInv, ClipsAreExact
<1> QED
  BY <1>1, <1>2, <1>3, PTL DEF LibrarySpec
=============================================================================
