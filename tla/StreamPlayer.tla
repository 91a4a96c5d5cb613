------------------------------ MODULE StreamPlayer ------------------------------
(***************************************************************************)
(* Playing RTSP streams: the thread of the message bus queues packets, one *)
(* worker per stream decodes them, the main thread selects, resets and     *)
(* removes streams.  What is modelled is who waits for whom; packets are   *)
(* told apart by their stream only, decoded frames are left out.           *)
(***************************************************************************)
EXTENDS Naturals, FiniteSets

CONSTANTS
    Ids,            \* the streams
    Objects,        \* as many StreamState objects as may exist at a time
    none,           \* no stream, no object
    Budgets         \* packets a queue may hold, see BudgetOf

BudgetKinds == {"integrity", "latency", "background"}

ASSUME BudgetsAssumption == Budgets \in [BudgetKinds -> Nat \ {0}]
ASSUME NoneAssumption == none \notin Ids \cup Objects

VARIABLES
    life,           \* "new", "up", "closing", "down", or "aborted" by std::terminate
    streams,        \* streams_
    selected,       \* selectedStreamId_
    preferred,      \* preferredStreamId_
    integrity,      \* preferPacketIntegrity_
    owner,          \* object -> streamId, or none: no such object
    stop,           \* object -> stop
    reset,          \* object -> resetPending
    queue,          \* object -> queuedPacketCount
    worker,         \* object -> where its worker is
    bus,            \* the bus thread: at, obj, budget
    main            \* the main thread: at, then, id, todo, joining, cur

vars == <<life, streams, selected, preferred, integrity, owner, stop, reset, queue,
          worker, bus, main>>

view == <<streams, selected, preferred, integrity>>
objects == <<owner, stop, reset, queue, worker>>

Idle == [at |-> "idle", then |-> "idle", id |-> none, todo |-> {}, joining |-> {}, cur |-> none]

BusIdle == [at |-> "idle", obj |-> none, budget |-> 0]

Visible == {s \in Ids : streams[s] # none}
Current == {streams[s] : s \in Visible}

Init ==
    /\ life = "new"
    /\ streams = [s \in Ids |-> none]
    /\ selected = none /\ preferred = none
    /\ integrity \in BOOLEAN
    /\ owner = [o \in Objects |-> none]
    /\ stop = [o \in Objects |-> FALSE]
    /\ reset = [o \in Objects |-> FALSE]
    /\ queue = [o \in Objects |-> 0]
    /\ worker = [o \in Objects |-> "none"]
    /\ bus = BusIdle /\ main = Idle

\* Nobody has a shared_ptr to the object, or its thread.
Unreferenced(o) ==
    /\ o \notin Current /\ bus.obj # o
    /\ o \notin main.todo \cup main.joining \cup {main.cur}

\* The last shared_ptr is gone: the object is destroyed, another may take its place.
Destroy(o) ==
    /\ owner' = [owner EXCEPT ![o] = none]
    /\ stop' = [stop EXCEPT ![o] = FALSE]
    /\ reset' = [reset EXCEPT ![o] = FALSE]
    /\ queue' = [queue EXCEPT ![o] = 0]

MainAt(place) == main' = [main EXCEPT !.at = place]

\* With no stream selected all are treated as if they were.
IsSelected(s) == selected \in {none, s}

\* queueBudgetForStream.
BudgetOf(s) ==
    Budgets[IF ~IsSelected(s) THEN "background" ELSE IF integrity THEN "integrity" ELSE "latency"]

\* queueMutex: a worker keeps it from its test to its sleep.
Unlocked(o) == worker[o] # "drowsy"

\* queueCv.notify_all and notify_one, as one worker waits.
Notified(o) == [worker EXCEPT ![o] = IF @ = "asleep" THEN "check" ELSE @]

-----------------------------------------------------------------------------
(* The bus thread: handleRtspPacket.                                       *)

\* What ensureStreamState selects when it sees a stream for the first time.
AutoSelected(s) == IF preferred = s \/ selected = none THEN s ELSE selected

FindStream(s) ==
    /\ life = "up" /\ bus.at = "idle"
    /\ streams[s] # none
    /\ bus' = [bus EXCEPT !.at = "budget", !.obj = streams[s]]
    /\ UNCHANGED <<life, view, objects, main>>

CreateStream(s, o) ==
    /\ life = "up" /\ bus.at = "idle"
    /\ streams[s] = none
    /\ owner[o] = none
    /\ owner' = [owner EXCEPT ![o] = s]
    /\ streams' = [streams EXCEPT ![s] = o]
    /\ selected' = AutoSelected(s)
    /\ preferred' = IF preferred = s THEN none ELSE preferred
    /\ bus' = [bus EXCEPT !.at = "spawn", !.obj = o]
    /\ UNCHANGED <<life, integrity, stop, reset, queue, worker, main>>

\* The stream is in streams_ before its worker is started.
SpawnWorker ==
    /\ bus.at = "spawn"
    /\ worker' = [worker EXCEPT ![bus.obj] = "check"]
    /\ bus' = [bus EXCEPT !.at = "budget"]
    /\ UNCHANGED <<life, view, owner, stop, reset, queue, main>>

ReadBudget ==
    /\ bus.at = "budget"
    /\ bus' = [bus EXCEPT !.at = "push", !.budget = BudgetOf(owner[bus.obj])]
    /\ UNCHANGED <<life, view, objects, main>>

\* The oldest packets make room, for their number or for their bytes.
PushPacket ==
    /\ bus.at = "push" /\ Unlocked(bus.obj)
    /\ \E kept \in 0 .. queue[bus.obj] :
         /\ kept < bus.budget
         /\ queue' = [queue EXCEPT ![bus.obj] = kept + 1]
    /\ bus' = [bus EXCEPT !.at = "notify"]
    /\ UNCHANGED <<life, view, owner, stop, reset, worker, main>>

NotifyWorker ==
    /\ bus.at = "notify"
    /\ worker' = Notified(bus.obj)
    /\ bus' = BusIdle
    /\ IF worker[bus.obj] = "none" THEN Destroy(bus.obj)
                                   ELSE UNCHANGED <<owner, stop, reset, queue>>
    /\ UNCHANGED <<life, view, main>>

-----------------------------------------------------------------------------
(* A worker: streamWorkerLoop.  The decoder, the key frame it waits for,   *)
(* what it does with a frame and the statistics are left out.              *)
(* The loop's own test of stop is that of the wait, which follows it.      *)

\* The predicate of the wait, evaluated under the mutex, is false.
FindNothing(o) ==
    /\ worker[o] = "check"
    /\ ~stop[o] /\ ~reset[o] /\ queue[o] = 0
    /\ worker' = [worker EXCEPT ![o] = "drowsy"]
    /\ UNCHANGED <<life, view, owner, stop, reset, queue, bus, main>>

FallAsleep(o) ==
    /\ worker[o] = "drowsy"
    /\ worker' = [worker EXCEPT ![o] = "asleep"]
    /\ UNCHANGED <<life, view, owner, stop, reset, queue, bus, main>>

\* A condition variable may return without a reason.
WakeSpuriously(o) ==
    /\ worker[o] = "asleep"
    /\ worker' = [worker EXCEPT ![o] = "check"]
    /\ UNCHANGED <<life, view, owner, stop, reset, queue, bus, main>>

FindStop(o) ==
    /\ worker[o] = "check" /\ stop[o]
    /\ worker' = [worker EXCEPT ![o] = "ended"]
    /\ UNCHANGED <<life, view, owner, stop, reset, queue, bus, main>>

\* Unless integrity is preferred, packets too old are dropped; one is taken.
TakePacket(o) ==
    /\ worker[o] = "check" /\ ~stop[o]
    /\ reset[o] \/ queue[o] > 0
    /\ reset' = [reset EXCEPT ![o] = FALSE]
    /\ \E young \in (IF integrity THEN {queue[o]} ELSE 0 .. queue[o]) :
         IF young = 0
         THEN /\ queue' = [queue EXCEPT ![o] = 0]
              /\ worker' = [worker EXCEPT ![o] = "check"]
         ELSE /\ queue' = [queue EXCEPT ![o] = young - 1]
              /\ worker' = [worker EXCEPT ![o] = "decode"]
    /\ UNCHANGED <<life, view, owner, stop, bus, main>>

\* Not decoded as its stream is not selected, too old, or decoded and shown.
FinishPacket(o) ==
    /\ worker[o] = "decode"
    /\ worker' = [worker EXCEPT ![o] = "check"]
    /\ UNCHANGED <<life, view, owner, stop, reset, queue, bus, main>>

-----------------------------------------------------------------------------
(* The main thread.  A handler runs to its end before the next one.        *)

Start ==
    /\ life = "new"
    /\ life' = "up"
    /\ UNCHANGED <<view, objects, bus, main>>

\* A replay has begun or ended: handleReplayStateChanged.
HandleReplayStatus ==
    /\ life = "up" /\ main.at = "idle"
    /\ main' = [main EXCEPT !.at = "reset", !.todo = Current]
    /\ UNCHANGED <<life, view, objects, bus>>

\* handleControlResult: the answer to a command that succeeded.
HandleControlResult(action, s, configChanged) ==
    /\ life = "up" /\ main.at = "idle"
    /\ main' = IF configChanged
               THEN [main EXCEPT !.at = "reset", !.then = action, !.id = s, !.todo = Current]
               ELSE [main EXCEPT !.at = action, !.id = s]
    /\ UNCHANGED <<life, view, objects, bus>>

\* setSelectedStreamId from the view, which lists the streams there are.
SelectStream(s) ==
    /\ life = "up" /\ main.at = "idle"
    /\ s \in Visible
    /\ main' = [main EXCEPT !.at = "select", !.id = s]
    /\ UNCHANGED <<life, view, objects, bus>>

\* setPreferPacketIntegrity with the other value.
TogglePacketHandlingMode ==
    /\ life = "up" /\ main.at = "idle"
    /\ integrity' = ~integrity
    /\ main' = [main EXCEPT !.at = "trim", !.todo = Current]
    /\ UNCHANGED <<life, streams, selected, preferred, objects, bus>>

(* unsubscribe is taken to wait for a packet that is being handled.        *)
Stop ==
    /\ life = "up" /\ main.at = "idle" /\ bus.at = "idle"
    /\ life' = "closing"
    /\ main' = [main EXCEPT !.at = "halt", !.todo = Current, !.joining = Current]
    /\ streams' = [s \in Ids |-> none]
    /\ UNCHANGED <<selected, preferred, integrity, objects, bus>>

-----------------------------------------------------------------------------
(* resetAllStreamStates.                                                   *)

SetReset(o) ==
    /\ main.at = "reset" /\ o \in main.todo
    /\ reset' = [reset EXCEPT ![o] = TRUE]
    /\ main' = [main EXCEPT !.at = "clear", !.cur = o]
    /\ UNCHANGED <<life, view, owner, stop, queue, worker, bus>>

\* Mutant: the queue is cleared without its mutex.
ClearUnlocked ==
    /\ main.at = "clear"
    /\ queue' = [queue EXCEPT ![main.cur] = 0]
    /\ MainAt("wake")
    /\ UNCHANGED <<life, view, owner, stop, reset, worker, bus>>

ClearQueue ==
    /\ main.at = "clear" /\ Unlocked(main.cur)
    /\ queue' = [queue EXCEPT ![main.cur] = 0]
    /\ MainAt("wake")
    /\ UNCHANGED <<life, view, owner, stop, reset, worker, bus>>

WakeReset ==
    /\ main.at = "wake"
    /\ worker' = Notified(main.cur)
    /\ main' = [main EXCEPT !.at = "reset", !.todo = @ \ {main.cur}, !.cur = none]
    /\ UNCHANGED <<life, view, owner, stop, reset, queue, bus>>

EndReset ==
    /\ main.at = "reset" /\ main.todo = {}
    /\ main' = [main EXCEPT !.at = main.then, !.then = "idle"]
    /\ UNCHANGED <<life, view, objects, bus>>

-----------------------------------------------------------------------------
(* The rest of handleControlResult; setSelectedStreamId.                   *)

PreferStream ==
    /\ main.at = "add"
    /\ preferred' = main.id
    /\ main' = IF main.id \in Visible THEN [main EXCEPT !.at = "select"] ELSE Idle
    /\ UNCHANGED <<life, streams, selected, integrity, objects, bus>>

ChangeSelection ==
    /\ main.at = "select"
    /\ IF selected = main.id
       THEN main' = Idle /\ UNCHANGED <<selected, preferred>>
       ELSE /\ selected' = main.id
            /\ preferred' = none
            /\ MainAt("list")
    /\ UNCHANGED <<life, streams, integrity, objects, bus>>

ListStreams ==
    /\ main.at = "list"
    /\ main' = [main EXCEPT !.at = "trim", !.todo = Current]
    /\ UNCHANGED <<life, view, objects, bus>>

\* trimQueueToBudget, the oldest first, and notify_all.
TrimQueue(o) ==
    /\ main.at = "trim" /\ o \in main.todo /\ Unlocked(o)
    /\ \E kept \in 0 .. queue[o] :
         /\ kept <= BudgetOf(owner[o])
         /\ queue' = [queue EXCEPT ![o] = kept]
    /\ worker' = Notified(o)
    /\ main' = [main EXCEPT !.todo = @ \ {o}]
    /\ UNCHANGED <<life, view, owner, stop, reset, bus>>

EndTrim ==
    /\ main.at = "trim" /\ main.todo = {}
    /\ main' = Idle
    /\ UNCHANGED <<life, view, objects, bus>>

-----------------------------------------------------------------------------
(* removeStreamState, and stopAllStreams at the end.                       *)

\* Mutant: the next selection is left to the user.
NoFallback(s) == {none}

\* What to select when s is removed; the code takes the first by name.
Fallbacks(s) ==
    IF selected = s /\ Visible # {s} THEN Visible \ {s} ELSE {none}

\* main.id becomes the stream to select in place of the removed one.
DetachStream ==
    /\ main.at = "remove"
    /\ streams[main.id] # none
    /\ streams' = [streams EXCEPT ![main.id] = none]
    /\ selected' = IF selected = main.id THEN none ELSE selected
    /\ preferred' = IF preferred = main.id THEN none ELSE preferred
    /\ \E fallback \in Fallbacks(main.id) :
         main' = [main EXCEPT !.at = "halt", !.id = fallback,
                              !.todo = {streams[main.id]}, !.joining = {streams[main.id]}]
    /\ UNCHANGED <<life, integrity, objects, bus>>

FindNoStream ==
    /\ main.at = "remove"
    /\ streams[main.id] = none
    /\ main' = Idle
    /\ UNCHANGED <<life, view, objects, bus>>

SetStop(o) ==
    /\ main.at = "halt" /\ o \in main.todo
    /\ stop' = [stop EXCEPT ![o] = TRUE]
    /\ main' = [main EXCEPT !.at = "wakestop", !.cur = o]
    /\ UNCHANGED <<life, view, owner, reset, queue, worker, bus>>

WakeStop ==
    /\ main.at = "wakestop"
    /\ worker' = Notified(main.cur)
    /\ main' = [main EXCEPT !.at = "halt", !.todo = @ \ {main.cur}, !.cur = none]
    /\ UNCHANGED <<life, view, owner, stop, reset, queue, bus>>

\* A worker that the bus thread is about to start is not joinable.
JoinWorker(o) ==
    /\ main.at = "halt" /\ main.todo = {} /\ o \in main.joining
    /\ worker[o] \in {"ended", "none"}
    /\ worker' = [worker EXCEPT ![o] = "none"]
    /\ main' = [main EXCEPT !.joining = @ \ {o}]
    /\ IF bus.obj # o THEN Destroy(o) ELSE UNCHANGED <<owner, stop, reset, queue>>
    /\ UNCHANGED <<life, view, bus>>

FinishRemove ==
    /\ main.at = "halt" /\ main.todo = {} /\ main.joining = {} /\ life = "up"
    /\ main' = IF main.id = none THEN Idle ELSE [main EXCEPT !.at = "select"]
    /\ UNCHANGED <<life, view, objects, bus>>

FinishStop ==
    /\ main.at = "halt" /\ main.todo = {} /\ main.joining = {} /\ life = "closing"
    /\ life' = "down"
    /\ selected' = none /\ preferred' = none
    /\ main' = Idle
    /\ UNCHANGED <<streams, integrity, objects, bus>>

(* An object that is destroyed with a thread nobody joined ends the        *)
(* program: std::terminate in the destructor of std::thread.               *)
Abort(o) ==
    /\ worker[o] = "ended" /\ Unreferenced(o)
    /\ life' = "aborted"
    /\ UNCHANGED <<view, objects, bus, main>>

-----------------------------------------------------------------------------
BusThread ==
    \/ \E s \in Ids : FindStream(s) \/ \E o \in Objects : CreateStream(s, o)
    \/ SpawnWorker \/ ReadBudget \/ PushPacket \/ NotifyWorker

Worker(o) ==
    \/ FindNothing(o) \/ FallAsleep(o) \/ WakeSpuriously(o) \/ FindStop(o)
    \/ TakePacket(o) \/ FinishPacket(o)

Events ==
    \/ Start \/ HandleReplayStatus \/ TogglePacketHandlingMode \/ Stop
    \/ \E s \in Ids : SelectStream(s)
    \/ \E action \in {"add", "remove"}, s \in Ids, configChanged \in BOOLEAN :
         HandleControlResult(action, s, configChanged)

Handlers ==
    \/ ClearQueue \/ WakeReset \/ EndReset
    \/ PreferStream \/ ChangeSelection \/ ListStreams \/ EndTrim
    \/ DetachStream \/ FindNoStream \/ WakeStop \/ FinishRemove \/ FinishStop
    \/ \E o \in Objects : SetReset(o) \/ TrimQueue(o) \/ SetStop(o) \/ JoinWorker(o)

Next ==
    /\ life # "aborted"
    /\ BusThread \/ Events \/ Handlers \/ \E o \in Objects : Worker(o) \/ Abort(o)

Spec == Init /\ [][Next]_vars

(* Threads go on with what they are in the middle of; nothing makes packets *)
(* arrive, or a condition variable return without a notification.          *)
FairSpec ==
    /\ Spec
    /\ WF_vars(SpawnWorker \/ ReadBudget \/ PushPacket \/ NotifyWorker)
    /\ WF_vars(Handlers)
    /\ \A o \in Objects :
         WF_vars(FindNothing(o) \/ FallAsleep(o) \/ FindStop(o) \/ TakePacket(o) \/ FinishPacket(o))

-----------------------------------------------------------------------------
Places == {"none", "check", "drowsy", "asleep", "decode", "ended"}
Steps == {"idle", "reset", "clear", "wake", "add", "remove", "select", "list", "trim",
          "halt", "wakestop"}

\* Variables are of their types; no queue is longer than the largest budget.
TypeOK ==
    /\ life \in {"new", "up", "closing", "down", "aborted"}
    /\ streams \in [Ids -> Objects \cup {none}]
    /\ selected \in Ids \cup {none} /\ preferred \in Ids \cup {none}
    /\ integrity \in BOOLEAN
    /\ owner \in [Objects -> Ids \cup {none}]
    /\ stop \in [Objects -> BOOLEAN] /\ reset \in [Objects -> BOOLEAN]
    /\ queue \in [Objects -> Nat]
    /\ \A o \in Objects : \E kind \in BudgetKinds : queue[o] <= Budgets[kind]
    /\ worker \in [Objects -> Places]
    /\ bus \in [at : {"idle", "spawn", "budget", "push", "notify"},
                obj : Objects \cup {none}, budget : Nat]
    /\ main \in [at : Steps, then : {"idle", "add", "remove"}, id : Ids \cup {none},
                 todo : SUBSET Objects, joining : SUBSET Objects, cur : Objects \cup {none}]

(* Between two handlers a stream is selected if there is any, and the one  *)
(* that is selected is there: the bus thread selects what it sees first,   *)
(* removing a stream and answers to commands select others.                *)
SelectionIsThere ==
    main.at = "idle" =>
        /\ selected # none => selected \in Visible
        /\ selected = none => Visible = {}

(* No worker sleeps on packets or on a reset: if it sleeps, the bus or the *)
(* main thread is about to notify it.                                      *)
NoSleeperForgotten ==
    \A o \in Objects :
        worker[o] = "asleep" =>
            /\ queue[o] > 0 => bus.at = "notify" /\ bus.obj = o
            /\ reset[o] => main.at \in {"clear", "wake"} /\ main.cur = o

(* A worker that is told to stop, and notified, ends: the main thread that *)
(* joins it is not held up for good.                                       *)
JoinReturns == main.at = "halt" ~> main.at # "halt" \/ life = "aborted"
=============================================================================
