------------------------------- MODULE StreamPull -------------------------------
(***************************************************************************)
(* RTSP streams that are pulled by one worker thread each, and the two     *)
(* threads that start and stop the workers: the main thread follows the    *)
(* replay status, the control thread (the dispatch thread of the message   *)
(* bus) adds and removes streams.  A stream stands for its id, its URL and *)
(* its topic, which are unique among the streams.                          *)
(***************************************************************************)
EXTENDS Naturals, FiniteSets

CONSTANTS Env,      \* the streams of OSGI_RTSP_URLS
          Extra     \* the streams a user may add

ASSUME StreamsAssumption == Env \cap Extra = {}

Streams == Env \cup Extra
Threads == {"main", "control"}

VARIABLES
    life,           \* the plugin: "new", "up", "closing", "down"
    replayActive,   \* replayActive_
    dynamic,        \* dynamicConfigs_
    removed,        \* removedStreamIds_
    pool,           \* workers_, each by its stream
    stopping,       \* thread -> the workers it swapped out that still run
    pc,             \* thread -> where it is in the calls below, or "idle"
    lock,           \* who holds workersMutex_ between two steps, or "none"
    loaded          \* configs of the startWorkers that is under way

vars == <<life, replayActive, dynamic, removed, pool, stopping, pc, lock, loaded>>

configs == <<dynamic, removed>>
crew == <<pool, stopping, lock, loaded>>

Configs == (Env \ removed) \cup dynamic

Init ==
    /\ life = "new"
    /\ replayActive = FALSE
    /\ dynamic = {} /\ removed = {}
    /\ pool = {} /\ stopping = [t \in Threads |-> {}]
    /\ pc = [t \in Threads |-> "idle"]
    /\ lock = "none" /\ loaded = {}

Goto(t, place) == pc' = [pc EXCEPT ![t] = place]

-----------------------------------------------------------------------------
(* The main thread.                                                        *)

\* start(); the replay state is that of the service replay_runtime_state.
Start ==
    /\ life = "new"
    /\ life' = "up"
    /\ replayActive' \in BOOLEAN
    /\ Goto("main", IF replayActive' THEN "idle" ELSE "check")
    /\ UNCHANGED <<configs, crew>>

\* A status message that says nothing new is passed over.
HandleReplayStatus ==
    /\ life = "up" /\ pc["main"] = "idle"
    /\ replayActive' = ~replayActive
    /\ Goto("main", IF replayActive' THEN "swap" ELSE "check")
    /\ UNCHANGED <<life, configs, crew>>

(* stop(), and what it does when the workers have ended.  unsubscribe is   *)
(* taken to wait for a control command that is being handled.              *)
Stop ==
    /\ life = "up" /\ pc["main"] = "idle" /\ pc["control"] = "idle"
    /\ life' = "closing"
    /\ Goto("main", "swap")
    /\ UNCHANGED <<replayActive, configs, crew>>

FinishStop ==
    /\ pc["main"] = "close"
    /\ life' = "down"
    /\ replayActive' = FALSE
    /\ dynamic' = {} /\ removed' = {}
    /\ Goto("main", "idle")
    /\ UNCHANGED crew

-----------------------------------------------------------------------------
(* The control thread: handleControlCommand.  Commands that change nothing *)
(* (a stream that is there, or that is not) are only answered.             *)

AddStream(s) ==
    /\ life = "up" /\ pc["control"] = "idle"
    /\ s \notin Configs
    /\ IF s \in Env THEN removed' = removed \ {s} /\ UNCHANGED dynamic
                    ELSE dynamic' = dynamic \cup {s} /\ UNCHANGED removed
    /\ Goto("control", "decide")
    /\ UNCHANGED <<life, replayActive, crew>>

RemoveStream(s) ==
    /\ life = "up" /\ pc["control"] = "idle"
    /\ s \in Configs
    /\ IF s \in Env THEN removed' = removed \cup {s} /\ UNCHANGED dynamic
                    ELSE dynamic' = dynamic \ {s} /\ UNCHANGED removed
    /\ Goto("control", "decide")
    /\ UNCHANGED <<life, replayActive, crew>>

Decide ==
    /\ pc["control"] = "decide"
    /\ Goto("control", IF replayActive THEN "idle" ELSE "restart")
    /\ UNCHANGED <<life, replayActive, configs, crew>>

\* Mutant: the workers that run are thought to be enough.
RestartOnlyStarts ==
    /\ pc["control"] = "restart"
    /\ Goto("control", IF replayActive THEN "idle" ELSE "check")
    /\ UNCHANGED <<life, replayActive, configs, crew>>

RestartWorkers ==
    /\ pc["control"] = "restart"
    /\ Goto("control", IF replayActive THEN "idle" ELSE "swap")
    /\ UNCHANGED <<life, replayActive, configs, crew>>

-----------------------------------------------------------------------------
(* stopWorkers, for either thread: workers_ is swapped out under the lock, *)
(* flags and joins come after it.                                          *)

AfterStop(t) ==
    IF t = "control" THEN "check" ELSE IF life = "closing" THEN "close" ELSE "idle"

SwapWorkers(t) ==
    /\ pc[t] = "swap" /\ lock = "none"
    /\ stopping' = [stopping EXCEPT ![t] = pool]
    /\ pool' = {}
    /\ Goto(t, IF pool = {} THEN AfterStop(t) ELSE "flag")
    /\ UNCHANGED <<life, replayActive, configs, lock, loaded>>

SetStopFlags(t) ==
    /\ pc[t] = "flag"
    /\ Goto(t, "join")
    /\ UNCHANGED <<life, replayActive, configs, crew>>

\* Mutant: a worker that could not connect tries again, whatever its flag.
WorkerReconnects(t, s) ==
    /\ pc[t] = "join" /\ s \in stopping[t]
    /\ UNCHANGED vars

\* runStreamWorker of a worker with its flag set; every call of it ends.
WorkerEnds(t, s) ==
    /\ pc[t] = "join" /\ s \in stopping[t]
    /\ stopping' = [stopping EXCEPT ![t] = @ \ {s}]
    /\ UNCHANGED <<life, replayActive, configs, pool, lock, loaded, pc>>

JoinWorkers(t) ==
    /\ pc[t] = "join" /\ stopping[t] = {}
    /\ Goto(t, AfterStop(t))
    /\ UNCHANGED <<life, replayActive, configs, crew>>

-----------------------------------------------------------------------------
(* startWorkers, for either thread, under the lock throughout.             *)

\* Mutant: the caller's test for a replay is thought to be enough.
CheckWorkersOnly(t) ==
    /\ pc[t] = "check" /\ lock = "none"
    /\ IF pool # {}
       THEN Goto(t, "idle") /\ UNCHANGED lock
       ELSE Goto(t, "load") /\ lock' = t
    /\ UNCHANGED <<life, replayActive, configs, pool, stopping, loaded>>

CheckStart(t) ==
    /\ pc[t] = "check" /\ lock = "none"
    /\ IF pool # {} \/ replayActive
       THEN Goto(t, "idle") /\ UNCHANGED lock
       ELSE Goto(t, "load") /\ lock' = t
    /\ UNCHANGED <<life, replayActive, configs, pool, stopping, loaded>>

LoadConfigs(t) ==
    /\ pc[t] = "load"
    /\ loaded' = Configs
    /\ Goto(t, "spawn")
    /\ UNCHANGED <<life, replayActive, configs, pool, stopping, lock>>

SpawnWorkers(t) ==
    /\ pc[t] = "spawn"
    /\ pool' = loaded
    /\ loaded' = {}
    /\ lock' = "none"
    /\ Goto(t, "idle")
    /\ UNCHANGED <<life, replayActive, configs, stopping>>

Work(t) ==
    \/ SwapWorkers(t) \/ SetStopFlags(t) \/ JoinWorkers(t)
    \/ CheckStart(t) \/ LoadConfigs(t) \/ SpawnWorkers(t)

Next ==
    \/ Start \/ HandleReplayStatus \/ Stop \/ FinishStop
    \/ \E s \in Streams : AddStream(s) \/ RemoveStream(s)
    \/ Decide \/ RestartWorkers
    \/ \E t \in Threads : Work(t) \/ \E s \in Streams : WorkerEnds(t, s)

Spec == Init /\ [][Next]_vars

(* Both threads go on with what they are doing, the mutex is taken when it *)
(* stays free, and a worker sees its flag: FFmpeg calls interruptRead and  *)
(* has time-outs, waits to reconnect are short.                            *)
FairSpec ==
    /\ Spec
    /\ WF_vars(FinishStop) /\ WF_vars(Decide) /\ WF_vars(RestartWorkers)
    /\ \A t \in Threads :
         /\ WF_vars(SwapWorkers(t)) /\ WF_vars(SetStopFlags(t)) /\ WF_vars(JoinWorkers(t))
         /\ WF_vars(CheckStart(t)) /\ WF_vars(LoadConfigs(t)) /\ WF_vars(SpawnWorkers(t))
         /\ \A s \in Streams : WF_vars(WorkerEnds(t, s))

-----------------------------------------------------------------------------
Places == {"idle", "close", "decide", "restart", "swap", "flag", "join",
           "check", "load", "spawn"}

(* Workers are started by the one that holds the lock, and by no other.    *)
TypeOK ==
    /\ life \in {"new", "up", "closing", "down"}
    /\ replayActive \in BOOLEAN
    /\ dynamic \subseteq Extra
    /\ removed \subseteq Env
    /\ pool \subseteq Streams
    /\ stopping \in [Threads -> SUBSET Streams]
    /\ pc \in [Threads -> Places]
    /\ lock \in Threads \cup {"none"}
    /\ \A t \in Threads : pc[t] \in {"load", "spawn"} <=> lock = t
    /\ loaded \subseteq Streams

(* Once the main thread has handled "replay started", no stream is in the  *)
(* pool until it handles "replay stopped", whatever commands the control   *)
(* thread was or gets in the middle of.                                    *)
NoPullingInReplay ==
    replayActive /\ pc["main"] = "idle" => pool = {}

(* When neither thread is at work, exactly the configured streams are      *)
(* pulled; none during a replay, none before start() and after stop().     *)
PulledAsConfigured ==
    (\A t \in Threads : pc[t] = "idle") =>
        /\ pool = IF life = "up" /\ ~replayActive THEN Configs ELSE {}
        /\ \A t \in Threads : stopping[t] = {}

\* A replay that lasts comes to be the only source of packets.
Silent == pool = {} /\ \A t \in Threads : stopping[t] = {}
FallsSilent == replayActive ~> Silent \/ ~replayActive
=============================================================================
