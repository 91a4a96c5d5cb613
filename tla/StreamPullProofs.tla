---------------------------- MODULE StreamPullProofs ----------------------------
(***************************************************************************)
(* For any streams, any commands and any status messages: the safety       *)
(* properties of StreamPull.                                               *)
(***************************************************************************)
EXTENDS StreamPull, TLAPS

Starting == {"check", "load", "spawn"}

\* Where the threads can be while the plugin is in a phase of its life.
LifeInv ==
    /\ pc["main"] \notin {"decide", "restart"} /\ pc["control"] # "close"
    /\ pc["main"] = "close" => life = "closing" /\ stopping["main"] = {}
    /\ life \in {"new", "down"} =>
           /\ \A t \in Threads : pc[t] = "idle"
           /\ pool = {} /\ ~replayActive
    /\ life = "closing" =>
           /\ pc["control"] = "idle"
           /\ pc["main"] \in {"swap", "flag", "join", "close"}
           /\ pc["main"] # "swap" => pool = {}
    /\ \A t \in Threads : pc[t] \notin {"flag", "join"} => stopping[t] = {}

\* The main thread has work when the replay state is new; workers that are
\* there, or about to be, during a replay are what it is going to swap out.
ReplayInv ==
    /\ pc["main"] \in Starting => ~replayActive
    /\ life = "up" /\ pc["main"] \in {"swap", "flag", "join"} => replayActive
    /\ replayActive /\ life = "up" /\ pc["main"] # "swap" => pool = {} /\ lock = "none"

\* The control thread is going to replace what there is.
Replaced == pc["control"] \in {"decide", "restart", "swap"}

\* Somebody is going to start workers where there are none.
Awaited ==
    /\ pool = {}
    /\ pc["main"] \in Starting \/ pc["control"] \in Starting \cup {"flag", "join"}

ConfigInv ==
    /\ lock # "none" => pool = {}
    /\ \A t \in Threads : pc[t] = "spawn" => loaded = Configs \/ Replaced
    /\ life = "up" /\ ~replayActive => pool = Configs \/ Replaced \/ Awaited

IInv == TypeOK /\ LifeInv /\ ReplayInv /\ ConfigInv

LEMMA InitInvariant == Init => IInv
BY Zenon DEF Init, IInv, TypeOK, LifeInv, ReplayInv, ConfigInv, Threads, Places, Starting

\* start(): nothing runs yet, so a pool that is empty fits any replay state.
LEMMA StartKeeps == ASSUME IInv, Start PROVE IInv'
<1> USE DEF Start, Goto, configs, crew
<1>1. TypeOK'
  BY DEF IInv, TypeOK, LifeInv, Threads, Places, Streams, Configs
<1>2. LifeInv'
  BY DEF IInv, TypeOK, LifeInv, ReplayInv, Threads, Places
<1>3. ReplayInv'
  BY DEF IInv, TypeOK, LifeInv, ReplayInv, Threads, Starting
<1>4. ConfigInv'
  BY DEF IInv, TypeOK, LifeInv, ReplayInv, ConfigInv, Configs, Replaced, Awaited, Threads, Starting
<1>. QED BY <1>1, <1>2, <1>3, <1>4 DEF IInv

\* A new replay state comes with the work it asks of the main thread.
LEMMA HandleKeeps == ASSUME IInv, HandleReplayStatus PROVE IInv'
<1> USE DEF HandleReplayStatus, Goto, configs, crew
<1>1. TypeOK'
  BY DEF IInv, TypeOK, LifeInv, Threads, Places, Streams, Configs
<1>2. LifeInv'
  BY DEF IInv, TypeOK, LifeInv, ReplayInv, Threads, Places
<1>3. ReplayInv'
  BY DEF IInv, TypeOK, LifeInv, ReplayInv, Threads, Starting
<1>4. ConfigInv'
  BY DEF IInv, TypeOK, LifeInv, ReplayInv, ConfigInv, Configs, Replaced, Awaited, Threads, Starting
<1>. QED BY <1>1, <1>2, <1>3, <1>4 DEF IInv

\* The control thread is idle when the plugin stops.
LEMMA StopKeeps == ASSUME IInv, Stop PROVE IInv'
<1> USE DEF Stop, Goto, configs, crew
<1>1. TypeOK'
  BY DEF IInv, TypeOK, LifeInv, Threads, Places, Streams, Configs
<1>2. LifeInv'
  BY DEF IInv, TypeOK, LifeInv, ReplayInv, Threads, Places
<1>3. ReplayInv'
  BY DEF IInv, TypeOK, LifeInv, ReplayInv, Threads, Starting
<1>4. ConfigInv'
  BY DEF IInv, TypeOK, LifeInv, ReplayInv, ConfigInv, Configs, Replaced, Awaited, Threads, Starting
<1>. QED BY <1>1, <1>2, <1>3, <1>4 DEF IInv

\* The pool has been empty since the workers were swapped out.
LEMMA FinishStopKeeps == ASSUME IInv, FinishStop PROVE IInv'
<1> USE DEF FinishStop, Goto, configs, crew
<1>1. TypeOK'
  BY DEF IInv, TypeOK, LifeInv, Threads, Places, Streams, Configs
<1>2. LifeInv'
  BY DEF IInv, TypeOK, LifeInv, ReplayInv, Threads, Places
<1>3. ReplayInv'
  BY DEF IInv, TypeOK, LifeInv, ReplayInv, Threads, Starting
<1>4. ConfigInv'
  BY DEF IInv, TypeOK, LifeInv, ReplayInv, ConfigInv, Configs, Replaced, Awaited, Threads, Starting
<1>. QED BY <1>1, <1>2, <1>3, <1>4 DEF IInv

\* A new configuration comes with the decision to replace the workers.
LEMMA AddKeeps == ASSUME IInv, NEW s \in Streams, AddStream(s) PROVE IInv'
<1> USE DEF AddStream, Goto, configs, crew
<1>1. TypeOK'
  BY DEF IInv, TypeOK, LifeInv, Threads, Places, Streams, Configs
<1>2. LifeInv'
  BY DEF IInv, TypeOK, LifeInv, ReplayInv, Threads, Places
<1>3. ReplayInv'
  BY DEF IInv, TypeOK, LifeInv, ReplayInv, Threads, Starting
<1>4. ConfigInv'
  BY DEF IInv, TypeOK, LifeInv, ReplayInv, ConfigInv, Configs, Replaced, Awaited, Threads, Starting
<1>. QED BY <1>1, <1>2, <1>3, <1>4 DEF IInv

\* The same of a stream that is removed.
LEMMA RemoveKeeps == ASSUME IInv, NEW s \in Streams, RemoveStream(s) PROVE IInv'
<1> USE DEF RemoveStream, Goto, configs, crew
<1>1. TypeOK'
  BY DEF IInv, TypeOK, LifeInv, Threads, Places, Streams, Configs
<1>2. LifeInv'
  BY DEF IInv, TypeOK, LifeInv, ReplayInv, Threads, Places
<1>3. ReplayInv'
  BY DEF IInv, TypeOK, LifeInv, ReplayInv, Threads, Starting
<1>4. ConfigInv'
  BY DEF IInv, TypeOK, LifeInv, ReplayInv, ConfigInv, Configs, Replaced, Awaited, Threads, Starting
<1>. QED BY <1>1, <1>2, <1>3, <1>4 DEF IInv

\* A decision against a restart is one in a replay, when nothing runs.
LEMMA DecideKeeps == ASSUME IInv, Decide PROVE IInv'
<1> USE DEF Decide, Goto, configs, crew
<1>1. TypeOK'
  BY DEF IInv, TypeOK, LifeInv, Threads, Places, Streams, Configs
<1>2. LifeInv'
  BY DEF IInv, TypeOK, LifeInv, ReplayInv, Threads, Places
<1>3. ReplayInv'
  BY DEF IInv, TypeOK, LifeInv, ReplayInv, Threads, Starting
<1>4. ConfigInv'
  BY DEF IInv, TypeOK, LifeInv, ReplayInv, ConfigInv, Configs, Replaced, Awaited, Threads, Starting
<1>. QED BY <1>1, <1>2, <1>3, <1>4 DEF IInv

\* So is an early return of restartWorkers.
LEMMA RestartKeeps == ASSUME IInv, RestartWorkers PROVE IInv'
<1> USE DEF RestartWorkers, Goto, configs, crew
<1>1. TypeOK'
  BY DEF IInv, TypeOK, LifeInv, Threads, Places, Streams, Configs
<1>2. LifeInv'
  BY DEF IInv, TypeOK, LifeInv, ReplayInv, Threads, Places
<1>3. ReplayInv'
  BY DEF IInv, TypeOK, LifeInv, ReplayInv, Threads, Starting
<1>4. ConfigInv'
  BY DEF IInv, TypeOK, LifeInv, ReplayInv, ConfigInv, Configs, Replaced, Awaited, Threads, Starting
<1>. QED BY <1>1, <1>2, <1>3, <1>4 DEF IInv

\* Who swaps the pool out starts workers later, or has a reason not to.
LEMMA SwapKeeps == ASSUME IInv, NEW t \in Threads, SwapWorkers(t) PROVE IInv'
<1> USE DEF SwapWorkers, Goto, configs, crew, AfterStop
<1>1. TypeOK'
  BY DEF IInv, TypeOK, LifeInv, Threads, Places, Streams, Configs
<1>2. LifeInv'
  BY DEF IInv, TypeOK, LifeInv, ReplayInv, Threads, Places
<1>3. ReplayInv'
  BY DEF IInv, TypeOK, LifeInv, ReplayInv, Threads, Starting
<1>4. ConfigInv'
  BY DEF IInv, TypeOK, LifeInv, ReplayInv, ConfigInv, Configs, Replaced, Awaited, Threads, Starting
<1>. QED BY <1>1, <1>2, <1>3, <1>4 DEF IInv

\* The flags are set.
LEMMA FlagKeeps == ASSUME IInv, NEW t \in Threads, SetStopFlags(t) PROVE IInv'
<1> USE DEF SetStopFlags, Goto, configs, crew
<1>1. TypeOK'
  BY DEF IInv, TypeOK, LifeInv, Threads, Places, Streams, Configs
<1>2. LifeInv'
  BY DEF IInv, TypeOK, LifeInv, ReplayInv, Threads, Places
<1>3. ReplayInv'
  BY DEF IInv, TypeOK, LifeInv, ReplayInv, Threads, Starting
<1>4. ConfigInv'
  BY DEF IInv, TypeOK, LifeInv, ReplayInv, ConfigInv, Configs, Replaced, Awaited, Threads, Starting
<1>. QED BY <1>1, <1>2, <1>3, <1>4 DEF IInv

\* A worker that ends is one that is no longer in the pool.
LEMMA WorkerEndsKeeps == ASSUME IInv, NEW t \in Threads, NEW s \in Streams, WorkerEnds(t, s) PROVE IInv'
<1> USE DEF WorkerEnds, Goto, configs, crew
<1>1. TypeOK'
  BY DEF IInv, TypeOK, LifeInv, Threads, Places, Streams, Configs
<1>2. LifeInv'
  BY DEF IInv, TypeOK, LifeInv, ReplayInv, Threads, Places
<1>3. ReplayInv'
  BY DEF IInv, TypeOK, LifeInv, ReplayInv, Threads, Starting
<1>4. ConfigInv'
  BY DEF IInv, TypeOK, LifeInv, ReplayInv, ConfigInv, Configs, Replaced, Awaited, Threads, Starting
<1>. QED BY <1>1, <1>2, <1>3, <1>4 DEF IInv

\* The last worker has ended.
LEMMA JoinKeeps == ASSUME IInv, NEW t \in Threads, JoinWorkers(t) PROVE IInv'
<1> USE DEF JoinWorkers, Goto, configs, crew, AfterStop
<1>1. TypeOK'
  BY DEF IInv, TypeOK, LifeInv, Threads, Places, Streams, Configs
<1>2. LifeInv'
  BY DEF IInv, TypeOK, LifeInv, ReplayInv, Threads, Places
<1>3. ReplayInv'
  BY DEF IInv, TypeOK, LifeInv, ReplayInv, Threads, Starting
<1>4. ConfigInv'
  BY DEF IInv, TypeOK, LifeInv, ReplayInv, ConfigInv, Configs, Replaced, Awaited, Threads, Starting
<1>. QED BY <1>1, <1>2, <1>3, <1>4 DEF IInv

\* A start that is refused finds workers there, or a replay.
LEMMA CheckKeeps == ASSUME IInv, NEW t \in Threads, CheckStart(t) PROVE IInv'
<1> USE DEF CheckStart, Goto, configs, crew
<1>1. TypeOK'
  BY DEF IInv, TypeOK, LifeInv, Threads, Places, Streams, Configs
<1>2. LifeInv'
  BY DEF IInv, TypeOK, LifeInv, ReplayInv, Threads, Places
<1>3. ReplayInv'
  BY DEF IInv, TypeOK, LifeInv, ReplayInv, Threads, Starting
<1>4. ConfigInv'
  BY DEF IInv, TypeOK, LifeInv, ReplayInv, ConfigInv, Configs, Replaced, Awaited, Threads, Starting
<1>. QED BY <1>1, <1>2, <1>3, <1>4 DEF IInv

\* What is loaded is the configuration, under the lock.
LEMMA LoadKeeps == ASSUME IInv, NEW t \in Threads, LoadConfigs(t) PROVE IInv'
<1> USE DEF LoadConfigs, Goto, configs, crew
<1>1. TypeOK'
  BY DEF IInv, TypeOK, LifeInv, Threads, Places, Streams, Configs
<1>2. LifeInv'
  BY DEF IInv, TypeOK, LifeInv, ReplayInv, Threads, Places
<1>3. ReplayInv'
  BY DEF IInv, TypeOK, LifeInv, ReplayInv, Threads, Starting
<1>4. ConfigInv'
  BY DEF IInv, TypeOK, LifeInv, ReplayInv, ConfigInv, Configs, Replaced, Awaited, Threads, Starting
<1>. QED BY <1>1, <1>2, <1>3, <1>4 DEF IInv

\* What is started is what was loaded.
LEMMA SpawnKeeps == ASSUME IInv, NEW t \in Threads, SpawnWorkers(t) PROVE IInv'
<1> USE DEF SpawnWorkers, Goto, configs, crew
<1>1. TypeOK'
  BY DEF IInv, TypeOK, LifeInv, Threads, Places, Streams, Configs
<1>2. LifeInv'
  BY DEF IInv, TypeOK, LifeInv, ReplayInv, Threads, Places
<1>3. ReplayInv'
  BY DEF IInv, TypeOK, LifeInv, ReplayInv, Threads, Starting
<1>4. ConfigInv'
  BY DEF IInv, TypeOK, LifeInv, ReplayInv, ConfigInv, Configs, Replaced, Awaited, Threads, Starting
<1>. QED BY <1>1, <1>2, <1>3, <1>4 DEF IInv

LEMMA StutterKeeps == ASSUME IInv, UNCHANGED vars PROVE IInv'
BY DEF vars, IInv, TypeOK, LifeInv, ReplayInv, ConfigInv, Configs, Replaced, Awaited

LEMMA NextInvariant == IInv /\ [Next]_vars => IInv'
<1> SUFFICES ASSUME IInv, [Next]_vars PROVE IInv'
  OBVIOUS
<1>1. CASE \/ Start \/ HandleReplayStatus \/ Stop \/ FinishStop \/ Decide \/ RestartWorkers
  BY <1>1, StartKeeps, HandleKeeps, StopKeeps, FinishStopKeeps, DecideKeeps, RestartKeeps
<1>2. CASE \E s \in Streams : AddStream(s) \/ RemoveStream(s)
  BY <1>2, AddKeeps, RemoveKeeps
<1>3. CASE \E t \in Threads : Work(t)
  BY <1>3, SwapKeeps, FlagKeeps, JoinKeeps, CheckKeeps, LoadKeeps, SpawnKeeps DEF Work
<1>4. CASE \E t \in Threads : \E s \in Streams : WorkerEnds(t, s)
  BY <1>4, WorkerEndsKeeps
<1>. QED BY <1>1, <1>2, <1>3, <1>4, StutterKeeps DEF Next

-----------------------------------------------------------------------------
\* IInv holds throughout, for any streams.
THEOREM PullInvariant == Spec => []IInv
BY InitInvariant, NextInvariant, PTL DEF Spec

\* Variables are of their types, and who starts workers holds the lock.
THEOREM PullTypeCorrect == Spec => []TypeOK
<1>1. IInv => TypeOK
  BY DEF IInv
<1>. QED BY <1>1, PullInvariant, PTL

\* When the main thread has handled "replay started" nothing is pulled until
\* it handles "replay stopped", whatever the control thread is about.
THEOREM NoPullingDuringReplay == Spec => []NoPullingInReplay
<1>1. IInv => NoPullingInReplay
  BY DEF IInv, LifeInv, ReplayInv, TypeOK, NoPullingInReplay, Threads
<1>. QED BY <1>1, PullInvariant, PTL

\* Two idle threads leave exactly the configured streams being pulled.
THEOREM PullFollowsConfiguration == Spec => []PulledAsConfigured
<1>1. IInv => PulledAsConfigured
  BY DEF IInv, LifeInv, ReplayInv, ConfigInv, TypeOK, PulledAsConfigured,
         Replaced, Awaited, Starting, Threads
<1>. QED BY <1>1, PullInvariant, PTL
=============================================================================
