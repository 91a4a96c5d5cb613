--------------------------- MODULE StreamPlayerProofs ---------------------------
(***************************************************************************)
(* For any streams, objects and budgets: the safety properties of          *)
(* StreamPlayer.                                                           *)
(***************************************************************************)
EXTENDS StreamPlayer, TLAPS

Halting == {"halt", "wakestop"}

\* The values of bus and main, as in TypeOK.
BusRecords ==
    [at : {"idle", "spawn", "budget", "push", "notify"},
     obj : Objects \cup {none}, budget : Nat]
MainRecords ==
    [at : Steps, then : {"idle", "add", "remove"}, id : Ids \cup {none},
     todo : SUBSET Objects, joining : SUBSET Objects, cur : Objects \cup {none}]

\* Who has an object to work on.
PlaceInv ==
    /\ bus.at # "idle" => bus.obj \in Objects
    /\ bus.at = "push" => \E kind \in BudgetKinds : bus.budget = Budgets[kind]
    /\ main.at \in {"clear", "wake", "wakestop"} => main.cur \in Objects
    /\ main.at \in {"add", "remove"} \/ main.then # "idle" => main.id \in Ids
    /\ main.then # "idle" => main.at \in {"reset", "clear", "wake"}
    /\ life = "new" => main.at = "idle"
    /\ life = "closing" => main.at \in Halting

\* A worker falls asleep when it found nothing, and nothing has come since
\* without a notification that is still due.
SleepInv ==
    \A o \in Objects :
        /\ worker[o] = "drowsy" =>
               /\ queue[o] = 0
               /\ reset[o] => main.at = "clear" /\ main.cur = o
        /\ worker[o] = "asleep" =>
               /\ queue[o] > 0 => bus.at = "notify" /\ bus.obj = o
               /\ reset[o] => main.at \in {"clear", "wake"} /\ main.cur = o

\* What is selected, also while the main thread is about to select another.
SelectionInv ==
    /\ main.at \notin Halting \/ life = "up" => selected \in Visible \cup {none}
    /\ main.at \notin Halting \cup {"select"} /\ selected = none => Visible = {}
    /\ main.at = "select" => main.id \in Visible
    /\ main.at \in Halting /\ life = "up" =>
           main.id \in Visible \/ (main.id = none /\ (selected = none => Visible = {}))
    /\ life = "closing" => Visible = {}

IInv == TypeOK /\ PlaceInv /\ SleepInv /\ SelectionInv

-----------------------------------------------------------------------------
\* streams_ names objects.
LEMMA Listed == TypeOK => Current \subseteq Objects
BY DEF TypeOK, Current, Visible

\* Whatever is selected, a budget is one of the three.
LEMMA BudgetIsOne ==
    ASSUME NEW s \in Ids \cup {none}
    PROVE  \E kind \in BudgetKinds : BudgetOf(s) = Budgets[kind]
BY DEF BudgetOf, BudgetKinds

\* Nothing is selected and nothing is there.
LEMMA InitInvariant == Init => IInv
<1> SUFFICES ASSUME Init PROVE IInv
  OBVIOUS
<1> USE DEF Init, Idle, BusIdle
<1>1. TypeOK
  BY BudgetsAssumption DEF TypeOK, Places, Steps, BudgetKinds
<1>2. PlaceInv /\ SleepInv /\ SelectionInv
  BY DEF PlaceInv, SleepInv, SelectionInv, Visible, Halting
<1>. QED BY <1>1, <1>2 DEF IInv

\* An empty queue is within every budget.
LEMMA ZeroFits == \E kind \in BudgetKinds : 0 <= Budgets[kind]
<1>1. "latency" \in BudgetKinds
  BY DEF BudgetKinds
<1>. QED BY <1>1, BudgetsAssumption

\* What streams_ names is an object.
LEMMA FindStreamKeeps == ASSUME IInv, NEW s \in Ids, FindStream(s) PROVE IInv'
<1> USE DEF FindStream, view, objects
<1>1. TypeOK'
  <2>1. bus' \in BusRecords
    BY DEF IInv, TypeOK, BusRecords
  <2>. QED BY <2>1 DEF IInv, TypeOK, PlaceInv, BusRecords, Places
<1>2. PlaceInv'
  BY DEF IInv, TypeOK, PlaceInv, Halting, Steps
<1>3. SleepInv'
  BY DEF IInv, TypeOK, PlaceInv, SleepInv, Places, Steps
<1>4. SelectionInv'
  BY NoneAssumption DEF IInv, TypeOK, PlaceInv, SelectionInv, Halting, Visible, Steps
<1>. QED BY <1>1, <1>2, <1>3, <1>4 DEF IInv

\* A stream seen for the first time: if nothing was selected, it is now.
LEMMA CreateStreamKeeps ==
    ASSUME IInv, NEW s \in Ids, NEW o \in Objects, CreateStream(s, o)
    PROVE  IInv'
<1> USE DEF CreateStream, view, objects, AutoSelected
<1>1. TypeOK'
  <2>1. bus' \in BusRecords
    BY DEF IInv, TypeOK, BusRecords
  <2>. QED BY <2>1 DEF IInv, TypeOK, PlaceInv, BusRecords, Places
<1>2. PlaceInv'
  BY DEF IInv, TypeOK, PlaceInv, Halting, Steps
<1>3. SleepInv'
  BY DEF IInv, TypeOK, PlaceInv, SleepInv, Places, Steps
<1>4. SelectionInv'
  BY NoneAssumption DEF IInv, TypeOK, PlaceInv, SelectionInv, Halting, Visible, Steps
<1>. QED BY <1>1, <1>2, <1>3, <1>4 DEF IInv

\* A worker starts awake.
LEMMA SpawnWorkerKeeps == ASSUME IInv, SpawnWorker PROVE IInv'
<1> USE DEF SpawnWorker, view, objects
<1>1. TypeOK'
  <2>1. bus' \in BusRecords
    BY DEF IInv, TypeOK, BusRecords
  <2>. QED BY <2>1 DEF IInv, TypeOK, PlaceInv, BusRecords, Places
<1>2. PlaceInv'
  BY DEF IInv, TypeOK, PlaceInv, Halting, Steps
<1>3. SleepInv'
  BY DEF IInv, TypeOK, PlaceInv, SleepInv, Places, Steps
<1>4. SelectionInv'
  BY NoneAssumption DEF IInv, TypeOK, PlaceInv, SelectionInv, Halting, Visible, Steps
<1>. QED BY <1>1, <1>2, <1>3, <1>4 DEF IInv

\* The budget read is one of the three, whatever is selected by then.
LEMMA ReadBudgetKeeps == ASSUME IInv, ReadBudget PROVE IInv'
<1> USE DEF ReadBudget, view, objects
<1>1. PICK b \in Nat :
          /\ bus' = [bus EXCEPT !.at = "push", !.budget = b]
          /\ \E kind \in BudgetKinds : b = Budgets[kind]
  <2>1. PICK kind \in BudgetKinds : BudgetOf(owner[bus.obj]) = Budgets[kind]
    BY BudgetIsOne DEF IInv, TypeOK, PlaceInv
  <2>. QED BY <2>1, BudgetsAssumption
<1>. HIDE DEF ReadBudget
<1>2. UNCHANGED <<life, view, objects, main>>
  BY DEF ReadBudget
<1>3. bus.at = "budget"
  BY DEF ReadBudget
<1>4. TypeOK'
  <2>1. bus' \in BusRecords
    BY <1>1 DEF IInv, TypeOK, BusRecords
  <2>2. \A o \in Objects : \E kind \in BudgetKinds : queue'[o] <= Budgets[kind]
    BY <1>2 DEF IInv, TypeOK
  <2>. QED BY <2>1, <2>2, <1>2 DEF IInv, TypeOK, BusRecords
<1>5. PlaceInv'
  BY <1>1, <1>2, <1>3 DEF IInv, TypeOK, PlaceInv, Halting, Steps
<1>6. SleepInv'
  BY <1>1, <1>2, <1>3 DEF IInv, TypeOK, PlaceInv, SleepInv, Places, Steps
<1>7. SelectionInv'
  BY <1>1, <1>2, <1>3, NoneAssumption
  DEF IInv, TypeOK, PlaceInv, SelectionInv, Halting, Visible, Steps
<1>. QED BY <1>4, <1>5, <1>6, <1>7 DEF IInv

\* A packet is pushed while the worker is not between its test and its sleep;
\* from then on the bus thread is about to notify it.
LEMMA PushPacketKeeps == ASSUME IInv, PushPacket PROVE IInv'
<1> USE DEF PushPacket, view, objects, Unlocked
<1>1. TypeOK'
  <2>1. bus' \in BusRecords
    BY DEF IInv, TypeOK, BusRecords
  <2>. QED BY <2>1, BudgetsAssumption DEF IInv, TypeOK, PlaceInv, BusRecords, Places
<1>2. PlaceInv'
  BY DEF IInv, TypeOK, PlaceInv, Halting, Steps
<1>3. SleepInv'
  BY DEF IInv, TypeOK, PlaceInv, SleepInv, Places, Steps
<1>4. SelectionInv'
  BY NoneAssumption DEF IInv, TypeOK, PlaceInv, SelectionInv, Halting, Visible, Steps
<1>. QED BY <1>1, <1>2, <1>3, <1>4 DEF IInv

\* The worker that slept is awake; one that was never started is gone with its object.
LEMMA NotifyWorkerKeeps == ASSUME IInv, NotifyWorker PROVE IInv'
<1> USE DEF NotifyWorker, view, objects, Notified, BusIdle, Destroy
<1>1. TypeOK'
  <2>1. CASE worker[bus.obj] = "none"
    <3>1. queue' = [queue EXCEPT ![bus.obj] = 0]
      BY <2>1
    <3>2. \A p \in Objects : queue'[p] = queue[p] \/ queue'[p] = 0
      BY <3>1 DEF IInv, TypeOK
    <3>3. \A p \in Objects : \E kind \in BudgetKinds : queue'[p] <= Budgets[kind]
      <4> SUFFICES ASSUME NEW p \in Objects
                   PROVE  \E kind \in BudgetKinds : queue'[p] <= Budgets[kind]
        OBVIOUS
      <4>1. CASE queue'[p] = 0
        BY <4>1, ZeroFits
      <4>2. CASE queue'[p] = queue[p]
        BY <4>2 DEF IInv, TypeOK
      <4>. QED BY <3>2, <4>1, <4>2
    <3>4. owner' \in [Objects -> Ids \cup {none}] /\ queue' \in [Objects -> Nat]
      BY <2>1 DEF IInv, TypeOK
    <3>5. stop' \in [Objects -> BOOLEAN]
      <4>1. stop' = [stop EXCEPT ![bus.obj] = FALSE]
        BY <2>1
      <4>. QED BY <4>1 DEF IInv, TypeOK
    <3>6. reset' \in [Objects -> BOOLEAN]
      <4>1. reset' = [reset EXCEPT ![bus.obj] = FALSE]
        BY <2>1
      <4>. QED BY <4>1 DEF IInv, TypeOK
    <3>7. worker' \in [Objects -> Places]
      BY DEF IInv, TypeOK, Places
    <3>8. bus' \in BusRecords
      BY DEF IInv, TypeOK, BusRecords
    <3>9. main' \in MainRecords
      BY DEF IInv, TypeOK, MainRecords, Steps
    <3>. QED BY <3>3, <3>4, <3>5, <3>6, <3>7, <3>8, <3>9
        DEF IInv, TypeOK, MainRecords, BusRecords
  <2>2. CASE worker[bus.obj] # "none"
    BY <2>2 DEF IInv, TypeOK, PlaceInv, Places, Steps
  <2>. QED BY <2>1, <2>2
<1>2. PlaceInv'
  BY DEF IInv, TypeOK, PlaceInv, Halting, Steps
<1>3. SleepInv'
  BY DEF IInv, TypeOK, PlaceInv, SleepInv, Places, Steps
<1>4. SelectionInv'
  BY NoneAssumption DEF IInv, TypeOK, PlaceInv, SelectionInv, Halting, Visible, Steps
<1>. QED BY <1>1, <1>2, <1>3, <1>4 DEF IInv

\* With the mutex held: no packet and no reset.
LEMMA FindNothingKeeps == ASSUME IInv, NEW o \in Objects, FindNothing(o) PROVE IInv'
<1> USE DEF FindNothing, view, objects
<1>1. TypeOK'
  BY DEF IInv, TypeOK, PlaceInv, Places, Steps
<1>2. PlaceInv'
  BY DEF IInv, TypeOK, PlaceInv, Halting, Steps
<1>3. SleepInv'
  BY DEF IInv, TypeOK, PlaceInv, SleepInv, Places, Steps
<1>4. SelectionInv'
  BY NoneAssumption DEF IInv, TypeOK, PlaceInv, SelectionInv, Halting, Visible, Steps
<1>. QED BY <1>1, <1>2, <1>3, <1>4 DEF IInv

\* Nothing came between the test and the sleep, but a reset not yet announced.
LEMMA FallAsleepKeeps == ASSUME IInv, NEW o \in Objects, FallAsleep(o) PROVE IInv'
<1> USE DEF FallAsleep, view, objects
<1>1. TypeOK'
  BY DEF IInv, TypeOK, PlaceInv, Places, Steps
<1>2. PlaceInv'
  BY DEF IInv, TypeOK, PlaceInv, Halting, Steps
<1>3. SleepInv'
  BY DEF IInv, TypeOK, PlaceInv, SleepInv, Places, Steps
<1>4. SelectionInv'
  BY NoneAssumption DEF IInv, TypeOK, PlaceInv, SelectionInv, Halting, Visible, Steps
<1>. QED BY <1>1, <1>2, <1>3, <1>4 DEF IInv

\* Who is awake is not forgotten.
LEMMA WakeSpuriouslyKeeps == ASSUME IInv, NEW o \in Objects, WakeSpuriously(o) PROVE IInv'
<1> USE DEF WakeSpuriously, view, objects
<1>1. TypeOK'
  BY DEF IInv, TypeOK, PlaceInv, Places, Steps
<1>2. PlaceInv'
  BY DEF IInv, TypeOK, PlaceInv, Halting, Steps
<1>3. SleepInv'
  BY DEF IInv, TypeOK, PlaceInv, SleepInv, Places, Steps
<1>4. SelectionInv'
  BY NoneAssumption DEF IInv, TypeOK, PlaceInv, SelectionInv, Halting, Visible, Steps
<1>. QED BY <1>1, <1>2, <1>3, <1>4 DEF IInv

\* Nor who has ended.
LEMMA FindStopKeeps == ASSUME IInv, NEW o \in Objects, FindStop(o) PROVE IInv'
<1> USE DEF FindStop, view, objects
<1>1. TypeOK'
  BY DEF IInv, TypeOK, PlaceInv, Places, Steps
<1>2. PlaceInv'
  BY DEF IInv, TypeOK, PlaceInv, Halting, Steps
<1>3. SleepInv'
  BY DEF IInv, TypeOK, PlaceInv, SleepInv, Places, Steps
<1>4. SelectionInv'
  BY NoneAssumption DEF IInv, TypeOK, PlaceInv, SelectionInv, Halting, Visible, Steps
<1>. QED BY <1>1, <1>2, <1>3, <1>4 DEF IInv

\* The queue only gets shorter.
LEMMA TakePacketKeeps == ASSUME IInv, NEW o \in Objects, TakePacket(o) PROVE IInv'
<1> USE DEF TakePacket, view, objects
<1>1. TypeOK'
  BY BudgetIsOne, BudgetsAssumption DEF IInv, TypeOK, PlaceInv, Places, Steps
<1>2. PlaceInv'
  BY DEF IInv, TypeOK, PlaceInv, Halting, Steps
<1>3. SleepInv'
  BY DEF IInv, TypeOK, PlaceInv, SleepInv, Places, Steps
<1>4. SelectionInv'
  BY NoneAssumption DEF IInv, TypeOK, PlaceInv, SelectionInv, Halting, Visible, Steps
<1>. QED BY <1>1, <1>2, <1>3, <1>4 DEF IInv

\* The worker tests again.
LEMMA FinishPacketKeeps == ASSUME IInv, NEW o \in Objects, FinishPacket(o) PROVE IInv'
<1> USE DEF FinishPacket, view, objects
<1>1. TypeOK'
  BY DEF IInv, TypeOK, PlaceInv, Places, Steps
<1>2. PlaceInv'
  BY DEF IInv, TypeOK, PlaceInv, Halting, Steps
<1>3. SleepInv'
  BY DEF IInv, TypeOK, PlaceInv, SleepInv, Places, Steps
<1>4. SelectionInv'
  BY NoneAssumption DEF IInv, TypeOK, PlaceInv, SelectionInv, Halting, Visible, Steps
<1>. QED BY <1>1, <1>2, <1>3, <1>4 DEF IInv

\* Nothing has happened before.
LEMMA StartKeeps == ASSUME IInv, Start PROVE IInv'
<1> USE DEF Start, view, objects
<1>1. TypeOK'
  BY DEF IInv, TypeOK, PlaceInv, Places, Steps
<1>2. PlaceInv'
  BY DEF IInv, TypeOK, PlaceInv, Halting, Steps
<1>3. SleepInv'
  BY DEF IInv, TypeOK, PlaceInv, SleepInv, Places, Steps
<1>4. SelectionInv'
  BY NoneAssumption DEF IInv, TypeOK, PlaceInv, SelectionInv, Halting, Visible, Steps
<1>. QED BY <1>1, <1>2, <1>3, <1>4 DEF IInv

\* A reset begins with the objects that are there.
LEMMA HandleReplayStatusKeeps == ASSUME IInv, HandleReplayStatus PROVE IInv'
<1> USE DEF HandleReplayStatus, view, objects
<1>1. TypeOK'
  <2>1. main' \in MainRecords
    BY Listed DEF IInv, TypeOK, PlaceInv, Steps, MainRecords
  <2>. QED BY <2>1 DEF IInv, TypeOK, MainRecords, Places
<1>2. PlaceInv'
  BY DEF IInv, TypeOK, PlaceInv, Halting, Steps
<1>3. SleepInv'
  BY DEF IInv, TypeOK, PlaceInv, SleepInv, Places, Steps
<1>4. SelectionInv'
  BY NoneAssumption DEF IInv, TypeOK, PlaceInv, SelectionInv, Halting, Visible, Steps
<1>. QED BY <1>1, <1>2, <1>3, <1>4 DEF IInv

\* Budgets change, queues are trimmed next.
LEMMA TogglePacketHandlingModeKeeps == ASSUME IInv, TogglePacketHandlingMode PROVE IInv'
<1> USE DEF TogglePacketHandlingMode, view, objects
<1>1. TypeOK'
  <2>1. main' \in MainRecords
    BY Listed DEF IInv, TypeOK, PlaceInv, Steps, MainRecords
  <2>. QED BY <2>1 DEF IInv, TypeOK, MainRecords, Places
<1>2. PlaceInv'
  BY DEF IInv, TypeOK, PlaceInv, Halting, Steps
<1>3. SleepInv'
  BY DEF IInv, TypeOK, PlaceInv, SleepInv, Places, Steps
<1>4. SelectionInv'
  BY NoneAssumption DEF IInv, TypeOK, PlaceInv, SelectionInv, Halting, Visible, Steps
<1>. QED BY <1>1, <1>2, <1>3, <1>4 DEF IInv

\* The streams are gone at once: nothing is visible any more.
LEMMA StopKeeps == ASSUME IInv, Stop PROVE IInv'
<1> USE DEF Stop, view, objects
<1>1. TypeOK'
  <2>1. main' \in MainRecords
    BY Listed DEF IInv, TypeOK, PlaceInv, Steps, MainRecords
  <2>. QED BY <2>1 DEF IInv, TypeOK, MainRecords, Places
<1>2. PlaceInv'
  BY DEF IInv, TypeOK, PlaceInv, Halting, Steps
<1>3. SleepInv'
  BY DEF IInv, TypeOK, PlaceInv, SleepInv, Places, Steps
<1>4. SelectionInv'
  BY NoneAssumption DEF IInv, TypeOK, PlaceInv, SelectionInv, Halting, Visible, Steps
<1>. QED BY <1>1, <1>2, <1>3, <1>4 DEF IInv

\* The view offers what is there.
LEMMA SelectStreamKeeps == ASSUME IInv, NEW s \in Ids, SelectStream(s) PROVE IInv'
<1> USE DEF SelectStream, view, objects
<1>1. TypeOK'
  <2>1. main' \in MainRecords
    BY DEF IInv, TypeOK, PlaceInv, Steps, MainRecords
  <2>. QED BY <2>1 DEF IInv, TypeOK, MainRecords, Places
<1>2. PlaceInv'
  BY DEF IInv, TypeOK, PlaceInv, Halting, Steps
<1>3. SleepInv'
  BY DEF IInv, TypeOK, PlaceInv, SleepInv, Places, Steps
<1>4. SelectionInv'
  BY NoneAssumption DEF IInv, TypeOK, PlaceInv, SelectionInv, Halting, Visible, Steps
<1>. QED BY <1>1, <1>2, <1>3, <1>4 DEF IInv

\* The stream of the answer is kept until the reset is done.
LEMMA HandleControlResultKeeps ==
    ASSUME IInv, NEW action \in {"add", "remove"}, NEW s \in Ids, NEW configChanged \in BOOLEAN,
           HandleControlResult(action, s, configChanged)
    PROVE  IInv'
<1> USE DEF HandleControlResult, view, objects
<1>1. TypeOK'
  <2>1. CASE configChanged
    <3>1. main' \in MainRecords
      BY <2>1, Listed DEF IInv, TypeOK, Steps, MainRecords
    <3>. QED BY <3>1 DEF IInv, TypeOK, MainRecords
  <2>2. CASE ~configChanged
    <3>1. main' \in MainRecords
      BY <2>2 DEF IInv, TypeOK, Steps, MainRecords
    <3>. QED BY <3>1 DEF IInv, TypeOK, MainRecords
  <2>. QED BY <2>1, <2>2
<1>2. PlaceInv'
  BY DEF IInv, TypeOK, PlaceInv, Halting, Steps
<1>3. SleepInv'
  BY DEF IInv, TypeOK, PlaceInv, SleepInv, Places, Steps
<1>4. SelectionInv'
  BY NoneAssumption DEF IInv, TypeOK, PlaceInv, SelectionInv, Halting, Visible, Steps
<1>. QED BY <1>1, <1>2, <1>3, <1>4 DEF IInv

\* The reset is set while the main thread is about to notify.
LEMMA SetResetKeeps == ASSUME IInv, NEW o \in Objects, SetReset(o) PROVE IInv'
<1> USE DEF SetReset, view, objects
<1>1. TypeOK'
  <2>1. main' \in MainRecords
    BY DEF IInv, TypeOK, PlaceInv, Steps, MainRecords
  <2>. QED BY <2>1 DEF IInv, TypeOK, MainRecords, Places
<1>2. PlaceInv'
  BY DEF IInv, TypeOK, PlaceInv, Halting, Steps
<1>3. SleepInv'
  BY DEF IInv, TypeOK, PlaceInv, SleepInv, Places, Steps
<1>4. SelectionInv'
  BY NoneAssumption DEF IInv, TypeOK, PlaceInv, SelectionInv, Halting, Visible, Steps
<1>. QED BY <1>1, <1>2, <1>3, <1>4 DEF IInv

\* The queue only gets shorter.
LEMMA ClearQueueKeeps == ASSUME IInv, ClearQueue PROVE IInv'
<1> USE DEF ClearQueue, view, objects, Unlocked, MainAt
<1>1. TypeOK'
  BY BudgetIsOne, BudgetsAssumption DEF IInv, TypeOK, PlaceInv, Places, Steps
<1>2. PlaceInv'
  BY DEF IInv, TypeOK, PlaceInv, Halting, Steps
<1>3. SleepInv'
  BY DEF IInv, TypeOK, PlaceInv, SleepInv, Places, Steps
<1>4. SelectionInv'
  BY NoneAssumption DEF IInv, TypeOK, PlaceInv, SelectionInv, Halting, Visible, Steps
<1>. QED BY <1>1, <1>2, <1>3, <1>4 DEF IInv

\* The reset is announced.
LEMMA WakeResetKeeps == ASSUME IInv, WakeReset PROVE IInv'
<1> USE DEF WakeReset, view, objects, Notified
<1>1. TypeOK'
  <2>1. main' \in MainRecords
    BY DEF IInv, TypeOK, PlaceInv, Steps, MainRecords
  <2>. QED BY <2>1 DEF IInv, TypeOK, MainRecords, Places
<1>2. PlaceInv'
  BY DEF IInv, TypeOK, PlaceInv, Halting, Steps
<1>3. SleepInv'
  BY DEF IInv, TypeOK, PlaceInv, SleepInv, Places, Steps
<1>4. SelectionInv'
  BY NoneAssumption DEF IInv, TypeOK, PlaceInv, SelectionInv, Halting, Visible, Steps
<1>. QED BY <1>1, <1>2, <1>3, <1>4 DEF IInv

\* What follows has its stream.
LEMMA EndResetKeeps == ASSUME IInv, EndReset PROVE IInv'
<1> USE DEF EndReset, view, objects
<1>1. TypeOK'
  <2>1. main' \in MainRecords
    BY DEF IInv, TypeOK, PlaceInv, Steps, MainRecords
  <2>. QED BY <2>1 DEF IInv, TypeOK, MainRecords, Places
<1>2. PlaceInv'
  BY DEF IInv, TypeOK, PlaceInv, Halting, Steps
<1>3. SleepInv'
  BY DEF IInv, TypeOK, PlaceInv, SleepInv, Places, Steps
<1>4. SelectionInv'
  BY NoneAssumption DEF IInv, TypeOK, PlaceInv, SelectionInv, Halting, Visible, Steps
<1>. QED BY <1>1, <1>2, <1>3, <1>4 DEF IInv

\* Selected next only if it is there.
LEMMA PreferStreamKeeps == ASSUME IInv, PreferStream PROVE IInv'
<1> USE DEF PreferStream, view, objects, Idle
<1>1. TypeOK'
  <2>1. main' \in MainRecords
    BY DEF IInv, TypeOK, PlaceInv, Steps, MainRecords
  <2>. QED BY <2>1 DEF IInv, TypeOK, MainRecords, Places
<1>2. PlaceInv'
  BY DEF IInv, TypeOK, PlaceInv, Halting, Steps
<1>3. SleepInv'
  BY DEF IInv, TypeOK, PlaceInv, SleepInv, Places, Steps
<1>4. SelectionInv'
  BY NoneAssumption DEF IInv, TypeOK, PlaceInv, SelectionInv, Halting, Visible, Steps
<1>. QED BY <1>1, <1>2, <1>3, <1>4 DEF IInv

\* main.id is there, so it can be selected.
LEMMA ChangeSelectionKeeps == ASSUME IInv, ChangeSelection PROVE IInv'
<1> USE DEF ChangeSelection, view, objects, Idle, MainAt
<1>1. TypeOK'
  <2>1. main' \in MainRecords
    BY DEF IInv, TypeOK, PlaceInv, Steps, MainRecords
  <2>. QED BY <2>1 DEF IInv, TypeOK, MainRecords, Places
<1>2. PlaceInv'
  BY DEF IInv, TypeOK, PlaceInv, Halting, Steps
<1>3. SleepInv'
  BY DEF IInv, TypeOK, PlaceInv, SleepInv, Places, Steps
<1>4. SelectionInv'
  BY NoneAssumption DEF IInv, TypeOK, PlaceInv, SelectionInv, Halting, Visible, Steps
<1>. QED BY <1>1, <1>2, <1>3, <1>4 DEF IInv

\* Nothing changes but the step.
LEMMA ListStreamsKeeps == ASSUME IInv, ListStreams PROVE IInv'
<1> USE DEF ListStreams, view, objects
<1>1. TypeOK'
  <2>1. main' \in MainRecords
    BY Listed DEF IInv, TypeOK, PlaceInv, Steps, MainRecords
  <2>. QED BY <2>1 DEF IInv, TypeOK, MainRecords, Places
<1>2. PlaceInv'
  BY DEF IInv, TypeOK, PlaceInv, Halting, Steps
<1>3. SleepInv'
  BY DEF IInv, TypeOK, PlaceInv, SleepInv, Places, Steps
<1>4. SelectionInv'
  BY NoneAssumption DEF IInv, TypeOK, PlaceInv, SelectionInv, Halting, Visible, Steps
<1>. QED BY <1>1, <1>2, <1>3, <1>4 DEF IInv

\* The queue only gets shorter.
LEMMA TrimQueueKeeps == ASSUME IInv, NEW o \in Objects, TrimQueue(o) PROVE IInv'
<1> USE DEF TrimQueue, view, objects, Unlocked, Notified
<1>1. TypeOK'
  BY BudgetIsOne, BudgetsAssumption DEF IInv, TypeOK, PlaceInv, Places, Steps
<1>2. PlaceInv'
  BY DEF IInv, TypeOK, PlaceInv, Halting, Steps
<1>3. SleepInv'
  BY DEF IInv, TypeOK, PlaceInv, SleepInv, Places, Steps
<1>4. SelectionInv'
  BY NoneAssumption DEF IInv, TypeOK, PlaceInv, SelectionInv, Halting, Visible, Steps
<1>. QED BY <1>1, <1>2, <1>3, <1>4 DEF IInv

\* Nothing changes but the step.
LEMMA EndTrimKeeps == ASSUME IInv, EndTrim PROVE IInv'
<1> USE DEF EndTrim, view, objects, Idle
<1>1. TypeOK'
  <2>1. main' \in MainRecords
    BY DEF IInv, TypeOK, PlaceInv, Steps, MainRecords
  <2>. QED BY <2>1 DEF IInv, TypeOK, MainRecords, Places
<1>2. PlaceInv'
  BY DEF IInv, TypeOK, PlaceInv, Halting, Steps
<1>3. SleepInv'
  BY DEF IInv, TypeOK, PlaceInv, SleepInv, Places, Steps
<1>4. SelectionInv'
  BY NoneAssumption DEF IInv, TypeOK, PlaceInv, SelectionInv, Halting, Visible, Steps
<1>. QED BY <1>1, <1>2, <1>3, <1>4 DEF IInv

\* The fallback is a stream that is left, or there is none.
LEMMA DetachStreamKeeps == ASSUME IInv, DetachStream PROVE IInv'
<1> USE DEF DetachStream, view, objects, Fallbacks
<1>1. main.id \in Ids /\ streams[main.id] \in Objects
  BY DEF IInv, TypeOK, PlaceInv
<1>2. PICK fallback \in Fallbacks(main.id) :
         main' = [main EXCEPT !.at = "halt", !.id = fallback,
                              !.todo = {streams[main.id]}, !.joining = {streams[main.id]}]
  OBVIOUS
<1>3. fallback \in Ids \cup {none}
  BY DEF Visible
<1>4. TypeOK'
  BY <1>1, <1>2, <1>3 DEF IInv, TypeOK, PlaceInv, Places, Steps
<1>5. /\ main'.at = "halt" /\ main'.then = main.then /\ main'.cur = main.cur
      /\ main'.id = fallback
  BY <1>2 DEF IInv, TypeOK
<1>6. main.then = "idle"
  BY DEF IInv, PlaceInv
<1>7. PlaceInv'
  BY <1>5, <1>6 DEF IInv, TypeOK, PlaceInv, Halting, Steps
<1>8. SleepInv'
  BY DEF IInv, TypeOK, PlaceInv, SleepInv, Places, Steps
<1>9. SelectionInv'
  BY NoneAssumption DEF IInv, TypeOK, PlaceInv, SelectionInv, Halting, Visible, Steps
<1>. QED BY <1>4, <1>7, <1>8, <1>9 DEF IInv

\* Nothing was removed.
LEMMA FindNoStreamKeeps == ASSUME IInv, FindNoStream PROVE IInv'
<1> USE DEF FindNoStream, view, objects, Idle
<1>1. TypeOK'
  <2>1. main' \in MainRecords
    BY DEF IInv, TypeOK, PlaceInv, Steps, MainRecords
  <2>. QED BY <2>1 DEF IInv, TypeOK, MainRecords, Places
<1>2. PlaceInv'
  BY DEF IInv, TypeOK, PlaceInv, Halting, Steps
<1>3. SleepInv'
  BY DEF IInv, TypeOK, PlaceInv, SleepInv, Places, Steps
<1>4. SelectionInv'
  BY NoneAssumption DEF IInv, TypeOK, PlaceInv, SelectionInv, Halting, Visible, Steps
<1>. QED BY <1>1, <1>2, <1>3, <1>4 DEF IInv

\* stop does not count for who sleeps on what.
LEMMA SetStopKeeps == ASSUME IInv, NEW o \in Objects, SetStop(o) PROVE IInv'
<1> USE DEF SetStop, view, objects
<1>1. TypeOK'
  <2>1. main' \in MainRecords
    BY DEF IInv, TypeOK, PlaceInv, Steps, MainRecords
  <2>. QED BY <2>1 DEF IInv, TypeOK, MainRecords, Places
<1>2. PlaceInv'
  BY DEF IInv, TypeOK, PlaceInv, Halting, Steps
<1>3. SleepInv'
  BY DEF IInv, TypeOK, PlaceInv, SleepInv, Places, Steps
<1>4. SelectionInv'
  BY NoneAssumption DEF IInv, TypeOK, PlaceInv, SelectionInv, Halting, Visible, Steps
<1>. QED BY <1>1, <1>2, <1>3, <1>4 DEF IInv

\* One worker less sleeps.
LEMMA WakeStopKeeps == ASSUME IInv, WakeStop PROVE IInv'
<1> USE DEF WakeStop, view, objects, Notified
<1>1. TypeOK'
  <2>1. main' \in MainRecords
    BY DEF IInv, TypeOK, PlaceInv, Steps, MainRecords
  <2>. QED BY <2>1 DEF IInv, TypeOK, MainRecords, Places
<1>2. PlaceInv'
  BY DEF IInv, TypeOK, PlaceInv, Halting, Steps
<1>3. SleepInv'
  BY DEF IInv, TypeOK, PlaceInv, SleepInv, Places, Steps
<1>4. SelectionInv'
  BY NoneAssumption DEF IInv, TypeOK, PlaceInv, SelectionInv, Halting, Visible, Steps
<1>. QED BY <1>1, <1>2, <1>3, <1>4 DEF IInv

\* An object nobody uses any more is empty again.
LEMMA JoinWorkerKeeps == ASSUME IInv, NEW o \in Objects, JoinWorker(o) PROVE IInv'
<1> USE DEF JoinWorker, view, objects, Destroy
<1>1. TypeOK'
  <2>1. CASE bus.obj # o
    <3>1. queue' = [queue EXCEPT ![o] = 0]
      BY <2>1
    <3>2. \A p \in Objects : queue'[p] = queue[p] \/ queue'[p] = 0
      BY <3>1 DEF IInv, TypeOK
    <3>3. \A p \in Objects : \E kind \in BudgetKinds : queue'[p] <= Budgets[kind]
      <4> SUFFICES ASSUME NEW p \in Objects
                   PROVE  \E kind \in BudgetKinds : queue'[p] <= Budgets[kind]
        OBVIOUS
      <4>1. CASE queue'[p] = 0
        BY <4>1, ZeroFits
      <4>2. CASE queue'[p] = queue[p]
        BY <4>2 DEF IInv, TypeOK
      <4>. QED BY <3>2, <4>1, <4>2
    <3>4. owner' \in [Objects -> Ids \cup {none}] /\ queue' \in [Objects -> Nat]
      BY <2>1 DEF IInv, TypeOK
    <3>5. stop' \in [Objects -> BOOLEAN]
      <4>1. stop' = [stop EXCEPT ![o] = FALSE]
        BY <2>1
      <4>. QED BY <4>1 DEF IInv, TypeOK
    <3>6. reset' \in [Objects -> BOOLEAN]
      <4>1. reset' = [reset EXCEPT ![o] = FALSE]
        BY <2>1
      <4>. QED BY <4>1 DEF IInv, TypeOK
    <3>7. worker' \in [Objects -> Places]
      BY DEF IInv, TypeOK, Places
    <3>8. bus' \in BusRecords
      BY DEF IInv, TypeOK, BusRecords
    <3>9. main' \in MainRecords
      BY DEF IInv, TypeOK, MainRecords, Steps
    <3>. QED BY <3>3, <3>4, <3>5, <3>6, <3>7, <3>8, <3>9
        DEF IInv, TypeOK, MainRecords, BusRecords
  <2>2. CASE bus.obj = o
    BY <2>2 DEF IInv, TypeOK, PlaceInv, Places, Steps
  <2>. QED BY <2>1, <2>2
<1>2. PlaceInv'
  BY DEF IInv, TypeOK, PlaceInv, Halting, Steps
<1>3. SleepInv'
  BY DEF IInv, TypeOK, PlaceInv, SleepInv, Places, Steps
<1>4. SelectionInv'
  BY NoneAssumption DEF IInv, TypeOK, PlaceInv, SelectionInv, Halting, Visible, Steps
<1>. QED BY <1>1, <1>2, <1>3, <1>4 DEF IInv

\* The fallback is selected next, or nothing is there.
LEMMA FinishRemoveKeeps == ASSUME IInv, FinishRemove PROVE IInv'
<1> USE DEF FinishRemove, view, objects, Idle
<1>1. TypeOK'
  <2>1. main' \in MainRecords
    BY DEF IInv, TypeOK, PlaceInv, Steps, MainRecords
  <2>. QED BY <2>1 DEF IInv, TypeOK, MainRecords, Places
<1>2. PlaceInv'
  BY DEF IInv, TypeOK, PlaceInv, Halting, Steps
<1>3. SleepInv'
  BY DEF IInv, TypeOK, PlaceInv, SleepInv, Places, Steps
<1>4. SelectionInv'
  BY NoneAssumption DEF IInv, TypeOK, PlaceInv, SelectionInv, Halting, Visible, Steps
<1>. QED BY <1>1, <1>2, <1>3, <1>4 DEF IInv

\* Nothing is there to be selected.
LEMMA FinishStopKeeps == ASSUME IInv, FinishStop PROVE IInv'
<1> USE DEF FinishStop, view, objects, Idle
<1>1. TypeOK'
  <2>1. main' \in MainRecords
    BY DEF IInv, TypeOK, PlaceInv, Steps, MainRecords
  <2>. QED BY <2>1 DEF IInv, TypeOK, MainRecords, Places
<1>2. PlaceInv'
  BY DEF IInv, TypeOK, PlaceInv, Halting, Steps
<1>3. SleepInv'
  BY DEF IInv, TypeOK, PlaceInv, SleepInv, Places, Steps
<1>4. SelectionInv'
  BY NoneAssumption DEF IInv, TypeOK, PlaceInv, SelectionInv, Halting, Visible, Steps
<1>. QED BY <1>1, <1>2, <1>3, <1>4 DEF IInv

\* Only life changes.
LEMMA AbortKeeps == ASSUME IInv, NEW o \in Objects, Abort(o) PROVE IInv'
<1> USE DEF Abort, view, objects
<1>1. TypeOK'
  BY DEF IInv, TypeOK, PlaceInv, Places, Steps
<1>2. PlaceInv'
  BY DEF IInv, TypeOK, PlaceInv, Halting, Steps
<1>3. SleepInv'
  BY DEF IInv, TypeOK, PlaceInv, SleepInv, Places, Steps
<1>4. SelectionInv'
  BY NoneAssumption DEF IInv, TypeOK, PlaceInv, SelectionInv, Halting, Visible, Steps
<1>. QED BY <1>1, <1>2, <1>3, <1>4 DEF IInv

\* No step.
LEMMA StutterKeeps == ASSUME IInv, UNCHANGED vars PROVE IInv'
BY DEF vars, IInv, TypeOK, PlaceInv, SleepInv, SelectionInv, Visible

\* All steps of the bus thread.
LEMMA BusThreadKeeps == ASSUME IInv, BusThread PROVE IInv'
<1>1. ASSUME NEW s \in Ids, FindStream(s) PROVE IInv'
  BY <1>1, FindStreamKeeps
<1>2. ASSUME NEW s \in Ids, NEW o \in Objects, CreateStream(s, o) PROVE IInv'
  BY <1>2, CreateStreamKeeps
<1>3. CASE SpawnWorker
  BY <1>3, SpawnWorkerKeeps
<1>4. CASE ReadBudget
  BY <1>4, ReadBudgetKeeps
<1>5. CASE PushPacket
  BY <1>5, PushPacketKeeps
<1>6. CASE NotifyWorker
  BY <1>6, NotifyWorkerKeeps
<1>. QED BY <1>1, <1>2, <1>3, <1>4, <1>5, <1>6 DEF BusThread

\* All steps of a worker.
LEMMA WorkerKeeps == ASSUME IInv, NEW o \in Objects, Worker(o) PROVE IInv'
<1>1. CASE FindNothing(o)
  BY <1>1, FindNothingKeeps
<1>2. CASE FallAsleep(o)
  BY <1>2, FallAsleepKeeps
<1>3. CASE WakeSpuriously(o)
  BY <1>3, WakeSpuriouslyKeeps
<1>4. CASE FindStop(o)
  BY <1>4, FindStopKeeps
<1>5. CASE TakePacket(o)
  BY <1>5, TakePacketKeeps
<1>6. CASE FinishPacket(o)
  BY <1>6, FinishPacketKeeps
<1>. QED BY <1>1, <1>2, <1>3, <1>4, <1>5, <1>6 DEF Worker

\* What the main thread begins.
LEMMA EventsKeep == ASSUME IInv, Events PROVE IInv'
<1>1. CASE Start
  BY <1>1, StartKeeps
<1>2. CASE HandleReplayStatus
  BY <1>2, HandleReplayStatusKeeps
<1>3. CASE TogglePacketHandlingMode
  BY <1>3, TogglePacketHandlingModeKeeps
<1>4. CASE Stop
  BY <1>4, StopKeeps
<1>5. ASSUME NEW s \in Ids, SelectStream(s) PROVE IInv'
  BY <1>5, SelectStreamKeeps
<1>6. ASSUME NEW action \in {"add", "remove"}, NEW s \in Ids, NEW configChanged \in BOOLEAN,
             HandleControlResult(action, s, configChanged)
      PROVE  IInv'
  BY <1>6, HandleControlResultKeeps
<1>. QED BY <1>1, <1>2, <1>3, <1>4, <1>5, <1>6 DEF Events

\* What the main thread is in the middle of.
LEMMA HandlersKeep == ASSUME IInv, Handlers PROVE IInv'
<1>1. CASE ClearQueue \/ WakeReset \/ EndReset
  BY <1>1, ClearQueueKeeps, WakeResetKeeps, EndResetKeeps
<1>2. CASE PreferStream \/ ChangeSelection \/ ListStreams \/ EndTrim
  BY <1>2, PreferStreamKeeps, ChangeSelectionKeeps, ListStreamsKeeps, EndTrimKeeps
<1>3. CASE DetachStream \/ FindNoStream \/ WakeStop
  BY <1>3, DetachStreamKeeps, FindNoStreamKeeps, WakeStopKeeps
<1>4. CASE FinishRemove \/ FinishStop
  BY <1>4, FinishRemoveKeeps, FinishStopKeeps
<1>5. ASSUME NEW o \in Objects, SetReset(o) \/ TrimQueue(o) \/ SetStop(o) \/ JoinWorker(o)
      PROVE  IInv'
  BY <1>5, SetResetKeeps, TrimQueueKeeps, SetStopKeeps, JoinWorkerKeeps
<1>. QED BY <1>1, <1>2, <1>3, <1>4, <1>5 DEF Handlers

\* IInv is inductive.
LEMMA NextInvariant == ASSUME IInv, [Next]_vars PROVE IInv'
<1>1. CASE BusThread
  BY <1>1, BusThreadKeeps
<1>2. CASE Events
  BY <1>2, EventsKeep
<1>3. CASE Handlers
  BY <1>3, HandlersKeep
<1>4. ASSUME NEW o \in Objects, Worker(o) \/ Abort(o) PROVE IInv'
  BY <1>4, WorkerKeeps, AbortKeeps
<1>5. CASE UNCHANGED vars
  BY <1>5, StutterKeeps
<1>. QED BY <1>1, <1>2, <1>3, <1>4, <1>5 DEF Next

-----------------------------------------------------------------------------
\* The inductive invariant holds in every state the player reaches.
THEOREM PlayerInvariant == Spec => []IInv
BY InitInvariant, NextInvariant, PTL DEF Spec

\* The player's variables keep their types, and a queue its budget: packets
\* are dropped before one is queued, whatever the user selects meanwhile.
THEOREM PlayerTypeCorrect == Spec => []TypeOK
<1>1. IInv => TypeOK
  BY DEF IInv
<1>. QED BY <1>1, PlayerInvariant, PTL

\* Between two handlers of the main thread a stream that is there is selected
\* if there is any, whatever the bus thread added while handlers ran.
THEOREM SelectionStaysValid == Spec => []SelectionIsThere
<1>1. IInv => SelectionIsThere
  BY NoneAssumption
  DEF IInv, TypeOK, PlaceInv, SelectionInv, SelectionIsThere, Halting, Visible
<1>. QED BY <1>1, PlayerInvariant, PTL

\* No worker sleeps on packets or on a reset that nobody will notify it of.
THEOREM NoSleeperIsForgotten == Spec => []NoSleeperForgotten
<1>1. IInv => NoSleeperForgotten
  BY DEF IInv, SleepInv, NoSleeperForgotten
<1>. QED BY <1>1, PlayerInvariant, PTL
=============================================================================
