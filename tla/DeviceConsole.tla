------------------------------ MODULE DeviceConsole ------------------------------
(***************************************************************************)
(* The device console and the device registry: which device is selected,   *)
(* which panels fit it, what of it is shown, and which device a command    *)
(* goes to.  Adapters, models and panels come and go with their plugins    *)
(* (external); the console notices at its next refresh, every 500 ms and   *)
(* after each call.  Everything runs on the main thread; the signals the   *)
(* console emits half-way through a refresh are answered by views that     *)
(* only read, and are left out.  Capabilities and the filters of panels    *)
(* are sets.  Serial ports and texts are left out.                         *)
(***************************************************************************)
EXTENDS Integers, FiniteSets, Sequences

CONSTANTS Descriptions, \* what adapters say of themselves: id, type, model, caps
          Panels        \* what providers offer: id, device, type, model, filters, order
NoId == 0               \* no device, any device, no panel
ASSUME ConsoleAssumption ==
    /\ \A d \in Descriptions : d.id \in Nat \ {NoId}
    /\ \A p \in Panels : /\ p.id \in Nat \ {NoId} /\ p.order \in Int
                         /\ IsFiniteSet(p.filters)
    /\ \A p, q \in Panels : p.id = q.id => p = q
Nothing == "" \* no type, no model

VARIABLES
    adapters,    \* adapters_ of the registry
    centerModels,\* ids of the models the data center knows
    provided,    \* panels of the providers that are registered
    timerOn,     \* refreshTimer_ is active
    deviceRows,  \* devices_
    selectedId,  \* selectedDeviceId_
    selectedRow, \* selectedDevice_, {} or one description
    panelList,   \* selectedDevicePanels_
    panelId,     \* selectedDevicePanelId_
    snapshotOf,  \* the model selectedSnapshot_ is from
    picked,      \* history: the device the user chose last
    astray,      \* history: a refresh since found that device missing
    sent         \* history: the last command: where it went, picked and astray
consoleVars == <<adapters, centerModels, provided, timerOn, deviceRows, selectedId, selectedRow,
                 panelList, panelId, snapshotOf, picked, astray, sent>>
world == <<adapters, centerModels, provided>>
shown == <<deviceRows, selectedId, selectedRow, panelList, panelId, snapshotOf>>

ConsoleInit ==
    /\ adapters = {} /\ centerModels = {} /\ provided = {}
    /\ timerOn = FALSE
    /\ deviceRows = {} /\ selectedId = NoId /\ selectedRow = {}
    /\ panelList = <<>> /\ panelId = NoId /\ snapshotOf = Nothing
    /\ picked = NoId /\ astray = FALSE
    /\ sent = [to |-> NoId, picked |-> NoId, astray |-> FALSE]

(* ------------------------------ the panels ------------------------------ *)

\* panelMatches, capabilityFiltersMatch
Fits(p, d) ==
    /\ p.device \in {NoId, d.id}
    /\ p.type \in {Nothing, d.type}
    /\ p.model \in {Nothing, d.model}
    /\ p.filters \subseteq d.caps

Specificity(p) ==
      (IF p.model # Nothing THEN 1000 ELSE 0)
    + (IF p.type # Nothing THEN 200 ELSE 0)
    + (IF p.device # NoId THEN 150 ELSE 0)
    + (IF p.filters # {} THEN 50 + Cardinality(p.filters) ELSE 0)

\* sortPanelsByPriority
Precedes(p, q) ==
    \/ Specificity(p) > Specificity(q)
    \/ Specificity(p) = Specificity(q)
       /\ (p.order < q.order \/ (p.order = q.order /\ p.id < q.id))

\* matchingDevicePanels: of the panels that fit, the i-th has i - 1 before it.
Matching(row) ==
    LET fits == {p \in provided : \E d \in row : Fits(p, d)}
        Before(p) == {q \in fits : Precedes(q, p)}
    IN  [i \in 1..Cardinality(fits) |-> CHOOSE p \in fits : Cardinality(Before(p)) = i - 1]
Ids(list) == {list[i].id : i \in DOMAIN list}

(* ------------------------------ the refresh ------------------------------ *)

IdsOf(ds) == {d.id : d \in ds}

FirstId(ds) == CHOOSE id \in IdsOf(ds) : \A d \in ds : id <= d.id

\* Mutant: the first device is selected whenever the list is refreshed.
FirstDevice(ds, id) == IF ds = {} THEN NoId ELSE FirstId(ds)
NextSelected(ds, id) ==
    IF ds = {} THEN NoId ELSE IF id \in IdsOf(ds) THEN id ELSE FirstId(ds)

\* updateSelectedDevicePanels keeps the panel if the list still has it.
NextPanel(list, id) ==
    IF id \in Ids(list) THEN id ELSE IF list = <<>> THEN NoId ELSE list[1].id

\* currentModel: of the adapter the registry has now.
ModelOf(row) == {d.model : d \in row} \cap centerModels

\* refreshState with id selected: updateDevices, updateSelectedDevicePanels,
\* updateSelectedSnapshot
Refresh(id) ==
    /\ deviceRows' = adapters
    /\ selectedId' = NextSelected(adapters, id)
    /\ selectedRow' = {d \in adapters : d.id = selectedId'}
    /\ panelList' = Matching(selectedRow')
    /\ panelId' = NextPanel(panelList', panelId)
    /\ snapshotOf' = IF ModelOf(selectedRow') = {} THEN Nothing
                     ELSE CHOOSE m \in ModelOf(selectedRow') : TRUE

Missing(id) == id # NoId /\ id \notin IdsOf(adapters)

(* ------------------------------ the registry ------------------------------ *)

\* registerAdapter: an adapter with the same id is replaced.
RegisterAdapter(d) ==
    /\ adapters' = {e \in adapters : e.id # d.id} \cup {d}
    /\ UNCHANGED <<centerModels, provided, timerOn, shown, picked, astray, sent>>
UnregisterAdapter(id) ==
    /\ id \in IdsOf(adapters)
    /\ adapters' = {e \in adapters : e.id # id}
    /\ UNCHANGED <<centerModels, provided, timerOn, shown, picked, astray, sent>>
ModelsChange(models) ==
    /\ centerModels' = models
    /\ UNCHANGED <<adapters, provided, timerOn, shown, picked, astray, sent>>
ProviderComes(p) ==
    /\ provided' = provided \cup {p}
    /\ UNCHANGED <<adapters, centerModels, timerOn, shown, picked, astray, sent>>

(* ------------------------------ the console ------------------------------ *)

RefreshedBy(id) == Refresh(id) /\ astray' = (astray \/ Missing(picked))

StartConsole ==
    /\ timerOn' = TRUE /\ RefreshedBy(selectedId)
    /\ UNCHANGED <<world, picked, sent>>
StopConsole ==
    /\ timerOn' = FALSE
    /\ UNCHANGED <<world, shown, picked, astray, sent>>
\* The timer, and refreshNow.
RefreshConsole ==
    /\ timerOn /\ RefreshedBy(selectedId)
    /\ UNCHANGED <<world, timerOn, picked, sent>>

\* setSelectedDeviceId
SelectDevice(id) ==
    /\ picked' = id
    /\ IF id = selectedId
       THEN astray' = FALSE /\ UNCHANGED shown
       ELSE Refresh(id) /\ astray' = Missing(id)
    /\ UNCHANGED <<world, timerOn, sent>>

\* setSelectedDevicePanelId
SelectPanel(id) ==
    /\ id \in Ids(panelList) \cup {NoId}
    /\ panelId' = IF id = NoId THEN NextPanel(panelList, id) ELSE id
    /\ UNCHANGED <<world, timerOn, deviceRows, selectedId, selectedRow, panelList, snapshotOf,
                   picked, astray, sent>>

\* invokeCurrent: the adapter of the selected id, if the registry has one.
InvokeCurrent ==
    /\ sent' = [to |-> IF Missing(selectedId) THEN NoId ELSE selectedId,
                picked |-> picked, astray |-> astray]
    /\ RefreshedBy(selectedId)
    /\ UNCHANGED <<world, timerOn, picked>>

ConsoleNext ==
    \/ \E d \in Descriptions : RegisterAdapter(d)
    \/ \E id \in IdsOf(Descriptions) : UnregisterAdapter(id) \/ SelectDevice(id)
    \/ \E models \in SUBSET {d.model : d \in Descriptions} : ModelsChange(models)
    \/ \E p \in Panels : ProviderComes(p)
    \/ StartConsole \/ StopConsole \/ RefreshConsole
    \/ \E id \in Ids(panelList) \cup {NoId} : SelectPanel(id)
    \/ InvokeCurrent
ConsoleSpec == ConsoleInit /\ [][ConsoleNext]_consoleVars

-----------------------------------------------------------------------------
(* What is shown is of one device: the selected one is in the list, its    *)
(* panels fit it, the panel that is open is one of them, and the values    *)
(* are its model's.  And a command goes to the device the user chose,      *)
(* unless a refresh in between found it missing: then another device was   *)
(* selected in silence, and the same button drives that one.               *)
ConsoleShowsOneDevice ==
    /\ selectedId = NoId <=> selectedRow = {}
    /\ \A d \in selectedRow : d.id = selectedId /\ d \in deviceRows
    /\ \A i \in DOMAIN panelList : \E d \in selectedRow : Fits(panelList[i], d)
    /\ panelId \in Ids(panelList) \/ (panelId = NoId /\ panelList = <<>>)
    /\ snapshotOf # Nothing => \E d \in selectedRow : d.model = snapshotOf
    /\ sent.to \in {NoId, sent.picked} \/ sent.astray \/ sent.picked = NoId
=============================================================================
