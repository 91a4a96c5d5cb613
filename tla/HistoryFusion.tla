----------------------------- MODULE HistoryFusion -----------------------------
(***************************************************************************)
(* The history data fusion analysis: data sets are imported, analysed in   *)
(* six timed stages, concluded, archived, published, saved to a directory  *)
(* of their own per task and loaded back, all on the main thread.  What    *)
(* interleaves is the user, the stage timer and a save dialog whose nested *)
(* event loop lets the timer go on; and files that cannot be written.      *)
(*                                                                         *)
(* A record is a model value.  filtered and standard name the records they *)
(* hold a copy of, in whatever form; a score or a factor is the set of     *)
(* records it was computed from.                                           *)
(***************************************************************************)
EXTENDS Naturals, FiniteSets

CONSTANTS Datasets,     \* what a file may be parsed to, the demo data included
          Filters,      \* the records that pass the filter fields
          MaxTasks,     \* task ids handed out, a bound for TLC
          MaxKicks      \* starts while a first step is still pending, likewise

Records == UNION Datasets

ASSUME DatasetsAssumption == {} \notin Datasets
ASSUME FiltersAssumption == Filters \subseteq SUBSET Records /\ Filters # {}
ASSUME TasksAssumption == MaxTasks \in Nat /\ MaxKicks \in Nat

Tasks == 1..MaxTasks

VARIABLES
    raw,        \* rawRecords_
    filtered,   \* filteredRecords_
    standard,   \* standardRecords_
    summary,    \* summary_: see Summary
    filter,     \* filterLocation_, filterTargetType_, filterResult_
    running,    \* running_
    stage,      \* stageIndex_
    timer,      \* stageTimer_ is active
    kicks,      \* first steps that startAnalysis queued and that have not come
    task,       \* taskId_, 0 if empty
    dialog,     \* exportCurrentDataset is asking for a file name
    issued,     \* task ids handed out: they are times, so each is new
    disk,       \* task -> its snapshot; {} for a file that cannot be read
    damaged,    \* snapshots written in part, or from a damaged one
    tainted     \* whether the task in memory was loaded from a damaged one

vars == <<raw, filtered, standard, summary, filter, running, stage, timer, kicks,
          task, dialog, issued, disk, damaged, tainted>>

data == <<raw, filtered, standard>>
control == <<running, stage, timer, kicks>>
ids == <<task, issued>>
store == <<disk, damaged>>

(* The keys of summary_ that matter: quality and fusion scores, a          *)
(* conclusion, an archive state.  The others are notes (receipts, export   *)
(* paths, interface states); any of them can be left at any time by        *)
(* runAlgorithmOptimization or runModelIdentification.                     *)
Summary == [quality : SUBSET Records, fusion : SUBSET Records, concluded : BOOLEAN,
            archived : BOOLEAN]

NoSummary == [quality |-> {}, fusion |-> {}, concluded |-> FALSE,
              archived |-> FALSE]

Snapshot == [raw : SUBSET Records, standard : SUBSET Records, summary : Summary]

Init ==
    /\ raw = {} /\ filtered = {} /\ standard = {}
    /\ summary = NoSummary
    /\ filter \in Filters
    /\ running = FALSE /\ stage = 0 /\ timer = FALSE /\ kicks = 0
    /\ task = 0
    /\ dialog = FALSE
    /\ issued = 0
    /\ disk = [t \in Tasks |-> [raw |-> {}, standard |-> {}, summary |-> NoSummary]]
    /\ damaged = {}
    /\ tainted = FALSE

-----------------------------------------------------------------------------
EnsureTaskId ==
    IF task # 0 THEN UNCHANGED ids
    ELSE /\ issued < MaxTasks
         /\ task' = issued + 1
         /\ issued' = issued + 1

(* persistTaskSnapshot: the files of the task's directory are truncated    *)
(* and written one after the other, up to the first that cannot be opened. *)
(* A disk that fills up is not noticed: the files from there are opened,   *)
(* and cannot be read afterwards.                                          *)
PersistTaskSnapshot ==
    IF task' = 0 THEN UNCHANGED store
    ELSE \/ UNCHANGED store
         \/ \E opened \in 1..3 : \E whole \in 0..opened :
              LET Written(i, new, nothing, old) ==
                      IF i > opened THEN old ELSE IF i > whole THEN nothing ELSE new
              IN  /\ disk' = [disk EXCEPT ![task'] =
                        [raw      |-> Written(1, raw', {}, @.raw),
                         standard |-> Written(2, standard', {}, @.standard),
                         summary  |-> Written(3, summary', NoSummary, @.summary)]]
                  /\ damaged' = IF whole = 3 /\ ~tainted'
                                THEN damaged \ {task'} ELSE damaged \cup {task'}

-----------------------------------------------------------------------------
(* What the user does.  A dialog is modal; some buttons are disabled while *)
(* an analysis runs (HistoryDataFusionAnalysisView.qml).                   *)

ResetTask ==
    /\ ~dialog /\ ~running
    /\ raw' = {} /\ filtered' = {} /\ standard' = {}
    /\ summary' = NoSummary
    /\ stage' = 0 /\ timer' = FALSE
    /\ task' = 0
    /\ tainted' = FALSE
    /\ UNCHANGED <<filter, running, kicks, dialog, issued, store>>

SetFilter(f) ==
    /\ ~dialog /\ ~running
    /\ filter' = f
    /\ UNCHANGED <<data, summary, control, ids, dialog, store, tainted>>

\* Mutant: the results of the data before stay.
ImportKeepsResults(d) ==
    /\ ~dialog /\ ~running
    /\ raw' = d
    /\ tainted' = FALSE
    /\ UNCHANGED <<filtered, standard, summary, filter, control, ids, dialog>>
    /\ PersistTaskSnapshot

(* importFile and loadDemoDataset, when they succeed.  The task stays the  *)
(* one it was, and so do the filtered and the standard records.            *)
Import(d) ==
    /\ ~dialog /\ ~running
    /\ raw' = d
    /\ summary' = NoSummary
    /\ tainted' = FALSE
    /\ UNCHANGED <<filtered, standard, filter, control, ids, dialog>>
    /\ PersistTaskSnapshot

\* Mutant: only the first step is queued.
StartWithoutTimer ==
    /\ ~dialog /\ ~running
    /\ raw # {}
    /\ kicks < MaxKicks
    /\ EnsureTaskId
    /\ summary' = NoSummary
    /\ running' = TRUE /\ stage' = 0
    /\ kicks' = kicks + 1
    /\ tainted' = FALSE
    /\ UNCHANGED <<data, filter, timer, dialog, store>>

StartAnalysis ==
    /\ ~dialog /\ ~running
    /\ raw # {}
    /\ kicks < MaxKicks
    /\ EnsureTaskId
    /\ summary' = NoSummary
    /\ running' = TRUE /\ stage' = 0
    /\ kicks' = kicks + 1 /\ timer' = TRUE
    /\ tainted' = FALSE
    /\ UNCHANGED <<data, filter, dialog, store>>

ExportReport ==
    /\ ~dialog /\ ~running
    /\ summary.concluded
    /\ EnsureTaskId
    /\ UNCHANGED <<data, summary, filter, control, dialog, store, tainted>>

ArchiveResult ==
    /\ ~dialog /\ ~running
    /\ summary.concluded
    /\ EnsureTaskId
    /\ summary' = [summary EXCEPT !.archived = TRUE]
    /\ UNCHANGED <<data, filter, control, dialog, tainted>>
    /\ PersistTaskSnapshot

(* publishResult: the receipt is noted, whether or not its file in the     *)
(* outbox can be written.                                                  *)
PublishResult ==
    /\ ~dialog /\ ~running
    /\ summary.concluded
    /\ EnsureTaskId
    /\ UNCHANGED <<data, summary, filter, control, dialog, tainted>>
    /\ PersistTaskSnapshot

\* Refused if there are neither records nor notes.
SaveCurrentTask ==
    /\ ~dialog
    /\ EnsureTaskId
    /\ UNCHANGED <<data, summary, filter, control, dialog, tainted>>
    /\ PersistTaskSnapshot

\* The scores computed anew from what was loaded, the stored ones on top.
Restored(stored, records) ==
    [stored EXCEPT !.quality = IF @ = {} THEN records ELSE @,
                   !.fusion = IF @ = {} THEN records ELSE @]

\* Mutant: an analysis that runs goes on with what was loaded.
LoadWhileRunning(t) ==
    /\ ~dialog
    /\ disk[t].raw # {}
    /\ task' = t
    /\ raw' = disk[t].raw
    /\ standard' = disk[t].standard
    /\ filtered' = IF disk[t].standard = {} THEN disk[t].raw ELSE disk[t].standard
    /\ summary' = Restored(disk[t].summary, disk[t].standard)
    /\ tainted' = (t \in damaged)
    /\ UNCHANGED <<filter, control, dialog, issued, store>>

LoadArchivedTask(t) ==
    /\ ~dialog
    /\ disk[t].raw # {}
    /\ running' = FALSE /\ stage' = 0 /\ timer' = FALSE
    /\ task' = t
    /\ raw' = disk[t].raw
    /\ standard' = disk[t].standard
    /\ filtered' = IF disk[t].standard = {} THEN disk[t].raw ELSE disk[t].standard
    /\ summary' = Restored(disk[t].summary, disk[t].standard)
    /\ tainted' = (t \in damaged)
    /\ UNCHANGED <<filter, kicks, dialog, issued, store>>

(* exportCurrentDataset, up to the file dialog and from there.             *)
BeginExport ==
    /\ ~dialog
    /\ raw # {}
    /\ EnsureTaskId
    /\ dialog' = TRUE
    /\ UNCHANGED <<data, summary, filter, control, store, tainted>>

CancelExport ==
    /\ dialog
    /\ dialog' = FALSE
    /\ UNCHANGED <<data, summary, filter, control, ids, store, tainted>>

FinishExport ==
    /\ dialog
    /\ dialog' = FALSE
    /\ UNCHANGED <<data, summary, filter, control, ids, tainted>>
    /\ PersistTaskSnapshot

-----------------------------------------------------------------------------
(* The stages of advanceAnalysisStage.  Its answer to a stage index past   *)
(* the last one is left out: TypeOK shows that it is never needed.         *)

InStage(i) == running /\ stage = i /\ stage' = i + 1

CreateTask ==
    /\ InStage(0)
    /\ EnsureTaskId
    /\ UNCHANGED <<data, summary, running, timer, store>>

\* Without a record that passes the filter the analysis fails.
FilterRecords ==
    /\ InStage(1)
    /\ filtered' = raw \cap filter
    /\ running' = (filtered' # {})
    /\ timer' = (timer /\ running')
    /\ UNCHANGED <<raw, standard, summary, store>>

NormalizeRecords ==
    /\ InStage(2)
    /\ standard' = filtered
    /\ UNCHANGED <<raw, filtered, summary, running, timer, store>>

EvaluateQuality ==
    /\ InStage(3)
    /\ summary' = [summary EXCEPT !.quality = IF standard = {} THEN @ ELSE standard]
    /\ UNCHANGED <<data, running, timer, store>>

RunFusionAnalysis ==
    /\ InStage(4)
    /\ summary' = [summary EXCEPT !.fusion = IF standard = {} THEN @ ELSE standard]
    /\ UNCHANGED <<data, running, timer, store>>

SummarizeResults ==
    /\ InStage(5)
    /\ summary' = [summary EXCEPT !.concluded = TRUE]
    /\ running' = FALSE /\ timer' = FALSE
    /\ UNCHANGED data
    /\ PersistTaskSnapshot

AdvanceAnalysisStage ==
    /\ UNCHANGED <<filter, dialog, tainted>>
    /\ \/ CreateTask
       \/ /\ UNCHANGED ids
          /\ \/ FilterRecords \/ NormalizeRecords \/ EvaluateQuality
             \/ RunFusionAnalysis \/ SummarizeResults

TimerFires ==
    /\ timer
    /\ AdvanceAnalysisStage
    /\ UNCHANGED kicks

(* The step startAnalysis queued, perhaps for a run that is over by now,   *)
(* perhaps in the next one.                                                *)
FirstStep ==
    /\ kicks > 0
    /\ kicks' = kicks - 1
    /\ \/ AdvanceAnalysisStage
       \/ ~running /\ UNCHANGED <<data, summary, filter, running, stage, timer, ids,
                                  dialog, store, tainted>>

\* The program ends, or dies, and is started again.
Restart ==
    /\ raw' = {} /\ filtered' = {} /\ standard' = {}
    /\ summary' = NoSummary
    /\ filter' \in Filters
    /\ running' = FALSE /\ stage' = 0 /\ timer' = FALSE /\ kicks' = 0
    /\ task' = 0
    /\ dialog' = FALSE
    /\ tainted' = FALSE
    /\ UNCHANGED <<issued, store>>

Next ==
    \/ ResetTask \/ StartAnalysis
    \/ \E f \in Filters : SetFilter(f)
    \/ \E d \in Datasets : Import(d)
    \/ ExportReport \/ ArchiveResult \/ PublishResult
    \/ SaveCurrentTask
    \/ \E t \in Tasks : LoadArchivedTask(t)
    \/ BeginExport \/ CancelExport \/ FinishExport
    \/ TimerFires \/ FirstStep
    \/ Restart

Spec == Init /\ [][Next]_vars

(* An active QTimer fires, also while a dialog is open.                    *)
FairSpec == Spec /\ WF_vars(TimerFires)

-----------------------------------------------------------------------------
(* A task that runs has a directory of its own, its next stage ahead and a *)
(* timer that will bring it there.                                         *)
TypeOK ==
    /\ raw \subseteq Records
    /\ filtered \subseteq Records
    /\ standard \subseteq Records
    /\ summary \in Summary
    /\ filter \in Filters
    /\ running \in BOOLEAN
    /\ stage \in 0..6
    /\ timer \in BOOLEAN
    /\ running => timer /\ stage < 6 /\ task # 0
    /\ kicks \in 0..MaxKicks
    /\ task \in 0..issued
    /\ dialog \in BOOLEAN
    /\ issued \in 0..MaxTasks
    /\ disk \in [Tasks -> Snapshot]
    /\ damaged \subseteq Tasks
    /\ tainted \in BOOLEAN

(* While an analysis runs, each layer of it is made from the layer below,  *)
(* as it was selected by this run: no import, load, dialog or queued step  *)
(* has slipped in another.                                                 *)
StageOutputsAreCurrent ==
    running =>
        /\ stage >= 2 => filtered = raw \cap filter /\ filtered # {}
        /\ stage >= 3 => standard = filtered
        /\ stage >= 4 => summary.quality = standard
        /\ stage >= 5 => summary.fusion = standard

\* Scores are those of the standard records; a conclusion has both, and is
\* about the data set next to it.
FitsData(rawRecords, standardRecords, s) ==
    /\ s.quality \in {{}, standardRecords}
    /\ s.fusion \in {{}, standardRecords}
    /\ s.concluded => /\ s.quality = standardRecords /\ s.fusion = standardRecords
                      /\ standardRecords # {}
                      /\ standardRecords \subseteq rawRecords
    /\ s.archived => s.concluded

(* The conclusion that is shown, exported, archived and published belongs  *)
(* to the records it is shown with; so does the one in a snapshot that was *)
(* written whole, whenever it was saved, and what is loaded from it.       *)
ResultsFitData ==
    /\ ~tainted => FitsData(raw, standard, summary)
    /\ \A t \in Tasks \ damaged : FitsData(disk[t].raw, disk[t].standard, disk[t].summary)

\* An analysis that was started comes to an end, one way or another.
AnalysisEnds == running ~> ~running

(* "Historical versions stay read-only": the conclusion of an archived     *)
(* task is still there, about the same records, as long as its files are   *)
(* written whole.                                                          *)
ArchivedStays ==
    [][\A t \in Tasks \ damaged :
           disk[t].summary.archived /\ t \notin damaged' =>
               /\ disk'[t].summary.archived
               /\ disk'[t].raw = disk[t].raw
               /\ disk'[t].standard = disk[t].standard]_vars
=============================================================================
