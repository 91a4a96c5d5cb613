------------------------------ MODULE MirrorAging ------------------------------
(***************************************************************************)
(* Driving the fast mirror: the commands of the old protocol, the aging    *)
(* test, which repeats one of them on a timer and switches the drive off   *)
(* when a second timer ends, and the table the samples of the device are   *)
(* recorded in.  All of it runs on the main thread; any write may fail.    *)
(* An angle, a wave form or a parameter block is not modelled.             *)
(***************************************************************************)
EXTENDS Naturals

CONSTANTS MaxRows,     \* bound on the rows of the table
          MaxAgings    \* bound on the aging tests
ASSUME AgingAssumption == MaxRows \in Nat /\ MaxAgings \in Nat

VARIABLES
    agLink,         \* connected_ and the port is open
    streaming,      \* legacyStreaming_
    agingRunning,   \* agingRunning_
    agingTimer,     \* agingSendTimer_ is active
    cutoffTimer,    \* agingNoDriveTimer_ is active
    cutoffWanted,   \* agingNoDriveHours_ > 0
    triggered,      \* agingNoDriveTriggered_
    agings,         \* aging tests so far
    recording,      \* agingRecordEnabled_
    rows,           \* agingRecordedRows_
    table,          \* rows of Aging_AllData in the database file
    drive,          \* the mirror's drive (external)
    quiet,          \* history: the drive was switched off when the time was up
    miscounted      \* history: a row was added to rows that were never counted
agingVars == <<agLink, streaming, agingRunning, agingTimer, cutoffTimer, cutoffWanted,
               triggered, agings, recording, rows, table, drive, quiet, miscounted>>
test == <<agingRunning, agingTimer, cutoffTimer, cutoffWanted, triggered, agings>>
record == <<recording, rows, table, miscounted>>

AgingInit ==
    /\ agLink = FALSE /\ streaming = FALSE
    /\ agingRunning = FALSE /\ agingTimer = FALSE /\ cutoffTimer = FALSE
    /\ cutoffWanted = TRUE /\ triggered = FALSE /\ agings = 0
    /\ recording = FALSE /\ rows = 0 /\ table \in 0..MaxRows
    /\ drive = "off" /\ quiet = FALSE /\ miscounted = FALSE

\* Mutant: the cutoff timer is forgotten.
StopSending == agingRunning' = FALSE /\ agingTimer' = FALSE /\ UNCHANGED cutoffTimer
StopAging == agingRunning' = FALSE /\ agingTimer' = FALSE /\ cutoffTimer' = FALSE

(* ------------------------------ the link ------------------------------ *)

AgConnect(ok) ==
    /\ StopAging
    /\ agLink' = ok
    /\ UNCHANGED <<streaming, cutoffWanted, triggered, agings, record, drive, quiet>>

AgDisconnect ==
    /\ agLink' = FALSE
    /\ StopAging
    /\ streaming' = FALSE
    /\ UNCHANGED <<cutoffWanted, triggered, agings, record, drive, quiet>>

\* A resource error closes the port; the timers go on until a write fails.
AgLost ==
    /\ agLink /\ agLink' = FALSE
    /\ UNCHANGED <<streaming, test, record, drive, quiet>>

(* ----------------------- the old protocol's commands ----------------------- *)

\* sendLegacyKick(command, 2) and sendLegacyPayload: how far it came.  The
\* flag follows the kick; a payload whose write failed may have arrived.
Outcomes == {"kick failed", "payload failed", "done"}
Possible(how) == agLink \/ how = "kick failed"
Legacy(how, onOff) ==
    /\ Possible(how)
    /\ streaming' = (streaming \/ how # "kick failed")
    /\ drive' \in CASE how = "kick failed" -> {drive}
                    [] how = "payload failed" -> {drive, onOff}
                    [] how = "done" -> {onOff}

\* runLegacyFixed, -Step, -Scan, -Speed, -OmSpeed; -System also switches off.
RunLegacy(how, onOff) ==
    /\ Legacy(how, onOff)
    /\ quiet' = (quiet /\ drive' = "off")
    /\ UNCHANGED <<agLink, test, record>>

\* legacy start and stop: the kick alone; start repeats the stream command.
KickLegacy(start) ==
    /\ agLink
    /\ streaming' = start
    /\ UNCHANGED <<agLink, test, record, drive, quiet>>

(* ------------------------------ the aging test ------------------------------ *)

\* startAging: stop, send the first frame, start the timers if it went out.
StartAging(hours, how) ==
    /\ agLink
    /\ agings < MaxAgings /\ agings' = agings + 1
    /\ Legacy(how, "on")
    /\ agingRunning' = (how = "done") /\ agingTimer' = agingRunning'
    /\ cutoffTimer' = (agingRunning' /\ hours > 0)
    /\ cutoffWanted' = (hours > 0)
    /\ triggered' = FALSE
    /\ quiet' = FALSE
    /\ UNCHANGED <<agLink, record>>

StopAgingByUser ==
    /\ StopAging
    /\ UNCHANGED <<agLink, streaming, cutoffWanted, triggered, agings, record, drive, quiet>>

\* sendAgingFrame
SendAgingFrame(how) ==
    /\ agingTimer /\ agingRunning
    /\ Legacy(how, "on")
    /\ IF how = "done" THEN UNCHANGED <<agingRunning, agingTimer, cutoffTimer>> ELSE StopAging
    /\ UNCHANGED <<agLink, cutoffWanted, triggered, agings, record, quiet>>

\* onAgingNoDriveTimeout: the drive is switched off, or that failed; the test
\* ends either way.
CutDrive(how) ==
    /\ cutoffTimer /\ agingRunning
    /\ Legacy(how, "off")
    /\ triggered' = TRUE
    /\ StopAging
    /\ quiet' = (how = "done")
    /\ UNCHANGED <<agLink, cutoffWanted, agings, record>>

(* ------------------------------ the record ------------------------------ *)

\* ensureAgingDatabase, which counts the rows while none are known: it fails,
\* or it leaves n in agingRecordedRows_.
Ensured(n) == n = rows \/ (rows = 0 /\ n = table)

EnableRecord(n) ==
    /\ Ensured(n)
    /\ rows' = n /\ recording' = TRUE
    /\ UNCHANGED <<agLink, streaming, test, table, drive, quiet, miscounted>>

\* Switched off by the user, or because the database could not be opened.
DisableRecord ==
    /\ recording' = FALSE
    /\ UNCHANGED <<agLink, streaming, test, rows, table, drive, quiet, miscounted>>

\* Mutant: the number of rows is not reset.
DeleteUncounted ==
    /\ table' = 0 /\ miscounted' = FALSE
    /\ UNCHANGED <<agLink, streaming, test, recording, rows, drive, quiet>>
\* deleteAgingRecordData, when it succeeds
DeleteRecord ==
    /\ rows' = 0 /\ table' = 0 /\ miscounted' = FALSE
    /\ UNCHANGED <<agLink, streaming, test, recording, drive, quiet>>

\* A closed-loop or speed sample of the device and appendAgingRecord, whose
\* insertion succeeds or fails.
Sample(n, inserted) ==
    /\ agLink /\ recording
    /\ Ensured(n)
    /\ IF inserted
       THEN /\ table < MaxRows
            /\ table' = table + 1 /\ rows' = n + 1
            /\ miscounted' = (miscounted \/ n # table)
       ELSE rows' = n /\ UNCHANGED <<table, miscounted>>
    /\ UNCHANGED <<agLink, streaming, test, recording, drive, quiet>>

AgingNext ==
    \/ \E ok \in BOOLEAN : AgConnect(ok)
    \/ AgDisconnect \/ AgLost
    \/ \E how \in Outcomes :
        \/ \E onOff \in {"on", "off"} : RunLegacy(how, onOff)
        \/ \E hours \in {0, 1} : StartAging(hours, how)
        \/ SendAgingFrame(how) \/ CutDrive(how)
    \/ \E start \in BOOLEAN : KickLegacy(start)
    \/ StopAgingByUser
    \/ \E n \in 0..MaxRows : \/ EnableRecord(n)
                             \/ \E inserted \in BOOLEAN : Sample(n, inserted)
    \/ DisableRecord \/ DeleteRecord
AgingSpec == AgingInit /\ [][AgingNext]_agingVars

-----------------------------------------------------------------------------
AgingTypeOK ==
    /\ agLink \in BOOLEAN /\ streaming \in BOOLEAN
    /\ agingRunning \in BOOLEAN /\ agingTimer \in BOOLEAN /\ cutoffTimer \in BOOLEAN
    /\ cutoffWanted \in BOOLEAN /\ triggered \in BOOLEAN
    /\ recording \in BOOLEAN /\ quiet \in BOOLEAN /\ miscounted \in BOOLEAN
    /\ agings \in 0..MaxAgings
    /\ rows \in 0..MaxRows /\ table \in 0..MaxRows
    /\ drive \in {"on", "off"}

(* A test that runs has its send timer and, when one was asked for, its    *)
(* cutoff; a test that does not run has neither, so no timer of an earlier *)
(* test reaches into the next one.  Once the time was up and the drive was *)
(* switched off, it stays off: no frame of the test comes after, whatever  *)
(* order the two timers fire in.                                           *)
CutoffHolds ==
    /\ agingTimer = agingRunning
    /\ cutoffTimer = (agingRunning /\ cutoffWanted)
    /\ triggered => ~agingRunning
    /\ quiet => drive = "off" /\ ~agingRunning

(* The number of recorded rows that is shown is the size of the table, or  *)
(* 0 before the table was counted -- unless the count failed and a sample  *)
(* was stored all the same: then every later number is too small, because  *)
(* rows are counted only while none are known.                             *)
RowsAreTrue ==
    miscounted \/ rows \in {0, table}
=============================================================================
