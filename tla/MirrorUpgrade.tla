---------------------------- MODULE MirrorUpgrade ----------------------------
(***************************************************************************)
(* Program download to the fast mirror.  A timer sends the frames of the   *)
(* loaded file one per tick and does not wait for answers; the device      *)
(* answers when it likes and ends the download with a verdict.  A frame is *)
(* its number.  Everything runs on the main thread, one event at a time,   *)
(* but for the wait of a write, in which what the device sent is read.     *)
(* Left out: the options (ids, chunk size, interval), which change what a  *)
(* frame holds and not when it goes out.                                   *)
(***************************************************************************)
EXTENDS Naturals, Sequences

CONSTANTS MaxFrames,    \* the longest file, in frames
          MaxDownloads  \* bound on the downloads
ASSUME UpgradeAssumption == MaxFrames \in Nat \ {0} /\ MaxDownloads \in Nat

VARIABLES
    upLink,          \* connected_ and the port is open
    upgradeFrames,   \* number of frames of the loaded file, 0 without one
    upgradeCurrent,  \* upgradeCurrentLine_
    upgradeRunning,  \* upgradeRunning_; the timer is active
    upgradeProgress, \* upgradeProgress_
    upgradeText,     \* upgradeLastStatus_
    line,            \* history: the data frames on the line in this download
    verdict,         \* history: no verdict, or where the "last" one came: when all
                     \* frames were out and the timer had yet to notice; elsewhere
    downloads        \* downloads so far
upgradeVars == <<upLink, upgradeFrames, upgradeCurrent, upgradeRunning,
                 upgradeProgress, upgradeText, line, verdict, downloads>>
transfer == <<upgradeFrames, upgradeCurrent, upgradeProgress, line, downloads>>

UpgradeInit ==
    /\ upLink = FALSE
    /\ upgradeFrames = 0 /\ upgradeCurrent = 0
    /\ upgradeRunning = FALSE /\ upgradeProgress = 0
    /\ upgradeText = "none"
    /\ line = <<>> /\ verdict = "none" /\ downloads = 0

\* stopUpgradeDownload(false) and the text it leaves, which was t before.
AllOut == upgradeCurrent >= upgradeFrames
\* Mutant: the text is written whether or not a download was on.
StoppedAnyway(t) == IF AllOut THEN "waiting" ELSE t
StoppedText(t) == IF upgradeRunning /\ AllOut THEN "waiting" ELSE t
StopDownload(t) == upgradeRunning' = FALSE /\ upgradeText' = StoppedText(t)

(* ------------------------------ the link ------------------------------ *)

UpConnect(ok) ==
    /\ StopDownload(upgradeText)
    /\ upLink' = ok
    /\ UNCHANGED <<transfer, verdict>>

UpDisconnect ==
    /\ StopDownload(upgradeText)
    /\ upLink' = FALSE
    /\ UNCHANGED <<transfer, verdict>>

\* A resource error closes the port and nothing else.
UpLost ==
    /\ upLink /\ upLink' = FALSE
    /\ UNCHANGED <<transfer, upgradeRunning, upgradeText, verdict>>

(* ------------------------------ commands ------------------------------ *)

\* Mutant: a download that is on goes on with the new file.
LoadGoingOn(n) ==
    /\ upgradeFrames' = n /\ upgradeCurrent' = 0 /\ upgradeProgress' = 0
    /\ upgradeText' = "loaded"
    /\ line' = <<>> /\ verdict' = "none"
    /\ UNCHANGED <<upLink, upgradeRunning, downloads>>
\* loadUpgradeHexFile of a file that can be read; any other changes nothing.
LoadUpgradeFile(n) ==
    /\ upgradeRunning' = FALSE
    /\ upgradeFrames' = n /\ upgradeCurrent' = 0 /\ upgradeProgress' = 0
    /\ upgradeText' = "loaded"
    /\ line' = <<>> /\ verdict' = "none"
    /\ UNCHANGED <<upLink, downloads>>

\* sendUpgradeEnterMode and sendUpgradePreUpdate, when the frame is written.
SendUpgradeMode ==
    /\ upLink
    /\ upgradeText' = "mode sent"
    /\ UNCHANGED <<transfer, upLink, upgradeRunning, verdict>>

\* The write of data frame n, after which the line carries sentBefore or more.
\* A verdict that is read meanwhile stops the download; the count, the progress
\* and the text follow all the same when the frame is out.
Verdict(decided) ==
    /\ decided => upLink
    /\ verdict' = IF decided THEN "elsewhere" ELSE "none"
FrameSent(n, sentBefore, decided) ==
    /\ upLink /\ Verdict(decided)
    /\ upgradeCurrent' = n
    /\ upgradeProgress' = (100 * n) \div upgradeFrames
    /\ upgradeRunning' = ~decided
    /\ upgradeText' = "sending"
    /\ line' = Append(sentBefore, n)
FrameFailed(n, sentBefore, progress, decided) ==
    /\ Verdict(decided)
    /\ upgradeCurrent' = n - 1
    /\ upgradeProgress' = progress
    /\ upgradeRunning' = FALSE
    /\ upgradeText' = "broken"
    /\ line' \in {sentBefore} \cup IF upLink THEN {Append(sentBefore, n)} ELSE {}

StartDownload ==
    /\ upgradeFrames > 0 /\ upLink
    /\ downloads < MaxDownloads /\ downloads' = downloads + 1
    /\ \E decided \in BOOLEAN :
           FrameSent(1, <<>>, decided) \/ FrameFailed(1, <<>>, 0, decided)
    /\ UNCHANGED <<upLink, upgradeFrames>>

StopByUser ==
    /\ upgradeRunning' = FALSE /\ upgradeText' = "stopped"
    /\ UNCHANGED <<transfer, upLink, verdict>>

(* ------------------------------- the timer ------------------------------- *)

SendNextFrame ==
    /\ upgradeRunning /\ ~AllOut
    /\ \E decided \in BOOLEAN :
        \/ FrameSent(upgradeCurrent + 1, line, decided)
        \/ FrameFailed(upgradeCurrent + 1, line, upgradeProgress, decided)
    /\ UNCHANGED <<upLink, upgradeFrames, downloads>>

FinishDownload ==
    /\ upgradeRunning /\ AllOut
    /\ StopDownload(upgradeText)
    /\ upgradeProgress' = 100
    /\ UNCHANGED <<upLink, upgradeFrames, upgradeCurrent, line, verdict, downloads>>

(* ------------------------------ the device ------------------------------ *)

\* An answer that is no verdict: the acknowledgements, a progress report,
\* an answer without a status.
DeviceAnswers ==
    /\ upLink
    /\ upgradeText' = "answer"
    /\ UNCHANGED <<transfer, upLink, upgradeRunning, verdict>>

\* "Upgrade done" and every answer with an error status, a status frame with
\* success or failure: the text of the verdict first, then the stop.
DeviceDecides ==
    /\ upLink
    /\ StopDownload("verdict")
    /\ verdict' = IF upgradeRunning /\ AllOut THEN "last" ELSE "elsewhere"
    /\ UNCHANGED <<transfer, upLink>>

UpgradeNext ==
    \/ \E ok \in BOOLEAN : UpConnect(ok)
    \/ UpDisconnect \/ UpLost
    \/ \E n \in 1..MaxFrames : LoadUpgradeFile(n)
    \/ SendUpgradeMode \/ StartDownload \/ StopByUser
    \/ SendNextFrame \/ FinishDownload
    \/ DeviceAnswers \/ DeviceDecides
UpgradeSpec == UpgradeInit /\ [][UpgradeNext]_upgradeVars

-----------------------------------------------------------------------------
Texts == {"none", "loaded", "mode sent", "sending", "broken", "stopped",
          "waiting", "answer", "verdict"}
UpgradeTypeOK ==
    /\ upLink \in BOOLEAN /\ upgradeRunning \in BOOLEAN
    /\ upgradeFrames \in 0..MaxFrames
    /\ upgradeCurrent \in 0..upgradeFrames
    /\ upgradeProgress \in 0..100
    /\ upgradeText \in Texts
    /\ line \in Seq(1..upgradeFrames)
    /\ verdict \in {"none", "last", "elsewhere"}
    /\ downloads \in 0..MaxDownloads
    /\ upgradeRunning => upgradeFrames > 0

(* The download is a transfer: whatever commands, ticks, answers and       *)
(* failures of the link come in between, the line carries the frames of    *)
(* the loaded file in order from the first, and the progress is earned.    *)
Promise == INSTANCE Transfer WITH
    size <- upgradeFrames, sent <- line, going <- upgradeRunning, shown <- upgradeProgress
UpgradeIsTransfer == Promise!TSpec

(* While the user reads "all sent, waiting for the device" the device has  *)
(* not decided -- except that its verdict came before the tick after the   *)
(* last frame: the stop then writes this text over the verdict, be it a    *)
(* success or a failure.                                                   *)
WaitingMeansUndecided ==
    upgradeText = "waiting" => verdict # "elsewhere"
=============================================================================
