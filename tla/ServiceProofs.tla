----------------------------- MODULE ServiceProofs -----------------------------
(***************************************************************************)
(* For any files, tables, calls and failures: a program download is a      *)
(* transfer and its "waiting" is true, an aging test keeps its cutoff and  *)
(* its row count, a turntable hears one counter after the other, a setting *)
(* is read back as it was written, the repository implements               *)
(* AtomicImports, data models lose no edit and leave no reader behind, the *)
(* console shows and drives one device, and the fusion analysis draws its  *)
(* conclusions from the records they stand beside.                         *)
(***************************************************************************)
EXTENDS MirrorUpgrade, MirrorAging, SensorSettings, TurntableLink, DataRepository, DataModel,
        DeviceConsole, HistoryFusion, FiniteSetTheorems, WellFoundedInduction, TLAPS

(* ------------------------------ per cents ------------------------------ *)

\* A share of the frames is at most 100 per cent.
LEMMA PercentRange ==
    ASSUME NEW n \in Nat, NEW f \in Nat, f > 0, n <= f
    PROVE  (100 * n) \div f \in 0..100
OBVIOUS

\* All the frames are 100 per cent.
LEMMA PercentOfAll ==
    ASSUME NEW f \in Nat, f > 0 PROVE (100 * f) \div f = 100
OBVIOUS

(* ------------------------------ the download ------------------------------ *)

\* While a download runs nobody has decided, the frames up to the current
\* one are on the line, and the progress is theirs.
UpgradeInv ==
    /\ UpgradeTypeOK
    /\ WaitingMeansUndecided
    /\ upgradeRunning =>
           /\ verdict = "none"
           /\ line = [i \in 1..upgradeCurrent |-> i]
           /\ upgradeProgress = (100 * upgradeCurrent) \div upgradeFrames

LEMMA UpgradeInitially == UpgradeInit => UpgradeInv
<1> SUFFICES ASSUME UpgradeInit PROVE UpgradeInv
  OBVIOUS
<1>1. upgradeRunning = FALSE /\ upgradeText = "none"
  BY DEF UpgradeInit
<1>2. line \in Seq(1..upgradeFrames)
  BY DEF UpgradeInit
<1>3. /\ upgradeFrames \in 0..MaxFrames /\ upgradeCurrent \in 0..upgradeFrames
      /\ upgradeProgress \in 0..100 /\ downloads \in 0..MaxDownloads
  BY UpgradeAssumption DEF UpgradeInit
<1>4. upLink \in BOOLEAN /\ verdict = "none"
  BY DEF UpgradeInit
<1>. QED BY <1>1, <1>2, <1>3, <1>4, Zenon
         DEF UpgradeInv, UpgradeTypeOK, WaitingMeansUndecided, Texts

\* The next frame goes behind those that are out.
LEMMA NextFrameSent ==
    ASSUME UpgradeInv, NEW n \in 1..upgradeFrames, NEW before \in Seq(1..upgradeFrames),
           before = [i \in 1..(n - 1) |-> i],
           NEW decided \in BOOLEAN, FrameSent(n, before, decided),
           upgradeFrames' = upgradeFrames, upLink' = upLink, downloads' \in 0..MaxDownloads
    PROVE  UpgradeInv'
<1>1. line' = [i \in 1..n |-> i]
  BY DEF FrameSent
<1>2. (100 * n) \div upgradeFrames \in 0..100
  BY PercentRange DEF UpgradeInv, UpgradeTypeOK
<1>3. line' \in Seq(1..upgradeFrames)
  BY DEF FrameSent
<1>4. upgradeRunning' = ~decided /\ upgradeText' = "sending" /\ verdict' \in {"none", "elsewhere"}
  BY DEF FrameSent, Verdict
<1>5. /\ upgradeCurrent' = n /\ upgradeProgress' \in 0..100
      /\ n \in 0..upgradeFrames /\ upgradeFrames > 0
  BY <1>2 DEF FrameSent, UpgradeInv, UpgradeTypeOK
<1>6. UpgradeTypeOK'
  BY <1>3, <1>4, <1>5 DEF UpgradeInv, UpgradeTypeOK, Texts
<1>. QED BY <1>1, <1>6 DEF FrameSent, Verdict, UpgradeInv, UpgradeTypeOK, WaitingMeansUndecided

\* A frame whose write failed may be out; the download is over.
LEMMA NextFrameFailed ==
    ASSUME UpgradeInv, NEW n \in 1..upgradeFrames, NEW before \in Seq(1..upgradeFrames),
           NEW progress \in 0..100, NEW decided \in BOOLEAN,
           FrameFailed(n, before, progress, decided),
           upgradeFrames' = upgradeFrames, upLink' = upLink, downloads' \in 0..MaxDownloads
    PROVE  UpgradeInv'
<1>1. Append(before, n) \in Seq(1..upgradeFrames)
  OBVIOUS
<1>2. line' \in Seq(1..upgradeFrames)
  BY <1>1 DEF FrameFailed
<1>3. /\ upgradeRunning' = FALSE /\ upgradeText' = "broken"
      /\ verdict' \in {"none", "elsewhere"} /\ upgradeProgress' \in 0..100
  BY DEF FrameFailed, Verdict
<1>4. upgradeCurrent' = n - 1 /\ n - 1 \in 0..upgradeFrames
  BY DEF FrameFailed, UpgradeInv, UpgradeTypeOK
<1>5. UpgradeTypeOK'
  BY <1>2, <1>3, <1>4 DEF UpgradeInv, UpgradeTypeOK, Texts
<1>. QED BY <1>3, <1>5 DEF UpgradeInv, WaitingMeansUndecided

LEMMA StartKeepsUpgrade == ASSUME UpgradeInv, StartDownload PROVE UpgradeInv'
<1>1. PICK decided \in BOOLEAN :
          FrameSent(1, <<>>, decided) \/ FrameFailed(1, <<>>, 0, decided)
  BY DEF StartDownload
<1>2. /\ upgradeFrames' = upgradeFrames /\ upLink' = upLink /\ 1 \in 1..upgradeFrames
      /\ downloads' \in 0..MaxDownloads
  BY UpgradeAssumption DEF StartDownload, UpgradeInv, UpgradeTypeOK
<1>3. <<>> = [i \in 1..(1 - 1) |-> i] /\ <<>> \in Seq(1..upgradeFrames)
  OBVIOUS
<1>4. CASE FrameSent(1, <<>>, decided)
  BY <1>2, <1>3, <1>4, NextFrameSent
<1>5. CASE FrameFailed(1, <<>>, 0, decided)
  <2>1. 0 \in 0..100 /\ <<>> \in Seq(1..upgradeFrames)
    OBVIOUS
  <2>2. FrameFailed(1, <<>>, 0, decided) => UpgradeInv'
    BY <2>1, <1>2, NextFrameFailed, Zenon
  <2>. QED BY <2>2, <1>5
<1>. QED BY <1>1, <1>4, <1>5

LEMMA SendKeepsUpgrade == ASSUME UpgradeInv, SendNextFrame PROVE UpgradeInv'
<1>1. PICK decided \in BOOLEAN :
          \/ FrameSent(upgradeCurrent + 1, line, decided)
          \/ FrameFailed(upgradeCurrent + 1, line, upgradeProgress, decided)
  BY DEF SendNextFrame
<1>2. /\ upgradeFrames' = upgradeFrames /\ upLink' = upLink
      /\ upgradeCurrent + 1 \in 1..upgradeFrames
      /\ downloads' \in 0..MaxDownloads
      /\ line \in Seq(1..upgradeFrames) /\ upgradeProgress \in 0..100
  BY DEF SendNextFrame, AllOut, UpgradeInv, UpgradeTypeOK
<1>3. line = [i \in 1..((upgradeCurrent + 1) - 1) |-> i]
  BY DEF SendNextFrame, UpgradeInv, UpgradeTypeOK
<1>4. CASE FrameSent(upgradeCurrent + 1, line, decided)
  BY <1>2, <1>3, <1>4, NextFrameSent
<1>5. CASE FrameFailed(upgradeCurrent + 1, line, upgradeProgress, decided)
  BY <1>2, <1>5, NextFrameFailed
<1>. QED BY <1>1, <1>4, <1>5

\* What leaves the transfer alone keeps the invariant if the text is honest.
LEMMA TransferStays ==
    ASSUME UpgradeInv, UNCHANGED transfer, upLink' \in BOOLEAN, upgradeText' \in Texts,
           \/ upgradeRunning' = FALSE /\ verdict' \in {"none", "last", "elsewhere"}
           \/ upgradeRunning' = upgradeRunning /\ verdict' = verdict,
           upgradeText' = "waiting" => verdict' # "elsewhere"
    PROVE  UpgradeInv'
<1>1. /\ upgradeFrames' = upgradeFrames /\ upgradeCurrent' = upgradeCurrent
      /\ upgradeProgress' = upgradeProgress /\ line' = line /\ downloads' = downloads
  BY DEF transfer
<1>2. UpgradeTypeOK'
  <2>1. /\ upgradeRunning' \in BOOLEAN /\ verdict' \in {"none", "last", "elsewhere"}
        /\ upgradeRunning' => upgradeFrames > 0
    <3>1. CASE upgradeRunning' = FALSE /\ verdict' \in {"none", "last", "elsewhere"}
      BY <3>1
    <3>2. CASE upgradeRunning' = upgradeRunning /\ verdict' = verdict
      BY <3>2, Zenon DEF UpgradeInv, UpgradeTypeOK
    <3>. QED BY <3>1, <3>2
  <2>. QED BY <1>1, <2>1, Zenon DEF UpgradeInv, UpgradeTypeOK
<1>3. WaitingMeansUndecided'
  BY DEF WaitingMeansUndecided
<1>4. ASSUME upgradeRunning'
      PROVE  /\ verdict' = "none"
             /\ line' = [i \in 1..upgradeCurrent' |-> i]
             /\ upgradeProgress' = (100 * upgradeCurrent') \div upgradeFrames'
  <2>1. upgradeRunning /\ verdict' = verdict
    BY <1>4
  <2>. QED BY <2>1, <1>1, Zenon DEF UpgradeInv
<1>. QED BY <1>2, <1>3, <1>4, Zenon DEF UpgradeInv

\* What only stops, or only changes the text.
LEMMA RestKeepsUpgrade ==
    ASSUME UpgradeInv,
           \/ \E ok \in BOOLEAN : UpConnect(ok)
           \/ UpDisconnect \/ UpLost \/ SendUpgradeMode \/ StopByUser
           \/ DeviceAnswers \/ DeviceDecides
           \/ UNCHANGED upgradeVars
    PROVE  UpgradeInv'
<1> USE DEF UpgradeInv, UpgradeTypeOK, WaitingMeansUndecided, Texts
<1>1. CASE (\E ok \in BOOLEAN : UpConnect(ok)) \/ UpDisconnect
  BY <1>1, TransferStays DEF UpConnect, UpDisconnect, StopDownload, StoppedText
<1>2. CASE UpLost
  BY <1>2, TransferStays DEF UpLost
<1>3. CASE SendUpgradeMode \/ DeviceAnswers
  BY <1>3, TransferStays DEF SendUpgradeMode, DeviceAnswers
<1>4. CASE StopByUser
  BY <1>4, TransferStays DEF StopByUser
<1>5. CASE DeviceDecides
  BY <1>5, TransferStays DEF DeviceDecides, StopDownload, StoppedText
<1>6. CASE UNCHANGED upgradeVars
  BY <1>6, TransferStays DEF upgradeVars, transfer
<1>. QED BY <1>1, <1>2, <1>3, <1>4, <1>5, <1>6

\* The last tick: all the frames are out, and nobody has decided.
LEMMA FinishKeepsUpgrade == ASSUME UpgradeInv, FinishDownload PROVE UpgradeInv'
<1>1. /\ UNCHANGED <<upLink, upgradeFrames, upgradeCurrent, line, verdict, downloads>>
      /\ upgradeRunning' = FALSE /\ upgradeText' = "waiting" /\ upgradeProgress' = 100
  BY DEF FinishDownload, StopDownload, StoppedText
<1>2. verdict = "none"
  BY DEF FinishDownload, UpgradeInv
<1>3. 100 \in 0..100 /\ "waiting" \in Texts
  BY DEF Texts
<1>4. UpgradeTypeOK'
  BY <1>1, <1>3, Zenon DEF UpgradeInv, UpgradeTypeOK
<1>. QED BY <1>1, <1>2, <1>4, Zenon DEF UpgradeInv, WaitingMeansUndecided

LEMMA LoadKeepsUpgrade ==
    ASSUME UpgradeInv, NEW n \in 1..MaxFrames, LoadUpgradeFile(n) PROVE UpgradeInv'
<1>1. /\ UNCHANGED <<upLink, downloads>> /\ upgradeRunning' = FALSE
      /\ upgradeFrames' = n /\ upgradeCurrent' = 0 /\ upgradeProgress' = 0
      /\ upgradeText' = "loaded" /\ line' = <<>> /\ verdict' = "none"
  BY DEF LoadUpgradeFile
<1>2. /\ n \in 0..MaxFrames /\ 0 \in 0..n /\ 0 \in 0..100
      /\ <<>> \in Seq(1..n) /\ "loaded" \in Texts
  BY UpgradeAssumption DEF Texts
<1>3. UpgradeTypeOK'
  BY <1>1, <1>2, Zenon DEF UpgradeInv, UpgradeTypeOK
<1>. QED BY <1>1, <1>3, Zenon DEF UpgradeInv, WaitingMeansUndecided

LEMMA UpgradeStep == UpgradeInv /\ [UpgradeNext]_upgradeVars => UpgradeInv'
BY StartKeepsUpgrade, SendKeepsUpgrade, RestKeepsUpgrade, FinishKeepsUpgrade,
   LoadKeepsUpgrade DEF UpgradeNext

LEMMA UpgradeInvariant == UpgradeSpec => []UpgradeInv
BY UpgradeInitially, UpgradeStep, PTL DEF UpgradeSpec

\* The length of the frames that are out in a running download.
LEMMA OutSoFar ==
    ASSUME UpgradeInv, upgradeRunning
    PROVE  Len(line) = upgradeCurrent /\ upgradeFrames \in Nat \ {0}
BY DEF UpgradeInv, UpgradeTypeOK

\* The end of a download, or nothing, for what leaves the transfer alone.
LEMMA StopIsEnd ==
    ASSUME UpgradeInv, UNCHANGED transfer, upgradeRunning' \in {FALSE, upgradeRunning}
    PROVE  [Promise!TNext]_Promise!tVars
<1>1. upgradeFrames' = upgradeFrames /\ upgradeProgress' = upgradeProgress /\ line' = line
  BY DEF transfer
<1>2. upgradeRunning \in BOOLEAN
  BY DEF UpgradeInv, UpgradeTypeOK
<1>. QED BY <1>1, <1>2 DEF Promise!TNext, Promise!TEnd, Promise!tVars

LEMMA LoadIsLoad ==
    ASSUME NEW n \in 1..MaxFrames, LoadUpgradeFile(n) PROVE Promise!TNext
<1>1. n \in Nat \ {0}
  BY UpgradeAssumption
<1>. QED BY <1>1 DEF LoadUpgradeFile, Promise!TNext, Promise!TLoad

LEMMA StartIsBegin == ASSUME UpgradeInv, StartDownload PROVE Promise!TNext
<1>1. PICK decided \in BOOLEAN :
          FrameSent(1, <<>>, decided) \/ FrameFailed(1, <<>>, 0, decided)
  BY DEF StartDownload
<1>2. upgradeFrames > 0 /\ upgradeFrames' = upgradeFrames
  BY DEF StartDownload
<1>3. Append(<<>>, 1) = <<1>>
  OBVIOUS
<1>4. CASE FrameSent(1, <<>>, decided)
  <2>1. line' = <<1>> /\ upgradeRunning' \in BOOLEAN
    BY <1>3, <1>4 DEF FrameSent
  <2>2. upgradeProgress' = (100 * 1) \div upgradeFrames
    BY <1>4 DEF FrameSent
  <2>. QED BY <1>2, <2>1, <2>2 DEF Promise!TNext, Promise!TBegin, Promise!Percent
<1>5. CASE FrameFailed(1, <<>>, 0, decided)
  <2>1. line' \in {<<>>, <<1>>} /\ upgradeRunning' = FALSE /\ upgradeProgress' = 0
    BY <1>3, <1>5 DEF FrameFailed
  <2>. QED BY <1>2, <2>1 DEF Promise!TNext, Promise!TBegin
<1>. QED BY <1>1, <1>4, <1>5

LEMMA SendIsSend == ASSUME UpgradeInv, SendNextFrame PROVE Promise!TNext
<1> DEFINE n == upgradeCurrent + 1
<1>1. PICK decided \in BOOLEAN :
          FrameSent(n, line, decided) \/ FrameFailed(n, line, upgradeProgress, decided)
  BY DEF SendNextFrame
<1>2. /\ upgradeRunning /\ upgradeFrames' = upgradeFrames
      /\ Len(line) + 1 = n /\ n \in 1..upgradeFrames /\ Len(line) < upgradeFrames
      /\ line \in Seq(1..upgradeFrames)
  BY OutSoFar DEF SendNextFrame, AllOut, UpgradeInv, UpgradeTypeOK
<1>3. Len(Append(line, n)) = n
  BY <1>2
<1> HIDE DEF n
<1>4. CASE FrameSent(n, line, decided)
  <2>1. /\ line' = Append(line, n) /\ upgradeRunning' = ~decided
        /\ upgradeProgress' = (100 * n) \div upgradeFrames
    BY <1>4 DEF FrameSent
  <2>2. CASE decided
    BY <1>2, <1>3, <2>1, <2>2 DEF Promise!TNext, Promise!TEnd, Promise!Percent
  <2>3. CASE ~decided
    BY <1>2, <1>3, <2>1, <2>3 DEF Promise!TNext, Promise!TSend, Promise!Percent
  <2>. QED BY <2>2, <2>3
<1>5. CASE FrameFailed(n, line, upgradeProgress, decided)
  <2>1. /\ line' \in {line, Append(line, n)} /\ upgradeRunning' = FALSE
        /\ upgradeProgress' = upgradeProgress
    BY <1>5 DEF FrameFailed
  <2>. QED BY <1>2, <2>1 DEF Promise!TNext, Promise!TEnd
<1>. QED BY <1>1, <1>4, <1>5

LEMMA FinishIsEnd == ASSUME UpgradeInv, FinishDownload PROVE Promise!TNext
<1>1. /\ upgradeRunning /\ upgradeRunning' = FALSE /\ upgradeFrames' = upgradeFrames
      /\ line' = line /\ upgradeProgress' = 100
  BY DEF FinishDownload, StopDownload
<1>2. Len(line) = upgradeFrames /\ upgradeFrames \in Nat /\ upgradeFrames > 0
  BY OutSoFar DEF FinishDownload, AllOut, UpgradeInv, UpgradeTypeOK
<1>3. (100 * upgradeFrames) \div upgradeFrames = 100
  BY <1>2, PercentOfAll
<1>. QED BY <1>1, <1>2, <1>3 DEF Promise!TNext, Promise!TEnd, Promise!Percent

LEMMA UpgradeStepIsTransfer ==
    UpgradeInv /\ [UpgradeNext]_upgradeVars => [Promise!TNext]_Promise!tVars
<1> SUFFICES ASSUME UpgradeInv, [UpgradeNext]_upgradeVars
             PROVE  [Promise!TNext]_Promise!tVars
  OBVIOUS
<1>1. CASE \/ \E ok \in BOOLEAN : UpConnect(ok)
           \/ UpDisconnect \/ UpLost \/ SendUpgradeMode \/ StopByUser
           \/ DeviceAnswers \/ DeviceDecides
  BY <1>1, StopIsEnd DEF UpConnect, UpDisconnect, UpLost, SendUpgradeMode, StopByUser,
                         DeviceAnswers, DeviceDecides, StopDownload
<1>2. CASE \E n \in 1..MaxFrames : LoadUpgradeFile(n)
  BY <1>2, LoadIsLoad
<1>3. CASE StartDownload \/ SendNextFrame \/ FinishDownload
  BY <1>3, StartIsBegin, SendIsSend, FinishIsEnd
<1>4. CASE UNCHANGED upgradeVars
  BY <1>4, StopIsEnd DEF upgradeVars, transfer
<1>. QED BY <1>1, <1>2, <1>3, <1>4 DEF UpgradeNext

-----------------------------------------------------------------------------
\* Every variable of the download is of its type; a download that runs has a file.
THEOREM UpgradeTypeCorrect == UpgradeSpec => []UpgradeTypeOK
<1>1. UpgradeInv => UpgradeTypeOK
  BY DEF UpgradeInv
<1>. QED BY <1>1, UpgradeInvariant, PTL

\* "Waiting for the device" is never shown over a decision of the device, but
\* for a verdict between the last frame and the tick after it.
THEOREM WaitingIsTrue == UpgradeSpec => []WaitingMeansUndecided
<1>1. UpgradeInv => WaitingMeansUndecided
  BY DEF UpgradeInv
<1>. QED BY <1>1, UpgradeInvariant, PTL

\* A download implements Transfer: the frames of the loaded file, in order,
\* each once, and a progress they have earned.
THEOREM DownloadIsTransfer == UpgradeSpec => UpgradeIsTransfer
<1>1. UpgradeInit => Promise!TInit
  BY DEF UpgradeInit, Promise!TInit
<1>. QED BY <1>1, UpgradeStepIsTransfer, UpgradeInvariant, PTL
         DEF UpgradeSpec, UpgradeIsTransfer, Promise!TSpec

(* ------------------------------ the aging test ------------------------------ *)

\* Rows are never more than the table has.
AgingInv == AgingTypeOK /\ rows <= table /\ CutoffHolds /\ RowsAreTrue

LEMMA AgingInitially == AgingInit => AgingInv
<1> SUFFICES ASSUME AgingInit PROVE AgingInv
  OBVIOUS
<1>1. agings \in 0..MaxAgings /\ rows \in 0..MaxRows /\ rows <= table
  BY AgingAssumption DEF AgingInit
<1>3. AgingTypeOK
  BY <1>1 DEF AgingInit, AgingTypeOK
<1>2. CutoffHolds /\ RowsAreTrue
  BY Zenon DEF AgingInit, CutoffHolds, RowsAreTrue
<1>. QED BY <1>1, <1>2, <1>3 DEF AgingInv

\* The link, the commands and the timers leave the record alone.
LEMMA TestKeepsAging ==
    ASSUME AgingInv,
           \/ \E ok \in BOOLEAN : AgConnect(ok)
           \/ AgDisconnect \/ AgLost \/ StopAgingByUser
           \/ \E start \in BOOLEAN : KickLegacy(start)
           \/ \E how \in Outcomes :
                 \/ \E onOff \in {"on", "off"} : RunLegacy(how, onOff)
                 \/ \E hours \in {0, 1} : StartAging(hours, how)
                 \/ SendAgingFrame(how) \/ CutDrive(how)
    PROVE  AgingInv'
<1> USE DEF record
<1>1. rows' = rows /\ table' = table /\ miscounted' = miscounted /\ recording' = recording
  BY DEF AgConnect, AgDisconnect, AgLost, StopAgingByUser, KickLegacy, RunLegacy, StartAging,
         SendAgingFrame, CutDrive
<1>2. AgingTypeOK'
  <2> USE <1>1, AgingAssumption DEF AgingInv, AgingTypeOK, test, StopAging
  <2>1. CASE \/ \E ok \in BOOLEAN : AgConnect(ok)
             \/ AgDisconnect \/ AgLost \/ StopAgingByUser
             \/ \E start \in BOOLEAN : KickLegacy(start)
    <3>1. ASSUME NEW ok \in BOOLEAN, AgConnect(ok) PROVE AgingTypeOK'
      BY <3>1 DEF AgConnect
    <3>2. CASE AgDisconnect
      BY <3>2 DEF AgDisconnect
    <3>3. CASE AgLost
      BY <3>3 DEF AgLost
    <3>4. CASE StopAgingByUser
      BY <3>4 DEF StopAgingByUser
    <3>5. ASSUME NEW start \in BOOLEAN, KickLegacy(start) PROVE AgingTypeOK'
      BY <3>5 DEF KickLegacy
    <3> QED BY <2>1, <3>1, <3>2, <3>3, <3>4, <3>5
  <2>2. ASSUME NEW how \in Outcomes, NEW onOff \in {"on", "off"}, RunLegacy(how, onOff)
        PROVE  AgingTypeOK'
    BY <2>2 DEF RunLegacy, Legacy, Outcomes
  <2>3. ASSUME NEW how \in Outcomes, NEW hours \in {0, 1}, StartAging(hours, how)
        PROVE  AgingTypeOK'
    <3>1. /\ streaming' \in BOOLEAN /\ agingRunning' \in BOOLEAN /\ cutoffTimer' \in BOOLEAN
          /\ drive' \in {"on", "off"}
      BY <2>3 DEF StartAging, Legacy, Outcomes
    <3>2. agings' \in 0..MaxAgings /\ cutoffWanted' \in BOOLEAN
      BY <2>3 DEF StartAging
    <3>. QED BY <2>3, <3>1, <3>2 DEF StartAging
  <2>4. ASSUME NEW how \in Outcomes, SendAgingFrame(how) PROVE AgingTypeOK'
    BY <2>4 DEF SendAgingFrame, Legacy, Outcomes
  <2>5. ASSUME NEW how \in Outcomes, CutDrive(how) PROVE AgingTypeOK'
    BY <2>5 DEF CutDrive, Legacy, Outcomes
  <2>. QED BY <2>1, <2>2, <2>3, <2>4, <2>5
<1>3. CutoffHolds'
  <2> USE <1>2 DEF AgingInv, AgingTypeOK, CutoffHolds, test, StopAging
  <2>1. CASE (\E ok \in BOOLEAN : AgConnect(ok)) \/ AgDisconnect \/ StopAgingByUser
    BY <2>1 DEF AgConnect, AgDisconnect, StopAgingByUser
  <2>6. CASE AgLost \/ \E start \in BOOLEAN : KickLegacy(start)
    BY <2>6 DEF AgLost, KickLegacy
  <2>2. ASSUME NEW how \in Outcomes, NEW onOff \in {"on", "off"}, RunLegacy(how, onOff)
        PROVE  CutoffHolds'
    BY <2>2 DEF RunLegacy
  <2>3. ASSUME NEW how \in Outcomes, NEW hours \in {0, 1}, StartAging(hours, how)
        PROVE  CutoffHolds'
    BY <2>3 DEF StartAging
  <2>4. ASSUME NEW how \in Outcomes, SendAgingFrame(how) PROVE CutoffHolds'
    BY <2>4 DEF SendAgingFrame
  <2>5. ASSUME NEW how \in Outcomes, CutDrive(how) PROVE CutoffHolds'
    BY <2>5 DEF CutDrive, Legacy, Outcomes
  <2>. QED BY <2>1, <2>2, <2>3, <2>4, <2>5, <2>6
<1>. QED BY <1>1, <1>2, <1>3 DEF AgingInv, RowsAreTrue

\* The record leaves the test alone, and counts the rows it adds.
LEMMA RecordKeepsAging ==
    ASSUME AgingInv,
           \/ \E n \in 0..MaxRows : \/ EnableRecord(n)
                                    \/ \E inserted \in BOOLEAN : Sample(n, inserted)
           \/ DisableRecord \/ DeleteRecord
    PROVE  AgingInv'
<1> USE DEF test
<1>1. UNCHANGED <<agLink, streaming, test, drive, quiet>>
  BY DEF EnableRecord, Sample, DisableRecord, DeleteRecord
<1>2. CutoffHolds'
  BY <1>1 DEF AgingInv, CutoffHolds
<1>3. /\ rows' \in 0..MaxRows /\ table' \in 0..MaxRows /\ rows' <= table'
      /\ miscounted' \in BOOLEAN /\ recording' \in BOOLEAN
  <2> USE AgingAssumption DEF Ensured, AgingInv, AgingTypeOK
  <2>1. ASSUME NEW n \in 0..MaxRows, EnableRecord(n)
        PROVE  /\ rows' \in 0..MaxRows /\ table' = table /\ rows' <= table
               /\ miscounted' = miscounted /\ recording' \in BOOLEAN
    BY <2>1 DEF EnableRecord
  <2>2. ASSUME NEW n \in 0..MaxRows, Sample(n, TRUE)
        PROVE  /\ rows' \in 0..MaxRows /\ table' \in 0..MaxRows /\ rows' <= table'
               /\ miscounted' \in BOOLEAN /\ recording' = recording
    <3>1. n <= table /\ table < MaxRows /\ table' = table + 1 /\ rows' = n + 1
      BY <2>2 DEF Sample
    <3>2. miscounted' \in BOOLEAN /\ recording' = recording
      BY <2>2 DEF Sample
    <3>. QED BY <3>1, <3>2
  <2>3. ASSUME NEW n \in 0..MaxRows, Sample(n, FALSE)
        PROVE  /\ rows' \in 0..MaxRows /\ table' = table /\ rows' <= table
               /\ miscounted' = miscounted /\ recording' = recording
    BY <2>3 DEF Sample
  <2>4. ASSUME DisableRecord
        PROVE  /\ rows' = rows /\ table' = table
               /\ miscounted' = miscounted /\ recording' = FALSE
    BY <2>4 DEF DisableRecord
  <2>5. ASSUME DeleteRecord
        PROVE  /\ rows' = 0 /\ table' = 0
               /\ miscounted' = FALSE /\ recording' = recording
    BY <2>5 DEF DeleteRecord
  <2>6. CASE \E n \in 0..MaxRows : EnableRecord(n)
    BY <2>1, <2>6
  <2>7. CASE \E n \in 0..MaxRows : Sample(n, TRUE)
    BY <2>2, <2>7
  <2>8. CASE \E n \in 0..MaxRows : Sample(n, FALSE)
    BY <2>3, <2>8
  <2>9. CASE DisableRecord
    BY <2>4, <2>9
  <2>10. CASE DeleteRecord
    BY <2>5, <2>10
  <2>11. (\E n \in 0..MaxRows : \E inserted \in BOOLEAN : Sample(n, inserted)) =>
             \E n \in 0..MaxRows : Sample(n, TRUE) \/ Sample(n, FALSE)
    BY Zenon
  <2>. QED BY <2>6, <2>7, <2>8, <2>9, <2>10, <2>11, Zenon
<1>4. AgingTypeOK'
  BY <1>1, <1>3 DEF AgingInv, AgingTypeOK
<1>5. RowsAreTrue'
  BY DEF EnableRecord, Sample, DisableRecord, DeleteRecord, Ensured,
         AgingInv, AgingTypeOK, RowsAreTrue
<1>. QED BY <1>2, <1>3, <1>4, <1>5 DEF AgingInv

LEMMA AgingStep == AgingInv /\ [AgingNext]_agingVars => AgingInv'
<1>1. ASSUME AgingInv, UNCHANGED agingVars PROVE AgingInv'
  BY <1>1 DEF agingVars, AgingInv, AgingTypeOK, CutoffHolds, RowsAreTrue
<1>. QED BY <1>1, TestKeepsAging, RecordKeepsAging DEF AgingNext

LEMMA AgingInvariant == AgingSpec => []AgingInv
BY AgingInitially, AgingStep, PTL DEF AgingSpec

\* Every variable of the aging test and its record is of its type.
THEOREM AgingTypeCorrect == AgingSpec => []AgingTypeOK
<1>1. AgingInv => AgingTypeOK
  BY DEF AgingInv
<1>. QED BY <1>1, AgingInvariant, PTL

\* The timers are on exactly while their test runs; a drive that was switched
\* off when the time was up stays off.
THEOREM CutoffIsFinal == AgingSpec => []CutoffHolds
<1>1. AgingInv => CutoffHolds
  BY DEF AgingInv
<1>. QED BY <1>1, AgingInvariant, PTL

\* The rows that are shown are those of the table, once they were counted.
THEOREM RowCountIsTrue == AgingSpec => []RowsAreTrue
<1>1. AgingInv => RowsAreTrue
  BY DEF AgingInv
<1>. QED BY <1>1, AgingInvariant, PTL

(* ------------------------------ the repository ------------------------------ *)

RepositoryTypeOK ==
    /\ mysql \in BOOLEAN /\ dbOpen \in BOOLEAN /\ inTx \in BOOLEAN /\ gone \in BOOLEAN
    /\ dbRows \in [Batches -> Nat] /\ txRows \in [Batches -> Nat]
    /\ answer \in [Batches -> {"none", "ok", "failed"}]
    /\ importing \in Batches \cup {Nobody}

\* A batch is whole, in the database or in the transaction, except the one
\* that is being imported; that one is alone in its transaction.
BatchInv ==
    /\ \A b \in Batches : dbRows[b] \in {0, Size[b]} /\ (dbRows[b] > 0 => txRows[b] = 0)
    /\ \A b \in Batches : answer[b] # "none" => txRows[b] \in {0, Size[b]}
    /\ \A b \in Batches : answer[b] = "none" =>
           dbRows[b] = 0 /\ (b # importing => txRows[b] = 0)
ImportInv ==
    importing # Nobody =>
        /\ answer[importing] = "none" /\ importing \in Imports
        /\ txRows[importing] <= Size[importing]
        /\ \A b \in Batches \ {importing} : txRows[b] = 0
        /\ ~gone => inTx
TransactionInv == ~inTx => \A b \in Batches : txRows[b] = 0

RepositoryInv == RepositoryTypeOK /\ BatchInv /\ ImportInv /\ TransactionInv

LEMMA Sizes ==
    ASSUME NEW b \in Batches
    PROVE  Size[b] \in Nat /\ Size[b] > 0 /\ (b \notin Imports => Size[b] = 1)
BY SizeAssumption

LEMMA RepositoryInitially == RepositoryInit => RepositoryInv
<1> SUFFICES ASSUME RepositoryInit PROVE RepositoryInv
  OBVIOUS
<1>1. /\ dbRows = [b \in Batches |-> 0] /\ txRows = [b \in Batches |-> 0]
      /\ answer = [b \in Batches |-> "none"] /\ importing = Nobody
  BY DEF RepositoryInit, None
<1>2. RepositoryTypeOK
  <2>1. /\ dbRows \in [Batches -> Nat] /\ txRows \in [Batches -> Nat]
        /\ answer \in [Batches -> {"none", "ok", "failed"}]
    BY <1>1
  <2>. QED BY <1>1, <2>1, Zenon DEF RepositoryInit, RepositoryTypeOK
<1>3. BatchInv
  BY <1>1 DEF BatchInv
<1>. QED BY <1>1, <1>2, <1>3 DEF RepositoryInv, ImportInv, TransactionInv

Kept == dbRows' = [b \in Batches |-> dbRows[b] + txRows[b]] /\ txRows' = None

\* The open transaction is kept: what it holds is whole.
LEMMA KeepKeeps ==
    ASSUME RepositoryInv, Kept, NEW a \in [Batches -> {"none", "ok", "failed"}], answer' = a,
           \A b \in Batches : txRows[b] \in {0, Size[b]},
           \A b \in Batches : a[b] = "none" => answer[b] = "none" /\ txRows[b] = 0
    PROVE  /\ dbRows' \in [Batches -> Nat] /\ txRows' \in [Batches -> Nat]
           /\ BatchInv' /\ TransactionInv'
<1>1. /\ dbRows' = [b \in Batches |-> dbRows[b] + txRows[b]]
      /\ txRows' = [b \in Batches |-> 0]
  BY DEF Kept, None
<1>2. \A b \in Batches : dbRows[b] \in Nat /\ txRows[b] \in Nat
  BY DEF RepositoryInv, RepositoryTypeOK
<1>3. \A b \in Batches : dbRows'[b] = dbRows[b] + txRows[b] /\ txRows'[b] = 0
  BY <1>1
<1>4. \A b \in Batches : dbRows[b] + txRows[b] \in {0, Size[b]}
  BY <1>2, Sizes DEF RepositoryInv, BatchInv
<1>5. dbRows' \in [Batches -> Nat] /\ txRows' \in [Batches -> Nat]
  BY <1>1, <1>2
<1>6. \A b \in Batches : a[b] = "none" => dbRows'[b] = 0
  BY <1>2, <1>3 DEF RepositoryInv, BatchInv
<1>7. BatchInv'
  BY <1>3, <1>4, <1>6, Sizes DEF BatchInv
<1>. QED BY <1>3, <1>5, <1>7 DEF TransactionInv

\* The open transaction is lost.
LEMMA LoseKeeps ==
    ASSUME RepositoryInv, Lose, NEW a \in [Batches -> {"none", "ok", "failed"}], answer' = a,
           \A b \in Batches : a[b] = "none" => answer[b] = "none"
    PROVE  /\ dbRows' \in [Batches -> Nat] /\ txRows' \in [Batches -> Nat]
           /\ BatchInv' /\ TransactionInv'
<1>1. dbRows' = dbRows /\ txRows' = [b \in Batches |-> 0]
  BY DEF Lose, None
<1>2. \A b \in Batches : txRows'[b] = 0
  BY <1>1
<1>3. BatchInv'
  BY <1>1, <1>2 DEF RepositoryInv, BatchInv
<1>. QED BY <1>1, <1>2, <1>3 DEF RepositoryInv, RepositoryTypeOK, TransactionInv

\* Rows stay where they are, while batches are answered.
LEMMA StayKeeps ==
    ASSUME RepositoryInv, Stay, NEW a \in [Batches -> {"none", "ok", "failed"}], answer' = a,
           \A b \in Batches : a[b] = "none" => answer[b] = "none" /\ (b # importing' => b # importing),
           \A b \in Batches : a[b] # "none" => txRows[b] \in {0, Size[b]}
    PROVE  /\ dbRows' \in [Batches -> Nat] /\ txRows' \in [Batches -> Nat]
           /\ BatchInv' /\ TransactionInv'
<1>1. dbRows' = dbRows /\ txRows' = txRows /\ inTx' = inTx
  BY DEF Stay
<1>2. BatchInv'
  BY <1>1 DEF RepositoryInv, BatchInv
<1>. QED BY <1>1, <1>2 DEF RepositoryInv, RepositoryTypeOK, TransactionInv

\* The batches of AtomicImports that share an open transaction.
Open == {b \in Batches : answer[b] # "none" /\ txRows[b] > 0}

LEMMA Stored ==
    ASSUME RepositoryInv
    PROVE  dbRows = [b \in Batches |-> dbRows[b]] /\ \A b \in Batches : txRows[b] \in Nat
BY DEF RepositoryInv, RepositoryTypeOK

\* A transaction that ends is an end of AtomicImports, kept or lost.
LEMMA KeepEnds ==
    ASSUME RepositoryInv, Kept, answer' = answer,
           \A b \in Batches : answer[b] = "none" => txRows[b] = 0
    PROVE  Atomic!AEnd
<1>1. dbRows' = [b \in Batches |-> dbRows[b] + txRows[b]] /\ txRows' = [b \in Batches |-> 0]
  BY DEF Kept, None
<1>2. ASSUME NEW b \in Batches
      PROVE  dbRows[b] + txRows[b] = IF b \in Open THEN Size[b] ELSE dbRows[b]
  <2>1. txRows[b] \in {0, Size[b]} /\ dbRows[b] \in Nat /\ txRows[b] \in Nat
    BY DEF RepositoryInv, BatchInv, RepositoryTypeOK
  <2>. QED BY <2>1, Sizes DEF RepositoryInv, BatchInv, Open
<1>3. dbRows' = [b \in Batches |-> IF b \in Open THEN Size[b] ELSE dbRows[b]]
  BY <1>1, <1>2
<1>4. Open' = {}
  BY <1>1 DEF Open
<1>. QED BY <1>3, <1>4 DEF Atomic!AEnd, Atomic!Store, Open

LEMMA LoseEnds == ASSUME RepositoryInv, Lose, answer' = answer PROVE Atomic!AEnd
<1>1. dbRows' = dbRows /\ txRows' = [b \in Batches |-> 0]
  BY DEF Lose, None
<1>2. Open' = {}
  BY <1>1 DEF Open
<1>. QED BY <1>1, <1>2, Stored DEF Atomic!AEnd, Atomic!Store, Open

\* A call that fails loses the transaction, or leaves all as it is.
LEMMA LoseFails ==
    ASSUME RepositoryInv, Lose, NEW b \in Batches, Answered(b, "failed")
    PROVE  Atomic!AFail(b)
<1>1. dbRows' = dbRows /\ txRows' = [c \in Batches |-> 0]
  BY DEF Lose, None
<1>2. Open' = {}
  BY <1>1 DEF Open
<1>. QED BY <1>1, <1>2, Stored
         DEF Atomic!AFail, Atomic!Store, Atomic!Answer, Answered, Open

LEMMA StayFails ==
    ASSUME RepositoryInv, UNCHANGED <<dbRows, txRows>>, NEW b \in Batches, txRows[b] = 0,
           Answered(b, "failed")
    PROVE  Atomic!AFail(b)
<1>1. \A c \in Batches : c # b => answer'[c] = answer[c]
  BY DEF Answered, RepositoryInv, RepositoryTypeOK
<1>2. Open' = Open
  BY <1>1 DEF Open
<1>. QED BY <1>2, Stored
         DEF Atomic!AFail, Atomic!Store, Atomic!Answer, Answered, Open

\* What an answer changes.
LEMMA AnswerIs ==
    ASSUME RepositoryInv, NEW b \in Batches, NEW a \in {"ok", "failed"}, Answered(b, a)
    PROVE  /\ answer[b] = "none" /\ answer' \in [Batches -> {"none", "ok", "failed"}]
           /\ answer'[b] = a /\ \A c \in Batches : c # b => answer'[c] = answer[c]
BY DEF Answered, RepositoryInv, RepositoryTypeOK

Steps == RepositoryInv' /\ [Atomic!ANext]_(Atomic!aVars)

\* What moves no row and answers nobody.
LEMMA QuietStep ==
    ASSUME RepositoryInv, UNCHANGED <<mysql, inTx, dbRows, txRows, answer, importing>>,
           dbOpen' \in BOOLEAN, gone' \in BOOLEAN, importing # Nobody => gone' = gone
    PROVE  Steps
<1>1. RepositoryTypeOK'
  BY DEF RepositoryInv, RepositoryTypeOK
<1>2. BatchInv' /\ TransactionInv'
  BY DEF RepositoryInv, BatchInv, TransactionInv
<1>3. ImportInv'
  BY DEF RepositoryInv, ImportInv
<1>4. UNCHANGED Atomic!aVars
  BY DEF Atomic!aVars
<1>. QED BY <1>1, <1>2, <1>3, <1>4 DEF Steps, RepositoryInv

LEMMA QuietSteps ==
    ASSUME RepositoryInv,
           TransactionCallFails \/ UNCHANGED repositoryVars
    PROVE  Steps
<1>1. UNCHANGED <<mysql, inTx, dbRows, txRows, answer, importing>> /\ dbOpen' \in BOOLEAN
  BY DEF TransactionCallFails, repositoryVars, RepositoryInv, RepositoryTypeOK
<1>2. gone' \in BOOLEAN /\ (importing # Nobody => gone' = gone)
  BY DEF TransactionCallFails, repositoryVars, Ready, RepositoryInv, RepositoryTypeOK
<1>. QED BY <1>1, <1>2, QuietStep

LEMMA EndSteps ==
    ASSUME RepositoryInv,
           CloseDatabase \/ RollbackTransaction \/ ServerDrops \/ BeginTransaction
           \/ \E ok \in BOOLEAN : OpenDatabase(ok) \/ CommitTransaction(ok)
    PROVE  Steps
<1>1. answer' = answer /\ importing' = importing /\ mysql' = mysql
  BY DEF CloseDatabase, RollbackTransaction, ServerDrops, BeginTransaction, Begin, CommitTransaction,
         OpenDatabase
<1>2. dbOpen' \in BOOLEAN /\ gone' \in BOOLEAN
  BY DEF CloseDatabase, RollbackTransaction, ServerDrops, BeginTransaction, Begin,
         CommitTransaction, OpenDatabase, RepositoryInv, RepositoryTypeOK
<1>3. CASE Lose
  <2>1. dbRows' \in [Batches -> Nat] /\ txRows' \in [Batches -> Nat] /\ BatchInv' /\ TransactionInv'
    BY <1>1, <1>3, LoseKeeps DEF RepositoryInv, RepositoryTypeOK
  <2>2. inTx' = FALSE /\ \A b \in Batches : txRows'[b] = 0
    BY <1>3 DEF Lose, None
  <2>3. importing # Nobody => gone'
    BY DEF CloseDatabase, RollbackTransaction, ServerDrops, BeginTransaction, CommitTransaction,
           OpenDatabase, Ready
  <2>4. ImportInv'
    BY <1>1, <2>2, <2>3, Sizes DEF RepositoryInv, ImportInv, RepositoryTypeOK
  <2>5. RepositoryTypeOK'
    BY <1>1, <1>2, <2>1, <2>2 DEF RepositoryInv, RepositoryTypeOK
  <2>6. Atomic!ANext
    BY <1>1, <1>3, LoseEnds DEF Atomic!ANext
  <2>. QED BY <2>1, <2>4, <2>5, <2>6 DEF Steps, RepositoryInv
<1>4. CASE Kept /\ Ready
  <2>1. \A b \in Batches : answer[b] = "none" => txRows[b] = 0
    BY <1>4, NobodyAssumption DEF Ready, RepositoryInv, BatchInv
  <2>2. \A b \in Batches : txRows[b] \in {0, Size[b]}
    BY <2>1 DEF RepositoryInv, BatchInv
  <2>3. dbRows' \in [Batches -> Nat] /\ txRows' \in [Batches -> Nat] /\ BatchInv' /\ TransactionInv'
    BY <1>1, <1>4, <2>1, <2>2, KeepKeeps DEF RepositoryInv, RepositoryTypeOK
  <2>4. inTx' \in BOOLEAN
    BY DEF CloseDatabase, RollbackTransaction, ServerDrops, BeginTransaction, Begin,
           CommitTransaction, OpenDatabase, Keep, Lose, Stay, RepositoryInv, RepositoryTypeOK
  <2>5. RepositoryTypeOK'
    BY <1>1, <1>2, <2>3, <2>4 DEF RepositoryInv, RepositoryTypeOK
  <2>6. ImportInv'
    BY <1>1, <1>4 DEF Ready, ImportInv
  <2>7. Atomic!ANext
    BY <1>1, <1>4, <2>1, KeepEnds DEF Atomic!ANext
  <2>. QED BY <2>3, <2>5, <2>6, <2>7 DEF Steps, RepositoryInv
<1>5. CASE Stay /\ Ready
  BY <1>1, <1>2, <1>5, QuietStep DEF Stay, Ready
<1>6. Lose \/ (Kept /\ Ready) \/ (Stay /\ Ready)
  BY DEF CloseDatabase, RollbackTransaction, ServerDrops, BeginTransaction, Begin,
         CommitTransaction, OpenDatabase, Keep, Kept
<1>. QED BY <1>3, <1>4, <1>5, <1>6

(* --------------------------- batches and imports --------------------------- *)

\* A batch fails and takes the transaction with it, or touches nothing.
LEMMA FailSteps ==
    ASSUME RepositoryInv, NEW b \in Batches, Answered(b, "failed"),
           mysql' = mysql, dbOpen' \in BOOLEAN, gone' \in BOOLEAN,
           importing' = Nobody,
           Lose \/ (Stay /\ txRows[b] = 0 /\ Ready)
    PROVE  Steps
<1>1. /\ answer[b] = "none" /\ answer' \in [Batches -> {"none", "ok", "failed"}]
      /\ answer'[b] = "failed" /\ \A c \in Batches : c # b => answer'[c] = answer[c]
  BY AnswerIs
<1>2. inTx' \in BOOLEAN
  BY DEF Lose, Stay, RepositoryInv, RepositoryTypeOK
<1>3. dbRows' \in [Batches -> Nat] /\ txRows' \in [Batches -> Nat] /\ BatchInv' /\ TransactionInv'
  <2>1. CASE Lose
    BY <1>1, <2>1, LoseKeeps
  <2>2. CASE Stay /\ txRows[b] = 0 /\ Ready
    <3>1. \A c \in Batches : answer'[c] # "none" => txRows[c] \in {0, Size[c]}
      BY <1>1, <2>2 DEF RepositoryInv, BatchInv
    <3>. QED BY <1>1, <2>2, <3>1, StayKeeps DEF Ready
  <2>. QED BY <2>1, <2>2
<1>4. RepositoryTypeOK'
  BY <1>1, <1>2, <1>3 DEF RepositoryInv, RepositoryTypeOK
<1>5. Atomic!ANext
  BY LoseFails, StayFails DEF Atomic!ANext, Stay
<1>. QED BY <1>3, <1>4, <1>5 DEF Steps, RepositoryInv, ImportInv

LEMMA FailingSteps ==
    ASSUME RepositoryInv, NEW b \in Batches,
           Refuse(b) \/ ExecuteFails(b) \/ ImportCannotBegin(b)
    PROVE  Steps
<1>1. Answered(b, "failed") /\ mysql' = mysql /\ Ready /\ importing' = Nobody
  BY DEF Refuse, ExecuteFails, ImportCannotBegin, Ready
<1>2. dbOpen' \in BOOLEAN /\ gone' \in BOOLEAN
  BY DEF Refuse, ExecuteFails, ImportCannotBegin, RepositoryInv, RepositoryTypeOK
<1>3. txRows[b] = 0
  BY <1>1, AnswerIs, NobodyAssumption DEF Ready, RepositoryInv, BatchInv
<1>4. Lose \/ Stay
  BY DEF Refuse, ExecuteFails, ImportCannotBegin, Stay
<1>. QED BY <1>1, <1>2, <1>3, <1>4, FailSteps

\* A statement stores its row, alone or in the transaction of its caller.
LEMMA ExecuteSteps == ASSUME RepositoryInv, NEW b \in Batches, ExecuteOk(b) PROVE Steps
<1>1. /\ answer[b] = "none" /\ answer' \in [Batches -> {"none", "ok", "failed"}]
      /\ answer'[b] = "ok" /\ \A c \in Batches : c # b => answer'[c] = answer[c]
  BY AnswerIs DEF ExecuteOk
<1>2. /\ importing = Nobody /\ importing' = Nobody /\ Size[b] = 1
      /\ UNCHANGED <<mysql, dbOpen, inTx, gone>>
  BY Sizes DEF ExecuteOk, Ready
<1>3. dbRows[b] = 0 /\ txRows[b] = 0
  BY <1>1, <1>2, NobodyAssumption DEF RepositoryInv, BatchInv
<1>4. dbRows \in [Batches -> Nat] /\ txRows \in [Batches -> Nat]
  BY DEF RepositoryInv, RepositoryTypeOK
<1>5. CASE inTx
  <2>1. dbRows' = dbRows /\ txRows' = [txRows EXCEPT ![b] = 1]
    BY <1>5 DEF ExecuteOk
  <2>2. txRows' \in [Batches -> Nat] /\ txRows'[b] = 1
        /\ \A c \in Batches : c # b => txRows'[c] = txRows[c]
    BY <1>4, <2>1
  <2>3. RepositoryTypeOK'
    BY <1>1, <1>2, <2>1, <2>2 DEF RepositoryInv, RepositoryTypeOK
  <2>4. BatchInv'
    BY <1>1, <1>2, <1>3, <2>1, <2>2, NobodyAssumption DEF RepositoryInv, BatchInv
  <2>5. ImportInv' /\ TransactionInv'
    BY <1>2, <1>5 DEF ImportInv, TransactionInv
  <2>6. Open' = Open \cup {b}
    BY <1>1, <2>2 DEF Open
  <2>7. Atomic!APend(b)
    BY <2>1, <2>6 DEF Atomic!APend, Atomic!Answer, Answered, ExecuteOk, Open
  <2>. QED BY <2>3, <2>4, <2>5, <2>7 DEF Steps, RepositoryInv, Atomic!ANext
<1>6. CASE ~inTx
  <2>1. txRows' = txRows /\ dbRows' = [dbRows EXCEPT ![b] = 1]
    BY <1>6 DEF ExecuteOk
  <2>2. dbRows' \in [Batches -> Nat] /\ dbRows'[b] = 1
        /\ \A c \in Batches : c # b => dbRows'[c] = dbRows[c]
    BY <1>4, <2>1
  <2>3. RepositoryTypeOK'
    BY <1>1, <1>2, <2>1, <2>2 DEF RepositoryInv, RepositoryTypeOK
  <2>4. BatchInv'
    BY <1>1, <1>2, <1>3, <2>1, <2>2, NobodyAssumption DEF RepositoryInv, BatchInv
  <2>5. ImportInv' /\ TransactionInv'
    BY <1>2, <2>1 DEF ImportInv, TransactionInv, RepositoryInv
  <2>6. Open' = {} /\ Open = {}
    BY <1>6, <2>1 DEF Open, RepositoryInv, TransactionInv
  <2>7. dbRows' = [c \in Batches |-> IF c \in {b} THEN Size[c] ELSE dbRows[c]]
    BY <1>2, <1>4, <2>1
  <2>8. Atomic!ADone(b)
    BY <2>6, <2>7 DEF Atomic!ADone, Atomic!Answer, Atomic!Store, Answered, ExecuteOk, Open
  <2>. QED BY <2>3, <2>4, <2>5, <2>8 DEF Steps, RepositoryInv, Atomic!ANext
<1>. QED BY <1>5, <1>6

\* BEGIN keeps what was open, and the import has the transaction to itself.
LEMMA BeginImportSteps == ASSUME RepositoryInv, NEW b \in Batches, BeginImport(b) PROVE Steps
<1>1. /\ answer' = answer /\ importing' = b /\ inTx' = TRUE /\ Kept
      /\ UNCHANGED <<mysql, dbOpen, gone>> /\ answer[b] = "none" /\ b \in Imports
      /\ importing = Nobody
  BY DEF BeginImport, Begin, Kept, Ready
<1>2. \A c \in Batches : answer[c] = "none" => txRows[c] = 0
  BY <1>1, NobodyAssumption DEF RepositoryInv, BatchInv
<1>3. \A c \in Batches : txRows[c] \in {0, Size[c]}
  BY <1>2 DEF RepositoryInv, BatchInv
<1>4. dbRows' \in [Batches -> Nat] /\ txRows' \in [Batches -> Nat] /\ BatchInv' /\ TransactionInv'
  BY <1>1, <1>2, <1>3, KeepKeeps DEF RepositoryInv, RepositoryTypeOK
<1>5. RepositoryTypeOK'
  BY <1>1, <1>4 DEF RepositoryInv, RepositoryTypeOK
<1>6. \A c \in Batches : txRows'[c] = 0
  BY <1>1 DEF Kept, None
<1>7. ImportInv'
  BY <1>1, <1>6, Sizes DEF ImportInv
<1>8. Atomic!ANext
  BY <1>1, <1>2, KeepEnds DEF Atomic!ANext
<1>. QED BY <1>4, <1>5, <1>7, <1>8 DEF Steps, RepositoryInv

\* A row of an import is nobody's business before the import is answered.
LEMMA RowSteps == ASSUME RepositoryInv, ImportRow PROVE Steps
<1> DEFINE b == importing
<1>1. b \in Batches /\ b # Nobody /\ answer[b] = "none" /\ inTx
  BY DEF ImportRow, Ready, RepositoryInv, RepositoryTypeOK, ImportInv
<1>2. UNCHANGED <<mysql, dbOpen, inTx, gone, dbRows, answer, importing>>
  BY DEF ImportRow
<1>3. /\ txRows' \in [Batches -> Nat] /\ txRows'[b] = txRows[b] + 1 /\ txRows[b] < Size[b]
      /\ \A c \in Batches : c # b => txRows'[c] = txRows[c]
  BY <1>1 DEF ImportRow, RepositoryInv, RepositoryTypeOK
<1> HIDE DEF b
<1>4. RepositoryTypeOK'
  BY <1>2, <1>3 DEF RepositoryInv, RepositoryTypeOK
<1>5. BatchInv'
  BY <1>1, <1>2, <1>3, Sizes DEF RepositoryInv, BatchInv, b
<1>6. txRows'[b] <= Size[b]
  BY <1>1, <1>3, Sizes DEF RepositoryInv, RepositoryTypeOK
<1>7. ImportInv' /\ TransactionInv'
  BY <1>1, <1>2, <1>3, <1>6 DEF RepositoryInv, ImportInv, TransactionInv, b
<1>8. Open' = Open
  BY <1>1, <1>2, <1>3 DEF Open
<1>9. UNCHANGED Atomic!aVars
  BY <1>2, <1>8 DEF Atomic!aVars, Open
<1>. QED BY <1>4, <1>5, <1>7, <1>9 DEF Steps, RepositoryInv

LEMMA RowFailsSteps == ASSUME RepositoryInv, ImportRowFails PROVE Steps
<1>1. importing \in Batches
  BY DEF ImportRowFails, Ready, RepositoryInv, RepositoryTypeOK
<1>2. /\ Lose /\ Answered(importing, "failed") /\ importing' = Nobody
      /\ mysql' = mysql /\ dbOpen' = dbOpen /\ gone' = FALSE
  BY DEF ImportRowFails, Rollback
<1>3. dbOpen \in BOOLEAN
  BY DEF RepositoryInv, RepositoryTypeOK
<1>. QED BY <1>1, <1>2, <1>3, FailSteps

\* The end of an import whose rows are all there, with either answer.
LEMMA CommitSteps == ASSUME RepositoryInv, CommitImport \/ ImportCommitFails PROVE Steps
<1>1. PICK b \in Batches : b = importing
  BY DEF CommitImport, ImportCommitFails, Ready, RepositoryInv, RepositoryTypeOK
<1>2. PICK a \in {"ok", "failed"} : /\ Answered(b, a)
                                    /\ Keep \/ (a = "failed" /\ (Lose \/ Stay))
  BY <1>1 DEF CommitImport, ImportCommitFails
<1>3. /\ b \in Batches /\ txRows[b] = Size[b] /\ importing' = Nobody
      /\ UNCHANGED <<mysql, dbOpen, gone>>
  BY <1>1 DEF CommitImport, ImportCommitFails
<1>4. \A c \in Batches : c # b => txRows[c] = 0
  BY <1>3, <1>1, NobodyAssumption DEF RepositoryInv, ImportInv
<1>5. /\ answer[b] = "none" /\ answer' \in [Batches -> {"none", "ok", "failed"}]
      /\ answer'[b] = a /\ \A c \in Batches : c # b => answer'[c] = answer[c]
  BY <1>2, <1>3, AnswerIs
<1>6. dbRows[b] = 0 /\ dbRows \in [Batches -> Nat] /\ txRows \in [Batches -> Nat]
  BY <1>3, <1>5 DEF RepositoryInv, BatchInv, RepositoryTypeOK
<1>7. \A c \in Batches : txRows[c] \in {0, Size[c]}
  BY <1>3, <1>4
<1>8. \A c \in Batches : answer'[c] = "none" => answer[c] = "none" /\ txRows[c] = 0
  BY <1>2, <1>4, <1>5
<1>9. Open = {}
  BY <1>4, <1>5 DEF Open
<1>10. ImportInv'
  BY <1>3 DEF ImportInv
<1>11. inTx' \in BOOLEAN
  BY <1>2 DEF Keep, Lose, Stay, RepositoryInv, RepositoryTypeOK
<1>12. CASE Keep
  <2>1. Kept
    BY <1>12 DEF Keep, Kept
  <2>2. dbRows' \in [Batches -> Nat] /\ txRows' \in [Batches -> Nat] /\ BatchInv' /\ TransactionInv'
    BY <1>5, <1>7, <1>8, <2>1, KeepKeeps
  <2>3. RepositoryTypeOK'
    BY <1>3, <1>5, <1>11, <2>2 DEF RepositoryInv, RepositoryTypeOK
  <2>4. \A c \in Batches : dbRows[c] + txRows[c] = IF c \in {b} THEN Size[c] ELSE dbRows[c]
    BY <1>3, <1>4, <1>6, Sizes
  <2>5. dbRows' = [c \in Batches |-> IF c \in {b} THEN Size[c] ELSE dbRows[c]]
    BY <2>1, <2>4 DEF Kept
  <2>6. Open' = {}
    BY <2>1 DEF Kept, None, Open
  <2>7. Atomic!ADone(b) \/ Atomic!AFail(b)
    BY <1>2, <1>9, <2>5, <2>6
       DEF Atomic!ADone, Atomic!AFail, Atomic!Answer, Atomic!Store, Answered, Open
  <2>8. Atomic!ANext
    BY <1>3, <2>7, Zenon DEF Atomic!ANext
  <2>. QED BY <1>10, <2>2, <2>3, <2>8 DEF Steps, RepositoryInv
<1>13. CASE a = "failed" /\ Lose
  <2>1. dbOpen' \in BOOLEAN /\ gone' \in BOOLEAN
    BY <1>3 DEF RepositoryInv, RepositoryTypeOK
  <2>. QED BY <1>2, <1>3, <1>13, <2>1, FailSteps
<1>14. CASE a = "failed" /\ Stay
  <2>1. dbRows' = dbRows /\ txRows' = txRows /\ inTx' = inTx
    BY <1>14 DEF Stay
  <2>2. BatchInv'
    BY <1>4, <1>5, <1>7, <2>1 DEF RepositoryInv, BatchInv
  <2>3. RepositoryTypeOK' /\ TransactionInv'
    BY <1>3, <1>5, <1>11, <2>1 DEF RepositoryInv, RepositoryTypeOK, TransactionInv
  <2>4. Open' = Open \cup {b}
    BY <1>3, <1>4, <1>5, <1>9, <1>14, <2>1, Sizes DEF Open
  <2>5. Atomic!APend(b)
    BY <1>2, <2>1, <2>4 DEF Atomic!APend, Atomic!Answer, Answered, Open
  <2>6. Atomic!ANext
    BY <1>3, <2>5, Zenon DEF Atomic!ANext
  <2>. QED BY <1>10, <2>2, <2>3, <2>6 DEF Steps, RepositoryInv
<1>. QED BY <1>2, <1>12, <1>13, <1>14

LEMMA RepositoryStep == RepositoryInv /\ [RepositoryNext]_repositoryVars => Steps
<1> SUFFICES ASSUME RepositoryInv, [RepositoryNext]_repositoryVars PROVE Steps
  OBVIOUS
<1>1. CASE \E b \in Batches : \/ Refuse(b) \/ ExecuteOk(b) \/ ExecuteFails(b)
                              \/ BeginImport(b) \/ ImportCannotBegin(b)
  BY <1>1, FailingSteps, ExecuteSteps, BeginImportSteps
<1>2. CASE ImportRow \/ ImportRowFails \/ CommitImport \/ ImportCommitFails
  BY <1>2, RowSteps, RowFailsSteps, CommitSteps
<1>. QED BY <1>1, <1>2, QuietSteps, EndSteps DEF RepositoryNext

LEMMA RepositoryInvariant == RepositorySpec => []RepositoryInv
<1>1. RepositoryInv /\ [RepositoryNext]_repositoryVars => RepositoryInv'
  BY RepositoryStep DEF Steps
<1>. QED BY <1>1, RepositoryInitially, PTL DEF RepositorySpec

\* Every variable of the repository is of its type.
THEOREM RepositoryTypeCorrect == RepositorySpec => []RepositoryTypeOK
<1>1. RepositoryInv => RepositoryTypeOK
  BY DEF RepositoryInv
<1>. QED BY <1>1, RepositoryInvariant, PTL

\* Whatever callers, failures and the server do: batches are stored whole or
\* not at all, a batch answered with "ok" is stored or shares the end of an
\* open transaction.
THEOREM RepositoryIsAtomic == RepositorySpec => ImportsAreAtomic
<1>1. RepositoryInit => Atomic!AInit
  BY DEF RepositoryInit, None, Atomic!AInit
<1>2. RepositoryInv /\ [RepositoryNext]_repositoryVars => [Atomic!ANext]_(Atomic!aVars)
  BY RepositoryStep DEF Steps
<1>. QED BY <1>1, <1>2, RepositoryInvariant, PTL
         DEF RepositorySpec, ImportsAreAtomic, Atomic!ASpec


(* ------------------------------ data models ------------------------------ *)

Values == [here : BOOLEAN, list : SUBSET Entries]
Telling == [at : {"notify"}, model : Models]
Editing == [at : {"edit"}, model : Models, copy : SUBSET Entries, out : SUBSET Entries,
            in : SUBSET Entries, others : SUBSET Entries]
Dispatching == [at : {"dispatch"}, model : Models, left : Nat]
Calling == [at : {"call"}, model : Models, left : Nat, readers : SUBSET Readers]
Reading == [at : {"read"}, reader : Readers, from : Models, then : Calling]

ModelTypeOK ==
    /\ item \in [Models -> Values]
    /\ job \in [Threads -> {Idle} \cup Telling \cup Editing \cup Dispatching \cup Calling
                       \cup Reading]
    /\ entry \in Models \cup {NoModel}
    /\ hooks \in [Models -> Nat]
    /\ leaving \in [Models -> Nat] /\ listening \subseteq Readers
    /\ seen \in [Readers -> Values]
    /\ missed \in [Readers -> BOOLEAN] /\ overtaken \in [Readers -> BOOLEAN]
    /\ due \in [Models -> SUBSET Entries] /\ clash \in [Models -> SUBSET Entries]

\* The center is subscribed once to its model, and for each call that is still
\* to unsubscribe.
HookInv == \A m \in Models : hooks[m] = (IF m = entry THEN 1 ELSE 0) + leaving[m]

\* The copy of an edit is still the list, but for the entries others wrote.
StillCopy(j, l) == \A e \in Entries \ j.others : e \in j.copy <=> e \in l
CopyInv == \A t \in Threads :
    job[t].at = "edit" => StillCopy(job[t], item[job[t].model].list)

\* A thread that has come to j is still to call reader r about the model of
\* the center; or it has called it, and the reader is still to read.
Calls(j, r) ==
    /\ j.model = entry
    /\ \/ j.at = "notify"
       \/ j.at = "dispatch" /\ j.left > 0
       \/ j.at = "call" /\ (r \in j.readers \/ j.left > 0)
Owes(t, r) == IF job[t].at = "read" THEN job[t].reader = r \/ Calls(job[t].then, r)
              ELSE Calls(job[t], r)

\* A reader has seen the item, or somebody is still to call it.
DueInv == entry # NoModel =>
    \A r \in listening : \/ missed[r] \/ overtaken[r] \/ seen[r] = item[entry]
                         \/ \E t \in Threads : Owes(t, r)

ModelInv == ModelTypeOK /\ HookInv /\ CopyInv /\ DueInv /\ EditsSurvive

LEMMA ModelInitially == ModelInit => ModelInv
<1> SUFFICES ASSUME ModelInit PROVE ModelInv
  OBVIOUS
<1>1. Absent \in Values
  BY DEF Absent, Values
<1>2. ModelTypeOK
  BY <1>1 DEF ModelInit, ModelTypeOK
<1>3. HookInv
  BY NoModelAssumption DEF ModelInit, HookInv
<1>4. CopyInv
  BY DEF ModelInit, CopyInv, StillCopy, Idle
<1>5. DueInv /\ EditsSurvive
  BY DEF ModelInit, DueInv, EditsSurvive, Absent
<1>. QED BY <1>2, <1>3, <1>4, <1>5 DEF ModelInv

\* A thread that does nothing or edits owes no call.
LEMMA EditorOwesNothing ==
    ASSUME ModelInv, entry # NoModel, NEW t \in Threads, NEW r,
           job[t] = Idle \/ job[t].at = "edit"
    PROVE  ~Owes(t, r)
BY DEF Owes, Calls, Idle

\* Every change of an item: what was due is in the list, edits that are under
\* way are overtaken, and if the item has changed the thread owes every call.
LEMMA PutKeepsModels ==
    ASSUME ModelInv, NEW t \in Threads, NEW m \in Models, NEW v \in Values,
           NEW tell \in BOOLEAN, Put(t, m, v, tell), ~tell => v = item[m],
           job[t] = Idle \/ job[t].at = "edit",
           due' \in [Models -> SUBSET Entries], clash' \in [Models -> SUBSET Entries],
           \A n \in Models \ {m} : due'[n] = due[n] /\ clash'[n] = clash[n],
           \A e \in Entries \ clash'[m] : e \in due'[m] <=> e \in v.list
    PROVE  ModelInv'
<1> DEFINE others == {u \in Threads \ {t} : job[u].at = "edit" /\ job[u].model = m}
           changed == Differ(item[m].list, v.list)
<1>1. /\ item' = [item EXCEPT ![m] = v]
      /\ UNCHANGED <<entry, hooks, leaving, listening, seen, overtaken>>
  BY DEF Put, centerVars
<1>2. job'[t] = IF tell THEN [at |-> "notify", model |-> m] ELSE Idle
  BY DEF Put
<1>3. \A u \in others : job'[u] = [job[u] EXCEPT !.others = job[u].others \cup changed]
  BY DEF Put
<1>4. \A u \in Threads \ {t} : u \notin others => job'[u] = job[u]
  BY DEF Put
<1>5. \A u \in others : job[u] \in Editing
  BY DEF ModelInv, ModelTypeOK, Idle, Telling, Dispatching, Calling, Reading
<1>6. \A u \in others : /\ job'[u] \in Editing /\ job'[u].at = "edit"
                        /\ job'[u].model = m /\ job'[u].copy = job[u].copy
                        /\ job'[u].others = job[u].others \cup changed
  <2> TAKE u \in others
  <2>1. job[u] \in Editing /\ job[u].model = m
    BY <1>5
  <2>4. changed \in SUBSET Entries
    BY DEF Differ, ModelInv, ModelTypeOK, Values
  <2> DEFINE j == job[u]
             k == job'[u]
  <2>2. j \in Editing /\ k = [j EXCEPT !.others = j.others \cup changed] /\ j.model = m
    BY <1>3, <2>1
  <2> HIDE DEF j, k, changed
  <2>3. /\ k \in Editing /\ k.at = "edit" /\ k.model = j.model /\ k.copy = j.copy
        /\ k.others = j.others \cup changed
    BY <2>2, <2>4 DEF Editing
  <2>5. k \in Editing /\ k.at = "edit" /\ k.model = m
    BY <2>2, <2>3
  <2>. QED BY <2>3, <2>5, Zenon DEF j, k
<1>7. missed' \in [Readers -> BOOLEAN]
  BY DEF Put, ModelInv, ModelTypeOK
<1>8. ModelTypeOK'
  <2>1. job' \in [Threads -> {Idle} \cup Telling \cup Editing \cup Dispatching \cup Calling
                              \cup Reading]
    <3>1. job' = [u \in Threads |-> job'[u]]
      BY DEF Put
    <3>2. job'[t] \in {Idle} \cup Telling
      BY <1>2 DEF Telling
    <3>3. \A u \in Threads :
              job'[u] \in {Idle} \cup Telling \cup Editing \cup Dispatching \cup Calling
                           \cup Reading
      BY <3>2, <1>4, <1>6 DEF ModelInv, ModelTypeOK
    <3>. QED BY <3>1, <3>3
  <2>. QED BY <1>1, <1>7, <2>1 DEF ModelInv, ModelTypeOK
<1>9. HookInv'
  BY <1>1 DEF ModelInv, HookInv
<1>10. CopyInv'
  <2> SUFFICES ASSUME NEW u \in Threads, job'[u].at = "edit"
               PROVE  StillCopy(job'[u], item'[job'[u].model].list)
    BY DEF CopyInv
  <2>1. u # t
    BY <1>2 DEF Idle
  <2>2. CASE u \in others
    <3>1. StillCopy(job[u], item[m].list)
      BY <2>2 DEF ModelInv, CopyInv
    <3>2. job'[u].model = m /\ item'[m] = v
      BY <1>1, <1>6, <2>2 DEF ModelInv, ModelTypeOK
    <3>3. job'[u].copy = job[u].copy /\ job'[u].others = job[u].others \cup changed
      BY <1>6, <2>2
    <3>. QED BY <3>1, <3>2, <3>3 DEF StillCopy, Differ
  <2>3. CASE u \notin others
    <3>1. job'[u] = job[u] /\ job[u].model # m
      BY <2>1, <2>3, <1>4
    <3>2. job[u] \in Editing
      BY <3>1 DEF ModelInv, ModelTypeOK, Idle, Telling, Dispatching, Calling, Reading
    <3>. QED BY <1>1, <3>1, <3>2 DEF ModelInv, CopyInv, ModelTypeOK, Editing
  <2>. QED BY <2>2, <2>3
<1>11. DueInv'
  <2> SUFFICES ASSUME entry # NoModel, NEW r \in listening
               PROVE  (\/ missed[r] \/ overtaken[r] \/ seen[r] = item[entry]
                       \/ \E u \in Threads : Owes(u, r))'
    BY <1>1 DEF DueInv
  <2>1. CASE tell /\ m = entry
    BY <2>1, <1>1, <1>2 DEF Owes, Calls
  <2>2. CASE ~(tell /\ m = entry)
    <3>1. item'[entry] = item[entry] /\ missed' = missed
      BY <2>2, <1>1 DEF Put, ModelInv, ModelTypeOK
    <3>2. ASSUME NEW u \in Threads, Owes(u, r) PROVE Owes(u, r)'
      <4>1. u # t /\ u \notin others
        BY <3>2, EditorOwesNothing
      <4>. QED BY <4>1, <3>2, <1>1, <1>4 DEF Owes, Calls
    <3>. QED BY <3>1, <3>2, <1>1 DEF ModelInv, DueInv
  <2>. QED BY <2>1, <2>2
<1>12. EditsSurvive'
  BY <1>1 DEF ModelInv, EditsSurvive, ModelTypeOK
<1>. QED BY <1>8, <1>9, <1>10, <1>11, <1>12 DEF ModelInv

LEMMA SetKeepsModels ==
    ASSUME ModelInv, NEW t \in Threads, NEW m \in Models, NEW v \in Values, NEW tell \in BOOLEAN,
           job[t] = Idle, Put(t, m, v, tell), ~tell => v = item[m],
           due' = [due EXCEPT ![m] = v.list], clash' = [clash EXCEPT ![m] = {}]
    PROVE  ModelInv'
<1>1. /\ v.list \in SUBSET Entries
      /\ due \in [Models -> SUBSET Entries] /\ clash \in [Models -> SUBSET Entries]
  BY DEF ModelInv, ModelTypeOK, Values
<1>2. due' \in [Models -> SUBSET Entries] /\ due'[m] = v.list
  BY <1>1
<1>3. clash' \in [Models -> SUBSET Entries]
  BY <1>1
<1>4. \A n \in Models \ {m} : due'[n] = due[n]
  BY <1>1
<1>5. \A n \in Models \ {m} : clash'[n] = clash[n]
  BY <1>1
<1>. QED BY <1>2, <1>3, <1>4, <1>5, PutKeepsModels

LEMMA SettersKeepModels ==
    ASSUME ModelInv, NEW t \in Threads, NEW m \in Models,
           \/ \E v \in GivenLists : SetItem(t, m, v) \/ ResetModel(t, m, List(v))
           \/ RemoveItem(t, m) \/ ResetModel(t, m, Absent)
    PROVE  ModelInv'
<1>1. Absent \in Values /\ Absent.list = {}
  BY DEF Absent, Values
<1>2. \A v \in GivenLists : List(v) \in Values /\ List(v).list = v
  BY DataModelAssumption DEF List, Values
<1>3. CASE \E v \in GivenLists : SetItem(t, m, v)
  BY <1>3, <1>2, SetKeepsModels DEF SetItem
<1>4. CASE \E v \in GivenLists : ResetModel(t, m, List(v))
  BY <1>4, <1>2, SetKeepsModels DEF ResetModel
<1>5. CASE RemoveItem(t, m)
  BY <1>5, <1>1, SetKeepsModels DEF RemoveItem
<1>6. CASE ResetModel(t, m, Absent)
  BY <1>6, <1>1, SetKeepsModels DEF ResetModel
<1>. QED BY <1>3, <1>4, <1>5, <1>6

LEMMA WriteKeepsModels ==
    ASSUME ModelInv, NEW t \in Threads, WriteEdit(t)
    PROVE  ModelInv'
<1> DEFINE m == job[t].model
           v == List((job[t].copy \ job[t].out) \cup job[t].in)
<1>1. job[t] \in Editing
  BY DEF WriteEdit, ModelInv, ModelTypeOK, Idle, Telling, Dispatching, Calling, Reading
<1>2. /\ m \in Models /\ job[t].copy \subseteq Entries /\ job[t].out \subseteq Entries
      /\ job[t].in \subseteq Entries /\ job[t].others \subseteq Entries
  BY <1>1 DEF Editing
<1>3. v \in Values /\ v.list = (job[t].copy \ job[t].out) \cup job[t].in
  BY <1>2 DEF List, Values
<1>4. /\ Put(t, m, v, item[m] # v)
      /\ due' = [due EXCEPT ![m] = (due[m] \ job[t].out) \cup job[t].in]
      /\ clash' = [clash EXCEPT ![m] = (clash[m] \cup job[t].others) \ (job[t].out \cup job[t].in)]
      /\ job[t].at = "edit"
  BY DEF WriteEdit
<1>5. /\ due' \in [Models -> SUBSET Entries] /\ clash' \in [Models -> SUBSET Entries]
      /\ \A n \in Models \ {m} : due'[n] = due[n] /\ clash'[n] = clash[n]
  BY <1>2, <1>4 DEF ModelInv, ModelTypeOK
<1>6. /\ due'[m] = (due[m] \ job[t].out) \cup job[t].in
      /\ clash'[m] = (clash[m] \cup job[t].others) \ (job[t].out \cup job[t].in)
  BY <1>2, <1>4 DEF ModelInv, ModelTypeOK
<1>7. \A e \in Entries \ job[t].others : e \in job[t].copy <=> e \in item[m].list
  BY <1>4 DEF ModelInv, CopyInv, StillCopy
<1>8. \A e \in Entries \ clash[m] : e \in due[m] <=> e \in item[m].list
  BY <1>2 DEF ModelInv, EditsSurvive
<1>9. \A e \in Entries \ clash'[m] : e \in due'[m] <=> e \in v.list
  BY <1>3, <1>6, <1>7, <1>8
<1>. HIDE DEF m, v
<1>. QED BY <1>2, <1>3, <1>4, <1>5, <1>9, PutKeepsModels

\* A thread goes on: its own job changes, and nothing else but what was seen.
LEMMA ReadKeepsModels ==
    ASSUME ModelInv, NEW t \in Threads, NEW m \in Models, NEW less \in SUBSET Entries,
           NEW more \in SUBSET Entries, ReadForEdit(t, m, less, more)
    PROVE  ModelInv'
<1> DEFINE j == [at |-> "edit", model |-> m, copy |-> item[m].list,
                 out |-> less, in |-> more, others |-> {}]
<1>1. /\ job' = [job EXCEPT ![t] = j] /\ job[t] = Idle
      /\ UNCHANGED <<item, entry, hooks, leaving, listening, seen, missed, overtaken, due, clash>>
  BY DEF ReadForEdit, centerVars
<1>2. item[m].list \subseteq Entries
  BY DEF ModelInv, ModelTypeOK, Values
<1>3. j \in Editing
  BY <1>2 DEF Editing
<1>4. ModelTypeOK' /\ HookInv' /\ EditsSurvive'
  BY <1>1, <1>3 DEF ModelInv, ModelTypeOK, HookInv, EditsSurvive
<1>5. CopyInv'
  BY <1>1 DEF ModelInv, ModelTypeOK, CopyInv, StillCopy
<1>6. DueInv'
  <2> SUFFICES ASSUME entry # NoModel, NEW r \in listening, NEW u \in Threads, Owes(u, r)
               PROVE  Owes(u, r)'
    BY <1>1 DEF ModelInv, DueInv
  <2>1. u # t
    BY <1>1, EditorOwesNothing
  <2>. QED BY <1>1, <2>1 DEF Owes, Calls, ModelInv, ModelTypeOK
<1>. QED BY <1>4, <1>5, <1>6 DEF ModelInv

LEMMA TellingKeepsModels ==
    ASSUME ModelInv, NEW t \in Threads,
           CopyHooks(t) \/ CopyReaders(t) \/ CallReader(t) \/ ReadItem(t)
    PROVE  ModelInv'
<1>1. UNCHANGED <<item, entry, hooks, leaving, listening, missed, due, clash>>
  BY DEF CopyHooks, CopyReaders, CallReader, ReadItem, centerVars
<1>2. job[t].at \in {"notify", "dispatch", "call", "read"}
  BY DEF CopyHooks, CopyReaders, CallReader, ReadItem
<1>3. PICK j : job' = [job EXCEPT ![t] = j]
  BY DEF CopyHooks, CopyReaders, CallReader, ReadItem, Go
<1>4. /\ j \in {Idle} \cup Dispatching \cup Calling \cup Reading
      /\ seen' \in [Readers -> Values] /\ overtaken' \in [Readers -> BOOLEAN]
      /\ \A r \in listening :
             \/ seen'[r] = seen[r] /\ overtaken'[r] = overtaken[r]
             \/ overtaken'[r] \/ seen'[r] = item[entry]
      /\ entry # NoModel => \A r \in listening : Owes(t, r) =>
             overtaken'[r] \/ seen'[r] = item[entry] \/ Owes(t, r)'
  <2>0. job'[t] = j
    BY <1>3 DEF ModelInv, ModelTypeOK
  <2>1. CASE CopyHooks(t)
    <3>1. job[t] \in Telling
      BY <2>1 DEF CopyHooks, ModelInv, ModelTypeOK, Idle, Editing, Dispatching, Calling, Reading
    <3>2. job[t].model \in Models
      BY <3>1 DEF Telling
    <3>3. j = [at |-> "dispatch", model |-> job[t].model, left |-> hooks[job[t].model]]
      BY <2>0, <2>1 DEF CopyHooks, Go, ModelInv, ModelTypeOK
    <3>4. j \in Dispatching
      BY <3>2, <3>3 DEF Dispatching, ModelInv, ModelTypeOK
    <3>5. job[t].model = entry => j.left > 0
      BY <3>2, <3>3 DEF ModelInv, ModelTypeOK, HookInv
    <3>6. seen' = seen /\ overtaken' = overtaken
      BY <2>1 DEF CopyHooks
    <3>7. \A r \in listening : Owes(t, r) => Owes(t, r)'
      BY <1>1, <2>0, <2>1, <3>3, <3>5 DEF Owes, Calls, CopyHooks
    <3>. QED BY <3>4, <3>6, <3>7 DEF ModelInv, ModelTypeOK
  <2>2. CASE CopyReaders(t)
    <3>1. job[t] \in Dispatching
      BY <2>2 DEF CopyReaders, ModelInv, ModelTypeOK, Idle, Editing, Telling, Calling, Reading
    <3>2. job[t].model \in Models /\ job[t].left \in Nat /\ job[t].at = "dispatch"
      BY <3>1 DEF Dispatching
    <3>3. j = IF job[t].left = 0 THEN Idle
              ELSE [at |-> "call", model |-> job[t].model, left |-> job[t].left - 1,
                    readers |-> listening]
      BY <2>0, <2>2 DEF CopyReaders, Go, ModelInv, ModelTypeOK
    <3>4. j \in {Idle} \cup Calling
      BY <3>2, <3>3 DEF Calling, ModelInv, ModelTypeOK
    <3>6. seen' = seen /\ overtaken' = overtaken
      BY <2>2 DEF CopyReaders
    <3>7. \A r \in listening : Owes(t, r) => Owes(t, r)'
      BY <1>1, <2>0, <3>2, <3>3 DEF Owes, Calls
    <3>. QED BY <3>4, <3>6, <3>7 DEF ModelInv, ModelTypeOK
  <2>3. CASE CallReader(t)
    <3>1. job[t] \in Calling
      BY <2>3 DEF CallReader, ModelInv, ModelTypeOK, Idle, Editing, Telling, Dispatching, Reading
    <3>2. /\ job[t].model \in Models /\ job[t].left \in Nat /\ job[t].at = "call"
          /\ job[t].readers \subseteq Readers
      BY <3>1 DEF Calling
    <3>5. seen' = seen /\ overtaken' = overtaken
      BY <2>3 DEF CallReader
    <3>3. CASE job[t].readers = {}
      <4>1. j = [at |-> "dispatch", model |-> job[t].model, left |-> job[t].left]
        BY <2>0, <2>3, <3>3 DEF CallReader, Go, ModelInv, ModelTypeOK
      <4>2. j \in Dispatching
        BY <3>2, <4>1 DEF Dispatching
      <4>3. \A r \in listening : Owes(t, r) => Owes(t, r)'
        BY <1>1, <2>0, <3>2, <3>3, <4>1 DEF Owes, Calls
      <4>. QED BY <3>5, <4>2, <4>3 DEF ModelInv, ModelTypeOK
    <3>4. CASE job[t].readers # {}
      <4>1. PICK q \in job[t].readers :
                Go(t, IF entry = NoModel THEN [job[t] EXCEPT !.readers = job[t].readers \ {q}]
                      ELSE [at |-> "read", reader |-> q, from |-> entry,
                            then |-> [job[t] EXCEPT !.readers = job[t].readers \ {q}]])
        BY <2>3, <3>4 DEF CallReader
      <4> DEFINE rest == [job[t] EXCEPT !.readers = job[t].readers \ {q}]
      <4>2. /\ rest \in Calling /\ rest.at = "call" /\ rest.model = job[t].model
            /\ rest.left = job[t].left /\ rest.readers = job[t].readers \ {q}
        BY <3>1 DEF Calling
      <4>3. j = IF entry = NoModel THEN rest
                ELSE [at |-> "read", reader |-> q, from |-> entry, then |-> rest]
        BY <2>0, <4>1 DEF Go, ModelInv, ModelTypeOK
      <4> HIDE DEF rest
      <4>4. q \in Readers
        BY <3>2, <4>1
      <4>5. j \in Calling \cup Reading
        BY <4>2, <4>3, <4>4 DEF Reading, ModelInv, ModelTypeOK
      <4>6. ASSUME entry # NoModel, NEW r \in listening, Owes(t, r) PROVE Owes(t, r)'
        <5>1. job'[t].at = "read" /\ job'[t].reader = q /\ job'[t].then = rest
          BY <2>0, <4>3, <4>6
        <5>2. r = q \/ Calls(rest, r)
          BY <3>2, <4>2, <4>6 DEF Owes, Calls
        <5>. QED BY <1>1, <5>1, <5>2 DEF Owes, Calls
      <4>. QED BY <3>5, <4>5, <4>6 DEF ModelInv, ModelTypeOK
    <3>. QED BY <3>3, <3>4
  <2>4. CASE ReadItem(t)
    <3>1. job[t] \in Reading
      BY <2>4 DEF ReadItem, ModelInv, ModelTypeOK, Idle, Editing, Telling, Dispatching, Calling
    <3>2. job[t].reader \in Readers /\ job[t].from \in Models /\ job[t].then \in Calling
      BY <3>1 DEF Reading
    <3> DEFINE q == job[t].reader
               m == job[t].from
    <3>3. /\ j = job[t].then /\ job[t].at = "read"
          /\ seen' = [seen EXCEPT ![q] = item[m]]
          /\ overtaken' = [overtaken EXCEPT ![q] = m # entry]
      BY <2>0, <2>4 DEF ReadItem, Go, ModelInv, ModelTypeOK
    <3>4. q \in Readers /\ m \in Models
      BY <3>2
    <3>8. \A r \in listening : Owes(t, r) => r = q \/ Owes(t, r)'
      <4>1. job[t].then.at = "call"
        BY <3>2 DEF Calling
      <4>. QED BY <1>1, <2>0, <3>3, <4>1 DEF Owes, Calls
    <3> HIDE DEF q, m
    <3>5. item[m] \in Values /\ (m # entry) \in BOOLEAN
      BY <3>4 DEF ModelInv, ModelTypeOK
    <3>6. seen' \in [Readers -> Values] /\ overtaken' \in [Readers -> BOOLEAN]
      BY <3>3, <3>4, <3>5 DEF ModelInv, ModelTypeOK
    <3>7. /\ seen'[q] = item[m] /\ overtaken'[q] = (m # entry)
          /\ \A r \in Readers \ {q} : seen'[r] = seen[r] /\ overtaken'[r] = overtaken[r]
      BY <3>3, <3>4 DEF ModelInv, ModelTypeOK
    <3>9. overtaken'[q] \/ seen'[q] = item[entry]
      BY <3>7
    <3>. QED BY <3>2, <3>3, <3>6, <3>7, <3>8, <3>9 DEF ModelInv, ModelTypeOK
  <2>. QED BY <1>2, <2>1, <2>2, <2>3, <2>4
<1>5. ModelTypeOK' /\ HookInv' /\ EditsSurvive'
  BY <1>1, <1>3, <1>4 DEF ModelInv, ModelTypeOK, HookInv, EditsSurvive
<1>6. CopyInv'
  <2>1. j.at # "edit"
    BY <1>4 DEF Idle, Dispatching, Calling, Reading
  <2>. QED BY <1>1, <1>3, <2>1 DEF ModelInv, ModelTypeOK, CopyInv
<1>7. DueInv'
  <2> SUFFICES ASSUME entry # NoModel, NEW r \in listening
               PROVE  (\/ missed[r] \/ overtaken[r] \/ seen[r] = item[entry]
                       \/ \E u \in Threads : Owes(u, r))'
    BY <1>1 DEF DueInv
  <2>1. CASE missed[r] \/ overtaken[r] \/ seen[r] = item[entry]
    BY <2>1, <1>1, <1>4
  <2>2. ASSUME NEW u \in Threads, Owes(u, r)
        PROVE  overtaken'[r] \/ seen'[r] = item[entry] \/ Owes(u, r)'
    <3>1. CASE u = t
      BY <1>4, <2>2, <3>1
    <3>2. CASE u # t
      <4>1. job'[u] = job[u]
        BY <1>3, <3>2 DEF ModelInv, ModelTypeOK
      <4>. QED BY <1>1, <2>2, <4>1 DEF Owes, Calls
    <3>. QED BY <3>1, <3>2
  <2>. QED BY <1>1, <2>1, <2>2 DEF ModelInv, DueInv
<1>. QED BY <1>5, <1>6, <1>7 DEF ModelInv

\* What the center does: who joins, or follows another model, is not expected
\* to have seen anything yet.
LEMMA CenterKeepsModels ==
    ASSUME ModelInv,
           \/ \E m \in Models : RegisterModel(m) \/ LeaveModel(m)
           \/ UnregisterModel
           \/ \E r \in Readers : Listen(r) \/ StopListening(r)
    PROVE  ModelInv'
<1>1. UNCHANGED <<item, job, seen, overtaken, due, clash>>
  BY DEF RegisterModel, LeaveModel, UnregisterModel, Listen, StopListening
<1>2. CopyInv' /\ EditsSurvive'
  BY <1>1 DEF ModelInv, CopyInv, EditsSurvive
<1>3. ASSUME NEW m \in Models, RegisterModel(m) PROVE ModelInv'
  <2>1. /\ entry # m /\ entry' = m /\ missed' = [r \in Readers |-> TRUE]
        /\ hooks' = [n \in Models |-> hooks[n] + (IF n = m THEN 1 ELSE 0)
                                               - (IF n = entry THEN 1 ELSE 0)]
        /\ UNCHANGED <<leaving, listening>>
    BY <1>3 DEF RegisterModel, AllMiss
  <2>2. HookInv'
    <3> SUFFICES ASSUME NEW n \in Models
                 PROVE  hooks'[n] = (IF n = m THEN 1 ELSE 0) + leaving[n]
      BY <2>1 DEF HookInv
    <3>1. hooks[n] = (IF n = entry THEN 1 ELSE 0) + leaving[n] /\ leaving[n] \in Nat
      BY DEF ModelInv, ModelTypeOK, HookInv
    <3>2. hooks'[n] = hooks[n] + (IF n = m THEN 1 ELSE 0) - (IF n = entry THEN 1 ELSE 0)
      BY <2>1
    <3>. QED BY <3>1, <3>2
  <2>3. hooks' \in [Models -> Nat]
    <3>1. ASSUME NEW n \in Models
          PROVE  hooks[n] + (IF n = m THEN 1 ELSE 0) - (IF n = entry THEN 1 ELSE 0) \in Nat
      BY <2>1 DEF ModelInv, ModelTypeOK, HookInv
    <3>. QED BY <2>1, <3>1
  <2>4. ModelTypeOK' /\ DueInv'
    BY <1>1, <2>1, <2>3 DEF ModelInv, ModelTypeOK, DueInv
  <2>. QED BY <1>2, <2>2, <2>4 DEF ModelInv
<1>4. ASSUME NEW m \in Models, LeaveModel(m) PROVE ModelInv'
  <2>1. /\ leaving[m] > 0 /\ leaving' = [leaving EXCEPT ![m] = leaving[m] - 1]
        /\ hooks' = [hooks EXCEPT ![m] = hooks[m] - 1]
        /\ UNCHANGED <<entry, listening, missed>>
    BY <1>4 DEF LeaveModel
  <2>2. HookInv' /\ hooks' \in [Models -> Nat]
    BY <2>1 DEF ModelInv, ModelTypeOK, HookInv
  <2>3. ModelTypeOK' /\ DueInv'
    BY <1>1, <2>1, <2>2 DEF ModelInv, ModelTypeOK, DueInv, Owes, Calls
  <2>. QED BY <1>2, <2>2, <2>3 DEF ModelInv
<1>5. ASSUME UnregisterModel PROVE ModelInv'
  <2>1. /\ entry # NoModel /\ leaving' = [leaving EXCEPT ![entry] = leaving[entry] + 1]
        /\ entry' = NoModel /\ missed' = [r \in Readers |-> TRUE]
        /\ UNCHANGED <<hooks, listening>>
    BY <1>5 DEF UnregisterModel, AllMiss
  <2>2. HookInv'
    BY <2>1, NoModelAssumption DEF ModelInv, ModelTypeOK, HookInv
  <2>3. ModelTypeOK' /\ DueInv'
    BY <1>1, <2>1 DEF ModelInv, ModelTypeOK, DueInv
  <2>. QED BY <1>2, <2>2, <2>3 DEF ModelInv
<1>6. ASSUME NEW r \in Readers, Listen(r) PROVE ModelInv'
  <2>1. /\ listening' = listening \cup {r} /\ missed' = [missed EXCEPT ![r] = TRUE]
        /\ UNCHANGED <<entry, hooks, leaving>>
    BY <1>6 DEF Listen
  <2>2. ModelTypeOK' /\ HookInv'
    BY <1>1, <2>1 DEF ModelInv, ModelTypeOK, HookInv
  <2>3. DueInv'
    BY <1>1, <2>1 DEF ModelInv, ModelTypeOK, DueInv, Owes, Calls
  <2>. QED BY <1>2, <2>2, <2>3 DEF ModelInv
<1>7. ASSUME NEW r \in Readers, StopListening(r) PROVE ModelInv'
  <2>1. listening' = listening \ {r} /\ UNCHANGED <<entry, hooks, leaving, missed>>
    BY <1>7 DEF StopListening
  <2>2. ModelTypeOK' /\ HookInv' /\ DueInv'
    BY <1>1, <2>1 DEF ModelInv, ModelTypeOK, HookInv, DueInv, Owes, Calls
  <2>. QED BY <1>2, <2>2 DEF ModelInv
<1>. QED BY <1>3, <1>4, <1>5, <1>6, <1>7

LEMMA ModelStep == ModelInv /\ [ModelNext]_modelVars => ModelInv'
<1> SUFFICES ASSUME ModelInv, [ModelNext]_modelVars PROVE ModelInv'
  OBVIOUS
<1>1. ASSUME NEW t \in Threads, NEW m \in Models,
             \/ \E v \in GivenLists : SetItem(t, m, v) \/ ResetModel(t, m, List(v))
             \/ RemoveItem(t, m) \/ ResetModel(t, m, Absent)
      PROVE  ModelInv'
  BY <1>1, SettersKeepModels
<1>2. ASSUME NEW t \in Threads, NEW m \in Models,
             \E less, more \in SUBSET Entries : ReadForEdit(t, m, less, more)
      PROVE  ModelInv'
  BY <1>2, ReadKeepsModels
<1>3. ASSUME NEW t \in Threads, WriteEdit(t) \/ CopyHooks(t) \/ CopyReaders(t) \/ CallReader(t)
             \/ ReadItem(t)
      PROVE  ModelInv'
  BY <1>3, WriteKeepsModels, TellingKeepsModels
<1>4. CASE UNCHANGED modelVars
  BY <1>4 DEF modelVars, ModelInv, ModelTypeOK, HookInv, CopyInv,
                 StillCopy, DueInv, Owes, Calls, EditsSurvive
<1>. QED BY <1>1, <1>2, <1>3, <1>4, CenterKeepsModels DEF ModelNext

LEMMA ModelInvariant == ModelSpec => []ModelInv
BY ModelInitially, ModelStep, PTL DEF ModelSpec

\* An edit of a list undoes nothing but what other calls wrote to the very
\* entries between its read and its write; for any threads, models and entries.
THEOREM EditsAreKept == ModelSpec => []EditsSurvive
<1>1. ModelInv => EditsSurvive
  BY DEF ModelInv
<1>. QED BY <1>1, ModelInvariant, PTL

\* When all threads are done, no reader that was told is behind, unless the
\* model it read last was no longer the one of the center.
THEOREM ReadersAreToldLast == ModelSpec => []ReadersCatchUp
<1>1. ModelInv => ReadersCatchUp
  <2> SUFFICES ASSUME ModelInv, \A t \in Threads : job[t] = Idle, entry # NoModel,
                      NEW r \in listening
               PROVE  missed[r] \/ overtaken[r] \/ seen[r] = item[entry]
    BY DEF ReadersCatchUp
  <2>1. \A t \in Threads : ~Owes(t, r)
    BY EditorOwesNothing
  <2>. QED BY <2>1 DEF ModelInv, DueInv
<1>. QED BY <1>1, ModelInvariant, PTL
(* ------------------------------ the turntable ------------------------------ *)

\* Where frames go is settled with the first one, and the counter is that of
\* the last frame, or the one before when that frame was reported as failed.
TurntableInv ==
    /\ linkType \in {"none", "serial", "udp"}
    /\ out \in Seq([counter : 0..255, raw : BOOLEAN, ok : BOOLEAN, to : Hosts \cup {Null}])
    /\ txCounter \in 0..255 /\ remote \in Hosts \cup {Null}
    /\ linkType = "none" => out = <<>>
    /\ linkType = "serial" => remote = named
    /\ linkType = "udp" => remote = IF named # Null THEN named ELSE first
    /\ out # <<>> /\ linkType = "udp" => remote # Null
    /\ out # <<>> => LET last == out[Len(out)]
                     IN  IF last.ok THEN txCounter = last.counter
                         ELSE last.raw \/ last.counter = (txCounter + 1) % 256

LEMMA TurntableInitially == TurntableInit => TurntableInv /\ OneDeviceInOrder
<1> SUFFICES ASSUME TurntableInit PROVE TurntableInv /\ OneDeviceInOrder
  OBVIOUS
<1>1. out = <<>> /\ linkType = "none" /\ txCounter = 0 /\ remote = Null
  BY DEF TurntableInit
<1> QED BY <1>1 DEF TurntableInv, OneDeviceInOrder

LEMMA NewLinkIsEmpty ==
    ASSUME TurntableInv, out' = <<>>, linkType' \in {"none", "serial", "udp"},
           remote' \in Hosts \cup {Null}, linkType' = "serial" => remote' = named',
           linkType' = "udp" => remote' = named' /\ first' = Null, UNCHANGED txCounter
    PROVE  TurntableInv' /\ OneDeviceInOrder'
BY DEF TurntableInv, OneDeviceInOrder

LEMMA DatagramKeepsDevice ==
    ASSUME TurntableInv, OneDeviceInOrder, NEW sender \in Hosts, Datagram(sender)
    PROVE  TurntableInv' /\ OneDeviceInOrder'
<1>1. /\ linkType = "udp" /\ UNCHANGED <<linkType, txCounter, named, out>>
      /\ remote' = IF remote = Null THEN sender ELSE remote
      /\ first' = IF first = Null THEN sender ELSE first
  BY DEF Datagram, Addressee
<1>2. remote = IF named # Null THEN named ELSE first
  BY <1>1 DEF TurntableInv
<1>3. remote' = IF named' # Null THEN named' ELSE first'
  BY <1>1, <1>2
<1>4. remote # Null => remote' = remote
  BY <1>1
<1>5. TurntableInv'
  BY <1>1, <1>3, <1>4 DEF TurntableInv
<1>6. out = <<>> \/ first' = first \/ named # Null
  BY <1>1, <1>2 DEF TurntableInv
<1>7. out = <<>> => DOMAIN out = {} /\ ~(Len(out) >= 1)
  OBVIOUS
<1>8. OneDeviceInOrder'
  BY <1>1, <1>6, <1>7 DEF OneDeviceInOrder
<1> QED BY <1>5, <1>8

LEMMA FrameKeepsOrder ==
    ASSUME TurntableInv, OneDeviceInOrder, NEW counter \in 0..255, NEW bare \in BOOLEAN,
           NEW ok \in BOOLEAN, SendFrame(counter, bare, ok),
           bare \/ counter = (txCounter + 1) % 256
    PROVE  TurntableInv' /\ OneDeviceInOrder'
<1> DEFINE frame == [counter |-> counter, raw |-> bare, ok |-> ok, to |-> remote]
           n == Len(out)
           Frame == [counter : 0..255, raw : BOOLEAN, ok : BOOLEAN, to : Hosts \cup {Null}]
<1>1. /\ linkType = "serial" \/ (linkType = "udp" /\ remote # Null)
      /\ out' = Append(out, frame) /\ txCounter' = IF ok THEN counter ELSE txCounter
      /\ UNCHANGED <<linkType, remote, named, first>>
  BY DEF SendFrame
<1>2. /\ n \in Nat /\ DOMAIN out = 1..n /\ DOMAIN out' = 1..(n + 1) /\ Len(out') = n + 1
      /\ out' # <<>> /\ out'[n + 1] = frame /\ \A i \in 1..n : out'[i] = out[i]
  BY <1>1 DEF TurntableInv
<1>3. remote \in Hosts \cup {Null}
  BY DEF TurntableInv
<1>4. frame \in Frame
  BY <1>3
<1>5. out' \in Seq(Frame)
  BY <1>1, <1>4 DEF TurntableInv
<1>6. out'[Len(out')] = frame
  BY <1>2
<1>7. TurntableInv'
  BY <1>1, <1>2, <1>5, <1>6 DEF TurntableInv
<1>8. frame.to = (IF named # Null \/ linkType = "serial" THEN named ELSE first)
  BY <1>1 DEF TurntableInv
<1>9. ASSUME NEW i \in DOMAIN out'
      PROVE  out'[i].to = (IF named # Null \/ linkType = "serial" THEN named ELSE first)
  BY <1>2, <1>8 DEF OneDeviceInOrder
<1>10. ASSUME NEW i \in 1..(Len(out') - 1)
       PROVE  \/ out'[i + 1].raw
              \/ out'[i + 1].counter = (out'[i].counter + 1) % 256
              \/ ~out'[i].ok /\ (out'[i].raw \/ out'[i + 1].counter = out'[i].counter)
  <2>1. CASE i < n
    <3>1. i \in 1..(n - 1) /\ i + 1 \in 1..n /\ out'[i] = out[i] /\ out'[i + 1] = out[i + 1]
      BY <1>2, <2>1
    <3> QED BY <3>1 DEF OneDeviceInOrder
  <2>2. CASE i = n
    <3>1. out'[i] = out[n] /\ out'[i + 1] = frame /\ out # <<>>
      BY <1>2, <2>2
    <3>2. IF out[n].ok THEN txCounter = out[n].counter
          ELSE out[n].raw \/ out[n].counter = (txCounter + 1) % 256
      BY <3>1 DEF TurntableInv
    <3> QED BY <3>1, <3>2
  <2>3. i < n \/ i = n
    <3>1. n \in Nat /\ Len(out') = n + 1
      BY <1>2
    <3> QED BY <3>1
  <2> QED BY <2>1, <2>2, <2>3, Zenon
<1>11. OneDeviceInOrder'
  BY <1>1, <1>9, <1>10 DEF OneDeviceInOrder
<1> QED BY <1>7, <1>11

(* All frames of a connection go to one device, and it can tell them apart. *)
THEOREM TurntableHearsInOrder == TurntableSpec => []OneDeviceInOrder
<1> DEFINE Inv == TurntableInv /\ OneDeviceInOrder
<1>1. ASSUME Inv, [TurntableNext]_turntableVars PROVE Inv'
  <2>1. CASE TtDisconnect \/ TtConnectSerial
    BY <1>1, <2>1, NewLinkIsEmpty DEF TtDisconnect, TtConnectSerial
  <2>2. ASSUME NEW host \in Hosts \cup {Null}, TtConnectUdp(host) PROVE Inv'
    BY <1>1, <2>2, NewLinkIsEmpty DEF TtConnectUdp
  <2>3. ASSUME NEW sender \in Hosts, Datagram(sender) PROVE Inv'
    BY <1>1, <2>3, DatagramKeepsDevice
  <2>4. ASSUME NEW ok \in BOOLEAN, SendTurntable(ok) PROVE Inv'
    <3>0. txCounter \in 0..255
      BY <1>1 DEF TurntableInv
    <3>1. (txCounter + 1) % 256 \in 0..255
      BY <3>0, SMT
    <3>2. PICK next \in 0..255 : next = (txCounter + 1) % 256
      BY <3>1
    <3>3. SendFrame(next, FALSE, ok)
      BY <2>4, <3>2 DEF SendTurntable
    <3>4. TurntableInv /\ OneDeviceInOrder /\ FALSE \in BOOLEAN
      BY <1>1
    <3> QED BY <3>2, <3>3, <3>4, FrameKeepsOrder
  <2>5. ASSUME NEW ok \in BOOLEAN, NEW counter \in RawCounters, SendRaw(counter, ok) PROVE Inv'
    BY <1>1, <2>5, FrameKeepsOrder, TurntableAssumption DEF SendRaw
  <2>6. CASE UNCHANGED turntableVars
    BY <1>1, <2>6 DEF TurntableInv, OneDeviceInOrder, turntableVars
  <2> QED BY <1>1, <2>1, <2>2, <2>3, <2>4, <2>5, <2>6 DEF TurntableNext
<1> QED BY <1>1, TurntableInitially, PTL DEF TurntableSpec

(* ------------------------------- the settings ------------------------------- *)

\* What is read of the bytes of a number is the number.
LEMMA WordIsRead ==
    ASSUME NEW v \in Nat, v \div 256 < 256, NEW order \in Orders
    PROVE  IntOf(IntBytes(v, 2, order), order) = v
<1> DEFINE b == IntBytes(v, 2, order)
<1>1. Len(b) = 2 /\ b[1] = (v \div Weights[Place(1, 2, order)]) % 256
                 /\ b[2] = (v \div Weights[Place(2, 2, order)]) % 256
  BY DEF IntBytes
<1>2. v = (v % 256) + 256 * ((v \div 256) % 256)
  OBVIOUS
<1>3. CASE order = "little"
  <2>1. b[1] = v % 256 /\ b[2] = (v \div 256) % 256
    BY <1>1, <1>3 DEF Weights, Place
  <2> HIDE DEF b
  <2>2. IntOf(b, order) = b[1] + 256 * b[2] + 65536 * 0 + 16777216 * 0
    BY <1>1, <1>3 DEF IntOf, Place
  <2>3. IntOf(b, order) = v
    BY <1>2, <2>1, <2>2
  <2> QED BY <2>3 DEF b
<1>4. CASE order = "big"
  <2>1. b[2] = v % 256 /\ b[1] = (v \div 256) % 256
    BY <1>1, <1>4 DEF Weights, Place
  <2> HIDE DEF b
  <2>2. IntOf(b, order) = b[2] + 256 * b[1] + 65536 * 0 + 16777216 * 0
    BY <1>1, <1>4 DEF IntOf, Place
  <2>3. IntOf(b, order) = v
    BY <1>2, <2>1, <2>2
  <2> QED BY <2>3 DEF b
<1> QED BY <1>3, <1>4 DEF Orders

LEMMA FourDigits ==
    ASSUME NEW v \in Nat, v \div 16777216 < 256
    PROVE  v = (v % 256) + 256 * ((v \div 256) % 256) + 65536 * ((v \div 65536) % 256)
               + 16777216 * ((v \div 16777216) % 256)
OBVIOUS

LEMMA LongIsRead ==
    ASSUME NEW v \in Nat, v \div 16777216 < 256, NEW order \in Orders
    PROVE  IntOf(IntBytes(v, 4, order), order) = v
<1> DEFINE b == IntBytes(v, 4, order)
           digit(i) == (v \div Weights[i]) % 256
<1>1. /\ Len(b) = 4
      /\ b[1] = digit(Place(1, 4, order)) /\ b[2] = digit(Place(2, 4, order))
      /\ b[3] = digit(Place(3, 4, order)) /\ b[4] = digit(Place(4, 4, order))
  BY DEF IntBytes
<1>2. v = digit(1) + 256 * digit(2) + 65536 * digit(3) + 16777216 * digit(4)
  BY FourDigits DEF Weights
<1> HIDE DEF b, digit
<1>3. CASE order = "little"
  <2>1. b[1] = digit(1) /\ b[2] = digit(2) /\ b[3] = digit(3) /\ b[4] = digit(4)
    BY <1>1, <1>3 DEF Place
  <2>2. IntOf(b, order) = b[1] + 256 * b[2] + 65536 * b[3] + 16777216 * b[4]
    BY <1>1, <1>3 DEF IntOf, Place
  <2> QED BY <1>2, <2>1, <2>2 DEF b
<1>4. CASE order = "big"
  <2>1. b[4] = digit(1) /\ b[3] = digit(2) /\ b[2] = digit(3) /\ b[1] = digit(4)
    BY <1>1, <1>4 DEF Place
  <2>2. IntOf(b, order) = b[4] + 256 * b[3] + 65536 * b[2] + 16777216 * b[1]
    BY <1>1, <1>4 DEF IntOf, Place
  <2> QED BY <1>2, <2>1, <2>2 DEF b
<1> QED BY <1>3, <1>4 DEF Orders

\* Where the j-th byte of the i-th number of a list is.
LEMMA PlaceInList ==
    ASSUME NEW width \in {2, 4}, NEW n \in Nat, NEW i \in 1..n, NEW j \in 1..width
    PROVE  LET k == (i - 1) * width + j
           IN  k \in 1..(n * width) /\ (k - 1) \div width = i - 1 /\ (k - 1) % width = j - 1
<1>1. CASE width = 2
  <2>1. j \in 1..2
    BY <1>1
  <2>2. LET k == (i - 1) * 2 + j
        IN  k \in 1..(n * 2) /\ (k - 1) \div 2 = i - 1 /\ (k - 1) % 2 = j - 1
    BY <2>1
  <2> QED BY <1>1, <2>2
<1>2. CASE width = 4
  <2>1. j \in 1..4
    BY <1>2
  <2>2. LET k == (i - 1) * 4 + j
        IN  k \in 1..(n * 4) /\ (k - 1) \div 4 = i - 1 /\ (k - 1) % 4 = j - 1
    BY <2>1
  <2> QED BY <1>2, <2>2
<1> QED BY <1>1, <1>2

LEMMA WholeNumbers ==
    ASSUME NEW n \in Nat, NEW width \in {2, 4}
    PROVE  (n * width) \div width = n /\ (n >= 1 => n * width # 1)
<1>1. CASE width = 2
  <2>1. (n * 2) \div 2 = n
    OBVIOUS
  <2> QED BY <1>1, <2>1
<1>2. CASE width = 4
  <2>1. (n * 4) \div 4 = n
    OBVIOUS
  <2> QED BY <1>2, <2>1
<1> QED BY <1>1, <1>2

LEMMA ListIsRead ==
    ASSUME NEW values \in Seq(Nat), NEW width \in {2, 4}, NEW order \in Orders,
           \A i \in DOMAIN values : values[i] \div Weights[width] < 256
    PROVE  LET bytes == ListBytes(values, width, order)
           IN  IntsOf(bytes, width, order) = values /\ Len(bytes) = Len(values) * width
<1> DEFINE n == Len(values)
           b == ListBytes(values, width, order)
           part(i) == [j \in 1..width |-> b[(i - 1) * width + j]]
<1>1. n \in Nat /\ DOMAIN values = 1..n /\ \A i \in 1..n : values[i] \in Nat
  OBVIOUS
<1>2. DOMAIN b = 1..(n * width) /\ n * width \in Nat
  BY <1>1 DEF ListBytes
<1>3. Len(b) = n * width
  BY <1>2, SMTT(30) DEF ListBytes
<1>4. (n * width) \div width = n
  BY <1>1, WholeNumbers
<1>5. ASSUME NEW i \in 1..n PROVE IntOf(part(i), order) = values[i]
  <2>1. ASSUME NEW j \in 1..width
        PROVE  b[(i - 1) * width + j] = IntBytes(values[i], width, order)[j]
    <3> DEFINE k == (i - 1) * width + j
    <3>1. k \in 1..(n * width) /\ (k - 1) \div width = i - 1 /\ (k - 1) % width = j - 1
      <4>1. width \in {2, 4} /\ n \in Nat /\ i \in 1..n /\ j \in 1..width
        BY <1>1
      <4> QED BY <4>1, PlaceInList
    <3>2. ((k - 1) \div width) + 1 = i /\ ((k - 1) % width) + 1 = j
      BY <1>1, <3>1
    <3> HIDE DEF k
    <3>3. b[k] = IntBytes(values[((k - 1) \div width) + 1], width, order)[((k - 1) % width) + 1]
      BY <3>1 DEF ListBytes
    <3>4. b[k] = IntBytes(values[i], width, order)[j]
      BY <3>2, <3>3
    <3> QED BY <3>4 DEF k
  <2>2. part(i) = IntBytes(values[i], width, order)
    <3> DEFINE whole == IntBytes(values[i], width, order)
    <3>1. whole = [j \in 1..width |-> whole[j]]
      BY DEF IntBytes
    <3> HIDE DEF b, whole
    <3>2. \A j \in 1..width : b[(i - 1) * width + j] = whole[j]
      BY <2>1 DEF whole
    <3>3. part(i) = [j \in 1..width |-> whole[j]]
      BY <3>2
    <3> QED BY <3>1, <3>3 DEF whole
  <2>3. values[i] \in Nat /\ values[i] \div Weights[width] < 256
    BY <1>1
  <2>4. CASE width = 2
    BY <2>2, <2>3, <2>4, WordIsRead DEF Weights
  <2>5. CASE width = 4
    BY <2>2, <2>3, <2>5, LongIsRead DEF Weights
  <2> QED BY <2>4, <2>5
<1>6. IntsOf(b, width, order) = [i \in 1..n |-> IntOf(part(i), order)]
  BY <1>3, <1>4 DEF IntsOf
<1> HIDE DEF b, part
<1>7. [i \in 1..n |-> IntOf(part(i), order)] = [i \in 1..n |-> values[i]]
  BY <1>5
<1>8. values = [i \in 1..n |-> values[i]]
  BY <1>1
<1>9. IntsOf(b, width, order) = values
  BY <1>6, <1>7, <1>8
<1> QED BY <1>3, <1>9 DEF b

\* What a write leaves in the sensor is read back as it was meant, in the
\* byte order it was written in, but for the exceptions.
Right(what) ==
    Misread(what) \/ (~IsAck(what.bytes) /\ ValueOf(what.bytes, what.order) = what.meant)

LEMMA WriteIsRight ==
    ASSUME setting \in Settings, byteOrder \in Orders, NEW r \in Requests[setting], Accepts(r)
    PROVE  Right([bytes |-> Content(r), meant |-> Meant(r), form |-> Form(r),
                  order |-> byteOrder])
<1> DEFINE what == [bytes |-> Content(r), meant |-> Meant(r), form |-> Form(r),
                    order |-> byteOrder]
           v == r.values[1]
<1>1. /\ r.values \in Seq(Nat)
      /\ IF setting \in DOMAIN Lists THEN r.as = "list"
         ELSE \/ r.as \in {"plain", "u16"} /\ Len(r.values) = 1
              \/ r.as = "pair" /\ setting = "resolution" /\ Len(r.values) = 2
  BY SettingsAssumption
<1>2. setting = "resolution" \/ setting = "protocol" <=> setting \notin DOMAIN Lists
  BY DEF Settings, Lists
<1>3. ASSUME NEW bytes, Len(bytes) # 1 PROVE ~IsAck(bytes)
  BY <1>3 DEF IsAck
<1>4. CASE r.as = "list"
  <2> DEFINE width == Lists[setting].width
  <2>1. setting \in DOMAIN Lists /\ width \in {2, 4}
    BY <1>1, <1>4 DEF Lists
  <2>2. Form(r) = "list" /\ Content(r) = ListBytes(r.values, width, byteOrder)
    BY <1>4 DEF Form, Content
  <2>3. /\ Len(r.values) \in Nat /\ Len(r.values) >= 1
        /\ \A i \in DOMAIN r.values : r.values[i] \div Weights[width] < 256
    BY <1>1, <1>4, <2>1 DEF Accepts, Lists
  <2> HIDE DEF width
  <2>4. /\ IntsOf(Content(r), width, byteOrder) = r.values
        /\ Len(Content(r)) = Len(r.values) * width
    <3>1. r.values \in Seq(Nat) /\ width \in {2, 4} /\ byteOrder \in Orders
      BY <1>1, <2>1
    <3>2. /\ IntsOf(ListBytes(r.values, width, byteOrder), width, byteOrder) = r.values
          /\ Len(ListBytes(r.values, width, byteOrder)) = Len(r.values) * width
      BY <2>3, <3>1, ListIsRead
    <3> QED BY <2>2, <3>2
  <2>5. ~IsAck(Content(r))
    <3>1. Len(Content(r)) # 1
      BY <2>1, <2>3, <2>4, WholeNumbers
    <3> QED BY <1>3, <3>1
  <2>6. ValueOf(Content(r), byteOrder) = r.values
    BY <1>2, <2>1, <2>4 DEF ValueOf, width
  <2>7. Meant(r) = r.values
    BY <1>2, <2>1 DEF Meant
  <2> QED BY <2>5, <2>6, <2>7 DEF Right
<1>5. CASE Form(r) = "word"
  <2>1. r.as \in {"plain", "u16"} /\ Len(r.values) = 1 /\ v \in Nat /\ v < 65536
        /\ setting \in {"resolution", "protocol"} /\ r.values = <<v>>
    BY <1>1, <1>2, <1>5 DEF Form, Accepts
  <2>2. Content(r) = IntBytes(v, 2, byteOrder)
    BY <1>5 DEF Content, Word
  <2>3. IntOf(Content(r), byteOrder) = v
    <3>1. v \div 256 < 256
      BY <2>1
    <3> QED BY <2>1, <2>2, <3>1, WordIsRead
  <2>4. ~IsAck(Content(r))
    <3>1. Len(Content(r)) = 2
      BY <2>2 DEF IntBytes
    <3> QED BY <1>3, <3>1
  <2>5. CASE setting = "protocol"
    <3>1. ValueOf(Content(r), byteOrder) = <<v>> /\ Meant(r) = <<v>>
      BY <2>1, <2>3, <2>5 DEF ValueOf, Meant
    <3> QED BY <2>4, <3>1 DEF Right
  <2>6. CASE setting = "resolution"
    <3>1. CASE LooksLikePair(Content(r))
      BY <1>5, <2>6, <3>1 DEF Right, Misread
    <3>2. CASE ~LooksLikePair(Content(r))
      <4>1. ValueOf(Content(r), byteOrder) = <<v, v>> /\ Meant(r) = <<v, v>>
        BY <2>1, <2>3, <2>6, <3>2 DEF ValueOf, Meant
      <4> QED BY <2>4, <4>1 DEF Right
    <3> QED BY <3>1, <3>2
  <2> QED BY <2>1, <2>5, <2>6
<1>6. CASE Form(r) = "bytes"
  <2>1. setting \in {"resolution", "protocol"} /\ r.as \in {"pair", "plain"}
    BY <1>1, <1>2, <1>6 DEF Form
  <2>2. CASE setting = "resolution"
    <3>1. Len(Content(r)) = 2
      BY <1>1, <1>6, <2>1, <2>2 DEF Content
    <3>2. CASE LooksLikePair(Content(r)) /\ Content(r) = Meant(r)
      <4>1. ValueOf(Content(r), byteOrder) = Content(r)
        BY <2>2, <3>2 DEF ValueOf
      <4> QED BY <1>3, <3>1, <3>2, <4>1 DEF Right
    <3>3. CASE ~LooksLikePair(Content(r)) \/ Content(r) # Meant(r)
      BY <1>6, <2>2, <3>3 DEF Right, Misread
    <3> QED BY <3>2, <3>3
  <2>3. CASE setting = "protocol"
    <3>1. r.as = "plain" /\ Content(r) = <<v>> /\ Meant(r) = <<v>> /\ v \in Nat
      BY <1>1, <1>2, <1>6, <2>1, <2>3 DEF Content, Meant
    <3>2. IntOf(<<v>>, byteOrder) = v
      BY <3>1 DEF IntOf, Place, Orders
    <3>3. ValueOf(Content(r), byteOrder) = <<v>>
      BY <2>3, <3>1, <3>2 DEF ValueOf
    <3>4. CASE IsAck(<<v>>)
      BY <2>3, <3>1, <3>4 DEF Right, Misread
    <3>5. CASE ~IsAck(<<v>>)
      BY <3>1, <3>3, <3>5 DEF Right
    <3> QED BY <3>4, <3>5
  <2> QED BY <2>1, <2>2, <2>3
<1> QED BY <1>4, <1>5, <1>6 DEF Form

\* A list is one of its elements.
LEMMA OfItsElements ==
    ASSUME NEW T, NEW s \in Seq(T) PROVE s \in Seq({s[i] : i \in 1..Len(s)})
<1> DEFINE U == {s[i] : i \in 1..Len(s)}
<1>1. Len(s) \in Nat /\ s = [i \in 1..Len(s) |-> s[i]] /\ \A i \in 1..Len(s) : s[i] \in U
  OBVIOUS
<1> HIDE DEF U
<1>2. [i \in 1..Len(s) |-> s[i]] \in Seq(U)
  BY <1>1
<1>3. s \in Seq(U)
  BY <1>1, <1>2, Zenon
<1> QED BY <1>3 DEF U

\* What the sensor keeps, and what is under way of it, is right.
SettingInv ==
    /\ setting \in Settings /\ byteOrder \in Orders
    /\ kept = Factory \/ Right(kept)
    /\ \A i \in 1..Len(replies) :
           /\ replies[i].of \in {"read", "write"}
           /\ replies[i].of = "read" => /\ Right(replies[i].what)
                                       /\ replies[i].bytes = replies[i].what.bytes
    /\ replies \in Seq({replies[i] : i \in 1..Len(replies)})
    /\ ReadBackIsWritten

LEMMA SettingInitially == SettingInit => SettingInv
<1> SUFFICES ASSUME SettingInit PROVE SettingInv
  OBVIOUS
<1>1. replies = <<>> /\ kept = Factory /\ answered.what = Factory
      /\ setting \in Settings /\ byteOrder = "little"
  BY DEF SettingInit
<1> QED BY <1>1 DEF SettingInv, ReadBackIsWritten, Orders

\* Another reply is under way.
LEMMA ReplyAdded ==
    ASSUME SettingInv, NEW reply, replies' = Append(replies, reply),
           reply.of \in {"read", "write"},
           reply.of = "read" => Right(reply.what) /\ reply.bytes = reply.what.bytes,
           kept' = Factory \/ Right(kept)',
           UNCHANGED <<setting, byteOrder, shown55, answered>>
    PROVE  SettingInv'
<1> DEFINE n == Len(replies)
<1>1. n \in Nat /\ DOMAIN replies = 1..n
  BY DEF SettingInv
<1>2. /\ Len(replies') = n + 1 /\ replies'[n + 1] = reply
      /\ \A i \in 1..n : replies'[i] = replies[i]
  BY <1>1 DEF SettingInv
<1>3. replies' \in Seq({replies'[i] : i \in 1..Len(replies')})
  <2> DEFINE T == {replies[i] : i \in 1..Len(replies)} \cup {reply}
  <2>1. replies \in Seq(T)
    BY DEF SettingInv
  <2>2. Append(replies, reply) \in Seq(T)
    BY <2>1
  <2> QED BY <2>2, OfItsElements
<1>4. \A what : Right(what)' <=> Right(what)
  BY DEF Right, Misread, ValueOf
<1>5. ASSUME NEW i \in 1..Len(replies')
      PROVE  /\ replies'[i].of \in {"read", "write"}
             /\ replies'[i].of = "read" => /\ Right(replies'[i].what)
                                          /\ replies'[i].bytes = replies'[i].what.bytes
  <2>1. i \in 1..n \/ i = n + 1
    BY <1>1, <1>2
  <2> QED BY <1>2, <2>1 DEF SettingInv
<1>6. ReadBackIsWritten'
  BY DEF SettingInv, ReadBackIsWritten, Misread
<1> QED BY <1>3, <1>4, <1>5, <1>6 DEF SettingInv

LEMMA ReplyKeepsSetting == ASSUME SettingInv, ReplyArrives PROVE SettingInv'
<1> DEFINE reply == Head(replies)
           n == Len(replies)
           T == {replies[i] : i \in 1..n}
<1>1. /\ replies \in Seq(T) /\ n \in Nat /\ n >= 1 /\ reply = replies[1]
      /\ Len(replies') = n - 1 /\ \A i \in 1..(n - 1) : replies'[i] = replies[i + 1]
      /\ replies' \in Seq(T)
  BY DEF SettingInv, ReplyArrives
<1>2. UNCHANGED <<setting, byteOrder, kept>>
  BY DEF ReplyArrives
<1>3. /\ reply.of \in {"read", "write"}
      /\ reply.of = "read" => Right(reply.what) /\ reply.bytes = reply.what.bytes
  BY <1>1 DEF SettingInv
<1>4. \A what : Right(what)' <=> Right(what)
  BY <1>2 DEF Right, Misread, ValueOf
<1>5. ReadBackIsWritten'
  <2>1. CASE reply.of = "read"
    <3>1. answered' = [what |-> reply.what, order |-> byteOrder]
      BY <2>1 DEF ReplyArrives
    <3>2. CASE IsAck(reply.bytes)
      BY <1>2, <1>3, <2>1, <3>1, <3>2 DEF ReadBackIsWritten, Right, Misread
    <3>3. CASE ~IsAck(reply.bytes)
      <4>1. shown55' = ValueOf(reply.bytes, byteOrder)
        BY <2>1, <3>3 DEF ReplyArrives
      <4> QED BY <1>2, <1>3, <2>1, <3>1, <4>1 DEF ReadBackIsWritten, Right, Misread
    <3> QED BY <3>2, <3>3
  <2>2. CASE reply.of # "read"
    <3>1. UNCHANGED <<shown55, answered>>
      BY <2>2 DEF ReplyArrives
    <3> QED BY <1>2, <3>1 DEF SettingInv, ReadBackIsWritten, Misread
  <2> QED BY <2>1, <2>2
<1>6. replies' \in Seq({replies'[i] : i \in 1..Len(replies')})
  BY <1>1, OfItsElements
<1>7. \A i \in 1..Len(replies') : i + 1 \in 1..n /\ replies'[i] = replies[i + 1]
  BY <1>1
<1> QED BY <1>2, <1>4, <1>5, <1>6, <1>7 DEF SettingInv

LEMMA LinkKeepsSetting ==
    ASSUME SettingInv, replies' = <<>>, byteOrder' \in Orders,
           UNCHANGED <<setting, kept, shown55, answered>>
    PROVE  SettingInv'
<1>1. \A what : Right(what)' <=> Right(what)
  BY DEF Right, Misread, ValueOf
<1>2. ReadBackIsWritten'
  BY DEF SettingInv, ReadBackIsWritten, Misread
<1> QED BY <1>1, <1>2 DEF SettingInv

(* The answer to a read shows what was written, but for the exceptions the *)
(* code makes, whatever was written, read and connected in between.        *)
THEOREM SettingsAreReadBack == SettingSpec => []ReadBackIsWritten
<1>1. ASSUME SettingInv, [SettingNext]_settingVars PROVE SettingInv'
  <2>1. ASSUME NEW order \in Orders, NEW ok, ConnectSensor(order, ok) PROVE SettingInv'
    BY <1>1, <2>1, LinkKeepsSetting DEF ConnectSensor
  <2>2. CASE DisconnectSensor
    BY <1>1, <2>2, LinkKeepsSetting DEF DisconnectSensor, SettingInv
  <2>3. ASSUME NEW r \in Requests[setting], NEW taken \in BOOLEAN, WriteSetting(r, taken)
        PROVE  SettingInv'
    <3> DEFINE new == [bytes |-> Content(r), meant |-> Meant(r), form |-> Form(r),
                       order |-> byteOrder]
               reply == [of |-> "write", what |-> kept, bytes |-> <<IF taken THEN 1 ELSE 0>>]
    <3>1. /\ Accepts(r) /\ kept' = IF taken THEN new ELSE kept
          /\ replies' = Append(replies, reply)
          /\ UNCHANGED <<setting, byteOrder, shown55, answered>>
      BY <2>3 DEF WriteSetting
    <3>2. Right(new)
      BY <1>1, <3>1, WriteIsRight DEF SettingInv
    <3> HIDE DEF new
    <3>3. kept' = Factory \/ Right(kept)'
      BY <1>1, <3>1, <3>2 DEF SettingInv, Right, Misread, ValueOf
    <3> QED BY <1>1, <3>1, <3>3, ReplyAdded
  <2>4. CASE ReadSetting
    <3> DEFINE reply == [of |-> "read", what |-> kept, bytes |-> kept.bytes]
    <3>1. /\ kept # Factory /\ replies' = Append(replies, reply)
          /\ UNCHANGED <<setting, byteOrder, kept, shown55, answered>>
      BY <2>4 DEF ReadSetting
    <3>2. Right(kept)
      BY <1>1, <3>1 DEF SettingInv
    <3>3. Right(kept)'
      BY <3>1, <3>2 DEF Right, Misread, ValueOf
    <3> QED BY <1>1, <3>1, <3>2, <3>3, ReplyAdded
  <2>5. CASE ReplyArrives
    BY <1>1, <2>5, ReplyKeepsSetting
  <2>6. CASE UNCHANGED settingVars
    <3>1. UNCHANGED <<setting, byteOrder, kept, replies, shown55, answered>>
      BY <2>6 DEF settingVars
    <3> QED BY <1>1, <3>1 DEF SettingInv, ReadBackIsWritten, Right, Misread, ValueOf
  <2> QED BY <1>1, <2>1, <2>2, <2>3, <2>4, <2>5, <2>6 DEF SettingNext
<1>2. SettingInv => ReadBackIsWritten
  BY DEF SettingInv
<1> QED BY <1>1, <1>2, SettingInitially, PTL DEF SettingSpec

(* ------------------------------- the console ------------------------------- *)

\* Every set of numbers has a least one.
LEMMA LeastNumber ==
    ASSUME NEW S \in SUBSET Nat, S # {}
    PROVE  \E n \in S : \A m \in S : n <= m
<1> DEFINE T == {1..n : n \in S}
           R == StrictSubsetOrdering(Nat)
<1>1. \A n \in Nat : 1..n \in FiniteSubsetsOf(Nat)
  BY FS_Interval DEF FiniteSubsetsOf
<1>2. T \subseteq FiniteSubsetsOf(Nat) /\ T # {}
  BY <1>1
<1>3. IsWellFoundedOn(R, FiniteSubsetsOf(Nat))
  BY FS_StrictSubsetOrderingWellFounded
<1> HIDE DEF T, R
<1>4. \E x \in T : \A y \in T : ~ (<<y, x>> \in R)
  BY <1>2, <1>3, WFMin
<1>5. PICK n \in S : \A m \in S : ~ (<<1..m, 1..n>> \in R)
  BY <1>4 DEF T
<1>6. ASSUME NEW m \in S, m < n PROVE FALSE
  <2>1. 1..m \in SUBSET Nat /\ 1..n \in SUBSET Nat /\ 1..m \subseteq 1..n
        /\ n \in 1..n /\ n \notin 1..m
    BY <1>6
  <2>2. <<1..m, 1..n>> \in R
    BY <2>1 DEF R, StrictSubsetOrdering
  <2>. QED BY <1>5, <2>2
<1>. QED BY <1>6

LEMMA SpecificityType ==
    ASSUME NEW p \in Panels PROVE Specificity(p) \in Nat
<1>1. Cardinality(p.filters) \in Nat
  BY ConsoleAssumption, FS_CardinalityType
<1> QED BY <1>1 DEF Specificity

\* The panels are in a strict total order.
LEMMA PrecedesOrders ==
    /\ \A p \in Panels : ~Precedes(p, p)
    /\ \A p, q \in Panels : p # q => Precedes(p, q) \/ Precedes(q, p)
    /\ \A p, q, r \in Panels : Precedes(p, q) /\ Precedes(q, r) => Precedes(p, r)
<1>1. \A p \in Panels : Specificity(p) \in Nat /\ p.id \in Nat /\ p.order \in Int
  BY SpecificityType, ConsoleAssumption
<1>2. \A p, q \in Panels : p.id = q.id => p = q
  BY ConsoleAssumption
<1> QED BY <1>1, <1>2 DEF Precedes

\* In a finite set of panels every rank is taken.
LEMMA EveryRankIsTaken ==
    ASSUME NEW S, S \subseteq Panels, IsFiniteSet(S), NEW k \in 1..Cardinality(S)
    PROVE  \E p \in S : Cardinality({q \in S : Precedes(q, p)}) = k - 1
<1> DEFINE n == Cardinality(S)
           Before(p) == {q \in S : Precedes(q, p)}
           rank == [p \in S |-> Cardinality(Before(p))]
<1>1. n \in Nat
  BY FS_CardinalityType
<1>2. \A p \in S : Before(p) \subseteq S /\ Before(p) # S
  BY PrecedesOrders
<1>3. ASSUME NEW p \in S PROVE rank[p] \in 0..(n - 1) /\ IsFiniteSet(Before(p))
  <2>1. /\ IsFiniteSet(Before(p)) /\ Cardinality(Before(p)) <= n
        /\ Cardinality(Before(p)) # n /\ Cardinality(Before(p)) \in Nat
    BY <1>2, FS_Subset, FS_CardinalityType
  <2> QED BY <1>1, <2>1
<1>4. ASSUME NEW p \in S, NEW q \in S, Precedes(p, q) PROVE rank[p] < rank[q]
  <2>1. Before(p) \subseteq Before(q) /\ p \in Before(q) /\ p \notin Before(p)
    BY <1>4, PrecedesOrders
  <2>2. IsFiniteSet(Before(q)) /\ Before(p) # Before(q)
    BY <1>3, <2>1
  <2>3. /\ Cardinality(Before(p)) <= Cardinality(Before(q))
        /\ Cardinality(Before(p)) # Cardinality(Before(q))
    BY <2>1, <2>2, FS_Subset
  <2>4. rank[p] \in Nat /\ rank[q] \in Nat
    BY <1>3
  <2> QED BY <2>3, <2>4
<1> HIDE DEF rank, Before
<1>5. \A p \in S : rank[p] \in 0..(n - 1)
  BY <1>3
<1>6. rank \in Injection(S, 0..(n - 1))
  <2>1. rank \in [S -> 0..(n - 1)]
    BY <1>3 DEF rank
  <2>2. ASSUME NEW p \in S, NEW q \in S, rank[p] = rank[q] PROVE p = q
    <3>1. rank[p] \in Nat /\ rank[q] \in Nat
      BY <1>1, <1>5
    <3>2. ~(rank[p] < rank[q]) /\ ~(rank[q] < rank[p])
      BY <2>2, <3>1
    <3> QED BY <1>4, <3>2, PrecedesOrders
  <2>3. IsInjective(rank)
    <3>1. DOMAIN rank = S
      BY DEF rank
    <3> QED BY <2>2, <3>1 DEF IsInjective
  <2> QED BY <2>1, <2>3 DEF Injection
<1>7. IsFiniteSet(0..(n - 1)) /\ Cardinality(0..(n - 1)) = n
  <2>1. 0 \in Int /\ n - 1 \in Int
    BY <1>1
  <2>2. /\ IsFiniteSet(0..(n - 1))
        /\ Cardinality(0..(n - 1)) = IF 0 > n - 1 THEN 0 ELSE n - 1 - 0 + 1
    BY <2>1, FS_Interval
  <2> QED BY <1>1, <2>2
<1>8. rank \in Surjection(S, 0..(n - 1))
  BY <1>6, <1>7, FS_Injection
<1>9. PICK p \in S : rank[p] = k - 1
  BY <1>1, <1>8 DEF Surjection
<1> QED BY <1>9 DEF rank, Before

\* The panels of a device are a list, and all fit it.
LEMMA MatchingFits ==
    ASSUME provided \subseteq Panels, IsFiniteSet(provided), NEW row
    PROVE  Matching(row) \in Seq({p \in provided : \E d \in row : Fits(p, d)})
<1> DEFINE fits == {p \in provided : \E d \in row : Fits(p, d)}
           n == Cardinality(fits)
           At(i) == CHOOSE p \in fits : Cardinality({q \in fits : Precedes(q, p)}) = i - 1
<1>1. fits \subseteq Panels /\ IsFiniteSet(fits)
  BY FS_Subset
<1>2. n \in Nat
  BY <1>1, FS_CardinalityType
<1>3. ASSUME NEW i \in 1..n PROVE At(i) \in fits
  <2>1. \E p \in fits : Cardinality({q \in fits : Precedes(q, p)}) = i - 1
    BY <1>1, EveryRankIsTaken
  <2> QED BY <2>1
<1>4. Matching(row) = [i \in 1..n |-> At(i)]
  BY DEF Matching
<1> HIDE DEF fits, n, At
<1>5. [i \in 1..n |-> At(i)] \in Seq(fits)
  BY <1>2, <1>3
<1> QED BY <1>4, <1>5 DEF fits

\* What the world is like, and the selection: it is the user's choice, unless
\* that was found missing, and all that is shown is its.
ConsoleInv ==
    /\ adapters \subseteq Descriptions
    /\ provided \subseteq Panels /\ IsFiniteSet(provided)
    /\ panelList # <<>> => 1 \in DOMAIN panelList
    /\ picked = NoId \/ astray \/ selectedId = picked
    /\ ConsoleShowsOneDevice

LEMMA NextSelectedIsThere ==
    ASSUME NEW ds, ds \subseteq Descriptions, NEW id
    PROVE  /\ ds = {} => NextSelected(ds, id) = NoId
           /\ ds # {} => NextSelected(ds, id) \in IdsOf(ds)
           /\ id \in IdsOf(ds) => NextSelected(ds, id) = id
<1>1. CASE ds = {}
  BY <1>1 DEF NextSelected, IdsOf
<1>2. CASE ds # {}
  <2>1. IdsOf(ds) \subseteq Nat /\ IdsOf(ds) # {}
    BY <1>2, ConsoleAssumption DEF IdsOf
  <2>2. \E id2 \in IdsOf(ds) : \A m \in IdsOf(ds) : id2 <= m
    BY <2>1, LeastNumber
  <2>3. FirstId(ds) \in IdsOf(ds)
    <3>1. \E id2 \in IdsOf(ds) : \A d \in ds : id2 <= d.id
      BY <2>2 DEF IdsOf
    <3> QED BY <3>1 DEF FirstId
  <2> QED BY <1>2, <2>3 DEF NextSelected
<1> QED BY <1>1, <1>2

\* After a refresh everything shown is of the device that is selected.
LEMMA RefreshShowsOne ==
    ASSUME adapters \subseteq Descriptions, provided \subseteq Panels, IsFiniteSet(provided),
           NEW id, Refresh(id)
    PROVE  /\ selectedId' = NoId <=> selectedRow' = {}
           /\ \A d \in selectedRow' : d.id = selectedId' /\ d \in deviceRows'
           /\ \A i \in DOMAIN panelList' : \E d \in selectedRow' : Fits(panelList'[i], d)
           /\ panelList' # <<>> => 1 \in DOMAIN panelList'
           /\ panelId' \in Ids(panelList') \/ (panelId' = NoId /\ panelList' = <<>>)
           /\ snapshotOf' # Nothing => \E d \in selectedRow' : d.model = snapshotOf'
           /\ id # NoId /\ ~Missing(id) => selectedId' = id
<1>1. /\ selectedId' = NextSelected(adapters, id) /\ deviceRows' = adapters
      /\ selectedRow' = {d \in adapters : d.id = selectedId'}
      /\ panelList' = Matching(selectedRow') /\ panelId' = NextPanel(panelList', panelId)
  BY DEF Refresh
<1>2. selectedId' = NoId <=> selectedRow' = {}
  <2>1. \A d \in adapters : d.id # NoId
    BY ConsoleAssumption
  <2> QED BY <1>1, <2>1, NextSelectedIsThere DEF IdsOf
<1>3. \A i \in DOMAIN panelList' : \E d \in selectedRow' : Fits(panelList'[i], d)
  <2>1. panelList' \in Seq({p \in provided : \E d \in selectedRow' : Fits(p, d)})
    BY <1>1, MatchingFits
  <2> QED BY <2>1
<1>4. /\ panelList' # <<>> => 1 \in DOMAIN panelList'
      /\ panelId' \in Ids(panelList') \/ (panelId' = NoId /\ panelList' = <<>>)
  <2>1. panelList' # <<>> => 1 \in DOMAIN panelList'
    <3>1. panelList' \in Seq({p \in provided : \E d \in selectedRow' : Fits(p, d)})
      BY <1>1, MatchingFits
    <3> QED BY <3>1
  <2> QED BY <1>1, <2>1 DEF NextPanel, Ids
<1>5. snapshotOf' # Nothing => \E d \in selectedRow' : d.model = snapshotOf'
  <2>1. ASSUME ModelOf(selectedRow') # {} PROVE snapshotOf' \in ModelOf(selectedRow')
    BY <2>1 DEF Refresh
  <2>2. ModelOf(selectedRow') = {} => snapshotOf' = Nothing
    BY DEF Refresh
  <2> QED BY <2>1, <2>2 DEF ModelOf
<1>6. id # NoId /\ ~Missing(id) => selectedId' = id
  BY <1>1, NextSelectedIsThere DEF Missing
<1> QED BY <1>1, <1>2, <1>3, <1>4, <1>5, <1>6

LEMMA RefreshKeepsConsole ==
    ASSUME ConsoleInv, RefreshedBy(selectedId), UNCHANGED <<world, picked>>,
           sent' = sent \/ sent' = [to |-> IF Missing(selectedId) THEN NoId ELSE selectedId,
                                    picked |-> picked, astray |-> astray]
    PROVE  ConsoleInv'
<1>1. Refresh(selectedId) /\ astray' = (astray \/ Missing(picked))
  BY DEF RefreshedBy
<1>2. picked = NoId \/ astray' \/ selectedId' = picked
  BY <1>1, RefreshShowsOne DEF ConsoleInv
<1>3. sent'.to \in {NoId, sent'.picked} \/ sent'.astray \/ sent'.picked = NoId
  <2>1. CASE sent' = sent
    BY <2>1 DEF ConsoleInv, ConsoleShowsOneDevice
  <2>2. CASE sent' # sent
    <3>1. /\ sent'.to = IF Missing(selectedId) THEN NoId ELSE selectedId
          /\ sent'.picked = picked /\ sent'.astray = astray
      BY <2>2
    <3> QED BY <3>1 DEF ConsoleInv
  <2> QED BY <2>1, <2>2
<1>4. ConsoleShowsOneDevice'
  BY <1>1, <1>3, RefreshShowsOne DEF ConsoleInv, ConsoleShowsOneDevice
<1> QED BY <1>2, <1>4 DEF ConsoleInv, world

LEMMA SelectKeepsConsole ==
    ASSUME ConsoleInv, NEW id \in IdsOf(Descriptions), SelectDevice(id)
    PROVE  ConsoleInv'
<1>1. picked' = id /\ UNCHANGED <<adapters, provided, sent>>
  BY DEF SelectDevice, world
<1>2. CASE id = selectedId
  <2>1. UNCHANGED shown
    BY <1>2 DEF SelectDevice
  <2> QED BY <1>1, <1>2, <2>1 DEF ConsoleInv, ConsoleShowsOneDevice, shown
<1>3. CASE id # selectedId
  <2>1. Refresh(id) /\ astray' = Missing(id)
    BY <1>3 DEF SelectDevice
  <2>2. id # NoId
    BY ConsoleAssumption DEF IdsOf
  <2>3. astray' \/ selectedId' = id
    BY <2>1, <2>2, RefreshShowsOne DEF ConsoleInv
  <2>4. ConsoleShowsOneDevice'
    BY <1>1, <2>1, RefreshShowsOne DEF ConsoleInv, ConsoleShowsOneDevice
  <2> QED BY <1>1, <2>3, <2>4 DEF ConsoleInv
<1> QED BY <1>2, <1>3

LEMMA ShownUntouched ==
    ASSUME ConsoleInv, UNCHANGED <<shown, picked, astray, sent>>,
           adapters' \subseteq Descriptions, provided' \subseteq Panels, IsFiniteSet(provided')
    PROVE  ConsoleInv'
BY DEF ConsoleInv, ConsoleShowsOneDevice, shown

(* What the console shows is of one device, and a command goes to the one  *)
(* the user chose unless that was found missing since.                     *)
THEOREM ConsoleIsOfOneDevice == ConsoleSpec => []ConsoleShowsOneDevice
<1>1. ConsoleInit => ConsoleInv
  BY FS_EmptySet DEF ConsoleInit, ConsoleInv, ConsoleShowsOneDevice
<1>2. ASSUME ConsoleInv, [ConsoleNext]_consoleVars PROVE ConsoleInv'
  <2>0. adapters \subseteq Descriptions /\ provided \subseteq Panels /\ IsFiniteSet(provided)
    BY <1>2 DEF ConsoleInv
  <2>1. ASSUME NEW d \in Descriptions, RegisterAdapter(d) PROVE ConsoleInv'
    BY <1>2, <2>0, <2>1, ShownUntouched DEF RegisterAdapter
  <2>2. ASSUME NEW id, UnregisterAdapter(id) PROVE ConsoleInv'
    BY <1>2, <2>0, <2>2, ShownUntouched DEF UnregisterAdapter
  <2>3. ASSUME NEW id \in IdsOf(Descriptions), SelectDevice(id) PROVE ConsoleInv'
    BY <1>2, <2>3, SelectKeepsConsole
  <2>4. ASSUME NEW models, ModelsChange(models) PROVE ConsoleInv'
    BY <1>2, <2>0, <2>4, ShownUntouched DEF ModelsChange
  <2>5. ASSUME NEW p \in Panels, ProviderComes(p) PROVE ConsoleInv'
    <3>1. IsFiniteSet(provided \cup {p})
      BY <2>0, FS_AddElement
    <3> QED BY <1>2, <2>0, <2>5, <3>1, ShownUntouched DEF ProviderComes
  <2>6. CASE StartConsole \/ RefreshConsole \/ InvokeCurrent
    BY <1>2, <2>6, RefreshKeepsConsole DEF StartConsole, RefreshConsole, InvokeCurrent
  <2>7. CASE StopConsole
    BY <1>2, <2>0, <2>7, ShownUntouched DEF StopConsole, world
  <2>8. ASSUME NEW id \in Ids(panelList) \cup {NoId}, SelectPanel(id) PROVE ConsoleInv'
    <3>1. /\ panelId' = IF id = NoId THEN NextPanel(panelList, id) ELSE id
          /\ UNCHANGED <<adapters, provided, deviceRows, selectedId, selectedRow, panelList,
                         snapshotOf, picked, astray, sent>>
      BY <2>8 DEF SelectPanel, world
    <3>2. panelId' \in Ids(panelList) \/ (panelId' = NoId /\ panelList = <<>>)
      BY <1>2, <2>8, <3>1 DEF ConsoleInv, NextPanel, Ids
    <3> QED BY <1>2, <3>1, <3>2 DEF ConsoleInv, ConsoleShowsOneDevice, Ids
  <2>9. CASE UNCHANGED consoleVars
    BY <1>2, <2>0, <2>9, ShownUntouched DEF consoleVars, shown
  <2> QED
    BY <1>2, <2>1, <2>2, <2>3, <2>4, <2>5, <2>6, <2>7, <2>8, <2>9 DEF ConsoleNext
<1>3. ConsoleInv => ConsoleShowsOneDevice
  BY DEF ConsoleInv
<1> QED BY <1>1, <1>2, <1>3, PTL DEF ConsoleSpec

(* --------------------------- fusion analysis --------------------------- *)

\* A task that runs started without results, and has those of its stages.
RunInv ==
    running =>
        /\ ~tainted
        /\ ~summary.concluded /\ ~summary.archived
        /\ stage <= 3 => summary.quality = {}
        /\ stage <= 4 => summary.fusion = {}

MemoryFits == ~tainted => FitsData(raw, standard, summary)
DiskFits ==
    \A t \in Tasks \ damaged : FitsData(disk[t].raw, disk[t].standard, disk[t].summary)

MemoryInv == RunInv /\ StageOutputsAreCurrent /\ MemoryFits

DataTypes ==
    /\ raw \subseteq Records /\ filtered \subseteq Records /\ standard \subseteq Records
    /\ summary \in Summary

FlagTypes == running \in BOOLEAN /\ timer \in BOOLEAN /\ dialog \in BOOLEAN /\ tainted \in BOOLEAN

ControlTypes ==
    /\ filter \in Filters
    /\ stage \in 0..6
    /\ running => timer /\ stage < 6 /\ task # 0
    /\ kicks \in 0..MaxKicks

IdTypes == task \in 0..issued /\ issued \in 0..MaxTasks

\* Only a task that has its id has files.
OnlyIssued == \A t \in Tasks : disk[t].raw # {} => t <= issued

StoreTypes == disk \in [Tasks -> Snapshot] /\ damaged \subseteq Tasks

StoreInv == StoreTypes /\ DiskFits /\ OnlyIssued

IInv == DataTypes /\ FlagTypes /\ ControlTypes /\ IdTypes /\ MemoryInv /\ StoreInv

LEMMA NothingIsSummary == NoSummary \in Summary
BY DEF NoSummary, Summary

LEMMA NothingFits ==
  ASSUME NEW r, NEW s
  PROVE  FitsData(r, s, NoSummary)
BY DEF FitsData, NoSummary

\* A new task gets an id that TLC's bound allows; the others keep theirs.
LEMMA EnsureTaskIdStep ==
  ASSUME IdTypes, EnsureTaskId
  PROVE  IdTypes' /\ task' # 0 /\ issued <= issued' /\ issued \in Nat /\ issued' \in Nat
BY TasksAssumption DEF IdTypes, EnsureTaskId, ids

\* Whatever is written of a memory that fits, what is not damaged fits.
LEMMA PersistStep ==
  ASSUME StoreInv, DataTypes', IdTypes', MemoryFits', PersistTaskSnapshot,
         issued' \in Nat, issued <= issued', issued \in Nat
  PROVE  StoreInv'
<1>1. CASE UNCHANGED store
  <2>1. OnlyIssued'
    BY <1>1 DEF StoreInv, OnlyIssued, store, Tasks
  <2> QED BY <1>1, <2>1 DEF StoreInv, StoreTypes, DiskFits, store
<1>2. CASE ~ UNCHANGED store
  <2>1. task' \in Tasks /\ task' # 0
    BY <1>2, TasksAssumption DEF PersistTaskSnapshot, IdTypes, Tasks
  <2> DEFINE Written(opened, whole, i, new, nothing, old) ==
               IF i > opened THEN old ELSE IF i > whole THEN nothing ELSE new
  <2> DEFINE New(opened, whole) ==
               [raw      |-> Written(opened, whole, 1, raw', {}, disk[task'].raw),
                standard |-> Written(opened, whole, 2, standard', {}, disk[task'].standard),
                summary  |-> Written(opened, whole, 3, summary', NoSummary,
                                     disk[task'].summary)]
  <2> DEFINE Writes(opened, whole) ==
          /\ disk' = [disk EXCEPT ![task'] = New(opened, whole)]
          /\ damaged' = IF whole = 3 /\ ~tainted'
                        THEN damaged \ {task'} ELSE damaged \cup {task'}
  <2>2. PICK opened \in 1..3 : \E whole \in 0..opened : Writes(opened, whole)
    BY <1>2, <2>1, Zenon DEF PersistTaskSnapshot
  <2>3. PICK whole \in 0..opened : Writes(opened, whole)
    BY <2>2
  <2>4. Writes(opened, whole)
    BY <2>3
  <2>5. New(opened, whole) \in Snapshot
    <3>1. disk[task'] \in Snapshot
      BY <2>1 DEF StoreInv, StoreTypes
    <3>2. Written(opened, whole, 1, raw', {}, disk[task'].raw) \in SUBSET Records
      BY <3>1 DEF DataTypes, Snapshot
    <3>3. Written(opened, whole, 2, standard', {}, disk[task'].standard) \in SUBSET Records
      BY <3>1 DEF DataTypes, Snapshot
    <3>4. Written(opened, whole, 3, summary', NoSummary, disk[task'].summary) \in Summary
      BY <3>1, NothingIsSummary DEF DataTypes, Snapshot
    <3> HIDE DEF Written
    <3> QED BY <3>2, <3>3, <3>4 DEF Snapshot
  <2>6. StoreTypes'
    BY <2>1, <2>4, <2>5 DEF StoreInv, StoreTypes
  <2>7. DiskFits'
    <3> SUFFICES ASSUME NEW t \in Tasks \ damaged'
                 PROVE  FitsData(disk'[t].raw, disk'[t].standard, disk'[t].summary)
      BY DEF DiskFits, FitsData
    <3>1. CASE t = task'
      <4>1. whole = 3 /\ ~tainted'
        BY <2>4, <3>1
      <4>2. disk'[t] = [raw |-> raw', standard |-> standard', summary |-> summary']
        BY <2>1, <2>4, <3>1, <4>1 DEF StoreInv, StoreTypes
      <4> QED BY <4>1, <4>2 DEF MemoryFits, FitsData
    <3>2. CASE t # task'
      <4>1. disk'[t] = disk[t] /\ t \notin damaged
        BY <2>1, <2>4, <3>2 DEF StoreInv, StoreTypes
      <4> QED BY <4>1 DEF StoreInv, DiskFits
    <3> QED BY <3>1, <3>2
  <2>8. OnlyIssued'
    <3> SUFFICES ASSUME NEW t \in Tasks, disk'[t].raw # {} PROVE t <= issued'
      BY DEF OnlyIssued
    <3>1. CASE t = task'
      BY <3>1 DEF IdTypes
    <3>2. CASE t # task'
      <4>1. disk'[t] = disk[t]
        BY <2>4, <3>2 DEF StoreInv, StoreTypes
      <4> QED BY <4>1 DEF StoreInv, OnlyIssued, Tasks
    <3> QED BY <3>1, <3>2
  <2> QED BY <2>6, <2>7, <2>8 DEF StoreInv
<1> QED BY <1>1, <1>2

-----------------------------------------------------------------------------
\* What leaves the files alone, ids only being added.
LEMMA StoreStays ==
  ASSUME StoreInv, UNCHANGED store, issued \in Nat, issued' \in Nat, issued <= issued'
  PROVE  StoreInv'
BY DEF StoreInv, StoreTypes, DiskFits, OnlyIssued, store, Tasks

\* Init, and a program that was started again, know of nothing.
LEMMA InitInvariant == Init => IInv
<1> SUFFICES ASSUME Init PROVE IInv
  OBVIOUS
<1>1. FlagTypes
  BY Zenon DEF Init, FlagTypes
<1>2. DataTypes
  BY NothingIsSummary DEF Init, DataTypes
<1>3. ControlTypes /\ IdTypes
  BY TasksAssumption DEF Init, ControlTypes, IdTypes
<1>4. MemoryInv
  BY NothingFits DEF Init, MemoryInv, RunInv, StageOutputsAreCurrent, MemoryFits
<1>5. StoreInv
  BY NothingIsSummary, NothingFits
  DEF Init, StoreInv, StoreTypes, DiskFits, Snapshot, OnlyIssued
<1> QED BY <1>1, <1>2, <1>3, <1>4, <1>5 DEF IInv

LEMMA ForgetStep ==
  ASSUME IInv, ResetTask \/ Restart
  PROVE  IInv'
<1>1. FlagTypes'
  BY Zenon DEF IInv, ResetTask, Restart, FlagTypes
<1>2. DataTypes'
  BY NothingIsSummary DEF ResetTask, Restart, DataTypes
<1>3. ControlTypes' /\ IdTypes'
  BY TasksAssumption DEF IInv, ResetTask, Restart, ControlTypes, IdTypes
<1>4. RunInv' /\ StageOutputsAreCurrent'
  BY DEF ResetTask, Restart, RunInv, StageOutputsAreCurrent
<1>5. MemoryFits'
  BY NothingFits DEF ResetTask, Restart, MemoryFits, FitsData
<1>6. StoreInv'
  BY StoreStays DEF IInv, IdTypes, ResetTask, Restart
<1> QED BY <1>1, <1>2, <1>3, <1>4, <1>5, <1>6 DEF IInv, MemoryInv

LEMMA SetFilterStep ==
  ASSUME IInv, NEW f \in Filters, SetFilter(f)
  PROVE  IInv'
<1>1. FlagTypes'
  BY Zenon DEF IInv, SetFilter, FlagTypes, control
<1>2. DataTypes' /\ ControlTypes' /\ IdTypes'
  BY DEF IInv, SetFilter, DataTypes, ControlTypes, IdTypes, data, control, ids
<1>3. MemoryInv'
  BY DEF IInv, SetFilter, MemoryInv, RunInv, StageOutputsAreCurrent, MemoryFits, FitsData,
         data, control
<1>4. StoreInv'
  BY StoreStays DEF IInv, IdTypes, SetFilter, ids
<1> QED BY <1>1, <1>2, <1>3, <1>4 DEF IInv

LEMMA ImportStep ==
  ASSUME IInv, NEW d \in Datasets, Import(d)
  PROVE  IInv'
<1>1. FlagTypes'
  BY Zenon DEF IInv, Import, FlagTypes, control
<1>2. DataTypes' /\ ControlTypes' /\ IdTypes'
  BY NothingIsSummary
  DEF IInv, Import, DataTypes, ControlTypes, IdTypes, control, ids, Records
<1>3. RunInv' /\ StageOutputsAreCurrent'
  BY DEF Import, RunInv, StageOutputsAreCurrent, control
<1>4. MemoryFits'
  BY NothingFits DEF Import, MemoryFits, FitsData
<1>5. StoreInv'
  BY <1>2, <1>4, PersistStep DEF IInv, IdTypes, Import, ids
<1> QED BY <1>1, <1>2, <1>3, <1>4, <1>5 DEF IInv, MemoryInv

LEMMA StartAnalysisStep ==
  ASSUME IInv, StartAnalysis
  PROVE  IInv'
<1>1. FlagTypes'
  BY Zenon DEF IInv, StartAnalysis, FlagTypes
<1>2. IdTypes' /\ task' # 0 /\ issued <= issued' /\ issued \in Nat /\ issued' \in Nat
  BY EnsureTaskIdStep DEF IInv, StartAnalysis
<1>3. DataTypes'
  BY NothingIsSummary DEF IInv, StartAnalysis, DataTypes, data
<1>4. ControlTypes'
  BY <1>2, TasksAssumption DEF IInv, StartAnalysis, ControlTypes
<1>5. RunInv' /\ StageOutputsAreCurrent'
  BY DEF StartAnalysis, RunInv, NoSummary, StageOutputsAreCurrent
<1>6. MemoryFits'
  BY NothingFits DEF StartAnalysis, MemoryFits, FitsData
<1>7. StoreInv'
  BY <1>2, StoreStays DEF IInv, StartAnalysis
<1> QED BY <1>1, <1>2, <1>3, <1>4, <1>5, <1>6, <1>7 DEF IInv, MemoryInv

LEMMA ExportStep ==
  ASSUME IInv, ExportReport \/ BeginExport \/ CancelExport
  PROVE  IInv'
<1>1. FlagTypes'
  BY Zenon DEF IInv, ExportReport, BeginExport, CancelExport, FlagTypes, control
<1>2. /\ IdTypes' /\ (task # 0 => task' # 0)
      /\ issued <= issued' /\ issued \in Nat /\ issued' \in Nat
  BY EnsureTaskIdStep
  DEF IInv, ExportReport, BeginExport, CancelExport, IdTypes, ids
<1>3. DataTypes'
  BY DEF IInv, ExportReport, BeginExport, CancelExport, DataTypes, data
<1>4. ControlTypes'
  BY <1>2 DEF IInv, ExportReport, BeginExport, CancelExport, ControlTypes, control
<1>5. MemoryInv'
  BY DEF IInv, ExportReport, BeginExport, CancelExport, MemoryInv, RunInv,
         StageOutputsAreCurrent, MemoryFits, FitsData, data, control
<1>6. StoreInv'
  BY <1>2, StoreStays DEF IInv, ExportReport, BeginExport, CancelExport
<1> QED BY <1>1, <1>2, <1>3, <1>4, <1>5, <1>6 DEF IInv

\* What saves the task as it is, an archive mark aside.
LEMMA SaveStep ==
  ASSUME IInv, ArchiveResult \/ PublishResult \/ SaveCurrentTask \/ FinishExport
  PROVE  IInv'
<1>1. FlagTypes'
  BY Zenon
  DEF IInv, ArchiveResult, PublishResult, SaveCurrentTask, FinishExport, FlagTypes, control
<1>2. /\ IdTypes' /\ (task # 0 => task' # 0)
      /\ issued <= issued' /\ issued \in Nat /\ issued' \in Nat
  BY EnsureTaskIdStep
  DEF IInv, ArchiveResult, PublishResult, SaveCurrentTask, FinishExport, IdTypes, ids
<1>3. DataTypes'
  BY DEF IInv, ArchiveResult, PublishResult, SaveCurrentTask, FinishExport,
         DataTypes, Summary, data
<1>4. ControlTypes'
  BY <1>2 DEF IInv, ArchiveResult, PublishResult, SaveCurrentTask, FinishExport,
              ControlTypes, control
<1>5. MemoryInv'
  <2>1. CASE ArchiveResult
    BY <2>1 DEF IInv, ArchiveResult, MemoryInv, RunInv, StageOutputsAreCurrent,
                MemoryFits, FitsData, DataTypes, Summary, data, control
  <2>2. CASE PublishResult \/ SaveCurrentTask \/ FinishExport
    BY <2>2 DEF IInv, PublishResult, SaveCurrentTask, FinishExport, MemoryInv, RunInv,
                StageOutputsAreCurrent, MemoryFits, FitsData, data, control
  <2> QED BY <2>1, <2>2
<1>6. StoreInv'
  <2>1. PersistTaskSnapshot
    BY DEF ArchiveResult, PublishResult, SaveCurrentTask, FinishExport
  <2> QED BY <1>2, <1>3, <1>5, <2>1, PersistStep DEF IInv, MemoryInv
<1> QED BY <1>1, <1>2, <1>3, <1>4, <1>5, <1>6 DEF IInv

LEMMA LoadStep ==
  ASSUME IInv, NEW t \in Tasks, LoadArchivedTask(t)
  PROVE  IInv'
<1>1. disk[t] \in Snapshot
  BY DEF IInv, StoreInv, StoreTypes
<1>2. FlagTypes'
  <2>1. (t \in damaged) \in BOOLEAN
    OBVIOUS
  <2> QED BY <2>1, Zenon DEF IInv, LoadArchivedTask, FlagTypes
<1>3. DataTypes'
  <2>1. disk[t].summary \in Summary
    BY <1>1, SMTT(30) DEF Snapshot
  <2>2. summary' \in Summary
    BY <1>1, <2>1 DEF LoadArchivedTask, Snapshot, Summary, Restored
  <2> QED BY <1>1, <2>2 DEF LoadArchivedTask, DataTypes, Snapshot
<1>4. ControlTypes'
  BY DEF IInv, LoadArchivedTask, ControlTypes
<1>5. IdTypes'
  BY TasksAssumption
  DEF IInv, LoadArchivedTask, IdTypes, StoreInv, OnlyIssued, Tasks
<1>6. RunInv' /\ StageOutputsAreCurrent'
  BY DEF LoadArchivedTask, RunInv, StageOutputsAreCurrent
<1>7. MemoryFits'
  <2>1. disk[t].summary \in Summary
    BY <1>1 DEF Snapshot
  <2>2. SUFFICES ASSUME t \notin damaged PROVE FitsData(raw', standard', summary')
    BY DEF LoadArchivedTask, MemoryFits, FitsData
  <2>3. FitsData(disk[t].raw, disk[t].standard, disk[t].summary)
    BY <2>2 DEF IInv, StoreInv, DiskFits
  <2> QED BY <2>1, <2>3 DEF LoadArchivedTask, FitsData, Restored, Summary
<1>8. StoreInv'
  BY StoreStays DEF IInv, IdTypes, LoadArchivedTask
<1> QED BY <1>2, <1>3, <1>4, <1>5, <1>6, <1>7, <1>8 DEF IInv, MemoryInv

-----------------------------------------------------------------------------
\* Every stage, whoever calls advanceAnalysisStage.
LEMMA StageFlagsStep ==
  ASSUME IInv, AdvanceAnalysisStage
  PROVE  FlagTypes'
<1>1. dialog' \in BOOLEAN /\ tainted' \in BOOLEAN
  BY Zenon DEF IInv, FlagTypes, AdvanceAnalysisStage
<1>2. CASE FilterRecords
  <2>1. (filtered' # {}) \in BOOLEAN /\ (timer /\ (filtered' # {})) \in BOOLEAN
    OBVIOUS
  <2>2. running' \in BOOLEAN /\ timer' \in BOOLEAN
    BY <1>2, <2>1, Zenon DEF FilterRecords
  <2> QED BY <1>1, <2>2 DEF FlagTypes
<1>3. CASE CreateTask \/ NormalizeRecords \/ EvaluateQuality \/ RunFusionAnalysis
           \/ SummarizeResults
  <2>1. running' \in BOOLEAN /\ timer' \in BOOLEAN
    BY <1>3, Zenon DEF IInv, FlagTypes, CreateTask, NormalizeRecords, EvaluateQuality,
                       RunFusionAnalysis, SummarizeResults
  <2> QED BY <1>1, <2>1 DEF FlagTypes
<1> QED BY <1>2, <1>3, Zenon DEF AdvanceAnalysisStage

LEMMA StageMemoryStep ==
  ASSUME IInv, AdvanceAnalysisStage
  PROVE  DataTypes' /\ MemoryInv'
<1> SUFFICES ASSUME running, stage' = stage + 1, stage \in 0..5,
                    UNCHANGED <<filter, dialog, tainted>>
             PROVE  DataTypes' /\ MemoryInv'
  BY DEF IInv, ControlTypes, AdvanceAnalysisStage, InStage, CreateTask, FilterRecords,
         NormalizeRecords, EvaluateQuality, RunFusionAnalysis, SummarizeResults
<1>1. CASE CreateTask
  BY <1>1 DEF IInv, CreateTask, InStage, DataTypes, MemoryInv, RunInv,
              StageOutputsAreCurrent, MemoryFits, FitsData, data
<1>2. CASE FilterRecords
  <2>1. DataTypes'
    BY <1>2 DEF IInv, FilterRecords, DataTypes
  <2>2. /\ stage = 1 /\ filtered' = raw \cap filter
        /\ UNCHANGED <<raw, standard, summary>>
    BY <1>2 DEF FilterRecords, InStage
  <2>3. running' => filtered' # {}
    BY <1>2 DEF FilterRecords
  <2>4. RunInv'
    BY <2>2 DEF IInv, MemoryInv, RunInv
  <2>5. StageOutputsAreCurrent'
    BY <2>2, <2>3 DEF StageOutputsAreCurrent
  <2>6. MemoryFits'
    BY <2>2 DEF IInv, MemoryInv, MemoryFits, FitsData
  <2> QED BY <2>1, <2>4, <2>5, <2>6 DEF MemoryInv
<1>3. CASE NormalizeRecords
  <2>1. DataTypes'
    BY <1>3 DEF IInv, NormalizeRecords, DataTypes
  <2>2. summary.quality = {} /\ summary.fusion = {} /\ ~summary.concluded /\ ~summary.archived
    BY <1>3 DEF IInv, MemoryInv, NormalizeRecords, InStage, RunInv
  <2>3. RunInv' /\ StageOutputsAreCurrent'
    BY <1>3, <2>2 DEF IInv, NormalizeRecords, InStage, MemoryInv, RunInv,
                      StageOutputsAreCurrent
  <2>4. MemoryFits'
    BY <1>3, <2>2 DEF NormalizeRecords, MemoryFits, FitsData
  <2> QED BY <2>1, <2>3, <2>4 DEF MemoryInv
<1>4. CASE EvaluateQuality
  <2>1. standard # {} /\ standard = filtered /\ filtered = raw \cap filter
    BY <1>4 DEF IInv, MemoryInv, EvaluateQuality, InStage, StageOutputsAreCurrent
  <2>2. summary' = [summary EXCEPT !.quality = standard] /\ stage = 3 /\ UNCHANGED data
    BY <1>4, <2>1 DEF EvaluateQuality, InStage
  <2>3. DataTypes'
    BY <2>2 DEF IInv, DataTypes, data, Summary
  <2>4. MemoryInv'
    BY <2>1, <2>2 DEF IInv, DataTypes, Summary, data, MemoryInv, RunInv,
                      StageOutputsAreCurrent, MemoryFits, FitsData
  <2> QED BY <2>3, <2>4
<1>5. CASE RunFusionAnalysis
  <2>1. /\ standard # {} /\ standard = filtered /\ filtered = raw \cap filter
        /\ summary.quality = standard
    BY <1>5 DEF IInv, MemoryInv, RunFusionAnalysis, InStage, StageOutputsAreCurrent
  <2>2. summary' = [summary EXCEPT !.fusion = standard] /\ stage = 4 /\ UNCHANGED data
    BY <1>5, <2>1 DEF RunFusionAnalysis, InStage
  <2>3. DataTypes'
    BY <2>2 DEF IInv, DataTypes, data, Summary
  <2>4. MemoryInv'
    BY <2>1, <2>2 DEF IInv, DataTypes, Summary, data, MemoryInv, RunInv,
                      StageOutputsAreCurrent, MemoryFits, FitsData
  <2> QED BY <2>3, <2>4
<1>6. CASE SummarizeResults
  <2>1. /\ standard # {} /\ standard = filtered /\ filtered = raw \cap filter
        /\ summary.quality = standard /\ summary.fusion = standard
        /\ ~summary.archived
    BY <1>6 DEF IInv, MemoryInv, SummarizeResults, InStage, StageOutputsAreCurrent, RunInv
  <2>2. summary' = [summary EXCEPT !.concluded = TRUE] /\ ~running' /\ UNCHANGED data
    BY <1>6 DEF SummarizeResults
  <2>3. DataTypes'
    BY <2>2 DEF IInv, DataTypes, data, Summary
  <2>4. RunInv' /\ StageOutputsAreCurrent'
    BY <2>2 DEF RunInv, StageOutputsAreCurrent
  <2>5. MemoryFits'
    BY <2>1, <2>2 DEF IInv, DataTypes, Summary, data, MemoryFits, FitsData
  <2> QED BY <2>3, <2>4, <2>5 DEF MemoryInv
<1> QED BY <1>1, <1>2, <1>3, <1>4, <1>5, <1>6, Zenon DEF AdvanceAnalysisStage

LEMMA StageControlStep ==
  ASSUME IInv, AdvanceAnalysisStage, kicks' \in 0..MaxKicks
  PROVE  /\ ControlTypes' /\ IdTypes'
         /\ issued <= issued' /\ issued \in Nat /\ issued' \in Nat
<1>1. CASE CreateTask
  <2>1. /\ IdTypes' /\ task' # 0
        /\ issued <= issued' /\ issued \in Nat /\ issued' \in Nat
    BY <1>1, EnsureTaskIdStep DEF IInv, CreateTask
  <2>2. ControlTypes'
    BY <1>1, <2>1 DEF IInv, ControlTypes, AdvanceAnalysisStage, CreateTask, InStage
  <2> QED BY <2>1, <2>2
<1>2. CASE UNCHANGED ids /\ (FilterRecords \/ NormalizeRecords \/ EvaluateQuality
                             \/ RunFusionAnalysis \/ SummarizeResults)
  <2>1. /\ IdTypes' /\ task' = task
        /\ issued <= issued' /\ issued \in Nat /\ issued' \in Nat
    BY <1>2 DEF IInv, IdTypes, ids
  <2>2. filter' \in Filters /\ stage' \in 0..6
    BY <1>2 DEF IInv, ControlTypes, AdvanceAnalysisStage, FilterRecords,
                NormalizeRecords, EvaluateQuality, RunFusionAnalysis, SummarizeResults,
                InStage
  <2>3. running' => timer' /\ stage' < 6 /\ task' # 0
    <3>1. timer /\ task # 0 /\ stage' = stage + 1
      BY <1>2 DEF IInv, ControlTypes, InStage, FilterRecords, NormalizeRecords,
                  EvaluateQuality, RunFusionAnalysis, SummarizeResults
    <3>2. running' => timer'
      BY <1>2, <3>1 DEF FilterRecords, NormalizeRecords, EvaluateQuality,
                        RunFusionAnalysis, SummarizeResults
    <3>3. running' => stage < 5
      <4>1. stage \in 1..4 \/ SummarizeResults
        BY <1>2 DEF InStage, FilterRecords, NormalizeRecords, EvaluateQuality,
                    RunFusionAnalysis
      <4>2. SummarizeResults => ~running'
        BY DEF SummarizeResults
      <4> QED BY <4>1, <4>2
    <3>4. stage \in 0..6
      BY DEF IInv, ControlTypes
    <3> QED BY <2>1, <3>1, <3>2, <3>3, <3>4
  <2> QED BY <2>1, <2>2, <2>3 DEF ControlTypes
<1> QED BY <1>1, <1>2 DEF AdvanceAnalysisStage

LEMMA StageStep ==
  ASSUME IInv, AdvanceAnalysisStage, kicks' \in 0..MaxKicks
  PROVE  IInv'
<1>1. FlagTypes'
  BY StageFlagsStep
<1>2. DataTypes' /\ MemoryInv'
  BY StageMemoryStep
<1>3. /\ ControlTypes' /\ IdTypes'
      /\ issued <= issued' /\ issued \in Nat /\ issued' \in Nat
  BY StageControlStep
<1>4. PersistTaskSnapshot \/ UNCHANGED store
  BY DEF AdvanceAnalysisStage, CreateTask, FilterRecords, NormalizeRecords,
         EvaluateQuality, RunFusionAnalysis, SummarizeResults
<1>5. StoreInv'
  BY <1>2, <1>3, <1>4, PersistStep, StoreStays DEF IInv, MemoryInv
<1> QED BY <1>1, <1>2, <1>3, <1>5 DEF IInv

\* A first step that comes when nothing runs does nothing.
LEMMA LateFirstStep ==
  ASSUME IInv, kicks' \in 0..MaxKicks,
         UNCHANGED <<data, summary, filter, running, stage, timer, ids, dialog, store,
                     tainted>>
  PROVE  IInv'
<1>1. FlagTypes'
  BY Zenon DEF IInv, FlagTypes
<1>2. DataTypes' /\ ControlTypes' /\ IdTypes'
  BY DEF IInv, DataTypes, ControlTypes, IdTypes, data, ids
<1>3. MemoryInv'
  BY DEF IInv, MemoryInv, RunInv, StageOutputsAreCurrent, MemoryFits, FitsData, data
<1>4. StoreInv'
  BY StoreStays DEF IInv, IdTypes, ids
<1> QED BY <1>1, <1>2, <1>3, <1>4 DEF IInv

-----------------------------------------------------------------------------
LEMMA FusionInvariant == Spec => []IInv
<1>1. IInv /\ [Next]_vars => IInv'
  <2> SUFFICES ASSUME IInv, [Next]_vars PROVE IInv'
    OBVIOUS
  <2>1. CASE ResetTask \/ Restart \/ StartAnalysis
    BY <2>1, ForgetStep, StartAnalysisStep
  <2>2. CASE ExportReport \/ BeginExport \/ CancelExport
    BY <2>2, ExportStep
  <2>3. CASE ArchiveResult \/ PublishResult \/ SaveCurrentTask \/ FinishExport
    BY <2>3, SaveStep
  <2>4. ASSUME NEW f \in Filters, SetFilter(f) PROVE IInv'
    BY <2>4, SetFilterStep
  <2>5. ASSUME NEW d \in Datasets, Import(d) PROVE IInv'
    BY <2>5, ImportStep
  <2>6. ASSUME NEW t \in Tasks, LoadArchivedTask(t) PROVE IInv'
    BY <2>6, LoadStep
  <2>7. CASE TimerFires
    <3>1. AdvanceAnalysisStage /\ kicks' \in 0..MaxKicks
      BY <2>7 DEF IInv, ControlTypes, TimerFires
    <3> QED BY <3>1, StageStep
  <2>8. CASE FirstStep
    <3>1. kicks' \in 0..MaxKicks
      BY <2>8, TasksAssumption DEF IInv, ControlTypes, FirstStep
    <3> QED BY <2>8, <3>1, StageStep, LateFirstStep DEF FirstStep
  <2>9. CASE UNCHANGED vars
    <3>1. kicks' \in 0..MaxKicks
      BY <2>9 DEF IInv, ControlTypes, vars
    <3> QED BY <2>9, <3>1, LateFirstStep DEF vars, data, ids, store
  <2> QED BY <2>1, <2>2, <2>3, <2>4, <2>5, <2>6, <2>7, <2>8, <2>9 DEF Next
<1> QED BY InitInvariant, <1>1, PTL DEF Spec

(* Every variable keeps its type; a task that runs has its directory, its  *)
(* next stage and its timer, however stages and queued steps interleave.   *)
THEOREM FusionTypeCorrect == Spec => []TypeOK
<1>1. IInv => TypeOK
  BY DEF IInv, DataTypes, FlagTypes, ControlTypes, IdTypes, StoreInv, StoreTypes, TypeOK
<1> QED BY FusionInvariant, <1>1, PTL

(* No import, load, dialog or queued step of advanceAnalysisStage slips    *)
(* records of another data set into the layers of an analysis.             *)
THEOREM StagesBuildOnEachOther == Spec => []StageOutputsAreCurrent
BY FusionInvariant, PTL DEF IInv, MemoryInv

(* A conclusion in memory, or in a snapshot that persistTaskSnapshot wrote *)
(* whole, is about the records it stands beside.                           *)
THEOREM ConclusionsFitTheirData == Spec => []ResultsFitData
<1>1. IInv => ResultsFitData
  BY DEF IInv, MemoryInv, MemoryFits, StoreInv, DiskFits, ResultsFitData
<1> QED BY FusionInvariant, <1>1, PTL

=============================================================================
