----------------------------- MODULE OtaProofs -----------------------------
(***************************************************************************)
(* Proofs about Ota, for every set of images and every bound: the flag and *)
(* the ownership of the URL, the reports, and that an update is atomic     *)
(* whenever the power fails.                                               *)
(***************************************************************************)
EXTENDS Ota, TLAPS

\* What is accepted is known to have been asked for, the callback stores only
\* while no OTA is in progress, and finishing frees before it clears.
AskedOK ==
    /\ url # NoUrl => url \in asked
    /\ target # NoUrl => target \in asked
    /\ cb = "store" => val \in asked /\ ~ota_in_progress
    /\ cb = "queue" => url # NoUrl /\ transient_priv
    /\ "clear" \in {cb, w} => url = NoUrl
    /\ ~ota_in_progress => url = NoUrl /\ ~transient_priv

\* What runs is whole and of this project, no image of another project is ever
\* written, and the image being written is not the one that runs.
FlashOK ==
    /\ image[running] \in Good
    /\ \A s \in Slots : image[s] \notin Foreign
    /\ w \in {"download", "receiving"} \/ (w = "end" /\ err = "ok") =>
         target \in Images \ Foreign /\ target # image[running]
    /\ w = "receiving" => written
    /\ w = "end" /\ err = "ok" => written /\ image[Other(running)] = target

\* Power saving is off only between the beginning and the end of a download.
PowerSaveOK ==
    /\ w \in {"idle", "begin", "free", "clear"} => ps = "default"
    /\ w \in {"desc", "download", "receiving", "end"} => ps_type = "default"

\* Success is reported at the end of a work function only.
ReportsOK ==
    /\ Reported("success") => w \in {"idle", "free", "clear"}
    /\ SuccessIsStaged

\* The parts of the type invariant.
ControlTyped ==
    /\ cb \in {"idle", "store", "queue", "free", "clear"}
    /\ w \in {"idle", "begin", "desc", "download", "receiving", "end", "free", "clear"}
    /\ queued \in {0, 1} /\ err \in {"ok", "fail"}
    /\ ps \in {"default", "none"} /\ ps_type \in {"default", "none"}
    /\ requests \in 0..MaxRequests /\ restarts \in 0..MaxRestarts

UrlsTyped ==
    /\ url \in Images \cup {NoUrl} /\ val \in Images \cup {NoUrl}
    /\ target \in Images \cup {NoUrl} /\ asked \subseteq Images

FlagsTyped ==
    /\ ota_in_progress \in BOOLEAN /\ transient_priv \in BOOLEAN
    /\ written \in BOOLEAN /\ reboot_timer \in BOOLEAN

FlashTyped ==
    image \in [Slots -> Images \cup {Partial}] /\ boot \in Slots /\ running \in Slots

ReportsTyped == reports \in Seq(Statuses)

IInv == TypeOK /\ OneJob /\ UrlAlive /\ AskedOK /\ FlashOK /\ PowerSaveOK /\ ReportsOK

\* The result of the OTA is the last report where nothing more is reported.
ResultOK ==
    /\ w \in {"idle", "free", "clear"} /\ reports # << >> =>
         Reported("success") \/ Reported("failed")
    /\ w = "end" /\ ~written => Reported("failed")

\* The steps of AtomicUpdate.
AuStep == AU!AuNext \/ UNCHANGED AU!auVars

-----------------------------------------------------------------------------
\* What a report leaves as the last one.
LEMMA ReportFacts ==
    ASSUME NEW s \in Seq(Statuses), NEW x \in Statuses
    PROVE  /\ Append(s, x) \in Seq(Statuses)
           /\ Append(s, x) # << >>
           /\ Last(Append(s, x)) = x
  BY DEF Last

\* The reports of a rejected image and of what follows it: the last is not a result.
LEMMA TwoReports ==
    ASSUME NEW s \in Seq(Statuses)
    PROVE  /\ s \o <<"failed", "in-progress">> \in Seq(Statuses)
           /\ s \o <<"failed", "in-progress">> # << >>
           /\ Last(s \o <<"failed", "in-progress">>) = "in-progress"
  BY DEF Last, Statuses

\* The first report of an OTA.
LEMMA OneReport ==
    /\ <<"in-progress">> \in Seq(Statuses)
    /\ Last(<<"in-progress">>) = "in-progress"
    /\ << >> \in Seq(Statuses)
  BY DEF Last, Statuses

\* The places of the two threads, the queue and the counters keep their types.
LEMMA ControlKept ==
    ASSUME IInv, [Next]_vars
    PROVE  ControlTyped'
  <1> USE OtaAssumption DEF IInv, TypeOK, job, wifi, flash, bounds,
          ControlTyped, OneJob, CallbackHas, QueueHas, WorkerHas
  <1>1. CASE \E i \in Images : UrlArrives(i)
    BY <1>1 DEF UrlArrives
  <1>2. CASE UrlStored
    BY <1>2 DEF UrlStored
  <1>3. CASE UrlQueued
    BY <1>3 DEF UrlQueued
  <1>4. CASE CallbackFinishes
    BY <1>4 DEF CallbackFinishes, FinishFrees, FinishClears
  <1>5. CASE OtaBegins
    BY <1>5 DEF OtaBegins
  <1>6. CASE HttpBegins
    BY <1>6 DEF HttpBegins, Report
  <1>7. CASE ImageDescribed
    BY <1>7 DEF ImageDescribed, Report, ValidImageHeader
  <1>8. CASE DownloadStarts
    BY <1>8 DEF DownloadStarts
  <1>9. CASE DownloadEnds
    BY <1>9 DEF DownloadEnds, Report
  <1>10. CASE OtaSucceeds
    BY <1>10 DEF OtaSucceeds, Report, FinishPasses
  <1>11. CASE OtaFails
    BY <1>11 DEF OtaFails, Report, FinishPasses
  <1>12. CASE WorkerFinishes
    BY <1>12 DEF WorkerFinishes, FinishFrees, FinishClears
  <1>13. CASE RebootTimerFires
    BY <1>13 DEF RebootTimerFires, Reboot
  <1>14. CASE PowerFails
    BY <1>14 DEF PowerFails, Reboot
  <1>15. CASE UNCHANGED vars
    BY <1>15 DEF vars
  <1> QED BY <1>1, <1>2, <1>3, <1>4, <1>5, <1>6, <1>7, <1>8, <1>9, <1>10, <1>11,
            <1>12, <1>13, <1>14, <1>15
          DEF Next, Callback, Worker

\* URLs are of known images.
LEMMA UrlsKept ==
    ASSUME IInv, [Next]_vars
    PROVE  UrlsTyped'
  <1> USE OtaAssumption DEF IInv, TypeOK, job, wifi, flash, bounds, UrlsTyped,
          AskedOK
  <1>1. CASE \E i \in Images : UrlArrives(i)
    BY <1>1 DEF UrlArrives
  <1>2. CASE UrlStored
    BY <1>2 DEF UrlStored
  <1>3. CASE UrlQueued
    BY <1>3 DEF UrlQueued
  <1>4. CASE CallbackFinishes
    BY <1>4 DEF CallbackFinishes, FinishFrees, FinishClears
  <1>5. CASE OtaBegins
    BY <1>5 DEF OtaBegins
  <1>6. CASE HttpBegins
    BY <1>6 DEF HttpBegins, Report
  <1>7. CASE ImageDescribed
    BY <1>7 DEF ImageDescribed, Report, ValidImageHeader
  <1>8. CASE DownloadStarts
    BY <1>8 DEF DownloadStarts
  <1>9. CASE DownloadEnds
    BY <1>9 DEF DownloadEnds, Report
  <1>10. CASE OtaSucceeds
    BY <1>10 DEF OtaSucceeds, Report, FinishPasses
  <1>11. CASE OtaFails
    BY <1>11 DEF OtaFails, Report, FinishPasses
  <1>12. CASE WorkerFinishes
    BY <1>12 DEF WorkerFinishes, FinishFrees, FinishClears
  <1>13. CASE RebootTimerFires
    BY <1>13 DEF RebootTimerFires, Reboot
  <1>14. CASE PowerFails
    BY <1>14 DEF PowerFails, Reboot
  <1>15. CASE UNCHANGED vars
    BY <1>15 DEF vars
  <1> QED BY <1>1, <1>2, <1>3, <1>4, <1>5, <1>6, <1>7, <1>8, <1>9, <1>10, <1>11,
            <1>12, <1>13, <1>14, <1>15
          DEF Next, Callback, Worker

\* The flags are Boolean.
LEMMA FlagsKept ==
    ASSUME IInv, [Next]_vars
    PROVE  FlagsTyped'
  <1> USE OtaAssumption DEF IInv, TypeOK, job, wifi, flash, bounds, FlagsTyped
  <1>1. CASE \E i \in Images : UrlArrives(i)
    BY <1>1 DEF UrlArrives
  <1>2. CASE UrlStored
    BY <1>2 DEF UrlStored
  <1>3. CASE UrlQueued
    BY <1>3 DEF UrlQueued
  <1>4. CASE CallbackFinishes
    BY <1>4 DEF CallbackFinishes, FinishFrees, FinishClears
  <1>5. CASE OtaBegins
    BY <1>5 DEF OtaBegins
  <1>6. CASE HttpBegins
    BY <1>6 DEF HttpBegins, Report
  <1>7. CASE ImageDescribed
    BY <1>7 DEF ImageDescribed, Report, ValidImageHeader
  <1>8. CASE DownloadStarts
    BY <1>8 DEF DownloadStarts
  <1>9. CASE DownloadEnds
    BY <1>9 DEF DownloadEnds, Report
  <1>10. CASE OtaSucceeds
    BY <1>10 DEF OtaSucceeds, Report, FinishPasses
  <1>11. CASE OtaFails
    BY <1>11 DEF OtaFails, Report, FinishPasses
  <1>12. CASE WorkerFinishes
    BY <1>12 DEF WorkerFinishes, FinishFrees, FinishClears
  <1>13. CASE RebootTimerFires
    BY <1>13 DEF RebootTimerFires, Reboot
  <1>14. CASE PowerFails
    BY <1>14 DEF PowerFails, Reboot
  <1>15. CASE UNCHANGED vars
    BY <1>15 DEF vars
  <1> QED BY <1>1, <1>2, <1>3, <1>4, <1>5, <1>6, <1>7, <1>8, <1>9, <1>10, <1>11,
            <1>12, <1>13, <1>14, <1>15
          DEF Next, Callback, Worker

\* The partitions keep their types.
LEMMA FlashTypeKept ==
    ASSUME IInv, [Next]_vars
    PROVE  FlashTyped'
  <1> USE OtaAssumption DEF IInv, TypeOK, job, wifi, flash, bounds, FlashTyped,
          FlashOK, Slots, Other
  <1>1. CASE \E i \in Images : UrlArrives(i)
    BY <1>1 DEF UrlArrives
  <1>2. CASE UrlStored
    BY <1>2 DEF UrlStored
  <1>3. CASE UrlQueued
    BY <1>3 DEF UrlQueued
  <1>4. CASE CallbackFinishes
    BY <1>4 DEF CallbackFinishes, FinishFrees, FinishClears
  <1>5. CASE OtaBegins
    BY <1>5 DEF OtaBegins
  <1>6. CASE HttpBegins
    BY <1>6 DEF HttpBegins, Report
  <1>7. CASE ImageDescribed
    BY <1>7 DEF ImageDescribed, Report, ValidImageHeader
  <1>8. CASE DownloadStarts
    BY <1>8 DEF DownloadStarts
  <1>9. CASE DownloadEnds
    BY <1>9 DEF DownloadEnds, Report
  <1>10. CASE OtaSucceeds
    BY <1>10 DEF OtaSucceeds, Report, FinishPasses
  <1>11. CASE OtaFails
    BY <1>11 DEF OtaFails, Report, FinishPasses
  <1>12. CASE WorkerFinishes
    BY <1>12 DEF WorkerFinishes, FinishFrees, FinishClears
  <1>13. CASE RebootTimerFires
    BY <1>13 DEF RebootTimerFires, Reboot
  <1>14. CASE PowerFails
    BY <1>14 DEF PowerFails, Reboot
  <1>15. CASE UNCHANGED vars
    BY <1>15 DEF vars
  <1> QED BY <1>1, <1>2, <1>3, <1>4, <1>5, <1>6, <1>7, <1>8, <1>9, <1>10, <1>11,
            <1>12, <1>13, <1>14, <1>15
          DEF Next, Callback, Worker

\* Reports are of the known statuses.
LEMMA ReportsTypeKept ==
    ASSUME IInv, [Next]_vars
    PROVE  ReportsTyped'
  <1> USE OtaAssumption DEF IInv, TypeOK, job, wifi, flash, bounds,
          ReportsTyped, Statuses
  <1>1. CASE \E i \in Images : UrlArrives(i)
    BY <1>1 DEF UrlArrives
  <1>2. CASE UrlStored
    BY <1>2 DEF UrlStored
  <1>3. CASE UrlQueued
    BY <1>3 DEF UrlQueued
  <1>4. CASE CallbackFinishes
    BY <1>4 DEF CallbackFinishes, FinishFrees, FinishClears
  <1>5. CASE OtaBegins
    BY <1>5, OneReport DEF OtaBegins
  <1>6. CASE HttpBegins
    BY <1>6, ReportFacts DEF HttpBegins, Report
  <1>7. CASE ImageDescribed
    BY <1>7, ReportFacts DEF ImageDescribed, Report, ValidImageHeader
  <1>8. CASE DownloadStarts
    BY <1>8 DEF DownloadStarts
  <1>9. CASE DownloadEnds
    BY <1>9, ReportFacts, TwoReports DEF DownloadEnds, Report
  <1>10. CASE OtaSucceeds
    BY <1>10, ReportFacts DEF OtaSucceeds, Report, FinishPasses
  <1>11. CASE OtaFails
    BY <1>11, ReportFacts DEF OtaFails, Report, FinishPasses
  <1>12. CASE WorkerFinishes
    BY <1>12 DEF WorkerFinishes, FinishFrees, FinishClears
  <1>13. CASE RebootTimerFires
    BY <1>13, OneReport DEF RebootTimerFires, Reboot
  <1>14. CASE PowerFails
    BY <1>14, OneReport DEF PowerFails, Reboot
  <1>15. CASE UNCHANGED vars
    BY <1>15 DEF vars
  <1> QED BY <1>1, <1>2, <1>3, <1>4, <1>5, <1>6, <1>7, <1>8, <1>9, <1>10, <1>11,
            <1>12, <1>13, <1>14, <1>15
          DEF Next, Callback, Worker

\* The flag tells whether there is a job, and there is one at most.
LEMMA JobKept ==
    ASSUME IInv, [Next]_vars
    PROVE  (OneJob /\ AskedOK)'
  <1> USE OtaAssumption DEF IInv, TypeOK, job, wifi, flash, bounds, OneJob,
          AskedOK, CallbackHas, QueueHas, WorkerHas
  <1>1. CASE \E i \in Images : UrlArrives(i)
    BY <1>1 DEF UrlArrives
  <1>2. CASE UrlStored
    BY <1>2 DEF UrlStored
  <1>3. CASE UrlQueued
    BY <1>3 DEF UrlQueued
  <1>4. CASE CallbackFinishes
    BY <1>4 DEF CallbackFinishes, FinishFrees, FinishClears
  <1>5. CASE OtaBegins
    BY <1>5 DEF OtaBegins
  <1>6. CASE HttpBegins
    BY <1>6 DEF HttpBegins, Report
  <1>7. CASE ImageDescribed
    BY <1>7 DEF ImageDescribed, Report, ValidImageHeader
  <1>8. CASE DownloadStarts
    BY <1>8 DEF DownloadStarts
  <1>9. CASE DownloadEnds
    BY <1>9 DEF DownloadEnds, Report
  <1>10. CASE OtaSucceeds
    BY <1>10 DEF OtaSucceeds, Report, FinishPasses
  <1>11. CASE OtaFails
    BY <1>11 DEF OtaFails, Report, FinishPasses
  <1>12. CASE WorkerFinishes
    BY <1>12 DEF WorkerFinishes, FinishFrees, FinishClears
  <1>13. CASE RebootTimerFires
    BY <1>13 DEF RebootTimerFires, Reboot
  <1>14. CASE PowerFails
    BY <1>14 DEF PowerFails, Reboot
  <1>15. CASE UNCHANGED vars
    BY <1>15 DEF vars
  <1> QED BY <1>1, <1>2, <1>3, <1>4, <1>5, <1>6, <1>7, <1>8, <1>9, <1>10, <1>11,
            <1>12, <1>13, <1>14, <1>15
          DEF Next, Callback, Worker

\* The work function's URL and device stay.
LEMMA UrlKept ==
    ASSUME IInv, [Next]_vars
    PROVE  UrlAlive'
  <1> USE OtaAssumption DEF IInv, TypeOK, job, wifi, flash, bounds, UrlAlive,
          OneJob, AskedOK, CallbackHas, QueueHas, WorkerHas
  <1>1. CASE \E i \in Images : UrlArrives(i)
    BY <1>1 DEF UrlArrives
  <1>2. CASE UrlStored
    BY <1>2 DEF UrlStored
  <1>3. CASE UrlQueued
    BY <1>3 DEF UrlQueued
  <1>4. CASE CallbackFinishes
    BY <1>4 DEF CallbackFinishes, FinishFrees, FinishClears
  <1>5. CASE OtaBegins
    BY <1>5 DEF OtaBegins
  <1>6. CASE HttpBegins
    BY <1>6 DEF HttpBegins, Report
  <1>7. CASE ImageDescribed
    BY <1>7 DEF ImageDescribed, Report, ValidImageHeader
  <1>8. CASE DownloadStarts
    BY <1>8 DEF DownloadStarts
  <1>9. CASE DownloadEnds
    BY <1>9 DEF DownloadEnds, Report
  <1>10. CASE OtaSucceeds
    BY <1>10 DEF OtaSucceeds, Report, FinishPasses
  <1>11. CASE OtaFails
    BY <1>11 DEF OtaFails, Report, FinishPasses
  <1>12. CASE WorkerFinishes
    BY <1>12 DEF WorkerFinishes, FinishFrees, FinishClears
  <1>13. CASE RebootTimerFires
    BY <1>13 DEF RebootTimerFires, Reboot
  <1>14. CASE PowerFails
    BY <1>14 DEF PowerFails, Reboot
  <1>15. CASE UNCHANGED vars
    BY <1>15 DEF vars
  <1> QED BY <1>1, <1>2, <1>3, <1>4, <1>5, <1>6, <1>7, <1>8, <1>9, <1>10, <1>11,
            <1>12, <1>13, <1>14, <1>15
          DEF Next, Callback, Worker

\* What runs is whole and of this project.
LEMMA FlashKept ==
    ASSUME IInv, [Next]_vars
    PROVE  FlashOK'
  <1> USE OtaAssumption DEF IInv, TypeOK, job, wifi, flash, bounds, FlashOK,
          UrlAlive, Good, Slots, Other
  <1>1. CASE \E i \in Images : UrlArrives(i)
    BY <1>1 DEF UrlArrives
  <1>2. CASE UrlStored
    BY <1>2 DEF UrlStored
  <1>3. CASE UrlQueued
    BY <1>3 DEF UrlQueued
  <1>4. CASE CallbackFinishes
    BY <1>4 DEF CallbackFinishes, FinishFrees, FinishClears
  <1>5. CASE OtaBegins
    BY <1>5 DEF OtaBegins
  <1>6. CASE HttpBegins
    BY <1>6 DEF HttpBegins, Report
  <1>7. CASE ImageDescribed
    BY <1>7 DEF ImageDescribed, Report, ValidImageHeader
  <1>8. CASE DownloadStarts
    BY <1>8 DEF DownloadStarts
  <1>9. CASE DownloadEnds
    BY <1>9 DEF DownloadEnds, Report
  <1>10. CASE OtaSucceeds
    BY <1>10 DEF OtaSucceeds, Report, FinishPasses
  <1>11. CASE OtaFails
    BY <1>11 DEF OtaFails, Report, FinishPasses
  <1>12. CASE WorkerFinishes
    BY <1>12 DEF WorkerFinishes, FinishFrees, FinishClears
  <1>13. CASE RebootTimerFires
    BY <1>13 DEF RebootTimerFires, Reboot
  <1>14. CASE PowerFails
    BY <1>14 DEF PowerFails, Reboot
  <1>15. CASE UNCHANGED vars
    BY <1>15 DEF vars
  <1> QED BY <1>1, <1>2, <1>3, <1>4, <1>5, <1>6, <1>7, <1>8, <1>9, <1>10, <1>11,
            <1>12, <1>13, <1>14, <1>15
          DEF Next, Callback, Worker

\* Power saving is restored.
LEMMA PowerSaveKept ==
    ASSUME IInv, [Next]_vars
    PROVE  PowerSaveOK'
  <1> USE OtaAssumption DEF IInv, TypeOK, job, wifi, flash, bounds, PowerSaveOK
  <1>1. CASE \E i \in Images : UrlArrives(i)
    BY <1>1 DEF UrlArrives
  <1>2. CASE UrlStored
    BY <1>2 DEF UrlStored
  <1>3. CASE UrlQueued
    BY <1>3 DEF UrlQueued
  <1>4. CASE CallbackFinishes
    BY <1>4 DEF CallbackFinishes, FinishFrees, FinishClears
  <1>5. CASE OtaBegins
    BY <1>5 DEF OtaBegins
  <1>6. CASE HttpBegins
    BY <1>6 DEF HttpBegins, Report
  <1>7. CASE ImageDescribed
    BY <1>7 DEF ImageDescribed, Report, ValidImageHeader
  <1>8. CASE DownloadStarts
    BY <1>8 DEF DownloadStarts
  <1>9. CASE DownloadEnds
    BY <1>9 DEF DownloadEnds, Report
  <1>10. CASE OtaSucceeds
    BY <1>10 DEF OtaSucceeds, Report, FinishPasses
  <1>11. CASE OtaFails
    BY <1>11 DEF OtaFails, Report, FinishPasses
  <1>12. CASE WorkerFinishes
    BY <1>12 DEF WorkerFinishes, FinishFrees, FinishClears
  <1>13. CASE RebootTimerFires
    BY <1>13 DEF RebootTimerFires, Reboot
  <1>14. CASE PowerFails
    BY <1>14 DEF PowerFails, Reboot
  <1>15. CASE UNCHANGED vars
    BY <1>15 DEF vars
  <1> QED BY <1>1, <1>2, <1>3, <1>4, <1>5, <1>6, <1>7, <1>8, <1>9, <1>10, <1>11,
            <1>12, <1>13, <1>14, <1>15
          DEF Next, Callback, Worker

\* Success is reported of what is staged.
LEMMA ReportsKept ==
    ASSUME IInv, [Next]_vars
    PROVE  ReportsOK'
  <1> USE OtaAssumption DEF IInv, TypeOK, job, wifi, flash, bounds, ReportsOK,
          FlashOK, SuccessIsStaged, Reported, Statuses, Slots, Other
  <1>1. CASE \E i \in Images : UrlArrives(i)
    BY <1>1 DEF UrlArrives
  <1>2. CASE UrlStored
    BY <1>2 DEF UrlStored
  <1>3. CASE UrlQueued
    BY <1>3 DEF UrlQueued
  <1>4. CASE CallbackFinishes
    BY <1>4 DEF CallbackFinishes, FinishFrees, FinishClears
  <1>5. CASE OtaBegins
    BY <1>5, OneReport DEF OtaBegins
  <1>6. CASE HttpBegins
    BY <1>6, ReportFacts DEF HttpBegins, Report
  <1>7. CASE ImageDescribed
    BY <1>7, ReportFacts DEF ImageDescribed, Report, ValidImageHeader
  <1>8. CASE DownloadStarts
    BY <1>8 DEF DownloadStarts
  <1>9. CASE DownloadEnds
    BY <1>9, ReportFacts, TwoReports DEF DownloadEnds, Report
  <1>10. CASE OtaSucceeds
    BY <1>10, ReportFacts DEF OtaSucceeds, Report, FinishPasses
  <1>11. CASE OtaFails
    BY <1>11, ReportFacts DEF OtaFails, Report, FinishPasses
  <1>12. CASE WorkerFinishes
    BY <1>12 DEF WorkerFinishes, FinishFrees, FinishClears
  <1>13. CASE RebootTimerFires
    BY <1>13, OneReport DEF RebootTimerFires, Reboot
  <1>14. CASE PowerFails
    BY <1>14, OneReport DEF PowerFails, Reboot
  <1>15. CASE UNCHANGED vars
    BY <1>15 DEF vars
  <1> QED BY <1>1, <1>2, <1>3, <1>4, <1>5, <1>6, <1>7, <1>8, <1>9, <1>10, <1>11,
            <1>12, <1>13, <1>14, <1>15
          DEF Next, Callback, Worker

\* Every step is a step of AtomicUpdate.
LEMMA AtomicStep ==
    ASSUME IInv, [Next]_vars
    PROVE  AuStep
  <1> USE OtaAssumption DEF IInv, TypeOK, job, wifi, flash, bounds, FlashOK,
          AskedOK, UrlAlive, BootImage, Good, Slots, Other, AuStep, AU!auVars,
          AU!AuNext, AU!Ask, AU!Stage, AU!Abandon, AU!Restart
  <1>1. CASE \E i \in Images : UrlArrives(i)
    BY <1>1 DEF UrlArrives
  <1>2. CASE UrlStored
    BY <1>2 DEF UrlStored
  <1>3. CASE UrlQueued
    BY <1>3 DEF UrlQueued
  <1>4. CASE CallbackFinishes
    BY <1>4 DEF CallbackFinishes, FinishFrees, FinishClears
  <1>5. CASE OtaBegins
    BY <1>5 DEF OtaBegins
  <1>6. CASE HttpBegins
    BY <1>6 DEF HttpBegins, Report
  <1>7. CASE ImageDescribed
    BY <1>7 DEF ImageDescribed, Report, ValidImageHeader
  <1>8. CASE DownloadStarts
    BY <1>8 DEF DownloadStarts
  <1>9. CASE DownloadEnds
    BY <1>9 DEF DownloadEnds, Report
  <1>10. CASE OtaSucceeds
    BY <1>10 DEF OtaSucceeds, Report, FinishPasses
  <1>11. CASE OtaFails
    BY <1>11 DEF OtaFails, Report, FinishPasses
  <1>12. CASE WorkerFinishes
    BY <1>12 DEF WorkerFinishes, FinishFrees, FinishClears
  <1>13. CASE RebootTimerFires
    BY <1>13 DEF RebootTimerFires, Reboot
  <1>14. CASE PowerFails
    BY <1>14 DEF PowerFails, Reboot
  <1>15. CASE UNCHANGED vars
    BY <1>15 DEF vars
  <1> QED BY <1>1, <1>2, <1>3, <1>4, <1>5, <1>6, <1>7, <1>8, <1>9, <1>10, <1>11,
            <1>12, <1>13, <1>14, <1>15
          DEF Next, Callback, Worker

\* The last report of an OTA is its result.
LEMMA ResultKept ==
    ASSUME FlashErrors = FALSE, ResultOK, IInv, [Next]_vars
    PROVE  ResultOK'
  <1> USE OtaAssumption DEF IInv, TypeOK, job, wifi, flash, bounds, ResultOK,
          FlashOK, Reported, Statuses
  <1>1. CASE \E i \in Images : UrlArrives(i)
    BY <1>1 DEF UrlArrives
  <1>2. CASE UrlStored
    BY <1>2 DEF UrlStored
  <1>3. CASE UrlQueued
    BY <1>3 DEF UrlQueued
  <1>4. CASE CallbackFinishes
    BY <1>4 DEF CallbackFinishes, FinishFrees, FinishClears
  <1>5. CASE OtaBegins
    BY <1>5, OneReport DEF OtaBegins
  <1>6. CASE HttpBegins
    BY <1>6, ReportFacts DEF HttpBegins, Report
  <1>7. CASE ImageDescribed
    BY <1>7, ReportFacts DEF ImageDescribed, Report, ValidImageHeader
  <1>8. CASE DownloadStarts
    BY <1>8 DEF DownloadStarts
  <1>9. CASE DownloadEnds
    BY <1>9, ReportFacts, TwoReports DEF DownloadEnds, Report
  <1>10. CASE OtaSucceeds
    BY <1>10, ReportFacts DEF OtaSucceeds, Report, FinishPasses
  <1>11. CASE OtaFails
    BY <1>11, ReportFacts DEF OtaFails, Report, FinishPasses
  <1>12. CASE WorkerFinishes
    BY <1>12 DEF WorkerFinishes, FinishFrees, FinishClears
  <1>13. CASE RebootTimerFires
    BY <1>13, OneReport DEF RebootTimerFires, Reboot
  <1>14. CASE PowerFails
    BY <1>14, OneReport DEF PowerFails, Reboot
  <1>15. CASE UNCHANGED vars
    BY <1>15 DEF vars
  <1> QED BY <1>1, <1>2, <1>3, <1>4, <1>5, <1>6, <1>7, <1>8, <1>9, <1>10, <1>11,
            <1>12, <1>13, <1>14, <1>15
          DEF Next, Callback, Worker

-----------------------------------------------------------------------------
\* The first state.
LEMMA OtaInit ==
    ASSUME Init
    PROVE  IInv /\ ResultOK /\ AU!AuInit
  <1>1. TypeOK
    BY OtaAssumption, OneReport DEF Init, TypeOK, Slots
  <1>2. OneJob /\ UrlAlive /\ AskedOK
    BY DEF Init, OneJob, UrlAlive, AskedOK, CallbackHas, QueueHas, WorkerHas
  <1>3. FlashOK /\ AU!AuInit
    BY OtaAssumption DEF Init, FlashOK, Good, Slots, Other, BootImage, AU!AuInit
  <1>4. PowerSaveOK /\ ReportsOK /\ ResultOK
    BY DEF Init, PowerSaveOK, ReportsOK, ResultOK, SuccessIsStaged, Reported
  <1> QED BY <1>1, <1>2, <1>3, <1>4 DEF IInv

\* Every step keeps the invariant.
LEMMA OtaStep ==
    ASSUME IInv, [Next]_vars
    PROVE  IInv'
  <1>1. TypeOK'
    BY ControlKept, UrlsKept, FlagsKept, FlashTypeKept, ReportsTypeKept
       DEF TypeOK, ControlTyped, UrlsTyped, FlagsTyped, FlashTyped, ReportsTyped
  <1> QED BY <1>1, JobKept, UrlKept, FlashKept, PowerSaveKept, ReportsKept DEF IInv

\* The invariant in every state.
LEMMA OtaInvariant == Spec => []IInv
  <1>1. Init => IInv
    BY OtaInit
  <1>2. IInv /\ [Next]_vars => IInv'
    BY OtaStep
  <1> QED BY <1>1, <1>2, PTL DEF Spec

\* Every variable keeps its type and the work queue never holds two OTAs, for
\* every set of images and every number of URLs and restarts.
THEOREM OtaTyped == Spec => []TypeOK
  <1>1. IInv => TypeOK
    BY DEF IInv
  <1> QED BY <1>1, OtaInvariant, PTL

\* ota_in_progress is set exactly while one URL is being worked on, by one
\* thread.
THEOREM OneJobAlways == Spec => []OneJob
  <1>1. IInv => OneJob
    BY DEF IInv
  <1> QED BY <1>1, OtaInvariant, PTL

\* Neither the URL nor the device of esp_rmaker_ota_t is freed or replaced
\* under the work function.
THEOREM UrlStaysAlive == Spec => []UrlAlive
  <1>1. IInv => UrlAlive
    BY DEF IInv
  <1> QED BY <1>1, OtaInvariant, PTL

\* Every way out of esp_rmaker_ota_default_cb and of the callback cleans up.
THEOREM OtaCleansUp == Spec => []RestIsClean
  <1>1. IInv => RestIsClean
    <2> SUFFICES ASSUME IInv, ~ota_in_progress
                 PROVE  url = NoUrl /\ ~transient_priv /\ ps = "default"
      BY DEF RestIsClean
    <2>1. w = "idle"
      BY DEF IInv, OneJob, WorkerHas
    <2> QED BY <2>1 DEF IInv, AskedOK, PowerSaveOK
  <1> QED BY <1>1, OtaInvariant, PTL

\* While success is the last report, the image it is about is the one that the
\* scheduled reboot starts.
THEOREM SuccessMeansStaged == Spec => []SuccessIsStaged
  <1>1. IInv => SuccessIsStaged
    BY DEF IInv, ReportsOK
  <1> QED BY <1>1, OtaInvariant, PTL

\* As long as esp_https_ota_finish fails only on images that are not valid,
\* every OTA reports its result last.
THEOREM OtaReportsResult ==
    ASSUME FlashErrors = FALSE
    PROVE  Spec => []ResultReported
  <1>1. Init => ResultOK
    BY OtaInit
  <1>2. IInv /\ ResultOK /\ [Next]_vars => ResultOK'
    BY ResultKept
  <1>3. ResultOK => ResultReported
    BY DEF ResultOK, ResultReported
  <1> QED BY <1>1, <1>2, <1>3, OtaInvariant, PTL DEF Spec

\* Updates are atomic: whenever the power fails, the node runs a whole image of
\* its own project, and a new one only after it was asked for.
THEOREM OtaIsAtomic == Spec => AtomicUpdateSpec
  <1>1. Init => AU!AuInit
    BY OtaInit
  <1>2. IInv /\ [Next]_vars => [AU!AuNext]_(AU!auVars)
    BY AtomicStep DEF AuStep
  <1> QED BY <1>1, <1>2, OtaInvariant, PTL DEF Spec, AtomicUpdateSpec, AU!AuSpec

\* For any images, requests and restarts, esp_rmaker_ota_t belongs to one OTA at a time
\* until esp_rmaker_ota_finish_using_params has cleaned up.
THEOREM JobInvariant == Spec => []JobInv
<1>1. TypeOK /\ OneJob /\ UrlAlive /\ RestIsClean => JobInv
      BY DEF JobInv
<1> QED BY <1>1, OtaTyped, OneJobAlways, UrlStaysAlive, OtaCleansUp, PTL

\* As long as esp_https_ota_finish fails only on images that are not valid, what
\* esp_rmaker_ota_report_status tells the cloud last is the result, and true.
THEOREM OtaReportsTrue ==
    ASSUME FlashErrors = FALSE
    PROVE  Spec => []ReportsTrue
<1>1. ResultReported /\ SuccessIsStaged => ReportsTrue
      BY DEF ReportsTrue
<1>2. Spec => []ResultReported
      BY OtaReportsResult
<1> QED BY <1>1, <1>2, SuccessMeansStaged, PTL
=============================================================================
