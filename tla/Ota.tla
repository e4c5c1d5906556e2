-------------------------------- MODULE Ota --------------------------------
(***************************************************************************)
(* Firmware updates: the URL parameter and the work function of            *)
(* ota/esp_rmaker_ota_using_params.c and ota/esp_rmaker_ota.c, the delayed *)
(* reboot of rmaker_common/src/utils.c, and the two partitions that images *)
(* are kept in.                                                            *)
(*                                                                         *)
(* Two threads meet on the ota structure: the MQTT task, which runs        *)
(* esp_rmaker_ota_service_cb for a URL ("callback"), and the task of the   *)
(* work queue, which runs esp_rmaker_ota_common_cb ("worker").  The power  *)
(* may fail at any step.  As the project configures them: updates with     *)
(* parameters, the default callback, version and project checked, no       *)
(* rollback.  Memory is never short.  A URL stands for the image at it,    *)
(* and every image has its own version.                                    *)
(***************************************************************************)
EXTENDS Naturals, Sequences, SequencesExt

CONSTANTS Images,       \* images that a URL may name
          Corrupt,      \* those whose data does not match its checksum
          Foreign,      \* those of another project
          First,        \* the image from the factory
          Partial,      \* what a partition holds while it is written
          NoUrl,        \* a null pointer
          FlashErrors,  \* whether esp_https_ota_finish may fail on a good image
          MaxRequests,  \* bound: URLs that arrive
          MaxRestarts   \* bound: failures of the power

ASSUME OtaAssumption ==
    /\ Corrupt \subseteq Images /\ Foreign \subseteq Images
    /\ First \in Images \ (Corrupt \cup Foreign)
    /\ Partial \notin Images /\ NoUrl \notin Images
    /\ FlashErrors \in BOOLEAN
    /\ MaxRequests \in Nat /\ MaxRestarts \in Nat

VARIABLES
    url, ota_in_progress,   \* members of esp_rmaker_ota_t
    transient_priv,         \* whether the device to report with is set
    cb, val,                \* the callback: where it is, and its argument
    queued,                 \* OTA functions in the work queue
    w, target,              \* the work function: where it is, and ota_data.url
    err,                    \* err of esp_rmaker_ota_default_cb
    written,                \* whether esp_https_ota_perform has begun to write
    ps, ps_type,            \* Wi-Fi power save, and what the work function saved of it
    image, boot, running,   \* the two partitions, the one to boot, the one booted
    reboot_timer,           \* whether the reboot timer exists
    reports,                \* statuses reported during the current OTA
    asked,                  \* history: images whose URL was accepted
    requests, restarts      \* counters for the bounds

job == <<url, ota_in_progress, transient_priv, queued>>
wifi == <<ps, ps_type>>
flash == <<image, boot, running>>
bounds == <<requests, restarts>>
vars == <<job, cb, val, w, target, err, written, wifi, flash, reboot_timer,
          reports, asked, bounds>>

Slots == {0, 1}
Other(s) == 1 - s
Good == Images \ (Corrupt \cup Foreign)
Statuses == {"in-progress", "success", "failed"}

\* The image that the bootloader takes: that of the other partition when the
\* chosen one does not pass its check.
BootImage == IF image[boot] \in Images \ Corrupt THEN image[boot] ELSE image[Other(boot)]

Init ==
    /\ url = NoUrl /\ ota_in_progress = FALSE /\ transient_priv = FALSE
    /\ cb = "idle" /\ val = NoUrl /\ queued = 0
    /\ w = "idle" /\ target = NoUrl /\ err = "ok" /\ written = FALSE
    /\ ps = "default" /\ ps_type = "default" /\ reboot_timer = FALSE /\ reports = << >>
    /\ image = [s \in Slots |-> IF s = 0 THEN First ELSE Partial]
    /\ boot = 0 /\ running = 0
    /\ asked = {} /\ requests = 0 /\ restarts = 0

-----------------------------------------------------------------------------
(***************************************************************************)
(* The callback, on the MQTT task.                                         *)
(***************************************************************************)

\* A URL is written to the parameter; it is refused during an OTA.
UrlArrives(i) ==
    /\ cb = "idle" /\ requests < MaxRequests
    /\ requests' = requests + 1
    /\ IF ota_in_progress
         THEN UNCHANGED <<cb, val, asked>>
         ELSE cb' = "store" /\ val' = i /\ asked' = asked \cup {i}
    /\ UNCHANGED <<job, w, target, err, written, wifi, flash, reboot_timer,
                   reports, restarts>>

UrlStored ==
    /\ cb = "store"
    /\ url' = val /\ ota_in_progress' = TRUE /\ transient_priv' = TRUE
    /\ cb' = "queue"
    /\ UNCHANGED <<val, queued, w, target, err, written, wifi, flash,
                   reboot_timer, reports, asked, bounds>>

\* esp_rmaker_work_queue_add_task accepts the function, or is full.
UrlQueued ==
    /\ cb = "queue"
    /\ \/ queued' = queued + 1 /\ cb' = "idle"
       \/ queued' = queued /\ cb' = "free"
    /\ UNCHANGED <<url, ota_in_progress, transient_priv, val, w, target, err,
                   written, wifi, flash, reboot_timer, reports, asked, bounds>>

(***************************************************************************)
(* esp_rmaker_ota_finish_using_params, called by either thread: the URL is *)
(* freed first, the flag is cleared last.                                  *)
(***************************************************************************)
FinishFrees == url' = NoUrl /\ UNCHANGED <<ota_in_progress, transient_priv, queued>>

FinishClears ==
    /\ transient_priv' = FALSE /\ ota_in_progress' = FALSE
    /\ UNCHANGED <<url, queued>>

CallbackFinishes ==
    /\ \/ cb = "free" /\ cb' = "clear" /\ FinishFrees
       \/ cb = "clear" /\ cb' = "idle" /\ FinishClears
    /\ UNCHANGED <<val, w, target, err, written, wifi, flash, reboot_timer,
                   reports, asked, bounds>>

\* Mutant: the flag is cleared before the URL is freed.
WorkerClearsFirst ==
    /\ \/ w = "free" /\ w' = "clear" /\ FinishClears
       \/ w = "clear" /\ w' = "idle" /\ FinishFrees
    /\ UNCHANGED <<cb, val, target, err, written, wifi, flash, reboot_timer,
                   reports, asked, bounds>>

WorkerFinishes ==
    /\ \/ w = "free" /\ w' = "clear" /\ FinishFrees
       \/ w = "clear" /\ w' = "idle" /\ FinishClears
    /\ UNCHANGED <<cb, val, target, err, written, wifi, flash, reboot_timer,
                   reports, asked, bounds>>

-----------------------------------------------------------------------------
(***************************************************************************)
(* The work function.  esp_https_ota, the network and the flash decide     *)
(* between the alternatives of a step.                                     *)
(***************************************************************************)
Report(status) == reports' = Append(reports, status)

OtaBegins ==
    /\ w = "idle" /\ queued > 0
    /\ queued' = queued - 1
    /\ target' = url
    /\ reports' = IF url = NoUrl THEN << >> ELSE <<"in-progress">>
    /\ w' = IF url = NoUrl THEN "free" ELSE "begin"
    /\ err' = "ok" /\ written' = FALSE
    /\ UNCHANGED <<url, ota_in_progress, transient_priv, cb, val, wifi, flash,
                   reboot_timer, asked, bounds>>

HttpBegins ==
    /\ w = "begin"
    /\ \/ w' = "desc" /\ ps_type' = ps /\ ps' = "none" /\ UNCHANGED reports
       \/ w' = "free" /\ Report("failed") /\ UNCHANGED wifi
    /\ UNCHANGED <<job, cb, val, target, err, written, flash, reboot_timer,
                   asked, bounds>>

\* Mutant: the name of the project is not compared.
ValidVersion == target # image[running]

\* validate_image_header
ValidImageHeader == target # image[running] /\ target \notin Foreign

\* Mutant: a rejected image is not reported.
RejectedSilently ==
    /\ w = "desc"
    /\ \/ ValidImageHeader /\ w' = "download" /\ Report("in-progress") /\ UNCHANGED err
       \/ w' = "end" /\ UNCHANGED reports /\ err' = "fail"
    /\ UNCHANGED <<job, cb, val, target, written, wifi, flash, reboot_timer,
                   asked, bounds>>

ImageDescribed ==
    /\ w = "desc"
    /\ \/ ValidImageHeader /\ w' = "download" /\ Report("in-progress") /\ UNCHANGED err
       \/ w' = "end" /\ Report("failed") /\ err' = "fail"
    /\ UNCHANGED <<job, cb, val, target, written, wifi, flash, reboot_timer,
                   asked, bounds>>

\* The first esp_https_ota_perform erases the partition that does not run.
DownloadStarts ==
    /\ w = "download"
    /\ w' = "receiving" /\ written' = TRUE
    /\ image' = [image EXCEPT ![Other(running)] = Partial]
    /\ UNCHANGED <<job, cb, val, target, err, wifi, boot, running, reboot_timer,
                   reports, asked, bounds>>

\* The loop around esp_https_ota_perform ends: all data received and written,
\* not all received, or all received and not written.
DownloadEnds ==
    /\ w = "receiving"
    /\ \/ /\ image' = [image EXCEPT ![Other(running)] = target]
          /\ Report("in-progress") /\ UNCHANGED err
       \/ Report("failed") /\ err' = "fail" /\ UNCHANGED image
       \/ /\ reports' = reports \o <<"failed", "in-progress">>
          /\ err' = "fail" /\ UNCHANGED image
    /\ w' = "end"
    /\ UNCHANGED <<job, cb, val, target, written, wifi, boot, running,
                   reboot_timer, asked, bounds>>

\* esp_https_ota_finish checks what was written and chooses it for the next
\* boot, if all of it was received.
FinishPasses == image[Other(running)] \in Images \ Corrupt

OtaSucceeds ==
    /\ w = "end" /\ err = "ok" /\ FinishPasses
    /\ boot' = Other(running)
    /\ Report("success") /\ reboot_timer' = TRUE
    /\ ps' = ps_type /\ w' = "free"
    /\ UNCHANGED <<job, cb, val, target, err, written, ps_type, image, running,
                   asked, bounds>>

OtaFails ==
    /\ w = "end"
    /\ \/ written /\ ~FinishPasses /\ Report("failed")
       \/ (~written \/ FlashErrors) /\ UNCHANGED reports
    /\ ps' = ps_type /\ w' = "free"
    /\ UNCHANGED <<job, cb, val, target, err, written, ps_type, flash,
                   reboot_timer, asked, bounds>>

-----------------------------------------------------------------------------
(***************************************************************************)
(* Restarts, by esp_rmaker_reboot_cb or because the power fails.           *)
(***************************************************************************)
Reboot ==
    /\ url' = NoUrl /\ ota_in_progress' = FALSE /\ transient_priv' = FALSE
    /\ cb' = "idle" /\ val' = NoUrl /\ queued' = 0
    /\ w' = "idle" /\ target' = NoUrl /\ err' = "ok" /\ written' = FALSE
    /\ ps' = "default" /\ ps_type' = "default" /\ reboot_timer' = FALSE /\ reports' = << >>
    /\ running' = IF image[boot] \in Images \ Corrupt THEN boot ELSE Other(boot)
    /\ UNCHANGED <<image, boot, asked, requests>>

\* Mutant: the timer starts again instead of the node.
RebootTimerRearms == reboot_timer /\ UNCHANGED vars

RebootTimerFires == reboot_timer /\ Reboot /\ UNCHANGED restarts

PowerFails == restarts < MaxRestarts /\ restarts' = restarts + 1 /\ Reboot

Callback == UrlStored \/ UrlQueued \/ CallbackFinishes

Worker ==
    \/ OtaBegins \/ HttpBegins \/ ImageDescribed \/ DownloadStarts \/ DownloadEnds
    \/ OtaSucceeds \/ OtaFails \/ WorkerFinishes

Next ==
    \/ \E i \in Images : UrlArrives(i)
    \/ Callback \/ Worker \/ RebootTimerFires \/ PowerFails

Spec == Init /\ [][Next]_vars

FairSpec == Spec /\ WF_vars(Callback) /\ WF_vars(Worker) /\ WF_vars(RebootTimerFires)

-----------------------------------------------------------------------------
(***************************************************************************)
(* Properties                                                              *)
(***************************************************************************)
Reported(status) == reports # << >> /\ Last(reports) = status

\* Every variable has its type, and the work queue never holds two OTAs.
TypeOK ==
    /\ url \in Images \cup {NoUrl} /\ val \in Images \cup {NoUrl}
    /\ target \in Images \cup {NoUrl}
    /\ ota_in_progress \in BOOLEAN /\ transient_priv \in BOOLEAN
    /\ cb \in {"idle", "store", "queue", "free", "clear"}
    /\ queued \in {0, 1}
    /\ w \in {"idle", "begin", "desc", "download", "receiving", "end", "free", "clear"}
    /\ err \in {"ok", "fail"} /\ written \in BOOLEAN
    /\ ps \in {"default", "none"} /\ ps_type \in {"default", "none"}
    /\ image \in [Slots -> Images \cup {Partial}] /\ boot \in Slots /\ running \in Slots
    /\ reboot_timer \in BOOLEAN
    /\ reports \in Seq(Statuses) /\ asked \subseteq Images
    /\ requests \in 0..MaxRequests /\ restarts \in 0..MaxRestarts

CallbackHas == cb \in {"queue", "free", "clear"}
QueueHas == queued > 0
WorkerHas == w # "idle"

\* ota_in_progress tells exactly whether an accepted URL is being queued, is
\* queued, is worked on or given up, and at most one is: the flag never stays
\* set without an OTA that will clear it, and never admits a second URL.
OneJob ==
    /\ ota_in_progress <=> CallbackHas \/ QueueHas \/ WorkerHas
    /\ ~(CallbackHas /\ (QueueHas \/ WorkerHas)) /\ ~(QueueHas /\ WorkerHas)

\* The URL that the work function reads and the device that it reports with
\* stay as they were when the URL was accepted (neither is freed, replaced or
\* cleared under it by the callback).
UrlAlive ==
    /\ queued = 1 => url # NoUrl /\ transient_priv
    /\ w \notin {"idle", "free", "clear"} => url # NoUrl /\ url = target /\ transient_priv

\* When no OTA is in progress nothing of one is left behind: no URL, no
\* device, and Wi-Fi saves power as before, also after the early ends.
RestIsClean ==
    ~ota_in_progress /\ cb \in {"idle", "store"} =>
        url = NoUrl /\ ~transient_priv /\ ps = "default"

\* Each OTA that ends tells the cloud its result last ("relevant error will
\* already be reported in some earlier step", esp_rmaker_ota.c:238).
ResultReported ==
    w = "idle" /\ reports # << >> => Reported("success") \/ Reported("failed")

\* While success is the last report, the next boot takes the image it is
\* about and the reboot is scheduled.
SuccessIsStaged ==
    Reported("success") => boot # running /\ image[boot] = target /\ reboot_timer

\* The node always runs a whole image of its own project, and changes it only
\* at a restart and to one that was asked for, whenever the power fails.
AU == INSTANCE AtomicUpdate WITH version <- image[running], next <- BootImage

AtomicUpdateSpec == AU!AuSpec

\* Every OTA comes to an end, so that later URLs are accepted.
OtaCompletes == ota_in_progress ~> ~ota_in_progress

\* An image that waits for a restart gets it, or is given up by a later OTA.
StagedRuns == BootImage # image[running] ~> BootImage = image[running]

\* esp_rmaker_ota_t belongs to one OTA at a time, from the acceptance of a URL until
\* everything of it is cleaned up; every variable has its type.
JobInv == TypeOK /\ OneJob /\ UrlAlive /\ RestIsClean

\* What the cloud is told is true and complete: each OTA ends with its result, and
\* success means that the scheduled reboot starts the new image.
ReportsTrue == ResultReported /\ SuccessIsStaged

\* Every OTA ends, and what it staged is booted or given up.
UpdatesEnd == OtaCompletes /\ StagedRuns
=============================================================================
