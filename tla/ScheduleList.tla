---------------------------- MODULE ScheduleList ----------------------------
(***************************************************************************)
(* The list of schedules of core/esp_rmaker_schedule.c: the operations the *)
(* cloud asks for (on the MQTT task), the timers of the schedules, their   *)
(* callbacks on the work queue, the wait for the clock to be set, and the  *)
(* copy in flash that survives a restart.  A report copies the list and    *)
(* stores the copy later, on the task that reports and without a lock: the *)
(* reports of the two tasks may overlap, and end in either order.          *)
(*                                                                         *)
(* When a schedule triggers is Schedule's subject; here a schedule is      *)
(* either "once" or "repeat", and next_timestamp says whether the one time *)
(* is known and still ahead.  The schedule whose action is being executed  *)
(* is not edited or removed meanwhile: the code would use freed memory.    *)
(***************************************************************************)
EXTENDS Integers, Sequences

CONSTANTS Ids,             \* identifiers the cloud gives to schedules
          MAX_SCHEDULES,
          QueueFree,       \* slots of the work queue, which other functions may fill
          BeforeSync,      \* the cloud may operate before the clock is set
          MaxAdds,         \* bound: schedules created since the last restart
          MaxFired         \* bound: triggers of a one-time schedule since it was last enabled

ASSUME ListAssumption ==
    /\ {MAX_SCHEDULES, QueueFree} \subseteq Nat \ {0}
    /\ {MaxAdds, MaxFired} \subseteq Nat /\ BeforeSync \in BOOLEAN

VARIABLES
    schedule_list,
    index,           \* schedule_priv_data->index, the next schedule's
    time_sync_state, time_sync_timer,
    refused,         \* the work queue refused the callback of that timer
    clock,           \* esp_rmaker_time_check()
    queue,           \* the work queue: callbacks to execute
    acting,          \* the trigger whose action is being executed
    reporting,       \* the tasks that have copied the list and not yet stored it
    copies,          \* the list as each task reports it, and as flash holds it
    newest,          \* where the newest copy is
    adds,            \* schedules created since the last restart
    fired,           \* triggers of each one-time schedule since the cloud last enabled it
    old              \* the ids of which a copy tells of an earlier time than that

syncVars == <<time_sync_state, time_sync_timer, refused>>
reportVars == <<reporting, copies, newest, old>>
vars == <<schedule_list, index, syncVars, clock, queue, acting, reportVars, adds, fired>>

Tasks  == {"mqtt", "work"}
Holders == Tasks \cup {"flash"}
Kinds  == {"once", "repeat"}
Stamps == {"none", "ahead", "passed"}
SYNC   == [index |-> -1, born |-> -1]    \* the callback of the clock's timer
NONE   == [index |-> -2, born |-> -2, found |-> -2]

\* born tells schedules apart that have the same identifier; lost means that the
\* work queue refused the trigger.
NewSchedule(id, kind, i, b) ==
    [id |-> id, kind |-> kind, index |-> i, enabled |-> FALSE, armed |-> FALSE,
     next_timestamp |-> "none", born |-> b, lost |-> FALSE]

\* parse_trigger: a request of the cloud carries no time.
parse_trigger(s, kind) == [s EXCEPT !.kind = kind, !.next_timestamp = "none"]

Has(id) == \E k \in DOMAIN schedule_list : schedule_list[k].id = id

\* The places of the schedules with an index, at most one.
FromIndex(i) == {k \in DOMAIN schedule_list : schedule_list[k].index = i}

add_to_list(s) == Append(schedule_list, s)

\* The schedules after the one removed move up.
remove_from_list(k) ==
    [j \in 1..(Len(schedule_list) - 1) |-> schedule_list[IF j < k THEN j ELSE j + 1]]

is_expired(s) == s.kind = "once" /\ s.next_timestamp = "passed"

operation_disable(s) == [s EXCEPT !.enabled = FALSE, !.armed = FALSE,
                                  !.next_timestamp = "none"]

\* Mutant: a one-time schedule is enabled whether its time has passed or not.
EnableAnyway(s, sync) ==
    IF sync # "DONE" THEN [s EXCEPT !.enabled = TRUE]
    ELSE [s EXCEPT !.enabled = TRUE, !.armed = TRUE, !.lost = FALSE,
                   !.next_timestamp = IF s.kind = "once" THEN "ahead" ELSE @]

\* What operation_enable makes of a schedule when the state of the
\* synchronisation is then sync.
operation_enable(s, sync) ==
    IF sync # "DONE" THEN [s EXCEPT !.enabled = TRUE]
    ELSE IF is_expired(s) THEN operation_disable(s)
    ELSE [s EXCEPT !.enabled = TRUE, !.armed = TRUE, !.lost = FALSE,
                   !.next_timestamp = IF s.kind = "once" THEN "ahead" ELSE @]

\* The first schedule that is enabled finds out whether the clock is set.
SyncState(state, isSet) ==
    IF state # "NOT_STARTED" THEN state ELSE IF isSet THEN "DONE" ELSE "STARTED"

StartSync ==
    /\ time_sync_state' = SyncState(time_sync_state, clock)
    /\ time_sync_timer' = (time_sync_timer \/ (time_sync_state = "NOT_STARTED" /\ ~clock))
    /\ UNCHANGED refused

-----------------------------------------------------------------------------
(* The cloud: write_cb, which parses the operations, performs them and     *)
(* reports all schedules.                                                  *)

\* The MQTT task handles the next message when it has reported the last one.
MayOperate ==
    "mqtt" \notin reporting /\ (BeforeSync \/ (clock /\ time_sync_state # "STARTED"))
InUse(s) == acting.index = s.index

\* get_params writes what a restart needs of each schedule.
Written(s) == [id |-> s.id, kind |-> s.kind, enabled |-> s.enabled,
               next_timestamp |-> s.next_timestamp]

\* Task t has copied list.  It told of every schedule in it; the copies
\* elsewhere know nothing of the ones that the cloud has just enabled.
Copied(t, list, enabled) ==
    /\ reporting' = reporting \cup {t}
    /\ copies' = [copies EXCEPT ![t] = [k \in DOMAIN list |-> Written(list[k])]]
    /\ newest' = t
    /\ old' = [p \in Holders |-> IF p = t THEN {} ELSE old[p] \cup enabled]
    /\ fired' = [id \in Ids |-> IF id \in enabled THEN 0 ELSE fired[id]]

\* report_params, up to the copy; StoreReport is the rest of it.
report_params(t, enabled) == Copied(t, schedule_list', enabled)

\* esp_rmaker_param_update_and_report stores the copy, whatever was stored since
\* it was made.
StoreReport(t) ==
    /\ t \in reporting /\ reporting' = reporting \ {t}
    /\ copies' = [copies EXCEPT !["flash"] = copies[t], ![t] = <<>>]
    /\ old' = [old EXCEPT !["flash"] = old[t], ![t] = {}]
    /\ newest' = IF newest = t THEN "flash" ELSE IF newest = "flash" THEN "none" ELSE newest
    /\ UNCHANGED <<schedule_list, index, syncVars, clock, queue, acting, adds, fired>>

\* Mutant: the index is the schedule's place in the list.
AddAtPlace(id, kind) ==
    /\ MayOperate /\ adds < MaxAdds /\ ~Has(id)
    /\ adds' = adds + 1 /\ index' = index + 1
    /\ Len(schedule_list) < MAX_SCHEDULES
    /\ schedule_list' = add_to_list(
           operation_enable(NewSchedule(id, kind, Len(schedule_list), adds),
                            SyncState(time_sync_state, clock)))
    /\ StartSync /\ report_params("mqtt", {id})
    /\ UNCHANGED <<clock, queue, acting>>

\* A new schedule is enabled at once; a full list refuses it, its index gone.
operation_add(id, kind) ==
    /\ MayOperate /\ adds < MaxAdds /\ ~Has(id)
    /\ adds' = adds + 1 /\ index' = index + 1
    /\ IF Len(schedule_list) < MAX_SCHEDULES
       THEN /\ schedule_list' = add_to_list(
                   operation_enable(NewSchedule(id, kind, index, adds),
                                    SyncState(time_sync_state, clock)))
            /\ StartSync /\ report_params("mqtt", {id})
       ELSE UNCHANGED <<schedule_list, syncVars>> /\ report_params("mqtt", {})
    /\ UNCHANGED <<clock, queue, acting>>

\* An enabled schedule is disabled and enabled again, with the new trigger.
operation_edit(k, kind) ==
    LET s == parse_trigger(schedule_list[k], kind) IN
    /\ MayOperate /\ ~InUse(s)
    /\ schedule_list' = [schedule_list EXCEPT ![k] =
           IF s.enabled
           THEN operation_enable(operation_disable(s), SyncState(time_sync_state, clock))
           ELSE s]
    /\ IF s.enabled THEN StartSync ELSE UNCHANGED syncVars
    /\ report_params("mqtt", {s.id})
    /\ UNCHANGED <<index, clock, queue, acting, adds>>

operation_remove(k) ==
    /\ MayOperate /\ ~InUse(schedule_list[k])
    /\ schedule_list' = remove_from_list(k)
    /\ report_params("mqtt", {})
    /\ UNCHANGED <<index, syncVars, clock, queue, acting, adds>>

Enable(k) ==
    /\ MayOperate
    /\ schedule_list' = [schedule_list EXCEPT ![k] =
           operation_enable(@, SyncState(time_sync_state, clock))]
    /\ StartSync
    /\ report_params("mqtt", IF schedule_list[k].enabled THEN {} ELSE {schedule_list[k].id})
    /\ UNCHANGED <<index, clock, queue, acting, adds>>

Disable(k) ==
    /\ MayOperate
    /\ schedule_list' = [schedule_list EXCEPT ![k] = operation_disable(@)]
    /\ report_params("mqtt", {})
    /\ UNCHANGED <<index, syncVars, clock, queue, acting, adds>>

-----------------------------------------------------------------------------
(* Timers (the FreeRTOS timer task) and their callbacks (the work queue). *)

\* esp_schedule_common_timer_cb and trigger_common_cb, as one step.
TimerFires(k) ==
    LET s == schedule_list[k] IN
    \E room \in BOOLEAN :
       /\ s.armed /\ clock
       /\ room => Len(queue) < QueueFree
       /\ s.kind = "once" => fired[s.id] < MaxFired
       /\ queue' = IF room THEN Append(queue, [index |-> s.index, born |-> s.born]) ELSE queue
       /\ schedule_list' = [schedule_list EXCEPT ![k] =
              IF s.kind = "repeat" THEN s
              ELSE [s EXCEPT !.armed = FALSE, !.next_timestamp = "passed", !.lost = ~room]]
       /\ fired' = IF s.kind = "once" THEN [fired EXCEPT ![s.id] = @ + 1] ELSE fired
       /\ UNCHANGED <<index, syncVars, clock, acting, reportVars, adds>>

\* The work queue takes the next callback when the last one, its report included,
\* is over.
Idle == acting = NONE /\ "work" \notin reporting

\* The schedule is looked up by its index; it may be gone.
WorkBegins ==
    /\ Idle /\ queue # <<>> /\ Head(queue) # SYNC
    /\ queue' = Tail(queue)
    /\ LET w == Head(queue)
           found == FromIndex(w.index)
       IN acting' = IF found = {} THEN NONE
                    ELSE [index |-> w.index, born |-> w.born,
                          found |-> schedule_list[CHOOSE k \in found : \A j \in found : k <= j].born]
    /\ UNCHANGED <<schedule_list, index, syncVars, clock, reportVars, adds, fired>>

\* The action has been executed: disable the schedule if that was its last time.
WorkEnds ==
    /\ acting # NONE /\ acting' = NONE
    /\ LET Done(s) == s.index = acting.index /\ is_expired(s) IN
       IF \E k \in DOMAIN schedule_list : Done(schedule_list[k])
       THEN /\ schedule_list' = [k \in DOMAIN schedule_list |->
                   IF Done(schedule_list[k]) THEN operation_disable(schedule_list[k])
                                             ELSE schedule_list[k]]
            /\ report_params("work", {})
       ELSE UNCHANGED <<schedule_list, reportVars, fired>>
    /\ UNCHANGED <<index, syncVars, clock, queue, adds>>

timesync_timer_cb ==
    /\ time_sync_timer /\ time_sync_timer' = FALSE
    /\ \/ Len(queue) < QueueFree /\ queue' = Append(queue, SYNC) /\ UNCHANGED refused
       \/ refused' = TRUE /\ UNCHANGED queue
    /\ UNCHANGED <<schedule_list, index, time_sync_state, clock, acting, reportVars, adds, fired>>

\* Mutant: the timer is not started again while the clock is not set.
SyncGivesUp ==
    /\ Idle /\ queue # <<>> /\ Head(queue) = SYNC
    /\ queue' = Tail(queue)
    /\ IF clock
       THEN /\ time_sync_state' = "DONE"
            /\ schedule_list' = [k \in DOMAIN schedule_list |->
                   IF schedule_list[k].enabled THEN operation_enable(schedule_list[k], "DONE")
                                               ELSE schedule_list[k]]
       ELSE UNCHANGED <<time_sync_state, schedule_list>>
    /\ UNCHANGED <<index, time_sync_timer, refused, clock, acting, reportVars, adds, fired>>

\* Mutant: only the first schedule of the list is enabled.
SyncEnablesFirst ==
    /\ Idle /\ queue # <<>> /\ Head(queue) = SYNC
    /\ queue' = Tail(queue)
    /\ IF clock
       THEN /\ time_sync_state' = "DONE" /\ UNCHANGED time_sync_timer
            /\ schedule_list' = [k \in DOMAIN schedule_list |->
                   IF k = 1 /\ schedule_list[k].enabled
                   THEN operation_enable(schedule_list[k], "DONE") ELSE schedule_list[k]]
       ELSE time_sync_timer' = TRUE /\ UNCHANGED <<time_sync_state, schedule_list>>
    /\ UNCHANGED <<index, refused, clock, acting, reportVars, adds, fired>>

\* timesync_timer_work_cb: ask again later, or enable all that wait.  Each
\* schedule found expired is reported with the list as it is then, the last one
\* here: the times of the ones enabled later are not stored.
timesync_timer_work_cb ==
    /\ Idle /\ queue # <<>> /\ Head(queue) = SYNC
    /\ queue' = Tail(queue)
    /\ IF clock
       THEN LET Waits(k) == schedule_list[k].enabled
                After(k) == IF Waits(k) THEN operation_enable(schedule_list[k], "DONE")
                                        ELSE schedule_list[k]
                expired  == {k \in DOMAIN schedule_list : Waits(k) /\ is_expired(schedule_list[k])}
            IN /\ time_sync_state' = "DONE" /\ UNCHANGED time_sync_timer
               /\ schedule_list' = [k \in DOMAIN schedule_list |-> After(k)]
               /\ IF expired = {} THEN UNCHANGED <<reportVars, fired>>
                  ELSE Copied("work", [k \in DOMAIN schedule_list |->
                                  IF \E j \in expired : k <= j THEN After(k) ELSE schedule_list[k]], {})
       ELSE time_sync_timer' = TRUE /\ UNCHANGED <<time_sync_state, schedule_list, reportVars, fired>>
    /\ UNCHANGED <<index, refused, clock, acting, adds>>

-----------------------------------------------------------------------------
(* The clock, and restarts. *)

ClockIsSet ==
    /\ ~clock /\ clock' = TRUE
    /\ UNCHANGED <<schedule_list, index, syncVars, queue, acting, reportVars, adds, fired>>

stored == copies["flash"]

\* The schedules in flash are added again, with new indexes; write_cb does not
\* report while it loads.  A time that was ahead may have passed meanwhile, and
\* has if it is the one at which the schedule triggered; the clock keeps its
\* setting or loses it.  Reports that are not stored yet are lost.
Restart ==
    /\ clock' \in {clock, FALSE}
    /\ \E passed \in SUBSET {k \in DOMAIN stored : stored[k].next_timestamp = "ahead"} :
       /\ \A k \in DOMAIN stored :
             /\ stored[k].next_timestamp = "ahead" /\ fired[stored[k].id] > 0
             /\ stored[k].id \notin old["flash"]
             => k \in passed
       /\ copies' = [p \in Holders |-> IF p # "flash" THEN <<>> ELSE
              [k \in DOMAIN stored |->
                 IF k \in passed THEN [stored[k] EXCEPT !.next_timestamp = "passed"] ELSE stored[k]]]
    /\ LET any == \E k \in DOMAIN stored : stored[k].enabled
           Loaded(k) == [NewSchedule(stored[k].id, stored[k].kind, k - 1, k - 1)
                            EXCEPT !.next_timestamp = stored'[k].next_timestamp]
       IN /\ time_sync_state' = IF any THEN SyncState("NOT_STARTED", clock') ELSE "NOT_STARTED"
          /\ time_sync_timer' = (any /\ ~clock')
          /\ schedule_list' = [k \in DOMAIN stored |->
                 IF stored[k].enabled THEN operation_enable(Loaded(k), time_sync_state') ELSE Loaded(k)]
    /\ index' = Len(stored) /\ adds' = Len(stored)
    /\ queue' = <<>> /\ acting' = NONE /\ refused' = FALSE
    /\ reporting' = {} /\ newest' = "flash" /\ old' = [p \in Holders |-> {}]
    /\ fired' = [id \in Ids |-> IF id \in old["flash"] THEN 0 ELSE fired[id]]

-----------------------------------------------------------------------------
\* The first start, without schedules.
Init ==
    /\ schedule_list = <<>> /\ index = 0 /\ adds = 0
    /\ reporting = {} /\ copies = [p \in Holders |-> <<>>] /\ newest = "flash"
    /\ time_sync_state = "NOT_STARTED" /\ time_sync_timer = FALSE
    /\ refused = FALSE /\ clock = FALSE /\ queue = <<>> /\ acting = NONE
    /\ fired = [id \in Ids |-> 0] /\ old = [p \in Holders |-> {}]

Cloud ==
    \/ \E id \in Ids, kind \in Kinds : operation_add(id, kind)
    \/ \E k \in DOMAIN schedule_list :
          \/ \E kind \in Kinds : operation_edit(k, kind)
          \/ operation_remove(k) \/ Enable(k) \/ Disable(k)

Worker == WorkBegins \/ WorkEnds \/ timesync_timer_work_cb

Next == Cloud \/ (\E k \in DOMAIN schedule_list : TimerFires(k)) \/ timesync_timer_cb
        \/ Worker \/ (\E t \in Tasks : StoreReport(t)) \/ ClockIsSet \/ Restart

Spec == Init /\ [][Next]_vars

\* The timer service runs its callbacks, the work queue its functions, and each
\* task ends its report.
FairSpec == Spec /\ WF_vars(timesync_timer_cb) /\ WF_vars(Worker)
                 /\ \A t \in Tasks : WF_vars(StoreReport(t))

TypeOK ==
    /\ schedule_list \in Seq([id : Ids, kind : Kinds, index : Nat, enabled : BOOLEAN,
                              armed : BOOLEAN, next_timestamp : Stamps, born : Nat, lost : BOOLEAN])
    /\ Len(schedule_list) <= MAX_SCHEDULES
    /\ index \in Nat /\ adds \in Nat
    /\ time_sync_state \in {"NOT_STARTED", "STARTED", "DONE"} /\ time_sync_timer \in BOOLEAN
    /\ {refused, clock} \subseteq BOOLEAN /\ Len(queue) <= QueueFree
    /\ fired \in [Ids -> 0..MaxFired] /\ old \in [Holders -> SUBSET Ids]
    /\ reporting \subseteq Tasks /\ newest \in Holders \cup {"none"}

-----------------------------------------------------------------------------
(* Properties. *)

\* The action that is executed is the one of the schedule that triggered, even if
\* that was removed and its identifier used again ("This index just increases.
\* This makes sure it is unique", esp_rmaker_schedule.c:109).
NoStaleTrigger == acting.found = acting.born

\* Once the clock is set and the work queue has caught up, every schedule that is
\* shown as enabled has its timer running, unless its trigger was refused by a
\* full queue.
AllEnabledArmed ==
    time_sync_state = "DONE" /\ queue = <<>> /\ acting = NONE
        => \A k \in DOMAIN schedule_list :
              schedule_list[k].enabled => schedule_list[k].armed \/ schedule_list[k].lost

\* A one-time schedule triggers once for each time the cloud enables it, restarts
\* between the trigger and the disabling included.
OnceTriggersOnce ==
    \A k \in DOMAIN schedule_list :
        schedule_list[k].kind = "once" => fired[schedule_list[k].id] <= 1

\* A copy holds every schedule, in its order, and whether it is enabled; only one
\* that expired may be found out again.
Agrees(list, copy) ==
    /\ Len(copy) = Len(list)
    /\ \A k \in DOMAIN list :
          /\ list[k].id = copy[k].id /\ list[k].kind = copy[k].kind
          /\ list[k].enabled => copy[k].enabled
          /\ list[k].kind = "repeat" => (list[k].enabled <=> copy[k].enabled)

\* What is in flash is what a restart should bring back, through triggers, the
\* setting of the clock and operations of both tasks, when the report that was
\* stored last was the newest.
StoredAgrees == newest = "flash" => Agrees(schedule_list, stored)

\* When no report is under way, a restart brings back every schedule ("Since this
\* is a persisting param", esp_rmaker_schedule.c:934).  It does not hold: of two
\* reports that overlap, the older may be stored last.
StoredIsLatest == reporting = {} => Agrees(schedule_list, stored)

\* Once the clock is set for good, the schedules that wait for it are enabled
\* (timesync_timer_work_cb; "The schedule will actually be enabled when time is
\* synchronised", esp_rmaker_schedule.c:477), unless the work queue refused the
\* callback of the timer, which does not come again.
SyncCompletes == <>[]clock => <>[](time_sync_state # "STARTED" \/ refused)

\* The list, the timers and the flash agree after every operation, trigger and restart;
\* every variable has its type.
ListInv == TypeOK /\ AllEnabledArmed /\ StoredAgrees
=============================================================================
