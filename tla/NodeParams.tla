----------------------------- MODULE NodeParams -----------------------------
(***************************************************************************)
(* The parameters of a node (core/esp_rmaker_param.c): updating one,       *)
(* storing it, reporting what changed through a buffer and flags that all  *)
(* tasks share, and reporting everything once MQTT is up.  The MQTT task   *)
(* (commands), the work queue (OTA, the agent), the timer service          *)
(* (schedules) and the task of the light's MCU all call                    *)
(* esp_rmaker_param_update_and_report.                                     *)
(*                                                                         *)
(* A value is represented by the room it takes in a report.  What MQTT     *)
(* takes reaches the cloud (see MqttSession).  The power may fail at any   *)
(* step.  The parameters that persist are strings and arrays: a store      *)
(* takes the pointer first, and the memory may be freed before NVS has     *)
(* copied it.                                                              *)
(***************************************************************************)
EXTENDS Naturals, FiniteSetsExt

CONSTANTS Params,       \* parameters of all devices and services
          Persist,      \* those with PROP_FLAG_PERSIST
          Values,       \* values, each as its length
          Default,      \* the value that a parameter is created with
          None,         \* no parameter, nothing told to the cloud
          Tasks,        \* tasks that update parameters
          Size,         \* CONFIG_ESP_RMAKER_MAX_PARAM_DATA_SIZE
          Margin,       \* RMAKER_PARAMS_SIZE_MARGIN
          Overlap,      \* whether reports of two tasks may overlap
          MaxUpdates,   \* bound: updates
          MaxRestarts   \* bound: failures of the power

ASSUME NodeParamsAssumption ==
    /\ Persist \subseteq Params /\ Default \in Values /\ Values \subseteq Nat
    /\ None \notin Values \cup Params
    /\ Size \in Nat /\ Margin \in Nat /\ Overlap \in BOOLEAN
    /\ MaxUpdates \in Nat /\ MaxRestarts \in Nat

VARIABLES
    val,            \* val of each _esp_rmaker_param_t
    stored,         \* what flash holds of the parameters that persist
    fresh,          \* tasks in a store whose pointer is still the parameter's
    stale,          \* history: parameters last stored from a pointer that was freed
    flags,          \* flags of each _esp_rmaker_param_t
    size, buf,      \* max_node_params_size and the values in node_params_buf
    started,        \* esp_rmaker_get_state() = ESP_RMAKER_STATE_STARTED
    init_done,      \* esp_rmaker_params_mqtt_init_done
    call,           \* each task: where it is in a call, and the call
    remote,         \* the values that the cloud was told
    gave_up,        \* history: a report was dropped because the buffer was too small
    updates, restarts

bounds == <<updates, restarts>>
flashVars == <<stored, fresh, stale>>
vars == <<val, flashVars, flags, size, buf, started, init_done, call, remote, gave_up, bounds>>

\* RMAKER_PARAM_FLAG_VALUE_CHANGE and RMAKER_PARAM_FLAG_VALUE_NOTIFY; the report of
\* the node's state has no flag.
Flags == {"change", "notify"}
Idle == [at |-> "idle", p |-> None, pass |-> "none"]
StateReport == [at |-> "fill", p |-> None, pass |-> "state"]
Empty == [p \in {} |-> Default]

Init ==
    /\ val = [p \in Params |-> Default]
    /\ stored = [p \in Persist |-> Default] /\ fresh = {} /\ stale = {}
    /\ flags = [p \in Params |-> {}]
    /\ size = Size /\ buf = Empty
    /\ started = FALSE /\ init_done = FALSE
    /\ call = [t \in Tasks |-> Idle]
    /\ remote = [p \in Params |-> None]
    /\ gave_up = FALSE /\ updates = 0 /\ restarts = 0

\* Reports begin with the flags and end with the publishing.
Reporting == \E t \in Tasks : call[t].at \in {"fill", "refill", "reset", "send"}
MayReport == Overlap \/ ~Reporting

Goto(t, at) == call' = [call EXCEPT ![t].at = at]
Return(t) == call' = [call EXCEPT ![t] = Idle]

\* After a notification, also one that failed, the change is reported.
EndPass(t) ==
    IF call[t].pass = "notify"
    THEN call' = [call EXCEPT ![t].at = "fill", ![t].pass = "change"]
    ELSE Return(t)

-----------------------------------------------------------------------------
\* Mutant: the value is written before the parameter has it.
UpdateStoresFirst(t, p, v, report) ==
    /\ call[t] = Idle /\ updates < MaxUpdates
    /\ updates' = updates + 1
    /\ val' = [val EXCEPT ![p] = v]
    /\ stored' = IF p \in Persist THEN [stored EXCEPT ![p] = val[p]] ELSE stored
    /\ call' = [call EXCEPT ![t] = [at |-> "updated", p |-> p, pass |-> report]]
    /\ UNCHANGED <<fresh, stale, flags, size, buf, started, init_done, remote, gave_up, restarts>>

\* esp_rmaker_param_update, called from esp_rmaker_param_update_and_report or
\* esp_rmaker_param_update_and_notify.  The old string is freed.
Update(t, p, v, report) ==
    /\ call[t] = Idle /\ updates < MaxUpdates
    /\ updates' = updates + 1
    /\ val' = [val EXCEPT ![p] = v]
    /\ fresh' = {u \in fresh : call[u].p # p}
    /\ call' = [call EXCEPT ![t] = [at |-> IF p \in Persist THEN "store" ELSE "updated",
                                    p |-> p, pass |-> report]]
    /\ UNCHANGED <<stored, stale, flags, size, buf, started, init_done, remote, gave_up, restarts>>

\* esp_rmaker_param_store_value opens NVS and takes the pointer and its length.
TakeValue(t) ==
    /\ call[t].at = "store"
    /\ fresh' = fresh \cup {t}
    /\ Goto(t, "write")
    /\ UNCHANGED <<val, stored, stale, flags, size, buf, started, init_done, remote, gave_up, bounds>>

\* nvs_set_blob copies what the pointer points to: the value of the parameter, or, if
\* another task's update has freed it, whatever is there now.
StoreValue(t, v) ==
    /\ call[t].at = "write"
    /\ t \in fresh => v = val[call[t].p]
    /\ stored' = [stored EXCEPT ![call[t].p] = v]
    /\ stale' = IF t \in fresh THEN stale \ {call[t].p} ELSE stale \cup {call[t].p}
    /\ fresh' = fresh \ {t}
    /\ Goto(t, "updated")
    /\ UNCHANGED <<val, flags, size, buf, started, init_done, remote, gave_up, bounds>>

\* esp_rmaker_param_report and esp_rmaker_param_notify, if the agent has started.
Report(t) ==
    /\ call[t].at = "updated" /\ started /\ MayReport
    /\ flags' = [flags EXCEPT ![call[t].p] = @ \cup {"change", call[t].pass}]
    /\ Goto(t, "fill")
    /\ UNCHANGED <<val, flashVars, size, buf, started, init_done, remote, gave_up, bounds>>

DoNotReport(t) ==
    /\ call[t].at = "updated" /\ ~started
    /\ Return(t)
    /\ UNCHANGED <<val, flashVars, flags, size, buf, started, init_done, remote, gave_up, bounds>>

-----------------------------------------------------------------------------
(***************************************************************************)
(* esp_rmaker_allocate_and_populate_params and what is done with the       *)
(* buffer.                                                                 *)
(***************************************************************************)
Selected(pass) == {p \in Params : pass = "state" \/ pass \in flags[p]}
ReqSize(pass) == MapThenSumSet(LAMBDA p : val[p], Selected(pass))

Fits(t) == ReqSize(call[t].pass) <= size

\* esp_rmaker_populate_params writes the selected values.
Populate(t) ==
    /\ call[t].at \in {"fill", "refill"} /\ Fits(t)
    /\ buf' = [p \in Selected(call[t].pass) |-> val[p]]
    /\ Goto(t, IF call[t].pass = "state" THEN "send" ELSE "reset")
    /\ UNCHANGED <<val, flashVars, flags, size, started, init_done, remote, gave_up, bounds>>

\* Mutant: it is filled again as it is.
ReallocateSame(t) ==
    /\ call[t].at = "fill" /\ ~Fits(t)
    /\ buf' = Empty
    /\ UNCHANGED <<val, flashVars, flags, size, call, started, init_done, remote, gave_up, bounds>>

\* A buffer that is too small is replaced, and filled a second time.
Reallocate(t) ==
    /\ call[t].at = "fill" /\ ~Fits(t)
    /\ size' = ReqSize(call[t].pass) + Margin /\ buf' = Empty
    /\ Goto(t, "refill")
    /\ UNCHANGED <<val, flashVars, flags, started, init_done, remote, gave_up, bounds>>

\* Values have grown by more than the margin since: there is no third time.
GiveUp(t) ==
    /\ call[t].at = "refill" /\ ~Fits(t)
    /\ gave_up' = TRUE /\ buf' = Empty
    /\ EndPass(t)
    /\ UNCHANGED <<val, flashVars, flags, size, started, init_done, remote, bounds>>

\* Mutant: flags of notifications stay.
ResetChangeOnly(t) ==
    /\ call[t].at = "reset"
    /\ flags' = [p \in Params |-> flags[p] \ ({call[t].pass} \cap {"change"})]
    /\ Goto(t, "send")
    /\ UNCHANGED <<val, flashVars, size, buf, started, init_done, remote, gave_up, bounds>>

\* The end of esp_rmaker_populate_params: the flag is cleared in every parameter.
ResetFlags(t) ==
    /\ call[t].at = "reset"
    /\ flags' = [p \in Params |-> flags[p] \ {call[t].pass}]
    /\ Goto(t, "send")
    /\ UNCHANGED <<val, flashVars, size, buf, started, init_done, remote, gave_up, bounds>>

\* The rest of esp_rmaker_report_param_internal and esp_rmaker_report_node_state.  A
\* notification goes to a topic of its own; the report of the change follows.
Publish(t) ==
    /\ call[t].at = "send"
    /\ remote' = IF init_done /\ call[t].pass # "notify"
                 THEN [p \in Params |-> IF p \in DOMAIN buf THEN buf[p] ELSE remote[p]]
                 ELSE remote
    /\ EndPass(t)
    /\ UNCHANGED <<val, flashVars, flags, size, buf, started, init_done, gave_up, bounds>>

-----------------------------------------------------------------------------
(***************************************************************************)
(* The agent, and failures of the power.                                   *)
(***************************************************************************)

\* esp_rmaker_task has connected to the broker.
AgentStarts ==
    /\ ~started
    /\ started' = TRUE
    /\ UNCHANGED <<val, flashVars, flags, size, buf, init_done, call, remote, gave_up, bounds>>

\* Mutant: what was dropped until then is not reported.
ParamsMqttInitQuiet(t) ==
    /\ started /\ ~init_done /\ call[t] = Idle /\ MayReport
    /\ init_done' = TRUE
    /\ UNCHANGED <<val, flashVars, flags, size, buf, started, call, remote, gave_up, bounds>>

\* esp_rmaker_params_mqtt_init, once the node is mapped: reports what was dropped
\* until then.
ParamsMqttInit(t) ==
    /\ started /\ ~init_done /\ call[t] = Idle /\ MayReport
    /\ init_done' = TRUE
    /\ call' = [call EXCEPT ![t] = StateReport]
    /\ UNCHANGED <<val, flashVars, flags, size, buf, started, remote, gave_up, bounds>>

\* esp_rmaker_report_node_details has the work queue report everything again.
ReportNodeState(t) ==
    /\ started /\ call[t] = Idle /\ MayReport
    /\ call' = [call EXCEPT ![t] = StateReport]
    /\ UNCHANGED <<val, flashVars, flags, size, buf, started, init_done, remote, gave_up, bounds>>

\* The power fails.  At the boot esp_rmaker_device_add_param takes the stored value
\* of a parameter that persists.
Restart ==
    /\ restarts < MaxRestarts
    /\ restarts' = restarts + 1
    /\ val' = [p \in Params |-> IF p \in Persist THEN stored[p] ELSE Default]
    /\ flags' = [p \in Params |-> {}]
    /\ size' = Size /\ buf' = Empty
    /\ started' = FALSE /\ init_done' = FALSE
    /\ call' = [t \in Tasks |-> Idle]
    /\ fresh' = {} /\ stale' = {}
    /\ UNCHANGED <<stored, remote, gave_up, updates>>

TaskStep(t) ==
    \/ TakeValue(t) \/ (\E v \in Values : StoreValue(t, v)) \/ Report(t) \/ DoNotReport(t)
    \/ Populate(t) \/ Reallocate(t) \/ GiveUp(t) \/ ResetFlags(t) \/ Publish(t)

Next ==
    \/ \E t \in Tasks :
        \/ TaskStep(t) \/ ParamsMqttInit(t) \/ ReportNodeState(t)
        \/ \E p \in Params, v \in Values, report \in Flags : Update(t, p, v, report)
    \/ AgentStarts \/ Restart

Spec == Init /\ [][Next]_vars

\* A task that is in a call goes on with it.
FairSpec == Spec /\ \A t \in Tasks : WF_vars(TaskStep(t))

-----------------------------------------------------------------------------
(***************************************************************************)
(* Properties                                                              *)
(***************************************************************************)

Calls == [at : {"idle", "store", "write", "updated", "fill", "refill", "reset", "send"},
          p : Params \cup {None}, pass : Flags \cup {"state", "none"}]

\* Every variable has its type; the size of the buffer is a sum of lengths.
TypeOK ==
    /\ val \in [Params -> Values] /\ stored \in [Persist -> Values]
    /\ flags \in [Params -> SUBSET Flags] /\ remote \in [Params -> Values \cup {None}]
    /\ started \in BOOLEAN /\ init_done \in BOOLEAN /\ gave_up \in BOOLEAN
    /\ DOMAIN buf \subseteq Params /\ \A p \in DOMAIN buf : buf[p] \in Values
    /\ call \in [Tasks -> Calls]
    /\ fresh \subseteq Tasks /\ stale \subseteq Persist

AllIdle == \A t \in Tasks : call[t] = Idle

\* With no store of a parameter due, what a restart would read is what the node has,
\* unless the last store copied memory that another task's update had freed.
StoredIsCurrent ==
    \A p \in Persist :
        (\A t \in Tasks : call[t].at \in {"store", "write"} => call[t].p # p)
            => p \in stale \/ stored[p] = val[p]

\* The same without the exception: "PROP_FLAG_PERSIST" parameters, of whatever task's
\* update, are in flash with the value that the node has.
LatestIsStored == AllIdle => \A p \in Persist : stored[p] = val[p]

\* A call that is about to populate its report finds its parameter's flag set, unless
\* the value is in the buffer already, the cloud was told, or everything is being
\* reported ("Calling this API will
\* update the parameter and report it to ESP RainMaker cloud", esp_rmaker_core.h).
UpdateIsReported ==
    \A t \in Tasks :
        (/\ call[t].at \in {"fill", "refill"} /\ call[t].pass = "change"
         /\ init_done /\ \A u \in Tasks : call[u].pass # "state")
            => LET p == call[t].p IN
               \/ "change" \in flags[p] \/ remote[p] = val[p]
               \/ p \in DOMAIN buf /\ buf[p] = val[p]

\* With reports that do not overlap, a node at rest and online has told the cloud
\* every value it has: what was updated before the agent had started or before the
\* parameters were set up, while another task was reporting, or with a buffer that
\* was too small, too.  It may not if values outgrew the margin while the buffer was
\* replaced.
CloudHasValues == init_done /\ AllIdle /\ ~gave_up => \A p \in Params : remote[p] = val[p]

\* A notification carries the parameter it is about and none of an earlier
\* notification.
NotifiesOnlyWhatIsAsked ==
    ~gave_up => \A t \in Tasks :
        call[t].at = "send" /\ call[t].pass = "notify" => DOMAIN buf = {call[t].p}

\* A value that a parameter keeps gets to the cloud of a node that stays online.
ValueReachesCloud ==
    \A p \in Params, v \in Values :
        init_done /\ val[p] = v ~> remote[p] = v \/ val[p] # v \/ ~init_done \/ gave_up

\* Flash has the current value of each parameter that persists, however tasks
\* interleave, as long as no store was of freed memory; every variable has its type.
StorageInv == TypeOK /\ StoredIsCurrent
=============================================================================
