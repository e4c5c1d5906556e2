--------------------------- MODULE Connectivity ---------------------------
(***************************************************************************)
(* How the dimmer stays on line: the handlers of main/app_event.c and      *)
(* main/app_rainmaker.c on the default event loop, their two one-shot      *)
(* timers on the esp_timer task, the patched MQTT client and its task, the *)
(* RainMaker agent (esp_rmaker_task) and the supply monitor of             *)
(* main/ic2_ctrl.c, which stops the radio when the supply sags.  The Wi-Fi *)
(* station driver, the access point and the broker are external.           *)
(***************************************************************************)
EXTENDS ConnectStrategy, Sequences

CONSTANTS QueueSize,   \* slots of the default event loop; a post waits for one
          NarrowWindow \* TRUE: a 60 s timer that is due may run its callback in
                       \* the middle of a task's starting or ending, not only
                       \* before or after it

ASSUME ConnectivityAssumption ==
    /\ QueueSize \in Nat \ {0}
    /\ NarrowWindow \in BOOLEAN

VARIABLES
    sta,          \* the station driver (external)
    evq,          \* default event loop: posted events, oldest first
    wifi_timer,   \* wifi_reconnect_timer is armed
    rmaker_timer, \* rmaker_reconnect_timer: off, armed, or due within a moment
    starting,     \* the rmaker timer's callback is inside esp_mqtt_client_start
    ic2_cnt,      \* readings still to come before the radio is started again
    mqtt_state, run, \* fields of the MQTT client
    task,         \* progress of the MQTT task
    twin,         \* a second MQTT task was created while one was alive
    agent,        \* progress of esp_rmaker_task
    wifi_bit,     \* WIFI_CONNECTED_EVENT of the agent's event group
    mqtt_bit,     \* MQTT_CONNECTED_EVENT of the glue's event group
    main_done,    \* app_main has returned
    init_end,     \* s_wifi_init_end_flag: changes of the light are reported
    sntp,         \* the SNTP client is running
    ap, broker    \* attempts to reach the access point / the broker succeed

wifiVars  == <<sta, wifi_timer>>
mqttVars  == <<mqtt_state, run, task, twin, mqtt_bit>>
agentVars == <<agent, wifi_bit>>
timerVars == <<rmaker_timer, starting>>
appVars   == <<main_done, init_end, sntp>>
envVars   == <<ap, broker>>
vars == <<strategyVars, wifiVars, evq, timerVars, ic2_cnt, mqttVars, agentVars, appVars, envVars>>

StaStates   == {"stopped", "idle", "connecting", "assoc", "up"}
Events      == {"STA_START", "STA_DISCONNECTED", "GOT_IP", "MQTT_DISCONNECTED"}
MqttStates  == {"INIT", "DISCONNECTED", "CONNECTED", "WAIT_RECONNECT"}
TaskSteps   == {"none", "created", "loop", "abort", "exit"}
AgentSteps  == {"begin", "check", "wait_wifi", "connect", "wait_mqtt",
                "report", "stopping", "started", "failed"}
RESTART_AFTER == 3  \* ic2_cnt after a low reading

TypeOK ==
    /\ StrategyTypeOK
    /\ sta \in StaStates
    /\ evq \in Seq(Events) /\ Len(evq) <= QueueSize
    /\ wifi_timer \in BOOLEAN
    /\ rmaker_timer \in {"off", "armed", "due"}
    /\ starting \in BOOLEAN
    /\ ic2_cnt \in 0..RESTART_AFTER
    /\ mqtt_state \in MqttStates
    /\ run \in BOOLEAN
    /\ task \in TaskSteps
    /\ twin \in BOOLEAN
    /\ agent \in AgentSteps
    /\ wifi_bit \in BOOLEAN
    /\ mqtt_bit \in BOOLEAN
    /\ main_done \in BOOLEAN
    /\ init_end \in BOOLEAN
    /\ sntp \in BOOLEAN
    /\ ap \in BOOLEAN
    /\ broker \in BOOLEAN

\* app_main has started Wi-Fi on a provisioned, claimed node: the agent is
\* queued, the MQTT client exists, SNTP was started by the schedules.
Init ==
    /\ StrategyInit
    /\ sta = "idle"
    /\ evq = <<"STA_START">>
    /\ wifi_timer = FALSE
    /\ rmaker_timer = "off"
    /\ starting = FALSE
    /\ ic2_cnt = 0
    /\ mqtt_state = "INIT" /\ run = FALSE
    /\ task = "none" /\ twin = FALSE
    /\ agent = "begin"
    /\ wifi_bit = FALSE
    /\ mqtt_bit = FALSE
    /\ main_done = FALSE /\ init_end = FALSE
    /\ sntp = TRUE
    /\ ap \in BOOLEAN /\ broker \in BOOLEAN

-----------------------------------------------------------------------------
(* The station driver. *)

\* A post waits for a free slot of the queue.
Post(e) == Len(evq) < QueueSize /\ evq' = Append(evq, e)

\* Refused with an error, which no caller looks at, unless started and idle.
esp_wifi_connect == sta' = IF sta = "idle" THEN "connecting" ELSE sta

StaAssociate ==
    /\ sta = "connecting" /\ ap
    /\ sta' = "assoc"
    /\ UNCHANGED <<strategyVars, wifi_timer, evq, timerVars, ic2_cnt, mqttVars, agentVars, appVars, envVars>>

StaGotIp ==
    /\ sta = "assoc" /\ ap
    /\ sta' = "up"
    /\ Post("GOT_IP")
    /\ UNCHANGED <<strategyVars, wifi_timer, timerVars, ic2_cnt, mqttVars, agentVars, appVars, envVars>>

StaLost ==
    /\ sta \in {"connecting", "assoc", "up"} /\ ~ap
    /\ sta' = "idle"
    /\ Post("STA_DISCONNECTED")
    /\ UNCHANGED <<strategyVars, wifi_timer, timerVars, ic2_cnt, mqttVars, agentVars, appVars, envVars>>

Environment ==
    /\ \/ ap' = ~ap /\ UNCHANGED broker
       \/ broker' = ~broker /\ UNCHANGED ap
    /\ UNCHANGED <<strategyVars, wifiVars, evq, timerVars, ic2_cnt, mqttVars, agentVars, appVars>>

-----------------------------------------------------------------------------
(* app_main, after app_wifi_start; the supply monitor, ic2_ctrl.c. *)

MainEnds ==
    /\ ~main_done /\ main_done' = TRUE
    /\ init_end' = TRUE
    /\ UNCHANGED <<strategyVars, wifiVars, evq, timerVars, ic2_cnt, mqttVars, agentVars, sntp, envVars>>

esp_wifi_stop ==
    /\ sta' = "stopped"
    /\ \/ sta \in {"stopped", "idle", "connecting"} /\ UNCHANGED evq
       \/ sta \in {"connecting", "assoc", "up"} /\ Post("STA_DISCONNECTED")

esp_wifi_start ==
    IF sta = "stopped" THEN sta' = "idle" /\ Post("STA_START")
                       ELSE UNCHANGED <<sta, evq>>

\* A reading below 2189: stop the radio, unless an earlier one did.
ReadLow ==
    /\ IF ic2_cnt = 0 THEN esp_wifi_stop ELSE UNCHANGED <<sta, evq>>
    /\ ic2_cnt' = RESTART_AFTER
    /\ UNCHANGED <<strategyVars, wifi_timer, timerVars, mqttVars, agentVars, appVars, envVars>>

\* A reading above 2330 while the radio is off; readings between the two
\* thresholds, and high ones while it is on, change nothing.
ReadHigh ==
    /\ ic2_cnt > 0
    /\ IF ic2_cnt = 1 THEN esp_wifi_start ELSE UNCHANGED <<sta, evq>>
    /\ ic2_cnt' = ic2_cnt - 1
    /\ UNCHANGED <<strategyVars, wifi_timer, timerVars, mqttVars, agentVars, appVars, envVars>>

-----------------------------------------------------------------------------
(* The event loop: one posted event at a time, in order. *)

Next_event(e) == evq # <<>> /\ Head(evq) = e /\ evq' = Tail(evq)

OnStaStart ==
    /\ Next_event("STA_START")
    /\ esp_wifi_connect
    /\ UNCHANGED <<strategyVars, wifi_timer, timerVars, ic2_cnt, mqttVars, agentVars, appVars, envVars>>

\* esp_timer_start_once on a timer that is armed fails, and nobody looks.
rmaker_timer_start == rmaker_timer' = IF rmaker_timer = "off" THEN "armed" ELSE rmaker_timer

\* Mutant: the failure is counted but no retry is scheduled.
OnStaDisconnectedNoRetry ==
    /\ Next_event("STA_DISCONNECTED")
    /\ connect_fail
    /\ rmaker_timer' = "off"
    /\ init_end' = FALSE
    /\ UNCHANGED <<wifiVars, starting, ic2_cnt, mqttVars, agentVars, main_done, sntp, envVars>>

OnStaDisconnected ==
    /\ Next_event("STA_DISCONNECTED")
    /\ connect_fail
    /\ rmaker_timer' = "off"
    /\ wifi_timer' = TRUE
    /\ init_end' = FALSE
    /\ UNCHANGED <<sta, starting, ic2_cnt, mqttVars, agentVars, main_done, sntp, envVars>>

\* Also runs the agent's handler, while it is registered.
OnGotIp ==
    /\ Next_event("GOT_IP")
    /\ connect_success
    /\ wifi_timer' = FALSE
    /\ rmaker_timer_start
    /\ wifi_bit' = (wifi_bit \/ agent \in {"check", "wait_wifi"})
    /\ UNCHANGED <<sta, starting, ic2_cnt, mqttVars, agent, appVars, envVars>>

\* Mutant: SNTP is stopped but the reconnect timer is not started.
OnMqttDisconnectedNoRetry ==
    /\ Next_event("MQTT_DISCONNECTED")
    /\ sntp' = IF is_connected THEN FALSE ELSE sntp
    /\ UNCHANGED <<strategyVars, wifiVars, timerVars, ic2_cnt, mqttVars, agentVars,
                   main_done, init_end, envVars>>

OnMqttDisconnected ==
    /\ Next_event("MQTT_DISCONNECTED")
    /\ IF is_connected THEN sntp' = FALSE /\ rmaker_timer_start
                       ELSE UNCHANGED <<sntp, rmaker_timer>>
    /\ UNCHANGED <<strategyVars, wifiVars, starting, ic2_cnt, mqttVars, agentVars,
                   main_done, init_end, envVars>>

-----------------------------------------------------------------------------
(* The esp_timer task: one callback at a time. *)

\* Mutant: the callback starts the timer again instead of asking the driver to connect.
WifiTimerRearms ==
    /\ ~starting /\ wifi_timer
    /\ UNCHANGED vars

WifiTimerFires ==
    /\ ~starting
    /\ wifi_timer /\ wifi_timer' = FALSE
    /\ esp_wifi_connect
    /\ UNCHANGED <<strategyVars, evq, timerVars, ic2_cnt, mqttVars, agentVars, appVars, envVars>>

\* No task is in the middle of starting or ending; it is there that time passes.
Settled ==
    /\ task \in {"none", "loop"} /\ mqtt_state # "WAIT_RECONNECT"
    /\ agent \notin {"begin", "check", "wait_wifi", "connect", "stopping"}

RmakerTimerDue ==
    /\ rmaker_timer = "armed" /\ Settled
    /\ rmaker_timer' = "due"
    /\ UNCHANGED <<strategyVars, wifiVars, evq, starting, ic2_cnt, mqttVars, agentVars, appVars, envVars>>

\* Mutant: the callback starts the timer again instead of the client.
RmakerTimerRearms ==
    /\ ~starting
    /\ NarrowWindow \/ Settled
    /\ rmaker_timer = "due" /\ rmaker_timer' = "armed"
    /\ UNCHANGED <<strategyVars, wifiVars, evq, starting, ic2_cnt, mqttVars, agentVars, appVars, envVars>>

\* A client in WAIT_RECONNECT accepts the request; any other is started.
RmakerTimerFires ==
    /\ ~starting
    /\ NarrowWindow \/ Settled
    /\ rmaker_timer = "due" /\ rmaker_timer' = "off"
    /\ starting' = (is_connected /\ mqtt_state \notin {"CONNECTED", "WAIT_RECONNECT"})
    /\ UNCHANGED <<strategyVars, wifiVars, evq, ic2_cnt, mqttVars, agentVars, appVars, envVars>>

\* The MQTT task holds MQTT_API_LOCK while it connects and while it aborts.
ApiLockFree == ~(task = "abort" \/ (task = "loop" /\ run /\ mqtt_state = "INIT"))

\* Mutant: esp_mqtt_client_start does not look at the client's state.
MayAlwaysStart == TRUE

MayStart == mqtt_state \in {"INIT", "DISCONNECTED"}

esp_mqtt_client_start ==
    /\ task' = IF MayStart THEN "created" ELSE task
    /\ twin' = (twin \/ (MayStart /\ task # "none"))

\* The esp_timer task (priority 22) takes a free lock at once: the MQTT task and
\* the work queue (priority 5) do not run while it waits for one that is free.
Preempted == starting /\ ApiLockFree

TimerStartsClient ==
    /\ Preempted
    /\ starting' = FALSE
    /\ esp_mqtt_client_start
    /\ UNCHANGED <<strategyVars, wifiVars, evq, rmaker_timer, ic2_cnt,
                   mqtt_state, run, mqtt_bit, agentVars, appVars, envVars>>

-----------------------------------------------------------------------------
(* The MQTT task, with auto-reconnect disabled. *)

Reachable == broker /\ sta = "up"

MqttTaskBegins ==
    /\ task = "created"
    /\ task' = "loop" /\ run' = TRUE /\ mqtt_state' = "INIT"
    /\ UNCHANGED <<strategyVars, wifiVars, evq, timerVars, ic2_cnt, twin, mqtt_bit, agentVars, appVars, envVars>>

\* The CONNECTED event that this posts has no handler, and is left out of evq.
MqttConnects ==
    /\ task = "loop" /\ run /\ mqtt_state = "INIT" /\ Reachable
    /\ mqtt_state' = "CONNECTED"
    /\ mqtt_bit' = TRUE
    /\ UNCHANGED <<strategyVars, wifiVars, evq, timerVars, ic2_cnt, run, task, twin, agentVars, appVars, envVars>>

\* Connecting failed, or an established connection broke.
MqttAborts ==
    /\ task = "loop" /\ run /\ mqtt_state \in {"INIT", "CONNECTED"} /\ ~Reachable
    /\ task' = "abort" /\ mqtt_state' = "WAIT_RECONNECT"
    /\ UNCHANGED <<strategyVars, wifiVars, evq, timerVars, ic2_cnt, run, twin, mqtt_bit, agentVars, appVars, envVars>>

MqttPostsDisconnected ==
    /\ task = "abort" /\ task' = "loop"
    /\ Post("MQTT_DISCONNECTED")
    /\ UNCHANGED <<strategyVars, wifiVars, timerVars, ic2_cnt, mqtt_state, run, twin, mqtt_bit, agentVars, appVars, envVars>>

\* WAIT_RECONNECT ends the task; so does run having been cleared by a stop.
MqttTaskLeaves ==
    /\ task = "loop" /\ (~run \/ mqtt_state = "WAIT_RECONNECT")
    /\ task' = "exit" /\ run' = FALSE /\ mqtt_state' = "DISCONNECTED"
    /\ UNCHANGED <<strategyVars, wifiVars, evq, timerVars, ic2_cnt, twin, mqtt_bit, agentVars, appVars, envVars>>

MqttTaskEnds ==
    /\ task = "exit" /\ task' = "none"
    /\ UNCHANGED <<strategyVars, wifiVars, evq, timerVars, ic2_cnt,
                   mqtt_state, run, twin, mqtt_bit, agentVars, appVars, envVars>>

-----------------------------------------------------------------------------
(* The agent: esp_rmaker_task on the work queue, for a claimed node. *)

\* Registers its GOT_IP handler, then looks whether the station is associated.
AgentRegisters ==
    /\ agent = "begin" /\ agent' = "check"
    /\ UNCHANGED <<strategyVars, wifiVars, evq, timerVars, ic2_cnt, mqttVars, wifi_bit, appVars, envVars>>

AgentChecks ==
    /\ agent = "check"
    /\ agent' = IF sta \in {"assoc", "up"} THEN "connect" ELSE "wait_wifi"
    /\ UNCHANGED <<strategyVars, wifiVars, evq, timerVars, ic2_cnt, mqttVars, wifi_bit, appVars, envVars>>

AgentHasWifi ==
    /\ agent = "wait_wifi" /\ wifi_bit
    /\ agent' = "connect"
    /\ UNCHANGED <<strategyVars, wifiVars, evq, timerVars, ic2_cnt, mqttVars, wifi_bit, appVars, envVars>>

\* Makes a new event group, so the connected bit starts out clear.
AgentConnects ==
    /\ agent = "connect" /\ ApiLockFree
    /\ mqtt_bit' = FALSE
    /\ esp_mqtt_client_start
    /\ agent' = IF MayStart THEN "wait_mqtt" ELSE "failed"
    /\ UNCHANGED <<strategyVars, wifiVars, evq, timerVars, ic2_cnt,
                   mqtt_state, run, wifi_bit, appVars, envVars>>

AgentHasMqtt ==
    /\ agent = "wait_mqtt" /\ mqtt_bit
    /\ agent' = "report"
    /\ UNCHANGED <<strategyVars, wifiVars, evq, timerVars, ic2_cnt, mqttVars, wifi_bit, appVars, envVars>>

\* Publishing on a client that is not connected fails, and the agent gives up.
AgentReports ==
    /\ agent = "report"
    /\ \/ /\ mqtt_state = "CONNECTED"
          /\ agent' = "started"
          /\ UNCHANGED <<mqtt_state, run>>
       \/ /\ mqtt_state # "CONNECTED" /\ ApiLockFree
          /\ agent' = IF run THEN "stopping" ELSE "failed"
          /\ mqtt_state' = IF run THEN "DISCONNECTED" ELSE mqtt_state
          /\ run' = FALSE
    /\ UNCHANGED <<strategyVars, wifiVars, evq, timerVars, ic2_cnt,
                   task, twin, mqtt_bit, wifi_bit, appVars, envVars>>

\* esp_mqtt_client_stop returns when the task has ended.
AgentStopped ==
    /\ agent = "stopping" /\ task = "none"
    /\ agent' = "failed"
    /\ UNCHANGED <<strategyVars, wifiVars, evq, timerVars, ic2_cnt, mqttVars, wifi_bit, appVars, envVars>>

-----------------------------------------------------------------------------
Driver    == StaAssociate \/ StaGotIp \/ StaLost
Supply    == ReadLow \/ ReadHigh
EventLoop == OnStaStart \/ OnStaDisconnected \/ OnGotIp \/ OnMqttDisconnected
MqttTask  == /\ ~Preempted
             /\ \/ MqttTaskBegins \/ MqttConnects \/ MqttAborts
                \/ MqttPostsDisconnected \/ MqttTaskLeaves \/ MqttTaskEnds
Agent     == /\ ~Preempted
             /\ \/ AgentRegisters \/ AgentChecks \/ AgentHasWifi \/ AgentConnects
                \/ AgentHasMqtt \/ AgentReports \/ AgentStopped

Next == Driver \/ Environment \/ MainEnds \/ Supply \/ EventLoop \/ WifiTimerFires
        \/ RmakerTimerDue \/ RmakerTimerFires \/ TimerStartsClient \/ MqttTask \/ Agent

\* Every task runs when it can, armed timers expire, attempts end.  Nothing is
\* assumed of the supply, the access point or the broker.
Fairness ==
    /\ WF_vars(Driver) /\ WF_vars(EventLoop) /\ WF_vars(MqttTask) /\ WF_vars(Agent)
    /\ WF_vars(WifiTimerFires) /\ WF_vars(RmakerTimerDue) /\ WF_vars(RmakerTimerFires)
    /\ WF_vars(TimerStartsClient)

Spec     == Init /\ [][Next]_vars
FairSpec == Spec /\ Fairness

-----------------------------------------------------------------------------
(* Properties. *)

Queued(E) == \E i \in 1..Len(evq) : evq[i] \in E

\* A station that is started and neither connected nor connecting has a next
\* attempt coming: app_event.c never loses the thread of its reconnecting.
WifiRetryPending ==
    sta = "idle" => wifi_timer \/ Queued({"STA_START", "STA_DISCONNECTED"})

\* wifi_is_connected() lags behind the driver only by what is still queued.
ConnectedFlagTracksDriver ==
    ~Queued({"STA_DISCONNECTED", "GOT_IP"}) => (is_connected <=> sta = "up")

\* With the network up and no MQTT task left, a retry of the MQTT connection is
\* armed or will be by an event already posted ("Will try reconnecting in a
\* while...", esp-mqtt-glue.c:218), as long as the agent has not given up.
MqttRetryPending ==
    (/\ is_connected
     /\ agent \in {"wait_mqtt", "report", "started"}
     /\ task = "none" /\ ~starting)
    => rmaker_timer # "off" \/ Queued({"STA_DISCONNECTED", "GOT_IP", "MQTT_DISCONNECTED"})

\* esp_mqtt_client_start never creates a second task on the client.
OneMqttTask == ~twin

\* The radio is off exactly while the supply monitor waits for good readings:
\* no reconnect attempt, timer or handler turns it on behind its back.
RadioFollowsSupply == (ic2_cnt > 0) <=> (sta = "stopped")

\* Whatever happened before, a reachable access point and a good supply are
\* enough for the station to get, and keep, its connection.
WifiComesUp == <>[](ap /\ ic2_cnt = 0) => <>[]is_connected

\* And a reachable broker is then enough for MQTT, unless the agent gave up.
MqttComesUp ==
    <>[](ap /\ ic2_cnt = 0 /\ broker /\ agent \notin {"stopping", "failed"})
        => <>[](mqtt_state = "CONNECTED")

\* The bounds that the handlers and the supply monitor keep: every variable has its
\* type and the event queue its size, no phase of the strategy holds as many failures
\* as end it, and the radio obeys the supply monitor.
StrategyInv == TypeOK /\ CountersInRange /\ RadioFollowsSupply
=============================================================================
