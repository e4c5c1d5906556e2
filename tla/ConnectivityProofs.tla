------------------------ MODULE ConnectivityProofs ------------------------
(***************************************************************************)
(* Proofs about Connectivity, for every size of the event queue and every  *)
(* reconnect strategy.  The station driver, the two Wi-Fi handlers and the *)
(* supply monitor decide the properties proved here; every other action    *)
(* leaves their state alone or posts or takes a single MQTT event.         *)
(***************************************************************************)
EXTENDS Connectivity, TLAPS

(* Type correctness. *)

\* The reconnect strategy's own steps keep its types.
LEMMA StrategyTyped ==
    ASSUME StrategyTypeOK, connect_fail \/ connect_success
    PROVE  StrategyTypeOK'
  <1>p. PHASE_0 \in Phases /\ \A p \in Phases : NextPhase(p) \in Phases
    BY DEF NextPhase, Phases, PHASE_0, PHASE_1, PHASE_2
  <1>1. CASE connect_fail
    <2>1. is_connected' \in BOOLEAN /\ cur_phase' \in Phases
      BY <1>1, <1>p DEF connect_fail, StrategyTypeOK
    <2>2. connect_cnt' \in [Phases -> Nat]
      BY <1>1 DEF connect_fail, StrategyTypeOK
    <2> QED BY <2>1, <2>2 DEF StrategyTypeOK
  <1>2. CASE connect_success
    BY <1>2, <1>p DEF connect_success, StrategyTypeOK
  <1> QED BY <1>1, <1>2

\* Posting keeps the queue a bounded sequence of events.
LEMMA PostTyped ==
    ASSUME TypeOK, NEW e \in Events, Post(e)
    PROVE  evq' \in Seq(Events) /\ Len(evq') <= QueueSize
  BY ConnectivityAssumption DEF TypeOK, Post

\* So does taking the oldest event.
LEMMA TakeTyped ==
    ASSUME TypeOK, NEW e, Next_event(e)
    PROVE  evq' \in Seq(Events) /\ Len(evq') <= QueueSize
  BY ConnectivityAssumption DEF TypeOK, Next_event

\* The initial state is typed.
LEMMA InitTyped == Init => TypeOK
  <1> SUFFICES ASSUME Init PROVE TypeOK
    OBVIOUS
  <1>1. StrategyTypeOK
    <2>1. PHASE_0 \in Phases
      BY DEF Phases, PHASE_0, PHASE_2
    <2> QED BY <2>1 DEF Init, StrategyInit, StrategyTypeOK
  <1>2. evq \in Seq(Events) /\ Len(evq) <= QueueSize
    <2>1. <<"STA_START">> \in Seq(Events) /\ Len(<<"STA_START">>) = 1
      BY DEF Events
    <2> QED BY <2>1, ConnectivityAssumption DEF Init
  <1>3. /\ sta \in StaStates /\ mqtt_state \in MqttStates /\ task \in TaskSteps
        /\ agent \in AgentSteps /\ rmaker_timer \in {"off", "armed", "due"}
    BY Zenon DEF Init, StaStates, MqttStates, TaskSteps, AgentSteps
  <1>4. ic2_cnt \in 0..RESTART_AFTER
    BY DEF Init, RESTART_AFTER
  <1> QED
    BY <1>1, <1>2, <1>3, <1>4, Zenon DEF Init, TypeOK

\* Every action keeps every variable in its type.
LEMMA NextTyped == TypeOK /\ [Next]_vars => TypeOK'
  <1> SUFFICES ASSUME TypeOK, [Next]_vars PROVE TypeOK'
    OBVIOUS
  <1> USE DEF wifiVars, mqttVars, agentVars, timerVars, appVars, envVars
  <1>s. UNCHANGED strategyVars => StrategyTypeOK'
    BY DEF strategyVars, StrategyTypeOK, TypeOK
  <1>ev. \A e \in {"STA_START", "STA_DISCONNECTED", "GOT_IP", "MQTT_DISCONNECTED"} : e \in Events
    BY DEF Events
  <1>1. CASE StaAssociate
    BY <1>1, <1>s DEF StaAssociate, TypeOK, StaStates
  <1>2. CASE StaGotIp
    BY <1>2, <1>s, <1>ev, PostTyped DEF StaGotIp, TypeOK, StaStates
  <1>3. CASE StaLost
    BY <1>3, <1>s, <1>ev, PostTyped DEF StaLost, TypeOK, StaStates
  <1>4. CASE Environment
    <2>1. ap' \in BOOLEAN /\ broker' \in BOOLEAN
      BY <1>4, Zenon DEF Environment, TypeOK
    <2> QED BY <1>4, <1>s, <2>1 DEF Environment, TypeOK
  <1>5. CASE MainEnds
    BY <1>5, <1>s DEF MainEnds, TypeOK
  <1>6. CASE ReadLow
    <2>1. sta' \in StaStates /\ evq' \in Seq(Events) /\ Len(evq') <= QueueSize
      BY <1>6, <1>ev, PostTyped DEF ReadLow, esp_wifi_stop, TypeOK, StaStates
    <2> QED BY <1>6, <1>s, <2>1 DEF ReadLow, TypeOK, RESTART_AFTER
  <1>7. CASE ReadHigh
    <2>1. sta' \in StaStates /\ evq' \in Seq(Events) /\ Len(evq') <= QueueSize
      BY <1>7, <1>ev, PostTyped DEF ReadHigh, esp_wifi_start, TypeOK, StaStates
    <2>2. ic2_cnt' \in 0..RESTART_AFTER
      BY <1>7 DEF ReadHigh, TypeOK, RESTART_AFTER
    <2> QED BY <1>7, <1>s, <2>1, <2>2 DEF ReadHigh, TypeOK
  <1>8. CASE OnStaStart
    BY <1>8, <1>s, TakeTyped DEF OnStaStart, esp_wifi_connect, TypeOK, StaStates
  <1>9. CASE OnStaDisconnected
    BY <1>9, StrategyTyped, TakeTyped DEF OnStaDisconnected, TypeOK
  <1>10. CASE OnGotIp
    BY <1>10, StrategyTyped, TakeTyped DEF OnGotIp, rmaker_timer_start, TypeOK
  <1>11. CASE OnMqttDisconnected
    <2>1. sntp' \in BOOLEAN /\ rmaker_timer' \in {"off", "armed", "due"}
      BY <1>11, Zenon DEF OnMqttDisconnected, rmaker_timer_start, TypeOK
    <2> QED BY <1>11, <1>s, <2>1, TakeTyped DEF OnMqttDisconnected, TypeOK
  <1>12. CASE WifiTimerFires
    <2>1. sta' \in StaStates
      BY <1>12 DEF WifiTimerFires, esp_wifi_connect, TypeOK, StaStates
    <2>2. wifi_timer' \in BOOLEAN
      BY <1>12 DEF WifiTimerFires
    <2> QED BY <1>12, <1>s, <2>1, <2>2, Zenon DEF WifiTimerFires, TypeOK
  <1>13. CASE RmakerTimerDue
    BY <1>13, <1>s DEF RmakerTimerDue, TypeOK
  <1>14. CASE RmakerTimerFires
    <2>1. starting' \in BOOLEAN
      BY <1>14, Zenon DEF RmakerTimerFires, TypeOK
    <2> QED BY <1>14, <1>s, <2>1 DEF RmakerTimerFires, TypeOK
  <1>15. CASE TimerStartsClient
    BY <1>15, <1>s DEF TimerStartsClient, esp_mqtt_client_start, TypeOK, TaskSteps
  <1>16. CASE MqttTask
    <2>1. CASE MqttTaskBegins
      BY <2>1, <1>s DEF MqttTaskBegins, TypeOK, TaskSteps, MqttStates
    <2>2. CASE MqttConnects
      BY <2>2, <1>s DEF MqttConnects, TypeOK, MqttStates
    <2>3. CASE MqttAborts
      BY <2>3, <1>s DEF MqttAborts, TypeOK, TaskSteps, MqttStates
    <2>4. CASE MqttPostsDisconnected
      BY <2>4, <1>s, <1>ev, PostTyped DEF MqttPostsDisconnected, TypeOK, TaskSteps
    <2>5. CASE MqttTaskLeaves
      <3>1. task' \in TaskSteps /\ run' \in BOOLEAN /\ mqtt_state' \in MqttStates
        BY <2>5 DEF MqttTaskLeaves, TaskSteps, MqttStates
      <3> QED BY <2>5, <1>s, <3>1 DEF MqttTaskLeaves, TypeOK
    <2>6. CASE MqttTaskEnds
      BY <2>6, <1>s DEF MqttTaskEnds, TypeOK, TaskSteps
    <2> QED BY <1>16, <2>1, <2>2, <2>3, <2>4, <2>5, <2>6 DEF MqttTask
  <1>17. CASE Agent
    <2>1. CASE AgentRegisters
      BY <2>1, <1>s DEF AgentRegisters, TypeOK, AgentSteps
    <2>2. CASE AgentChecks
      BY <2>2, <1>s DEF AgentChecks, TypeOK, AgentSteps
    <2>3. CASE AgentHasWifi
      BY <2>3, <1>s DEF AgentHasWifi, TypeOK, AgentSteps
    <2>4. CASE AgentConnects
      BY <2>4, <1>s DEF AgentConnects, esp_mqtt_client_start, TypeOK, AgentSteps, TaskSteps
    <2>5. CASE AgentHasMqtt
      BY <2>5, <1>s DEF AgentHasMqtt, TypeOK, AgentSteps
    <2>6. CASE AgentReports
      <3>1. agent' \in AgentSteps /\ mqtt_state' \in MqttStates
        BY <2>6 DEF AgentReports, TypeOK, AgentSteps, MqttStates
      <3>2. run' \in BOOLEAN
        BY <2>6, Zenon DEF AgentReports, TypeOK
      <3> QED BY <2>6, <1>s, <3>1, <3>2 DEF AgentReports, TypeOK
    <2>7. CASE AgentStopped
      BY <2>7, <1>s DEF AgentStopped, TypeOK, AgentSteps
    <2> QED BY <1>17, <2>1, <2>2, <2>3, <2>4, <2>5, <2>6, <2>7 DEF Agent
  <1>18. CASE UNCHANGED vars
    BY <1>18, <1>s DEF vars, TypeOK
  <1> QED
    BY <1>1, <1>2, <1>3, <1>4, <1>5, <1>6, <1>7, <1>8, <1>9, <1>10, <1>11, <1>12, <1>13, <1>14,
       <1>15, <1>16, <1>17, <1>18 DEF Next, Driver, Supply, EventLoop

\* Every variable of the connectivity layer keeps its type and the event queue
\* never holds more than its slots (esp_event_post waits).
THEOREM ConnectivityTyped == Spec => []TypeOK
  <1>1. TypeOK /\ [Next]_vars => TypeOK'
    BY NextTyped
  <1> QED BY InitTyped, <1>1, PTL DEF Spec

-----------------------------------------------------------------------------
(* What a step does to the Wi-Fi side of the state. *)

linkVars == <<strategyVars, wifiVars, evq, ic2_cnt>>

\* The actions that touch the driver, the queue, the Wi-Fi timer, the strategy
\* or the supply count; the others leave all of it alone.
LinkStep ==
    \/ StaAssociate \/ StaGotIp \/ StaLost
    \/ ReadLow \/ ReadHigh
    \/ OnStaStart \/ OnStaDisconnected \/ OnGotIp \/ OnMqttDisconnected
    \/ WifiTimerFires
    \/ MqttPostsDisconnected

\* Every step is one of those on the link's variables, or leaves them alone.
LEMMA StepOnLink == [Next]_vars => LinkStep \/ UNCHANGED linkVars
  <1> SUFFICES ASSUME [Next]_vars, ~LinkStep PROVE UNCHANGED linkVars
    OBVIOUS
  <1> USE DEF linkVars
  <1>1. CASE Environment \/ MainEnds \/ RmakerTimerDue \/ RmakerTimerFires \/ TimerStartsClient
    BY <1>1 DEF Environment, MainEnds, RmakerTimerDue, RmakerTimerFires, TimerStartsClient
  <1>2. CASE MqttTask
    BY <1>2 DEF LinkStep, MqttTask, MqttTaskBegins, MqttConnects, MqttAborts, MqttTaskLeaves,
                MqttTaskEnds
  <1>3. CASE Agent
    BY <1>3 DEF Agent, AgentRegisters, AgentChecks, AgentHasWifi, AgentConnects, AgentHasMqtt,
                AgentReports, AgentStopped
  <1>4. CASE UNCHANGED vars
    BY <1>4 DEF vars
  <1> QED
    BY <1>1, <1>2, <1>3, <1>4 DEF Next, LinkStep, Driver, Supply, EventLoop

\* Where the events of the queue are after a post.
LEMMA PostPlaces ==
    ASSUME TypeOK, NEW e \in Events, Post(e)
    PROVE  /\ Len(evq) \in Nat /\ Len(evq') = Len(evq) + 1
           /\ \A i \in 1..Len(evq) : evq'[i] = evq[i]
           /\ evq'[Len(evq) + 1] = e
  BY DEF TypeOK, Post

\* Where they are after a take.
LEMMA TakePlaces ==
    ASSUME TypeOK, NEW e, Next_event(e)
    PROVE  /\ Len(evq) \in Nat \ {0} /\ Len(evq') = Len(evq) - 1
           /\ evq[1] = e
           /\ \A i \in 1..Len(evq') : evq'[i] = evq[i + 1]
  BY DEF TypeOK, Next_event

-----------------------------------------------------------------------------
(* The strategy's counters. *)

\* Every step keeps the counters in range: only the strategy's two operations
\* write them.
LEMMA CountersStep ==
    ASSUME StrategyTypeOK, CountersInRange, connect_fail \/ connect_success
    PROVE  CountersInRange'
  <1>t. /\ \A p \in Phases : connect_cnt[p] \in Nat /\ connect_max[p] \in Nat \ {0}
        /\ cur_phase \in Phases
    BY StrategyAssumption DEF StrategyTypeOK
  <1>1. CASE connect_success
    BY <1>1, <1>t DEF connect_success, CountersInRange
  <1>2. CASE connect_fail /\ connect_cnt[cur_phase] + 1 >= connect_max[cur_phase]
    <2>1. \A p \in Phases : connect_cnt'[p] = 0
      BY <1>2 DEF connect_fail, CountersInRange, StrategyTypeOK
    <2> QED BY <2>1, <1>t DEF CountersInRange
  <1>3. CASE connect_fail /\ ~(connect_cnt[cur_phase] + 1 >= connect_max[cur_phase])
    <2>1. /\ cur_phase' = cur_phase
          /\ connect_cnt'[cur_phase] = connect_cnt[cur_phase] + 1
          /\ \A p \in Phases \ {cur_phase} : connect_cnt'[p] = connect_cnt[p]
      BY <1>3, <1>t DEF connect_fail, StrategyTypeOK
    <2> QED BY <2>1, <1>3, <1>t DEF CountersInRange
  <1> QED BY <1>1, <1>2, <1>3

\* For every strategy: no phase ever holds as many failures as end it, and a
\* phase that is entered starts its count afresh (wifi_custom_connect_fail).
THEOREM CountersStayInRange == Spec => []CountersInRange
  <1>1. Init => CountersInRange
    BY StrategyAssumption DEF Init, StrategyInit, CountersInRange
  <1>2. TypeOK /\ CountersInRange /\ [Next]_vars => CountersInRange'
    <2> SUFFICES ASSUME TypeOK, CountersInRange, [Next]_vars PROVE CountersInRange'
      OBVIOUS
    <2>1. CASE UNCHANGED strategyVars
      BY <2>1 DEF strategyVars, CountersInRange
    <2>2. CASE connect_fail \/ connect_success
      BY <2>2, CountersStep DEF TypeOK
    <2> QED
      BY <2>1, <2>2, StepOnLink DEF LinkStep, linkVars, StaAssociate, StaGotIp, StaLost, ReadLow,
         ReadHigh, OnStaStart, OnStaDisconnected, OnGotIp, OnMqttDisconnected, WifiTimerFires,
         MqttPostsDisconnected
  <1> QED BY <1>1, <1>2, ConnectivityTyped, PTL DEF Spec

-----------------------------------------------------------------------------
(* The radio and the supply. *)

\* The radio is off exactly while the supply monitor waits for good readings:
\* neither the STA_START handler nor the reconnect timer starts it.
THEOREM RadioObeysSupply == Spec => []RadioFollowsSupply
  <1>1. Init => RadioFollowsSupply
    BY DEF Init, RadioFollowsSupply
  <1>2. TypeOK /\ RadioFollowsSupply /\ [Next]_vars => RadioFollowsSupply'
    <2> SUFFICES ASSUME TypeOK, RadioFollowsSupply, [Next]_vars PROVE RadioFollowsSupply'
      OBVIOUS
    <2> USE DEF RadioFollowsSupply, wifiVars
    <2>c. ic2_cnt \in Nat
      BY DEF TypeOK, RESTART_AFTER
    <2>1. CASE ReadLow
      BY <2>1, <2>c DEF ReadLow, esp_wifi_stop, RESTART_AFTER
    <2>2. CASE ReadHigh
      BY <2>2, <2>c DEF ReadHigh, esp_wifi_start
    <2>3. CASE StaAssociate \/ StaGotIp \/ StaLost
      BY <2>3 DEF StaAssociate, StaGotIp, StaLost
    <2>4. CASE OnStaStart \/ WifiTimerFires
      BY <2>4 DEF OnStaStart, WifiTimerFires, esp_wifi_connect
    <2>5. CASE OnStaDisconnected \/ OnGotIp \/ OnMqttDisconnected \/ MqttPostsDisconnected
      BY <2>5 DEF OnStaDisconnected, OnGotIp, OnMqttDisconnected, MqttPostsDisconnected
    <2>6. CASE UNCHANGED linkVars
      BY <2>6 DEF linkVars
    <2> QED BY <2>1, <2>2, <2>3, <2>4, <2>5, <2>6, StepOnLink DEF LinkStep
  <1> QED BY <1>1, <1>2, ConnectivityTyped, PTL DEF Spec

-----------------------------------------------------------------------------
(* The retry thread and the connected flag.  Both properties look at what is *)
(* queued; what makes them inductive is the order of the queued events.      *)

\* No event of E is queued behind place i.
NoneBehind(i, E) == \A j \in 1..Len(evq) : j > i => evq[j] \notin E

\* An idle station has an attempt ahead that no queued GOT_IP, whose handler
\* stops the reconnect timer, will cancel.
AttemptAhead ==
    sta = "idle" =>
        \/ \E i \in 1..Len(evq) : /\ evq[i] \in {"STA_START", "STA_DISCONNECTED"}
                                 /\ NoneBehind(i, {"GOT_IP"})
        \/ wifi_timer /\ NoneBehind(0, {"GOT_IP"})

\* The last GOT_IP or STA_DISCONNECTED in the queue tells the state of the
\* driver; with neither queued, the flag does.
FlagBehind ==
    /\ \A i \in 1..Len(evq) :
          evq[i] = "GOT_IP" /\ NoneBehind(i, {"STA_DISCONNECTED"}) => sta = "up"
    /\ \A i \in 1..Len(evq) :
          evq[i] = "STA_DISCONNECTED" /\ NoneBehind(i, {"GOT_IP"}) => sta # "up"
    /\ NoneBehind(0, {"STA_DISCONNECTED", "GOT_IP"}) => (is_connected <=> sta = "up")

\* A posted event other than GOT_IP, or that the station is not idle, keeps an
\* attempt ahead.
LEMMA PostKeepsAttempt ==
    ASSUME TypeOK, AttemptAhead, NEW e \in Events, Post(e),
           sta' = "idle" => \/ e \in {"STA_START", "STA_DISCONNECTED"}
                            \/ e # "GOT_IP" /\ UNCHANGED wifiVars
    PROVE  AttemptAhead'
  <1> SUFFICES ASSUME sta' = "idle"
               PROVE  \/ \E i \in 1..Len(evq') :
                              /\ evq'[i] \in {"STA_START", "STA_DISCONNECTED"}
                              /\ \A j \in 1..Len(evq') : j > i => evq'[j] # "GOT_IP"
                      \/ wifi_timer' /\ \A j \in 1..Len(evq') : evq'[j] # "GOT_IP"
    BY DEF AttemptAhead, NoneBehind
  <1>1. CASE e \in {"STA_START", "STA_DISCONNECTED"}
    <2>1. Len(evq) + 1 \in 1..Len(evq') /\ evq'[Len(evq) + 1] = e
      BY PostPlaces
    <2>2. \A j \in 1..Len(evq') : ~(j > Len(evq) + 1)
      BY PostPlaces
    <2> QED BY <1>1, <2>1, <2>2
  <1>2. CASE e # "GOT_IP" /\ UNCHANGED wifiVars
    <2>0. sta = "idle" /\ wifi_timer' = wifi_timer
      BY <1>2 DEF wifiVars
    <2>1. CASE wifi_timer /\ NoneBehind(0, {"GOT_IP"})
      <3>1. \A j \in 1..Len(evq') : evq'[j] # "GOT_IP"
        BY <2>1, <1>2, PostPlaces DEF NoneBehind
      <3> QED BY <3>1, <2>1, <2>0
    <2>2. ASSUME NEW i \in 1..Len(evq), evq[i] \in {"STA_START", "STA_DISCONNECTED"},
                 NoneBehind(i, {"GOT_IP"})
          PROVE  \E k \in 1..Len(evq') :
                    /\ evq'[k] \in {"STA_START", "STA_DISCONNECTED"}
                    /\ \A j \in 1..Len(evq') : j > k => evq'[j] # "GOT_IP"
      <3>1. i \in 1..Len(evq') /\ evq'[i] = evq[i]
        BY PostPlaces
      <3>2. \A j \in 1..Len(evq') : j > i => evq'[j] # "GOT_IP"
        BY <2>2, <1>2, PostPlaces DEF NoneBehind
      <3> QED BY <3>1, <3>2, <2>2
    <2> QED BY <2>0, <2>1, <2>2 DEF AttemptAhead
  <1> QED BY <1>1, <1>2

\* Taking an event off the queue keeps an attempt ahead of an idle station when
\* it is the disconnection, which arms the timer, a GOT_IP, which was not the
\* last word, or an MQTT event.
LEMMA TakeKeepsAttempt ==
    ASSUME TypeOK, AttemptAhead, NEW e, Next_event(e),
           e \in {"STA_DISCONNECTED", "GOT_IP", "MQTT_DISCONNECTED"},
           sta' = sta,
           e = "STA_DISCONNECTED" => wifi_timer',
           e = "MQTT_DISCONNECTED" => wifi_timer' = wifi_timer
    PROVE  AttemptAhead'
  <1> SUFFICES ASSUME sta = "idle"
               PROVE  \/ \E i \in 1..Len(evq') :
                              /\ evq'[i] \in {"STA_START", "STA_DISCONNECTED"}
                              /\ \A j \in 1..Len(evq') : j > i => evq'[j] # "GOT_IP"
                      \/ wifi_timer' /\ \A j \in 1..Len(evq') : evq'[j] # "GOT_IP"
    BY DEF AttemptAhead, NoneBehind
  <1>1. CASE wifi_timer /\ NoneBehind(0, {"GOT_IP"})
    <2>1. \A j \in 1..Len(evq) : evq[j] # "GOT_IP"
      BY <1>1 DEF NoneBehind
    <2>2. e # "GOT_IP" /\ \A j \in 1..Len(evq') : evq'[j] # "GOT_IP"
      BY <2>1, TakePlaces
    <2> QED BY <1>1, <2>2
  <1>2. ASSUME NEW i \in 1..Len(evq), evq[i] \in {"STA_START", "STA_DISCONNECTED"},
               NoneBehind(i, {"GOT_IP"})
        PROVE  \/ \E k \in 1..Len(evq') :
                       /\ evq'[k] \in {"STA_START", "STA_DISCONNECTED"}
                       /\ \A j \in 1..Len(evq') : j > k => evq'[j] # "GOT_IP"
               \/ wifi_timer' /\ \A j \in 1..Len(evq') : evq'[j] # "GOT_IP"
    <2>1. CASE i = 1
      <3>1. \A j \in 1..Len(evq') : evq'[j] # "GOT_IP"
        BY <1>2, <2>1, TakePlaces DEF NoneBehind
      <3>2. e = "STA_DISCONNECTED"
        BY <1>2, <2>1, TakePlaces
      <3> QED BY <3>1, <3>2
    <2>2. CASE i # 1
      <3>1. i - 1 \in 1..Len(evq') /\ evq'[i - 1] = evq[i]
        BY <2>2, TakePlaces
      <3>2. ASSUME NEW j \in 1..Len(evq'), j > i - 1 PROVE evq'[j] # "GOT_IP"
        <4>1. j + 1 \in 1..Len(evq) /\ j + 1 > i /\ evq'[j] = evq[j + 1]
          BY <3>2, TakePlaces
        <4> QED BY <1>2, <4>1 DEF NoneBehind
      <3> QED BY <1>2, <3>1, <3>2
    <2> QED BY <2>1, <2>2
  <1> QED BY <1>1, <1>2 DEF AttemptAhead

\* Every step keeps an attempt ahead of an idle station.
LEMMA AttemptStep == TypeOK /\ AttemptAhead /\ [Next]_vars => AttemptAhead'
  <1> SUFFICES ASSUME TypeOK, AttemptAhead, [Next]_vars PROVE AttemptAhead'
    OBVIOUS
  <1>ev. {"STA_START", "STA_DISCONNECTED", "GOT_IP", "MQTT_DISCONNECTED"} \subseteq Events
    BY DEF Events
  <1>0. sta' # "idle" => AttemptAhead'
    BY DEF AttemptAhead
  <1>1. CASE StaAssociate \/ StaGotIp
    BY <1>1, <1>0 DEF StaAssociate, StaGotIp
  <1>2. CASE StaLost
    BY <1>2, <1>ev, PostKeepsAttempt DEF StaLost
  <1>3. CASE ReadLow
    <2>1. CASE ic2_cnt = 0
      BY <1>3, <2>1, <1>0 DEF ReadLow, esp_wifi_stop
    <2>2. CASE ic2_cnt # 0
      BY <1>3, <2>2 DEF ReadLow, AttemptAhead, NoneBehind
    <2> QED BY <2>1, <2>2
  <1>4. CASE ReadHigh
    <2>1. CASE ic2_cnt = 1 /\ sta = "stopped"
      BY <1>4, <2>1, <1>ev, PostKeepsAttempt DEF ReadHigh, esp_wifi_start
    <2>2. CASE ~(ic2_cnt = 1 /\ sta = "stopped")
      BY <1>4, <2>2 DEF ReadHigh, esp_wifi_start, AttemptAhead, NoneBehind
    <2> QED BY <2>1, <2>2
  <1>5. CASE OnStaStart \/ WifiTimerFires
    BY <1>5, <1>0 DEF OnStaStart, WifiTimerFires, esp_wifi_connect
  <1>6. CASE OnStaDisconnected
    BY <1>6, TakeKeepsAttempt DEF OnStaDisconnected
  <1>7. CASE OnGotIp
    BY <1>7, TakeKeepsAttempt DEF OnGotIp
  <1>8. CASE OnMqttDisconnected
    BY <1>8, TakeKeepsAttempt DEF OnMqttDisconnected, wifiVars
  <1>9. CASE MqttPostsDisconnected
    BY <1>9, <1>ev, PostKeepsAttempt DEF MqttPostsDisconnected
  <1>10. CASE UNCHANGED linkVars
    BY <1>10 DEF linkVars, wifiVars, AttemptAhead, NoneBehind
  <1> QED
    BY <1>1, <1>2, <1>3, <1>4, <1>5, <1>6, <1>7, <1>8, <1>9, <1>10, StepOnLink DEF LinkStep

\* app_event.c never loses the thread of its reconnecting: a station that is
\* started and idle always has an attempt scheduled or about to be.
THEOREM WifiRetryNeverLost == Spec => []WifiRetryPending
  <1>1. Init => AttemptAhead
    <2> SUFFICES ASSUME Init PROVE AttemptAhead
      OBVIOUS
    <2>1. Len(evq) = 1 /\ evq[1] = "STA_START"
      BY DEF Init
    <2> QED BY <2>1 DEF AttemptAhead, NoneBehind
  <1>2. AttemptAhead => WifiRetryPending
    BY DEF AttemptAhead, WifiRetryPending, Queued
  <1> QED BY <1>1, <1>2, AttemptStep, ConnectivityTyped, PTL DEF Spec

\* FlagBehind after a step, with the abbreviation NoneBehind spelled out.
LEMMA FlagBehindNext ==
    ASSUME \A i \in 1..Len(evq') :
              evq'[i] = "GOT_IP" /\ (\A j \in 1..Len(evq') : j > i => evq'[j] # "STA_DISCONNECTED")
                  => sta' = "up",
           \A i \in 1..Len(evq') :
              evq'[i] = "STA_DISCONNECTED" /\ (\A j \in 1..Len(evq') : j > i => evq'[j] # "GOT_IP")
                  => sta' # "up",
           (\A j \in 1..Len(evq') : evq'[j] \notin {"STA_DISCONNECTED", "GOT_IP"})
                  => (is_connected' <=> sta' = "up")
    PROVE  FlagBehind'
  <1>1. NoneBehind(0, {"STA_DISCONNECTED", "GOT_IP"})'
            => \A j \in 1..Len(evq') : evq'[j] \notin {"STA_DISCONNECTED", "GOT_IP"}
    BY DEF NoneBehind
  <1> QED BY <1>1 DEF FlagBehind, NoneBehind

\* A post keeps the order of the queue and the driver's state in step: GOT_IP is
\* posted when the station is up, STA_DISCONNECTED when it no longer is.
LEMMA PostKeepsFlag ==
    ASSUME TypeOK, FlagBehind, NEW e \in Events, Post(e),
           e = "GOT_IP" => sta' = "up",
           e = "STA_DISCONNECTED" => sta' # "up",
           e \in {"STA_START", "MQTT_DISCONNECTED"}
              => /\ sta' = "up" <=> sta = "up"
                 /\ is_connected' <=> is_connected
    PROVE  FlagBehind'
  <1>n. Len(evq) + 1 \in 1..Len(evq') /\ evq'[Len(evq) + 1] = e
    BY PostPlaces
  <1>l. \A i \in 1..Len(evq') : i # Len(evq) + 1
            => i \in 1..Len(evq) /\ Len(evq) + 1 > i /\ evq'[i] = evq[i]
    BY PostPlaces
  <1>o. \A j \in 1..Len(evq) : j \in 1..Len(evq') /\ evq'[j] = evq[j]
    BY PostPlaces
  <1>1. CASE e = "GOT_IP"
    BY <1>1, <1>n, <1>l, FlagBehindNext
  <1>2. CASE e = "STA_DISCONNECTED"
    BY <1>2, <1>n, <1>l, FlagBehindNext
  <1>3. CASE e \in {"STA_START", "MQTT_DISCONNECTED"}
    <2>1. ASSUME NEW i \in 1..Len(evq'), evq'[i] = "GOT_IP",
                 \A j \in 1..Len(evq') : j > i => evq'[j] # "STA_DISCONNECTED"
          PROVE  sta' = "up"
      <3>1. i \in 1..Len(evq) /\ evq[i] = "GOT_IP"
        BY <2>1, <1>3, <1>n, <1>l
      <3>2. NoneBehind(i, {"STA_DISCONNECTED"})
        BY <2>1, <1>o DEF NoneBehind
      <3> QED BY <3>1, <3>2, <1>3 DEF FlagBehind
    <2>2. ASSUME NEW i \in 1..Len(evq'), evq'[i] = "STA_DISCONNECTED",
                 \A j \in 1..Len(evq') : j > i => evq'[j] # "GOT_IP"
          PROVE  sta' # "up"
      <3>1. i \in 1..Len(evq) /\ evq[i] = "STA_DISCONNECTED"
        BY <2>2, <1>3, <1>n, <1>l
      <3>2. NoneBehind(i, {"GOT_IP"})
        BY <2>2, <1>o DEF NoneBehind
      <3> QED BY <3>1, <3>2, <1>3 DEF FlagBehind
    <2>3. ASSUME \A j \in 1..Len(evq') : evq'[j] \notin {"STA_DISCONNECTED", "GOT_IP"}
          PROVE  is_connected' <=> sta' = "up"
      <3>1. NoneBehind(0, {"STA_DISCONNECTED", "GOT_IP"})
        BY <2>3, <1>o DEF NoneBehind
      <3> QED BY <3>1, <1>3, Zenon DEF FlagBehind
    <2> QED BY <2>1, <2>2, <2>3, FlagBehindNext
  <1> QED BY <1>1, <1>2, <1>3 DEF Events

\* Handling the oldest event keeps them in step: the handler of the last of the
\* two events sets the flag to what the driver already is.
LEMMA TakeKeepsFlag ==
    ASSUME TypeOK, FlagBehind, NEW e, Next_event(e),
           sta' = "up" <=> sta = "up",
           e = "STA_DISCONNECTED" => ~is_connected',
           e = "GOT_IP" => is_connected',
           e \notin {"STA_DISCONNECTED", "GOT_IP"} => (is_connected' <=> is_connected)
    PROVE  FlagBehind'
  <1>h. 1 \in 1..Len(evq) /\ evq[1] = e
    BY TakePlaces
  <1>l. \A i \in 1..Len(evq') : i + 1 \in 1..Len(evq) /\ evq'[i] = evq[i + 1]
    BY TakePlaces
  <1>o. \A j \in 1..Len(evq) : j # 1 => j - 1 \in 1..Len(evq') /\ evq'[j - 1] = evq[j]
    BY TakePlaces
  <1>1. ASSUME NEW i \in 1..Len(evq'), evq'[i] = "GOT_IP",
               \A j \in 1..Len(evq') : j > i => evq'[j] # "STA_DISCONNECTED"
        PROVE  sta' = "up"
    <2>1. NoneBehind(i + 1, {"STA_DISCONNECTED"})
      <3> SUFFICES ASSUME NEW j \in 1..Len(evq), j > i + 1 PROVE evq[j] # "STA_DISCONNECTED"
        BY DEF NoneBehind
      <3>1. j # 1 /\ j - 1 > i
        BY TakePlaces
      <3> QED BY <3>1, <1>o, <1>1
    <2> QED BY <2>1, <1>1, <1>l DEF FlagBehind
  <1>2. ASSUME NEW i \in 1..Len(evq'), evq'[i] = "STA_DISCONNECTED",
               \A j \in 1..Len(evq') : j > i => evq'[j] # "GOT_IP"
        PROVE  sta' # "up"
    <2>1. NoneBehind(i + 1, {"GOT_IP"})
      <3> SUFFICES ASSUME NEW j \in 1..Len(evq), j > i + 1 PROVE evq[j] # "GOT_IP"
        BY DEF NoneBehind
      <3>1. j # 1 /\ j - 1 > i
        BY TakePlaces
      <3> QED BY <3>1, <1>o, <1>2
    <2> QED BY <2>1, <1>2, <1>l DEF FlagBehind
  <1>3. ASSUME \A j \in 1..Len(evq') : evq'[j] \notin {"STA_DISCONNECTED", "GOT_IP"}
        PROVE  is_connected' <=> sta' = "up"
    <2>r. \A j \in 1..Len(evq) : j > 1 => evq[j] \notin {"STA_DISCONNECTED", "GOT_IP"}
      BY <1>3, <1>o
    <2>1. CASE e = "STA_DISCONNECTED"
      <3>1. sta # "up"
        BY <2>1, <2>r, <1>h DEF FlagBehind, NoneBehind
      <3> QED BY <3>1, <2>1, Zenon
    <2>2. CASE e = "GOT_IP"
      <3>1. sta = "up"
        BY <2>2, <2>r, <1>h DEF FlagBehind, NoneBehind
      <3> QED BY <3>1, <2>2, Zenon
    <2>3. CASE e \notin {"STA_DISCONNECTED", "GOT_IP"}
      <3>1. NoneBehind(0, {"STA_DISCONNECTED", "GOT_IP"})
        BY <2>3, <2>r, <1>h DEF NoneBehind
      <3> QED BY <3>1, <2>3, Zenon DEF FlagBehind
    <2> QED BY <2>1, <2>2, <2>3
  <1> QED BY <1>1, <1>2, <1>3, FlagBehindNext

\* A step that leaves the queue and the flag alone, and the station up or not up.
LEMMA QuietKeepsFlag ==
    ASSUME FlagBehind, UNCHANGED evq, UNCHANGED is_connected, sta' = "up" <=> sta = "up"
    PROVE  FlagBehind'
  BY DEF FlagBehind, NoneBehind

\* Every step keeps the flag behind the driver by no more than is queued.
LEMMA FlagStep == TypeOK /\ FlagBehind /\ [Next]_vars => FlagBehind'
  <1> SUFFICES ASSUME TypeOK, FlagBehind, [Next]_vars PROVE FlagBehind'
    OBVIOUS
  <1> USE DEF strategyVars, wifiVars
  <1>ev. {"STA_START", "STA_DISCONNECTED", "GOT_IP", "MQTT_DISCONNECTED"} \subseteq Events
    BY DEF Events
  <1>1. CASE StaAssociate
    BY <1>1, QuietKeepsFlag DEF StaAssociate
  <1>2. CASE StaGotIp
    BY <1>2, <1>ev, PostKeepsFlag DEF StaGotIp
  <1>3. CASE StaLost
    BY <1>3, <1>ev, PostKeepsFlag DEF StaLost
  <1>4. CASE ReadLow
    <2>1. CASE ic2_cnt = 0 /\ Post("STA_DISCONNECTED")
      BY <1>4, <2>1, <1>ev, PostKeepsFlag DEF ReadLow, esp_wifi_stop
    <2>2. CASE ~(ic2_cnt = 0 /\ Post("STA_DISCONNECTED"))
      BY <1>4, <2>2, QuietKeepsFlag DEF ReadLow, esp_wifi_stop
    <2> QED BY <2>1, <2>2
  <1>5. CASE ReadHigh
    <2>1. CASE ic2_cnt = 1 /\ sta = "stopped"
      BY <1>5, <2>1, <1>ev, PostKeepsFlag DEF ReadHigh, esp_wifi_start
    <2>2. CASE ~(ic2_cnt = 1 /\ sta = "stopped")
      BY <1>5, <2>2, QuietKeepsFlag DEF ReadHigh, esp_wifi_start
    <2> QED BY <2>1, <2>2
  <1>6. CASE OnStaStart
    BY <1>6, TakeKeepsFlag DEF OnStaStart, esp_wifi_connect
  <1>7. CASE OnStaDisconnected
    BY <1>7, TakeKeepsFlag DEF OnStaDisconnected, connect_fail
  <1>8. CASE OnGotIp
    BY <1>8, TakeKeepsFlag DEF OnGotIp, connect_success
  <1>9. CASE OnMqttDisconnected
    BY <1>9, TakeKeepsFlag DEF OnMqttDisconnected
  <1>10. CASE WifiTimerFires
    BY <1>10, QuietKeepsFlag DEF WifiTimerFires, esp_wifi_connect
  <1>11. CASE MqttPostsDisconnected
    BY <1>11, <1>ev, PostKeepsFlag DEF MqttPostsDisconnected
  <1>12. CASE UNCHANGED linkVars
    BY <1>12, QuietKeepsFlag DEF linkVars
  <1> QED
    BY <1>1, <1>2, <1>3, <1>4, <1>5, <1>6, <1>7, <1>8, <1>9, <1>10, <1>11, <1>12, StepOnLink
    DEF LinkStep

\* wifi_is_connected() is what the driver is, whenever the event loop has
\* handled every connection and disconnection that was posted to it.
THEOREM FlagTracksDriver == Spec => []ConnectedFlagTracksDriver
  <1>1. Init => FlagBehind
    <2> SUFFICES ASSUME Init PROVE FlagBehind
      OBVIOUS
    <2>1. Len(evq) = 1 /\ evq[1] = "STA_START" /\ is_connected = FALSE /\ sta = "idle"
      BY DEF Init, StrategyInit
    <2> QED BY <2>1 DEF FlagBehind, NoneBehind
  <1>2. FlagBehind => ConnectedFlagTracksDriver
    <2> SUFFICES ASSUME FlagBehind, ~Queued({"STA_DISCONNECTED", "GOT_IP"})
                 PROVE  is_connected <=> sta = "up"
      BY DEF ConnectedFlagTracksDriver
    <2>1. NoneBehind(0, {"STA_DISCONNECTED", "GOT_IP"})
      BY DEF Queued, NoneBehind
    <2> QED BY <2>1, Zenon DEF FlagBehind
  <1> QED BY <1>1, <1>2, FlagStep, ConnectivityTyped, PTL DEF Spec

\* For every strategy and every size of the event queue: the queue keeps its bound, no
\* phase holds as many failures as end it (wifi_custom_connect_fail), and the radio is
\* off exactly while the supply monitor waits for good readings.
THEOREM StrategyInvariant == Spec => []StrategyInv
  <1>1. TypeOK /\ CountersInRange /\ RadioFollowsSupply => StrategyInv
    BY DEF StrategyInv
  <1> QED BY <1>1, ConnectivityTyped, CountersStayInRange, RadioObeysSupply, PTL

-----------------------------------------------------------------------------
(* The MQTT client's task and its retries, for a 60 s timer whose callback   *)
(* does not run in the middle of a task's starting or ending.                *)

\* The agent has not started the client yet.
Early == {"begin", "check", "wait_wifi", "connect"}

\* The fields of the client at each step of its task: run is set while the task
\* loops, and only the agent's stop clears it under the task.
ClientOK ==
    /\ task \in {"none", "created", "exit"} => ~run /\ mqtt_state \in {"INIT", "DISCONNECTED"}
    /\ task = "abort" => run /\ mqtt_state = "WAIT_RECONNECT"
    /\ task = "loop" /\ run => mqtt_state \in {"INIT", "CONNECTED", "WAIT_RECONNECT"}
    /\ task = "loop" /\ ~run => agent = "stopping"

\* The timer's callback finds no task, or one that holds the lock or has a state
\* in which esp_mqtt_client_start refuses; it never meets the agent's start or stop.
StartOK ==
    /\ agent \in Early => task = "none" /\ rmaker_timer # "due"
    /\ starting => /\ agent \notin Early \cup {"stopping"}
                   /\ task \in {"none", "abort"} \/ (task = "loop" /\ run)

ClientInv == ClientOK /\ StartOK /\ OneMqttTask

clientVars == <<rmaker_timer, starting, mqtt_state, run, task, twin, agent>>

\* The actions that touch the client, its task, the agent or the retry's timer.
ClientStep ==
    \/ OnStaDisconnected \/ OnGotIp \/ OnMqttDisconnected
    \/ RmakerTimerDue \/ RmakerTimerFires \/ TimerStartsClient
    \/ MqttTask \/ Agent

\* Every step is one of those, or leaves all of that alone.
LEMMA StepOnClient == [Next]_vars => ClientStep \/ UNCHANGED clientVars
  <1> USE DEF clientVars, timerVars, mqttVars, agentVars
  <1>1. Driver \/ Environment \/ MainEnds \/ Supply => UNCHANGED clientVars
    BY DEF Driver, StaAssociate, StaGotIp, StaLost, Environment, MainEnds, Supply, ReadLow, ReadHigh
  <1>2. OnStaStart \/ WifiTimerFires => UNCHANGED clientVars
    BY DEF OnStaStart, WifiTimerFires
  <1>3. UNCHANGED vars => UNCHANGED clientVars
    BY DEF vars
  <1> QED
    BY <1>1, <1>2, <1>3 DEF Next, EventLoop, ClientStep

\* Every step keeps the client's fields in line with its task, and no task is
\* created beside another.
LEMMA ClientInvStep ==
    ASSUME NarrowWindow = FALSE, TypeOK, ClientInv, [Next]_vars
    PROVE  ClientInv'
  <1> USE DEF ClientInv, ClientOK, StartOK, OneMqttTask, Early, timerVars, mqttVars, agentVars
  <1>1. CASE UNCHANGED clientVars
    BY <1>1 DEF clientVars
  <1>2. CASE OnStaDisconnected \/ OnGotIp \/ OnMqttDisconnected
    BY <1>2 DEF OnStaDisconnected, OnGotIp, OnMqttDisconnected, rmaker_timer_start
  <1>3. CASE RmakerTimerDue
    BY <1>3 DEF RmakerTimerDue, Settled
  <1>4. CASE RmakerTimerFires
    BY <1>4 DEF RmakerTimerFires, Settled
  <1>5. CASE TimerStartsClient
    BY <1>5 DEF TimerStartsClient, Preempted, ApiLockFree, esp_mqtt_client_start, MayStart
  <1>6. CASE MqttTask
    <2>p. ~(starting /\ ApiLockFree)
      BY <1>6 DEF MqttTask, Preempted
    <2>1. CASE MqttTaskBegins
      BY <2>1, <2>p DEF MqttTaskBegins
    <2>2. CASE MqttConnects
      BY <2>2, <2>p DEF MqttConnects
    <2>3. CASE MqttAborts
      BY <2>3, <2>p DEF MqttAborts
    <2>4. CASE MqttPostsDisconnected
      BY <2>4, <2>p DEF MqttPostsDisconnected
    <2>5. CASE MqttTaskLeaves
      BY <2>5, <2>p DEF MqttTaskLeaves, ApiLockFree
    <2>6. CASE MqttTaskEnds
      BY <2>6, <2>p DEF MqttTaskEnds
    <2> QED BY <1>6, <2>1, <2>2, <2>3, <2>4, <2>5, <2>6 DEF MqttTask
  <1>7. CASE Agent
    <2>p. ~(starting /\ ApiLockFree)
      BY <1>7 DEF Agent, Preempted
    <2>1. CASE AgentRegisters \/ AgentChecks \/ AgentHasWifi \/ AgentHasMqtt
      BY <2>1 DEF AgentRegisters, AgentChecks, AgentHasWifi, AgentHasMqtt
    <2>2. CASE AgentConnects
      BY <2>2, <2>p DEF AgentConnects, esp_mqtt_client_start, MayStart
    <2>3. CASE AgentReports
      BY <2>3, <2>p DEF AgentReports, ApiLockFree
    <2>4. CASE AgentStopped
      BY <2>4, <2>p DEF AgentStopped
    <2> QED BY <1>7, <2>1, <2>2, <2>3, <2>4 DEF Agent
  <1> QED
    BY <1>1, <1>2, <1>3, <1>4, <1>5, <1>6, <1>7, StepOnClient DEF ClientStep

\* The client's fields start in line with there being no task.
LEMMA ClientInvInit == Init => ClientInv
  BY DEF Init, ClientInv, ClientOK, StartOK, OneMqttTask, Early

\* esp_mqtt_client_start, called by the agent and by the retry's timer while the
\* task runs, ends or connects, never creates a second task on the client.
THEOREM OneTaskPerClient ==
    ASSUME NarrowWindow = FALSE
    PROVE  Spec => []OneMqttTask
  <1>1. TypeOK /\ ClientInv /\ [Next]_vars => ClientInv'
    BY ClientInvStep
  <1>2. ClientInv => OneMqttTask
    BY DEF ClientInv
  <1> QED BY ClientInvInit, <1>1, <1>2, ConnectivityTyped, PTL DEF Spec

\* The task has ended or is on its way out, by itself.
Leaving == task \in {"none", "exit"} \/ (task = "loop" /\ mqtt_state = "WAIT_RECONNECT")

Wakers == {"STA_DISCONNECTED", "GOT_IP", "MQTT_DISCONNECTED"}

\* From the moment the task has posted its end, a retry is armed or an event is
\* queued that arms one (or ends the connection); MqttRetryPending says so only
\* of the time after the task is gone.
RetryAhead ==
    is_connected /\ agent \in {"wait_mqtt", "report", "started"} /\ Leaving
        => rmaker_timer # "off" \/ Queued(Wakers) \/ (task = "none" /\ starting)

\* A post leaves what is queued in the queue.
LEMMA PostKeepsQueued ==
    ASSUME TypeOK, NEW e \in Events, Post(e), NEW E
    PROVE  (Queued(E) => Queued(E)') /\ (e \in E => Queued(E)')
  <1>1. /\ Len(evq) \in Nat /\ Len(evq') = Len(evq) + 1
        /\ \A i \in 1..Len(evq) : evq'[i] = evq[i]
        /\ evq'[Len(evq) + 1] = e
    BY PostPlaces
  <1>2. Len(evq) + 1 \in 1..Len(evq') /\ \A i \in 1..Len(evq) : i \in 1..Len(evq')
    BY <1>1
  <1> QED BY <1>1, <1>2 DEF Queued

\* A take leaves everything but the event taken.
LEMMA TakeKeepsQueued ==
    ASSUME TypeOK, NEW e, Next_event(e), NEW E, e \notin E, Queued(E)
    PROVE  Queued(E)'
  <1>1. /\ Len(evq) \in Nat \ {0} /\ Len(evq') = Len(evq) - 1
        /\ evq[1] = e
        /\ \A i \in 1..Len(evq') : evq'[i] = evq[i + 1]
    BY TakePlaces
  <1>2. PICK i \in 1..Len(evq) : evq[i] \in E
    BY DEF Queued
  <1>3. i # 1
    BY <1>1, <1>2
  <1>4. i - 1 \in 1..Len(evq') /\ (i - 1) + 1 = i
    BY <1>1, <1>2, <1>3
  <1>5. evq'[i - 1] = evq[i]
    BY <1>1, <1>4
  <1> QED BY <1>2, <1>4, <1>5 DEF Queued

\* Every step keeps a retry ahead.
LEMMA RetryStep ==
    ASSUME NarrowWindow = FALSE, TypeOK, ClientInv, RetryAhead, [Next]_vars
    PROVE  RetryAhead'
  <1> USE DEF ClientInv, ClientOK, StartOK, RetryAhead, Leaving, Early, timerVars, mqttVars,
              agentVars, strategyVars, wifiVars
  <1>ev. {"STA_START", "STA_DISCONNECTED", "GOT_IP", "MQTT_DISCONNECTED"} \subseteq Events
    BY DEF Events
  <1>p. /\ Post("STA_START") /\ Queued(Wakers) => Queued(Wakers)'
        /\ Post("STA_DISCONNECTED") \/ Post("GOT_IP") \/ Post("MQTT_DISCONNECTED") => Queued(Wakers)'
    <2>1. {"STA_DISCONNECTED", "GOT_IP", "MQTT_DISCONNECTED"} \subseteq Wakers
      BY DEF Wakers
    <2> QED BY <1>ev, <2>1, PostKeepsQueued
  <1>t. Next_event("STA_START") /\ Queued(Wakers) => Queued(Wakers)'
    BY TakeKeepsQueued DEF Wakers
  <1>u. UNCHANGED evq /\ Queued(Wakers) => Queued(Wakers)'
    BY DEF Queued
  <1>1. CASE StaAssociate \/ Environment \/ MainEnds
    BY <1>1, <1>u DEF StaAssociate, Environment, MainEnds
  <1>2. CASE StaGotIp \/ StaLost
    BY <1>2, <1>p DEF StaGotIp, StaLost
  <1>3. CASE ReadLow
    BY <1>3, <1>p, <1>u DEF ReadLow, esp_wifi_stop
  <1>4. CASE ReadHigh
    BY <1>4, <1>p, <1>u DEF ReadHigh, esp_wifi_start
  <1>5. CASE OnStaStart
    BY <1>5, <1>t DEF OnStaStart
  <1>6. CASE OnStaDisconnected
    BY <1>6 DEF OnStaDisconnected, connect_fail
  <1>7. CASE OnGotIp
    BY <1>7 DEF OnGotIp, rmaker_timer_start
  <1>8. CASE OnMqttDisconnected
    BY <1>8 DEF OnMqttDisconnected, rmaker_timer_start
  <1>9. CASE WifiTimerFires \/ RmakerTimerDue
    BY <1>9, <1>u DEF WifiTimerFires, RmakerTimerDue
  <1>10. CASE RmakerTimerFires
    BY <1>10, <1>u DEF RmakerTimerFires, Settled
  <1>11. CASE TimerStartsClient
    BY <1>11, <1>u DEF TimerStartsClient, Preempted, esp_mqtt_client_start, MayStart
  <1>12. CASE MqttTask
    <2>1. CASE MqttTaskBegins \/ MqttConnects \/ MqttAborts
      BY <2>1 DEF MqttTaskBegins, MqttConnects, MqttAborts
    <2>2. CASE MqttPostsDisconnected
      BY <2>2, <1>p DEF MqttPostsDisconnected
    <2>3. CASE MqttTaskLeaves \/ MqttTaskEnds
      BY <2>3, <1>u DEF MqttTaskLeaves, MqttTaskEnds
    <2> QED BY <1>12, <2>1, <2>2, <2>3 DEF MqttTask
  <1>13. CASE Agent
    <2>1. CASE AgentRegisters \/ AgentChecks \/ AgentHasWifi \/ AgentHasMqtt \/ AgentStopped
      BY <2>1, <1>u DEF AgentRegisters, AgentChecks, AgentHasWifi, AgentHasMqtt, AgentStopped
    <2>2. CASE AgentConnects
      BY <2>2, <1>u DEF AgentConnects, esp_mqtt_client_start, MayStart
    <2>3. CASE AgentReports
      BY <2>3, <1>u DEF AgentReports
    <2> QED BY <1>13, <2>1, <2>2, <2>3 DEF Agent
  <1>14. CASE UNCHANGED vars
    BY <1>14, <1>u DEF vars
  <1> QED
    BY <1>1, <1>2, <1>3, <1>4, <1>5, <1>6, <1>7, <1>8, <1>9, <1>10, <1>11, <1>12, <1>13, <1>14
    DEF Next, Driver, Supply, EventLoop

\* With the network up and no MQTT task left, the 60 s timer is armed or a queued
\* event will arm it, whatever the order in which the events of Wi-Fi and MQTT, the
\* timer and the end of the task come, unless the agent has given up.
THEOREM MqttRetryNeverLost ==
    ASSUME NarrowWindow = FALSE
    PROVE  Spec => []MqttRetryPending
  <1>1. Init => RetryAhead
    BY DEF Init, StrategyInit, RetryAhead
  <1>2. TypeOK /\ ClientInv /\ [Next]_vars => ClientInv'
    BY ClientInvStep
  <1>3. TypeOK /\ ClientInv /\ RetryAhead /\ [Next]_vars => RetryAhead'
    BY RetryStep
  <1>4. RetryAhead => MqttRetryPending
    BY DEF RetryAhead, MqttRetryPending, Leaving, Wakers
  <1> QED BY ClientInvInit, <1>1, <1>2, <1>3, <1>4, ConnectivityTyped, PTL DEF Spec
=============================================================================
