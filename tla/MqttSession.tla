---------------------------- MODULE MqttSession ----------------------------
(***************************************************************************)
(* A node's MQTT sessions: the client of patch/.../esp-mqtt/mqtt_client.c  *)
(* with its outbox (lib/mqtt_outbox.c) and the glue's table of             *)
(* subscriptions (rmaker_common/src/esp-mqtt/esp-mqtt-glue.c), against a   *)
(* broker and a network that may die at any moment.                        *)
(*                                                                         *)
(* As the project configures them: QoS 1, clean sessions, no automatic     *)
(* reconnecting, publishing refused while not connected, expired messages  *)
(* reported.  The client's lock is recursive and held through an iteration *)
(* of its task, whose parts are the values of step; other tasks call in    *)
(* between iterations ("poll"), callbacks in the middle of one             *)
(* ("deliver").  A write fails only on a connection that is dead or        *)
(* closed, and on a dead one it may also seem to succeed.                  *)
(***************************************************************************)
EXTENDS Integers, Sequences, SequencesExt

CONSTANTS Topics,       \* topics that the node subscribes to
          NoTopic,      \* an empty slot, or a message without a topic
          Begins,       \* pairs of topics of which the first begins with the second
          Slots,        \* MAX_MQTT_SUBSCRIPTIONS
          MaxPacketId,  \* largest packet identifier
          MaxCalls,     \* bound: identifiers after which no task calls in
          MaxConns,     \* bound: connections that are tried
          MaxCmds,      \* bound: messages of the broker
          ChanMax       \* bound: packets on their way when one is sent again or answered

ASSUME SessionAssumption ==
    /\ NoTopic \notin Topics
    /\ Begins \subseteq Topics \X Topics
    /\ \A t \in Topics : <<t, t>> \in Begins
    /\ Slots \in Nat \ {0} /\ MaxPacketId \in Nat /\ MaxCalls \in Nat
    /\ MaxConns \in Nat /\ MaxCmds \in Nat /\ ChanMax \in Nat

VARIABLES
    state, step,        \* client->state, and where its task is
    outbox,             \* the outbox, oldest item first
    pending_msg_count,
    last_message_id,
    wait_for_ping_resp,
    idle,               \* half the keepalive time has passed since the last write
    net,                \* the transport: open, closed, or open and dead
    toBroker, toClient, \* packets on their way
    subscriptions,      \* the glue's table
    slot,               \* the CONNECTED handler's place in that table
    agent,              \* the task that subscribes and disconnects
    brokerSubs, received,           \* the broker
    offered, confirmed,             \* history: published messages, PUBLISHED events
    conns, cmds                     \* history: how often, for the bounds

clientVars == <<state, step, outbox, pending_msg_count, last_message_id>>
linkVars   == <<net, toBroker, toClient, wait_for_ping_resp, idle>>
glueVars   == <<subscriptions, slot, agent>>
peerVars   == <<brokerSubs, received, cmds>>
histVars   == <<offered, confirmed, conns>>
vars == <<clientVars, linkVars, glueVars, peerVars, histVars>>

Pkt(type, id, topic) == [type |-> type, id |-> id, topic |-> topic]
Item(type, id, topic, pending) ==
    [type |-> type, id |-> id, topic |-> topic, pending |-> pending, age |-> 0]
Ages == 0..2            \* fresh, over 1 s (sent again), over 30 s (expired)
AgentIdle == [pc |-> "idle", topic |-> NoTopic, slot |-> 0]
AgentDone == [AgentIdle EXCEPT !.pc = "done"]

\* The first member of a set of places, if there is one.
FirstOf(S) == {i \in S : \A j \in S : i <= j}

Locked == step \notin {"none", "poll"}

Init ==
    /\ state = "INIT" /\ step = "none"
    /\ outbox = << >> /\ pending_msg_count = 0 /\ last_message_id = 0
    /\ wait_for_ping_resp = FALSE /\ idle = FALSE
    /\ net = "closed" /\ toBroker = << >> /\ toClient = << >>
    /\ subscriptions = [i \in 1..Slots |-> NoTopic]
    /\ slot = 1 /\ agent = AgentIdle
    /\ brokerSubs = {} /\ received = {}
    /\ offered = {} /\ confirmed = << >> /\ conns = 0 /\ cmds = 0

-----------------------------------------------------------------------------
(***************************************************************************)
(* Writing, and closing the connection.                                    *)
(***************************************************************************)

\* mqtt_write_data succeeds: a dead connection swallows the packet.
Written(m) ==
    /\ net # "closed"
    /\ toBroker' = IF net = "open" THEN Append(toBroker, m) ELSE toBroker
    /\ idle' = FALSE
    /\ UNCHANGED <<net, toClient>>

WriteFails == net # "open"

\* What a failed write leaves alone when the caller does not abort.
KeepConnection == WriteFails /\ UNCHANGED <<net, toBroker, toClient, idle>>

\* The MQTT_EVENT_DISCONNECTED it dispatches only makes the glue post an
\* event, which is in module Connectivity.
esp_mqtt_abort_connection ==
    /\ net' = "closed" /\ toBroker' = << >> /\ toClient' = << >>
    /\ wait_for_ping_resp' = FALSE
    /\ state' = "WAIT_RECONNECT"
    /\ UNCHANGED idle

-----------------------------------------------------------------------------
(***************************************************************************)
(* The outbox.                                                             *)
(***************************************************************************)

\* A new packet identifier, an item for it at the end of the outbox, and one
\* pending message more: the beginning of every publish and (un)subscribe.
Enqueue(type, topic, pending) ==
    /\ last_message_id < MaxPacketId
    /\ last_message_id' = last_message_id + 1
    /\ pending_msg_count' = pending_msg_count + 1
    /\ outbox' = Append(outbox, Item(type, last_message_id + 1, topic, pending))

outbox_delete(i) == outbox' = RemoveAt(outbox, i)

\* The place of the item that an acknowledgement names.
Acked(type, id) ==
    {i \in 1..Len(outbox) : outbox[i].id = id /\ outbox[i].type = type}

\* is_valid_mqtt_msg: only a pending message can be acknowledged.
is_valid_mqtt_msg(type, id) == pending_msg_count # 0 /\ Acked(type, id) # {}

Expired == {i \in 1..Len(outbox) : outbox[i].age = 2}

\* outbox_dequeue: the oldest item in that state.
Dequeue(pending) == {i \in 1..Len(outbox) : outbox[i].pending = pending}

-----------------------------------------------------------------------------
(***************************************************************************)
(* The client's task: connecting.                                          *)
(***************************************************************************)

\* esp_mqtt_client_start by the reconnect timer or the agent.  That a second
\* start cannot overtake the first is OneMqttTask of module Connectivity; the
\* agent does not stand between two statements for a whole reconnection.
esp_mqtt_client_start ==
    /\ state \in {"INIT", "DISCONNECTED"} /\ step = "none"
    /\ agent.pc # "store"
    /\ conns < MaxConns
    /\ conns' = conns + 1
    /\ state' = "INIT" /\ step' = "poll"
    /\ UNCHANGED <<outbox, pending_msg_count, last_message_id, linkVars, glueVars,
                   peerVars, offered, confirmed>>

\* Mutant: the handler begins with the second slot.
ConnectedSkipsFirst ==
    /\ step = "poll" /\ state = "INIT"
    /\ net' = "open" /\ toBroker' = << >> /\ toClient' = << >>
    /\ wait_for_ping_resp' = FALSE
    /\ brokerSubs' = {}
    /\ state' = "CONNECTED" /\ step' = "resub" /\ slot' = 2
    /\ UNCHANGED <<outbox, pending_msg_count, last_message_id, idle, subscriptions,
                   agent, received, cmds, histVars>>

\* MQTT_STATE_INIT with a transport and a CONNACK: a clean session begins,
\* and the glue's handler of MQTT_EVENT_CONNECTED goes through its table.
Connected ==
    /\ step = "poll" /\ state = "INIT"
    /\ net' = "open" /\ toBroker' = << >> /\ toClient' = << >>
    /\ wait_for_ping_resp' = FALSE
    /\ brokerSubs' = {}
    /\ state' = "CONNECTED" /\ step' = "resub" /\ slot' = 1
    /\ UNCHANGED <<outbox, pending_msg_count, last_message_id, idle, subscriptions,
                   agent, received, cmds, histVars>>

\* MQTT_STATE_INIT without.
NotConnected ==
    /\ step = "poll" /\ state = "INIT"
    /\ esp_mqtt_abort_connection
    /\ UNCHANGED <<step, outbox, pending_msg_count, last_message_id, glueVars,
                   peerVars, histVars>>

\* The slots with an entry, from one on.
Used(from) == {i \in from..Slots : subscriptions[i] # NoTopic}

\* The next entry of the handler's loop.  esp_mqtt_client_subscribe keeps the item
\* of a SUBSCRIBE that it could not write.
Resubscribe ==
    /\ step = "resub"
    /\ \E i \in FirstOf(Used(slot)) :
       /\ slot' = i + 1
       /\ Enqueue("SUBSCRIBE", subscriptions[i], "TRANSMITTED")
       /\ \/ Written(Pkt("SUBSCRIBE", last_message_id + 1, subscriptions[i]))
          \/ KeepConnection
    /\ UNCHANGED <<state, step, wait_for_ping_resp, subscriptions, agent, peerVars, histVars>>

Resubscribed ==
    /\ step = "resub" /\ Used(slot) = {}
    /\ step' = "poll"
    /\ UNCHANGED <<state, outbox, pending_msg_count, last_message_id, linkVars,
                   glueVars, peerVars, histVars>>

\* MQTT_STATE_WAIT_RECONNECT: without automatic reconnecting the loop ends.
LeaveLoop ==
    /\ step = "poll" /\ state = "WAIT_RECONNECT"
    /\ state' = "DISCONNECTED"
    /\ UNCHANGED <<step, outbox, pending_msg_count, last_message_id, linkVars,
                   glueVars, peerVars, histVars>>

\* Mutant: the outbox is not emptied.
TaskEndsKeepsOutbox ==
    /\ step = "poll" /\ state = "DISCONNECTED"
    /\ step' = "none"
    /\ net' = "closed" /\ toBroker' = << >> /\ toClient' = << >>
    /\ agent' = IF agent.pc = "wait" THEN AgentDone ELSE agent
    /\ UNCHANGED <<state, outbox, pending_msg_count, last_message_id,
                   wait_for_ping_resp, idle, subscriptions, slot, peerVars, histVars>>

\* The end of esp_mqtt_task.  What is still in the outbox is lost, and
\* pending_msg_count keeps counting it.  Sets STOPPED_BIT.
TaskEnds ==
    /\ step = "poll" /\ state = "DISCONNECTED"
    /\ step' = "none"
    /\ outbox' = << >>
    /\ net' = "closed" /\ toBroker' = << >> /\ toClient' = << >>
    /\ agent' = IF agent.pc = "wait" THEN AgentDone ELSE agent
    /\ UNCHANGED <<state, pending_msg_count, last_message_id, wait_for_ping_resp,
                   idle, subscriptions, slot, peerVars, histVars>>

-----------------------------------------------------------------------------
(***************************************************************************)
(* The client's task: an iteration while connected.                        *)
(***************************************************************************)

\* esp_transport_poll_read or the first read report an error.
ReadFails ==
    /\ step = "poll" /\ state = "CONNECTED" /\ net = "dead"
    /\ esp_mqtt_abort_connection
    /\ UNCHANGED <<step, outbox, pending_msg_count, last_message_id, glueVars,
                   peerVars, histVars>>

\* mqtt_process_receive finds nothing.
ReceiveNothing ==
    /\ step = "poll" /\ state = "CONNECTED" /\ toClient = << >>
    /\ step' = "expire"
    /\ UNCHANGED <<state, outbox, pending_msg_count, last_message_id, linkVars,
                   glueVars, peerVars, histVars>>

\* The packet that mqtt_process_receive takes.
Taken(type) ==
    /\ step = "poll" /\ state = "CONNECTED" /\ toClient # << >>
    /\ Head(toClient).type = type
    /\ toClient' = Tail(toClient)
    /\ UNCHANGED <<state, last_message_id, net, toBroker, idle, glueVars, peerVars,
                   offered, conns>>

\* Mutant: an acknowledgement counts though nothing waits for it.
AckAlwaysCounts(ack, type) ==
    LET id == Head(toClient).id IN
    /\ Taken(ack)
    /\ step' = "expire"
    /\ pending_msg_count' = IF pending_msg_count > 0 THEN pending_msg_count - 1 ELSE 0
    /\ IF is_valid_mqtt_msg(type, id)
       THEN /\ \E i \in FirstOf(Acked(type, id)) : outbox_delete(i)
            /\ confirmed' = IF type = "PUBLISH" THEN Append(confirmed, id) ELSE confirmed
       ELSE UNCHANGED <<outbox, confirmed>>
    /\ UNCHANGED wait_for_ping_resp

\* Mutant: the event is posted for every acknowledgement.
AckAlwaysReported(ack, type) ==
    LET id == Head(toClient).id IN
    /\ Taken(ack)
    /\ step' = "expire"
    /\ confirmed' = IF type = "PUBLISH" THEN Append(confirmed, id) ELSE confirmed
    /\ IF is_valid_mqtt_msg(type, id)
       THEN /\ \E i \in FirstOf(Acked(type, id)) : outbox_delete(i)
            /\ pending_msg_count' = pending_msg_count - 1
       ELSE UNCHANGED <<outbox, pending_msg_count>>
    /\ UNCHANGED wait_for_ping_resp

\* SUBACK, UNSUBACK and PUBACK: ack is the packet, type what it acknowledges.
\* A PUBACK that is valid makes the glue post RMAKER_MQTT_EVENT_PUBLISHED.
ReceiveAck(ack, type) ==
    LET id == Head(toClient).id IN
    /\ Taken(ack)
    /\ step' = "expire"
    /\ IF is_valid_mqtt_msg(type, id)
       THEN /\ \E i \in FirstOf(Acked(type, id)) : outbox_delete(i)
            /\ pending_msg_count' = pending_msg_count - 1
            /\ confirmed' = IF type = "PUBLISH" THEN Append(confirmed, id) ELSE confirmed
       ELSE UNCHANGED <<outbox, pending_msg_count, confirmed>>
    /\ UNCHANGED wait_for_ping_resp

ReceivePingResp ==
    /\ Taken("PINGRESP")
    /\ wait_for_ping_resp' = FALSE
    /\ step' = "expire"
    /\ UNCHANGED <<outbox, pending_msg_count, confirmed>>

\* PUBLISH: deliver_publish calls the subscriber, who may publish.
ReceivePublish ==
    /\ Taken("PUBLISH")
    /\ step' = "deliver"
    /\ UNCHANGED <<outbox, pending_msg_count, confirmed, wait_for_ping_resp>>

\* The PUBACK for it; one that cannot be written ends the connection.
Delivered ==
    /\ step = "deliver"
    /\ \/ /\ Written(Pkt("PUBACK", 0, NoTopic))
          /\ step' = "expire"
          /\ UNCHANGED <<state, wait_for_ping_resp>>
       \/ /\ WriteFails
          /\ esp_mqtt_abort_connection
          /\ step' = "poll"
    /\ UNCHANGED <<outbox, pending_msg_count, last_message_id, glueVars, peerVars,
                   histVars>>

\* A round of mqtt_delete_expired_messages.
ExpireOne ==
    /\ step = "expire"
    /\ \E i \in FirstOf(Expired) : outbox_delete(i)
    /\ pending_msg_count' = IF pending_msg_count > 0 THEN pending_msg_count - 1 ELSE 0
    /\ UNCHANGED <<state, step, last_message_id, linkVars, glueVars, peerVars, histVars>>

\* The item to send again: one that was never sent, or the oldest one sent if
\* it is over a second old.  The second since the last round is a choice.
ToResend ==
    IF Dequeue("QUEUED") # {} THEN FirstOf(Dequeue("QUEUED"))
    ELSE {i \in FirstOf(Dequeue("TRANSMITTED")) : outbox[i].age > 0}

\* The keepalive check ends an iteration; it has something to do when idle.
AfterResend(due) == step' = IF due THEN "keepalive" ELSE "poll"

\* mqtt_resend_queued; after a failure the iteration goes on nevertheless.
Resend ==
    /\ step = "expire" /\ Expired = {}
    /\ Len(toBroker) < ChanMax
    /\ \E i \in ToResend :
          \/ /\ Written(Pkt(outbox[i].type, outbox[i].id, outbox[i].topic))
             /\ outbox' = [outbox EXCEPT ![i].pending = "TRANSMITTED"]
             /\ AfterResend(FALSE)
             /\ UNCHANGED <<state, wait_for_ping_resp>>
          \/ /\ WriteFails
             /\ esp_mqtt_abort_connection
             /\ AfterResend(idle)
             /\ UNCHANGED outbox
    /\ UNCHANGED <<pending_msg_count, last_message_id, glueVars, peerVars, histVars>>

ResendNothing ==
    /\ step = "expire" /\ Expired = {} /\ Dequeue("QUEUED") = {}
    /\ AfterResend(idle)
    /\ UNCHANGED <<state, outbox, pending_msg_count, last_message_id, linkVars,
                   glueVars, peerVars, histVars>>

\* Mutant: the missing answer is not looked for.
KeepaliveOnlyPings ==
    /\ step = "keepalive"
    /\ step' = "poll"
    /\ \/ /\ Written(Pkt("PINGREQ", 0, NoTopic))
          /\ wait_for_ping_resp' = TRUE
          /\ UNCHANGED state
       \/ WriteFails /\ esp_mqtt_abort_connection
    /\ UNCHANGED <<outbox, pending_msg_count, last_message_id, glueVars, peerVars,
                   histVars>>

\* The end of an iteration: a PINGREQ, or the missing answer to the last one.
Keepalive ==
    /\ step = "keepalive"
    /\ step' = "poll"
    /\ \/ wait_for_ping_resp /\ esp_mqtt_abort_connection
       \/ /\ ~wait_for_ping_resp
          /\ Written(Pkt("PINGREQ", 0, NoTopic))
          /\ wait_for_ping_resp' = TRUE
          /\ UNCHANGED state
       \/ ~wait_for_ping_resp /\ WriteFails /\ esp_mqtt_abort_connection
    /\ UNCHANGED <<outbox, pending_msg_count, last_message_id, glueVars, peerVars,
                   histVars>>

-----------------------------------------------------------------------------
(***************************************************************************)
(* Calls of other tasks, and of callbacks.                                 *)
(***************************************************************************)

\* esp_mqtt_client_publish with QoS 1.  A failed write ends the connection
\* from the caller's task and leaves the message QUEUED.
esp_mqtt_glue_publish ==
    /\ ~Locked \/ step = "deliver"
    /\ state = "CONNECTED"
    /\ last_message_id < MaxCalls
    /\ offered' = offered \cup {last_message_id + 1}
    /\ \/ /\ Written(Pkt("PUBLISH", last_message_id + 1, NoTopic))
          /\ Enqueue("PUBLISH", NoTopic, "TRANSMITTED")
          /\ UNCHANGED <<state, wait_for_ping_resp>>
       \/ /\ WriteFails
          /\ esp_mqtt_abort_connection
          /\ Enqueue("PUBLISH", NoTopic, "QUEUED")
    /\ UNCHANGED <<step, glueVars, peerVars, confirmed, conns>>

Free == {i \in 1..Slots : subscriptions[i] = NoTopic}

\* esp_mqtt_glue_subscribe, once for each topic, up to the return of esp_mqtt_client_subscribe.
SubscribeCall(t) ==
    /\ agent.pc = "idle" /\ ~Locked /\ state = "CONNECTED"
    /\ last_message_id < MaxCalls
    /\ \A i \in 1..Slots : subscriptions[i] # t
    /\ Enqueue("SUBSCRIBE", t, "TRANSMITTED")
    /\ \E i \in FirstOf(Free) :
          \/ /\ Written(Pkt("SUBSCRIBE", last_message_id + 1, t))
             /\ agent' = [pc |-> "store", topic |-> t, slot |-> i]
          \/ KeepConnection /\ UNCHANGED agent
    /\ UNCHANGED <<state, step, wait_for_ping_resp, subscriptions, slot, peerVars,
                   histVars>>

\* ... and the entry in the table, outside the client's lock.
SubscribeStores ==
    /\ agent.pc = "store"
    /\ subscriptions' = [subscriptions EXCEPT ![agent.slot] = agent.topic]
    /\ agent' = AgentIdle
    /\ UNCHANGED <<clientVars, linkVars, slot, peerVars, histVars>>

\* esp_mqtt_glue_disconnect, with which a failed agent ends, begins with the
\* first slot.
DisconnectCall ==
    /\ agent.pc = "idle"
    /\ agent' = [AgentIdle EXCEPT !.pc = "unsub", !.slot = 1]
    /\ UNCHANGED <<clientVars, linkVars, subscriptions, slot, peerVars, histVars>>

\* esp_mqtt_glue_unsubscribe frees the first entry that begins with the topic.
Matches(topic) ==
    {i \in 1..Slots : <<subscriptions[i], topic>> \in Begins}

Unsubscribe(topic) ==
    /\ ~Locked
    /\ \/ /\ state = "CONNECTED"
          /\ Enqueue("UNSUBSCRIBE", topic, "TRANSMITTED")
          /\ \/ Written(Pkt("UNSUBSCRIBE", last_message_id + 1, topic))
             \/ KeepConnection
       \/ /\ state # "CONNECTED"
          /\ UNCHANGED <<outbox, pending_msg_count, last_message_id, net, toBroker,
                         toClient, idle>>
    /\ \E i \in FirstOf(Matches(topic)) :
          subscriptions' = [subscriptions EXCEPT ![i] = NoTopic]

\* esp_mqtt_glue_unsubscribe_all, an entry at a time.
UnsubscribeNext ==
    /\ agent.pc = "unsub"
    /\ \E i \in FirstOf(Used(agent.slot)) :
          /\ agent' = [agent EXCEPT !.slot = i + 1]
          /\ Unsubscribe(subscriptions[i])
    /\ UNCHANGED <<state, step, wait_for_ping_resp, slot, peerVars, histVars>>

\* esp_mqtt_client_stop: DISCONNECT if connected, then wait for the task.
esp_mqtt_client_stop ==
    /\ agent.pc = "unsub" /\ Used(agent.slot) = {}
    /\ ~Locked
    /\ \/ /\ step = "none" \/ state = "DISCONNECTED"
          /\ agent' = AgentDone
          /\ UNCHANGED <<state, toBroker, toClient, net, idle>>
       \/ /\ step = "poll" /\ state # "DISCONNECTED"
          /\ \/ state = "CONNECTED" /\ Written(Pkt("DISCONNECT", 0, NoTopic))
             \/ /\ state = "CONNECTED" => WriteFails
                /\ UNCHANGED <<net, toBroker, toClient, idle>>
          /\ state' = "DISCONNECTED"
          /\ agent' = [agent EXCEPT !.pc = "wait"]
    /\ UNCHANGED <<step, outbox, pending_msg_count, last_message_id,
                   wait_for_ping_resp, subscriptions, slot, peerVars, histVars>>

-----------------------------------------------------------------------------
(***************************************************************************)
(* The broker, the network and the passing of time.                        *)
(***************************************************************************)

\* The broker's answer to a packet.
Answer(m) ==
    CASE m.type = "PUBLISH"     -> << Pkt("PUBACK", m.id, NoTopic) >>
      [] m.type = "SUBSCRIBE"   -> << Pkt("SUBACK", m.id, NoTopic) >>
      [] m.type = "UNSUBSCRIBE" -> << Pkt("UNSUBACK", m.id, NoTopic) >>
      [] m.type = "PINGREQ"     -> << Pkt("PINGRESP", 0, NoTopic) >>
      [] OTHER                  -> << >>

BrokerTakes ==
    LET m == Head(toBroker) IN
    /\ net = "open" /\ toBroker # << >> /\ Len(toClient) < ChanMax
    /\ toBroker' = Tail(toBroker)
    /\ toClient' = toClient \o Answer(m)
    /\ received' = IF m.type = "PUBLISH" THEN received \cup {m.id} ELSE received
    /\ brokerSubs' = CASE m.type = "SUBSCRIBE"   -> brokerSubs \cup {m.topic}
                       [] m.type = "UNSUBSCRIBE" -> brokerSubs \ {m.topic}
                       [] OTHER                  -> brokerSubs
    /\ net' = IF m.type = "DISCONNECT" THEN "dead" ELSE net
    /\ UNCHANGED <<clientVars, wait_for_ping_resp, idle, glueVars, cmds, histVars>>

BrokerSends(t) ==
    /\ net = "open" /\ t \in brokerSubs /\ cmds < MaxCmds
    /\ toClient' = Append(toClient, Pkt("PUBLISH", 0, t))
    /\ cmds' = cmds + 1
    /\ UNCHANGED <<clientVars, net, toBroker, wait_for_ping_resp, idle, glueVars,
                   brokerSubs, received, histVars>>

\* The peer is gone; what it had sent may still arrive.
NetDies ==
    /\ net = "open"
    /\ net' = "dead" /\ toBroker' = << >>
    /\ toClient' \in {<< >>, toClient}
    /\ UNCHANGED <<clientVars, wait_for_ping_resp, idle, glueVars, peerVars, histVars>>

\* Items reach an age in the order in which they were enqueued.
Age(i) ==
    /\ i \in 1..Len(outbox) /\ outbox[i].age < 2
    /\ \A j \in 1..(i - 1) : outbox[j].age > outbox[i].age
    /\ outbox' = [outbox EXCEPT ![i].age = @ + 1]
    /\ UNCHANGED <<state, step, pending_msg_count, last_message_id, linkVars, glueVars,
                   peerVars, histVars>>

\* 60 s without a write: every item, written at least once, is over 30 s old.
KeepaliveElapses ==
    /\ state = "CONNECTED" /\ ~idle
    /\ \A i \in 1..Len(outbox) : outbox[i].age = 2
    /\ idle' = TRUE
    /\ UNCHANGED <<clientVars, net, toBroker, toClient, wait_for_ping_resp, glueVars,
                   peerVars, histVars>>

-----------------------------------------------------------------------------
Connecting == Connected \/ NotConnected \/ Resubscribe \/ Resubscribed
Iterating ==
    \/ ReadFails \/ ReceiveNothing
    \/ ReceiveAck("SUBACK", "SUBSCRIBE") \/ ReceiveAck("UNSUBACK", "UNSUBSCRIBE")
    \/ ReceiveAck("PUBACK", "PUBLISH") \/ ReceivePingResp
    \/ ReceivePublish \/ Delivered
    \/ ExpireOne \/ Resend \/ ResendNothing \/ Keepalive
Leaving == LeaveLoop \/ TaskEnds
Task == Connecting \/ Iterating \/ Leaving

Agent ==
    \/ \E t \in Topics : SubscribeCall(t)
    \/ SubscribeStores \/ DisconnectCall \/ UnsubscribeNext \/ esp_mqtt_client_stop

Environment ==
    \/ BrokerTakes \/ (\E t \in Topics : BrokerSends(t))
    \/ NetDies \/ (\E i \in 1..Len(outbox) : Age(i)) \/ KeepaliveElapses

Next == esp_mqtt_client_start \/ Task \/ esp_mqtt_glue_publish \/ Agent \/ Environment

Spec == Init /\ [][Next]_vars

\* The task is scheduled, the broker answers, and time passes.
Fairness ==
    /\ WF_vars(Task) /\ WF_vars(BrokerTakes) /\ WF_vars(KeepaliveElapses)
    /\ WF_vars(\E i \in 1..Len(outbox) : Age(i))

FairSpec == Spec /\ Fairness

-----------------------------------------------------------------------------
(***************************************************************************)
(* Properties.                                                             *)
(***************************************************************************)

ItemTypes == {"PUBLISH", "SUBSCRIBE", "UNSUBSCRIBE"}
ToBroker == ItemTypes \cup {"PUBACK", "PINGREQ", "DISCONNECT"}
ToClient == {"PUBLISH", "PUBACK", "SUBACK", "UNSUBACK", "PINGRESP"}
Items == [type : ItemTypes, id : Nat, topic : Topics \cup {NoTopic},
          pending : {"QUEUED", "TRANSMITTED"}, age : Ages]

\* Every variable holds a value of its type.
TypeOK ==
    /\ state \in {"INIT", "CONNECTED", "WAIT_RECONNECT", "DISCONNECTED"}
    /\ step \in {"none", "poll", "resub", "deliver", "expire", "keepalive"}
    /\ outbox \in Seq(Items)
    /\ pending_msg_count \in Nat /\ last_message_id \in 0..MaxPacketId
    /\ wait_for_ping_resp \in BOOLEAN /\ idle \in BOOLEAN
    /\ net \in {"open", "dead", "closed"}
    /\ toBroker \in Seq([type : ToBroker, id : Nat, topic : Topics \cup {NoTopic}])
    /\ toClient \in Seq([type : ToClient, id : Nat, topic : Topics \cup {NoTopic}])
    /\ subscriptions \in [1..Slots -> Topics \cup {NoTopic}]
    /\ slot \in 1..(Slots + 1)
    /\ agent \in [pc : {"idle", "store", "unsub", "wait", "done"}, topic : Topics \cup {NoTopic},
                   slot : 0..(Slots + 1)]
    /\ agent.pc = "store" => agent.slot \in 1..Slots
    /\ brokerSubs \subseteq Topics \cup {NoTopic} /\ received \subseteq Nat
    /\ offered \subseteq Nat /\ confirmed \in Seq(Nat)
    /\ conns \in 0..MaxConns /\ cmds \in 0..MaxCmds

\* is_valid_mqtt_msg ignores an acknowledgement when pending_msg_count is 0, and
\* the count and the outbox are changed in different places: the count never
\* falls below the messages that wait, so no acknowledgement is ignored.
PendingCovers == pending_msg_count >= Len(outbox)

\* Packet identifiers name one waiting message each, and the outbox keeps the
\* order in which they were given: outbox_set_pending and outbox_delete, which
\* take the first item with an identifier, mean the right one.
IdsInOrder ==
    \A i, j \in 1..Len(outbox) : i < j => outbox[i].id < outbox[j].id

Quiet == /\ state = "CONNECTED" /\ net = "open" /\ step # "resub"
         /\ toBroker = << >> /\ agent.pc \in {"idle", "done"}

\* Whatever connections were lost in between, once a connection is quiet the
\* broker knows every topic of the glue's table: nothing is subscribed only in
\* the node's mind.
SubscribedAtBroker ==
    Quiet => \A i \in 1..Slots :
                subscriptions[i] # NoTopic => subscriptions[i] \in brokerSubs

\* esp_mqtt_glue_unsubscribe frees the first entry whose topic begins with its
\* argument; disconnecting nevertheless empties the whole table before it stops
\* the client, so no topic of the past is subscribed to by a later connection.
DisconnectEmptiesTable ==
    agent.pc \in {"wait", "done"} => \A i \in 1..Slots : subscriptions[i] = NoTopic

\* An unanswered ping, which ends the connection half a keepalive time later, is
\* always one of this connection: the PINGREQ or its answer is on the way, or the
\* peer is gone.
PingIsOutstanding ==
    state = "CONNECTED" /\ wait_for_ping_resp =>
        \/ net = "dead"
        \/ \E i \in 1..Len(toBroker) : toBroker[i].type = "PINGREQ"
        \/ \E i \in 1..Len(toClient) : toClient[i].type = "PINGRESP"

Held == {outbox[i].id : i \in {j \in 1..Len(outbox) : outbox[j].type = "PUBLISH"}}

Alo == INSTANCE AtLeastOnce WITH
           Msgs <- 1..MaxPacketId,
           offered <- offered,
           held <- Held,
           atPeer <- received,
           confirmed <- confirmed

\* With resends, duplicate acknowledgements, expiry and lost connections, a
\* PUBLISHED event is posted for a message at most once, and only after the
\* message has reached the broker.
AtLeastOnceSpec == Alo!AloSpec

\* A peer that is gone is noticed, though every resent message that the socket
\* still accepts starts the keepalive time again.
DeadPeerNoticed == (state = "CONNECTED" /\ net = "dead") ~> (state # "CONNECTED")

\* No message waits for ever: each is acknowledged, expires, or goes with its
\* connection, so that the outbox empties once no more calls are made.
OutboxEmpties == (outbox # << >>) ~> (outbox = << >>)

\* The outbox and what is kept beside it agree: no acknowledgement is ignored or meant
\* for another message; every variable has its type.
OutboxInv == TypeOK /\ PendingCovers /\ IdsInOrder

\* The glue's table tells what is subscribed: its topics are known to the broker after
\* every reconnection, and it is empty after disconnecting.
SubscriptionsAgree == SubscribedAtBroker /\ DisconnectEmptiesTable

\* The keepalive ends the connections to peers that are gone, and no other for a ping
\* of an earlier connection.
KeepaliveCorrect == []PingIsOutstanding /\ DeadPeerNoticed
=============================================================================
