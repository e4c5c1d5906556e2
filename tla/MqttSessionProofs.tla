-------------------------- MODULE MqttSessionProofs --------------------------
(***************************************************************************)
(* Proofs about MqttSession, for every set of topics, every size of the    *)
(* glue's table and every bound: the pending count covers the outbox,      *)
(* packet identifiers are unique in it, the client implements AtLeastOnce, *)
(* the table agrees with the broker, and no ping outlives its connection.  *)
(***************************************************************************)
EXTENDS MqttSession, SequenceTheorems, TLAPS

Numbered ==
    \A i \in 1..Len(outbox) : outbox[i].id \in 1..last_message_id

\* Older items were enqueued earlier.
AgesInOrder ==
    \A i, j \in 1..Len(outbox) : i < j => outbox[i].age >= outbox[j].age

BrokerPkts == [type : ToBroker, id : Nat, topic : Topics \cup {NoTopic}]
ClientPkts == [type : ToClient, id : Nat, topic : Topics \cup {NoTopic}]

\* The connection: a published message on its way was offered, and an
\* acknowledgement on its way is of one that the broker has.
LinkOK ==
    /\ wait_for_ping_resp \in BOOLEAN /\ idle \in BOOLEAN
    /\ net \in {"open", "dead", "closed"}
    /\ toBroker \in Seq(BrokerPkts) /\ toClient \in Seq(ClientPkts)
    /\ \A i \in 1..Len(toBroker) : toBroker[i].type = "PUBLISH" => toBroker[i].id \in offered
    /\ \A i \in 1..Len(toClient) : toClient[i].type = "PUBACK" => toClient[i].id \in received

\* The messages: what waits was offered, and only that can have arrived.
MessagesOK ==
    /\ last_message_id \in 0..MaxPacketId
    /\ offered \subseteq 1..last_message_id
    /\ received \subseteq offered
    /\ confirmed \in Seq(Nat)
    /\ Held \subseteq offered

\* The task, the agent and the table.
ControlOK ==
    /\ state \in {"INIT", "CONNECTED", "WAIT_RECONNECT", "DISCONNECTED"}
    /\ step \in {"none", "poll", "resub", "deliver", "expire", "keepalive"}
    /\ subscriptions \in [1..Slots -> Topics \cup {NoTopic}]
    /\ slot \in 1..(Slots + 1)
    /\ agent \in [pc : {"idle", "store", "unsub", "wait", "done"}, topic : Topics \cup {NoTopic},
                   slot : 0..(Slots + 1)]
    /\ agent.pc = "store" => agent.slot \in 1..Slots
    /\ brokerSubs \subseteq Topics \cup {NoTopic}
    /\ conns \in 0..MaxConns /\ cmds \in 0..MaxCmds

\* The part of the invariant that the outbox decides.
OutboxOK ==
    /\ outbox \in Seq(Items)
    /\ pending_msg_count \in Nat /\ last_message_id \in Nat
    /\ PendingCovers /\ IdsInOrder /\ Numbered /\ AgesInOrder

-----------------------------------------------------------------------------
(* What the operations on the outbox do. *)

\* Removing an item shortens the outbox and shifts what follows.
LEMMA RemoveAtFacts ==
    ASSUME NEW S, NEW s \in Seq(S), NEW i \in 1..Len(s)
    PROVE  /\ RemoveAt(s, i) \in Seq(S)
           /\ Len(RemoveAt(s, i)) = Len(s) - 1
           /\ \A j \in 1..(Len(s) - 1) :
                RemoveAt(s, i)[j] = IF j < i THEN s[j] ELSE s[j + 1]
  <1> DEFINE a == SubSeq(s, 1, i - 1)
             b == SubSeq(s, i + 1, Len(s))
  <1>1. /\ a \in Seq(S) /\ Len(a) = i - 1
        /\ \A j \in 1..(i - 1) : a[j] = s[j]
    OBVIOUS
  <1>2. /\ b \in Seq(S) /\ Len(b) = Len(s) - i
        /\ \A j \in 1..(Len(s) - i) : b[j] = s[j + i]
    OBVIOUS
  <1>3. RemoveAt(s, i) = a \o b
    BY DEF RemoveAt
  <1> HIDE DEF a, b
  <1>4. a \o b \in Seq(S) /\ Len(a \o b) = Len(s) - 1
    <2>1. a \in Seq(S) /\ b \in Seq(S)
      BY <1>1, <1>2
    <2>2. a \o b \in Seq(S) /\ Len(a \o b) = Len(a) + Len(b)
      BY <2>1, ConcatProperties
    <2> QED BY <2>2, <1>1, <1>2
  <1>5. ASSUME NEW j \in 1..(Len(s) - 1)
        PROVE  (a \o b)[j] = IF j < i THEN s[j] ELSE s[j + 1]
    <2>1. (a \o b)[j] = IF j <= Len(a) THEN a[j] ELSE b[j - Len(a)]
      BY <1>1, <1>2, ConcatProperties
    <2>2. CASE j < i
      BY <2>1, <2>2, <1>1
    <2>3. CASE ~(j < i)
      <3>1. j - Len(a) \in 1..(Len(s) - i) /\ (j - Len(a)) + i = j + 1
        BY <2>3, <1>1
      <3> QED BY <2>1, <2>3, <3>1, <1>1, <1>2
    <2> QED BY <2>2, <2>3
  <1> QED BY <1>3, <1>4, <1>5

\* Enqueuing keeps the outbox in order; a published message is held from then on.
LEMMA EnqueueFacts ==
    ASSUME OutboxOK, NEW type \in ItemTypes, NEW topic \in Topics \cup {NoTopic},
           NEW pending \in {"QUEUED", "TRANSMITTED"}, Enqueue(type, topic, pending)
    PROVE  /\ OutboxOK'
           /\ last_message_id' = last_message_id + 1
           /\ last_message_id' \in 0..MaxPacketId
           /\ \A i \in 1..Len(outbox)' :
                 \/ i \in 1..Len(outbox) /\ outbox'[i] = outbox[i]
                 \/ outbox'[i].type = type /\ outbox'[i].id = last_message_id + 1
           /\ Held' = IF type = "PUBLISH" THEN Held \cup {last_message_id + 1} ELSE Held
  <1> DEFINE it == Item(type, last_message_id + 1, topic, pending)
             n == Len(outbox)
  <1>1. /\ it \in Items
        /\ it.type = type /\ it.id = last_message_id + 1 /\ it.age = 0
    BY DEF OutboxOK, Item, Items, Ages
  <1>2. outbox' = Append(outbox, it) /\ outbox \in Seq(Items)
    BY DEF Enqueue, OutboxOK
  <1> HIDE DEF it
  <1>3. /\ outbox' \in Seq(Items) /\ n \in Nat /\ Len(outbox') = n + 1
        /\ outbox'[n + 1] = it
        /\ \A i \in 1..n : outbox'[i] = outbox[i]
    BY <1>1, <1>2, AppendProperties
  <1>4. /\ last_message_id' = last_message_id + 1 /\ last_message_id' \in 0..MaxPacketId
        /\ pending_msg_count' = pending_msg_count + 1
        /\ last_message_id \in Nat /\ pending_msg_count \in Nat
    BY SessionAssumption DEF Enqueue, OutboxOK
  <1>5. PendingCovers'
    BY <1>3, <1>4 DEF OutboxOK, PendingCovers
  <1>6. Numbered'
    BY <1>1, <1>3, <1>4 DEF OutboxOK, Numbered
  <1>7. IdsInOrder'
    BY <1>1, <1>3, <1>4 DEF OutboxOK, Numbered, IdsInOrder
  <1>8. AgesInOrder'
    <2>1. \A i \in 1..n : outbox[i] \in Items
      BY <1>2, <1>3, ElementOfSeq
    <2>2. \A i \in 1..n : outbox[i].age \in 0..2
      BY <2>1 DEF Items, Ages
    <2>3. SUFFICES ASSUME NEW i \in 1..(n + 1), NEW j \in 1..(n + 1), i < j
                   PROVE  outbox'[i].age >= outbox'[j].age
      BY <1>3 DEF AgesInOrder
    <2>4. i \in 1..n /\ outbox'[i] = outbox[i]
      BY <1>3, <2>3
    <2>5. CASE j = n + 1
      BY <1>1, <1>3, <2>2, <2>4, <2>5
    <2>6. CASE j # n + 1
      <3>1. j \in 1..n /\ outbox'[j] = outbox[j]
        BY <1>3, <2>6
      <3> QED BY <2>3, <2>4, <3>1 DEF OutboxOK, AgesInOrder
    <2> QED BY <2>5, <2>6
  <1>9. Held' = IF type = "PUBLISH" THEN Held \cup {last_message_id + 1} ELSE Held
    BY <1>1, <1>3 DEF Held
  <1> QED BY <1>1, <1>3, <1>4, <1>5, <1>6, <1>7, <1>8, <1>9 DEF OutboxOK

\* Deleting an item keeps the order, and a published message is not held any more.
LEMMA DeleteFacts ==
    ASSUME OutboxOK, NEW i \in 1..Len(outbox), outbox_delete(i),
           pending_msg_count' = pending_msg_count - 1,
           UNCHANGED last_message_id
    PROVE  /\ OutboxOK'
           /\ \A j \in 1..Len(outbox)' : \E k \in 1..Len(outbox) : outbox'[j] = outbox[k]
           /\ Held' = IF outbox[i].type = "PUBLISH" THEN Held \ {outbox[i].id} ELSE Held
  <1> DEFINE n == Len(outbox)
  <1>1. outbox \in Seq(Items) /\ n \in Nat
    BY DEF OutboxOK
  <1>2. /\ outbox' \in Seq(Items) /\ Len(outbox') = n - 1
        /\ \A j \in 1..(n - 1) : outbox'[j] = IF j < i THEN outbox[j] ELSE outbox[j + 1]
    BY <1>1, RemoveAtFacts DEF outbox_delete
  <1>3. PendingCovers' /\ pending_msg_count' \in Nat
    BY <1>1, <1>2 DEF OutboxOK, PendingCovers
  <1>4. \A j \in 1..(n - 1) : \E k \in 1..n : outbox'[j] = outbox[k]
    BY <1>1, <1>2
  <1>5. Numbered'
    BY <1>2, <1>4 DEF OutboxOK, Numbered
  <1>6. IdsInOrder'
    BY <1>1, <1>2 DEF OutboxOK, IdsInOrder
  <1>7. AgesInOrder'
    BY <1>1, <1>2 DEF OutboxOK, AgesInOrder
  <1>8. Held' = IF outbox[i].type = "PUBLISH" THEN Held \ {outbox[i].id} ELSE Held
    <2>1. \A j \in 1..n : j # i => outbox[j].id # outbox[i].id
      BY <1>1 DEF OutboxOK, IdsInOrder, Numbered
    <2>2. \A j \in 1..n : j # i => \E k \in 1..(n - 1) : outbox'[k] = outbox[j]
      <3> SUFFICES ASSUME NEW j \in 1..n, j # i
                   PROVE  \E k \in 1..(n - 1) : outbox'[k] = outbox[j]
        OBVIOUS
      <3>1. CASE j < i
        BY <3>1, <1>1, <1>2
      <3>2. CASE j > i
        <4>1. j - 1 \in 1..(n - 1) /\ outbox'[j - 1] = outbox[j]
          BY <3>2, <1>1, <1>2
        <4> QED BY <4>1
      <3> QED BY <3>1, <3>2, <1>1
    <2>3. \A j \in 1..(n - 1) : \E k \in 1..n : k # i /\ outbox'[j] = outbox[k]
      BY <1>1, <1>2
    <2>4. ASSUME NEW x PROVE x \in Held' <=> x \in Held /\ ~(outbox[i].type = "PUBLISH" /\ x = outbox[i].id)
      <3>1. x \in Held' <=> \E j \in 1..(n - 1) : outbox'[j].type = "PUBLISH" /\ x = outbox'[j].id
        BY <1>2 DEF Held
      <3>2. x \in Held <=> \E j \in 1..n : outbox[j].type = "PUBLISH" /\ x = outbox[j].id
        BY DEF Held
      <3>3. ASSUME x \in Held' PROVE x \in Held /\ ~(outbox[i].type = "PUBLISH" /\ x = outbox[i].id)
        <4>1. PICK j \in 1..(n - 1) : outbox'[j].type = "PUBLISH" /\ x = outbox'[j].id
          BY <3>1, <3>3
        <4>2. PICK k \in 1..n : k # i /\ outbox'[j] = outbox[k]
          BY <2>3
        <4> QED BY <4>1, <4>2, <2>1, <3>2
      <3>4. ASSUME x \in Held, ~(outbox[i].type = "PUBLISH" /\ x = outbox[i].id) PROVE x \in Held'
        <4>1. PICK j \in 1..n : outbox[j].type = "PUBLISH" /\ x = outbox[j].id
          BY <3>2, <3>4
        <4>2. j # i
          BY <4>1, <3>4
        <4>3. PICK k \in 1..(n - 1) : outbox'[k] = outbox[j]
          BY <4>2, <2>2
        <4> QED BY <4>1, <4>3, <3>1
      <3> QED BY <3>3, <3>4
    <2> QED BY <2>4
  <1> QED BY <1>2, <1>3, <1>4, <1>5, <1>6, <1>7, <1>8 DEF OutboxOK

\* Marking an item changes neither what waits nor its order.
LEMMA MarkFacts ==
    ASSUME OutboxOK, NEW i \in 1..Len(outbox), NEW v \in Items,
           outbox' = [outbox EXCEPT ![i] = v],
           v.id = outbox[i].id, v.type = outbox[i].type,
           \A j \in 1..Len(outbox) : j < i => outbox[j].age >= v.age,
           v.age >= outbox[i].age,
           UNCHANGED <<pending_msg_count, last_message_id>>
    PROVE  /\ OutboxOK' /\ Held' = Held
           /\ Len(outbox') = Len(outbox)
           /\ \A j \in 1..Len(outbox) :
                 outbox'[j].type = outbox[j].type /\ outbox'[j].id = outbox[j].id
  <1> DEFINE n == Len(outbox)
  <1>1. outbox \in Seq(Items) /\ n \in Nat /\ \A j \in 1..n : outbox[j] \in Items
    BY ElementOfSeq DEF OutboxOK
  <1>2. /\ outbox' \in Seq(Items) /\ Len(outbox') = n
        /\ \A j \in 1..n : outbox'[j] = IF j = i THEN v ELSE outbox[j]
    BY <1>1, ExceptSeq
  <1>3. \A j \in 1..n : /\ outbox'[j].type = outbox[j].type
                        /\ outbox'[j].id = outbox[j].id
    BY <1>2
  <1>4. PendingCovers' /\ Numbered' /\ IdsInOrder' /\ Held' = Held
    BY <1>2, <1>3 DEF OutboxOK, PendingCovers, Numbered, IdsInOrder, Held
  <1>5. \A j \in 1..n : outbox[j].age \in Int /\ v.age \in Int
    BY <1>1 DEF Items, Ages
  <1>6. AgesInOrder'
    <2> SUFFICES ASSUME NEW j \in 1..n, NEW k \in 1..n, j < k
                 PROVE  outbox'[j].age >= outbox'[k].age
      BY <1>2 DEF AgesInOrder
    <2>1. outbox[j].age >= outbox[k].age
      BY DEF OutboxOK, AgesInOrder
    <2>2. CASE j = i
      <3>1. outbox'[j] = v /\ outbox'[k] = outbox[k]
        BY <1>2, <2>2
      <3> QED BY <3>1, <2>1, <2>2, <1>5
    <2>3. CASE k = i
      <3>1. outbox'[k] = v /\ outbox'[j] = outbox[j]
        BY <1>2, <2>3
      <3> QED BY <3>1, <2>3
    <2>4. CASE j # i /\ k # i
      BY <1>2, <2>1, <2>4
    <2> QED BY <2>2, <2>3, <2>4
  <1> QED BY <1>2, <1>3, <1>4, <1>6 DEF OutboxOK

\* An empty outbox is in order.
LEMMA EmptyFacts ==
    ASSUME OutboxOK, outbox' = << >>, UNCHANGED <<pending_msg_count, last_message_id>>
    PROVE  OutboxOK' /\ Held' = {} /\ Len(outbox') = 0
  BY DEF OutboxOK, PendingCovers, Numbered, IdsInOrder, AgesInOrder, Held

\* An outbox that is left alone stays in order.
LEMMA UnchangedOutbox ==
    ASSUME OutboxOK, UNCHANGED <<outbox, pending_msg_count, last_message_id>>
    PROVE  OutboxOK' /\ Held' = Held
  BY DEF OutboxOK, PendingCovers, Numbered, IdsInOrder, AgesInOrder, Held

-----------------------------------------------------------------------------
(* What happens to the connection. *)

\* Writing a packet, as long as a published message in it was offered.
LEMMA WriteFacts ==
    ASSUME LinkOK, NEW m \in BrokerPkts, Written(m), wait_for_ping_resp' \in BOOLEAN,
           offered \subseteq offered', received' = received,
           m.type = "PUBLISH" => m.id \in offered'
    PROVE  LinkOK'
  <1>1. /\ net' = net /\ idle' = FALSE /\ toClient' = toClient
        /\ toBroker' = Append(toBroker, m) \/ toBroker' = toBroker
    BY DEF Written
  <1>2. CASE toBroker' = toBroker
    BY <1>1, <1>2 DEF LinkOK
  <1>3. CASE toBroker' = Append(toBroker, m)
    <2>1. toBroker \in Seq(BrokerPkts)
      BY DEF LinkOK
    <2>2. /\ toBroker' \in Seq(BrokerPkts) /\ Len(toBroker') = Len(toBroker) + 1
          /\ \A i \in 1..Len(toBroker) : toBroker'[i] = toBroker[i]
          /\ toBroker'[Len(toBroker) + 1] = m
      BY <1>3, <2>1, AppendProperties
    <2>3. \A i \in 1..Len(toBroker') : toBroker'[i].type = "PUBLISH" => toBroker'[i].id \in offered'
      BY <2>1, <2>2 DEF LinkOK
    <2> QED BY <1>1, <2>2, <2>3 DEF LinkOK
  <1> QED BY <1>1, <1>2, <1>3

\* Empty channels.
LEMMA ClosedLink ==
    ASSUME toBroker' = << >>, toClient' = << >>, net' \in {"open", "closed"},
           wait_for_ping_resp' \in BOOLEAN, idle' \in BOOLEAN
    PROVE  LinkOK'
  <1>1. toBroker' \in Seq(BrokerPkts) /\ toClient' \in Seq(ClientPkts)
    OBVIOUS
  <1>2. Len(toBroker') = 0 /\ Len(toClient') = 0
    OBVIOUS
  <1> QED BY <1>1, <1>2 DEF LinkOK

\* Closing it.
LEMMA AbortFacts ==
    ASSUME LinkOK, esp_mqtt_abort_connection
    PROVE  LinkOK' /\ state' = "WAIT_RECONNECT"
  <1>1. /\ net' = "closed" /\ wait_for_ping_resp' = FALSE /\ idle' = idle
        /\ toBroker' = << >> /\ toClient' = << >> /\ state' = "WAIT_RECONNECT"
    BY DEF esp_mqtt_abort_connection
  <1> QED BY <1>1, ClosedLink DEF LinkOK

\* Leaving it alone.
LEMMA LinkKept ==
    ASSUME LinkOK, UNCHANGED <<net, toBroker, toClient>>, idle' \in BOOLEAN,
           wait_for_ping_resp' \in BOOLEAN,
           offered \subseteq offered', received \subseteq received'
    PROVE  LinkOK'
  BY DEF LinkOK

\* Reading a packet.
LEMMA TakeFacts ==
    ASSUME LinkOK, toClient # << >>, toClient' = Tail(toClient),
           UNCHANGED <<net, toBroker, idle, offered, received>>,
           wait_for_ping_resp' \in BOOLEAN
    PROVE  LinkOK'
  <1>1. toClient \in Seq(ClientPkts)
    BY DEF LinkOK
  <1>2. /\ toClient' \in Seq(ClientPkts) /\ Len(toClient') = Len(toClient) - 1
        /\ \A i \in 1..(Len(toClient) - 1) : toClient'[i] = toClient[i + 1]
    BY <1>1, HeadTailProperties
  <1>3. \A i \in 1..Len(toClient') : toClient'[i].type = "PUBACK" => toClient'[i].id \in received'
    BY <1>1, <1>2 DEF LinkOK
  <1> QED BY <1>2, <1>3 DEF LinkOK

-----------------------------------------------------------------------------
(* The inductive invariant, action by action, and the refinement with it. *)

IInv == OutboxOK /\ LinkOK /\ MessagesOK /\ ControlOK

\* A step of AtLeastOnce, or none.
AloStep == Alo!AloNext \/ UNCHANGED Alo!aloVars

\* The invariant is kept, and AtLeastOnce allows the step.
Kept == IInv' /\ AloStep

\* A step that offers, delivers and confirms nothing can only give messages up.
LEMMA OnlyGivesUp ==
    ASSUME MessagesOK, Held' \subseteq Held,
           last_message_id' \in 0..MaxPacketId, last_message_id' >= last_message_id,
           UNCHANGED <<offered, received, confirmed>>
    PROVE  MessagesOK' /\ AloStep
  <1>1. MessagesOK'
    BY SessionAssumption DEF MessagesOK
  <1>2. Alo!GiveUp
    BY DEF Alo!GiveUp
  <1> QED BY <1>1, <1>2 DEF AloStep, Alo!AloNext

\* The case in which the outbox and the messages are left alone.
LEMMA NothingMoves ==
    ASSUME IInv, LinkOK', ControlOK',
           UNCHANGED <<outbox, pending_msg_count, last_message_id, offered, received, confirmed>>
    PROVE  Kept
  <1>1. OutboxOK' /\ Held' = Held
    BY UnchangedOutbox DEF IInv
  <1>2. MessagesOK' /\ AloStep
    BY <1>1, OnlyGivesUp DEF IInv, MessagesOK
  <1> QED BY <1>1, <1>2 DEF Kept, IInv

\* A SUBSCRIBE or UNSUBSCRIBE that is enqueued.
LEMMA EnqueuesRequest ==
    ASSUME IInv, LinkOK', ControlOK', NEW type \in {"SUBSCRIBE", "UNSUBSCRIBE"},
           NEW topic \in Topics \cup {NoTopic}, Enqueue(type, topic, "TRANSMITTED"),
           UNCHANGED <<offered, received, confirmed>>
    PROVE  Kept
  <1>0. type \in ItemTypes /\ type # "PUBLISH"
    BY DEF ItemTypes
  <1>1. OutboxOK' /\ Held' = Held /\ last_message_id' = last_message_id + 1
        /\ last_message_id' \in 0..MaxPacketId
    BY <1>0, EnqueueFacts DEF IInv
  <1>2. MessagesOK' /\ AloStep
    BY <1>1, OnlyGivesUp DEF IInv, MessagesOK
  <1> QED BY <1>1, <1>2 DEF Kept, IInv

\* Packets that the client writes have their type.
LEMMA PktTyped ==
    ASSUME NEW type, NEW id \in Nat, NEW topic \in Topics \cup {NoTopic},
           type \in {"PUBLISH", "SUBSCRIBE", "UNSUBSCRIBE", "PUBACK", "PINGREQ", "DISCONNECT"}
    PROVE  /\ Pkt(type, id, topic) \in BrokerPkts
           /\ Pkt(type, id, topic).type = type /\ Pkt(type, id, topic).id = id
  BY DEF Pkt, BrokerPkts, ToBroker, ItemTypes

\* Starting, connecting and leaving.
LEMMA ConnectingKept ==
    ASSUME IInv, esp_mqtt_client_start \/ Connecting \/ Leaving
    PROVE  Kept
  <1> USE DEF linkVars, glueVars, peerVars, histVars
  <1>1. CASE esp_mqtt_client_start
    <2>1. LinkOK'
      BY <1>1, LinkKept DEF esp_mqtt_client_start, IInv, LinkOK
    <2>2. ControlOK'
      BY <1>1, SessionAssumption DEF esp_mqtt_client_start, IInv, ControlOK
    <2> QED BY <1>1, <2>1, <2>2, NothingMoves DEF esp_mqtt_client_start
  <1>2. CASE Connected
    <2>1. LinkOK'
      BY <1>2, ClosedLink DEF Connected, IInv, LinkOK
    <2>2. ControlOK'
      BY <1>2, SessionAssumption DEF Connected, IInv, ControlOK
    <2> QED BY <1>2, <2>1, <2>2, NothingMoves DEF Connected
  <1>3. CASE NotConnected
    <2>1. LinkOK' /\ state' = "WAIT_RECONNECT"
      BY <1>3, AbortFacts DEF NotConnected, IInv
    <2>2. ControlOK'
      BY <1>3, <2>1 DEF NotConnected, IInv, ControlOK
    <2> QED BY <1>3, <2>1, <2>2, NothingMoves DEF NotConnected
  <1>4. CASE Resubscribe
    <2>1. PICK i \in FirstOf(Used(slot)) :
            /\ slot' = i + 1
            /\ Enqueue("SUBSCRIBE", subscriptions[i], "TRANSMITTED")
            /\ \/ Written(Pkt("SUBSCRIBE", last_message_id + 1, subscriptions[i]))
               \/ KeepConnection
      BY <1>4 DEF Resubscribe
    <2>2. i \in 1..Slots
      BY <2>1, SessionAssumption DEF FirstOf, Used, IInv, ControlOK
    <2>3. ControlOK'
      BY <1>4, <2>1, <2>2, SessionAssumption DEF Resubscribe, IInv, ControlOK
    <2>4. subscriptions[i] \in Topics \cup {NoTopic} /\ last_message_id + 1 \in Nat
      BY <2>2 DEF IInv, ControlOK, MessagesOK
    <2>5. UNCHANGED <<offered, received, confirmed, wait_for_ping_resp>>
      BY <1>4 DEF Resubscribe
    <2>6. LinkOK'
      <3>1. CASE Written(Pkt("SUBSCRIBE", last_message_id + 1, subscriptions[i]))
        <4> DEFINE m == Pkt("SUBSCRIBE", last_message_id + 1, subscriptions[i])
        <4>1. m \in BrokerPkts /\ m.type # "PUBLISH"
          BY <2>4, PktTyped
        <4>2. LinkOK /\ Written(m) /\ offered' = offered /\ received' = received
              /\ wait_for_ping_resp' \in BOOLEAN
          BY <3>1, <2>5 DEF IInv, LinkOK
        <4> HIDE DEF m
        <4> QED BY <4>1, <4>2, WriteFacts
      <3>2. CASE KeepConnection
        BY <3>2, <2>5, LinkKept DEF IInv, LinkOK, KeepConnection
      <3> QED BY <2>1, <3>1, <3>2
    <2> QED BY <2>1, <2>3, <2>4, <2>5, <2>6, EnqueuesRequest
  <1>5. CASE Resubscribed
    <2>1. LinkOK'
      BY <1>5, LinkKept DEF Resubscribed, IInv, LinkOK
    <2>2. ControlOK'
      BY <1>5 DEF Resubscribed, IInv, ControlOK
    <2> QED BY <1>5, <2>1, <2>2, NothingMoves DEF Resubscribed
  <1>6. CASE LeaveLoop
    <2>1. LinkOK'
      BY <1>6, LinkKept DEF LeaveLoop, IInv, LinkOK
    <2>2. ControlOK'
      BY <1>6 DEF LeaveLoop, IInv, ControlOK
    <2> QED BY <1>6, <2>1, <2>2, NothingMoves DEF LeaveLoop
  <1>7. CASE TaskEnds
    <2>1. LinkOK'
      BY <1>7, ClosedLink DEF TaskEnds, IInv, LinkOK
    <2>2. AgentDone \in [pc : {"idle", "store", "unsub", "wait", "done"},
                         topic : Topics \cup {NoTopic}, slot : 0..(Slots + 1)]
          /\ AgentDone.pc = "done"
      BY SessionAssumption DEF AgentDone, AgentIdle
    <2>3. ControlOK'
      BY <1>7, <2>2 DEF TaskEnds, IInv, ControlOK
    <2>4. OutboxOK' /\ Held' = {}
      BY <1>7, EmptyFacts DEF TaskEnds, IInv
    <2>5. MessagesOK' /\ AloStep
      BY <1>7, <2>4, OnlyGivesUp DEF TaskEnds, IInv, MessagesOK
    <2> QED BY <2>1, <2>3, <2>4, <2>5 DEF Kept, IInv
  <1> QED BY <1>1, <1>2, <1>3, <1>4, <1>5, <1>6, <1>7 DEF Connecting, Leaving

\* Writing a packet that is not a message.
LEMMA WritesControl ==
    ASSUME IInv, NEW type \in {"SUBSCRIBE", "UNSUBSCRIBE", "PUBACK", "PINGREQ", "DISCONNECT"},
           NEW id \in Nat, NEW topic \in Topics \cup {NoTopic},
           Written(Pkt(type, id, topic)), wait_for_ping_resp' \in BOOLEAN,
           UNCHANGED <<offered, received>>
    PROVE  LinkOK'
  <1> DEFINE m == Pkt(type, id, topic)
  <1>1. m \in BrokerPkts /\ m.type # "PUBLISH"
    BY PktTyped
  <1>2. LinkOK /\ Written(m)
    BY DEF IInv
  <1> HIDE DEF m
  <1> QED BY <1>1, <1>2, WriteFacts

\* The messages taken from the connection.
LEMMA ReceivingKept ==
    ASSUME IInv,
           \/ ReadFails \/ ReceiveNothing \/ ReceivePingResp \/ ReceivePublish
           \/ ReceiveAck("SUBACK", "SUBSCRIBE") \/ ReceiveAck("UNSUBACK", "UNSUBSCRIBE")
           \/ ReceiveAck("PUBACK", "PUBLISH")
    PROVE  Kept
  <1> USE DEF linkVars, glueVars, peerVars, histVars
  <1>1. CASE ReadFails
    <2>1. LinkOK' /\ state' = "WAIT_RECONNECT"
      BY <1>1, AbortFacts DEF ReadFails, IInv
    <2>2. ControlOK'
      BY <1>1, <2>1 DEF ReadFails, IInv, ControlOK
    <2> QED BY <1>1, <2>1, <2>2, NothingMoves DEF ReadFails
  <1>2. CASE ReceiveNothing
    <2>1. LinkOK'
      BY <1>2, LinkKept DEF ReceiveNothing, IInv, LinkOK
    <2>2. ControlOK'
      BY <1>2 DEF ReceiveNothing, IInv, ControlOK
    <2> QED BY <1>2, <2>1, <2>2, NothingMoves DEF ReceiveNothing
  <1>3. CASE ReceivePingResp
    <2>1. LinkOK'
      BY <1>3, TakeFacts DEF ReceivePingResp, Taken, IInv
    <2>2. ControlOK'
      BY <1>3 DEF ReceivePingResp, Taken, IInv, ControlOK
    <2> QED BY <1>3, <2>1, <2>2, NothingMoves DEF ReceivePingResp, Taken
  <1>4. CASE ReceivePublish
    <2>0. wait_for_ping_resp' \in BOOLEAN
      BY <1>4 DEF ReceivePublish, IInv, LinkOK
    <2>1. LinkOK'
      BY <1>4, <2>0, TakeFacts DEF ReceivePublish, Taken, IInv
    <2>2. ControlOK'
      BY <1>4 DEF ReceivePublish, Taken, IInv, ControlOK
    <2> QED BY <1>4, <2>1, <2>2, NothingMoves DEF ReceivePublish, Taken
  <1>5. ASSUME NEW ack \in {"SUBACK", "UNSUBACK", "PUBACK"}, NEW type \in ItemTypes,
               type = "PUBLISH" => ack = "PUBACK", ReceiveAck(ack, type)
        PROVE  Kept
    <2> DEFINE id == Head(toClient).id
    <2>1. Taken(ack) /\ step' = "expire" /\ UNCHANGED wait_for_ping_resp
      BY <1>5 DEF ReceiveAck
    <2>2. wait_for_ping_resp' \in BOOLEAN
      BY <2>1 DEF IInv, LinkOK
    <2>3. LinkOK'
      BY <2>1, <2>2, TakeFacts DEF Taken, IInv
    <2>4. ControlOK'
      BY <2>1 DEF Taken, IInv, ControlOK
    <2>5. CASE ~is_valid_mqtt_msg(type, id)
      <3>1. UNCHANGED <<outbox, pending_msg_count, confirmed>>
        BY <1>5, <2>5 DEF ReceiveAck
      <3> QED BY <2>1, <2>3, <2>4, <3>1, NothingMoves DEF Taken
    <2>6. CASE is_valid_mqtt_msg(type, id)
      <3>1. PICK i \in FirstOf(Acked(type, id)) : outbox_delete(i)
        BY <1>5, <2>6 DEF ReceiveAck
      <3>2. i \in 1..Len(outbox) /\ outbox[i].id = id /\ outbox[i].type = type
        BY <3>1 DEF FirstOf, Acked
      <3>3. /\ pending_msg_count' = pending_msg_count - 1
            /\ confirmed' = IF type = "PUBLISH" THEN Append(confirmed, id) ELSE confirmed
        BY <1>5, <2>6 DEF ReceiveAck
      <3>4. UNCHANGED <<last_message_id, offered, received>>
        BY <2>1 DEF Taken
      <3>5. OutboxOK' /\ Held' = IF type = "PUBLISH" THEN Held \ {id} ELSE Held
        BY <3>1, <3>2, <3>3, <3>4, DeleteFacts DEF IInv
      <3>6. CASE type # "PUBLISH"
        <4>1. MessagesOK' /\ AloStep
          BY <3>3, <3>4, <3>5, <3>6, OnlyGivesUp DEF IInv, MessagesOK
        <4> QED BY <2>3, <2>4, <3>5, <4>1 DEF Kept, IInv
      <3>7. CASE type = "PUBLISH"
        <4>1. toClient \in Seq(ClientPkts) /\ toClient # << >> /\ Head(toClient).type = "PUBACK"
          BY <1>5, <2>1, <3>7 DEF Taken, IInv, LinkOK
        <4>2. 1 \in 1..Len(toClient) /\ Head(toClient) = toClient[1]
          BY <4>1
        <4>3. id \in received
          BY <4>1, <4>2 DEF IInv, LinkOK
        <4>4. id \in Held
          BY <3>2, <3>7 DEF Held
        <4>5. id \in 1..MaxPacketId /\ id \in Nat
          <5>1. /\ Held \subseteq offered /\ offered \subseteq 1..last_message_id
                /\ last_message_id \in 0..MaxPacketId
            BY DEF IInv, MessagesOK
          <5> HIDE DEF id
          <5> QED BY <4>4, <5>1, SessionAssumption
        <4>6. Alo!Confirm(id)
          BY <3>3, <3>4, <3>5, <3>7, <4>3, <4>4 DEF Alo!Confirm
        <4>7. AloStep
          BY <4>5, <4>6 DEF AloStep, Alo!AloNext
        <4>8. confirmed' \in Seq(Nat)
          BY <3>3, <3>7, <4>5 DEF IInv, MessagesOK
        <4>9. MessagesOK'
          BY <3>4, <3>5, <3>7, <4>8 DEF IInv, MessagesOK
        <4> QED BY <2>3, <2>4, <3>5, <4>7, <4>9 DEF Kept, IInv
      <3> QED BY <3>6, <3>7
    <2> QED BY <2>5, <2>6
  <1> QED BY <1>1, <1>2, <1>3, <1>4, <1>5 DEF ItemTypes

\* The rest of an iteration.
LEMMA SendingKept ==
    ASSUME IInv, Delivered \/ ExpireOne \/ Resend \/ ResendNothing \/ Keepalive
    PROVE  Kept
  <1> USE DEF linkVars, glueVars, peerVars, histVars
  <1>0. LinkOK /\ wait_for_ping_resp \in BOOLEAN /\ idle \in BOOLEAN /\ 0 \in Nat
    BY DEF IInv, LinkOK
  <1>1. CASE Delivered
    <2>1. CASE Written(Pkt("PUBACK", 0, NoTopic)) /\ step' = "expire"
               /\ UNCHANGED <<state, wait_for_ping_resp>>
      <3>1. LinkOK'
        BY <1>0, <1>1, <2>1, WritesControl DEF Delivered
      <3>2. ControlOK'
        BY <1>1, <2>1 DEF Delivered, IInv, ControlOK
      <3> QED BY <1>1, <3>1, <3>2, NothingMoves DEF Delivered
    <2>2. CASE esp_mqtt_abort_connection /\ step' = "poll"
      <3>1. LinkOK' /\ state' = "WAIT_RECONNECT"
        BY <1>0, <2>2, AbortFacts
      <3>2. ControlOK'
        BY <1>1, <2>2, <3>1 DEF Delivered, IInv, ControlOK
      <3> QED BY <1>1, <3>1, <3>2, NothingMoves DEF Delivered
    <2> QED BY <1>1, <2>1, <2>2 DEF Delivered
  <1>2. CASE ExpireOne
    <2>1. PICK i \in FirstOf(Expired) : outbox_delete(i)
      BY <1>2 DEF ExpireOne
    <2>2. i \in 1..Len(outbox)
      BY <2>1 DEF FirstOf, Expired
    <2>3. pending_msg_count' = pending_msg_count - 1
      BY <1>2, <2>2 DEF ExpireOne, IInv, OutboxOK, PendingCovers
    <2>4. UNCHANGED <<last_message_id, offered, received, confirmed>>
      BY <1>2 DEF ExpireOne
    <2>5. OutboxOK' /\ Held' \subseteq Held
      BY <2>1, <2>2, <2>3, <2>4, DeleteFacts DEF IInv
    <2>6. MessagesOK' /\ AloStep
      BY <2>4, <2>5, OnlyGivesUp DEF IInv, MessagesOK
    <2>7. LinkOK'
      BY <1>0, <1>2, LinkKept DEF ExpireOne
    <2>8. ControlOK'
      BY <1>2 DEF ExpireOne, IInv, ControlOK
    <2> QED BY <2>5, <2>6, <2>7, <2>8 DEF Kept, IInv
  <1>3. CASE Resend
    <2>0. /\ UNCHANGED <<pending_msg_count, last_message_id, glueVars, peerVars, histVars>>
          /\ step' \in {"keepalive", "poll"}
      BY <1>3 DEF Resend, AfterResend
    <2>1. PICK i \in ToResend :
            \/ /\ Written(Pkt(outbox[i].type, outbox[i].id, outbox[i].topic))
               /\ outbox' = [outbox EXCEPT ![i].pending = "TRANSMITTED"]
               /\ UNCHANGED <<state, wait_for_ping_resp>>
            \/ esp_mqtt_abort_connection /\ UNCHANGED outbox
      BY <1>3 DEF Resend
    <2>2. CASE esp_mqtt_abort_connection /\ UNCHANGED outbox
      <3>1. LinkOK' /\ state' = "WAIT_RECONNECT"
        BY <1>0, <2>2, AbortFacts
      <3>2. ControlOK'
        BY <2>0, <3>1 DEF IInv, ControlOK
      <3> QED BY <2>0, <2>2, <3>1, <3>2, NothingMoves
    <2>3. CASE /\ Written(Pkt(outbox[i].type, outbox[i].id, outbox[i].topic))
               /\ outbox' = [outbox EXCEPT ![i].pending = "TRANSMITTED"]
               /\ UNCHANGED <<state, wait_for_ping_resp>>
      <3>1. i \in 1..Len(outbox) /\ outbox \in Seq(Items)
        BY <2>1 DEF ToResend, FirstOf, Dequeue, IInv, OutboxOK
      <3> DEFINE it == outbox[i]
                 v == [it EXCEPT !.pending = "TRANSMITTED"]
                 m == Pkt(it.type, it.id, it.topic)
      <3>2. it \in Items
        BY <3>1, ElementOfSeq
      <3>3. /\ v \in Items /\ v.id = it.id /\ v.type = it.type /\ v.age = it.age
            /\ it.age \in Int
        BY <3>2 DEF Items, Ages
      <3>4. outbox' = [outbox EXCEPT ![i] = v]
        BY <2>3
      <3>5. /\ \A j \in 1..Len(outbox) : j < i => outbox[j].age >= v.age
            /\ v.age >= it.age
        BY <3>1, <3>3 DEF IInv, OutboxOK, AgesInOrder
      <3>6. OutboxOK' /\ Held' = Held
        <4> HIDE DEF v
        <4> QED BY <2>0, <3>1, <3>3, <3>4, <3>5, MarkFacts DEF IInv
      <3>7. m \in BrokerPkts /\ m.type = it.type /\ m.id = it.id
        BY <3>2, PktTyped DEF Items, ItemTypes
      <3>8. m.type = "PUBLISH" => m.id \in offered'
        BY <2>0, <3>1, <3>7 DEF Held, IInv, MessagesOK
      <3>9. LinkOK'
        <4>1. Written(m)
          BY <2>3
        <4> HIDE DEF m
        <4> QED BY <1>0, <2>0, <2>3, <3>7, <3>8, <4>1, WriteFacts
      <3>10. ControlOK'
        BY <2>0, <2>3 DEF IInv, ControlOK
      <3>11. MessagesOK' /\ AloStep
        BY <2>0, <3>6, OnlyGivesUp DEF IInv, MessagesOK
      <3> QED BY <3>6, <3>9, <3>10, <3>11 DEF Kept, IInv
    <2> QED BY <2>1, <2>2, <2>3
  <1>4. CASE ResendNothing
    <2>1. LinkOK'
      BY <1>0, <1>4, LinkKept DEF ResendNothing
    <2>2. ControlOK'
      BY <1>4 DEF ResendNothing, AfterResend, IInv, ControlOK
    <2> QED BY <1>4, <2>1, <2>2, NothingMoves DEF ResendNothing
  <1>5. CASE Keepalive
    <2>1. CASE esp_mqtt_abort_connection
      <3>1. LinkOK' /\ state' = "WAIT_RECONNECT"
        BY <1>0, <2>1, AbortFacts
      <3>2. ControlOK'
        BY <1>5, <3>1 DEF Keepalive, IInv, ControlOK
      <3> QED BY <1>5, <3>1, <3>2, NothingMoves DEF Keepalive
    <2>2. CASE Written(Pkt("PINGREQ", 0, NoTopic)) /\ wait_for_ping_resp' = TRUE
               /\ UNCHANGED state
      <3>1. LinkOK'
        BY <1>0, <1>5, <2>2, WritesControl DEF Keepalive
      <3>2. ControlOK'
        BY <1>5, <2>2 DEF Keepalive, IInv, ControlOK
      <3> QED BY <1>5, <3>1, <3>2, NothingMoves DEF Keepalive
    <2> QED BY <1>5, <2>1, <2>2 DEF Keepalive
  <1> QED BY <1>1, <1>2, <1>3, <1>4, <1>5

\* The calls of other tasks and of callbacks.
LEMMA CallsKept ==
    ASSUME IInv, esp_mqtt_glue_publish \/ Agent
    PROVE  Kept
  <1> USE DEF linkVars, glueVars, peerVars, histVars, clientVars
  <1>0. /\ LinkOK /\ wait_for_ping_resp \in BOOLEAN /\ idle \in BOOLEAN /\ 0 \in Nat
        /\ last_message_id + 1 \in Nat
    BY DEF IInv, LinkOK, MessagesOK
  <1>1. CASE esp_mqtt_glue_publish
    <2> DEFINE id == last_message_id + 1
               m == Pkt("PUBLISH", id, NoTopic)
    <2>1. /\ offered' = offered \cup {id}
          /\ UNCHANGED <<step, glueVars, peerVars, confirmed, conns>>
      BY <1>1 DEF esp_mqtt_glue_publish
    <2>2. PICK pending \in {"QUEUED", "TRANSMITTED"} : Enqueue("PUBLISH", NoTopic, pending)
      BY <1>1 DEF esp_mqtt_glue_publish
    <2>3. /\ OutboxOK' /\ Held' = Held \cup {id}
          /\ last_message_id' = id /\ last_message_id' \in 0..MaxPacketId
      BY <2>2, EnqueueFacts DEF IInv, ItemTypes
    <2>4. id \notin offered /\ id \in 1..MaxPacketId
      BY <2>3 DEF IInv, MessagesOK
    <2>5. Alo!Offer(id)
      BY <2>1, <2>3, <2>4 DEF Alo!Offer
    <2>6. AloStep
      BY <2>4, <2>5 DEF AloStep, Alo!AloNext
    <2>7. MessagesOK'
      BY <2>1, <2>3, <2>4 DEF IInv, MessagesOK
    <2>8. CASE esp_mqtt_abort_connection
      <3>1. LinkOK' /\ state' = "WAIT_RECONNECT"
        BY <1>0, <2>8, AbortFacts
      <3>2. ControlOK'
        BY <2>1, <3>1 DEF IInv, ControlOK
      <3> QED BY <2>3, <2>6, <2>7, <3>1, <3>2 DEF Kept, IInv
    <2>9. CASE Written(m) /\ UNCHANGED <<state, wait_for_ping_resp>>
      <3>1. m \in BrokerPkts /\ m.id \in offered'
        BY <1>0, <2>1, PktTyped
      <3>2. LinkOK'
        <4> HIDE DEF m
        <4> QED BY <1>0, <2>1, <2>9, <3>1, WriteFacts
      <3>3. ControlOK'
        BY <2>1, <2>9 DEF IInv, ControlOK
      <3> QED BY <2>3, <2>6, <2>7, <3>2, <3>3 DEF Kept, IInv
    <2> QED BY <1>1, <2>8, <2>9 DEF esp_mqtt_glue_publish
  <1>2. ASSUME NEW t \in Topics, SubscribeCall(t)
        PROVE  Kept
    <2>1. PICK i \in FirstOf(Free) :
            \/ /\ Written(Pkt("SUBSCRIBE", last_message_id + 1, t))
               /\ agent' = [pc |-> "store", topic |-> t, slot |-> i]
            \/ KeepConnection /\ UNCHANGED agent
      BY <1>2 DEF SubscribeCall
    <2>2. i \in 1..Slots
      BY <2>1 DEF FirstOf, Free
    <2>3. /\ Enqueue("SUBSCRIBE", t, "TRANSMITTED")
          /\ UNCHANGED <<state, step, wait_for_ping_resp, subscriptions, slot, peerVars, histVars>>
      BY <1>2 DEF SubscribeCall
    <2>4. LinkOK'
      <3>1. CASE KeepConnection
        BY <3>1, <1>0, <2>3, LinkKept DEF KeepConnection
      <3>2. CASE Written(Pkt("SUBSCRIBE", last_message_id + 1, t))
        BY <3>2, <1>0, <2>3, WritesControl
      <3> QED BY <2>1, <3>1, <3>2
    <2>5. ControlOK'
      <3>1. CASE UNCHANGED agent
        BY <3>1, <2>3 DEF IInv, ControlOK
      <3>2. CASE agent' = [pc |-> "store", topic |-> t, slot |-> i]
        <4>1. i \in 0..(Slots + 1)
          BY <2>2, SessionAssumption
        <4> QED BY <3>2, <2>2, <2>3, <4>1 DEF IInv, ControlOK
      <3> QED BY <2>1, <3>1, <3>2
    <2> QED BY <2>3, <2>4, <2>5, EnqueuesRequest
  <1>3. CASE SubscribeStores
    <2>1. LinkOK'
      BY <1>0, <1>3, LinkKept DEF SubscribeStores
    <2>2. AgentIdle \in [pc : {"idle", "store", "unsub", "wait", "done"},
                         topic : Topics \cup {NoTopic}, slot : 0..(Slots + 1)]
          /\ AgentIdle.pc = "idle"
      BY SessionAssumption DEF AgentIdle
    <2>3. ControlOK'
      BY <1>3, <2>2 DEF SubscribeStores, IInv, ControlOK
    <2> QED BY <1>3, <2>1, <2>3, NothingMoves DEF SubscribeStores
  <1>4. CASE DisconnectCall
    <2>1. LinkOK'
      BY <1>0, <1>4, LinkKept DEF DisconnectCall
    <2>2. ControlOK'
      <3>1. agent' = [pc |-> "unsub", topic |-> NoTopic, slot |-> 1]
        BY <1>4 DEF DisconnectCall, AgentIdle
      <3>2. 1 \in 0..(Slots + 1)
        BY SessionAssumption
      <3> QED BY <1>4, <3>1, <3>2 DEF DisconnectCall, IInv, ControlOK
    <2> QED BY <1>4, <2>1, <2>2, NothingMoves DEF DisconnectCall
  <1>5. CASE UnsubscribeNext
    <2>0. UNCHANGED <<state, step, wait_for_ping_resp, slot, peerVars, histVars>>
      BY <1>5 DEF UnsubscribeNext
    <2>1. PICK i \in FirstOf(Used(agent.slot)) :
            agent' = [agent EXCEPT !.slot = i + 1] /\ Unsubscribe(subscriptions[i])
      BY <1>5 DEF UnsubscribeNext
    <2>2. i \in 0..Slots /\ subscriptions[i] # NoTopic
      BY <2>1, SessionAssumption DEF FirstOf, Used, IInv, ControlOK
    <2> DEFINE t == subscriptions[i]
    <2>3. PICK j \in FirstOf(Matches(t)) : subscriptions' = [subscriptions EXCEPT ![j] = NoTopic]
      BY <2>1 DEF Unsubscribe
    <2>4. t \in Topics
      BY <2>3, SessionAssumption DEF FirstOf, Matches
    <2>5. ControlOK'
      <3>1. subscriptions' \in [1..Slots -> Topics \cup {NoTopic}]
        BY <2>3 DEF IInv, ControlOK
      <3>2. agent'.pc = agent.pc /\ agent.pc = "unsub"
            /\ agent' \in [pc : {"idle", "store", "unsub", "wait", "done"},
                          topic : Topics \cup {NoTopic}, slot : 0..(Slots + 1)]
        <4>1. i + 1 \in 0..(Slots + 1)
          BY <2>2, SessionAssumption
        <4>2. agent.pc = "unsub"
          BY <1>5 DEF UnsubscribeNext
        <4> QED BY <2>1, <4>1, <4>2 DEF IInv, ControlOK
      <3> QED BY <2>0, <3>1, <3>2 DEF IInv, ControlOK
    <2> HIDE DEF t
    <2>6. CASE /\ Enqueue("UNSUBSCRIBE", t, "TRANSMITTED")
               /\ Written(Pkt("UNSUBSCRIBE", last_message_id + 1, t)) \/ KeepConnection
      <3>1. CASE KeepConnection
        <4>1. LinkOK'
          BY <3>1, <1>0, <2>0, LinkKept DEF KeepConnection
        <4> QED BY <2>0, <2>4, <2>5, <2>6, <4>1, EnqueuesRequest
      <3>2. CASE Written(Pkt("UNSUBSCRIBE", last_message_id + 1, t))
        <4>1. LinkOK'
          BY <3>2, <1>0, <2>0, <2>4, WritesControl
        <4> QED BY <2>0, <2>4, <2>5, <2>6, <4>1, EnqueuesRequest
      <3> QED BY <2>6, <3>1, <3>2
    <2>7. CASE UNCHANGED <<outbox, pending_msg_count, last_message_id, net, toBroker,
                           toClient, idle>>
      <3>1. LinkOK'
        BY <1>0, <2>0, <2>7, LinkKept
      <3> QED BY <2>0, <2>5, <2>7, <3>1, NothingMoves
    <2> QED BY <2>1, <2>6, <2>7 DEF Unsubscribe, t
  <1>6. CASE esp_mqtt_client_stop
    <2>0. UNCHANGED <<step, outbox, pending_msg_count, last_message_id,
                      wait_for_ping_resp, subscriptions, slot, peerVars, histVars>>
      BY <1>6 DEF esp_mqtt_client_stop
    <2>1. LinkOK'
      <3>1. CASE UNCHANGED <<net, toBroker, toClient, idle>>
        BY <3>1, <1>0, <2>0, LinkKept
      <3>2. CASE Written(Pkt("DISCONNECT", 0, NoTopic))
        BY <3>2, <1>0, <2>0, WritesControl
      <3> QED BY <1>6, <3>1, <3>2 DEF esp_mqtt_client_stop
    <2>2. /\ agent' = AgentDone \/ agent' = [agent EXCEPT !.pc = "wait"]
          /\ state' = state \/ state' = "DISCONNECTED"
      BY <1>6 DEF esp_mqtt_client_stop
    <2>3. ControlOK'
      BY <2>0, <2>2, SessionAssumption DEF AgentDone, AgentIdle, IInv, ControlOK
    <2> QED BY <2>0, <2>1, <2>3, NothingMoves
  <1> QED BY <1>1, <1>2, <1>3, <1>4, <1>5, <1>6 DEF Agent

\* The broker answers with at most one packet, which acknowledges only what it answers.
LEMMA AnswerFacts ==
    ASSUME NEW m \in BrokerPkts
    PROVE  /\ Answer(m) \in Seq(ClientPkts) /\ Len(Answer(m)) \in 0..1
           /\ \A i \in 1..Len(Answer(m)) :
                 Answer(m)[i].type = "PUBACK" => m.type = "PUBLISH" /\ Answer(m)[i].id = m.id
  <1>1. m.id \in Nat
    BY DEF BrokerPkts
  <1>2. ASSUME NEW p \in ClientPkts, Answer(m) = << p >>,
               p.type = "PUBACK" => m.type = "PUBLISH" /\ p.id = m.id
        PROVE  /\ Answer(m) \in Seq(ClientPkts) /\ Len(Answer(m)) \in 0..1
               /\ \A i \in 1..Len(Answer(m)) :
                     Answer(m)[i].type = "PUBACK" => m.type = "PUBLISH" /\ Answer(m)[i].id = m.id
    <2>1. << p >> \in Seq(ClientPkts) /\ Len(<< p >>) = 1 /\ << p >>[1] = p
      OBVIOUS
    <2> QED BY <1>2, <2>1
  <1>3. ASSUME NEW ty \in ToClient, NEW id \in Nat
        PROVE  Pkt(ty, id, NoTopic) \in ClientPkts /\ Pkt(ty, id, NoTopic).type = ty
               /\ Pkt(ty, id, NoTopic).id = id
    BY DEF Pkt, ClientPkts
  <1>4. CASE m.type = "PUBLISH"
    <2>1. Answer(m) = << Pkt("PUBACK", m.id, NoTopic) >>
      BY <1>4 DEF Answer
    <2>2. "PUBACK" \in ToClient
      BY DEF ToClient
    <2>3. Pkt("PUBACK", m.id, NoTopic) \in ClientPkts /\ Pkt("PUBACK", m.id, NoTopic).id = m.id
      BY <1>1, <1>3, <2>2
    <2> QED BY <1>2, <1>4, <2>1, <2>3
  <1>5. CASE m.type # "PUBLISH" /\ m.type \in {"SUBSCRIBE", "UNSUBSCRIBE", "PINGREQ"}
    <2>1. PICK ty \in {"SUBACK", "UNSUBACK", "PINGRESP"}, id \in Nat :
            Answer(m) = << Pkt(ty, id, NoTopic) >>
      BY <1>1, <1>5 DEF Answer
    <2>2. ty \in ToClient /\ ty # "PUBACK"
      BY DEF ToClient
    <2>3. Pkt(ty, id, NoTopic) \in ClientPkts /\ Pkt(ty, id, NoTopic).type # "PUBACK"
      BY <1>3, <2>2
    <2> QED BY <1>2, <2>1, <2>3
  <1>6. CASE m.type \notin {"PUBLISH", "SUBSCRIBE", "UNSUBSCRIBE", "PINGREQ"}
    <2>1. Answer(m) = << >>
      BY <1>6 DEF Answer
    <2> QED BY <2>1
  <1> QED BY <1>4, <1>5, <1>6

\* The broker, the network and the passing of time.
LEMMA EnvironmentKept ==
    ASSUME IInv, Environment
    PROVE  Kept
  <1> USE DEF linkVars, glueVars, peerVars, histVars, clientVars
  <1>0. /\ LinkOK /\ wait_for_ping_resp \in BOOLEAN /\ idle \in BOOLEAN
        /\ toBroker \in Seq(BrokerPkts) /\ toClient \in Seq(ClientPkts)
    BY DEF IInv, LinkOK
  <1>1. CASE BrokerTakes
    <2> DEFINE m == Head(toBroker)
               a == Answer(m)
    <2>0. /\ toBroker # << >> /\ toBroker' = Tail(toBroker) /\ toClient' = toClient \o a
          /\ received' = IF m.type = "PUBLISH" THEN received \cup {m.id} ELSE received
          /\ UNCHANGED <<clientVars, wait_for_ping_resp, idle, glueVars, cmds, histVars>>
      BY <1>1 DEF BrokerTakes
    <2>1. /\ net' \in {"open", "dead", "closed"}
          /\ brokerSubs' \in {brokerSubs, brokerSubs \cup {m.topic}, brokerSubs \ {m.topic}}
      BY <1>1 DEF BrokerTakes, IInv, LinkOK
    <2>2. m \in BrokerPkts /\ m = toBroker[1] /\ 1 \in 1..Len(toBroker)
      BY <1>0, <2>0
    <2>3. m.id \in Nat /\ m.topic \in Topics \cup {NoTopic}
      BY <2>2 DEF BrokerPkts
    <2>4. m.type = "PUBLISH" => m.id \in offered
      BY <1>0, <2>2 DEF LinkOK
    <2>5. /\ a \in Seq(ClientPkts) /\ Len(a) \in 0..1
          /\ \A i \in 1..Len(a) : a[i].type = "PUBACK" => a[i].id \in received'
      BY <2>0, <2>2, AnswerFacts
    <2> HIDE DEF m, a
    <2>6. /\ toBroker' \in Seq(BrokerPkts) /\ Len(toBroker') = Len(toBroker) - 1
          /\ \A i \in 1..(Len(toBroker) - 1) : toBroker'[i] = toBroker[i + 1]
      BY <1>0, <2>0, HeadTailProperties
    <2>7. \A i \in 1..Len(toBroker') : toBroker'[i].type = "PUBLISH" => toBroker'[i].id \in offered'
      BY <1>0, <2>0, <2>6 DEF LinkOK
    <2>8. /\ toClient' \in Seq(ClientPkts) /\ Len(toClient') = Len(toClient) + Len(a)
          /\ \A i \in 1..(Len(toClient) + Len(a)) :
                toClient'[i] = IF i <= Len(toClient) THEN toClient[i] ELSE a[i - Len(toClient)]
      BY <1>0, <2>0, <2>5, ConcatProperties
    <2>9. \A i \in 1..Len(toClient') : toClient'[i].type = "PUBACK" => toClient'[i].id \in received'
      <3> SUFFICES ASSUME NEW i \in 1..Len(toClient'), toClient'[i].type = "PUBACK"
                   PROVE  toClient'[i].id \in received'
        OBVIOUS
      <3>1. CASE i <= Len(toClient)
        BY <3>1, <1>0, <2>0, <2>8 DEF LinkOK
      <3>2. CASE ~(i <= Len(toClient))
        <4>1. i - Len(toClient) \in 1..Len(a) /\ toClient'[i] = a[i - Len(toClient)]
          BY <3>2, <1>0, <2>5, <2>8
        <4> QED BY <4>1, <2>5
      <3> QED BY <3>1, <3>2
    <2>10. LinkOK'
      BY <1>0, <2>0, <2>1, <2>6, <2>7, <2>8, <2>9 DEF LinkOK
    <2>11. ControlOK'
      <3>1. brokerSubs' \subseteq Topics \cup {NoTopic}
        BY <2>1, <2>3 DEF IInv, ControlOK
      <3> QED BY <2>0, <3>1 DEF IInv, ControlOK
    <2>12. OutboxOK' /\ Held' = Held
      BY <2>0, UnchangedOutbox DEF IInv
    <2>13. CASE m.type = "PUBLISH"
      <3>1. MessagesOK'
        BY <2>0, <2>4, <2>12, <2>13 DEF IInv, MessagesOK
      <3>2. m.id \in 1..MaxPacketId
        <4>1. offered \subseteq 1..last_message_id /\ last_message_id \in 0..MaxPacketId
          BY DEF IInv, MessagesOK
        <4>2. \A x \in offered : x \in 1..MaxPacketId
          BY <4>1, SessionAssumption
        <4> QED BY <2>4, <2>13, <4>2
      <3>3. Alo!Arrive(m.id)
        BY <2>0, <2>4, <2>12, <2>13 DEF Alo!Arrive
      <3>4. AloStep
        BY <3>2, <3>3 DEF AloStep, Alo!AloNext
      <3> QED BY <2>10, <2>11, <2>12, <3>1, <3>4 DEF Kept, IInv
    <2>14. CASE m.type # "PUBLISH"
      BY <2>0, <2>10, <2>11, <2>14, NothingMoves
    <2> QED BY <2>13, <2>14
  <1>2. ASSUME NEW t \in Topics, BrokerSends(t)
        PROVE  Kept
    <2> DEFINE m == Pkt("PUBLISH", 0, t)
    <2>1. m \in ClientPkts /\ m.type = "PUBLISH"
      BY DEF Pkt, ClientPkts, ToClient
    <2>2. toClient' = Append(toClient, m)
      BY <1>2 DEF BrokerSends
    <2> HIDE DEF m
    <2>3. /\ toClient' \in Seq(ClientPkts) /\ Len(toClient') = Len(toClient) + 1
          /\ \A i \in 1..Len(toClient) : toClient'[i] = toClient[i]
          /\ toClient'[Len(toClient) + 1] = m
      BY <1>0, <2>1, <2>2, AppendProperties
    <2>4. \A i \in 1..Len(toClient') : toClient'[i].type = "PUBACK" => toClient'[i].id \in received'
      BY <1>0, <1>2, <2>1, <2>3 DEF LinkOK, BrokerSends
    <2>5. LinkOK'
      BY <1>0, <1>2, <2>3, <2>4 DEF LinkOK, BrokerSends
    <2>6. ControlOK'
      BY <1>2, SessionAssumption DEF BrokerSends, IInv, ControlOK
    <2> QED BY <1>2, <2>5, <2>6, NothingMoves DEF BrokerSends
  <1>3. CASE NetDies
    <2>1. LinkOK'
      <3>1. Len(toBroker') = 0 /\ toBroker' \in Seq(BrokerPkts)
        BY <1>3 DEF NetDies
      <3>2. CASE toClient' = toClient
        BY <1>0, <1>3, <3>1, <3>2 DEF NetDies, LinkOK
      <3>3. CASE toClient' = << >>
        <4>1. Len(toClient') = 0 /\ toClient' \in Seq(ClientPkts)
          BY <3>3
        <4> QED BY <1>0, <1>3, <3>1, <4>1 DEF NetDies, LinkOK
      <3> QED BY <1>3, <3>2, <3>3 DEF NetDies
    <2>2. ControlOK'
      BY <1>3 DEF NetDies, IInv, ControlOK
    <2> QED BY <1>3, <2>1, <2>2, NothingMoves DEF NetDies
  <1>4. ASSUME NEW i \in 1..Len(outbox), Age(i)
        PROVE  Kept
    <2>0. UNCHANGED <<state, step, pending_msg_count, last_message_id, linkVars, glueVars,
                      peerVars, histVars>>
      BY <1>4 DEF Age
    <2> DEFINE it == outbox[i]
               v == [it EXCEPT !.age = @ + 1]
    <2>1. it \in Items /\ \A j \in 1..Len(outbox) : outbox[j] \in Items
      BY ElementOfSeq DEF IInv, OutboxOK
    <2>2. \A j \in 1..Len(outbox) : outbox[j].age \in 0..2
      BY <2>1 DEF Items, Ages
    <2>3. it.age < 2 /\ \A j \in 1..(i - 1) : outbox[j].age > it.age
      BY <1>4 DEF Age
    <2>4. /\ v \in Items /\ v.id = it.id /\ v.type = it.type /\ v.age = it.age + 1
      BY <2>1, <2>2, <2>3 DEF Items, Ages
    <2>5. outbox' = [outbox EXCEPT ![i] = v]
      BY <1>4 DEF Age
    <2>6. /\ \A j \in 1..Len(outbox) : j < i => outbox[j].age >= v.age
          /\ v.age >= it.age
      <3> HIDE DEF v
      <3> QED BY <2>2, <2>3, <2>4
    <2> HIDE DEF v
    <2>7. OutboxOK' /\ Held' = Held
      BY <2>0, <2>4, <2>5, <2>6, MarkFacts DEF IInv
    <2>8. LinkOK'
      BY <1>0, <2>0, LinkKept
    <2>9. ControlOK'
      BY <2>0 DEF IInv, ControlOK
    <2>10. MessagesOK' /\ AloStep
      BY <2>0, <2>7, OnlyGivesUp DEF IInv, MessagesOK
    <2> QED BY <2>7, <2>8, <2>9, <2>10 DEF Kept, IInv
  <1>5. CASE KeepaliveElapses
    <2>1. LinkOK'
      BY <1>0, <1>5, LinkKept DEF KeepaliveElapses
    <2>2. ControlOK'
      BY <1>5 DEF KeepaliveElapses, IInv, ControlOK
    <2> QED BY <1>5, <2>1, <2>2, NothingMoves DEF KeepaliveElapses
  <1> QED BY <1>1, <1>2, <1>3, <1>4, <1>5 DEF Environment

-----------------------------------------------------------------------------
(* The theorems. *)

\* The invariant holds at the start, where AtLeastOnce starts too.
LEMMA SessionInit ==
    ASSUME Init
    PROVE  IInv /\ Alo!AloInit
  <1>1. OutboxOK /\ Held = {}
    BY DEF Init, OutboxOK, PendingCovers, Numbered, IdsInOrder, AgesInOrder, Held
  <1>2. LinkOK
    <2>1. Len(toBroker) = 0 /\ Len(toClient) = 0
          /\ toBroker \in Seq(BrokerPkts) /\ toClient \in Seq(ClientPkts)
      BY DEF Init
    <2>2. /\ \A i \in 1..Len(toBroker) : toBroker[i].type = "PUBLISH" => toBroker[i].id \in offered
          /\ \A i \in 1..Len(toClient) : toClient[i].type = "PUBACK" => toClient[i].id \in received
      BY <2>1
    <2>3. /\ net \in {"open", "dead", "closed"}
          /\ wait_for_ping_resp \in BOOLEAN /\ idle \in BOOLEAN
      BY Zenon DEF Init
    <2> QED BY <2>1, <2>2, <2>3 DEF LinkOK
  <1>3. MessagesOK
    BY <1>1, SessionAssumption DEF Init, MessagesOK
  <1>4. ControlOK
    BY SessionAssumption DEF Init, AgentIdle, ControlOK
  <1>5. Alo!AloInit
    BY <1>1 DEF Init, Alo!AloInit
  <1> QED BY <1>1, <1>2, <1>3, <1>4, <1>5 DEF IInv

\* Every step keeps the invariant and is allowed by AtLeastOnce.
LEMMA SessionStep ==
    ASSUME IInv, [Next]_vars
    PROVE  Kept
  <1>1. CASE UNCHANGED vars
    <2>1. LinkOK'
      BY <1>1, LinkKept DEF vars, IInv, LinkOK, linkVars, peerVars, histVars
    <2>2. ControlOK'
      BY <1>1 DEF vars, clientVars, glueVars, peerVars, histVars, IInv, ControlOK
    <2> QED BY <1>1, <2>1, <2>2, NothingMoves DEF vars, clientVars, peerVars, histVars
  <1> QED BY <1>1, ConnectingKept, ReceivingKept, SendingKept, CallsKept, EnvironmentKept
          DEF Next, Task, Iterating

\* The invariant in every state.
LEMMA SessionInvariant == Spec => []IInv
  <1>1. Init => IInv
    BY SessionInit
  <1>2. IInv /\ [Next]_vars => IInv'
    BY SessionStep DEF Kept
  <1> QED BY <1>1, <1>2, PTL DEF Spec

\* Every variable of the client, the glue and the broker keeps its type, for
\* every size of the table and every number of connections and messages.
THEOREM SessionTyped == Spec => []TypeOK
  <1>1. IInv => TypeOK
    BY SessionAssumption DEF IInv, OutboxOK, LinkOK, MessagesOK, ControlOK, TypeOK,
       BrokerPkts, ClientPkts
  <1> QED BY <1>1, SessionInvariant, PTL

\* pending_msg_count never falls below the outbox: no acknowledgement of a
\* waiting message is thrown away by is_valid_mqtt_msg.
THEOREM PendingCount == Spec => []PendingCovers
  <1>1. IInv => PendingCovers
    BY DEF IInv, OutboxOK
  <1> QED BY <1>1, SessionInvariant, PTL

\* A packet identifier names at most one message of the outbox, which is in the
\* order of the identifiers.
THEOREM IdentifiersInOrder == Spec => []IdsInOrder
  <1>1. IInv => IdsInOrder
    BY DEF IInv, OutboxOK
  <1> QED BY <1>1, SessionInvariant, PTL

\* The client implements AtLeastOnce: a PUBLISHED event is posted once at most
\* and only for a message that the broker has.
THEOREM SessionIsAtLeastOnce == Spec => AtLeastOnceSpec
  <1>1. Init => Alo!AloInit
    BY SessionInit
  <1>2. IInv /\ [Next]_vars => [Alo!AloNext]_(Alo!aloVars)
    BY SessionStep DEF Kept, AloStep
  <1> QED BY <1>1, <1>2, SessionInvariant, PTL DEF Spec, AtLeastOnceSpec, Alo!AloSpec

\* For every table, every number of connections and every number of messages: the
\* outbox is in the order of its identifiers and covered by pending_msg_count, so that
\* is_valid_mqtt_msg neither ignores an acknowledgement nor takes it for another message.
THEOREM OutboxInvariant == Spec => []OutboxInv
<1>1. TypeOK /\ PendingCovers /\ IdsInOrder => OutboxInv
      BY DEF OutboxInv
<1> QED BY <1>1, SessionTyped, PendingCount, IdentifiersInOrder, PTL
-----------------------------------------------------------------------------
(***************************************************************************)
(* The table of subscriptions.  As long as the agent subscribes, nothing   *)
(* that the client holds or has sent unsubscribes, so what the broker was  *)
(* asked for on a connection only grows, and the CONNECTED handler asks    *)
(* for the whole table.  Once the agent unsubscribes, the table only       *)
(* empties, from the first slot on.                                        *)
(***************************************************************************)

\* The types of the messages in the outbox and on their way to the broker.
Waiting == {outbox[i].type : i \in 1..Len(outbox)}
Sending == {toBroker[i].type : i \in 1..Len(toBroker)}

\* The topics that the broker knows or is asked for on this connection.
Asked == {toBroker[i].topic : i \in {j \in 1..Len(toBroker) : toBroker[j].type = "SUBSCRIBE"}}
Known == brokerSubs \cup Asked

Live == state = "CONNECTED" /\ net = "open"
Subscribing == agent.pc \in {"idle", "store"}

NothingUnsubscribes == Subscribing => "UNSUBSCRIBE" \notin Waiting \cup Sending

\* What the CONNECTED handler has passed is known.
TableKnown ==
    Subscribing /\ Live =>
        \A i \in 1..Slots : /\ subscriptions[i] # NoTopic
                            /\ step = "resub" => i < slot
                            => subscriptions[i] \in Known

\* A topic that is still to be stored was asked for on this connection.
StoreKnown ==
    agent.pc = "store" =>
        state # "INIT" /\ step # "resub" /\ (Live => agent.topic \in Known)

\* The slots before the agent's are empty, in the end all of them.
Emptied ==
    /\ agent.pc = "unsub" =>
          /\ agent.slot >= 1
          /\ \A i \in 1..Slots : i < agent.slot => subscriptions[i] = NoTopic
    /\ agent.pc \in {"wait", "done"} => \A i \in 1..Slots : subscriptions[i] = NoTopic

SubsInv == NothingUnsubscribes /\ TableKnown /\ StoreKnown /\ Emptied

\* A packet that is written is the last on its way.
LEMMA WrittenWire ==
    ASSUME LinkOK, NEW m \in BrokerPkts, Written(m), UNCHANGED brokerSubs
    PROVE  /\ Sending' \subseteq Sending \cup {m.type} /\ Known \subseteq Known'
           /\ net = "open" /\ m.type = "SUBSCRIBE" => m.topic \in Known'
           /\ net' = net /\ net # "closed"
  <1>1. /\ net' = net /\ net # "closed"
        /\ toBroker' = IF net = "open" THEN Append(toBroker, m) ELSE toBroker
    BY DEF Written
  <1>2. CASE net # "open"
    BY <1>1, <1>2 DEF Sending, Known, Asked
  <1>3. CASE net = "open"
    <2>1. toBroker \in Seq(BrokerPkts) /\ toBroker' = Append(toBroker, m)
      BY <1>1, <1>3 DEF LinkOK
    <2>2. /\ Len(toBroker') = Len(toBroker) + 1 /\ Len(toBroker) \in Nat
          /\ \A i \in 1..Len(toBroker) : toBroker'[i] = toBroker[i]
          /\ toBroker'[Len(toBroker) + 1] = m
      BY <2>1, AppendProperties
    <2>3. Sending' \subseteq Sending \cup {m.type}
      BY <2>2 DEF Sending
    <2>4. Known \subseteq Known' /\ (m.type = "SUBSCRIBE" => m.topic \in Known')
      <3>1. \A i \in 1..Len(toBroker) : i \in 1..Len(toBroker')
        BY <2>2
      <3>2. Len(toBroker) + 1 \in 1..Len(toBroker')
        BY <2>2
      <3> QED BY <2>2, <3>1, <3>2 DEF Known, Asked
    <2> QED BY <1>1, <2>3, <2>4
  <1> QED BY <1>2, <1>3

\* A connection that is left alone, and one that is closed.
LEMMA SameWire ==
    ASSUME UNCHANGED <<toBroker, brokerSubs>>
    PROVE  Sending' = Sending /\ Known' = Known
  BY DEF Sending, Known, Asked

\* An empty link carries no packet of any type.
LEMMA EmptyWire ==
    ASSUME toBroker' = << >>
    PROVE  Sending' = {}
  <1>1. Len(toBroker') = 0
    OBVIOUS
  <1> QED BY <1>1 DEF Sending

\* Closing the transport takes everything off the link and ends the wait for a ping.
LEMMA AbortedWire ==
    ASSUME esp_mqtt_abort_connection
    PROVE  Sending' = {} /\ state' = "WAIT_RECONNECT" /\ wait_for_ping_resp' = FALSE
  BY EmptyWire DEF esp_mqtt_abort_connection

\* What the broker takes, it knows afterwards, unless it is told to forget.
LEMMA TakenWire ==
    ASSUME LinkOK, BrokerTakes
    PROVE  /\ Sending' \subseteq Sending
           /\ "UNSUBSCRIBE" \notin Sending => Known \subseteq Known'
  <1> DEFINE m == Head(toBroker)
  <1>1. /\ toBroker # << >> /\ toBroker' = Tail(toBroker) /\ toBroker \in Seq(BrokerPkts)
        /\ brokerSubs' = CASE m.type = "SUBSCRIBE"   -> brokerSubs \cup {m.topic}
                           [] m.type = "UNSUBSCRIBE" -> brokerSubs \ {m.topic}
                           [] OTHER                  -> brokerSubs
    BY DEF BrokerTakes, LinkOK
  <1>2. /\ m = toBroker[1] /\ 1 \in 1..Len(toBroker) /\ Len(toBroker) \in Nat
        /\ Len(toBroker') = Len(toBroker) - 1
        /\ \A i \in 1..(Len(toBroker) - 1) : toBroker'[i] = toBroker[i + 1]
    BY <1>1, HeadTailProperties
  <1> HIDE DEF m
  <1>3. \A i \in 1..Len(toBroker') :
           i + 1 \in 1..Len(toBroker) /\ toBroker'[i] = toBroker[i + 1]
    BY <1>2
  <1>4. Sending' \subseteq Sending
    BY <1>3 DEF Sending
  <1>5. ASSUME "UNSUBSCRIBE" \notin Sending, NEW t \in Known
        PROVE  t \in Known'
    <2>1. m.type # "UNSUBSCRIBE"
      BY <1>2, <1>5 DEF Sending
    <2>2. brokerSubs \subseteq brokerSubs' /\ (m.type = "SUBSCRIBE" => m.topic \in brokerSubs')
      BY <1>1, <2>1
    <2>3. CASE t \in brokerSubs
      BY <2>2, <2>3 DEF Known
    <2>4. CASE t \in Asked
      <3>1. PICK j \in 1..Len(toBroker) : toBroker[j].type = "SUBSCRIBE" /\ toBroker[j].topic = t
        BY <2>4 DEF Asked
      <3>2. CASE j = 1
        BY <1>2, <2>2, <3>1, <3>2 DEF Known
      <3>3. CASE j # 1
        <4>1. j - 1 \in 1..Len(toBroker') /\ toBroker'[j - 1] = toBroker[j]
          BY <1>2, <3>3
        <4> QED BY <3>1, <4>1 DEF Known, Asked
      <3> QED BY <3>2, <3>3
    <2> QED BY <1>5, <2>3, <2>4 DEF Known
  <1> QED BY <1>4, <1>5

\* Enqueuing adds one type of message to the outbox, deleting and marking none.
LEMMA EnqueuedTypes ==
    ASSUME OutboxOK, NEW type \in ItemTypes, NEW topic \in Topics \cup {NoTopic},
           NEW pending \in {"QUEUED", "TRANSMITTED"}, Enqueue(type, topic, pending)
    PROVE  Waiting' \subseteq Waiting \cup {type}
  BY EnqueueFacts DEF Waiting

\* Deleting an item of the outbox adds no type of packet to what waits in it.
LEMMA DeletedTypes ==
    ASSUME OutboxOK, NEW i \in 1..Len(outbox), outbox_delete(i)
    PROVE  Waiting' \subseteq Waiting
  <1>1. outbox \in Seq(Items) /\ Len(outbox) \in Nat
    BY DEF OutboxOK
  <1>2. /\ Len(outbox') = Len(outbox) - 1
        /\ \A j \in 1..(Len(outbox) - 1) : outbox'[j] = IF j < i THEN outbox[j] ELSE outbox[j + 1]
    BY <1>1, RemoveAtFacts DEF outbox_delete
  <1>3. \A j \in 1..Len(outbox') : \E k \in 1..Len(outbox) : outbox'[j] = outbox[k]
    BY <1>1, <1>2
  <1> QED BY <1>3 DEF Waiting

\* Neither does marking an item as sent or resent.
LEMMA MarkedTypes ==
    ASSUME OutboxOK, NEW i \in 1..Len(outbox), NEW v,
           outbox' = [outbox EXCEPT ![i] = v], v.type = outbox[i].type
    PROVE  Waiting' \subseteq Waiting
  <1>1. outbox \in Seq(Items) /\ DOMAIN outbox = 1..Len(outbox)
    BY DEF OutboxOK
  <1>2. Len(outbox') = Len(outbox)
    BY <1>1
  <1>3. \A j \in 1..Len(outbox) : outbox'[j].type = outbox[j].type
    BY <1>1
  <1> QED BY <1>2, <1>3 DEF Waiting

\* A step that leaves the table and the agent alone and forgets nothing.
LEMMA SubsStep ==
    ASSUME SubsInv, UNCHANGED <<subscriptions, agent, slot>>,
           "UNSUBSCRIBE" \in Waiting' \cup Sending' => "UNSUBSCRIBE" \in Waiting \cup Sending,
           Subscribing /\ Live' => Live /\ Known \subseteq Known',
           state' = "INIT" => state = "INIT",
           step' = "resub" <=> step = "resub"
    PROVE  SubsInv'
  BY DEF SubsInv, NothingUnsubscribes, TableKnown, StoreKnown, Emptied, Subscribing

\* The same for a packet that the client puts together.
LEMMA WrittenPkt ==
    ASSUME IInv, NEW type, NEW id \in Nat, NEW topic \in Topics \cup {NoTopic},
           type \in {"PUBLISH", "SUBSCRIBE", "UNSUBSCRIBE", "PUBACK", "PINGREQ", "DISCONNECT"},
           Written(Pkt(type, id, topic)), UNCHANGED brokerSubs
    PROVE  /\ Sending' \subseteq Sending \cup {type} /\ Known \subseteq Known'
           /\ net = "open" /\ type = "SUBSCRIBE" => topic \in Known'
           /\ net' = net /\ net # "closed"
  <1> DEFINE m == Pkt(type, id, topic)
  <1>1. m \in BrokerPkts /\ m.type = type /\ m.topic = topic
    BY PktTyped DEF Pkt
  <1>2. LinkOK /\ Written(m)
    BY DEF IInv
  <1> HIDE DEF m
  <1> QED BY <1>1, <1>2, WrittenWire

\* Connecting: the handler asks for one slot after the other.
LEMMA ConnectingSubs ==
    ASSUME IInv, SubsInv, esp_mqtt_client_start \/ Connecting \/ Leaving
    PROVE  SubsInv'
  <1> USE DEF linkVars, glueVars, peerVars, histVars
  <1>1. CASE esp_mqtt_client_start
    <2>1. /\ agent.pc # "store" /\ state' = "INIT" /\ step' = "poll"
          /\ UNCHANGED <<outbox, toBroker, brokerSubs, subscriptions, agent>>
      BY <1>1 DEF esp_mqtt_client_start
    <2>2. Waiting' = Waiting /\ Sending' = Sending
      BY <2>1 DEF Waiting, Sending
    <2> QED BY <2>1, <2>2 DEF SubsInv, NothingUnsubscribes, TableKnown, StoreKnown, Emptied,
                              Subscribing, Live
  <1>2. CASE Connected
    <2>1. /\ state = "INIT" /\ step' = "resub" /\ slot' = 1 /\ toBroker' = << >>
          /\ UNCHANGED <<outbox, subscriptions, agent>>
      BY <1>2 DEF Connected
    <2>2. Waiting' = Waiting /\ Sending' = {}
      BY <2>1, EmptyWire DEF Waiting
    <2>3. agent.pc # "store"
      BY <2>1 DEF SubsInv, StoreKnown
    <2> QED BY <2>1, <2>2, <2>3 DEF SubsInv, NothingUnsubscribes, TableKnown, StoreKnown, Emptied,
                                    Subscribing, Live
  <1>3. CASE NotConnected
    <2>1. Sending' = {} /\ state' = "WAIT_RECONNECT"
      BY <1>3, AbortedWire DEF NotConnected
    <2>2. /\ step' = step /\ UNCHANGED <<outbox, subscriptions, agent, slot>>
          /\ Waiting' = Waiting
      BY <1>3 DEF NotConnected, Waiting
    <2> QED BY <2>1, <2>2, SubsStep DEF Live
  <1>4. CASE Resubscribe
    <2>1. PICK i \in FirstOf(Used(slot)) :
            /\ slot' = i + 1
            /\ Enqueue("SUBSCRIBE", subscriptions[i], "TRANSMITTED")
            /\ \/ Written(Pkt("SUBSCRIBE", last_message_id + 1, subscriptions[i]))
               \/ KeepConnection
      BY <1>4 DEF Resubscribe
    <2>2. /\ i \in 1..Slots /\ slot \in 1..(Slots + 1)
          /\ \A j \in 1..Slots : subscriptions[j] # NoTopic /\ j < i => j < slot
      BY <2>1, SessionAssumption DEF FirstOf, Used, IInv, ControlOK
    <2>3. /\ subscriptions[i] \in Topics \cup {NoTopic} /\ last_message_id + 1 \in Nat
          /\ "SUBSCRIBE" \in ItemTypes
      BY <2>2 DEF IInv, ControlOK, MessagesOK, ItemTypes
    <2>4. /\ step = "resub" /\ UNCHANGED <<state, step, subscriptions, agent, brokerSubs>>
      BY <1>4 DEF Resubscribe
    <2>5. Waiting' \subseteq Waiting \cup {"SUBSCRIBE"}
      BY <2>1, <2>3, EnqueuedTypes DEF IInv
    <2>6. /\ Sending' \subseteq Sending \cup {"SUBSCRIBE"} /\ Known \subseteq Known'
          /\ net' = "open" => net = "open" /\ subscriptions[i] \in Known'
      <3>1. CASE Written(Pkt("SUBSCRIBE", last_message_id + 1, subscriptions[i]))
        BY <3>1, <2>3, <2>4, WrittenPkt
      <3>2. CASE KeepConnection
        <4>1. UNCHANGED <<toBroker, net>> /\ net # "open"
          BY <3>2 DEF KeepConnection, WriteFails
        <4> QED BY <4>1, <2>4, SameWire
      <3> QED BY <2>1, <3>1, <3>2
    <2>7. NothingUnsubscribes' /\ StoreKnown' /\ Emptied'
      BY <2>4, <2>5, <2>6 DEF SubsInv, NothingUnsubscribes, StoreKnown, Emptied, Subscribing
    <2>8. TableKnown'
      <3> SUFFICES ASSUME Subscribing', Live', NEW j \in 1..Slots,
                          subscriptions[j] # NoTopic, j < i + 1
                   PROVE  subscriptions[j] \in Known'
        BY <2>1, <2>4 DEF TableKnown
      <3>1. Subscribing /\ Live
        BY <2>4, <2>6 DEF Subscribing, Live
      <3>2. CASE j = i
        BY <2>6, <3>2 DEF Live
      <3>3. CASE j # i
        <4>1. j < slot
          BY <2>2, <3>3
        <4> QED BY <3>1, <4>1, <2>6 DEF SubsInv, TableKnown
      <3> QED BY <3>2, <3>3
    <2> QED BY <2>7, <2>8 DEF SubsInv
  <1>5. CASE Resubscribed
    <2>1. /\ step' = "poll" /\ Used(slot) = {}
          /\ UNCHANGED <<state, net, outbox, toBroker, brokerSubs, subscriptions, agent>>
      BY <1>5 DEF Resubscribed
    <2>2. \A j \in 1..Slots : subscriptions[j] # NoTopic => j < slot
      BY <2>1, SessionAssumption DEF Used, IInv, ControlOK
    <2>3. Waiting' = Waiting /\ Sending' = Sending /\ Known' = Known
      BY <2>1, SameWire DEF Waiting
    <2> QED BY <2>1, <2>2, <2>3 DEF SubsInv, NothingUnsubscribes, TableKnown, StoreKnown, Emptied,
                                    Subscribing, Live
  <1>6. CASE LeaveLoop
    <2>1. /\ state' = "DISCONNECTED" /\ step' = step
          /\ UNCHANGED <<outbox, toBroker, brokerSubs, subscriptions, agent, slot>>
      BY <1>6 DEF LeaveLoop
    <2>2. Waiting' = Waiting /\ Sending' = Sending
      BY <2>1, SameWire DEF Waiting
    <2> QED BY <2>1, <2>2, SubsStep DEF Live
  <1>7. CASE TaskEnds
    <2>1. /\ state' = "DISCONNECTED" /\ step' = "none" /\ outbox' = << >> /\ toBroker' = << >>
          /\ agent' = IF agent.pc = "wait" THEN AgentDone ELSE agent
          /\ UNCHANGED subscriptions
      BY <1>7 DEF TaskEnds
    <2>2. Waiting' = {} /\ Sending' = {}
      <3>1. Len(outbox') = 0
        BY <2>1
      <3> QED BY <2>1, <3>1, EmptyWire DEF Waiting
    <2>3. AgentDone.pc = "done"
      BY DEF AgentDone, AgentIdle
    <2> QED BY <2>1, <2>2, <2>3 DEF SubsInv, NothingUnsubscribes, TableKnown, StoreKnown, Emptied,
                                    Subscribing, Live
  <1> QED BY <1>1, <1>2, <1>3, <1>4, <1>5, <1>6, <1>7 DEF Connecting, Leaving

\* An iteration while connected: what is sent again was in the outbox.
LEMMA IteratingSubs ==
    ASSUME IInv, SubsInv, Iterating
    PROVE  SubsInv'
  <1> USE DEF linkVars, glueVars, peerVars, histVars
  <1>0. OutboxOK /\ outbox \in Seq(Items) /\ 0 \in Nat
    BY DEF IInv, OutboxOK
  <1>1. CASE ReadFails
    <2>1. Sending' = {} /\ state' = "WAIT_RECONNECT"
      BY <1>1, AbortedWire DEF ReadFails
    <2>2. step' = step /\ UNCHANGED <<outbox, subscriptions, agent, slot>> /\ Waiting' = Waiting
      BY <1>1 DEF ReadFails, Waiting
    <2> QED BY <2>1, <2>2, SubsStep DEF Live
  <1>2. CASE ReceiveNothing
    <2>1. /\ step = "poll" /\ step' = "expire"
          /\ UNCHANGED <<state, net, outbox, toBroker, brokerSubs, subscriptions, agent, slot>>
      BY <1>2 DEF ReceiveNothing
    <2>2. Waiting' = Waiting /\ Sending' = Sending /\ Known' = Known
      BY <2>1, SameWire DEF Waiting
    <2> QED BY <2>1, <2>2, SubsStep DEF Live
  <1>3. ASSUME step = "poll", step' # "resub", Waiting' \subseteq Waiting,
               UNCHANGED <<state, net, toBroker, brokerSubs, subscriptions, agent, slot>>
        PROVE  SubsInv'
    <2>1. Sending' = Sending /\ Known' = Known
      BY <1>3, SameWire
    <2> QED BY <1>3, <2>1, SubsStep DEF Live
  <1>4. ASSUME NEW ack, NEW type, ReceiveAck(ack, type)
        PROVE  SubsInv'
    <2>1. /\ step = "poll" /\ step' = "expire"
          /\ UNCHANGED <<state, net, toBroker, brokerSubs, subscriptions, agent, slot>>
      BY <1>4 DEF ReceiveAck, Taken
    <2>2. UNCHANGED outbox \/ \E i \in FirstOf(Acked(type, Head(toClient).id)) : outbox_delete(i)
      BY <1>4 DEF ReceiveAck
    <2>3. Waiting' \subseteq Waiting
      <3>1. CASE UNCHANGED outbox
        BY <3>1 DEF Waiting
      <3>2. CASE \E i \in FirstOf(Acked(type, Head(toClient).id)) : outbox_delete(i)
        BY <1>0, <3>2, DeletedTypes DEF FirstOf, Acked
      <3> QED BY <2>2, <3>1, <3>2
    <2> QED BY <2>1, <2>3, <1>3
  <1>5. CASE ReceivePingResp \/ ReceivePublish
    <2>1. /\ step = "poll" /\ step' # "resub" /\ Waiting' = Waiting
          /\ UNCHANGED <<state, net, toBroker, brokerSubs, subscriptions, agent, slot>>
      BY <1>5 DEF ReceivePingResp, ReceivePublish, Taken, Waiting
    <2> QED BY <2>1, <1>3
  <1>6. ASSUME step # "resub", step' # "resub", Waiting' \subseteq Waiting,
               UNCHANGED <<brokerSubs, subscriptions, agent, slot>>,
               \/ esp_mqtt_abort_connection
               \/ /\ state' = state
                  /\ \E type \in {"PUBACK", "PINGREQ"} : Written(Pkt(type, 0, NoTopic))
        PROVE  SubsInv'
    <2>1. CASE esp_mqtt_abort_connection
      BY <1>6, <2>1, AbortedWire, SubsStep DEF Live
    <2>2. CASE /\ state' = state
               /\ \E type \in {"PUBACK", "PINGREQ"} : Written(Pkt(type, 0, NoTopic))
      <3>1. PICK type \in {"PUBACK", "PINGREQ"} : Written(Pkt(type, 0, NoTopic))
        BY <2>2
      <3>2. Sending' \subseteq Sending \cup {type} /\ Known \subseteq Known' /\ net' = net
        BY <1>0, <1>6, <3>1, WrittenPkt
      <3> QED BY <1>6, <2>2, <3>2, SubsStep DEF Live
    <2> QED BY <1>6, <2>1, <2>2
  <1>7. CASE Delivered
    <2>1. /\ step = "deliver" /\ step' # "resub" /\ Waiting' = Waiting
          /\ UNCHANGED <<brokerSubs, subscriptions, agent, slot>>
          /\ \/ esp_mqtt_abort_connection
             \/ state' = state /\ Written(Pkt("PUBACK", 0, NoTopic))
      BY <1>7 DEF Delivered, Waiting
    <2> QED BY <2>1, <1>6
  <1>8. CASE ExpireOne
    <2>1. /\ step' = step
          /\ UNCHANGED <<state, net, toBroker, brokerSubs, subscriptions, agent, slot>>
      BY <1>8 DEF ExpireOne
    <2>2. Waiting' \subseteq Waiting
      BY <1>0, <1>8, DeletedTypes DEF ExpireOne, FirstOf, Expired
    <2>3. Sending' = Sending /\ Known' = Known
      BY <2>1, SameWire
    <2> QED BY <2>1, <2>2, <2>3, SubsStep DEF Live
  <1>9. CASE Resend
    <2>1. /\ step = "expire" /\ step' # "resub"
          /\ UNCHANGED <<brokerSubs, subscriptions, agent, slot>>
      BY <1>9 DEF Resend, AfterResend
    <2>2. PICK i \in ToResend :
            \/ /\ Written(Pkt(outbox[i].type, outbox[i].id, outbox[i].topic))
               /\ outbox' = [outbox EXCEPT ![i].pending = "TRANSMITTED"]
               /\ UNCHANGED <<state, wait_for_ping_resp>>
            \/ esp_mqtt_abort_connection /\ UNCHANGED outbox
      BY <1>9 DEF Resend
    <2>3. CASE esp_mqtt_abort_connection /\ UNCHANGED outbox
      <3>1. Waiting' = Waiting
        BY <2>3 DEF Waiting
      <3> QED BY <2>1, <2>3, <3>1, <1>6
    <2>4. CASE /\ Written(Pkt(outbox[i].type, outbox[i].id, outbox[i].topic))
               /\ outbox' = [outbox EXCEPT ![i].pending = "TRANSMITTED"]
               /\ UNCHANGED <<state, wait_for_ping_resp>>
      <3>1. i \in 1..Len(outbox)
        BY <2>2 DEF ToResend, FirstOf, Dequeue
      <3>2. outbox[i] \in Items
        BY <1>0, <3>1, ElementOfSeq
      <3>3. /\ outbox[i].type \in ItemTypes /\ outbox[i].id \in Nat
            /\ outbox[i].topic \in Topics \cup {NoTopic}
        BY <3>2 DEF Items
      <3>4. /\ Sending' \subseteq Sending \cup {outbox[i].type} /\ Known \subseteq Known'
            /\ net' = net
        BY <2>1, <2>4, <3>3, WrittenPkt DEF ItemTypes
      <3>5. Waiting' \subseteq Waiting /\ outbox[i].type \in Waiting
        <4> DEFINE v == [outbox[i] EXCEPT !.pending = "TRANSMITTED"]
        <4>1. outbox' = [outbox EXCEPT ![i] = v] /\ v.type = outbox[i].type
          BY <2>4, <3>2 DEF Items
        <4> HIDE DEF v
        <4>2. Waiting' \subseteq Waiting
          BY <1>0, <3>1, <4>1, MarkedTypes
        <4> QED BY <3>1, <4>2 DEF Waiting
      <3> QED BY <2>1, <2>4, <3>4, <3>5, SubsStep DEF Live
    <2> QED BY <2>2, <2>3, <2>4
  <1>10. CASE ResendNothing
    <2>1. /\ step = "expire" /\ step' # "resub"
          /\ UNCHANGED <<state, net, outbox, toBroker, brokerSubs, subscriptions, agent, slot>>
      BY <1>10 DEF ResendNothing, AfterResend
    <2>2. Waiting' = Waiting /\ Sending' = Sending /\ Known' = Known
      BY <2>1, SameWire DEF Waiting
    <2> QED BY <2>1, <2>2, SubsStep DEF Live
  <1>11. CASE Keepalive
    <2>1. /\ step = "keepalive" /\ step' # "resub" /\ Waiting' = Waiting
          /\ UNCHANGED <<brokerSubs, subscriptions, agent, slot>>
          /\ \/ esp_mqtt_abort_connection
             \/ state' = state /\ Written(Pkt("PINGREQ", 0, NoTopic))
      BY <1>11 DEF Keepalive, Waiting
    <2> QED BY <2>1, <1>6
  <1> QED BY <1>1, <1>2, <1>4, <1>5, <1>7, <1>8, <1>9, <1>10, <1>11 DEF Iterating

\* The agent: it stores a topic after asking for it, and unsubscribes slot by slot.
LEMMA AgentSubs ==
    ASSUME IInv, SubsInv, Agent
    PROVE  SubsInv'
  <1> USE DEF linkVars, glueVars, peerVars, histVars, clientVars
  <1>0. /\ subscriptions \in [1..Slots -> Topics \cup {NoTopic}] /\ Slots \in Nat
        /\ agent \in [pc : {"idle", "store", "unsub", "wait", "done"},
                      topic : Topics \cup {NoTopic}, slot : 0..(Slots + 1)]
        /\ last_message_id + 1 \in Nat /\ OutboxOK
    BY SessionAssumption DEF IInv, ControlOK, MessagesOK
  <1>1. ASSUME NEW t \in Topics, SubscribeCall(t)
        PROVE  SubsInv'
    <2>1. /\ agent.pc = "idle" /\ ~Locked /\ state = "CONNECTED"
          /\ Enqueue("SUBSCRIBE", t, "TRANSMITTED")
          /\ UNCHANGED <<state, step, subscriptions, slot, brokerSubs>>
      BY <1>1 DEF SubscribeCall
    <2>2. step # "resub"
      BY <2>1 DEF Locked
    <2>3. Waiting' \subseteq Waiting \cup {"SUBSCRIBE"}
      <3>1. "SUBSCRIBE" \in ItemTypes
        BY DEF ItemTypes
      <3> QED BY <1>0, <2>1, <3>1, EnqueuedTypes
    <2>4. PICK i \in FirstOf(Free) :
            \/ /\ Written(Pkt("SUBSCRIBE", last_message_id + 1, t))
               /\ agent' = [pc |-> "store", topic |-> t, slot |-> i]
            \/ KeepConnection /\ UNCHANGED agent
      BY <1>1 DEF SubscribeCall
    <2>5. CASE KeepConnection /\ UNCHANGED agent
      <3>1. UNCHANGED <<net, toBroker>> /\ net # "open"
        BY <2>5 DEF KeepConnection, WriteFails
      <3>2. Sending' = Sending
        BY <2>1, <3>1, SameWire
      <3> QED BY <2>1, <2>3, <2>5, <3>1, <3>2, SubsStep DEF Live
    <2>6. CASE /\ Written(Pkt("SUBSCRIBE", last_message_id + 1, t))
               /\ agent' = [pc |-> "store", topic |-> t, slot |-> i]
      <3>1. /\ Sending' \subseteq Sending \cup {"SUBSCRIBE"} /\ Known \subseteq Known'
            /\ net = "open" => t \in Known'
            /\ net' = net
        BY <1>0, <2>1, <2>6, WrittenPkt
      <3>2. agent'.pc = "store" /\ agent'.topic = t
        BY <2>6
      <3> QED BY <2>1, <2>2, <2>3, <3>1, <3>2
              DEF SubsInv, NothingUnsubscribes, TableKnown, StoreKnown, Emptied, Subscribing, Live
    <2> QED BY <2>4, <2>5, <2>6
  <1>2. CASE SubscribeStores
    <2>1. /\ agent.pc = "store" /\ agent' = AgentIdle
          /\ subscriptions' = [subscriptions EXCEPT ![agent.slot] = agent.topic]
          /\ UNCHANGED <<state, step, outbox, net, toBroker, brokerSubs, slot>>
      BY <1>2 DEF SubscribeStores
    <2>2. Waiting' = Waiting /\ Sending' = Sending /\ Known' = Known
      BY <2>1, SameWire DEF Waiting
    <2>3. agent'.pc = "idle"
      BY <2>1 DEF AgentIdle
    <2>4. \A j \in 1..Slots : subscriptions'[j] \in {subscriptions[j], agent.topic}
      BY <1>0, <2>1
    <2>5. TableKnown'
      BY <2>1, <2>2, <2>3, <2>4 DEF SubsInv, TableKnown, StoreKnown, Subscribing, Live
    <2> QED BY <2>1, <2>2, <2>3, <2>5
            DEF SubsInv, NothingUnsubscribes, StoreKnown, Emptied, Subscribing
  <1>3. CASE DisconnectCall
    <2>1. /\ agent' = [AgentIdle EXCEPT !.pc = "unsub", !.slot = 1]
          /\ UNCHANGED subscriptions
      BY <1>3 DEF DisconnectCall
    <2>2. agent'.pc = "unsub" /\ agent'.slot = 1
      BY <2>1 DEF AgentIdle
    <2> QED BY <1>0, <2>1, <2>2
            DEF SubsInv, NothingUnsubscribes, TableKnown, StoreKnown, Emptied, Subscribing
  <1>4. CASE UnsubscribeNext
    <2>1. PICK i \in FirstOf(Used(agent.slot)) :
            /\ agent' = [agent EXCEPT !.slot = i + 1]
            /\ Unsubscribe(subscriptions[i])
      BY <1>4 DEF UnsubscribeNext
    <2>2. PICK k \in FirstOf(Matches(subscriptions[i])) :
            subscriptions' = [subscriptions EXCEPT ![k] = NoTopic]
      BY <2>1 DEF Unsubscribe
    <2>3. /\ agent.pc = "unsub" /\ agent'.pc = "unsub" /\ agent'.slot = i + 1
      BY <1>0, <1>4, <2>1 DEF UnsubscribeNext
    <2>4. \A j \in 1..Slots : j < agent.slot => subscriptions[j] = NoTopic
      BY <2>3 DEF SubsInv, Emptied
    <2>5. /\ i \in agent.slot..Slots /\ subscriptions[i] # NoTopic
          /\ \A j \in agent.slot..Slots : subscriptions[j] # NoTopic => i <= j
      BY <2>1 DEF FirstOf, Used
    <2>6. i \in 1..Slots
      BY <1>0, <2>3, <2>5 DEF SubsInv, Emptied
    <2>7. \A j \in 1..Slots : j < i => subscriptions[j] = NoTopic
      BY <1>0, <2>4, <2>5, <2>6
    \* The first match is the entry itself: those before it are empty.
    <2>8. k = i
      <3>1. i \in Matches(subscriptions[i])
        BY <1>0, <2>5, <2>6, SessionAssumption DEF Matches
      <3>2. k \in 1..Slots /\ k <= i /\ <<subscriptions[k], subscriptions[i]>> \in Begins
        BY <2>2, <3>1 DEF FirstOf, Matches
      <3>3. subscriptions[k] # NoTopic
        BY <3>2, SessionAssumption
      <3> QED BY <2>6, <2>7, <3>2, <3>3
    <2>9. Emptied'
      BY <1>0, <2>2, <2>3, <2>6, <2>7, <2>8 DEF Emptied
    <2> QED BY <2>3, <2>9 DEF SubsInv, NothingUnsubscribes, TableKnown, StoreKnown, Subscribing
  <1>5. CASE esp_mqtt_client_stop
    <2>1. /\ agent.pc = "unsub" /\ Used(agent.slot) = {} /\ UNCHANGED subscriptions
          /\ agent' = AgentDone \/ agent' = [agent EXCEPT !.pc = "wait"]
      BY <1>5 DEF esp_mqtt_client_stop
    <2>2. agent'.pc \in {"wait", "done"}
      BY <1>0, <2>1 DEF AgentDone, AgentIdle
    <2>3. \A j \in 1..Slots : subscriptions[j] = NoTopic
      BY <1>0, <2>1 DEF SubsInv, Emptied, Used
    <2> QED BY <2>1, <2>2, <2>3
            DEF SubsInv, NothingUnsubscribes, TableKnown, StoreKnown, Emptied, Subscribing
  <1> QED BY <1>1, <1>2, <1>3, <1>4, <1>5 DEF Agent

\* Publishing, the broker, the network and time.
LEMMA OthersSubs ==
    ASSUME IInv, SubsInv, esp_mqtt_glue_publish \/ Environment
    PROVE  SubsInv'
  <1> USE DEF linkVars, glueVars, peerVars, histVars, clientVars
  <1>0. /\ last_message_id + 1 \in Nat /\ OutboxOK /\ LinkOK /\ outbox \in Seq(Items)
    BY DEF IInv, OutboxOK
  <1>1. CASE esp_mqtt_glue_publish
    <2>1. /\ \E p \in {"TRANSMITTED", "QUEUED"} : Enqueue("PUBLISH", NoTopic, p)
          /\ UNCHANGED <<step, slot, subscriptions, agent, brokerSubs>>
          /\ \/ Written(Pkt("PUBLISH", last_message_id + 1, NoTopic)) /\ UNCHANGED state
             \/ esp_mqtt_abort_connection
      BY <1>1 DEF esp_mqtt_glue_publish
    <2>2. Waiting' \subseteq Waiting \cup {"PUBLISH"}
      <3>1. "PUBLISH" \in ItemTypes
        BY DEF ItemTypes
      <3> QED BY <1>0, <2>1, <3>1, EnqueuedTypes
    <2>3. CASE esp_mqtt_abort_connection
      BY <2>1, <2>2, <2>3, AbortedWire, SubsStep DEF Live
    <2>4. CASE Written(Pkt("PUBLISH", last_message_id + 1, NoTopic)) /\ UNCHANGED state
      <3>1. Sending' \subseteq Sending \cup {"PUBLISH"} /\ Known \subseteq Known' /\ net' = net
        BY <1>0, <2>1, <2>4, WrittenPkt
      <3> QED BY <2>1, <2>2, <2>4, <3>1, SubsStep DEF Live
    <2> QED BY <2>1, <2>3, <2>4
  <1>2. CASE BrokerTakes
    <2>1. UNCHANGED <<state, step, outbox, subscriptions, agent, slot>> /\ net = "open"
      BY <1>2 DEF BrokerTakes
    <2>2. /\ Sending' \subseteq Sending /\ Waiting' = Waiting
          /\ "UNSUBSCRIBE" \notin Sending => Known \subseteq Known'
      BY <1>0, <1>2, <2>1, TakenWire DEF Waiting
    <2>3. Subscribing => Known \subseteq Known'
      BY <2>2 DEF SubsInv, NothingUnsubscribes
    <2> QED BY <2>1, <2>2, <2>3, SubsStep DEF Live
  <1>3. ASSUME UNCHANGED <<state, step, net, toBroker, brokerSubs, subscriptions, agent, slot>>,
               Waiting' \subseteq Waiting
        PROVE  SubsInv'
    <2>1. Sending' = Sending /\ Known' = Known
      BY <1>3, SameWire
    <2> QED BY <1>3, <2>1, SubsStep DEF Live
  <1>4. ASSUME NEW t \in Topics, BrokerSends(t)
        PROVE  SubsInv'
    BY <1>3, <1>4 DEF BrokerSends, Waiting
  <1>5. CASE NetDies
    <2>1. /\ net' = "dead" /\ toBroker' = << >> /\ Waiting' = Waiting
          /\ UNCHANGED <<state, step, subscriptions, agent, slot>>
      BY <1>5 DEF NetDies, Waiting
    <2>2. Sending' = {}
      BY <2>1, EmptyWire
    <2> QED BY <2>1, <2>2, SubsStep DEF Live
  <1>6. ASSUME NEW i \in 1..Len(outbox), Age(i)
        PROVE  SubsInv'
    <2> DEFINE v == [outbox[i] EXCEPT !.age = @ + 1]
    <2>1. outbox[i] \in Items
      BY <1>0, ElementOfSeq
    <2>2. outbox' = [outbox EXCEPT ![i] = v] /\ v.type = outbox[i].type
      BY <1>6, <2>1 DEF Age, Items
    <2> HIDE DEF v
    <2>3. Waiting' \subseteq Waiting
      BY <1>0, <2>2, MarkedTypes
    <2> QED BY <1>3, <1>6, <2>3 DEF Age
  <1>7. CASE KeepaliveElapses
    BY <1>3, <1>7 DEF KeepaliveElapses, Waiting
  <1> QED BY <1>1, <1>2, <1>4, <1>5, <1>6, <1>7 DEF Environment

\* For every table and every number of connections: once a connection is quiet, the
\* broker knows every topic of the glue's table, whatever connections were lost while
\* the CONNECTED handler or the agent asked for them, and esp_mqtt_glue_disconnect
\* leaves the table empty although esp_mqtt_glue_unsubscribe compares prefixes.
THEOREM SubscriptionsKept == Spec => []SubscriptionsAgree
  <1>1. Init => SubsInv
    <2> SUFFICES ASSUME Init PROVE SubsInv
      OBVIOUS
    <2>1. Len(outbox) = 0 /\ Len(toBroker) = 0 /\ state = "INIT" /\ agent.pc = "idle"
      BY DEF Init, AgentIdle
    <2> QED BY <2>1 DEF SubsInv, NothingUnsubscribes, TableKnown, StoreKnown, Emptied, Live,
                        Waiting, Sending
  <1>2. IInv /\ SubsInv /\ [Next]_vars => SubsInv'
    <2> SUFFICES ASSUME IInv, SubsInv, [Next]_vars
                 PROVE  SubsInv'
      OBVIOUS
    <2>1. CASE UNCHANGED vars
      <3>1. UNCHANGED <<outbox, toBroker, brokerSubs, state, net, step, subscriptions, agent, slot>>
        BY <2>1 DEF vars, clientVars, linkVars, glueVars, peerVars
      <3>2. Waiting' = Waiting /\ Sending' = Sending /\ Known' = Known
        BY <3>1, SameWire DEF Waiting
      <3> QED BY <3>1, <3>2, SubsStep DEF Live
    <2> QED BY <2>1, ConnectingSubs, IteratingSubs, AgentSubs, OthersSubs DEF Next, Task
  <1>3. SubsInv => SubscriptionsAgree
    <2> SUFFICES ASSUME SubsInv PROVE SubscriptionsAgree
      OBVIOUS
    <2>1. DisconnectEmptiesTable
      BY DEF SubsInv, Emptied, DisconnectEmptiesTable
    <2>2. SubscribedAtBroker
      <3> SUFFICES ASSUME Quiet, NEW i \in 1..Slots, subscriptions[i] # NoTopic
                   PROVE  subscriptions[i] \in brokerSubs
        BY DEF SubscribedAtBroker
      <3>1. agent.pc = "idle"
        BY DEF Quiet, SubsInv, Emptied
      <3>2. subscriptions[i] \in Known
        BY <3>1 DEF Quiet, SubsInv, TableKnown, Subscribing, Live
      <3>3. Len(toBroker) = 0
        BY DEF Quiet
      <3> QED BY <3>2, <3>3 DEF Known, Asked
    <2> QED BY <2>1, <2>2 DEF SubscriptionsAgree
  <1> QED BY <1>1, <1>2, <1>3, SessionInvariant, PTL DEF Spec

-----------------------------------------------------------------------------
(***************************************************************************)
(* The keepalive.  Types of the packets on their way to the client, beside *)
(* those on their way to the broker, are all that an unanswered ping is    *)
(* about.                                                                  *)
(***************************************************************************)

Arriving == {toClient[i].type : i \in 1..Len(toClient)}

PingKept ==
    state = "CONNECTED" /\ wait_for_ping_resp =>
        net = "dead" \/ "PINGREQ" \in Sending \/ "PINGRESP" \in Arriving

\* What the client writes overtakes no ping.
LEMMA WrittenKeepsPing ==
    ASSUME LinkOK, NEW m \in BrokerPkts, Written(m)
    PROVE  /\ net' = net /\ net # "closed" /\ Arriving' = Arriving /\ Sending \subseteq Sending'
           /\ net = "open" => m.type \in Sending'
  <1>1. /\ net' = net /\ net # "closed" /\ toClient' = toClient
        /\ toBroker' = IF net = "open" THEN Append(toBroker, m) ELSE toBroker
        /\ toBroker \in Seq(BrokerPkts)
    BY DEF Written, LinkOK
  <1>2. Arriving' = Arriving
    BY <1>1 DEF Arriving
  <1>3. CASE net = "open"
    <2>1. /\ Len(toBroker') = Len(toBroker) + 1 /\ Len(toBroker) \in Nat
          /\ \A i \in 1..Len(toBroker) : toBroker'[i] = toBroker[i]
          /\ toBroker'[Len(toBroker) + 1] = m
      BY <1>1, <1>3, AppendProperties
    <2>2. \A i \in 1..Len(toBroker) : i \in 1..Len(toBroker')
      BY <2>1
    <2>3. Len(toBroker) + 1 \in 1..Len(toBroker')
      BY <2>1
    <2> QED BY <1>1, <1>2, <2>1, <2>2, <2>3 DEF Sending
  <1>4. CASE net # "open"
    BY <1>1, <1>2, <1>4 DEF Sending
  <1> QED BY <1>3, <1>4

\* Reading a packet takes only that one.
LEMMA TakenKeepsPing ==
    ASSUME LinkOK, toClient # << >>, toClient' = Tail(toClient)
    PROVE  Arriving \subseteq Arriving' \cup {Head(toClient).type}
  <1>1. toClient \in Seq(ClientPkts)
    BY DEF LinkOK
  <1>2. /\ Head(toClient) = toClient[1] /\ Len(toClient) \in Nat
        /\ Len(toClient') = Len(toClient) - 1
        /\ \A i \in 1..(Len(toClient) - 1) : toClient'[i] = toClient[i + 1]
    BY <1>1, HeadTailProperties
  <1> SUFFICES ASSUME NEW j \in 1..Len(toClient), j # 1
               PROVE  toClient[j].type \in Arriving'
    BY <1>2 DEF Arriving
  <1>3. j - 1 \in 1..Len(toClient') /\ toClient'[j - 1] = toClient[j]
    BY <1>2
  <1> QED BY <1>3 DEF Arriving

\* The broker answers the ping that it takes.
LEMMA BrokerKeepsPing ==
    ASSUME LinkOK, BrokerTakes, "PINGREQ" \in Sending \/ "PINGRESP" \in Arriving
    PROVE  "PINGREQ" \in Sending' \/ "PINGRESP" \in Arriving'
  <1> DEFINE m == Head(toBroker)
             a == Answer(m)
  <1>1. /\ toBroker # << >> /\ toBroker' = Tail(toBroker) /\ toClient' = toClient \o a
        /\ toBroker \in Seq(BrokerPkts) /\ toClient \in Seq(ClientPkts)
    BY DEF BrokerTakes, LinkOK
  <1>2. /\ m = toBroker[1] /\ m \in BrokerPkts /\ Len(toBroker) \in Nat
        /\ Len(toBroker') = Len(toBroker) - 1
        /\ \A i \in 1..(Len(toBroker) - 1) : toBroker'[i] = toBroker[i + 1]
    BY <1>1, HeadTailProperties
  <1>3. a \in Seq(ClientPkts) /\ Len(a) \in 0..1
    BY <1>2, AnswerFacts
  <1>4. /\ Len(toClient') = Len(toClient) + Len(a)
        /\ \A i \in 1..(Len(toClient) + Len(a)) :
              toClient'[i] = IF i <= Len(toClient) THEN toClient[i] ELSE a[i - Len(toClient)]
    <2> HIDE DEF a, m
    <2> QED BY <1>1, <1>3, ConcatProperties
  <1>5. CASE "PINGRESP" \in Arriving
    <2>1. \A i \in 1..Len(toClient) : i \in 1..Len(toClient') /\ toClient'[i] = toClient[i]
      BY <1>1, <1>3, <1>4
    <2> QED BY <1>5, <2>1 DEF Arriving
  <1>6. CASE "PINGREQ" \in Sending
    <2>1. PICK j \in 1..Len(toBroker) : toBroker[j].type = "PINGREQ"
      BY <1>6 DEF Sending
    <2>2. CASE j # 1
      <3>1. j - 1 \in 1..Len(toBroker') /\ toBroker'[j - 1] = toBroker[j]
        BY <1>2, <2>2
      <3> QED BY <2>1, <3>1 DEF Sending
    <2>3. CASE j = 1
      <3>1. m.type = "PINGREQ"
        BY <1>2, <2>1, <2>3
      <3>2. a = << Pkt("PINGRESP", 0, NoTopic) >>
        BY <3>1 DEF Answer
      <3>3. Len(a) = 1 /\ a[1].type = "PINGRESP"
        BY <3>2 DEF Pkt
      <3>4. /\ Len(toClient) \in Nat /\ Len(toClient) + 1 \in 1..Len(toClient')
            /\ toClient'[Len(toClient) + 1] = a[1]
        <4> HIDE DEF a
        <4>1. Len(toClient) \in Nat
          BY <1>1
        <4> QED BY <1>4, <3>3, <4>1
      <3> QED BY <3>3, <3>4 DEF Arriving
    <2> QED BY <2>2, <2>3
  <1> QED BY <1>5, <1>6

\* A step on a connection that stays: nothing but an answer ends the waiting.
LEMMA PingStep ==
    ASSUME PingKept, state' = "CONNECTED" => state = "CONNECTED",
           wait_for_ping_resp' = wait_for_ping_resp,
           net = "dead" => net' = "dead",
           Sending \subseteq Sending',
           "PINGRESP" \in Arriving => "PINGRESP" \in Arriving'
    PROVE  PingKept'
  BY DEF PingKept

\* Every step keeps it.
LEMMA PingInductive ==
    ASSUME IInv, PingKept, Next
    PROVE  PingKept'
  <1> USE DEF linkVars, glueVars, peerVars, histVars, clientVars
  <1>0. LinkOK /\ OutboxOK /\ last_message_id + 1 \in Nat /\ 0 \in Nat
    BY DEF IInv, MessagesOK
  <1>1. ASSUME state' # "CONNECTED" \/ wait_for_ping_resp' = FALSE
        PROVE  PingKept'
    BY <1>1 DEF PingKept
  <1>2. ASSUME esp_mqtt_abort_connection
        PROVE  PingKept'
    BY <1>1, <1>2 DEF esp_mqtt_abort_connection
  <1>3. ASSUME state' = "CONNECTED" => state = "CONNECTED",
               UNCHANGED <<net, toBroker, toClient, wait_for_ping_resp>>
        PROVE  PingKept'
    <2>1. Sending' = Sending /\ Arriving' = Arriving
      BY <1>3 DEF Sending, Arriving
    <2> QED BY <1>3, <2>1, PingStep
  <1>4. ASSUME NEW type, NEW id \in Nat, NEW topic \in Topics \cup {NoTopic},
               type \in {"PUBLISH", "SUBSCRIBE", "UNSUBSCRIBE", "PUBACK", "PINGREQ", "DISCONNECT"},
               Written(Pkt(type, id, topic))
        PROVE  /\ net' = net /\ net # "closed" /\ Arriving' = Arriving /\ Sending \subseteq Sending'
               /\ net = "open" => type \in Sending'
    <2> DEFINE m == Pkt(type, id, topic)
    <2>1. m \in BrokerPkts /\ m.type = type /\ Written(m)
      BY <1>4, PktTyped
    <2> HIDE DEF m
    <2> QED BY <1>0, <2>1, WrittenKeepsPing
  <1>5. ASSUME NEW type, NEW id \in Nat, NEW topic \in Topics \cup {NoTopic},
               type \in {"PUBLISH", "SUBSCRIBE", "UNSUBSCRIBE", "PUBACK", "PINGREQ", "DISCONNECT"},
               Written(Pkt(type, id, topic)) \/ KeepConnection,
               state' = "CONNECTED" => state = "CONNECTED", UNCHANGED wait_for_ping_resp
        PROVE  PingKept'
    <2>1. CASE KeepConnection
      BY <1>3, <1>5, <2>1 DEF KeepConnection
    <2>2. CASE Written(Pkt(type, id, topic))
      BY <1>4, <1>5, <2>2, PingStep
    <2> QED BY <1>5, <2>1, <2>2
  <1>6. CASE esp_mqtt_client_start \/ Connected \/ NotConnected \/ Resubscribed \/ Leaving
    <2>1. CASE esp_mqtt_client_start \/ Connected
      BY <1>1, <2>1 DEF esp_mqtt_client_start, Connected
    <2>2. CASE NotConnected
      BY <1>2, <2>2 DEF NotConnected
    <2>3. CASE Resubscribed
      BY <1>3, <2>3 DEF Resubscribed
    <2>4. CASE Leaving
      BY <1>1, <2>4 DEF Leaving, LeaveLoop, TaskEnds
    <2> QED BY <1>6, <2>1, <2>2, <2>3, <2>4
  <1>7. CASE Resubscribe
    <2>1. PICK i \in FirstOf(Used(slot)) :
            \/ Written(Pkt("SUBSCRIBE", last_message_id + 1, subscriptions[i]))
            \/ KeepConnection
      BY <1>7 DEF Resubscribe
    <2>2. i \in 1..Slots
      BY <2>1, SessionAssumption DEF FirstOf, Used, IInv, ControlOK
    <2>3. subscriptions[i] \in Topics \cup {NoTopic}
      BY <2>2 DEF IInv, ControlOK
    <2>4. UNCHANGED <<state, wait_for_ping_resp>>
      BY <1>7 DEF Resubscribe
    <2> QED BY <1>0, <1>5, <2>1, <2>3, <2>4
  <1>8. ASSUME NEW type, Taken(type), type = "PINGRESP" => wait_for_ping_resp' = FALSE,
               type # "PINGRESP" => UNCHANGED wait_for_ping_resp
        PROVE  PingKept'
    <2>1. /\ toClient # << >> /\ Head(toClient).type = type /\ toClient' = Tail(toClient)
          /\ UNCHANGED <<state, net, toBroker>>
      BY <1>8 DEF Taken
    <2>2. Arriving \subseteq Arriving' \cup {type}
      BY <1>0, <2>1, TakenKeepsPing
    <2>3. Sending' = Sending
      BY <2>1 DEF Sending
    <2> QED BY <1>1, <1>8, <2>1, <2>2, <2>3, PingStep
  <1>9. CASE Iterating
    <2>1. CASE ReadFails
      BY <1>2, <2>1 DEF ReadFails
    <2>2. CASE ReceiveNothing \/ ExpireOne \/ ResendNothing
      BY <1>3, <2>2 DEF ReceiveNothing, ExpireOne, ResendNothing
    <2>3. CASE \/ ReceiveAck("SUBACK", "SUBSCRIBE") \/ ReceiveAck("UNSUBACK", "UNSUBSCRIBE")
               \/ ReceiveAck("PUBACK", "PUBLISH")
      <3>1. PICK ack \in {"SUBACK", "UNSUBACK", "PUBACK"} :
              Taken(ack) /\ UNCHANGED wait_for_ping_resp
        BY <2>3 DEF ReceiveAck
      <3> QED BY <1>8, <3>1
    <2>4. CASE ReceivePingResp
      BY <1>8, <2>4 DEF ReceivePingResp
    <2>5. CASE ReceivePublish
      BY <1>8, <2>5 DEF ReceivePublish
    <2>6. CASE Delivered
      <3>1. \/ Written(Pkt("PUBACK", 0, NoTopic)) /\ UNCHANGED <<state, wait_for_ping_resp>>
            \/ esp_mqtt_abort_connection
        BY <2>6 DEF Delivered
      <3> QED BY <1>0, <1>2, <1>5, <3>1
    <2>7. CASE Resend
      <3>1. PICK i \in ToResend :
              \/ /\ Written(Pkt(outbox[i].type, outbox[i].id, outbox[i].topic))
                 /\ UNCHANGED <<state, wait_for_ping_resp>>
              \/ esp_mqtt_abort_connection
        BY <2>7 DEF Resend
      <3>2. i \in 1..Len(outbox) /\ outbox \in Seq(Items)
        BY <1>0, <3>1 DEF ToResend, FirstOf, Dequeue, OutboxOK
      <3>3. outbox[i] \in Items
        BY <3>2, ElementOfSeq
      <3>4. /\ outbox[i].type \in {"PUBLISH", "SUBSCRIBE", "UNSUBSCRIBE"} /\ outbox[i].id \in Nat
            /\ outbox[i].topic \in Topics \cup {NoTopic}
        BY <3>3 DEF Items, ItemTypes
      <3> QED BY <1>2, <1>5, <3>1, <3>4
    <2>8. CASE Keepalive
      <3>1. \/ esp_mqtt_abort_connection
            \/ /\ Written(Pkt("PINGREQ", 0, NoTopic))
               /\ UNCHANGED state
        BY <2>8 DEF Keepalive
      <3>2. CASE Written(Pkt("PINGREQ", 0, NoTopic)) /\ UNCHANGED state
        <4>1. net' = net /\ net # "closed" /\ (net = "open" => "PINGREQ" \in Sending')
          BY <1>0, <1>4, <3>2
        <4>2. net \in {"open", "dead", "closed"}
          BY <1>0 DEF LinkOK
        <4> QED BY <4>1, <4>2 DEF PingKept
      <3> QED BY <1>2, <3>1, <3>2
    <2> QED BY <1>9, <2>1, <2>2, <2>3, <2>4, <2>5, <2>6, <2>7, <2>8 DEF Iterating
  <1>10. CASE esp_mqtt_glue_publish
    <2>1. \/ /\ Written(Pkt("PUBLISH", last_message_id + 1, NoTopic))
             /\ UNCHANGED <<state, wait_for_ping_resp>>
          \/ esp_mqtt_abort_connection
      BY <1>10 DEF esp_mqtt_glue_publish
    <2> QED BY <1>0, <1>2, <1>5, <2>1
  <1>11. CASE Agent
    <2>1. ASSUME NEW t \in Topics, SubscribeCall(t)
          PROVE  PingKept'
      <3>1. /\ Written(Pkt("SUBSCRIBE", last_message_id + 1, t)) \/ KeepConnection
            /\ UNCHANGED <<state, wait_for_ping_resp>>
        BY <2>1 DEF SubscribeCall
      <3> QED BY <1>0, <1>5, <3>1
    <2>2. CASE SubscribeStores \/ DisconnectCall
      BY <1>3, <2>2 DEF SubscribeStores, DisconnectCall
    <2>3. CASE UnsubscribeNext
      <3>1. PICK i \in FirstOf(Used(agent.slot)) : Unsubscribe(subscriptions[i])
        BY <2>3 DEF UnsubscribeNext
      <3>2. UNCHANGED <<state, wait_for_ping_resp>>
        BY <2>3 DEF UnsubscribeNext
      <3>3. \/ /\ Written(Pkt("UNSUBSCRIBE", last_message_id + 1, subscriptions[i]))
               /\ state = "CONNECTED"
            \/ UNCHANGED <<net, toBroker, toClient>>
        BY <3>1 DEF Unsubscribe, KeepConnection
      <3>4. subscriptions[i] \in Topics \cup {NoTopic}
        <4>1. PICK k \in 1..Slots : <<subscriptions[k], subscriptions[i]>> \in Begins
          BY <3>1 DEF Unsubscribe, FirstOf, Matches
        <4> QED BY <4>1, SessionAssumption
      <3> QED BY <1>0, <1>3, <1>5, <3>2, <3>3, <3>4
    <2>4. CASE esp_mqtt_client_stop
      <3>1. \/ state' = "DISCONNECTED"
            \/ UNCHANGED <<state, net, toBroker, toClient, wait_for_ping_resp>>
        BY <2>4 DEF esp_mqtt_client_stop
      <3> QED BY <1>1, <1>3, <3>1
    <2> QED BY <1>11, <2>1, <2>2, <2>3, <2>4 DEF Agent
  <1>12. CASE Environment
    <2>1. CASE BrokerTakes
      <3>1. net = "open" /\ UNCHANGED <<state, wait_for_ping_resp>>
        BY <2>1 DEF BrokerTakes
      <3> QED BY <1>0, <2>1, <3>1, BrokerKeepsPing DEF PingKept
    <2>2. ASSUME NEW t \in Topics, BrokerSends(t)
          PROVE  PingKept'
      <3> DEFINE p == Pkt("PUBLISH", 0, t)
      <3>1. /\ toClient' = Append(toClient, p) /\ toClient \in Seq(ClientPkts)
            /\ UNCHANGED <<state, net, toBroker, wait_for_ping_resp>>
        BY <1>0, <2>2 DEF BrokerSends, LinkOK
      <3>2. p \in ClientPkts
        BY DEF Pkt, ClientPkts, ToClient
      <3> HIDE DEF p
      <3>3. /\ Len(toClient') = Len(toClient) + 1 /\ Len(toClient) \in Nat
            /\ \A i \in 1..Len(toClient) : toClient'[i] = toClient[i]
        BY <3>1, <3>2, AppendProperties
      <3>4. \A i \in 1..Len(toClient) : i \in 1..Len(toClient')
        BY <3>3
      <3>5. Arriving \subseteq Arriving' /\ Sending' = Sending
        BY <3>1, <3>3, <3>4 DEF Arriving, Sending
      <3> QED BY <3>1, <3>5, PingStep
    <2>3. CASE NetDies
      BY <2>3 DEF NetDies, PingKept
    <2>4. ASSUME NEW i \in 1..Len(outbox), Age(i)
          PROVE  PingKept'
      BY <1>3, <2>4 DEF Age
    <2>5. CASE KeepaliveElapses
      BY <1>3, <2>5 DEF KeepaliveElapses
    <2> QED BY <1>12, <2>1, <2>2, <2>3, <2>4, <2>5 DEF Environment
  <1> QED BY <1>6, <1>7, <1>9, <1>10, <1>11, <1>12 DEF Next, Task, Connecting

\* Whatever the client resends, receives or publishes, and however connections are
\* lost, wait_for_ping_resp is never left from an earlier connection: the ping or its
\* answer is on its way, or the peer is gone.  The keepalive check therefore ends no
\* healthy connection.
THEOREM PingsAreOutstanding == Spec => []PingIsOutstanding
  <1>1. Init => PingKept
    BY DEF Init, PingKept
  <1>2. IInv /\ PingKept /\ [Next]_vars => PingKept'
    <2>1. PingKept /\ UNCHANGED vars => PingKept'
      BY DEF vars, clientVars, linkVars, PingKept, Sending, Arriving
    <2> QED BY <2>1, PingInductive
  <1>3. PingKept => PingIsOutstanding
    BY DEF PingKept, PingIsOutstanding, Sending, Arriving
  <1> QED BY <1>1, <1>2, <1>3, SessionInvariant, PTL DEF Spec
=============================================================================
