-------------------------- MODULE OnboardingProofs --------------------------
(***************************************************************************)
(* Proofs about Onboarding: wherever claiming breaks off and whenever the  *)
(* power fails, the stored key, node id and certificate belong together,   *)
(* and the agent connects with them.                                       *)
(* With the check of user ids, a user in flash is the node's only owner in *)
(* the cloud, unless mapping data was freed under its callback, and        *)
(* owners from before a factory reset are out.                             *)
(***************************************************************************)
EXTENDS Onboarding, TLAPS

\* The key, the node id and what is made of them: the request, the certificate that
\* the phone brings and the one in flash.
KeyOK ==
    /\ key \in Nat /\ keys \in Nat /\ nvs_node_id \in NodeIds \cup {None}
    /\ key = 0 => cert = None /\ claim.csr = None /\ phone.cert = None
    /\ cert # None => cert = Identity(key, nvs_node_id)
    /\ claim.csr # None => claim.csr = Identity(key, nvs_node_id) /\ nvs_node_id # None
    /\ phone.cert # None => phone.cert = Identity(key, nvs_node_id) /\ nvs_node_id # None
    /\ cert # None => nvs_node_id # None

\* The phone claims a node only while it has no certificate; a node that is starting
\* has no session.
SessionOK ==
    /\ phone.pc \in {"start", "init", "verify"} => cert = None /\ agent # "init"
    /\ agent = "init" => ~ble /\ phone.pc = "away"

\* What the agent relies on in RAM.
AgentOK ==
    /\ agent # "init" => key # 0
    /\ agent # "init" /\ nvs_node_id # None => node_id = nvs_node_id
    /\ claim_bit => cert # None
    /\ agent = "init" => ~claim_bit
    /\ agent = "claim" => need_claim
    /\ agent = "wifi" => IF need_claim THEN cert # None
                         ELSE conn.cert = Identity(conn.key, conn.client)
    /\ ConnectsAsClaimed

IInv == KeyOK /\ SessionOK /\ AgentOK

\* Every step keeps what flash, phone and agent hold of one key and node id.
LEMMA IdentityInductive == IInv /\ [Next]_vars => IInv'
<1> SUFFICES ASSUME IInv, [Next]_vars PROVE IInv'
    OBVIOUS
<1> USE OnboardingAssumption
<1>1. CASE GenerateKey
      BY <1>1
         DEF GenerateKey, IInv, KeyOK, SessionOK, AgentOK, ConnectsAsClaimed, Identity,
             nvs, claiming, mapping, session, cloud
<1>2. CASE Boot
      BY <1>2
         DEF Boot, IInv, KeyOK, SessionOK, AgentOK, ConnectsAsClaimed, Identity,
             MqttConnParams, NoClaim, factory, nvs, cloud, bounds
<1>3. CASE PhoneConnects
      BY <1>3
         DEF PhoneConnects, Phone, IInv, KeyOK, SessionOK, AgentOK, ConnectsAsClaimed,
             Identity, factory, nvs, claiming, mapping, cloud
<1>4. CASE PhoneLeaves
      BY <1>4
         DEF PhoneLeaves, Phone, IInv, KeyOK, SessionOK, AgentOK, ConnectsAsClaimed,
             Identity, factory, nvs, claiming, mapping, cloud, bounds
<1>5. CASE ClaimStart
      BY <1>5
         DEF ClaimStart, Phone, IInv, KeyOK, SessionOK, AgentOK, ConnectsAsClaimed,
             Identity, factory, nvs, mapping, cloud, bounds
<1>6. ASSUME NEW n \in NodeIds, ClaimInit(n) PROVE IInv'
      BY <1>6
         DEF ClaimInit, SendFragment, Phone, IInv, KeyOK, SessionOK, AgentOK,
             ConnectsAsClaimed, Identity, nvs, mapping, cloud, bounds
<1>7. CASE ClaimInitMore
      BY <1>7
         DEF ClaimInitMore, SendFragment, Phone, IInv, KeyOK, SessionOK, AgentOK,
             ConnectsAsClaimed, Identity, factory, nvs, mapping, cloud, bounds
<1>8. CASE ClaimVerify
      BY <1>8
         DEF ClaimVerify, Phone, IInv, KeyOK, SessionOK, AgentOK, ConnectsAsClaimed,
             Identity, nvs, mapping, cloud, bounds
<1>9. CASE ClaimAbort
      BY <1>9
         DEF ClaimAbort, Phone, IInv, KeyOK, SessionOK, AgentOK, ConnectsAsClaimed,
             Identity, factory, nvs, mapping, cloud, bounds
<1>10. ASSUME NEW u \in Users, PhoneMaps(u) PROVE IInv'
      BY <1>10
         DEF PhoneMaps, StartMapping, QueueMapping, Phone, IInv, KeyOK, SessionOK, AgentOK,
             ConnectsAsClaimed, Identity, factory, claiming
<1>11. CASE PhoneSkips
      BY <1>11
         DEF PhoneSkips, Phone, IInv, KeyOK, SessionOK, AgentOK, ConnectsAsClaimed,
             Identity, factory, nvs, claiming, mapping, cloud, bounds
<1>12. CASE MappingCb
      BY <1>12
         DEF MappingCb, IInv, KeyOK, SessionOK, AgentOK, ConnectsAsClaimed, Identity,
             factory, nvs, claiming, session, bounds
<1>13. CASE CloudTakes \/ PubAckOther \/ ConnectionDrops
      BY <1>13
         DEF CloudTakes, PubAckOther, ConnectionDrops, IInv, KeyOK, SessionOK, AgentOK, ConnectsAsClaimed,
             Identity, factory, nvs, claiming, mapping, session, bounds
<1>14. CASE Reboot
      BY <1>14
         DEF Reboot, Phone, NoClaim, IInv, KeyOK, SessionOK, AgentOK, ConnectsAsClaimed,
             Identity, factory
<1>15. CASE PubAckMatches
      BY <1>15
         DEF PubAckMatches, IInv, KeyOK, SessionOK, AgentOK, ConnectsAsClaimed, Identity,
             factory, claiming, session, bounds
<1>16. CASE PhoneSendsCreds \/ CredsFail
      BY <1>16
         DEF PhoneSendsCreds, CredsFail, Phone, IInv, KeyOK, SessionOK, AgentOK,
             ConnectsAsClaimed, Identity, factory, claiming, mapping, cloud, bounds
<1>17. CASE ProvEnds \/ ProvTimesOut \/ WifiConnects
      BY <1>17
         DEF ProvEnds, ProvTimesOut, WifiConnects, Phone, IInv, KeyOK, SessionOK, AgentOK,
             ConnectsAsClaimed, Identity, factory, nvs, claiming, mapping, cloud, bounds
<1>18. CASE AgentClaimed
      BY <1>18
         DEF AgentClaimed, NoClaim, IInv, KeyOK, SessionOK, AgentOK, ConnectsAsClaimed,
             Identity, factory, nvs, mapping, session, cloud, bounds
<1>19. CASE AgentOnWifi
  <2>1. conn'.cert = Identity(conn'.key, conn'.client)
    <3>1. CASE need_claim
          BY <1>19, <3>1 DEF AgentOnWifi, MqttConnParams, Identity, IInv, KeyOK, AgentOK
    <3>2. CASE ~need_claim
          BY <1>19, <3>2 DEF AgentOnWifi, Identity, IInv, AgentOK
    <3> QED BY <3>1, <3>2
  <2>2. KeyOK' /\ SessionOK'
        BY <1>19 DEF AgentOnWifi, IInv, KeyOK, SessionOK, Identity, factory, session, bounds
  <2>3. AgentOK'
        BY <1>19, <2>1 DEF AgentOnWifi, IInv, AgentOK, ConnectsAsClaimed, Identity, factory
  <2> QED BY <2>2, <2>3 DEF IInv
<1>20. CASE AgentConnects
      BY <1>20
         DEF AgentConnects, StartMapping, IInv, KeyOK, SessionOK, AgentOK,
             ConnectsAsClaimed, Identity, factory, claiming, session, cloud
<1>21. CASE FactoryReset \/ WifiReset
      BY <1>21
         DEF FactoryReset, WifiReset, IInv, KeyOK, SessionOK, AgentOK, ConnectsAsClaimed,
             Identity, factory, claiming, mapping, session, cloud
<1>22. CASE UNCHANGED vars
      BY <1>22
         DEF vars, IInv, KeyOK, SessionOK, AgentOK, ConnectsAsClaimed, Identity, factory,
             claiming, session, bounds
<1> QED
    BY <1>1, <1>2, <1>3, <1>4, <1>5, <1>6, <1>7, <1>8, <1>9, <1>10, <1>11, <1>12, <1>13,
       <1>14, <1>15, <1>16, <1>17, <1>18, <1>19, <1>20, <1>21, <1>22
    DEF Next, Node, Claiming, PhoneActs, PubAckPanics, RebootTimerFires, PowerFails

\* A node without a key has nothing that could disagree with it.
LEMMA IdentityInit == Init => IInv
BY DEF Init, IInv, KeyOK, SessionOK, AgentOK, ConnectsAsClaimed, NoClaim, Phone

\* A certificate in flash is of the key and the node id in flash, wherever claiming
\* (esp_rmaker_claim.c) was broken off and whenever the power failed.
THEOREM StoredIdentity == Spec => []CredentialsMatch
<1>1. IInv => CredentialsMatch
      BY DEF IInv, KeyOK, CredentialsMatch
<1> QED BY IdentityInit, IdentityInductive, <1>1, PTL DEF Spec

\* esp_rmaker_task connects as the node that its certificate names, also in the boot
\* in which esp_rmaker_change_node_id changed the name.
THEOREM AgentIdentity == Spec => []ConnectsAsClaimed
<1>1. IInv => ConnectsAsClaimed
      BY DEF IInv, AgentOK
<1> QED BY IdentityInit, IdentityInductive, <1>1, PTL DEF Spec

\* For any number of sessions, failures of the power and resets, the identity in flash
\* and the one esp_rmaker_task connects with are whole.
THEOREM IdentityInvariant == Spec => []IdentityInv
<1>1. CredentialsMatch /\ ConnectsAsClaimed => IdentityInv
      BY DEF IdentityInv
<1> QED BY <1>1, StoredIdentity, AgentIdentity, PTL

-----------------------------------------------------------------------------
(* User-node mapping: what stands in the work queue, on its way to the cloud *)
(* and on its way back decides which owner flash and cloud may name.         *)

Named   == Users \cup {Dummy}
Entry   == [n : Nat, user : Named]
Message == [msg : Nat, user : Named \cup {None}, reset : BOOLEAN]
Data    == [n : Nat, user : Named, msg : Nat]
Agents  == {"init", "claim", "wifi", "connect", "run", "waiting", "failed"}

MapTyped ==
    /\ check \in BOOLEAN /\ dangled \in BOOLEAN /\ maps \in Nat
    /\ queue \in Seq(Entry) /\ toCloud \in Seq(Message) /\ acks \in Seq(Nat)
    /\ data \in Data \cup {None} /\ nvs_user \in Named \cup {None}
    /\ mstate \in {"NONE", "STARTED", "DONE"} /\ reset \in {"none", "wifi", "factory"}
    /\ owners \subseteq Users /\ mapped \subseteq Users /\ agent \in Agents

\* Mappings are numbered; acknowledgements, messages and queued callbacks follow each
\* other in the order of the numbers.
OrderOK ==
    /\ data # None => data.msg <= maps /\ \A i \in 1..Len(queue) : data.msg < queue[i].n
    /\ \A i \in 1..Len(queue) : 1 <= queue[i].n /\ queue[i].n <= maps
    /\ \A i \in 1..Len(toCloud) : 1 <= toCloud[i].msg /\ toCloud[i].msg <= maps
    /\ \A i \in 1..Len(acks) : 1 <= acks[i] /\ acks[i] <= maps
    /\ \A i, j \in 1..Len(queue) : i < j => queue[i].n < queue[j].n
    /\ \A i, j \in 1..Len(toCloud) : i < j => toCloud[i].msg < toCloud[j].msg
    /\ \A i \in 1..Len(toCloud), j \in 1..Len(queue) : toCloud[i].msg < queue[j].n
    /\ \A i \in 1..Len(acks), j \in 1..Len(toCloud) : acks[i] < toCloud[j].msg
    /\ \A i \in 1..Len(acks), j \in 1..Len(queue) : acks[i] < queue[j].n

\* The cloud knows of nobody but users who mapped since the last factory reset.
Clean == owners \subseteq mapped

\* A message that will make it so, once the cloud takes it.
Cleaner(i) == toCloud[i].reset /\ toCloud[i].user # None

\* Whoever is in flash, in RAM or on the way mapped since the factory reset; and the
\* cloud is clean as soon as the node counts as mapped: a message whose acknowledgement
\* the mapping waits for makes it so, and none is acknowledged before it did.
CleanOK ==
    /\ agent = "init" => data = None /\ mstate = "NONE"
    /\ reset = "factory" => nvs_user = None
    /\ check /\ reset # "factory" =>
          /\ \A i \in 1..Len(queue) : queue[i].user \in mapped \cup {Dummy}
          /\ \A i \in 1..Len(toCloud) : toCloud[i].user \in mapped \cup {Dummy, None}
          /\ data # None => data.user \in mapped \cup {Dummy}
          /\ nvs_user # None \/ mstate = "DONE" \/ agent = "run" => Clean
          /\ data # None /\ ~Clean =>
                /\ \A i \in 1..Len(toCloud) : toCloud[i].msg = data.msg => Cleaner(i)
                /\ \A i \in 1..Len(acks) : acks[i] # data.msg

\* Until data is freed too early, a queued callback is of the current data.
SingleOK ==
    ~dangled /\ queue # << >> =>
        Len(queue) = 1 /\ data = [n |-> queue[1].n, user |-> queue[1].user, msg |-> 0]

\* A user in flash is the only owner and nothing on its way changes that; while flash
\* names nobody, the published mapping resets and is the last on its way, and when its
\* acknowledgement is there nothing else is on its way.
OwnerOK ==
    check /\ ~dangled =>
        /\ nvs_user # None => /\ owners = {nvs_user} \cap Users
                              /\ \A i \in 1..Len(toCloud) : toCloud[i].user = nvs_user
                              /\ data # None => data.user = nvs_user
        /\ nvs_user = None /\ reset # "factory" /\ data # None =>
              /\ mstate # "DONE"
              /\ \A i \in 1..Len(toCloud) : toCloud[i].msg = data.msg =>
                    i = Len(toCloud) /\ toCloud[i].user = data.user /\ toCloud[i].reset
              /\ \A i \in 1..Len(acks) : acks[i] = data.msg =>
                    toCloud = << >> /\ owners = {data.user} \cap Users

MInv == MapTyped /\ OrderOK /\ CleanOK /\ SingleOK /\ OwnerOK

\* What Append and Tail do to the places of a sequence.
LEMMA AppendFacts ==
    ASSUME NEW S, NEW q \in Seq(S), NEW e \in S
    PROVE  /\ Append(q, e) \in Seq(S) /\ Append(q, e) # << >>
           /\ Len(q) \in Nat /\ Len(Append(q, e)) = Len(q) + 1
           /\ \A i \in 1..Len(q) : Append(q, e)[i] = q[i]
           /\ Append(q, e)[Len(q) + 1] = e
OBVIOUS

\* What is left of a queue when its head is taken.
LEMMA TailFacts ==
    ASSUME NEW S, NEW q \in Seq(S), q # << >>
    PROVE  /\ Tail(q) \in Seq(S) /\ Head(q) = q[1]
           /\ Len(q) \in Nat /\ Len(q) >= 1 /\ Len(Tail(q)) = Len(q) - 1
           /\ \A i \in 1..(Len(q) - 1) : Tail(q)[i] = q[i + 1]
           /\ \A i \in 1..Len(q) : q[i] \in S
OBVIOUS

\* The numbers that are compared are numbers.
LEMMA NumbersTyped ==
    ASSUME MapTyped
    PROVE  /\ maps \in Nat
           /\ Len(queue) \in Nat /\ Len(toCloud) \in Nat /\ Len(acks) \in Nat
           /\ \A i \in 1..Len(queue) : queue[i] \in Entry /\ queue[i].n \in Nat
           /\ \A i \in 1..Len(toCloud) : toCloud[i] \in Message /\ toCloud[i].msg \in Nat
           /\ \A i \in 1..Len(acks) : acks[i] \in Nat
<1>1. /\ \A i \in 1..Len(queue) : queue[i] \in Entry
      /\ \A i \in 1..Len(toCloud) : toCloud[i] \in Message
      /\ \A i \in 1..Len(acks) : acks[i] \in Nat
      BY DEF MapTyped
<1>2. (\A x \in Entry : x.n \in Nat) /\ (\A x \in Message : x.msg \in Nat)
      BY DEF Entry, Message
<1> QED BY <1>1, <1>2 DEF MapTyped

\* esp_rmaker_start_user_node_mapping, for a user of a phone or for the dummy user.
LEMMA StartMappingKeeps ==
    ASSUME MInv, NEW u \in Named, StartMapping(u),
           UNCHANGED <<check, reset, toCloud, acks, owners>>,
           mapped \subseteq mapped', mapped' \subseteq Users,
           data' # None => u \in mapped' \cup {Dummy},
           agent' \in Agents \ {"init"}, agent' = "run" => agent = "run"
    PROVE  MInv'
<1> DEFINE e == [n |-> maps + 1, user |-> u]
           d == [n |-> maps + 1, user |-> u, msg |-> 0]
<1>t. MapTyped
      BY DEF MInv
<1>e. e \in Entry /\ d \in Data /\ d # None
      BY <1>t, OnboardingAssumption DEF MapTyped, Entry, Data, Named
<1>q. /\ maps' = maps + 1
      /\ (queue' = Append(queue, e) /\ data' = d) \/ (queue' = queue /\ data' = None)
      BY DEF StartMapping, QueueMapping
<1>a. /\ queue' \in Seq(Entry) /\ Len(queue) \in Nat
      /\ \A i \in 1..Len(queue) : queue'[i] = queue[i]
      /\ data' # None => Len(queue') = Len(queue) + 1 /\ queue'[Len(queue) + 1] = e
      /\ data' = None => Len(queue') = Len(queue)
  <2>1. CASE queue' = Append(queue, e) /\ data' = d
        BY <2>1, <1>t, <1>e, AppendFacts DEF MapTyped
  <2>2. CASE queue' = queue /\ data' = None
        BY <2>2, <1>t DEF MapTyped
  <2> QED BY <1>q, <2>1, <2>2
<1>1. MapTyped'
  <2>1. dangled' \in BOOLEAN
        BY <1>t, Zenon DEF StartMapping, MapTyped
  <2>2. mstate' \in {"NONE", "STARTED", "DONE"} /\ nvs_user' \in Named \cup {None} /\ maps' \in Nat
        BY <1>t DEF StartMapping, MapTyped
  <2> QED BY <1>t, <1>e, <1>q, <1>a, <2>1, <2>2 DEF MapTyped
<1>2. OrderOK'
  <2> USE <1>a, <1>q DEF MInv, OrderOK
  <2>1. \A i \in 1..Len(queue') : (data' # None /\ i = Len(queue) + 1) \/ i \in 1..Len(queue)
        BY <1>a
  <2>2. \A i \in 1..Len(queue') : 1 <= queue'[i].n /\ queue'[i].n <= maps'
        BY <2>1, <1>t, NumbersTyped
  <2>3. \A i, j \in 1..Len(queue') : i < j => queue'[i].n < queue'[j].n
        BY <2>1, <1>t, NumbersTyped
  <2>4. \A i \in 1..Len(toCloud), j \in 1..Len(queue') : toCloud[i].msg < queue'[j].n
        BY <2>1, <1>t, NumbersTyped
  <2>5. \A i \in 1..Len(acks), j \in 1..Len(queue') : acks[i] < queue'[j].n
        BY <2>1, <1>t, NumbersTyped
  <2>6. /\ \A i \in 1..Len(toCloud) : 1 <= toCloud[i].msg /\ toCloud[i].msg <= maps'
        /\ \A i \in 1..Len(acks) : 1 <= acks[i] /\ acks[i] <= maps'
        BY <1>t, NumbersTyped
  <2>7. data' # None => data'.msg <= maps' /\ \A i \in 1..Len(queue') : data'.msg < queue'[i].n
    <3>1. data' # None => data'.msg = 0
          OBVIOUS
    <3>2. \A i \in 1..Len(queue') : queue'[i].n \in Nat
          BY <2>1, <1>t, NumbersTyped
    <3> QED BY <3>1, <3>2, <2>2, <1>t, NumbersTyped
  <2>8. /\ \A i, j \in 1..Len(toCloud) : i < j => toCloud[i].msg < toCloud[j].msg
        /\ \A i \in 1..Len(acks), j \in 1..Len(toCloud) : acks[i] < toCloud[j].msg
        OBVIOUS
  <2> HIDE <1>a, <1>q
  <2> QED BY <2>2, <2>3, <2>4, <2>5, <2>6, <2>7, <2>8
<1>3. CleanOK'
  <2>1. \A i \in 1..Len(queue') : (data' # None /\ i = Len(queue) + 1) \/ i \in 1..Len(queue)
        BY <1>a
  <2>2. reset' = "factory" => nvs_user' = None
        BY DEF MInv, CleanOK, StartMapping
  <2>3. Clean => Clean'
        BY DEF Clean
  <2>4. check /\ reset # "factory" /\ (nvs_user' # None \/ mstate' = "DONE" \/ agent' = "run") => Clean
    <3>1. check /\ reset # "factory" /\ mstate' = "DONE" => nvs_user = u
          BY <1>t DEF StartMapping, DetectReset, MapTyped
    <3>2. nvs_user' # None => nvs_user # None
          BY DEF StartMapping
    <3>3. u # None
          BY OnboardingAssumption DEF Named
    <3> QED BY <3>1, <3>2, <3>3 DEF MInv, CleanOK
  <2>5. check /\ reset # "factory" =>
          /\ \A i \in 1..Len(queue') : queue'[i].user \in mapped' \cup {Dummy}
          /\ \A i \in 1..Len(toCloud') : toCloud'[i].user \in mapped' \cup {Dummy, None}
        BY <1>a, <2>1 DEF MInv, CleanOK
  <2>6. data' # None => data'.msg = 0
        BY <1>q
  <2>7. /\ \A i \in 1..Len(toCloud) : toCloud[i].msg # 0
        /\ \A i \in 1..Len(acks) : acks[i] # 0
        BY <1>t, NumbersTyped DEF MInv, OrderOK
  <2>8. data' # None => data'.user = u
        BY <1>q
  <2> QED BY <2>2, <2>3, <2>4, <2>5, <2>6, <2>7, <2>8 DEF CleanOK
<1>4. SingleOK'
  <2> SUFFICES ASSUME ~dangled', queue' # << >> PROVE Len(queue') = 1 /\ data' = [n |-> queue'[1].n, user |-> queue'[1].user, msg |-> 0]
      BY DEF SingleOK
  <2>1. ~dangled /\ (data = None \/ queue = << >>)
        BY <1>t DEF StartMapping, MapTyped
  <2>2. queue = << >>
    <3> SUFFICES ASSUME queue # << >>, data = None PROVE FALSE
        BY <2>1
    <3>1. data = [n |-> queue[1].n, user |-> queue[1].user, msg |-> 0] /\ Len(queue) = 1
          BY <2>1 DEF MInv, SingleOK
    <3>2. queue[1] \in Entry
          BY <1>t, <3>1 DEF MapTyped
    <3>3. data \in Data
          BY <3>1, <3>2 DEF Entry, Data
    <3> QED BY <3>3, OnboardingAssumption DEF Data, Named
  <2>3. Len(queue) = 0
        BY <2>2
  <2>4. data' # None
        BY <2>2, <1>q, <1>e
  <2> QED BY <2>3, <2>4, <1>a, <1>q
<1>5. OwnerOK'
  <2>1. dangled => dangled'
        BY <1>t, Zenon DEF StartMapping, MapTyped
  <2>2. check /\ nvs_user' # None => nvs_user' = nvs_user /\ nvs_user = u
        BY DEF StartMapping, DetectReset
  <2>3. check /\ nvs_user' = None => mstate' # "DONE"
        BY OnboardingAssumption DEF StartMapping, DetectReset, Named
  <2>4. data' # None => data'.msg = 0 /\ data'.user = u
        BY <1>q
  <2>5. /\ \A i \in 1..Len(toCloud) : toCloud[i].msg # 0
        /\ \A i \in 1..Len(acks) : acks[i] # 0
        BY <1>t, NumbersTyped DEF MInv, OrderOK
  <2> QED BY <2>1, <2>2, <2>3, <2>4, <2>5 DEF MInv, OwnerOK
<1> QED BY <1>1, <1>2, <1>3, <1>4, <1>5 DEF MInv

\* A published message, at the place of the callback's number.
LEMMA PublishOrder ==
    ASSUME MInv, queue # << >>, NEW m \in Message, m.msg = queue[1].n,
           queue' = Tail(queue), toCloud' = Append(toCloud, m),
           UNCHANGED <<acks, maps>>,
           data' # None => data'.msg = m.msg \/ (data # None /\ data'.msg = data.msg)
    PROVE  OrderOK'
<1>t. MapTyped /\ OrderOK
      BY DEF MInv
<1>q. /\ Len(queue) \in Nat /\ Len(queue) >= 1 /\ Len(queue') = Len(queue) - 1
      /\ \A i \in 1..(Len(queue) - 1) : queue'[i] = queue[i + 1]
      BY <1>t, TailFacts DEF MapTyped
<1>m. /\ Len(toCloud) \in Nat /\ Len(toCloud') = Len(toCloud) + 1
      /\ \A i \in 1..Len(toCloud) : toCloud'[i] = toCloud[i]
      /\ toCloud'[Len(toCloud) + 1] = m
      BY <1>t, AppendFacts DEF MapTyped
<1>1. \A i \in 1..Len(queue') : i + 1 \in 1..Len(queue) /\ i + 1 > 1 /\ queue'[i] = queue[i + 1]
      BY <1>q
<1>2. \A i \in 1..Len(toCloud') : i = Len(toCloud) + 1 \/ i \in 1..Len(toCloud)
      BY <1>m
<1>3. 1 \in 1..Len(queue)
      BY <1>q
<1> USE <1>1, <1>2, <1>3, <1>m, <1>t, NumbersTyped DEF OrderOK
<1>4. \A i \in 1..Len(queue') : 1 <= queue'[i].n /\ queue'[i].n <= maps'
      OBVIOUS
<1>5. \A i \in 1..Len(toCloud') : 1 <= toCloud'[i].msg /\ toCloud'[i].msg <= maps'
      OBVIOUS
<1>6. \A i, j \in 1..Len(queue') : i < j => queue'[i].n < queue'[j].n
      OBVIOUS
<1>7. \A i, j \in 1..Len(toCloud') : i < j => toCloud'[i].msg < toCloud'[j].msg
      OBVIOUS
<1>8. \A i \in 1..Len(toCloud'), j \in 1..Len(queue') : toCloud'[i].msg < queue'[j].n
      OBVIOUS
<1>9. \A i \in 1..Len(acks'), j \in 1..Len(toCloud') : acks'[i] < toCloud'[j].msg
      OBVIOUS
<1>10. \A i \in 1..Len(acks'), j \in 1..Len(queue') : acks'[i] < queue'[j].n
      OBVIOUS
<1>11. \A i \in 1..Len(acks') : 1 <= acks'[i] /\ acks'[i] <= maps'
      OBVIOUS
<1>12. data' # None => data'.msg <= maps' /\ \A i \in 1..Len(queue') : data'.msg < queue'[i].n
      OBVIOUS
<1> HIDE <1>1, <1>2, <1>3, <1>m, <1>t
<1> QED BY <1>4, <1>5, <1>6, <1>7, <1>8, <1>9, <1>10, <1>11, <1>12

\* A callback whose publish is refused only leaves the queue.
LEMMA RefusedKeeps ==
    ASSUME MInv, queue # << >>, queue' = Tail(queue),
           UNCHANGED <<check, nvs_user, reset, agent, data, mstate, dangled, toCloud, acks, owners,
                       mapped, maps>>
    PROVE  MInv'
<1>t. MapTyped /\ OrderOK /\ CleanOK /\ SingleOK /\ OwnerOK
      BY DEF MInv
<1>a. /\ queue' \in Seq(Entry) /\ Len(queue) \in Nat /\ Len(queue) >= 1 /\ Len(queue') = Len(queue) - 1
      /\ \A i \in 1..(Len(queue) - 1) : queue'[i] = queue[i + 1]
      BY <1>t, TailFacts DEF MapTyped
<1>i. \A i \in 1..Len(queue') : i + 1 \in 1..Len(queue) /\ queue'[i] = queue[i + 1]
      BY <1>a
<1>1. MapTyped'
      BY <1>t, <1>a DEF MapTyped
<1>2. OrderOK'
  <2>1. \A i, j \in 1..Len(queue') : i < j => queue'[i].n < queue'[j].n
    <3> TAKE i, j \in 1..Len(queue')
    <3>1. i < j => i + 1 < j + 1
          BY <1>a
    <3> QED BY <3>1, <1>i, <1>t DEF OrderOK
  <2>2. /\ \A i \in 1..Len(queue') : 1 <= queue'[i].n /\ queue'[i].n <= maps
        /\ \A i \in 1..Len(toCloud), j \in 1..Len(queue') : toCloud[i].msg < queue'[j].n
        /\ \A i \in 1..Len(acks), j \in 1..Len(queue') : acks[i] < queue'[j].n
        /\ data # None => \A j \in 1..Len(queue') : data.msg < queue'[j].n
        BY <1>i, <1>t DEF OrderOK
  <2> QED BY <2>1, <2>2, <1>t DEF OrderOK
<1>3. CleanOK'
      BY <1>i, <1>t DEF CleanOK, Clean, Cleaner
<1>4. SingleOK'
  <2>1. ~dangled => Len(queue') = 0
        BY <1>a, <1>t DEF SingleOK
  <2> QED BY <2>1, <1>a DEF SingleOK
<1>5. OwnerOK'
      BY <1>t DEF OwnerOK
<1> QED BY <1>1, <1>2, <1>3, <1>4, <1>5 DEF MInv

\* esp_rmaker_user_mapping_cb publishes.
LEMMA PublishKeeps ==
    ASSUME MInv, MappingCb, toCloud' # toCloud
    PROVE  MInv'
<1> DEFINE cb == queue[1]
           Msg(u) == [msg |-> cb.n, user |-> u, reset |-> mstate # "DONE"]
<1>t. MapTyped /\ OrderOK /\ CleanOK /\ SingleOK /\ OwnerOK
      BY DEF MInv
<1>u. UNCHANGED <<check, nvs_user, reset, agent, mstate, dangled, acks, owners, mapped, maps>>
      BY DEF MappingCb, nvs, bounds
<1>q. queue # << >> /\ queue' = Tail(queue)
      BY DEF MappingCb
<1>a. /\ queue' \in Seq(Entry) /\ Len(queue) \in Nat /\ Len(queue) >= 1 /\ Len(queue') = Len(queue) - 1
      /\ \A i \in 1..(Len(queue) - 1) : queue'[i] = queue[i + 1]
      /\ Head(queue) = cb
      BY <1>t, <1>q, TailFacts DEF MapTyped
<1>c. cb \in Entry /\ cb.n \in Nat /\ cb.user \in Named /\ 1 <= cb.n /\ cb.n <= maps
      BY <1>t, <1>a, NumbersTyped DEF OrderOK, Entry
<1>d. PICK u \in Named \cup {None} :
         /\ toCloud' = Append(toCloud, Msg(u))
         /\ \/ data # None /\ u = data.user /\ data' \in {data, [data EXCEPT !.msg = cb.n]}
            \/ (IF data = None THEN TRUE ELSE data.n # cb.n) /\ u \in {cb.user, None} /\ data' = data
  <2>1. data # None => data.user \in Named
        BY <1>t DEF MapTyped, Data
  <2> QED BY <1>a, <1>c, <2>1 DEF MappingCb
<1>m. Msg(u) \in Message /\ Msg(u).msg = cb.n
      BY <1>c DEF Message
<1>b. /\ toCloud' \in Seq(Message) /\ toCloud' # << >>
      /\ Len(toCloud) \in Nat /\ Len(toCloud') = Len(toCloud) + 1
      /\ \A i \in 1..Len(toCloud) : toCloud'[i] = toCloud[i]
      /\ toCloud'[Len(toCloud) + 1] = Msg(u)
      BY <1>t, <1>d, <1>m, AppendFacts DEF MapTyped
<1>i. \A i \in 1..Len(toCloud') : i = Len(toCloud) + 1 \/ i \in 1..Len(toCloud)
      BY <1>b
<1>e. data # None /\ data' = [data EXCEPT !.msg = cb.n] =>
         data' \in Data /\ data'.msg = cb.n /\ data'.user = data.user /\ data'.n = data.n
      BY <1>t, <1>c DEF MapTyped, Data
<1>1. MapTyped'
      BY <1>t, <1>u, <1>a, <1>b, <1>d, <1>e DEF MapTyped
<1>2. OrderOK'
  <2>1. data' # None => data'.msg = Msg(u).msg \/ (data # None /\ data'.msg = data.msg)
        BY <1>d, <1>e, <1>m
  <2> QED BY <2>1, <1>u, <1>q, <1>d, <1>m, PublishOrder
<1>3. CleanOK'
  <2> SUFFICES ASSUME check, reset # "factory"
               PROVE  /\ \A i \in 1..Len(queue') : queue'[i].user \in mapped \cup {Dummy}
                      /\ \A i \in 1..Len(toCloud') : toCloud'[i].user \in mapped \cup {Dummy, None}
                      /\ data' # None => data'.user \in mapped \cup {Dummy}
                      /\ nvs_user # None \/ mstate = "DONE" \/ agent = "run" => Clean
                      /\ data' # None /\ ~Clean =>
                            /\ \A i \in 1..Len(toCloud') : toCloud'[i].msg = data'.msg => Cleaner(i)'
                            /\ \A i \in 1..Len(acks) : acks[i] # data'.msg
      BY <1>u, <1>t DEF CleanOK, Clean, MappingCb
  <2>0. 1 \in 1..Len(queue) /\ \A i \in 1..Len(queue') : i + 1 \in 1..Len(queue) /\ queue'[i] = queue[i + 1]
        BY <1>a
  <2>1. \A i \in 1..Len(queue') : queue'[i].user \in mapped \cup {Dummy}
        BY <1>t, <2>0 DEF CleanOK
  <2>2. u \in mapped \cup {Dummy, None}
        BY <1>t, <1>d, <2>0 DEF CleanOK
  <2>3. \A i \in 1..Len(toCloud') : toCloud'[i].user \in mapped \cup {Dummy, None}
        BY <1>t, <1>b, <1>i, <2>2 DEF CleanOK
  <2>4. data' # None => data'.user \in mapped \cup {Dummy}
        BY <1>t, <1>d, <1>e DEF CleanOK
  <2>5. ASSUME data' # None, ~Clean
        PROVE  /\ \A i \in 1..Len(toCloud') : toCloud'[i].msg = data'.msg => Cleaner(i)'
               /\ \A i \in 1..Len(acks) : acks[i] # data'.msg
    <3>n. /\ \A i \in 1..Len(toCloud) : toCloud[i].msg \in Nat /\ toCloud[i].msg < cb.n
          /\ \A i \in 1..Len(acks) : acks[i] \in Nat /\ acks[i] < cb.n
          BY <1>t, <2>0, NumbersTyped DEF OrderOK
    <3>1. CASE data # None /\ u = data.user /\ data' # data /\ data' = [data EXCEPT !.msg = cb.n]
      <4>1. mstate # "DONE"
            BY <1>t, <2>5 DEF CleanOK
      <4>2. u # None
            BY <1>t, <3>1, OnboardingAssumption DEF MapTyped, Data, Named
      <4>4. Msg(u).msg = cb.n /\ Msg(u).user = u /\ (Msg(u).reset <=> mstate # "DONE")
            OBVIOUS
      <4>5. data'.msg = cb.n
            BY <1>e, <3>1
      <4>6. \A i \in 1..Len(toCloud') : toCloud'[i].msg = data'.msg => toCloud'[i] = Msg(u)
            BY <1>b, <1>i, <1>c, <3>n, <4>5
      <4>7. \A i \in 1..Len(toCloud') : toCloud'[i].msg = data'.msg => Cleaner(i)'
            BY <4>1, <4>2, <4>4, <4>6, Zenon DEF Cleaner
      <4>8. \A i \in 1..Len(acks) : acks[i] # data'.msg
            BY <3>n, <4>5, <1>c
      <4> QED BY <4>7, <4>8
    <3>2. CASE data' = data
      <4>1. data.msg < cb.n /\ data.msg \in Nat
            BY <1>t, <2>0, <2>5, <3>2 DEF OrderOK, MapTyped, Data
      <4>2. \A i \in 1..Len(toCloud') : toCloud'[i].msg = data'.msg => i \in 1..Len(toCloud) /\ toCloud'[i] = toCloud[i]
            BY <1>b, <1>i, <1>c, <1>m, <3>2, <4>1
      <4>3. /\ \A i \in 1..Len(toCloud) : toCloud[i].msg = data.msg => Cleaner(i)
            /\ \A i \in 1..Len(acks) : acks[i] # data.msg
            BY <1>t, <2>5, <3>2 DEF CleanOK
      <4> QED BY <3>2, <4>2, <4>3 DEF Cleaner
    <3> QED BY <1>d, <3>1, <3>2
  <2>6. nvs_user # None \/ mstate = "DONE" \/ agent = "run" => Clean
        BY <1>t DEF CleanOK
  <2> QED BY <2>1, <2>3, <2>4, <2>5, <2>6
<1>4. ~dangled => /\ Len(queue') = 0 /\ data = [n |-> cb.n, user |-> cb.user, msg |-> 0]
                  /\ data # None /\ u = data.user /\ data' # None /\ data'.user = data.user
                  /\ data' = data \/ data'.msg = cb.n
  <2>1. ~dangled => Len(queue) = 1 /\ data = [n |-> cb.n, user |-> cb.user, msg |-> 0]
        BY <1>t, <1>q DEF SingleOK
  <2>2. [n |-> cb.n, user |-> cb.user, msg |-> 0] # None
        BY <1>c, OnboardingAssumption DEF Named
  <2>3. [n |-> cb.n, user |-> cb.user, msg |-> 0].n = cb.n
        OBVIOUS
  <2>4. ~dangled => data # None /\ u = data.user /\ data' \in {data, [data EXCEPT !.msg = cb.n]}
        BY <2>1, <2>2, <2>3, <1>d
  <2>5. data # None => data \in Data
        BY <1>t DEF MapTyped
  <2>6. data' \in Data => data' # None
        BY OnboardingAssumption DEF Data, Named
  <2> QED BY <2>1, <2>4, <2>5, <2>6, <1>a, <1>e
<1>5. SingleOK'
      BY <1>1, <1>4, <1>u DEF SingleOK, MapTyped
<1>6. OwnerOK'
  <2> SUFFICES ASSUME check, ~dangled
               PROVE  /\ nvs_user # None => /\ owners = {nvs_user} \cap Users
                                            /\ \A i \in 1..Len(toCloud') : toCloud'[i].user = nvs_user
                                            /\ data'.user = nvs_user
                      /\ nvs_user = None /\ reset # "factory" =>
                            /\ mstate # "DONE"
                            /\ \A i \in 1..Len(toCloud') : toCloud'[i].msg = data'.msg =>
                                  i = Len(toCloud') /\ toCloud'[i].user = data'.user /\ toCloud'[i].reset
                            /\ \A i \in 1..Len(acks) : acks[i] # data'.msg
      BY <1>u, <1>b DEF OwnerOK
  <2>1. nvs_user # None => owners = {nvs_user} \cap Users /\ data'.user = nvs_user
        BY <1>t, <1>4 DEF OwnerOK
  <2>2. nvs_user # None => \A i \in 1..Len(toCloud') : toCloud'[i].user = nvs_user
        BY <1>t, <1>4, <1>b, <1>i DEF OwnerOK
  <2>3. nvs_user = None /\ reset # "factory" => mstate # "DONE"
        BY <1>t, <1>4 DEF OwnerOK
  <2>4. /\ \A i \in 1..Len(toCloud) : toCloud[i].msg \in Nat /\ toCloud[i].msg < cb.n /\ toCloud[i].msg # 0
        /\ \A i \in 1..Len(acks) : acks[i] \in Nat /\ acks[i] < cb.n /\ acks[i] # 0
    <3>1. 1 \in 1..Len(queue)
          BY <1>a
    <3>2. /\ \A i \in 1..Len(toCloud) : toCloud[i].msg < cb.n /\ 1 <= toCloud[i].msg
          /\ \A i \in 1..Len(acks) : acks[i] < cb.n /\ 1 <= acks[i]
          BY <1>t, <3>1 DEF OrderOK
    <3>3. /\ \A i \in 1..Len(toCloud) : toCloud[i].msg \in Nat
          /\ \A i \in 1..Len(acks) : acks[i] \in Nat
          BY <1>t, NumbersTyped
    <3> QED BY <3>2, <3>3
  <2>5. data'.msg \in {0, cb.n} /\ data'.user = u
        BY <1>4
  <2>6. \A i \in 1..Len(toCloud') : toCloud'[i].msg = data'.msg => i = Len(toCloud') /\ toCloud'[i] = Msg(u)
        BY <1>b, <1>i, <1>c, <1>m, <2>4, <2>5
  <2>7. mstate # "DONE" => Msg(u).reset
        OBVIOUS
  <2>8. \A i \in 1..Len(acks) : acks[i] # data'.msg
        BY <2>4, <2>5, <1>c
  <2>9. Msg(u).user = u
        OBVIOUS
  <2>10. mstate # "DONE" =>
           \A i \in 1..Len(toCloud') : toCloud'[i].msg = data'.msg =>
               i = Len(toCloud') /\ toCloud'[i].user = data'.user /\ toCloud'[i].reset
        BY <2>5, <2>6, <2>7, <2>9, Zenon
  <2> QED BY <2>1, <2>2, <2>3, <2>8, <2>10
<1> QED BY <1>1, <1>2, <1>3, <1>5, <1>6 DEF MInv

\* esp_rmaker_user_mapping_cb, whatever becomes of its publish.
LEMMA MappingCbKeeps ==
    ASSUME MInv, MappingCb
    PROVE  MInv'
<1>1. CASE toCloud' # toCloud
      BY <1>1, PublishKeeps
<1>2. CASE toCloud' = toCloud
  <2>1. queue \in Seq(Entry) /\ toCloud \in Seq(Message) /\ Head(queue).n \in Nat /\ Head(queue).user \in Named
    <3>1. queue \in Seq(Entry) /\ toCloud \in Seq(Message) /\ queue # << >>
          BY DEF MInv, MapTyped, MappingCb
    <3>2. Head(queue) \in Entry
          BY <3>1, TailFacts
    <3> QED BY <3>1, <3>2 DEF Entry
  <2>2. ASSUME NEW x \in Message PROVE Append(toCloud, x) # toCloud
    <3>1. Len(Append(toCloud, x)) = Len(toCloud) + 1 /\ Len(toCloud) \in Nat
          BY <2>1, AppendFacts
    <3> QED BY <3>1
  <2>3. ASSUME NEW u \in Named \cup {None}
        PROVE  [msg |-> Head(queue).n, user |-> u, reset |-> mstate # "DONE"] \in Message
        BY <2>1 DEF Message
  <2>4. data # None => data.user \in Named
        BY DEF MInv, MapTyped, Data
  <2>5. data' = data
        BY <1>2, <2>1, <2>2, <2>3, <2>4 DEF MappingCb
  <2>6. /\ queue # << >> /\ queue' = Tail(queue)
        /\ UNCHANGED <<check, nvs_user, reset, agent, mstate, dangled, acks, owners, mapped, maps>>
        BY DEF MappingCb, nvs, bounds
  <2> QED BY <1>2, <2>5, <2>6, RefusedKeeps
<1> QED BY <1>1, <1>2

\* What was on its way is lost with its connection.
LEMMA ConnectionDropsKeeps ==
    ASSUME MInv, ConnectionDrops
    PROVE  MInv'
<1>t. MapTyped /\ OrderOK /\ CleanOK /\ SingleOK /\ OwnerOK
      BY DEF MInv
<1>u. UNCHANGED <<check, nvs_user, reset, agent, data, mstate, queue, dangled, owners, mapped, maps>>
      BY DEF ConnectionDrops, nvs, bounds
<1>a. /\ toCloud' = << >> /\ acks' = << >> /\ Len(toCloud') = 0 /\ Len(acks') = 0
      /\ toCloud' \in Seq(Message) /\ acks' \in Seq(Nat)
      BY DEF ConnectionDrops
<1>1. MapTyped'
      BY <1>t, <1>u, <1>a DEF MapTyped
<1>2. OrderOK'
      BY <1>t, <1>u, <1>a DEF OrderOK
<1>3. CleanOK'
      BY <1>t, <1>u, <1>a DEF CleanOK, Clean, Cleaner
<1>4. SingleOK'
      BY <1>t, <1>u DEF SingleOK
<1>5. OwnerOK'
      BY <1>t, <1>u, <1>a DEF OwnerOK
<1> QED BY <1>1, <1>2, <1>3, <1>4, <1>5 DEF MInv

\* The cloud takes the oldest message and acknowledges it.
LEMMA TakeOrder ==
    ASSUME MInv, CloudTakes
    PROVE  OrderOK'
<1>t. MapTyped /\ OrderOK
      BY DEF MInv
<1>u. UNCHANGED <<data, queue, maps>>
      BY DEF CloudTakes, mapping, bounds
<1>q. /\ Len(toCloud) \in Nat /\ Len(toCloud) >= 1 /\ Len(toCloud') = Len(toCloud) - 1
      /\ \A i \in 1..(Len(toCloud) - 1) : toCloud'[i] = toCloud[i + 1]
      /\ Head(toCloud) = toCloud[1]
      BY <1>t, TailFacts DEF MapTyped, CloudTakes
<1>m. 1 \in 1..Len(toCloud) /\ toCloud[1].msg \in Nat
      BY <1>q, <1>t, NumbersTyped
<1>a. /\ Len(acks) \in Nat /\ Len(acks') = Len(acks) + 1
      /\ \A i \in 1..Len(acks) : acks'[i] = acks[i]
      /\ acks'[Len(acks) + 1] = toCloud[1].msg
      BY <1>t, <1>q, <1>m, AppendFacts DEF MapTyped, CloudTakes
<1>1. \A i \in 1..Len(toCloud') : i + 1 \in 1..Len(toCloud) /\ 1 < i + 1 /\ toCloud'[i] = toCloud[i + 1]
      BY <1>q
<1>2. \A i \in 1..Len(acks') : i = Len(acks) + 1 \/ i \in 1..Len(acks)
      BY <1>a
<1> USE <1>1, <1>2, <1>m, <1>a, <1>u, <1>t, NumbersTyped DEF OrderOK
<1>3. \A i \in 1..Len(toCloud') : 1 <= toCloud'[i].msg /\ toCloud'[i].msg <= maps
      OBVIOUS
<1>4. \A i \in 1..Len(acks') : 1 <= acks'[i] /\ acks'[i] <= maps
      OBVIOUS
<1>5. \A i, j \in 1..Len(toCloud') : i < j => toCloud'[i].msg < toCloud'[j].msg
  <2> TAKE i, j \in 1..Len(toCloud')
  <2>1. /\ toCloud'[i] = toCloud[i + 1] /\ i + 1 \in 1..Len(toCloud)
        /\ toCloud'[j] = toCloud[j + 1] /\ j + 1 \in 1..Len(toCloud)
        OBVIOUS
  <2>2. i < j => i + 1 < j + 1
        BY <1>q
  <2> QED BY <2>1, <2>2
<1>6. \A i \in 1..Len(toCloud'), j \in 1..Len(queue) : toCloud'[i].msg < queue[j].n
      OBVIOUS
<1>7. \A i \in 1..Len(acks'), j \in 1..Len(toCloud') : acks'[i] < toCloud'[j].msg
  <2> TAKE i \in 1..Len(acks'), j \in 1..Len(toCloud')
  <2>1. toCloud'[j] = toCloud[j + 1] /\ j + 1 \in 1..Len(toCloud) /\ 1 < j + 1
        OBVIOUS
  <2>2. toCloud[1].msg < toCloud[j + 1].msg
        BY <2>1
  <2>3. CASE i \in 1..Len(acks)
        BY <2>1, <2>3
  <2>4. CASE i = Len(acks) + 1
        BY <2>1, <2>2, <2>4
  <2> QED BY <2>3, <2>4
<1>8. \A i \in 1..Len(acks'), j \in 1..Len(queue) : acks'[i] < queue[j].n
      OBVIOUS
<1>9. /\ data # None => data.msg <= maps /\ \A i \in 1..Len(queue) : data.msg < queue[i].n
      /\ \A i \in 1..Len(queue) : 1 <= queue[i].n /\ queue[i].n <= maps
      /\ \A i, j \in 1..Len(queue) : i < j => queue[i].n < queue[j].n
      OBVIOUS
<1> HIDE <1>1, <1>2, <1>m, <1>a, <1>t
<1> QED BY <1>3, <1>4, <1>5, <1>6, <1>7, <1>8, <1>9

\* The cloud takes a mapping: the owners follow the messages in their order.
LEMMA CloudTakesKeeps ==
    ASSUME MInv, CloudTakes
    PROVE  MInv'
<1> DEFINE m == toCloud[1]
<1>t. MapTyped /\ OrderOK /\ CleanOK /\ SingleOK /\ OwnerOK
      BY DEF MInv
<1>u. UNCHANGED <<check, nvs_user, reset, agent, data, mstate, queue, dangled, mapped, maps>>
      BY DEF CloudTakes, nvs, mapping, bounds
<1>q. /\ toCloud' \in Seq(Message) /\ toCloud # << >>
      /\ Len(toCloud) \in Nat /\ Len(toCloud) >= 1 /\ Len(toCloud') = Len(toCloud) - 1
      /\ \A i \in 1..(Len(toCloud) - 1) : toCloud'[i] = toCloud[i + 1]
      /\ Head(toCloud) = m
      BY <1>t, TailFacts DEF MapTyped, CloudTakes
<1>m. m \in Message /\ m.msg \in Nat /\ m.user \in Named \cup {None} /\ 1 \in 1..Len(toCloud)
      BY <1>q, <1>t, NumbersTyped DEF Message
<1>o. owners' = IF m.user = None THEN owners
                ELSE (IF m.reset THEN {} ELSE owners) \cup ({m.user} \cap Users)
      BY <1>q DEF CloudTakes
<1>i. \A i \in 1..Len(toCloud') : i + 1 \in 1..Len(toCloud) /\ toCloud'[i] = toCloud[i + 1]
      BY <1>q
<1>1. MapTyped'
  <2>1. acks' \in Seq(Nat)
        BY <1>t, <1>q, <1>m, AppendFacts DEF MapTyped, CloudTakes
  <2>2. owners' \subseteq Users
        BY <1>o, <1>t DEF MapTyped
  <2> QED BY <1>t, <1>u, <1>q, <2>1, <2>2 DEF MapTyped
<1>2. OrderOK'
      BY TakeOrder
<1>k. /\ Len(acks) \in Nat /\ Len(acks') = Len(acks) + 1
      /\ \A i \in 1..Len(acks) : acks'[i] = acks[i]
      /\ acks'[Len(acks) + 1] = m.msg
      BY <1>t, <1>q, <1>m, AppendFacts DEF MapTyped, CloudTakes
<1>l. \A i \in 1..Len(acks') : i = Len(acks) + 1 \/ i \in 1..Len(acks)
      BY <1>k
<1>3. CleanOK'
  <2> SUFFICES ASSUME check, reset # "factory"
               PROVE  /\ \A i \in 1..Len(toCloud') : toCloud'[i].user \in mapped \cup {Dummy, None}
                      /\ nvs_user # None \/ mstate = "DONE" \/ agent = "run" => Clean'
                      /\ data # None /\ ~Clean' =>
                            /\ \A i \in 1..Len(toCloud') : toCloud'[i].msg = data.msg => Cleaner(i)'
                            /\ \A i \in 1..Len(acks') : acks'[i] # data.msg
      BY <1>u, <1>t DEF CleanOK
  <2>1. \A i \in 1..Len(toCloud') : toCloud'[i].user \in mapped \cup {Dummy, None}
        BY <1>t, <1>i DEF CleanOK
  <2>2. m.user \in mapped \cup {Dummy, None}
        BY <1>t, <1>m DEF CleanOK
  <2>3. Clean => Clean'
        BY <1>o, <1>u, <2>2, OnboardingAssumption DEF Clean
  <2>4. m.reset /\ m.user # None => Clean'
        BY <1>o, <1>u, <2>2, OnboardingAssumption DEF Clean
  <2>5. ASSUME data # None, ~Clean'
        PROVE  /\ \A i \in 1..Len(toCloud') : toCloud'[i].msg = data.msg => Cleaner(i)'
               /\ \A i \in 1..Len(acks') : acks'[i] # data.msg
    <3>1. /\ \A i \in 1..Len(toCloud) : toCloud[i].msg = data.msg => Cleaner(i)
          /\ \A i \in 1..Len(acks) : acks[i] # data.msg
          BY <1>t, <2>3, <2>5 DEF CleanOK
    <3>2. m.msg # data.msg
          BY <1>m, <2>4, <2>5, <3>1 DEF Cleaner
    <3> QED BY <1>i, <1>k, <1>l, <3>1, <3>2 DEF Cleaner
  <2>6. nvs_user # None \/ mstate = "DONE" \/ agent = "run" => Clean'
        BY <1>t, <2>3 DEF CleanOK
  <2> QED BY <2>1, <2>5, <2>6
<1>4. SingleOK'
      BY <1>t, <1>u DEF SingleOK
<1>5. OwnerOK'
  <2> SUFFICES ASSUME check, ~dangled
               PROVE  /\ nvs_user # None => /\ owners' = {nvs_user} \cap Users
                                            /\ \A i \in 1..Len(toCloud') : toCloud'[i].user = nvs_user
                      /\ nvs_user = None /\ reset # "factory" /\ data # None =>
                            /\ \A i \in 1..Len(toCloud') : toCloud'[i].msg = data.msg =>
                                  i = Len(toCloud') /\ toCloud'[i].user = data.user /\ toCloud'[i].reset
                            /\ \A i \in 1..Len(acks') : acks'[i] = data.msg =>
                                  toCloud' = << >> /\ owners' = {data.user} \cap Users
      BY <1>u, <1>t DEF OwnerOK
  <2>1. ASSUME nvs_user # None
        PROVE  /\ owners' = {nvs_user} \cap Users
               /\ \A i \in 1..Len(toCloud') : toCloud'[i].user = nvs_user
    <3>1. owners = {nvs_user} \cap Users /\ \A i \in 1..Len(toCloud) : toCloud[i].user = nvs_user
          BY <1>t, <2>1 DEF OwnerOK
    <3>2. m.user = nvs_user
          BY <3>1, <1>m
    <3>3. owners' = {nvs_user} \cap Users
          BY <3>1, <3>2, <2>1, <1>o
    <3> QED BY <3>1, <3>3, <1>i
  <2>2. ASSUME nvs_user = None, reset # "factory", data # None
        PROVE  /\ \A i \in 1..Len(toCloud') : toCloud'[i].msg = data.msg =>
                     i = Len(toCloud') /\ toCloud'[i].user = data.user /\ toCloud'[i].reset
               /\ \A i \in 1..Len(acks') : acks'[i] = data.msg =>
                     toCloud' = << >> /\ owners' = {data.user} \cap Users
    <3>1. /\ \A i \in 1..Len(toCloud) : toCloud[i].msg = data.msg =>
                i = Len(toCloud) /\ toCloud[i].user = data.user /\ toCloud[i].reset
          /\ \A i \in 1..Len(acks) : acks[i] # data.msg
          BY <1>t, <1>q, <2>2 DEF OwnerOK
    <3>2. \A i \in 1..Len(toCloud') : i + 1 = Len(toCloud) => i = Len(toCloud')
          BY <1>q
    <3>3. \A i \in 1..Len(toCloud') : toCloud'[i].msg = data.msg =>
             i = Len(toCloud') /\ toCloud'[i].user = data.user /\ toCloud'[i].reset
          BY <1>i, <3>1, <3>2
    <3>4. ASSUME m.msg = data.msg
          PROVE  toCloud' = << >> /\ owners' = {data.user} \cap Users
      <4>1. Len(toCloud) = 1 /\ m.user = data.user /\ m.reset
            BY <3>1, <3>4, <1>m
      <4>2. data.user # None
            BY <1>t, <2>2, OnboardingAssumption DEF MapTyped, Data, Named
      <4>3. owners' = {data.user} \cap Users
            BY <1>o, <4>1, <4>2
      <4>4. toCloud' = << >>
            BY <1>q, <4>1
      <4> QED BY <4>3, <4>4
    <3>5. \A i \in 1..Len(acks') : acks'[i] = data.msg => m.msg = data.msg
          BY <1>k, <1>l, <3>1
    <3> QED BY <3>3, <3>4, <3>5
  <2> QED BY <2>1, <2>2
<1> QED BY <1>1, <1>2, <1>3, <1>4, <1>5 DEF MInv

\* An acknowledgement is taken.
LEMMA AckFacts ==
    ASSUME MInv, acks # << >>, acks' = Tail(acks)
    PROVE  /\ acks' \in Seq(Nat) /\ Head(acks) = acks[1] /\ 1 \in 1..Len(acks)
           /\ \A i \in 1..Len(acks') : i + 1 \in 1..Len(acks) /\ acks'[i] = acks[i + 1]
BY TailFacts DEF MInv, MapTyped

\* An acknowledgement of a message that is not the mapping's only leaves the queue.
LEMMA PubAckOtherKeeps ==
    ASSUME MInv, PubAckOther
    PROVE  MInv'
<1>u. UNCHANGED <<check, nvs_user, reset, agent, data, mstate, queue, dangled, mapped, maps,
                  toCloud, owners>>
      BY DEF PubAckOther, nvs, mapping, bounds
<1>a. /\ acks' \in Seq(Nat)
      /\ \A i \in 1..Len(acks') : i + 1 \in 1..Len(acks) /\ acks'[i] = acks[i + 1]
      BY AckFacts DEF PubAckOther
<1>1. MapTyped' /\ CleanOK' /\ SingleOK' /\ OwnerOK'
  <2>1. MapTyped'
        BY <1>u, <1>a DEF MInv, MapTyped
  <2>2. CleanOK'
        BY <1>u, <1>a DEF MInv, CleanOK, Clean, Cleaner
  <2>3. SingleOK' /\ OwnerOK'
        BY <1>u, <1>a DEF MInv, SingleOK, OwnerOK
  <2> QED BY <2>1, <2>2, <2>3
<1>2. OrderOK'
      BY <1>u, <1>a DEF MInv, OrderOK
<1> QED BY <1>1, <1>2 DEF MInv

\* esp_rmaker_user_mapping_event_handler stores the user that the cloud has.
LEMMA PubAckMatchesKeeps ==
    ASSUME MInv, PubAckMatches
    PROVE  MInv'
<1>t. MapTyped /\ OrderOK /\ CleanOK /\ SingleOK /\ OwnerOK
      BY DEF MInv
<1>u. UNCHANGED <<check, reset, queue, dangled, mapped, maps, toCloud, owners>>
      BY DEF PubAckMatches, bounds
<1>a. /\ acks' \in Seq(Nat) /\ data # None /\ data.msg = acks[1] /\ 1 \in 1..Len(acks)
      /\ \A i \in 1..Len(acks') : i + 1 \in 1..Len(acks) /\ acks'[i] = acks[i + 1]
      BY AckFacts DEF PubAckMatches
<1>n. data' = None /\ mstate' = "DONE"
      BY DEF PubAckMatches
<1>d. data \in Data /\ data.user \in Named
      BY <1>t, <1>a DEF MapTyped, Data
<1>s. nvs_user' = IF check /\ reset # "factory" THEN data.user ELSE nvs_user
      BY DEF PubAckMatches
<1>g. agent' \in Agents /\ agent' # "init"
  <2>1. agent # "init"
        BY <1>t, <1>a DEF CleanOK
  <2> QED BY <1>t, <2>1 DEF PubAckMatches, MapTyped, Agents
<1>z. data.msg # 0 /\ \A i \in 1..Len(toCloud) : toCloud[i].msg # data.msg
      BY <1>t, <1>a, NumbersTyped DEF OrderOK
<1>1. MapTyped'
      BY <1>t, <1>u, <1>a, <1>n, <1>d, <1>s, <1>g DEF MapTyped
<1>2. OrderOK'
      BY <1>t, <1>u, <1>a, <1>n DEF OrderOK
<1>3. CleanOK'
  <2>1. check /\ reset # "factory" => Clean
        BY <1>t, <1>a DEF CleanOK
  <2>2. reset' = "factory" => nvs_user' = None
        BY <1>t, <1>s, <1>u DEF CleanOK
  <2>3. Clean => Clean'
        BY <1>u DEF Clean
  <2> QED BY <1>t, <1>u, <1>n, <1>g, <2>1, <2>2, <2>3 DEF CleanOK
<1>4. ~dangled => queue = << >>
  <2> SUFFICES ASSUME ~dangled, queue # << >> PROVE FALSE
      OBVIOUS
  <2>1. data = [n |-> queue[1].n, user |-> queue[1].user, msg |-> 0]
        BY <1>t DEF SingleOK
  <2>2. data.msg = 0
        BY <2>1
  <2> QED BY <2>2, <1>z
<1>5. SingleOK'
      BY <1>4, <1>u DEF SingleOK
<1>6. OwnerOK'
  <2> SUFFICES ASSUME check, ~dangled, nvs_user' # None
               PROVE  /\ owners = {nvs_user'} \cap Users
                      /\ \A i \in 1..Len(toCloud) : toCloud[i].user = nvs_user'
      BY <1>u, <1>n DEF OwnerOK
  <2>1. reset # "factory" /\ nvs_user' = data.user
        BY <1>s, <1>t DEF CleanOK
  <2>2. CASE nvs_user # None
        BY <1>t, <1>a, <2>1, <2>2 DEF OwnerOK
  <2>3. CASE nvs_user = None
    <3>1. toCloud = << >> /\ owners = {data.user} \cap Users
          BY <1>t, <1>a, <2>1, <2>3 DEF OwnerOK
    <3>2. Len(toCloud) = 0
          BY <3>1
    <3> QED BY <3>1, <3>2, <2>1
  <2> QED BY <2>2, <2>3
<1> QED BY <1>1, <1>2, <1>3, <1>5, <1>6 DEF MInv

\* A restart empties RAM and the connection to the cloud.
LEMMA RebootKeepsMapping ==
    ASSUME MInv, Reboot
    PROVE  MInv'
<1>1. /\ queue' = << >> /\ toCloud' = << >> /\ acks' = << >>
      /\ data' = None /\ mstate' = "NONE" /\ reset' = "none" /\ agent' = "init"
      /\ UNCHANGED <<check, nvs_user, owners, mapped, dangled, maps>>
      BY DEF Reboot
<1>2. Len(queue') = 0 /\ Len(toCloud') = 0 /\ Len(acks') = 0
      BY <1>1
<1>3. MapTyped'
      BY <1>1 DEF MInv, MapTyped, Agents
<1>4. OrderOK' /\ SingleOK'
      BY <1>1, <1>2 DEF OrderOK, SingleOK
<1>5. CleanOK'
  <2>1. check /\ nvs_user # None => Clean
        BY DEF MInv, CleanOK
  <2> QED BY <1>1, <1>2, <2>1 DEF CleanOK, Clean
<1>6. OwnerOK'
      BY <1>1, <1>2 DEF MInv, OwnerOK
<1> QED BY <1>3, <1>4, <1>5, <1>6 DEF MInv

mapVars == <<check, nvs_user, reset, data, mstate, queue, dangled, toCloud, acks, owners,
             mapped, maps>>

\* A step that leaves the mapping alone, and the agent short of taking commands.
LEMMA OtherKeepsMapping ==
    ASSUME MInv, UNCHANGED mapVars, agent' \in Agents,
           agent' = agent \/ agent' \notin {"init", "run"}
    PROVE  MInv'
<1> USE DEF mapVars
<1>1. MapTyped' /\ SingleOK' /\ OwnerOK'
      BY DEF MInv, MapTyped, SingleOK, OwnerOK
<1>2. OrderOK'
      BY DEF MInv, OrderOK
<1>3. CleanOK'
      BY DEF MInv, CleanOK, Clean, Cleaner
<1> QED BY <1>1, <1>2, <1>3 DEF MInv

\* The resets: a factory reset forgets the user, and counts as one until the reboot.
LEMMA ResetKeepsMapping ==
    ASSUME MInv, FactoryReset \/ WifiReset
    PROVE  MInv'
<1>u. UNCHANGED <<check, agent, data, mstate, queue, dangled, toCloud, acks, owners, maps>>
      BY DEF FactoryReset, WifiReset, mapping, cloud
<1>0. agent # "init"
      BY DEF FactoryReset, WifiReset
<1>1. CASE FactoryReset
  <2>1. reset' = "factory" /\ nvs_user' = None /\ mapped' = {}
        BY <1>1 DEF FactoryReset
  <2>2. MapTyped'
        BY <1>u, <2>1 DEF MInv, MapTyped
  <2>3. OrderOK' /\ SingleOK'
        BY <1>u DEF MInv, OrderOK, SingleOK
  <2>4. CleanOK' /\ OwnerOK'
        BY <1>u, <1>0, <2>1 DEF MInv, CleanOK, OwnerOK
  <2> QED BY <2>2, <2>3, <2>4 DEF MInv
<1>2. CASE WifiReset
  <2>1. reset = "none" /\ reset' = "wifi" /\ UNCHANGED <<nvs_user, mapped>>
        BY <1>2 DEF WifiReset, cloud
  <2>2. MapTyped'
        BY <1>u, <2>1 DEF MInv, MapTyped
  <2>3. OrderOK' /\ SingleOK'
        BY <1>u DEF MInv, OrderOK, SingleOK
  <2>4. CleanOK'
        BY <1>u, <2>1 DEF MInv, CleanOK, Clean, Cleaner
  <2>5. OwnerOK'
        BY <1>u, <2>1 DEF MInv, OwnerOK
  <2> QED BY <2>2, <2>3, <2>4, <2>5 DEF MInv
<1> QED BY <1>1, <1>2

\* esp_rmaker_user_node_mapping_init finds a user in flash or not.
LEMMA BootKeepsMapping ==
    ASSUME MInv, Boot
    PROVE  MInv'
<1>u. UNCHANGED <<check, nvs_user, reset, data, queue, dangled, toCloud, acks, owners, mapped, maps>>
      BY DEF Boot, nvs, cloud, bounds
<1>0. agent = "init" /\ agent' \in {"claim", "wifi"} /\ data = None
      BY DEF Boot, MInv, CleanOK
<1>1. mstate' = IF ~check \/ nvs_user # None THEN "DONE" ELSE "NONE"
      BY DEF Boot
<1>2. MapTyped'
      BY <1>u, <1>0, <1>1 DEF MInv, MapTyped, Agents
<1>3. OrderOK' /\ SingleOK'
      BY <1>u DEF MInv, OrderOK, SingleOK
<1>4. CleanOK'
      BY <1>u, <1>0, <1>1 DEF MInv, CleanOK, Clean
<1>5. OwnerOK'
      BY <1>u, <1>0 DEF MInv, OwnerOK
<1> QED BY <1>2, <1>3, <1>4, <1>5 DEF MInv

\* The agent connects; a node that nobody has begun to map maps itself to the dummy user.
LEMMA AgentConnectsKeepsMapping ==
    ASSUME MInv, AgentConnects
    PROVE  MInv'
<1>1. CASE mstate = "NONE"
  <2>1. StartMapping(Dummy) /\ agent' = "waiting"
        BY <1>1 DEF AgentConnects
  <2>2. UNCHANGED <<check, reset, toCloud, acks, owners, mapped>>
        BY DEF AgentConnects, cloud
  <2>3. Dummy \in Named /\ agent' \in Agents \ {"init"} /\ mapped \subseteq Users
        BY <2>1 DEF Named, Agents, MInv, MapTyped
  <2> QED BY <2>1, <2>2, <2>3, StartMappingKeeps
<1>2. CASE mstate # "NONE"
  <2>u. UNCHANGED mapVars
        BY <1>2 DEF AgentConnects, mapVars, cloud
  <2>1. CASE mstate # "DONE"
        BY <2>u, <2>1, OtherKeepsMapping DEF AgentConnects, Agents
  <2>2. CASE mstate = "DONE"
    <3>1. agent' = "run"
          BY <2>2 DEF AgentConnects
    <3> USE DEF mapVars
    <3>2. MapTyped' /\ SingleOK' /\ OwnerOK'
          BY <2>u, <3>1 DEF MInv, MapTyped, SingleOK, OwnerOK, Agents
    <3>3. OrderOK'
          BY <2>u DEF MInv, OrderOK
    <3>4. CleanOK'
          BY <2>u, <2>2, <3>1 DEF MInv, CleanOK, Clean, Cleaner
    <3> QED BY <3>2, <3>3, <3>4 DEF MInv
  <2> QED BY <2>1, <2>2
<1> QED BY <1>1, <1>2

\* Every step keeps it all.
LEMMA MappingInductive == IInv /\ MInv /\ [Next]_vars => MInv'
<1> SUFFICES ASSUME IInv, MInv, [Next]_vars PROVE MInv'
    OBVIOUS
<1>t. agent \in Agents
      BY DEF MInv, MapTyped
<1>1. ASSUME NEW u \in Users, PhoneMaps(u) PROVE MInv'
  <2>1. agent # "init"
        BY <1>1 DEF PhoneMaps, IInv, SessionOK
  <2>2. /\ StartMapping(u) /\ mapped' = IF data' = None THEN mapped ELSE mapped \cup {u}
        /\ agent' = agent
        /\ UNCHANGED <<check, reset, toCloud, acks, owners>>
        BY <1>1 DEF PhoneMaps
  <2>3. mapped \subseteq Users /\ u \in Named
        BY DEF MInv, MapTyped, Named
  <2> QED BY <1>t, <2>1, <2>2, <2>3, StartMappingKeeps
<1>2. CASE AgentClaimed \/ AgentOnWifi \/ GenerateKey
  <2>1. UNCHANGED mapVars
        BY <1>2 DEF AgentClaimed, AgentOnWifi, GenerateKey, mapVars, nvs, mapping, cloud, bounds
  <2>2. agent' = agent \/ agent' \in {"wifi", "failed", "connect"}
        BY <1>2 DEF AgentClaimed, AgentOnWifi, GenerateKey
  <2> QED BY <1>t, <2>1, <2>2, OtherKeepsMapping DEF Agents
<1>3. CASE Claiming
  <2>1. UNCHANGED <<mapVars, agent>>
        BY <1>3 DEF Claiming, ClaimStart, ClaimInitMore, ClaimVerify, ClaimAbort, ClaimInit, mapVars,
                    nvs, mapping, cloud, bounds
  <2> QED BY <1>t, <2>1, OtherKeepsMapping
<1>4. CASE PhoneConnects \/ PhoneLeaves \/ PhoneSkips \/ PhoneSendsCreds
  <2>1. UNCHANGED <<mapVars, agent>>
        BY <1>4 DEF PhoneConnects, PhoneLeaves, PhoneSkips, PhoneSendsCreds, mapVars, nvs, mapping,
                    cloud, bounds
  <2> QED BY <1>t, <2>1, OtherKeepsMapping
<1>5. CASE ProvEnds \/ CredsFail \/ WifiConnects \/ ProvTimesOut \/ UNCHANGED vars
  <2>1. UNCHANGED <<mapVars, agent>>
        BY <1>5 DEF ProvEnds, CredsFail, WifiConnects, ProvTimesOut, vars, mapVars, nvs, mapping,
                    cloud, bounds
  <2> QED BY <1>t, <2>1, OtherKeepsMapping
<1>6. CASE PubAckPanics \/ RebootTimerFires \/ PowerFails
      BY <1>6, RebootKeepsMapping DEF PubAckPanics, RebootTimerFires, PowerFails
<1> QED
    BY <1>1, <1>2, <1>3, <1>4, <1>5, <1>6, MappingCbKeeps, CloudTakesKeeps, PubAckOtherKeeps,
       PubAckMatchesKeeps, ConnectionDropsKeeps, ResetKeepsMapping, BootKeepsMapping, AgentConnectsKeepsMapping
    DEF Next, Node, PhoneActs

\* At start there is no mapping anywhere.
LEMMA MappingInit == Init => MInv
<1> SUFFICES ASSUME Init PROVE MInv
    OBVIOUS
<1>1. Len(queue) = 0 /\ Len(toCloud) = 0 /\ Len(acks) = 0
      BY DEF Init
<1>2. MapTyped
  <2>1. check \in BOOLEAN
        BY OnboardingAssumption DEF Init
  <2>2. queue \in Seq(Entry) /\ toCloud \in Seq(Message) /\ acks \in Seq(Nat)
        BY DEF Init
  <2> QED BY <2>1, <2>2, Zenon DEF Init, MapTyped, Agents
<1>3. OrderOK /\ SingleOK
      BY <1>1 DEF Init, OrderOK, SingleOK
<1>4. CleanOK /\ OwnerOK
      BY <1>1 DEF Init, CleanOK, Clean, OwnerOK
<1> QED BY <1>2, <1>3, <1>4 DEF MInv

-----------------------------------------------------------------------------
(* The types that the two invariants above do not mention. *)

Ids         == [key : Nat, node : NodeIds \cup {Mac}]
ClaimPhases == {"NONE", "PK_GENERATED", "INIT", "INIT_DONE", "CSR_GENERATED", "VERIFY", "VERIFY_DONE"}

RestTyped ==
    /\ key <= keys /\ creds \in {"none", "good", "bad"}
    /\ node_id \in NodeIds \cup {Mac} /\ need_claim \in BOOLEAN /\ claim_bit \in BOOLEAN
    /\ registered \in BOOLEAN /\ ble \in BOOLEAN /\ wifi \in BOOLEAN
    /\ claim \in [state : ClaimPhases, csr : Ids \cup {None}, sent : 0..Fragments]
    /\ claim.state = "INIT_DONE" => claim.sent < Fragments

\* What a fragment does to the claim data.
LEMMA FragmentTyped ==
    ASSUME NEW csr \in Ids \cup {None}, NEW sent \in 1..Fragments, SendFragment(csr, sent)
    PROVE  /\ claim' \in [state : ClaimPhases, csr : Ids \cup {None}, sent : 0..Fragments]
           /\ claim'.state = "INIT_DONE" => claim'.sent < Fragments
BY OnboardingAssumption DEF SendFragment, ClaimPhases

\* Every step keeps those types; a claim that sends fragments has some left to send.
LEMMA RestInductive == IInv /\ RestTyped /\ [Next]_vars => RestTyped'
<1> SUFFICES ASSUME IInv, RestTyped, [Next]_vars PROVE RestTyped'
    OBVIOUS
<1> USE OnboardingAssumption
<1>k. key \in Nat /\ keys \in Nat
      BY DEF IInv, KeyOK
<1>c. NoClaim \in [state : ClaimPhases, csr : Ids \cup {None}, sent : 0..Fragments]
      BY DEF NoClaim, ClaimPhases
<1>1. CASE GenerateKey
      BY <1>1, <1>k DEF GenerateKey, RestTyped, nvs, claiming, mapping, session
<1>2. CASE Boot
  <2>1. claim' \in [state : ClaimPhases, csr : Ids \cup {None}, sent : 0..Fragments] /\ claim'.state # "INIT_DONE"
        BY <1>2, <1>c DEF Boot, NoClaim, ClaimPhases
  <2>2. node_id' \in NodeIds \cup {Mac} /\ need_claim' \in BOOLEAN /\ ble' \in BOOLEAN
        BY <1>2 DEF Boot, IInv, KeyOK
  <2> QED BY <1>2, <2>1, <2>2 DEF Boot, RestTyped, factory, nvs, bounds
<1>3. ASSUME NEW n \in NodeIds, ClaimInit(n) PROVE RestTyped'
  <2>1. Identity(key, n) \in Ids /\ 1 \in 1..Fragments
        BY <1>k DEF Identity, Ids
  <2>2. /\ claim' \in [state : ClaimPhases, csr : Ids \cup {None}, sent : 0..Fragments]
        /\ claim'.state = "INIT_DONE" => claim'.sent < Fragments
        BY <1>3, <2>1, FragmentTyped DEF ClaimInit
  <2> QED BY <1>3, <2>2 DEF ClaimInit, RestTyped, nvs, mapping, bounds
<1>4. CASE ClaimInitMore
  <2>1. claim.csr \in Ids \cup {None} /\ claim.sent + 1 \in 1..Fragments
        BY <1>4 DEF ClaimInitMore, RestTyped
  <2>2. /\ claim' \in [state : ClaimPhases, csr : Ids \cup {None}, sent : 0..Fragments]
        /\ claim'.state = "INIT_DONE" => claim'.sent < Fragments
        BY <1>4, <2>1, FragmentTyped DEF ClaimInitMore
  <2> QED BY <1>4, <2>2 DEF ClaimInitMore, RestTyped, factory, nvs, mapping, bounds
<1>5. CASE ClaimStart \/ ClaimAbort \/ ClaimVerify
  <2>1. claim' \in [state : ClaimPhases, csr : Ids \cup {None}, sent : 0..Fragments] /\ claim'.state # "INIT_DONE"
    <3>1. ASSUME NEW st \in ClaimPhases, claim' = [claim EXCEPT !.state = st, !.sent = 0] \/ claim' = [claim EXCEPT !.state = st]
          PROVE  claim' \in [state : ClaimPhases, csr : Ids \cup {None}, sent : 0..Fragments] /\ claim'.state = st
      <4>1. claim \in [state : ClaimPhases, csr : Ids \cup {None}, sent : 0..Fragments]
            BY DEF RestTyped
      <4>2. 0 \in 0..Fragments
            OBVIOUS
      <4> HIDE DEF Ids, ClaimPhases
      <4> QED BY <3>1, <4>1, <4>2
    <3>2. {"INIT", "PK_GENERATED", "VERIFY_DONE"} \subseteq ClaimPhases
          BY DEF ClaimPhases
    <3> QED BY <1>5, <3>1, <3>2 DEF ClaimStart, ClaimAbort, ClaimVerify
  <2> QED BY <1>5, <2>1 DEF ClaimStart, ClaimAbort, ClaimVerify, RestTyped, factory, nvs, mapping, bounds
<1>6. CASE AgentClaimed
  <2>1. claim' = NoClaim /\ claim'.state # "INIT_DONE"
        BY <1>6 DEF AgentClaimed, NoClaim
  <2> QED BY <1>6, <1>c, <2>1 DEF AgentClaimed, RestTyped, factory, nvs, mapping, session, bounds
<1>7. CASE Reboot
  <2>1. claim' = NoClaim /\ claim'.state # "INIT_DONE"
        BY <1>7 DEF Reboot, NoClaim
  <2> QED BY <1>7, <1>c, <2>1 DEF Reboot, RestTyped, factory
<1>8. CASE AgentOnWifi \/ AgentConnects
      BY <1>8 DEF AgentOnWifi, AgentConnects, RestTyped, factory, nvs, claiming, mapping, session, bounds
<1>9. CASE MappingCb \/ PubAckMatches \/ PubAckOther \/ CloudTakes \/ ConnectionDrops
      BY <1>9 DEF MappingCb, PubAckMatches, PubAckOther, CloudTakes, ConnectionDrops, RestTyped, factory, nvs, claiming,
                  mapping, session, bounds
<1>10. CASE ProvEnds \/ CredsFail \/ WifiConnects \/ ProvTimesOut
      BY <1>10 DEF ProvEnds, CredsFail, WifiConnects, ProvTimesOut, RestTyped, factory, nvs, claiming,
                   mapping, bounds
<1>11. CASE PhoneConnects \/ PhoneLeaves \/ PhoneSkips \/ PhoneSendsCreds
      BY <1>11 DEF PhoneConnects, PhoneLeaves, PhoneSkips, PhoneSendsCreds, RestTyped, factory, nvs,
                   claiming, mapping, bounds
<1>12. ASSUME NEW u \in Users, PhoneMaps(u) PROVE RestTyped'
      BY <1>12 DEF PhoneMaps, RestTyped, factory, claiming
<1>13. CASE FactoryReset \/ WifiReset
      BY <1>13 DEF FactoryReset, WifiReset, RestTyped, factory, claiming, mapping, session
<1>14. CASE UNCHANGED vars
      BY <1>14 DEF vars, RestTyped, factory, nvs, claiming, mapping, session, bounds
<1> QED
    BY <1>1, <1>2, <1>3, <1>4, <1>5, <1>6, <1>7, <1>8, <1>9, <1>10, <1>11, <1>12, <1>13, <1>14
    DEF Next, Node, Claiming, PhoneActs, PubAckPanics, RebootTimerFires, PowerFails

\* The types hold of a node as it leaves the factory.
LEMMA RestInit == Init => RestTyped
<1> SUFFICES ASSUME Init PROVE RestTyped
    OBVIOUS
<1>1. claim \in [state : ClaimPhases, csr : Ids \cup {None}, sent : 0..Fragments] /\ claim.state # "INIT_DONE"
      BY OnboardingAssumption DEF Init, NoClaim, ClaimPhases
<1>2. key <= keys
      BY DEF Init
<1> QED BY <1>1, <1>2, Zenon DEF Init, RestTyped

\* The three invariants together give the types of all variables.
LEMMA AllTyped == IInv /\ MInv /\ RestTyped => TypeOK
<1> SUFFICES ASSUME IInv, MInv, RestTyped PROVE TypeOK
    OBVIOUS
<1>1. key \in 0..keys /\ (key # 0 => key \in 1..keys)
      BY DEF IInv, KeyOK, RestTyped
<1>2. cert \in Identities \cup {None} /\ claim.csr \in Identities \cup {None}
      BY <1>1 DEF IInv, KeyOK, Identities, Identity
<1>3. data # None => data.user \in Users \cup {Dummy} /\ data.msg \in 0..maps
      BY DEF MInv, MapTyped, OrderOK, Data, Named
<1>4. nvs_node_id \in NodeIds \cup {None} /\ claim.sent \in 0..Fragments
      BY DEF IInv, KeyOK, RestTyped
<1> QED
    BY <1>1, <1>2, <1>3, <1>4 DEF MInv, MapTyped, RestTyped, TypeOK, Agents, Named

\* For any number of users, sessions, mappings, failures of the power and resets, with
\* the check of user ids: a user in flash is the node's only owner in the cloud unless
\* mapping data was freed under its callback, and a node that takes commands takes none
\* of users from before a factory reset (esp_rmaker_user_mapping.c).
THEOREM OwnersAreKnown == Spec => []OwnersKnown
<1>1. MInv => StoredUserIsOwner /\ EarlierUsersAreOut
      BY DEF MInv, OwnerOK, CleanOK, Clean, StoredUserIsOwner, EarlierUsersAreOut
<1>2. IInv /\ MInv /\ RestTyped => OwnersKnown
      BY <1>1, AllTyped DEF OwnersKnown
<1> QED
    BY <1>2, IdentityInit, IdentityInductive, MappingInit, MappingInductive, RestInit, RestInductive,
       PTL DEF Spec
=============================================================================
