----------------------------- MODULE Onboarding -----------------------------
(***************************************************************************)
(* How a node gets its identity, its network and its owner: assisted       *)
(* claiming (core/esp_rmaker_claim.c) and user-node mapping                *)
(* (core/esp_rmaker_user_mapping.c) over the BLE session of provisioning   *)
(* (app_wifi.c), the agent that waits for both (core/esp_rmaker_core.c),   *)
(* and the resets (rmaker_common/src/utils.c).  The power may fail at any  *)
(* step; flash survives.                                                   *)
(*                                                                         *)
(* The phone app is not part of the repository.  It is taken to follow the *)
(* protocol: claim a node that is not claimed, send the user's identifier  *)
(* (an app of another cloud does not), then the network's credentials; it  *)
(* may break off at any step and begin again.  The claim service signs the *)
(* request it is given.  Claiming again in a boot that was claimed is left *)
(* out.  A lost MQTT connection takes with it what was on its way; that it *)
(* comes back is left to Connectivity.                                     *)
(***************************************************************************)
EXTENDS Naturals, Sequences

CONSTANTS Users,        \* identifiers of users
          Dummy,        \* "esp-rmaker", the user of a mapping that only resets
          NodeIds,      \* identifiers that the claim service gives
          Mac,          \* the identifier of a node without one
          None,         \* nothing stored, a null pointer (never a block of data)
          Builds,       \* values of CONFIG_ESP_RMAKER_USER_ID_CHECK
          Fragments,    \* fragments of a signing request
          MaxSessions,  \* bound: sessions of the phone
          MaxMaps,      \* bound: mappings that phones ask for
          MaxFailures,  \* bound: failures of the power
          MaxResets     \* bound: resets

ASSUME OnboardingAssumption ==
    /\ Dummy \notin Users /\ None \notin Users \cup {Dummy}
    /\ Mac \notin NodeIds /\ None \notin NodeIds \cup {Mac}
    /\ None \notin [n : Nat, user : Users \cup {Dummy}, msg : Nat]
    /\ Builds \subseteq BOOLEAN /\ Fragments \in Nat \ {0}
    /\ MaxSessions \in Nat /\ MaxMaps \in Nat /\ MaxFailures \in Nat /\ MaxResets \in Nat

VARIABLES
    check,                  \* the build: CONFIG_ESP_RMAKER_USER_ID_CHECK
    key, nvs_node_id, cert, \* factory partition: private key, node id, certificate
    creds, nvs_user,        \* nvs partition: network credentials, user_id
    reset,                  \* the reset after which a reboot is due
    agent,                  \* where esp_rmaker_task is
    node_id, need_claim,    \* members of esp_rmaker_priv_data_t
    conn,                   \* mqtt_conn_params
    claim,                  \* claim_data: state, CSR, fragments sent
    claim_bit,              \* CLAIM_TASK_BIT of claim_event_group
    data, mstate,           \* rmaker_user_mapping_data, rmaker_user_mapping_state
    registered,             \* whether PUBACKs are handled by the mapping
    queue,                  \* mappings in the work queue, behind the agent
    ble, wifi,              \* provisioning session open, station has an address
    phone,                  \* the phone: where it is, and what it holds
    toCloud, acks,          \* mappings and their PUBACKs on their way
    owners,                 \* the users that the cloud has mapped to the node
    mapped,                 \* history: users who mapped since the last factory reset
    dangled,                \* history: data was freed whose callback was still queued
    missed,                 \* history: the mapping begun last was refused or lost
    keys, sessions, maps, failures, resets

factory == <<key, nvs_node_id, cert>>
nvs == <<creds, nvs_user, reset>>
claiming == <<claim, claim_bit, node_id, need_claim, conn>>
mapping == <<data, mstate, registered, queue, dangled, missed>>
session == <<ble, wifi, phone>>
cloud == <<toCloud, acks, owners, mapped>>
bounds == <<keys, sessions, maps, failures, resets>>
vars == <<check, factory, nvs, agent, claiming, mapping, session, cloud, bounds>>

ClaimStates == <<"PK_GENERATED", "INIT", "INIT_DONE", "CSR_GENERATED", "VERIFY", "VERIFY_DONE">>
AtLeast(state) ==
    \E i, j \in 1..6 : ClaimStates[i] = claim.state /\ ClaimStates[j] = state /\ i >= j

NoConn == [client |-> None, key |-> 0, cert |-> None]
NoClaim == [state |-> "NONE", csr |-> None, sent |-> 0]
Phone(pc) == [pc |-> pc, got |-> 0, cert |-> None]
Identity(k, n) == [key |-> k, node |-> n]

Init ==
    /\ check \in Builds
    /\ key = 0 /\ nvs_node_id = None /\ cert = None
    /\ creds = "none" /\ nvs_user = None
    /\ agent = "init" /\ node_id = Mac /\ need_claim = FALSE /\ conn = NoConn
    /\ claim = NoClaim /\ claim_bit = FALSE
    /\ data = None /\ mstate = "NONE" /\ registered = FALSE /\ queue = << >>
    /\ ble = FALSE /\ wifi = FALSE /\ phone = Phone("away") /\ reset = "none"
    /\ toCloud = << >> /\ acks = << >>
    /\ owners = {} /\ mapped = {} /\ dangled = FALSE /\ missed = FALSE
    /\ keys = 0 /\ sessions = 0 /\ maps = 0 /\ failures = 0 /\ resets = 0

-----------------------------------------------------------------------------
(***************************************************************************)
(* The boot: esp_rmaker_init, then app_wifi_start.                         *)
(***************************************************************************)

\* __esp_rmaker_claim_init: the key is generated once and stored.
GenerateKey ==
    /\ agent = "init" /\ key = 0
    /\ key' = keys + 1 /\ keys' = keys + 1
    /\ UNCHANGED <<check, nvs_node_id, cert, nvs, agent, claiming, mapping, session,
                   cloud, sessions, maps, failures, resets>>

\* What esp_rmaker_get_mqtt_conn_params reads from flash.
MqttConnParams(id) ==
    IF cert = None THEN NoConn ELSE [client |-> id, key |-> key, cert |-> cert]

Boot ==
    /\ agent = "init" /\ key # 0
    /\ LET id == IF nvs_node_id = None THEN Mac ELSE nvs_node_id
       IN  node_id' = id /\ conn' = MqttConnParams(id)
    /\ need_claim' = (cert = None)
    /\ claim' = IF cert = None THEN [NoClaim EXCEPT !.state = "PK_GENERATED"] ELSE NoClaim
    /\ agent' = IF cert = None THEN "claim" ELSE "wifi"
    /\ mstate' = IF ~check \/ nvs_user # None THEN "DONE" ELSE "NONE"
    /\ ble' = (creds = "none")
    /\ UNCHANGED <<check, factory, nvs, claim_bit, data, registered, queue, dangled, missed,
                   wifi, phone, cloud, bounds>>

-----------------------------------------------------------------------------
(***************************************************************************)
(* The phone and the BLE session.                                          *)
(***************************************************************************)
PhoneConnects ==
    /\ ble /\ phone.pc = "away" /\ sessions < MaxSessions
    /\ sessions' = sessions + 1
    /\ phone' = Phone(IF need_claim /\ cert = None THEN "start" ELSE "map")
    /\ UNCHANGED <<check, factory, nvs, agent, claiming, mapping, ble, wifi, cloud,
                   keys, maps, failures, resets>>

PhoneLeaves ==
    /\ phone.pc # "away"
    /\ phone' = Phone("away")
    /\ UNCHANGED <<check, factory, nvs, agent, claiming, mapping, ble, wifi, cloud, bounds>>

\* esp_rmaker_assisted_claim_handle_start
ClaimStart ==
    /\ phone.pc = "start" /\ AtLeast("PK_GENERATED")
    /\ claim' = [claim EXCEPT !.state = "INIT", !.sent = 0]
    /\ phone' = Phone("init")
    /\ UNCHANGED <<check, factory, nvs, agent, claim_bit, node_id, need_claim, conn,
                   mapping, ble, wifi, cloud, bounds>>

\* The next fragment of the request goes to the phone, which has the whole of it
\* signed once it has every fragment.
SendFragment(csr, sent) ==
    /\ claim' = [state |-> IF sent = Fragments THEN "VERIFY" ELSE "INIT_DONE",
                 csr |-> csr, sent |-> sent]
    /\ phone' = [pc |-> IF sent = Fragments THEN "verify" ELSE "init",
                 got |-> sent,
                 cert |-> IF sent = Fragments /\ phone.got = sent - 1 THEN csr ELSE None]

\* Mutant: the request is made before the node id is changed.
ClaimInitCsrFirst(n) ==
    /\ phone.pc = "init" /\ AtLeast("INIT") /\ claim.state # "INIT_DONE"
    /\ nvs_node_id' = n /\ node_id' = n
    /\ SendFragment(Identity(key, node_id), 1)
    /\ UNCHANGED <<check, key, cert, nvs, agent, claim_bit, need_claim, conn, mapping,
                   ble, wifi, cloud, bounds>>

\* esp_rmaker_assisted_claim_handle_init: the first command carries the node id,
\* the following ones only ask for more of the request.
ClaimInit(n) ==
    /\ phone.pc = "init" /\ AtLeast("INIT") /\ claim.state # "INIT_DONE"
    /\ nvs_node_id' = n /\ node_id' = n
    /\ SendFragment(Identity(key, n), 1)
    /\ UNCHANGED <<check, key, cert, nvs, agent, claim_bit, need_claim, conn, mapping,
                   ble, wifi, cloud, bounds>>

ClaimInitMore ==
    /\ phone.pc = "init" /\ claim.state = "INIT_DONE"
    /\ SendFragment(claim.csr, claim.sent + 1)
    /\ UNCHANGED <<check, factory, nvs, agent, claim_bit, node_id, need_claim, conn,
                   mapping, ble, wifi, cloud, bounds>>

\* Mutant: the agent is not told.
ClaimVerifyQuiet ==
    /\ phone.pc = "verify" /\ AtLeast("VERIFY") /\ phone.cert # None
    /\ cert' = phone.cert
    /\ claim' = [claim EXCEPT !.state = "VERIFY_DONE"]
    /\ phone' = Phone("map")
    /\ UNCHANGED <<check, key, nvs_node_id, nvs, agent, claim_bit, node_id, need_claim,
                   conn, mapping, ble, wifi, cloud, bounds>>

\* esp_rmaker_assisted_claim_handle_verify, when the last fragment has come.
ClaimVerify ==
    /\ phone.pc = "verify" /\ AtLeast("VERIFY") /\ phone.cert # None
    /\ cert' = phone.cert
    /\ claim' = [claim EXCEPT !.state = "VERIFY_DONE"]
    /\ claim_bit' = TRUE
    /\ phone' = Phone("map")
    /\ UNCHANGED <<check, key, nvs_node_id, nvs, agent, node_id, need_claim, conn,
                   mapping, ble, wifi, cloud, bounds>>

ClaimAbort ==
    /\ phone.pc \in {"init", "verify"}
    /\ claim' = [claim EXCEPT !.state = "PK_GENERATED", !.sent = 0]
    /\ phone' = Phone("away")
    /\ UNCHANGED <<check, factory, nvs, agent, claim_bit, node_id, need_claim, conn,
                   mapping, ble, wifi, cloud, bounds>>

-----------------------------------------------------------------------------
(***************************************************************************)
(* User-node mapping.                                                      *)
(***************************************************************************)

\* esp_rmaker_user_mapping_detect_reset; a partition that was erased cannot be
\* opened.
DetectReset(u) == check /\ (reset = "factory" \/ nvs_user # u)

\* The new data goes into the work queue; other work may have filled it, and the data
\* is then freed again.
QueueMapping(u) ==
    \/ /\ data' = [n |-> maps', user |-> u, msg |-> 0]
       /\ queue' = Append(queue, [n |-> maps', user |-> u])
       /\ missed' = FALSE
    \/ data' = None /\ missed' = TRUE /\ UNCHANGED queue

\* Mutant: the user id of an earlier user stays in flash.
StartMappingKeepsUser(u) ==
    /\ maps' = maps + 1
    /\ mstate' = IF DetectReset(u) THEN "STARTED" ELSE "DONE"
    /\ dangled' = (dangled \/ (data # None /\ queue # << >>))
    /\ QueueMapping(u)
    /\ UNCHANGED nvs_user

\* esp_rmaker_start_user_node_mapping: data of an earlier call is freed, also if
\* its callback is still queued.
StartMapping(u) ==
    /\ maps' = maps + 1
    /\ mstate' = IF DetectReset(u) THEN "STARTED" ELSE "DONE"
    /\ nvs_user' = IF DetectReset(u) THEN None ELSE nvs_user
    /\ dangled' = (dangled \/ (data # None /\ queue # << >>))
    /\ QueueMapping(u)

\* The phone is told when the mapping was refused, and may try again.
PhoneMaps(u) ==
    /\ phone.pc = "map" /\ maps < MaxMaps
    /\ StartMapping(u)
    /\ mapped' = IF data' = None THEN mapped ELSE mapped \cup {u}
    /\ phone' = Phone(IF data' = None THEN "map" ELSE "creds")
    /\ UNCHANGED <<check, factory, creds, reset, agent, claiming, registered, ble, wifi,
                   toCloud, acks, owners, keys, sessions, failures, resets>>

\* An app that does not know of user-node mapping.
PhoneSkips ==
    /\ phone.pc = "map"
    /\ phone' = Phone("creds")
    /\ UNCHANGED <<check, factory, nvs, agent, claiming, mapping, ble, wifi, cloud, bounds>>

\* Mutant: only a mapping that resets is published.
MappingCbResetOnly ==
    /\ agent \in {"run", "waiting"} /\ queue # << >>
    /\ queue' = Tail(queue) /\ registered' = TRUE
    /\ IF data # None /\ mstate # "DONE"
       THEN /\ toCloud' = Append(toCloud, [msg |-> Head(queue).n, user |-> data.user,
                                           reset |-> TRUE])
            /\ data' = [data EXCEPT !.msg = Head(queue).n]
       ELSE UNCHANGED <<toCloud, data>>
    /\ UNCHANGED <<check, factory, nvs, agent, claiming, mstate, dangled, missed, session,
                   acks, owners, mapped, bounds>>

\* esp_rmaker_user_mapping_cb publishes what its argument points to.  What was
\* freed is intact, is the block of the new data, or holds something else.  A publish
\* that fails is logged and not tried again: nothing is sent, or the message stays in
\* the outbox and its identifier is not noted.
MappingCb ==
    /\ agent \in {"run", "waiting"} /\ queue # << >>
    /\ queue' = Tail(queue) /\ registered' = TRUE
    /\ LET cb == Head(queue)
           Publish(u) == toCloud' = Append(toCloud, [msg |-> cb.n, user |-> u,
                                                     reset |-> mstate # "DONE"])
       IN  \/ /\ data # None /\ Publish(data.user)
              /\ \/ data' = [data EXCEPT !.msg = cb.n] /\ UNCHANGED missed
                 \/ missed' = TRUE /\ UNCHANGED data
           \/ /\ IF data = None THEN TRUE ELSE data.n # cb.n
              /\ \E u \in {cb.user, None} : Publish(u)
              /\ UNCHANGED <<data, missed>>
           \/ missed' = TRUE /\ UNCHANGED <<toCloud, data>>
    /\ UNCHANGED <<check, factory, nvs, agent, claiming, mstate, dangled, session, acks, owners,
                   mapped, bounds>>

\* The cloud forgets earlier users when told of a reset.
CloudTakes ==
    /\ toCloud # << >>
    /\ toCloud' = Tail(toCloud)
    /\ LET m == Head(toCloud)
       IN  /\ acks' = Append(acks, m.msg)
           /\ owners' = IF m.user = None THEN owners
                        ELSE (IF m.reset THEN {} ELSE owners) \cup ({m.user} \cap Users)
    /\ UNCHANGED <<check, factory, nvs, agent, claiming, mapping, session, mapped, bounds>>

\* The MQTT task ends with its connection and deletes what was not acknowledged.
ConnectionDrops ==
    /\ toCloud # << >> \/ acks # << >>
    /\ toCloud' = << >> /\ acks' = << >> /\ missed' = TRUE
    /\ UNCHANGED <<check, factory, nvs, agent, claiming, data, mstate, registered, queue,
                   dangled, session, owners, mapped, bounds>>

\* RAM is lost, and with it the connection to the cloud.
Reboot ==
    /\ agent' = "init" /\ node_id' = Mac /\ need_claim' = FALSE /\ conn' = NoConn
    /\ claim' = NoClaim /\ claim_bit' = FALSE
    /\ data' = None /\ mstate' = "NONE" /\ registered' = FALSE /\ queue' = << >>
    /\ ble' = FALSE /\ wifi' = FALSE /\ phone' = Phone("away") /\ reset' = "none"
    /\ toCloud' = << >> /\ acks' = << >> /\ missed' = FALSE
    /\ UNCHANGED <<check, factory, creds, nvs_user, owners, mapped, dangled, keys, sessions,
                   maps, resets>>

\* esp_rmaker_user_mapping_event_handler, RMAKER_MQTT_EVENT_PUBLISHED: the user is
\* stored when the acknowledgement of the mapping comes, and the agent's handler
\* subscribes to the parameters.
PubAckMatches ==
    /\ acks # << >> /\ registered /\ data # None /\ data.msg = Head(acks)
    /\ acks' = Tail(acks)
    /\ mstate' = "DONE"
    /\ nvs_user' = IF check /\ reset # "factory" THEN data.user ELSE nvs_user
    /\ data' = None /\ registered' = FALSE
    /\ agent' = IF agent = "waiting" THEN "run" ELSE agent
    /\ UNCHANGED <<check, factory, creds, reset, claiming, queue, dangled, missed, session,
                   toCloud, owners, mapped, bounds>>

PubAckOther ==
    /\ acks # << >>
    /\ ~registered \/ (data # None /\ data.msg # Head(acks))
    /\ acks' = Tail(acks)
    /\ UNCHANGED <<check, factory, nvs, agent, claiming, mapping, session, toCloud, owners,
                   mapped, bounds>>

\* The handler reads through a null pointer: the node panics and restarts.
PubAckPanics ==
    /\ acks # << >> /\ registered /\ data = None
    /\ Reboot /\ UNCHANGED failures

-----------------------------------------------------------------------------
(***************************************************************************)
(* The network's credentials and the end of provisioning.                  *)
(***************************************************************************)
PhoneSendsCreds ==
    /\ phone.pc = "creds" /\ creds = "none" /\ reset = "none"
    /\ creds' \in {"good", "bad"}
    /\ phone' = Phone("trying")
    /\ UNCHANGED <<check, factory, nvs_user, reset, agent, claiming, mapping, ble, wifi,
                   cloud, bounds>>

\* WIFI_PROV_CRED_SUCCESS and WIFI_PROV_END.
ProvEnds ==
    /\ ble /\ creds = "good"
    /\ wifi' = TRUE /\ ble' = FALSE /\ phone' = Phone("away")
    /\ UNCHANGED <<check, factory, nvs, agent, claiming, mapping, cloud, bounds>>

\* WIFI_PROV_CRED_FAIL: the credentials are forgotten, the session goes on.
CredsFail ==
    /\ ble /\ creds = "bad"
    /\ creds' = "none"
    /\ phone' = IF phone.pc = "trying" THEN Phone("creds") ELSE phone
    /\ UNCHANGED <<check, factory, nvs_user, reset, agent, claiming, mapping, ble, wifi,
                   cloud, bounds>>

\* prov_timeout_timer_cb; every event of provisioning starts the timer again.
ProvTimesOut ==
    /\ ble /\ creds = "none"
    /\ ble' = FALSE /\ phone' = Phone("away")
    /\ UNCHANGED <<check, factory, nvs, agent, claiming, mapping, wifi, cloud, bounds>>

WifiConnects ==
    /\ agent # "init" /\ ~ble /\ creds = "good" /\ ~wifi
    /\ wifi' = TRUE
    /\ UNCHANGED <<check, factory, nvs, agent, claiming, mapping, ble, phone, cloud, bounds>>

-----------------------------------------------------------------------------
(***************************************************************************)
(* The agent, esp_rmaker_task.                                             *)
(***************************************************************************)

\* esp_rmaker_assisted_claim_perform returns and frees the claim data.
AgentClaimed ==
    /\ agent = "claim" /\ claim_bit
    /\ agent' = IF claim.state = "VERIFY_DONE" THEN "wifi" ELSE "failed"
    /\ claim' = NoClaim
    /\ UNCHANGED <<check, factory, nvs, claim_bit, node_id, need_claim, conn, mapping,
                   session, cloud, bounds>>

AgentOnWifi ==
    /\ agent = "wifi" /\ wifi
    /\ agent' = "connect"
    /\ conn' = IF need_claim THEN MqttConnParams(node_id) ELSE conn
    /\ need_claim' = FALSE
    /\ UNCHANGED <<check, factory, nvs, claim, claim_bit, node_id, mapping, session,
                   cloud, bounds>>

\* MQTT is up.  A node that nobody has begun to map takes itself from its users.
AgentConnects ==
    /\ agent = "connect"
    /\ agent' = IF mstate = "DONE" THEN "run" ELSE "waiting"
    /\ IF mstate = "NONE" THEN StartMapping(Dummy)
                          ELSE UNCHANGED <<maps, data, queue, mstate, nvs_user, dangled, missed>>
    /\ UNCHANGED <<check, factory, creds, reset, claiming, registered, session, cloud,
                   keys, sessions, failures, resets>>

-----------------------------------------------------------------------------
(***************************************************************************)
(* Resets and failures of the power.                                       *)
(***************************************************************************)
FactoryReset ==
    /\ agent # "init" /\ reset = "none" /\ resets < MaxResets
    /\ resets' = resets + 1 /\ reset' = "factory"
    /\ creds' = "none" /\ nvs_user' = None /\ mapped' = {}
    /\ UNCHANGED <<check, factory, agent, claiming, mapping, session, toCloud, acks, owners,
                   keys, sessions, maps, failures>>

WifiReset ==
    /\ agent # "init" /\ reset = "none" /\ resets < MaxResets
    /\ resets' = resets + 1 /\ reset' = "wifi"
    /\ creds' = "none"
    /\ UNCHANGED <<check, factory, nvs_user, agent, claiming, mapping, session, cloud,
                   keys, sessions, maps, failures>>

RebootTimerFires == reset # "none" /\ Reboot /\ UNCHANGED failures

PowerFails == failures < MaxFailures /\ failures' = failures + 1 /\ Reboot

Node ==
    \/ GenerateKey \/ Boot \/ AgentClaimed \/ AgentOnWifi \/ AgentConnects \/ MappingCb
    \/ PubAckMatches \/ PubAckOther \/ PubAckPanics \/ ProvEnds \/ CredsFail
    \/ WifiConnects

Claiming ==
    \/ ClaimStart \/ ClaimInitMore \/ ClaimVerify \/ ClaimAbort
    \/ \E n \in NodeIds : ClaimInit(n)

PhoneActs ==
    \/ PhoneConnects \/ PhoneLeaves \/ PhoneSkips \/ PhoneSendsCreds
    \/ \E u \in Users : PhoneMaps(u)

Next ==
    \/ Node \/ Claiming \/ PhoneActs \/ CloudTakes \/ ConnectionDrops \/ ProvTimesOut
    \/ FactoryReset \/ WifiReset \/ RebootTimerFires \/ PowerFails

Spec == Init /\ [][Next]_vars

\* The node's threads, the cloud and the timer go on; the phone need not.
FairSpec == Spec /\ WF_vars(Node) /\ WF_vars(CloudTakes) /\ WF_vars(RebootTimerFires)

-----------------------------------------------------------------------------
(***************************************************************************)
(* Properties                                                              *)
(***************************************************************************)
Identities == [key : 1..keys, node : NodeIds \cup {Mac}]

\* Every variable has its type.
TypeOK ==
    /\ check \in BOOLEAN /\ key \in 0..keys
    /\ nvs_node_id \in NodeIds \cup {None} /\ cert \in Identities \cup {None}
    /\ creds \in {"none", "good", "bad"} /\ nvs_user \in Users \cup {Dummy, None}
    /\ reset \in {"none", "wifi", "factory"}
    /\ agent \in {"init", "claim", "wifi", "connect", "run", "waiting", "failed"}
    /\ node_id \in NodeIds \cup {Mac} /\ need_claim \in BOOLEAN /\ claim_bit \in BOOLEAN
    /\ claim.csr \in Identities \cup {None} /\ claim.sent \in 0..Fragments
    /\ mstate \in {"NONE", "STARTED", "DONE"} /\ registered \in BOOLEAN
    /\ data # None => data.user \in Users \cup {Dummy} /\ data.msg \in 0..maps
    /\ ble \in BOOLEAN /\ wifi \in BOOLEAN
    /\ owners \subseteq Users /\ mapped \subseteq Users

\* Whatever breaks off claiming and whenever the power fails, a stored certificate
\* is of the stored key and names the stored node id.
CredentialsMatch == cert # None => cert = Identity(key, nvs_node_id)

\* An agent past claiming connects to the broker as the node that its certificate
\* names, also in the boot in which claiming changed the node id.
ConnectsAsClaimed ==
    agent \in {"connect", "run", "waiting"} => conn.cert = Identity(conn.key, conn.client)

\* With the check of user ids, a user id in flash is of the node's only owner in the
\* cloud, so that a boot which finds one may go on without mapping.  A mapping that
\* frees the data of an earlier one before its callback has run breaks this.
StoredUserIsOwner ==
    check /\ nvs_user # None /\ ~dangled => owners = {nvs_user} \cap Users

\* With the check, a node that takes commands after a factory reset takes none of
\* users from before it ("so that the earlier user won't even see the connectivity
\* and other status", esp_rmaker_core.c:330).
EarlierUsersAreOut == check /\ agent = "run" /\ reset = "none" => owners \subseteq mapped

\* A node with a certificate and good credentials gets to where it takes commands,
\* or loses them in a reset: no wait of the agent, for claiming, for the network or
\* for the mapping, goes on for ever, but for one.  A mapping that the work queue or
\* the MQTT library refused, or that a connection took with it, is not tried again in
\* this boot, and the agent waits for its acknowledgement.
ComesOnline ==
    creds = "good" /\ cert # None ~>
        agent = "run" \/ creds # "good" \/ (agent = "waiting" /\ missed)

\* A user who is mapped over BLE gets to be an owner, unless the mapping is refused or
\* lost (and then not tried again), the node restarts or is mapped again before, or
\* never gets credentials.
MappingReaches ==
    \A u \in Users : data # None /\ data.user = u /\ creds = "good" ~>
                        u \in owners \/ missed \/ data = None \/ data.user # u \/ creds # "good"

\* The identity in flash and the one that the agent uses are consistent, wherever
\* claiming broke off.
IdentityInv == CredentialsMatch /\ ConnectsAsClaimed

\* With the check of user ids, the node and the cloud agree on the owner, and owners
\* from before a factory reset are out; every variable has its type.
OwnersKnown == TypeOK /\ StoredUserIsOwner /\ EarlierUsersAreOut
=============================================================================
