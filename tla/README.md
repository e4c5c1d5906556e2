# A verification project for the WS38 single-live-wire dimmer

The repository builds the firmware of a wall dimmer on an ESP32-C3: the
application `projects/single_live_wire_switch`, Espressif's RainMaker agent
(`components/esp-rainmaker`) and a patched MQTT client (`patch/component_lib/mqtt`).
This directory models the parts of it that run concurrently or compute with time,
checks them with TLC on small instances, and proves the central properties of
all nine models with TLAPS for all instances.

Paths below are relative to the repository; `main/` stands for
`projects/single_live_wire_switch/main/`.

## 1. The system

### Components, their state and their operations

| Component | State it keeps | Operations | What makes it correct |
|---|---|---|---|
| Wi-Fi reconnect strategy (`main/app_event.c`) | phase, one failure counter per phase, `is_connected`, a one-shot timer | handlers of STA_START, STA_DISCONNECTED, GOT_IP; the timer's callback | a station that is not connected always has a next attempt; phases change exactly at their limits; `is_connected` follows the driver |
| MQTT reconnecting (`main/app_rainmaker.c`) | a 60 s one-shot timer, SNTP on/off | handler of MQTT_DISCONNECTED, timer callback, start on GOT_IP | an idle client with Wi-Fi always has a next attempt |
| MQTT client (patched esp-mqtt) | `state`, `run`, its task; outbox, packet identifiers, pending count, keepalive | start, the task's loop, publish, subscribe, resend, expire, ping, abort, stop | one task per client; a message is reported as published once and only when the broker has it; dead peers are noticed |
| MQTT glue (`esp-mqtt-glue.c`) | the table of subscriptions | subscribe, unsubscribe, resubscribe on CONNECTED, disconnect | the broker knows the table's topics; disconnecting empties it |
| RainMaker agent (`esp_rmaker_core.c`) | its event group, its place in the work queue | `esp_rmaker_task`: wait for Wi-Fi, connect, wait for MQTT, report | the node comes on line unless the agent gives up by its own rule |
| Work queue (`rmaker_common/src/work_queue.c`) | queue, `queue_state`, its task | init, deinit, start, stop, add | accepted work is executed once, in order, by one task |
| Supply monitor (`main/ic2_ctrl.c`) | `ic2_cnt` | a reading, low or high | the radio is off exactly while the supply is bad |
| Light MCU link (`main/app_uart.c`) | one-slot mailbox, flags, wake-up pin, two timers | put a command, sender task, interrupt, timer callbacks, receive | light, firmware and cloud end up agreeing; nothing waits for ever |
| Brightness control (`main/bri_ctrl.c`) | on/off, brightness | set, with a range check | see the link |
| Start and power lock (`main/app_main.c`) | `lock_status`, `s_wifi_init_end_flag` | `app_main`, `stop_/start_power_save` | the lock is released only while held |
| Schedules (`esp_schedule.c`, `esp_rmaker_schedule.c`) | per schedule: trigger, next time (in both layers), timer, enabled | add, edit, remove, enable, disable, trigger | triggers at exactly the instants the settings name, and stops when disabled or expired |
| Provisioning (`app_wifi.c`) | credentials, the session, a timeout | connect, credentials, success, failure, timeout | a node with credentials comes on line |
| Claiming (`esp_rmaker_claim.c`) | key, node id, certificate in flash; state, request, fragments sent | start, init, verify, abort, the agent's wait | the three in flash belong together, and the node connects with them |
| User-node mapping (`esp_rmaker_user_mapping.c`) | mapping data, its state, user id in flash | start, queued callback, PUBACK | flash and cloud agree on the owner; earlier owners are out |
| Parameters (`esp_rmaker_param.c`) | value, flags, stored value, a shared buffer | update, store, report, notify, report everything | flash and cloud have the node's values |
| OTA (`esp_rmaker_ota*.c`) | URL, `ota_in_progress`, two partitions | URL callback, work function, reboot | updates are atomic, alone, reported and cleaned up |
| Reset utilities (`utils.c`) | a reboot timer | delayed reboot, Wi-Fi reset, factory reset | see OTA and mapping |
| Local control, console, JSON, QR code, esp-qcloud, lwIP patch | | | not modelled, see section 7 |

### How they interact

The default event loop serialises the handlers of `app_event.c` and
`app_rainmaker.c`; it is fed by the Wi-Fi driver, the IP stack and the MQTT task.
The esp_timer task (priority 22) runs the callbacks of the reconnect timers and of
the wake-up pin; the FreeRTOS timer task (priority 1) those of schedules and
provisioning. The work queue (priority 5) runs the agent first and everything
that other contexts hand over; the MQTT task (priority 5) runs the cloud's writes.
The senders and the UART task have priority 12. The chip has one core, so a task
only moves while those of higher priority are blocked. Almost all shared state is
plain global variables without locks; the MQTT client is the exception.

### What is hard

* one-shot timers that are the only way on: a lost arming ends reconnecting;
* results that are ignored (`esp_timer_start_once`, `esp_rmaker_work_queue_add_task`);
* flags tested in one task and set in another (`ucSendTaskHandle_Flag`,
  `ucRxTaskHandle_Flag`, `lock_status`, `queue_state`, `run`);
* events handled after the state they tell of has changed again;
* a state that is decided in two layers (schedules) or stored three times
  (brightness: firmware, MCU, cloud; the owner: memory, flash, cloud);
* exchanges of several steps with a phone, a broker or a server that break off, are
  repeated, or end with the power (claiming, mapping, downloads, QoS 1);
* buffers, flags and pointers that several tasks use without a lock (parameters, the
  OTA's URL, the mapping's data);
* arithmetic at the ends of weeks, months, years and of 32 bits.

`PROJECT.json` lists each such place with its line and the properties aimed at it.

## 2. Modules

| Module | Models | Composition |
|---|---|---|
| `ConnectStrategy` | `wifi_custom_connect_*` of `app_event.c` | state and operators, used by `Connectivity` |
| `Connectivity` | event loop, both reconnect timers, MQTT client and task, agent, supply monitor | `EXTENDS ConnectStrategy` |
| `ConnectivityProofs` | | theorems about `Connectivity` |
| `McuLink` | mailbox, senders, wake-up pin, UART task, brightness, the cloud's writes | |
| `McuLinkProofs` | | theorems about `McuLink` |
| `WorkQueue` | `work_queue.c` and its callers | implements `FifoExecutor` |
| `FifoExecutor` | abstract: functions are accepted, executed in order, or dropped as a whole | |
| `WorkQueueProofs` | | theorems about `WorkQueue`, with the refinement |
| `MqttSession` | the client's outbox, acknowledgements, resends and keepalive; the glue's table; the broker and the network | implements `AtLeastOnce`; the client's task as a whole is in `Connectivity` |
| `AtLeastOnce` | abstract: messages are offered, arrive, are confirmed once or given up | |
| `MqttSessionProofs` | | theorems about `MqttSession`, with the refinement |
| `Ota` | the URL's callback, the work function, the partitions, the reboot | implements `AtomicUpdate`; its place in the work queue is `WorkQueue`'s |
| `AtomicUpdate` | abstract: one whole image runs, and changes at a restart | |
| `OtaProofs` | | theorems about `Ota`, with the refinement |
| `Onboarding` | claiming, mapping and provisioning over one BLE session, the agent, resets, flash | composes five components |
| `OnboardingProofs` | | theorems about `Onboarding` |
| `NodeParams` | updating, storing and reporting parameters from several tasks | |
| `NodeParamsProofs` | | theorems about `NodeParams` |
| `Schedule` | one schedule in both layers, its timer, its work callback, the time arithmetic | |
| `ScheduleList` | the list of schedules: the cloud's operations, timers, work callbacks, setting of the clock, flash and restarts | takes a schedule's triggers, which `Schedule` computes, as events |
| `ScheduleProofs` | | theorems about `Schedule` and `ScheduleList` |
| `MC...` | the values of the constants for TLC | |

The `map` of `PROJECT.json` gives, for every definition that models code, the file,
the lines and the function. Definitions keep the source's names where there is a
function for them; a function that other tasks can interleave with is several
actions, named for what the step does. Operators whose comment begins with
"Mutant" are plausible wrong versions of the definition after them. No
specification uses them; they show that a property can fail.

### Connectivity

One variable per piece of state: the driver (`sta`), the queued events (`evq`, at
most `QueueSize`; a post waits for a slot), the two timers, the fields `state` and
`run` of the client, the step its task is at, the step the agent is at. A handler
of the event loop is one action, because nothing it calls waits and the tasks that
could preempt it do not touch what it uses between two accesses; the exceptions
are split. `esp_mqtt_client_start` is two steps, since it gives the API lock back
before the new task has run, and the end of an MQTT connection is four: abort, post
DISCONNECTED, leave the loop, end of the task. The MQTT task and
`esp_mqtt_client_start` exclude each other by the API lock (`ApiLockFree`).

How long things take is left out: an armed timer fires at some time, an attempt
succeeds or fails according to `ap` and `broker`, which change freely. One
timing fact is kept. The 60 s timer is either `armed` or `due`; with `NarrowWindow`
FALSE, the checked value, its callback runs before or after, not within, the milliseconds
in which an MQTT task starts or ends. Section 4 says what this excludes.

Init is the state after `app_wifi_start` of a provisioned node.

### McuLink

The mailbox is written field by field (`PutCmd`, `PutDat`, `PutSum`), the sender
copies it, clears the flag, may wake the MCU, transmits, reports, and clears the
flag once more. Each of these is an action, because a writer can get in between.
`HighIdle` states the scheduling: the cloud's thread moves only while the UART task
and the senders are blocked; interrupt and esp_timer callbacks are always possible.
The MCU (external) follows the protocol the code assumes: it lowers the pin, sends its
frame and raises the pin. Received frames arrive whole; the header search is left out.
Three constants choose the environment: `CloudOverlap` (commands may come while the
link is busy, a transfer of the MCU included), `McuActs` (the light is operated at the switch, when the link is at rest), `WifiDrops`. What the MCU says is reported only while
`s_wifi_init_end_flag` is set, that is from the end of `app_main` (`AppMainEnds`, line 176, long after
the first command has gone out at line 147) until the first loss of the connection.
`report.withheld` is history: the commands whose last change was withheld. A sender's last
poll of the receive flag and its taking of the pin are one step (`WakeMcu`).

### WorkQueue

`work_queue.c` with two generations of its task (`Tasks`), the state variable and
the queue. The step between the creation of the task and the assignment of RUNNING,
and the one between INIT_DONE and the deletion of the task, are states of their own.
Functions are model values; the agent's is distinguished. `accepted` and `executed` are
history variables, bounded by `MaxAccepted`.

### Schedule

Time is a number of ticks on a calendar of `TicksPerDay` ticks, `DaysPerMonth` days
and 12 months; the seven days of the week run across it. The search for the next day
and month is the code's, with the same masks; a bit is tested, cleared and masked by division by
its value (`Bit`, `HasBit`, `Clear`, `Above`), which the prover can reason about. `Settings` are the
well-formed triggers: masks of 7 days and 12 months, a time within the day, a day within the month. `Named(t)` says which instants
the settings name without searching, and is what the search is checked against. The timer
counts down ticks; its period is reduced modulo `PeriodRange`, as the code's 32-bit
product is (`Period`; what is left may be rounded up, since the range is not a whole number of seconds),
and `wrapped` says that it was. The callback is two steps, before and after it has queued the action;
with `Preempted` TRUE other tasks run in between. Any trigger may be refused by the work queue, which other
work fills; `lost` says that the last one was.

### ScheduleList

`schedule_list` is a sequence of records with the fields of `esp_rmaker_schedule_t`, of
which the trigger is reduced to "once" or "repeat" and `next_timestamp` to none, ahead or
passed. The cloud's operations are one action each. One request
carries one operation; a request with several would be a sequence of them with one report.
A report is two steps, on the MQTT task or on the work queue: the operation's own action ends with a copy of the
list (`Copied`, the JSON of `esp_rmaker_schedule_get_params`, which holds what `Written` keeps of a schedule), and `StoreReport`
stores that copy later, whatever was stored meanwhile. `copies` has the copy of each task and the one in flash (`stored`), `newest`
says where the newest is. A task does nothing else until its report is stored. Reading the list for
the copy is one step. Callbacks of timers may be refused by the work queue, which other work fills (`lost`,
`refused`).
The work callback is two actions, around the execution of the schedule's action, and the
synchronisation of the clock is a timer, a queued callback and the loop that
enables what waits. `Restart` empties everything but `stored`, loads it as `write_cb` does for
the source "init", and lets any time that was ahead pass; reports not yet stored are gone. `born`, `lost`, `refused`, `fired`,
`old` (the copies that do not know of an enabling yet) and `adds` are history. Excluded are the editing and removing of the schedule whose
action is being executed (the code would use freed memory, see the hazards), and,
with `BeforeSync` FALSE, operations of the cloud before the clock is set.

### MqttSession

One or more connections of a client. The client's recursive lock is held through an
iteration of its task, so an iteration is cut only where a callback or the glue's handler
runs inside it: `step` names those places ("resub", "deliver", "expire", "keepalive"), and
other tasks call in at "poll". An outbox item keeps its identifier, topic, state and an age
of three values: fresh, old enough to be sent again (1 s), expired (30 s). `idle` is half the
keepalive time without a write; since that is longer than the expiry, `KeepaliveElapses`
requires every item to have expired, which is the timing fact `DeadPeerNoticed` rests on.
The network is open, dead or closed. On a dead connection a write may fail or seem
to succeed. The broker (external) answers in order and starts clean sessions. Topics are
model values with a relation `Begins`, because the glue compares a prefix. The agent
subscribes, and disconnects at its end. `offered`, `received`, `confirmed` are history.

Excluded: an agent that stands between `esp_mqtt_client_subscribe` and the writing of the table
through a whole reconnection, which would subscribe again without it. Known and not covered by a
property: an UNSUBSCRIBE that is sent again after a newer SUBSCRIBE of the same topic undoes it
(only the unused OTA with topics does both), and QoS 1 messages in the outbox are
dropped with the connection, without an event.

### Ota

Two threads on `esp_rmaker_ota_t`: the MQTT task's callback and the work function, each cut
where the other can see a difference (URL stored, function queued, URL freed, flag
cleared). A URL is the image behind it. `Corrupt` images fail the checksum, `Foreign` ones are of
another project. The partitions hold an image or `Partial`; the bootloader (external) takes the
other partition when the chosen one fails its check. `PowerFails` may happen at any step.
With `FlashErrors` TRUE `esp_https_ota_finish` may fail on a good image; that exit reports
nothing (the comment at `esp_rmaker_ota.c:238` assumes that something was reported before), so
`ResultReported` needs FALSE. A failure of the power during an OTA leaves the cloud with
"in-progress" as the last report.

### Onboarding

What a node needs to be of use: an identity, a network and an owner. Flash is `key`,
`nvs_node_id`, `cert`, `creds` and `nvs_user`; a restart loses everything else. The phone
app, which is not in the repository, follows the protocol, may leave after any step, and
may come back as another user or with another node id from the claim service. Both builds of
`CONFIG_ESP_RMAKER_USER_ID_CHECK` are checked (`Builds`); in the project's own it is off, and a mapping is
never waited for. `queue` holds the mapping callbacks that wait behind the agent in the work
queue. `MappingCb` uses the pointer it was queued with: if that data was freed, what it
reads is the old contents, the data of the new mapping in the same block, or neither.
`dangled` is history of that, and `StoredUserIsOwner` excludes it: with three mappings in one boot it fails.
A mapping may be refused by a work queue that other work has filled (`QueueMapping`), its publishing may fail, which is only
logged (`MappingCb`), and what was not acknowledged is deleted with the connection (`ConnectionDrops`). The code does
none of it again before a restart; `missed` is history of that, and `ComesOnline` and `MappingReaches` name it.

Assumed: the MQTT connection comes back and the agent stays; the cloud takes a mapping once (a second delivery
of the same message changes nothing unless another user maps in between); a PUBACK comes after the publishing call has written `mqtt_msg_id` (`esp_rmaker_user_mapping.c:127`;
the MQTT task has the same priority); no claiming in a boot that was claimed already (the handler keeps a pointer to claim data
that `esp_rmaker_claim.c:929` frees). A failure of the power between a mapping's arrival and its PUBACK lets the
next boot's dummy mapping undo it: the user must map again.

### NodeParams

Several tasks inside `esp_rmaker_param_update_and_report` or `_and_notify`. A call is cut where
another task sees a difference: value set, its pointer taken for the store (`TakeValue`), value stored, flag set, buffer filled, flags cleared,
published. The parameters that this firmware stores, the name and the schedules, are strings: between the two steps of the store
another task's update may free what the pointer points to (`fresh`), and the store is then of any value (`stale`). A value is its length, since what matters of it is equality and the room
it takes in the buffer. `Overlap` says whether two reports may overlap; nothing in the code forbids
it, and `params_lost` shows what then happens. `gave_up` is history: the buffer was replaced and the values
had outgrown the margin by the second try, at which the code gives the report up. MQTT is taken to deliver (see `MqttSession` for when it does not).

## 3. Passing runs

| Run | Bounds | Shows |
|---|---|---|
| `connectivity` | limits 1, 2, 1 for the phases, 2 event slots; 1.0 million states | the next Wi-Fi attempt and the next MQTT attempt are never lost, counters stay below their limits, `is_connected` is wrong only while the event that corrects it is queued, one MQTT task, radio and supply agree; with a good supply and access point the station comes up for good, with the broker good as well MQTT does, unless the agent gave up |
| `link_spaced` | three brightness values, one out of range, lost connections; 0.4 million states | if commands and operations at the switch come one at a time, MCU and firmware agree when the link rests, and the cloud misses only changes at the switch made while `s_wifi_init_end_flag` was clear |
| `link_burst` | commands to switch the light that overlap each other and the MCU's transfers; 0.8 million states | never two senders, never a set flag without a sender, no frame nobody asked for; a sender that meets a transfer of the MCU gets through, the link comes to rest unless it is operated for ever, and lock and receive flag are then free |
| `work_queue` | three functions, 2 slots, 4 accepted | implements `FifoExecutor`, one task, the queue outlives it, the agent is first, all is executed once the queue keeps running |
| `schedule` | four day masks, four month masks, two days, two times of day, two years, relative times 1, 5 and 40; 130 ticks at 2 a day (nine weeks, 13 months of 5 days), a timer that reaches 17 ticks, one place in the queue that other work may take; 1.9 million states | triggers at every named instant, across the ends of weeks and of a year, and at no other unless the period had wrapped; both layers agree about an expired schedule, unless its last trigger was refused |
| `schedule_list` | two identifiers, two places, two slots in the work queue, two creations per restart, two triggers per enabling; any number of restarts; 0.7 million states | a queued callback never executes another schedule's action; enabled schedules are armed once the queue has caught up, unless a trigger was refused; one-time schedules trigger once across restarts; flash and memory agree when the newest report was stored last; waiting schedules are enabled once the clock stays set, unless the timer's callback was refused |
| `mqtt_session` | two topics, one a prefix of the other, two slots, two connections, two calls, one command, one packet of each direction on its way when one is sent again; 0.6 million states | at-least-once publishing, subscriptions before and after reconnecting, an empty table after disconnecting, pings of this connection only, dead peers noticed, the outbox empties |
| `ota` | five images: the running one, two good ones, a corrupt and a foreign one; three URLs, two failures of the power; 39 thousand states | updates are atomic, one at a time, end, clean up and report; staged images are booted |
| `onboarding` | two users, two node ids, two fragments, three sessions, three mappings, one failure of the power, two resets, both builds; 0.4 million states | identity in flash and in use is consistent, owners are known and current; no wait of the agent lasts for ever and mappings reach the cloud, unless a mapping was refused or lost |
| `params` | two parameters, one of them stored, lengths 1 and 3, two tasks, a buffer of 2 with a margin of 1, three updates, one restart; 0.3 million states | flash has every value unless the last store was of freed memory, the cloud gets every value, notifications are exact |

Related invariants are checked together, under the name of what they are about:

| Checked | Parts |
|---|---|
| `StrategyInv` (`Connectivity`) | `TypeOK`, `CountersInRange`, `RadioFollowsSupply` |
| `SenderInv` (`McuLink`) | `TypeOK`, `OneSender`, `FlagMeansSender` |
| `WorkerInv` (`WorkQueue`) | `TypeOK`, `OneWorker`, `WorkerHasQueue`, `AgentFirst` |
| `LayersAgree` (`Schedule`) | `ScheduleTypeOK`, `EnabledIsArmed`, `DisabledIsStopped` |
| `ListInv` (`ScheduleList`) | `TypeOK`, `AllEnabledArmed`, `StoredAgrees` |
| `OutboxInv`, `SubscriptionsAgree`, `KeepaliveCorrect` (`MqttSession`) | `TypeOK`, `PendingCovers`, `IdsInOrder`; `SubscribedAtBroker`, `DisconnectEmptiesTable`; `PingIsOutstanding`, `DeadPeerNoticed` |
| `JobInv`, `ReportsTrue`, `UpdatesEnd` (`Ota`) | `TypeOK`, `OneJob`, `UrlAlive`, `RestIsClean`; `ResultReported`, `SuccessIsStaged`; `OtaCompletes`, `StagedRuns` |
| `IdentityInv`, `OwnersKnown` (`Onboarding`) | `CredentialsMatch`, `ConnectsAsClaimed`; `TypeOK`, `StoredUserIsOwner`, `EarlierUsersAreOut` |
| `StorageInv` (`NodeParams`) | `TypeOK`, `StoredIsCurrent` |

Why the bounds are enough. In `Connectivity` the phases differ only in their limits, so
1 and 2 cover "leave at once" and "stay once"; with two slots a GOT_IP and a
STA_DISCONNECTED of different moments stand in the queue together, and a third post waits, as any further one would. The theorems of section 5 hold for every size. Two senders and two tasks are one more than may exist.
The values of the brightness are only compared with each other and with
the limit. A week has seven days whatever
the number of ticks. The timer reaches over a week and a month and not over two months, as the code's does. The masks of days and months have none,
one, several with the first and the last, and all of the bits, and every day and month comes by as the
current one, so each branch of the two searches meets masks with bits below, at and above
today's. In `MqttSession` two connections are a lost one and its successor, and two messages
suffice for an acknowledgement of the wrong one; in `Ota` three URLs are one that is staged, one that overwrites
it and one that comes too early; in `Onboarding` three sessions and mappings are an earlier owner, a
broken-off attempt and a new owner; in `NodeParams` the lengths make a report fit, need a new
buffer, and outgrow its margin.

`mqtt_session`, `ota`, `onboarding` and `params` do not check for deadlock: their systems stop
when the bounds are used up, and a node that is at rest stops in the real system too.

### Fairness

Weak fairness of the event loop, of every task's steps and of armed timers:
FreeRTOS runs a ready task of the highest priority, tasks here block often, and a
timer once armed falls due. Nothing is assumed of the environment; the liveness
properties have "the access point, broker and supply stay good" as their premise.
In `link_burst`, `app_main` also comes to its end, and the MCU sees a transfer through. In `work_queue` and
`schedule_list`, functions are assumed to return and reports to be stored. `mqtt_session` adds that a
live broker answers and that time passes (messages age, the keepalive time elapses);
`ota` that its two threads go on and the reboot timer fires; `onboarding` that the
node, the cloud and the reboot timer go on, and nothing of the phone; `params` that a task
goes on with a call it is in.

## 4. Disagreements found

Two are runs that are expected to be violated, with an entry under `findings`:

* `link_lost`: a command that arrives during a transmission is overwritten by the second
  clearing of `ucSendFlag`; light and firmware then disagree for good.
* `params_lost`: when two tasks report at the same time, one clears the flag that the other has just set; the
  update is in neither report (`UpdateIsReported`). They may also overwrite each other's report in the shared buffer.

Others show in the same modules, with the properties named here or with different constants:

* `NodeParams`, `LatestIsStored` (`StorageInv` without its exception) does not hold: a task that is preempted between taking a string's pointer and NVS's copying of it stores, last, what
  another task's update has freed (`esp_rmaker_param.c:489`).
* `Schedule`, `TriggersWhenTold` does not hold: the period in milliseconds wraps at 2^32 (49.7 days, `esp_schedule.c:326`), so that a date further away triggers
  before the time told to `timestamp_cb` ("timestamp at which the schedule will trigger next", `esp_schedule.h:44`). Since the schedule is started again then, it also triggers at the right time.
* `ScheduleList`, `StoredIsLatest` does not hold: the work queue has copied the list, the MQTT task adds a schedule and stores its copy, then the
  older copy is stored; the next restart does not bring the new schedule back (`esp_rmaker_schedule.c:907`).
* `Connectivity`, `NarrowWindow = TRUE` violates `MqttRetryPending`: if the 60 s timer falls
  due just before MQTT disconnects, arming it again fails (`main/app_rainmaker.c:145`), its callback meets a client
  whose task is about to leave, and no attempt is left. The window is milliseconds wide. It violates
  `OneMqttTask` too: between the end of the task's loop, which sets DISCONNECTED and clears `run`, and
  `vTaskDelete`, `esp_mqtt_client_start` creates a second task.
* `McuLink`, `CloudOverlap = TRUE` and `McuActs = TRUE` together with some brightness (`BriData`, empty in `link_burst`) violate `SenderInv`: the UART task, which sends a brightness set at the switch back and which has the sender's
  priority, answers a frame of the MCU between another thread's `xTaskCreate` and the setting of
  `ucSendTaskHandle_Flag` (`main/app_uart.c:167`), finds the flag clear and creates a second sender.
* `Schedule`, `Triggers <- NotYearly` violates `NextMonthExists`: a schedule by date that does
  not repeat every year is not expired in the second of its last trigger
  (`esp_schedule.c:297`) and is started for one more month.
* `Schedule`, `Preempted = TRUE` violates `DisabledIsStopped`: a schedule that is disabled by
  the work queue or by the user between the trigger and the end of the timer's callback
  (`esp_schedule.c:340`) is started again. The callback has the lower priority, the window is
  a few instructions.
* `ScheduleList`, `BeforeSync = TRUE` violates `OnceTriggersOnce`: `timesync_timer_work_cb` enables the
  waiting schedules without storing their times, so that a one-time schedule added before
  the clock was set triggers again after a restart.

Named in the properties that would fail otherwise: a one-time schedule whose trigger a full work queue refuses stays enabled without a timer
(`lost`, `esp_rmaker_schedule.c:310`); the callback that enables waiting schedules does not come again if refused (`refused`, line 443); a mapping that is
refused or lost leaves the agent, with the check of user ids, waiting until a restart (`missed`); changes at the switch are
withheld from the cloud while `s_wifi_init_end_flag` is clear (`report.withheld`).

Seen while reading, without a property: `app_main` sets `s_wifi_init_end_flag` when
`app_wifi_start` returns, whose comment (`main/app_main.c:164`) says that it waits for a
connection; it does not. `stop_power_save` sets `lock_status` before it acquires the lock,
so a timer callback in between releases a lock that is not held. The supply monitor starts before
`app_wifi_start`, so a low reading then stops a driver that is not started (`main/ic2_ctrl.c:103`). An MQTT
disconnection stops SNTP and nothing registered starts it again (`main/app_rainmaker.c:204`). `app_wifi_prov_timer_stop` may delete its timer twice (`app_wifi.c:207`).
The header of OTA says of FAILED "This should be reported only once, at the end of OTA"
(`esp_rmaker_ota.h:33`); `esp_rmaker_ota.c` reports it in the middle, followed by "in-progress" and, after
`esp_https_ota_finish`, once more. The handler of PUBACKs reads through a null pointer when a second mapping's
acknowledgement comes after the data was freed (`PubAckPanics` of `Onboarding`). SNTP may set the clock
while a schedule's timer runs (`esp_schedule.c:318`), and day 29 to 31 of a shorter month falls into the next one (`esp_schedule.c:213`).
`ESP_SCHEDULE_MONTH_ALL` (`esp_schedule.h:73`) is the mask of seven months, the one of all days; a date with a year and no months
is looked for in the current month of that year (`esp_schedule.c:89`).

## 5. What is proved

TLAPS proves, for every value of the constants that satisfies the named assumptions
(`StrategyAssumption`, `ConnectivityAssumption`, `WorkQueueAssumption`, `SessionAssumption`,
`OtaAssumption`, `OnboardingAssumption`, `NodeParamsAssumption`, `LinkAssumption`, `ListAssumption`, `ScheduleAssumption`), the theorems
below. The assumptions are about types and sizes (a list has room for one schedule, the brightness at start is in
range, `None` is not a value of the data it stands beside). Where a theorem assumes more, a constant that chooses the
environment, this is said with it: those are the values under which TLC checks the property, and section 4 says what happens under the other value.

`ConnectivityProofs`
* `StrategyInvariant`, from the three theorems that follow.
* `ConnectivityTyped`: the type invariant, the bound of the event queue included. The
  other proofs use it.
* `CountersStayInRange`: inductive together with the types.
* `RadioObeysSupply`: inductive.
* `WifiRetryNeverLost`: `WifiRetryPending` is not inductive, since it does not say what
  stands in the queue. `AttemptAhead` does: if the driver is idle, either a
  `STA_START` or `STA_DISCONNECTED` is queued with no `GOT_IP` behind it, or the timer is
  armed and no `GOT_IP` is queued at all (its handler would stop the timer). Lemmas show that posting (`PostKeepsAttempt`) and taking
  (`TakeKeepsAttempt`) keep it; most actions do not touch the link's variables
  (`StepOnLink`).
* `FlagTracksDriver`: likewise with `FlagBehind`, which relates `is_connected`, the driver
  and the last queued event that would change the flag.
* `OneTaskPerClient`: assumes `NarrowWindow = FALSE`. `ClientOK` ties `run` and `state` to the step of the
  task; `StartOK` says whom a start by the timer can meet: no task, or one that holds the API
  lock or has a state in which the start is refused, and never the agent's own start or stop.
* `MqttRetryNeverLost`: the same assumption. `RetryAhead` strengthens `MqttRetryPending` to the time from the posting of
  DISCONNECTED on, while the task is still leaving: the timer is armed or one of the events that arm it, or
  that end the connection, is queued (`PostKeepsQueued`, `TakeKeepsQueued`).

`WorkQueueProofs`
* `WorkerInvariant`, from `WorkQueueTyped`, `OneWorkerAlways`, `QueueOutlivesWorker` and `AgentIsFirst`.
* `OneWorkerAlways`, `QueueOutlivesWorker`: from `OneWorkerInv`, which ties `queue_state`
  to the step of each task, with the two windows around start and stop.
* `WorkQueueIsFifo`: `Spec => FifoSpec`, the refinement. `FifoExecutor` has only the
  variables `accepted` and `executed`, which map to the history variables of those names;
  what has to be shown is that the real queue agrees with them. `FifoInv` says so:
  `accepted = executed \o work_queue`, and a queue that does not exist has no history.
* `AgentIsFirst`: from `AgentFirstInv`.

`MqttSessionProofs`
* `OutboxInvariant` (from `SessionTyped`, `PendingCount`, `IdentifiersInOrder`) and
  `SessionIsAtLeastOnce` come from one
  invariant of four parts. `OutboxOK`: types, order and ages of the outbox, identifiers not
  above the last one given, and the pending count. `LinkOK`: a PUBLISH on its way was offered, and a PUBACK on its way
  is of a message that the broker has; without it a confirmation could not be matched with an arrival.
  `MessagesOK`: what waits or has arrived was offered, and offered messages are not above the last
  identifier, so that an identifier is never offered twice. `ControlOK`: task, agent and table. Since
  every action has to keep the invariant and be a step of `AtLeastOnce`, both are shown together
  (`Kept`), with lemmas for each change of the outbox (`EnqueueFacts`, `DeleteFacts`,
  `MarkFacts`) and of the link (`WriteFacts`, `TakeFacts`, `AbortFacts`).
* `SubscriptionsKept`: on top of that invariant, `SubsInv`. What the broker knows or is asked for on a connection (`Known`)
  only grows until the agent unsubscribes (`NothingUnsubscribes`: not even an old UNSUBSCRIBE is on its way),
  the CONNECTED handler has asked for the slots it has passed (`TableKnown`), a topic about to be stored was asked
  for on this connection (`StoreKnown`), and the slots the agent has passed are empty (`Emptied`).
* `PingsAreOutstanding`: the safety half of `KeepaliveCorrect`.

`OtaProofs`
* `JobInvariant`, from `OtaTyped`, `OneJobAlways`, `UrlStaysAlive`, `OtaCleansUp`. `OneJob` is inductive
  only with `AskedOK`, by which the callback stores a URL while no OTA is in progress;
  `RestIsClean` with `PowerSaveOK`.
* `OtaReportsTrue`, from `SuccessMeansStaged`, which needs `ReportsOK`, and
  `OtaReportsResult`, which assumes `FlashErrors = FALSE`, with `ResultOK` for the last report at each place
  after which nothing is reported any more.
* `OtaIsAtomic`: the refinement, from `FlashOK`: the running partition holds a whole
  image of the project, and only the other one is written.

`OnboardingProofs`
* `IdentityInvariant` (`StoredIdentity`, `AgentIdentity`): from `KeyOK` (the request and the certificates of phone and flash are
  all of the key and node id in flash), `SessionOK` (claiming happens only without a certificate) and
  `AgentOK` (the agent's copies agree with flash).
* `OwnersAreKnown`: from `MInv` (with the types, `RestTyped`). `OrderOK`: acknowledgements, messages and queued callbacks
  are in the order of their mappings, so that an acknowledgement of the current one comes after every earlier
  message has arrived. `OwnerOK`: a user in flash is the owner and nothing on its way changes that; while flash names
  nobody, the published mapping resets the owners and is the last on its way, and once its acknowledgement is there nothing else is. `CleanOK`: whoever is in flash, in RAM or on the way
  mapped since the factory reset, and while the cloud is not clean, the message whose acknowledgement the node waits for makes it so and has not been acknowledged. None of the
  parts says that a message arrives: they hold with mappings refused and lost. `SingleOK`: until data is freed too early, a queued
  callback is of the current data.

`NodeParamsProofs`
* `FlashIsCurrent`: for any number of tasks and overlapping reports, unless the last store was of freed memory (`stale`); `CallOK` says which
  parameter a call is about. A store whose pointer is still the parameter's (`fresh`) writes the current value, and
  every update is followed by its task's own store.
* `CloudToldAll`, `NotificationsExact`: assume `Overlap = FALSE`. `CInv` says that a value the cloud does not
  have is still due in some call: its flag is set, it is in the buffer, or its task has not
  reported yet. The buffer's size does not matter until a report is given up (`GaveUpStays`), whence
  `DInv`.

`McuLinkProofs`
* `OneSenderAtMost`, `SentFramesWereAsked`: assume `Apart`, that is overlapping writes of the cloud (`CloudOverlap`) or operations at
  the switch (`McuActs`), not both. `LInv`: `Solo` (one thread at a time is in its handler, and the UART task
  finds no sender), `SenderOK` (a sender is the task created last; the flag, or the thread about to set it, says that it exists until it deletes itself),
  `WriterOK` and `FramesOK` (a checksum is of a command that was asked for; what a writer has stored is still there or was
  withdrawn).
* `LightsAgree`: assumes `CloudOverlap = FALSE`, with the switch operated or not. `Flow` follows a command and a frame of the MCU from
  hand to hand: at every step until the MCU has obeyed, obeying that command is all that its light lacks
  (`Obeyed(mcu, ...) = Light`), and likewise for what the MCU has said and the firmware.
* `NothingIsLeftBehind`: the same assumption. `Pins` ties the receive flag, the lock and the timers to the pin's trigger, and
  says who has yet to give the lock back.
* `CloudKnows`: the same assumption, with connections lost or not. `Owing`: a value that the cloud does not know was withheld from it, or is owed by a thread that is in its handler.

`ScheduleProofs`, one schedule
* `LayersStayAgreed`: assumes `Preempted = FALSE`; for all settings, dates that do not repeat included, and any `PeriodRange`. `LayersInv`: both layers
  hold the same time for a one-time schedule, and an enabled schedule without a timer is in the timer's callback or has
  expired while its work callback is queued or was refused (`lost`); other work may fill the queue at any time. `LayersAgree` alone says this only of an empty queue. That expiry lasts (`ExpiryStays`) is what lets the work queue come late.
* `SearchFindsTheFirst`: no invariant, but the arithmetic. For every mask, date, time of day and moment, `NextTime` is the first later
  instant that is `Named`. Below it: places of bits by division (`RestStep`, `SomeBit`, `AboveFacts`), so that the test `Clear(x, i) > Bit(i)`
  decides whether a bit is left above i and `ffs(Above(x, i))` finds it (`NextBit`); the week (`DaysToFacts`) and the months (`MonthFacts`) as walks from today to
  the first member of the mask; times compared by month, day and tick (`Lexical`, `MonthLexical`). A date is assumed to repeat every year or to name no
  year (`RepeatsYearly`); section 4 says what the others do.
* `NoTriggerIsMissed`, `NoTriggerIsStray`: assume `Preempted = FALSE` and `RepeatsYearly`, and nothing of the timer's range. `TriggerInv`: a running timer ends at the next named instant, or
  before it if its period has wrapped, after which it is started again; no named instant lies between; if now is named,
  the schedule has triggered; a relative schedule keeps the time it was asked for, however often it is enabled again; a one-time schedule without
  a timer has triggered at the time it knows.
* `ShortSchedulesTrigger`: `TriggersWhenTold`, which does not hold in general (section 4), holds of days of the week, a day of every month or of the next, and relative times within the range (`Short`):
  their next trigger is always in the timer's reach (`InReach`). In the code's units the range is 49.7 days, so these are the settings on which the product may rely.

`ScheduleProofs`, the list
* `ListStaysSound`, `TriggersFindTheirOwn`: from `SInv`. `Indexed`: indexes increase along the list and identify a schedule as well as
  its creation does. `Traced`: so do those in the queue. `Served`: with the clock set, an enabled schedule has its timer, lost
  its trigger to a full queue, or has expired and its trigger is queued or being executed (`Held`), which `AllEnabledArmed` says only of an empty
  queue. `Faithful`: every copy has each identifier once, and the newest, in flash or in the hands of a task, agrees with the list. `StoredAgrees` says
  so of flash alone, and is lost in the step in which the report is only copied.
* `OnceIsOnce`: assumes `BeforeSync = FALSE`. `Counted`: the timer of a one-time schedule runs only while it has not triggered, and an
  enabled one has its time, in every copy too, so that a restart finds it expired whichever copy was stored last.

TLC checks every property these theorems state on the small instances too, and checked the inductive invariants before they were proved.

## 6. What is only model-checked

Liveness (`WifiComesUp`, `MqttComesUp`, `Settles`, `Drains`, `SyncCompletes`, `DeadPeerNoticed`,
`OutboxEmpties`, `OtaCompletes`, `StagedRuns`, `ComesOnline`, `MappingReaches`, `ValueReachesCloud`), which needs fairness.

## 7. What is abstracted, and what is not modelled

Abstracted: durations; the contents of MQTT and UART messages beyond what the properties tell
apart; logging; flash except for what the models name; the table of time
zones, daylight saving and months of different lengths; memory exhaustion. In `Schedule` the clock is set and
never adjusted. Packets of MQTT arrive whole.

Not modelled:

* `patch/component_lib/lwip`: 144 thousand of the repository's lines, a copy of the lwIP TCP/IP stack with its
  documentation, tests and applications (PPP, HTTP server). It is third-party code that the
  firmware uses through sockets; of it the models keep that a connection is open, dead or closed and
  that a write on a dead one may seem to succeed. `components/esp-qcloud` (10 thousand lines) is a second cloud stack that the
  project does not link. Together with vendored JSON, protobuf and QR code libraries, examples, host tools and the
  command line they are nearly all of the source by lines, so the part of all lines that
  the models cover is small (about 4,200 lines); of the 5,000 lines of the application and of the agent's modules named in section 1 that the
  firmware executes it is most of the code that changes state.
* Local control and the console: compiled out. OTA with topics, self claiming: not enabled.
* The parser and serialiser of MQTT packets, TLS, protobuf and JSON: pure conversions of
  library code; building the tree of devices and its description: straight-line code
  before anything runs concurrently.
* Keys of the (disabled) local dimming, the LED's blinking, the button driver: no caller, or no state that another part reads.

## 8. Plan

1. `PowerLock`: the power lock access by access, under the tasks' priorities, in `McuLink`; `Boot`: the
   supply monitor before `app_wifi_start`.
2. The clock set by SNTP under a running schedule; months of their own lengths.
3. The reassembly of long messages in the glue.
4. Proofs: an abstract one-slot channel that `McuLink` implements while commands are spaced; schedules that do
   not repeat every year, up to their last trigger.
