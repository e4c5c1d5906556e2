------------------------------ MODULE McuLink ------------------------------
(***************************************************************************)
(* The dimmer and its light MCU: main/app_uart.c with the brightness state *)
(* of main/bri_ctrl.c, the power lock of main/app_main.c and the cloud's   *)
(* write callback of main/app_rainmaker.c.                                 *)
(*                                                                         *)
(* Commands for the MCU go through a one-slot mailbox (ucSendBuff) that a  *)
(* short-lived sender task empties; frames of the MCU are announced on a   *)
(* shared wake-up pin and handled by the UART task.  The board has one     *)
(* core: the MQTT task (priority 5), which runs the cloud's writes, only   *)
(* moves while the UART task and the senders (priority 12) are blocked;    *)
(* the pin's interrupt and the esp_timer task preempt everyone.            *)
(***************************************************************************)
EXTENDS Integers, Sequences, FiniteSets

CONSTANTS BriData,      \* brightness values that are asked for
          MaxPct,       \* largest brightness
          CloudOverlap, \* TRUE: the cloud may write while the link is busy
          McuActs,      \* TRUE: the light is also operated at the switch
          WifiDrops     \* TRUE: the station may lose its connection

DEFAULT_BRI == 50       \* Bri_Now_Pct at start
PARAM_BRI   == 25       \* the brightness parameter at start

ASSUME LinkAssumption ==
    /\ BriData \subseteq Nat /\ MaxPct \in Nat /\ DEFAULT_BRI <= MaxPct
    /\ CloudOverlap \in BOOLEAN /\ McuActs \in BOOLEAN /\ WifiDrops \in BOOLEAN

OnOffCMD  == "OnOff"
BriNowCMD == "BriNow"
ERRORCMD  == "Error"
WIFIRESETCMD     == "WifiReset"
WIFIINITSTARTCMD == "InitStart"
WIFIINITENDCMD   == "InitEnd"
WakeCmds  == {OnOffCMD, WIFIINITSTARTCMD, WIFIINITENDCMD}

Senders == 1..2       \* tasks made by xTaskCreate; two are enough to go wrong
Callers == {"main", "cloud", "rx"}

VARIABLES
    Bri_Status, Bri_Now_Pct,    \* the light as this firmware knows it
    buf, sendFlag,              \* ucSendBuff and ucSendFlag
    taskFlag, handle,           \* ucSendTaskHandle_Flag, ucSendTaskHandle
    snd,                        \* each sender: its program counter and its copy
    call,                       \* each thread's progress through its handler
    crashed,                    \* a task function has returned
    rxFlag,                     \* ucRxTaskHandle_Flag
    hwIntr, swIntr, edge,       \* trigger of the pin, wakeup_io_intr_type, latch
    stopTimer, startTimer,      \* wakeup_io_{stop,start}_timer are armed
    lock,                       \* lock_status, and the lock with it
    report,                     \* the parameters as last reported; history: the changes
                                \* withheld from the cloud since
    mcu, pin, allowed, out, rxq,\* the MCU: its light, its pin, its frames
    asked,                      \* commands handed to send_bri_ctrl_info
    init_end,                   \* s_wifi_init_end_flag
    reset                       \* a factory reset was asked for: a reboot follows

mailVars  == <<buf, sendFlag, taskFlag, handle, snd, crashed, asked>>
lightVars == <<Bri_Status, Bri_Now_Pct>>
pinVars   == <<hwIntr, swIntr, edge>>
timerVars == <<stopTimer, startTimer>>
mcuVars   == <<pin, allowed, out>>
vars == <<mailVars, lightVars, call, rxFlag, pinVars, timerVars, lock, report,
          mcu, mcuVars, rxq, init_end, reset>>

Frame(c, d) == [cmd |-> c, dat |-> d, sum |-> <<c, d>>]
NoFrame  == Frame(ERRORCMD, 0)
Idle     == [pc |-> "idle", cmd |-> ERRORCMD, dat |-> 0]

Init ==
    /\ Bri_Status = 0 /\ Bri_Now_Pct = DEFAULT_BRI
    /\ buf = [NoFrame EXCEPT !.cmd = OnOffCMD] /\ sendFlag = FALSE
    /\ taskFlag = FALSE /\ handle = 0
    /\ snd = [s \in Senders |-> [pc |-> "none", frame |-> NoFrame]]
    /\ call = [c \in Callers |-> IF c = "main"
                                 THEN [pc |-> "cmd", cmd |-> WIFIINITSTARTCMD, dat |-> 1]
                                 ELSE Idle]
    /\ crashed = FALSE
    /\ rxFlag = FALSE
    /\ hwIntr = "high" /\ swIntr = "posedge" /\ edge = FALSE
    /\ stopTimer = FALSE /\ startTimer = FALSE
    /\ lock = FALSE
    /\ report = [on |-> 0, bri |-> PARAM_BRI, withheld |-> {}]
    /\ mcu = [on |-> 0, bri |-> DEFAULT_BRI]
    /\ pin = FALSE /\ allowed = FALSE /\ out = <<>> /\ rxq = <<>>
    /\ asked = {<<WIFIINITSTARTCMD, 1>>}
    /\ init_end = FALSE /\ reset = FALSE

TypeOK ==
    /\ Bri_Status \in {0, 1} /\ Bri_Now_Pct \in 0..MaxPct
    /\ buf.cmd \in {OnOffCMD, BriNowCMD, ERRORCMD, WIFIINITSTARTCMD, WIFIINITENDCMD}
    /\ handle \in Senders \cup {0}
    /\ \A s \in Senders : snd[s].pc \in {"none", "snap", "clear", "wait", "wake", "tx", "post",
                                         "delay", "end", "delete"}
    /\ \A c \in Callers : call[c].pc \in {"idle", "frame", "ack", "cmd", "dat", "sum",
                                          "create", "mark", "report", "boot"}
    /\ {sendFlag, taskFlag, crashed, rxFlag, edge, stopTimer, startTimer, lock,
        pin, allowed} \subseteq BOOLEAN
    /\ hwIntr \in {"off", "posedge", "high", "low"}
    /\ swIntr \in {"posedge", "high", "low"}
    /\ mcu.on \in {0, 1} /\ report.on \in {0, 1}
    /\ init_end \in BOOLEAN /\ reset \in BOOLEAN

-----------------------------------------------------------------------------
(* Scheduling. *)

Alive == {s \in Senders : snd[s].pc # "none"}

\* A sender is blocked while it polls for the MCU, transmits, or delays.
HighIdle ==
    /\ \A s \in Senders : snd[s].pc \in {"none", "wait", "wake", "tx", "delay"}
    /\ call["rx"].pc \in {"idle", "ack"}

\* The MQTT task and app_main run only when no priority 12 task can.
MayRun(c) == ~crashed /\ (c = "rx" \/ HighIdle)

\* Nothing is in progress anywhere.
Quiet ==
    /\ Alive = {} /\ \A c \in Callers : call[c].pc \in {"idle", "boot"}
    /\ rxq = <<>> /\ out = <<>> /\ ~pin /\ ~stopTimer /\ ~startTimer /\ ~edge
    /\ hwIntr # "low"

-----------------------------------------------------------------------------
(* The mailbox: send_bri_ctrl_info, one shared access at a time. *)

Step(c, pc) == call' = [call EXCEPT ![c].pc = pc]

PutCmd(c) ==
    /\ call[c].pc = "cmd" /\ MayRun(c) /\ Step(c, "dat")
    /\ buf' = [buf EXCEPT !.cmd = call[c].cmd]
    /\ UNCHANGED <<sendFlag, taskFlag, handle, snd, crashed, asked, lightVars, rxFlag, pinVars,
                   timerVars, lock, report, mcu, mcuVars, rxq, init_end, reset>>

\* Mutant: the data byte is not stored.
PutNoDat(c) ==
    /\ call[c].pc = "dat" /\ MayRun(c) /\ Step(c, "sum")
    /\ UNCHANGED <<mailVars, lightVars, rxFlag, pinVars, timerVars, lock, report, mcu, mcuVars,
                   rxq, init_end, reset>>

PutDat(c) ==
    /\ call[c].pc = "dat" /\ MayRun(c) /\ Step(c, "sum")
    /\ buf' = [buf EXCEPT !.dat = call[c].dat]
    /\ UNCHANGED <<sendFlag, taskFlag, handle, snd, crashed, asked, lightVars, rxFlag, pinVars,
                   timerVars, lock, report, mcu, mcuVars, rxq, init_end, reset>>

PutSum(c) ==
    /\ call[c].pc = "sum" /\ MayRun(c) /\ Step(c, "create")
    /\ buf' = [buf EXCEPT !.sum = <<buf.cmd, buf.dat>>]
    /\ sendFlag' = TRUE
    /\ UNCHANGED <<taskFlag, handle, snd, crashed, asked, lightVars, rxFlag, pinVars,
                   timerVars, lock, report, mcu, mcuVars, rxq, init_end, reset>>

\* Mutant: a sender is created whatever the flag says.
CreateAlways(c) ==
    /\ call[c].pc = "create" /\ MayRun(c)
    /\ \E s \in Senders \ Alive :
         /\ snd' = [snd EXCEPT ![s] = [pc |-> "snap", frame |-> NoFrame]]
         /\ handle' = s
         /\ Step(c, "mark")
    /\ UNCHANGED <<buf, sendFlag, taskFlag, crashed, asked, lightVars, rxFlag, pinVars,
                   timerVars, lock, report, mcu, mcuVars, rxq, init_end, reset>>

\* The new task's handle is stored before the flag that says it exists.  Which of the
\* free tasks it is makes no difference.
CreateSender(c) ==
    /\ call[c].pc = "create" /\ MayRun(c)
    /\ \/ taskFlag /\ Step(c, "report") /\ UNCHANGED <<snd, handle>>
       \/ ~taskFlag /\ \E s \in Senders \ Alive :
             /\ \A r \in Senders \ Alive : s <= r
             /\ snd' = [snd EXCEPT ![s] = [pc |-> "snap", frame |-> NoFrame]]
             /\ handle' = s
             /\ Step(c, "mark")
    /\ UNCHANGED <<buf, sendFlag, taskFlag, crashed, asked, lightVars, rxFlag, pinVars,
                   timerVars, lock, report, mcu, mcuVars, rxq, init_end, reset>>

MarkSender(c) ==
    /\ call[c].pc = "mark" /\ MayRun(c) /\ Step(c, "report")
    /\ taskFlag' = TRUE
    /\ UNCHANGED <<buf, sendFlag, handle, snd, crashed, asked, lightVars, rxFlag, pinVars,
                   timerVars, lock, report, mcu, mcuVars, rxq, init_end, reset>>

-----------------------------------------------------------------------------
(* Handlers that use it. *)

ReportLight(cmd, on, bri) ==
    report' = [on  |-> IF cmd = OnOffCMD  THEN on  ELSE report.on,
               bri |-> IF cmd = BriNowCMD THEN bri ELSE report.bri,
               withheld |-> report.withheld \ {cmd}]

\* esp_rmaker_bool: whatever is not 0 is true.
AsBool(dat) == IF dat = 0 THEN 0 ELSE 1

\* The value is not the one reported last.
IsNews(cmd, dat) ==
    \/ cmd = OnOffCMD  /\ report.on  # AsBool(dat)
    \/ cmd = BriNowCMD /\ report.bri # dat

\* esp_rmaker_update, where s_wifi_init_end_flag allows it.
UpdateLight(cmd, dat) ==
    IF init_end THEN ReportLight(cmd, AsBool(dat), dat)
    ELSE report' = [report EXCEPT !.withheld = IF IsNews(cmd, dat) THEN @ \cup {cmd} ELSE @]

InRange(v) == v <= MaxPct

Ask(c, cmd, dat) ==
    /\ call' = [call EXCEPT ![c] = [pc |-> "cmd", cmd |-> cmd, dat |-> dat]]
    /\ asked' = asked \cup {<<cmd, dat>>}

\* The cloud can write only once app_main has started the agent and the station,
\* whose connection takes longer than what is left of app_main.
MayWrite ==
    /\ call["cloud"].pc = "idle" /\ MayRun("cloud")
    /\ call["main"].pc = "idle"
    /\ CloudOverlap \/ Quiet

\* write_cb for Power: Open_The_Lights or Close_The_Lights.
CloudPower ==
    /\ MayWrite
    /\ \E b \in {0, 1} : Bri_Status' = b /\ Ask("cloud", OnOffCMD, b)
    /\ UNCHANGED <<Bri_Now_Pct, buf, sendFlag, taskFlag, handle, snd, crashed, rxFlag, pinVars,
                   timerVars, lock, report, mcu, mcuVars, rxq, init_end, reset>>

\* write_cb for Brightness, while the light is on: Set_Btight_Pct.
CloudBrightness ==
    /\ MayWrite /\ Bri_Status # 0
    /\ \E v \in BriData :
         IF InRange(v)
         THEN Bri_Now_Pct' = v /\ Ask("cloud", BriNowCMD, v)
         ELSE /\ call' = [call EXCEPT !["cloud"] = [pc |-> "report", cmd |-> BriNowCMD, dat |-> 0]]
              /\ UNCHANGED <<Bri_Now_Pct, asked>>
    /\ UNCHANGED <<Bri_Status, buf, sendFlag, taskFlag, handle, snd, crashed, rxFlag, pinVars,
                   timerVars, lock, report, mcu, mcuVars, rxq, init_end, reset>>

\* esp_rmaker_report_node_state, when the agent is up: app_wifi_init_end.
AgentInitEnd ==
    /\ MayWrite /\ <<WIFIINITENDCMD, 1>> \notin asked
    /\ Ask("cloud", WIFIINITENDCMD, 1)
    /\ UNCHANGED <<lightVars, buf, sendFlag, taskFlag, handle, snd, crashed, rxFlag, pinVars,
                   timerVars, lock, report, mcu, mcuVars, rxq, init_end, reset>>

\* Mutant: what the MCU said is not reported.
EndCallSilently(c) ==
    /\ call[c].pc = "report" /\ MayRun(c)
    /\ IF c = "cloud" THEN ReportLight(call[c].cmd, Bri_Status, Bri_Now_Pct) ELSE UNCHANGED report
    /\ call' = [call EXCEPT ![c] = IF c = "main" THEN [Idle EXCEPT !.pc = "boot"] ELSE Idle]
    /\ UNCHANGED <<mailVars, lightVars, rxFlag, pinVars, timerVars, lock, mcu, mcuVars, rxq,
                   init_end, reset>>

\* The end of a handler: the cloud's writes report the light as it now is, the
\* UART task what the MCU said; app_main goes on from wifi_start_init.
EndCall(c) ==
    /\ call[c].pc = "report" /\ MayRun(c)
    /\ CASE c = "cloud" -> ReportLight(call[c].cmd, Bri_Status, Bri_Now_Pct)
         [] c = "rx"    -> UpdateLight(call[c].cmd, call[c].dat)
         [] OTHER       -> UNCHANGED report
    /\ call' = [call EXCEPT ![c] = IF c = "main" THEN [Idle EXCEPT !.pc = "boot"] ELSE Idle]
    /\ UNCHANGED <<mailVars, lightVars, rxFlag, pinVars, timerVars, lock, mcu, mcuVars, rxq,
                   init_end, reset>>

\* app_main has initialised and started Wi-Fi and the agent; from here on what the MCU
\* says is reported.
AppMainEnds ==
    /\ call["main"].pc = "boot" /\ MayRun("main")
    /\ call' = [call EXCEPT !["main"] = Idle]
    /\ init_end' = TRUE
    /\ UNCHANGED <<mailVars, lightVars, rxFlag, pinVars, timerVars, lock, report, mcu, mcuVars,
                   rxq, reset>>

\* single_fire_led_blink_on, on a lost connection; nothing sets the flag again.
WifiLost ==
    /\ WifiDrops /\ init_end /\ init_end' = FALSE
    /\ UNCHANGED <<mailVars, lightVars, call, rxFlag, pinVars, timerVars, lock, report, mcu,
                   mcuVars, rxq, reset>>

\* uart_deal_with, one frame: a repeated value only releases the power lock.
RxFrame ==
    /\ rxq # <<>> /\ call["rx"].pc = "idle" /\ ~crashed
    /\ LET f == Head(rxq) IN
       /\ rxq' = Tail(rxq)
       /\ IF \/ f.cmd = OnOffCMD  /\ f.dat = Bri_Status
             \/ f.cmd = BriNowCMD /\ f.dat = Bri_Now_Pct
          THEN lock' = FALSE /\ UNCHANGED <<call, Bri_Status>>
          ELSE /\ lock' = TRUE
               /\ call' = [call EXCEPT !["rx"] = [pc |-> "ack", cmd |-> f.cmd, dat |-> f.dat]]
               /\ Bri_Status' = IF f.cmd = OnOffCMD THEN f.dat ELSE Bri_Status
    /\ UNCHANGED <<Bri_Now_Pct, mailVars, rxFlag, pinVars, timerVars, report, mcu, mcuVars, init_end, reset>>

\* The acknowledgement is out; a new brightness is set, and so sent back, and
\* WIFIRESETCMD asks for a factory reset.
RxAcked ==
    /\ call["rx"].pc = "ack" /\ ~crashed
    /\ lock' = FALSE /\ rxFlag' = FALSE
    /\ LET c == call["rx"] IN
       IF c.cmd = BriNowCMD /\ InRange(c.dat)
       THEN Bri_Now_Pct' = c.dat /\ Ask("rx", BriNowCMD, c.dat)
       ELSE /\ call' = [call EXCEPT !["rx"] = IF c.cmd = OnOffCMD THEN [@ EXCEPT !.pc = "report"] ELSE Idle]
            /\ UNCHANGED <<Bri_Now_Pct, asked>>
    /\ reset' = (reset \/ call["rx"].cmd = WIFIRESETCMD)
    /\ UNCHANGED <<Bri_Status, buf, sendFlag, taskFlag, handle, snd, crashed, pinVars, timerVars,
                   report, mcu, mcuVars, rxq, init_end>>

-----------------------------------------------------------------------------
(* send_uart_info_task. *)

Go(s, pc) == snd' = [snd EXCEPT ![s].pc = pc]

Snapshot(s) ==
    /\ snd[s].pc = "snap" /\ ~crashed
    /\ snd' = [snd EXCEPT ![s] = [pc |-> "clear", frame |-> buf]]
    /\ UNCHANGED <<buf, sendFlag, taskFlag, handle, crashed, asked, lightVars, call, rxFlag,
                   pinVars, timerVars, lock, report, mcu, mcuVars, rxq, init_end, reset>>

ClearFlag(s) ==
    /\ snd[s].pc = "clear" /\ ~crashed /\ Go(s, "wait")
    /\ sendFlag' = FALSE
    /\ UNCHANGED <<buf, taskFlag, handle, crashed, asked, lightVars, call, rxFlag,
                   pinVars, timerVars, lock, report, mcu, mcuVars, rxq, init_end, reset>>

\* While a sender drives the pin it is an output and raises no interrupt.
Triggered ==
    \/ hwIntr = "high" /\ pin
    \/ hwIntr = "low" /\ ~pin
    \/ hwIntr = "posedge" /\ edge

\* Once the MCU is not sending: take the pin to wake it, for some commands.  A due
\* interrupt comes first.
WakeMcu(s) ==
    /\ snd[s].pc = "wait" /\ ~rxFlag /\ ~Triggered /\ ~crashed /\ Go(s, "wake")
    /\ hwIntr' = IF snd[s].frame.cmd \in WakeCmds THEN "off" ELSE hwIntr
    /\ UNCHANGED <<buf, sendFlag, taskFlag, handle, crashed, asked, lightVars, call, rxFlag,
                   swIntr, edge, timerVars, lock, report, mcu, mcuVars, rxq, init_end, reset>>

BeginTx(s) ==
    /\ snd[s].pc = "wake" /\ ~crashed /\ Go(s, "tx")
    /\ lock' = TRUE
    /\ UNCHANGED <<buf, sendFlag, taskFlag, handle, crashed, asked, lightVars, call, rxFlag,
                   pinVars, timerVars, report, mcu, mcuVars, rxq, init_end, reset>>

\* Mutant: the power lock is not given back after the transmission.
EndTxAwake(s) ==
    /\ snd[s].pc = "tx" /\ ~crashed /\ Go(s, "post")
    /\ \A c \in Callers : call[c].pc # "mark"
    /\ LET f == snd[s].frame IN
       /\ mcu' = IF f.sum # <<f.cmd, f.dat>> THEN mcu
                 ELSE [on  |-> IF f.cmd = OnOffCMD  THEN f.dat ELSE mcu.on,
                       bri |-> IF f.cmd = BriNowCMD THEN f.dat ELSE mcu.bri]
       /\ hwIntr' = IF f.cmd \in WakeCmds THEN "posedge" ELSE hwIntr
    /\ UNCHANGED <<buf, sendFlag, taskFlag, handle, crashed, asked, lightVars, call, rxFlag, lock,
                   swIntr, edge, timerVars, report, mcuVars, rxq, init_end, reset>>

\* The frame is on the wire; the MCU obeys it if its checksum fits.  In the
\* milliseconds this takes, the thread that created the sender goes on.
EndTx(s) ==
    /\ snd[s].pc = "tx" /\ ~crashed /\ Go(s, "post")
    /\ \A c \in Callers : call[c].pc # "mark"
    /\ LET f == snd[s].frame IN
       /\ mcu' = IF f.sum # <<f.cmd, f.dat>> THEN mcu
                 ELSE [on  |-> IF f.cmd = OnOffCMD  THEN f.dat ELSE mcu.on,
                       bri |-> IF f.cmd = BriNowCMD THEN f.dat ELSE mcu.bri]
       /\ hwIntr' = IF f.cmd \in WakeCmds THEN "posedge" ELSE hwIntr
    /\ lock' = FALSE
    /\ UNCHANGED <<buf, sendFlag, taskFlag, handle, crashed, asked, lightVars, call, rxFlag,
                   swIntr, edge, timerVars, report, mcuVars, rxq, init_end, reset>>

\* Reports what was sent, and clears the flag once more.
AfterTx(s) ==
    /\ snd[s].pc = "post" /\ ~crashed
    /\ snd' = [snd EXCEPT ![s] = [pc |-> "delay", frame |-> NoFrame]]
    /\ UpdateLight(snd[s].frame.cmd, snd[s].frame.dat)
    /\ sendFlag' = FALSE
    /\ UNCHANGED <<buf, taskFlag, handle, crashed, asked, lightVars, call, rxFlag,
                   pinVars, timerVars, lock, mcu, mcuVars, rxq, init_end, reset>>

\* 100 ms later: a command posted meanwhile is sent, else the task ends.
AfterDelay(s) ==
    /\ snd[s].pc = "delay" /\ ~crashed
    /\ IF sendFlag THEN Go(s, "snap") /\ UNCHANGED buf
                   ELSE Go(s, "end") /\ buf' = [buf EXCEPT !.cmd = ERRORCMD]
    /\ UNCHANGED <<sendFlag, taskFlag, handle, crashed, asked, lightVars, call, rxFlag,
                   pinVars, timerVars, lock, report, mcu, mcuVars, rxq, init_end, reset>>

\* Mutant: the flag is not cleared.
UnmarkForgets(s) ==
    /\ snd[s].pc = "end" /\ ~crashed /\ Go(s, "delete")
    /\ UNCHANGED <<buf, sendFlag, taskFlag, handle, crashed, asked, lightVars, call, rxFlag,
                   pinVars, timerVars, lock, report, mcu, mcuVars, rxq, init_end, reset>>

Unmark(s) ==
    /\ snd[s].pc = "end" /\ ~crashed /\ Go(s, "delete")
    /\ taskFlag' = FALSE
    /\ UNCHANGED <<buf, sendFlag, handle, crashed, asked, lightVars, call, rxFlag,
                   pinVars, timerVars, lock, report, mcu, mcuVars, rxq, init_end, reset>>

\* Deletes the task created last; a task that deletes another one returns.
DeleteTask(s) ==
    /\ snd[s].pc = "delete" /\ ~crashed
    /\ snd' = [snd EXCEPT ![handle] = [pc |-> "none", frame |-> NoFrame]]
    /\ crashed' = (handle # s)
    /\ UNCHANGED <<buf, sendFlag, taskFlag, handle, asked, lightVars, call, rxFlag,
                   pinVars, timerVars, lock, report, mcu, mcuVars, rxq, init_end, reset>>

-----------------------------------------------------------------------------
(* The wake-up pin: its interrupt and the two 1 ms timers. *)

\* Mutant: the end of the MCU's transfer does not clear the receive flag.
isr_keeps_rx_flag ==
    /\ Triggered
    /\ edge' = FALSE
    /\ CASE swIntr = "low" ->
              /\ swIntr' = "high" /\ hwIntr' = "high"
              /\ startTimer' = TRUE /\ UNCHANGED <<rxFlag, stopTimer>>
         [] swIntr = "high" ->
              /\ swIntr' = "low" /\ hwIntr' = "low"
              /\ rxFlag' = TRUE
              /\ stopTimer' = TRUE /\ UNCHANGED startTimer
         [] OTHER ->
              /\ swIntr' = "high" /\ hwIntr' = "high"
              /\ UNCHANGED <<rxFlag, timerVars>>
    /\ UNCHANGED <<mailVars, lightVars, call, lock, report, mcu, mcuVars, rxq, init_end, reset>>

wakeup_io_isr_handler ==
    /\ Triggered
    /\ edge' = FALSE
    /\ CASE swIntr = "low" ->
              /\ swIntr' = "high" /\ hwIntr' = "high"
              /\ rxFlag' = FALSE
              /\ startTimer' = TRUE /\ UNCHANGED stopTimer
         [] swIntr = "high" ->
              /\ swIntr' = "low" /\ hwIntr' = "low"
              /\ rxFlag' = TRUE
              /\ stopTimer' = TRUE /\ UNCHANGED startTimer
         [] OTHER ->
              /\ swIntr' = "high" /\ hwIntr' = "high"
              /\ UNCHANGED <<rxFlag, timerVars>>
    /\ UNCHANGED <<mailVars, lightVars, call, lock, report, mcu, mcuVars, rxq, init_end, reset>>

\* Stay awake and tell the MCU that it may send (UART_SEND_ALLOW).
StopPowerSaveTimer ==
    /\ stopTimer /\ stopTimer' = FALSE
    /\ lock' = TRUE
    /\ allowed' = TRUE
    /\ UNCHANGED <<mailVars, lightVars, call, rxFlag, pinVars, startTimer, report, mcu,
                   pin, out, rxq, init_end, reset>>

\* UART_ACCEPT_END, then sleep again.
StartPowerSaveTimer ==
    /\ startTimer /\ ~stopTimer /\ startTimer' = FALSE
    /\ lock' = FALSE
    /\ UNCHANGED <<mailVars, lightVars, call, rxFlag, pinVars, stopTimer, report, mcu,
                   mcuVars, rxq, init_end, reset>>

-----------------------------------------------------------------------------
(* The MCU (external): raises the pin, sends when allowed, lowers the pin. *)

McuChanges ==
    /\ McuActs /\ Quiet /\ ~reset
    /\ \E f \in {Frame(OnOffCMD, b) : b \in {0, 1}} \cup {Frame(BriNowCMD, v) : v \in BriData}
                  \cup {Frame(WIFIRESETCMD, 0)} :
         /\ f.cmd = BriNowCMD => InRange(f.dat)
         /\ out' = <<f>>
         /\ mcu' = CASE f.cmd = OnOffCMD  -> [mcu EXCEPT !.on  = f.dat]
                     [] f.cmd = BriNowCMD -> [mcu EXCEPT !.bri = f.dat]
                     [] OTHER             -> mcu
    /\ pin' = TRUE /\ edge' = (hwIntr = "posedge")
    /\ UNCHANGED <<mailVars, lightVars, call, rxFlag, hwIntr, swIntr, timerVars, lock, report,
                   allowed, rxq, init_end, reset>>

McuSends ==
    /\ out # <<>> /\ allowed
    /\ rxq' = rxq \o out /\ out' = <<>> /\ allowed' = FALSE
    /\ UNCHANGED <<mailVars, lightVars, call, rxFlag, pinVars, timerVars, lock, report, mcu,
                   pin, init_end, reset>>

McuLowersPin ==
    /\ pin /\ out = <<>> /\ pin' = FALSE
    /\ UNCHANGED <<mailVars, lightVars, call, rxFlag, pinVars, timerVars, lock, report, mcu,
                   allowed, out, rxq, init_end, reset>>

-----------------------------------------------------------------------------
Mailbox(c) == PutCmd(c) \/ PutDat(c) \/ PutSum(c) \/ CreateSender(c) \/ MarkSender(c) \/ EndCall(c)
Sender(s)  == Snapshot(s) \/ ClearFlag(s) \/ WakeMcu(s) \/ BeginTx(s) \/ EndTx(s) \/ AfterTx(s)
              \/ AfterDelay(s) \/ Unmark(s) \/ DeleteTask(s)
Rx         == RxFrame \/ RxAcked
Interrupts == wakeup_io_isr_handler \/ StopPowerSaveTimer \/ StartPowerSaveTimer
Mcu        == McuSends \/ McuLowersPin

Next ==
    \/ CloudPower \/ CloudBrightness \/ AgentInitEnd
    \/ \E c \in Callers : Mailbox(c)
    \/ \E s \in Senders : Sender(s)
    \/ AppMainEnds \/ WifiLost \/ Rx \/ Interrupts \/ McuChanges \/ Mcu

\* Every task runs when it can and the MCU sees its transfers through.
Fairness ==
    /\ \A c \in Callers : WF_vars(Mailbox(c))
    /\ \A s \in Senders : WF_vars(Sender(s))
    /\ WF_vars(AppMainEnds) /\ WF_vars(Rx) /\ WF_vars(Interrupts) /\ WF_vars(Mcu)

Spec     == Init /\ [][Next]_vars
FairSpec == Spec /\ Fairness

-----------------------------------------------------------------------------
(* Properties. *)

\* When everything has settled the MCU's light is what the firmware believes:
\* send_bri_ctrl_info sends its command ("send the MCU control command").
LightAgrees == Quiet => mcu = [on |-> Bri_Status, bri |-> Bri_Now_Pct]

\* And so is what was reported to the cloud, once a value has been reported: the cloud
\* is wrong about a value only if the last change of it was made at the switch while
\* s_wifi_init_end_flag was clear, before app_main ends or after a lost connection.
CloudAgrees ==
    Quiet => /\ OnOffCMD \in report.withheld \/ report.on = Bri_Status
             /\ \/ BriNowCMD \in report.withheld \/ report.bri = Bri_Now_Pct
                \/ <<report.bri, Bri_Now_Pct>> = <<PARAM_BRI, DEFAULT_BRI>>

\* Nothing that has finished leaves the power lock taken (the switch must fall
\* back to light sleep) or the receive flag set (which blocks every sender).
NothingLeftBehind == Quiet => ~lock /\ ~rxFlag

\* At most one sender exists, so vTaskDelete(ucSendTaskHandle) deletes its
\* caller and no task function ever returns.
OneSender == Cardinality(Alive) <= 1 /\ ~crashed

\* The flag that suppresses a second sender never outlives the first: a command
\* put in the mailbox always has a sender, or gets one.
FlagMeansSender == taskFlag => Alive # {}

\* A frame on the wire whose checksum fits, ERRORCMD aside, is one somebody
\* asked for: interleaved writers and readers of ucSendBuff cannot forge one.
SentWasAsked ==
    \A s \in Senders : LET f == snd[s].frame IN
        snd[s].pc = "tx" /\ f.sum = <<f.cmd, f.dat>> /\ f.cmd # ERRORCMD => <<f.cmd, f.dat>> \in asked

\* Every burst of work comes to an end, unless the light is operated again and again at
\* the switch or from the cloud: a sender that finds the MCU transferring and polls
\* ucRxTaskHandle_Flag gets through, and what it does to the shared pin keeps no
\* transfer from ending.
Settles == \/ []<>Quiet \/ ([]<>pin /\ []<>~pin)
           \/ []<><<CloudPower \/ CloudBrightness>>_vars

\* The sender of the mailbox: there is one at most, and one whenever the flag says so,
\* so that no command is left without a sender; every variable has its type.
SenderInv == TypeOK /\ OneSender /\ FlagMeansSender
=============================================================================
