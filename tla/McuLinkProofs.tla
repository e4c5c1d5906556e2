---------------------------- MODULE McuLinkProofs ----------------------------
(***************************************************************************)
(* Proofs about McuLink, for every set of brightness values.               *)
(*                                                                         *)
(* The mailbox has one sender at most, which deletes itself, its flag      *)
(* never outlives it, and every frame on the wire whose checksum fits was  *)
(* asked for.  This holds as long as the light is not operated at the      *)
(* switch while somebody sends, Apart below; with both, the UART task can  *)
(* come between another thread's xTaskCreate and the flag that says so.    *)
(*                                                                         *)
(* With writes of the cloud that do not overlap, and the light operated at *)
(* the switch as well: once everything has settled the MCU's light is the  *)
(* one the firmware knows, the power lock and the receive flag are         *)
(* released, and the cloud knows the light, but for what was changed at    *)
(* the switch while s_wifi_init_end_flag was clear.                        *)
(***************************************************************************)
EXTENDS McuLink, FiniteSetTheorems, TLAPS

Apart == ~CloudOverlap \/ ~McuActs

-----------------------------------------------------------------------------
(* The inductive invariant. *)

Cmds == {OnOffCMD, BriNowCMD, ERRORCMD, WIFIINITSTARTCMD, WIFIINITENDCMD}
Frames == [cmd : Cmds, dat : Nat, sum : Cmds \X Nat]
SndPcs == {"none", "snap", "clear", "wait", "wake", "tx", "post", "delay", "end", "delete"}
CallPcs == {"idle", "frame", "ack", "cmd", "dat", "sum", "create", "mark", "report", "boot"}

Reports == [on : {0, 1}, bri : Nat, withheld : SUBSET {OnOffCMD, BriNowCMD}]

\* What a caller may ask for, and what the MCU may say.
Commands == ({OnOffCMD} \X {0, 1}) \cup ({BriNowCMD} \X (0..MaxPct))
            \cup {<<WIFIINITSTARTCMD, 1>>, <<WIFIINITENDCMD, 1>>}
McuFrames == {Frame(OnOffCMD, b) : b \in {0, 1}} \cup {Frame(BriNowCMD, v) : v \in 0..MaxPct}
             \cup {Frame(WIFIRESETCMD, 0)}
OneFrame == {<< >>} \cup {<<f>> : f \in McuFrames}

LightTyped ==
    /\ Bri_Status \in {0, 1} /\ Bri_Now_Pct \in 0..MaxPct
    /\ mcu \in [on : {0, 1}, bri : Nat] /\ report \in Reports
    /\ init_end \in BOOLEAN /\ reset \in BOOLEAN

PinTyped ==
    /\ rxFlag \in BOOLEAN /\ edge \in BOOLEAN /\ stopTimer \in BOOLEAN /\ startTimer \in BOOLEAN
    /\ lock \in BOOLEAN /\ pin \in BOOLEAN /\ allowed \in BOOLEAN
    /\ hwIntr \in {"off", "posedge", "high", "low"} /\ swIntr \in {"posedge", "high", "low"}
    /\ out \in OneFrame /\ rxq \in OneFrame

MailTyped ==
    /\ buf \in Frames /\ sendFlag \in BOOLEAN /\ taskFlag \in BOOLEAN /\ crashed \in BOOLEAN
    /\ handle \in Senders \cup {0}
    /\ snd \in [Senders -> [pc : SndPcs, frame : Frames]]
    /\ call \in [Callers -> [pc : CallPcs, cmd : Cmds \cup {WIFIRESETCMD}, dat : Nat]]

Busy(c) == call[c].pc \notin {"idle", "boot"}

\* The MCU has something to say.
Transfer == out # << >> \/ rxq # << >>

\* The UART task is about to use the mailbox.
RxBefore == call["rx"].pc \in {"ack", "cmd", "dat", "sum", "create"}

\* One thread at a time is in its handler, and none while a frame of the MCU is
\* on its way; the UART task finds no sender.
Solo ==
    /\ \A c, d \in Callers : Busy(c) /\ Busy(d) => c = d
    /\ Transfer => \A c \in Callers : ~Busy(c)
    /\ Transfer \/ RxBefore => \A s \in Senders : snd[s].pc = "none"
    /\ out # << >> => rxq = << >>
    /\ ~McuActs => ~Transfer /\ ~Busy("rx")

Marking == \E c \in Callers : call[c].pc = "mark"

\* A sender is the task created last, and the flag says that it exists from
\* before the end of its first transmission until it deletes itself.
SenderOK ==
    /\ ~crashed
    /\ \A s \in Senders : snd[s].pc # "none" => handle = s
    /\ \A s \in Senders : Marking /\ snd[s].pc # "none" =>
                             snd[s].pc \in {"snap", "clear", "wait", "wake", "tx"}
    /\ Marking => ~taskFlag
    /\ Marking \/ taskFlag => \E s \in Senders : snd[s].pc # "none"
    /\ \A s \in Senders : snd[s].pc \notin {"none", "delete"} => taskFlag \/ Marking
    /\ \A s \in Senders : snd[s].pc = "delete" => ~taskFlag

\* A checksum is that of a command somebody asked for, or of none.
Genuine(f) == f.sum \in asked \/ f.sum[1] = ERRORCMD

\* What the writer of the mailbox has stored is still there, unless a sender
\* that ends has withdrawn the command.
WriterOK ==
    \A c \in Callers :
       /\ call[c].pc \in {"cmd", "dat", "sum"} => <<call[c].cmd, call[c].dat>> \in asked
       /\ call[c].pc \in {"dat", "sum"} => buf.cmd \in {call[c].cmd, ERRORCMD}
       /\ call[c].pc = "sum" => buf.dat = call[c].dat

FramesOK ==
    /\ asked \subseteq Commands
    /\ Genuine(buf) /\ \A s \in Senders : Genuine(snd[s].frame)

LInv == LightTyped /\ PinTyped /\ MailTyped /\ Solo /\ SenderOK /\ WriterOK /\ FramesOK

\* The variables that Solo, SenderOK, WriterOK, FramesOK and MailTyped are about.
mailAndCalls == <<mailVars, call, out, rxq>>

-----------------------------------------------------------------------------
(* Steps elsewhere. *)

\* What is reported is a light.
LEMMA ReportTyped ==
    ASSUME report \in Reports, NEW cmd, NEW on \in {0, 1}, NEW bri \in Nat, ReportLight(cmd, on, bri)
    PROVE  report' \in Reports
  BY DEF ReportLight, Reports

\* What is withheld is named.
LEMMA UpdateTyped ==
    ASSUME report \in Reports, NEW cmd, NEW dat \in Nat, UpdateLight(cmd, dat)
    PROVE  report' \in Reports
  <1>1. CASE init_end
    BY <1>1, ReportTyped DEF UpdateLight, AsBool
  <1>2. CASE ~init_end
    <2>1. report' = [report EXCEPT !.withheld = IF IsNews(cmd, dat) THEN @ \cup {cmd} ELSE @]
      BY <1>2 DEF UpdateLight
    <2>2. IsNews(cmd, dat) => cmd \in {OnOffCMD, BriNowCMD}
      BY DEF IsNews
    <2> QED BY <2>1, <2>2 DEF Reports
  <1> QED BY <1>1, <1>2

\* A step that leaves the mailbox, its callers and the frames of the MCU alone.
LEMMA Elsewhere ==
    ASSUME LInv, UNCHANGED mailAndCalls, LightTyped', PinTyped'
    PROVE  LInv'
  <1> USE DEF mailAndCalls, mailVars
  <1>1. MailTyped'
    BY DEF LInv, MailTyped
  <1>2. Solo'
    BY DEF LInv, Solo, Busy, Transfer, RxBefore
  <1>3. SenderOK'
    BY DEF LInv, SenderOK, Marking
  <1>4. WriterOK'
    BY DEF LInv, WriterOK
  <1>5. FramesOK'
    BY DEF LInv, FramesOK, Genuine
  <1> QED BY <1>1, <1>2, <1>3, <1>4, <1>5 DEF LInv

\* The pin's interrupt, the timers, and the loss of the connection.
LEMMA PinKept ==
    ASSUME LInv, Interrupts \/ WifiLost \/ McuLowersPin
    PROVE  LInv'
  <1> USE DEF pinVars, timerVars, mcuVars, lightVars, mailVars, mailAndCalls, LInv
  <1>1. CASE wakeup_io_isr_handler
    <2>1. /\ edge' = FALSE /\ rxFlag' \in {TRUE, FALSE, rxFlag}
          /\ swIntr' \in {"low", "high"} /\ hwIntr' \in {"low", "high"}
          /\ stopTimer' \in {TRUE, stopTimer} /\ startTimer' \in {TRUE, startTimer}
          /\ UNCHANGED <<mailAndCalls, lightVars, lock, report, mcu, mcuVars, init_end, reset>>
      BY <1>1 DEF wakeup_io_isr_handler
    <2>2. LightTyped'
      BY <2>1 DEF LightTyped
    <2>3. PinTyped'
      BY <2>1 DEF PinTyped
    <2> QED BY <2>1, <2>2, <2>3, Elsewhere
  <1>2. CASE StopPowerSaveTimer \/ StartPowerSaveTimer
    <2>1. LightTyped'
      BY <1>2 DEF StopPowerSaveTimer, StartPowerSaveTimer, LightTyped
    <2>2. PinTyped'
      BY <1>2 DEF StopPowerSaveTimer, StartPowerSaveTimer, PinTyped
    <2>3. UNCHANGED mailAndCalls
      BY <1>2 DEF StopPowerSaveTimer, StartPowerSaveTimer
    <2> QED BY <2>1, <2>2, <2>3, Elsewhere
  <1>3. CASE WifiLost \/ McuLowersPin
    <2>1. LightTyped'
      BY <1>3 DEF WifiLost, McuLowersPin, LightTyped
    <2>2. PinTyped'
      <3>1. CASE WifiLost
        BY <3>1 DEF WifiLost, PinTyped
      <3>2. CASE McuLowersPin
        BY <3>2 DEF McuLowersPin, PinTyped
      <3> QED BY <1>3, <3>1, <3>2
    <2>3. UNCHANGED mailAndCalls
      BY <1>3 DEF WifiLost, McuLowersPin
    <2> QED BY <2>1, <2>2, <2>3, Elsewhere
  <1> QED BY <1>1, <1>2, <1>3 DEF Interrupts

\* The MCU changes its light when nothing is in progress, and hands its frame over.
LEMMA McuKept ==
    ASSUME Apart, LInv, McuChanges \/ McuSends
    PROVE  LInv'
  <1> USE DEF pinVars, timerVars, mcuVars, lightVars, mailVars, LInv
  <1>1. CASE McuChanges
    <2>1. PICK f \in {Frame(OnOffCMD, b) : b \in {0, 1}} \cup {Frame(BriNowCMD, v) : v \in BriData}
                     \cup {Frame(WIFIRESETCMD, 0)} :
            /\ f.cmd = BriNowCMD => InRange(f.dat)
            /\ out' = <<f>>
            /\ mcu' = CASE f.cmd = OnOffCMD  -> [mcu EXCEPT !.on  = f.dat]
                        [] f.cmd = BriNowCMD -> [mcu EXCEPT !.bri = f.dat]
                        [] OTHER             -> mcu
      BY <1>1 DEF McuChanges
    <2>2. f \in McuFrames /\ f.dat \in Nat /\ (f.cmd = OnOffCMD => f.dat \in {0, 1})
      BY <2>1, LinkAssumption DEF McuFrames, Frame, InRange, OnOffCMD, BriNowCMD, WIFIRESETCMD
    <2>3. /\ McuActs /\ Quiet /\ pin' = TRUE /\ edge' = (hwIntr = "posedge")
          /\ UNCHANGED <<mailVars, lightVars, call, rxFlag, hwIntr, swIntr, timerVars, lock, report,
                         allowed, rxq, init_end, reset>>
      BY <1>1 DEF McuChanges, Apart
    <2>4. mcu' \in [on : {0, 1}, bri : Nat]
      BY <2>1, <2>2 DEF LightTyped, OnOffCMD, BriNowCMD
    <2>5. LightTyped'
      BY <2>3, <2>4 DEF LightTyped
    <2>6. PinTyped'
      BY <2>1, <2>2, <2>3 DEF PinTyped, OneFrame
    <2>7. MailTyped' /\ SenderOK' /\ WriterOK' /\ FramesOK'
      BY <2>3 DEF MailTyped, SenderOK, WriterOK, FramesOK, Marking, Genuine
    <2>8. Solo'
      <3>1. /\ \A s \in Senders : snd[s].pc = "none"
            /\ \A c \in Callers : call[c].pc \in {"idle", "boot"}
            /\ rxq = << >>
        BY <2>3 DEF Quiet, Alive
      <3> QED BY <2>3, <3>1 DEF Solo, Busy, Transfer, RxBefore
    <2> QED BY <2>5, <2>6, <2>7, <2>8
  <1>2. CASE McuSends
    <2>1. /\ out # << >> /\ rxq' = rxq \o out /\ out' = << >> /\ allowed' = FALSE
          /\ UNCHANGED <<mailVars, lightVars, call, rxFlag, pinVars, timerVars, lock, report, mcu,
                         pin, init_end, reset>>
      BY <1>2 DEF McuSends
    <2>2. rxq' = out
      <3>1. rxq = << >>
        BY <2>1 DEF Solo
      <3>2. PICK f \in McuFrames : out = <<f>>
        BY <2>1 DEF PinTyped, OneFrame
      <3> QED BY <2>1, <3>1, <3>2
    <2>3. LightTyped' /\ MailTyped' /\ SenderOK' /\ WriterOK' /\ FramesOK'
      BY <2>1 DEF LightTyped, MailTyped, SenderOK, WriterOK, FramesOK, Marking, Genuine
    <2>4. PinTyped'
      BY <2>1, <2>2 DEF PinTyped, OneFrame
    <2>5. Solo'
      BY <2>1, <2>2 DEF Solo, Busy, Transfer, RxBefore
    <2> QED BY <2>3, <2>4, <2>5
  <1> QED BY <1>1, <1>2

-----------------------------------------------------------------------------
(* The sender. *)

\* A sender moves on.
LEMMA GoFacts ==
    ASSUME MailTyped, NEW s \in Senders, NEW q \in SndPcs, Go(s, q)
    PROVE  /\ snd' \in [Senders -> [pc : SndPcs, frame : Frames]]
           /\ snd'[s].pc = q /\ snd'[s].frame = snd[s].frame
           /\ \A r \in Senders : r # s => snd'[r] = snd[r]
           /\ \A r \in Senders : snd'[r].frame = snd[r].frame
  BY DEF MailTyped, Go

\* A sender that is there and stays keeps the flag's meaning.
LEMMA SenderMoves ==
    ASSUME LInv, NEW s \in Senders, snd[s].pc \notin {"none", "delete"},
           snd'[s].pc \notin {"none", "delete"},
           \A r \in Senders : r # s => snd'[r] = snd[r],
           Marking => snd'[s].pc \in {"snap", "clear", "wait", "wake", "tx"},
           UNCHANGED <<call, taskFlag, handle, crashed, out, rxq>>
    PROVE  Solo' /\ SenderOK'
  <1>1. Solo'
    BY DEF LInv, Solo, Busy, Transfer, RxBefore
  <1>2. Marking' = Marking
    BY DEF Marking
  <1>3. SenderOK'
    BY <1>2 DEF LInv, SenderOK
  <1> QED BY <1>1, <1>3

\* Its part before the transmission.
LEMMA SenderBeginsKept ==
    ASSUME LInv, NEW s \in Senders, Snapshot(s) \/ ClearFlag(s) \/ WakeMcu(s) \/ BeginTx(s)
    PROVE  LInv'
  <1> USE DEF pinVars, timerVars, mcuVars, lightVars
  <1>1. CASE Snapshot(s)
    <2>1. /\ snd[s].pc = "snap" /\ snd' = [snd EXCEPT ![s] = [pc |-> "clear", frame |-> buf]]
          /\ UNCHANGED <<buf, sendFlag, taskFlag, handle, crashed, asked, lightVars, call, rxFlag,
                         pinVars, timerVars, lock, report, mcu, mcuVars, rxq, init_end, reset>>
      BY <1>1 DEF Snapshot
    <2>2. /\ snd' \in [Senders -> [pc : SndPcs, frame : Frames]]
          /\ snd'[s].pc = "clear" /\ snd'[s].frame = buf
          /\ \A r \in Senders : r # s => snd'[r] = snd[r]
      BY <2>1 DEF LInv, MailTyped, SndPcs
    <2>3. LightTyped' /\ PinTyped' /\ MailTyped'
      BY <2>1, <2>2 DEF LInv, LightTyped, PinTyped, MailTyped
    <2>4. Solo' /\ SenderOK'
      BY <2>1, <2>2, SenderMoves
    <2>5. WriterOK' /\ FramesOK'
      BY <2>1, <2>2 DEF LInv, WriterOK, FramesOK, Genuine
    <2> QED BY <2>3, <2>4, <2>5 DEF LInv
  <1>2. CASE ClearFlag(s)
    <2>1. /\ snd[s].pc = "clear" /\ Go(s, "wait") /\ sendFlag' = FALSE
          /\ UNCHANGED <<buf, taskFlag, handle, crashed, asked, lightVars, call, rxFlag,
                         pinVars, timerVars, lock, report, mcu, mcuVars, rxq, init_end, reset>>
      BY <1>2 DEF ClearFlag
    <2>2. /\ snd' \in [Senders -> [pc : SndPcs, frame : Frames]] /\ snd'[s].pc = "wait"
          /\ \A r \in Senders : r # s => snd'[r] = snd[r]
          /\ \A r \in Senders : snd'[r].frame = snd[r].frame
      BY <2>1, GoFacts DEF LInv, SndPcs
    <2>3. LightTyped' /\ PinTyped' /\ MailTyped'
      <3>1. LightTyped'
        BY <2>1, <2>2 DEF LInv, LightTyped
      <3>2. PinTyped'
        BY <2>1, <2>2 DEF LInv, PinTyped
      <3>3. MailTyped'
        BY <2>1, <2>2 DEF LInv, MailTyped
      <3> QED BY <3>1, <3>2, <3>3
    <2>4. Solo' /\ SenderOK'
      BY <2>1, <2>2, SenderMoves
    <2>5. WriterOK' /\ FramesOK'
      BY <2>1, <2>2 DEF LInv, WriterOK, FramesOK, Genuine
    <2> QED BY <2>3, <2>4, <2>5 DEF LInv
  <1>3. CASE WakeMcu(s)
    <2>1. /\ snd[s].pc = "wait" /\ Go(s, "wake") /\ hwIntr' \in {"off", hwIntr}
          /\ UNCHANGED <<buf, sendFlag, taskFlag, handle, crashed, asked, lightVars, call, rxFlag,
                         swIntr, edge, timerVars, lock, report, mcu, mcuVars, rxq, init_end, reset>>
      BY <1>3 DEF WakeMcu
    <2>2. /\ snd' \in [Senders -> [pc : SndPcs, frame : Frames]] /\ snd'[s].pc = "wake"
          /\ \A r \in Senders : r # s => snd'[r] = snd[r]
          /\ \A r \in Senders : snd'[r].frame = snd[r].frame
      BY <2>1, GoFacts DEF LInv, SndPcs
    <2>3. LightTyped' /\ PinTyped' /\ MailTyped'
      BY <2>1, <2>2 DEF LInv, LightTyped, PinTyped, MailTyped
    <2>4. Solo' /\ SenderOK'
      BY <2>1, <2>2, SenderMoves
    <2>5. WriterOK' /\ FramesOK'
      BY <2>1, <2>2 DEF LInv, WriterOK, FramesOK, Genuine
    <2> QED BY <2>3, <2>4, <2>5 DEF LInv
  <1>4. CASE BeginTx(s)
    <2>1. /\ snd[s].pc = "wake" /\ Go(s, "tx") /\ lock' = TRUE
          /\ UNCHANGED <<buf, sendFlag, taskFlag, handle, crashed, asked, lightVars, call, rxFlag,
                         pinVars, timerVars, report, mcu, mcuVars, rxq, init_end, reset>>
      BY <1>4 DEF BeginTx
    <2>2. /\ snd' \in [Senders -> [pc : SndPcs, frame : Frames]] /\ snd'[s].pc = "tx"
          /\ \A r \in Senders : r # s => snd'[r] = snd[r]
          /\ \A r \in Senders : snd'[r].frame = snd[r].frame
      BY <2>1, GoFacts DEF LInv, SndPcs
    <2>3. LightTyped' /\ PinTyped' /\ MailTyped'
      BY <2>1, <2>2 DEF LInv, LightTyped, PinTyped, MailTyped
    <2>4. Solo' /\ SenderOK'
      BY <2>1, <2>2, SenderMoves
    <2>5. WriterOK' /\ FramesOK'
      BY <2>1, <2>2 DEF LInv, WriterOK, FramesOK, Genuine
    <2> QED BY <2>3, <2>4, <2>5 DEF LInv
  <1> QED BY <1>1, <1>2, <1>3, <1>4

\* A frame that the MCU obeys was asked for, or is no command.
LEMMA ObeyedWasAsked ==
    ASSUME LInv, NEW s \in Senders, snd[s].frame.sum = <<snd[s].frame.cmd, snd[s].frame.dat>>,
           snd[s].frame.cmd # ERRORCMD
    PROVE  <<snd[s].frame.cmd, snd[s].frame.dat>> \in asked
  BY DEF LInv, FramesOK, Genuine

\* A command is what its name says.
LEMMA AskedFacts ==
    ASSUME FramesOK, NEW c, NEW d, <<c, d>> \in asked
    PROVE  /\ c \in Cmds \ {ERRORCMD} /\ d \in Nat
           /\ c = OnOffCMD => d \in {0, 1}
           /\ c = BriNowCMD => d \in 0..MaxPct
  BY LinkAssumption DEF FramesOK, Commands, Cmds, OnOffCMD, BriNowCMD, ERRORCMD,
     WIFIINITSTARTCMD, WIFIINITENDCMD

\* Its part after the transmission.
LEMMA SenderEndsKept ==
    ASSUME LInv, NEW s \in Senders,
           EndTx(s) \/ AfterTx(s) \/ AfterDelay(s) \/ Unmark(s) \/ DeleteTask(s)
    PROVE  LInv'
  <1> USE DEF pinVars, timerVars, mcuVars, lightVars
  <1>1. CASE EndTx(s)
    <2> DEFINE f == snd[s].frame
    <2>1. /\ snd[s].pc = "tx" /\ Go(s, "post") /\ lock' = FALSE /\ ~Marking
          /\ hwIntr' \in {"posedge", hwIntr}
          /\ UNCHANGED <<buf, sendFlag, taskFlag, handle, crashed, asked, lightVars, call, rxFlag,
                         swIntr, edge, timerVars, report, mcuVars, rxq, init_end, reset>>
      BY <1>1 DEF EndTx, Marking
    <2>2. /\ snd' \in [Senders -> [pc : SndPcs, frame : Frames]] /\ snd'[s].pc = "post"
          /\ \A r \in Senders : r # s => snd'[r] = snd[r]
          /\ \A r \in Senders : snd'[r].frame = snd[r].frame
      BY <2>1, GoFacts DEF LInv, SndPcs
    <2>3. mcu' \in [on : {0, 1}, bri : Nat]
      <3>1. mcu' = IF f.sum # <<f.cmd, f.dat>> THEN mcu
                   ELSE [on  |-> IF f.cmd = OnOffCMD  THEN f.dat ELSE mcu.on,
                         bri |-> IF f.cmd = BriNowCMD THEN f.dat ELSE mcu.bri]
        BY <1>1 DEF EndTx
      <3>2. f.sum = <<f.cmd, f.dat>> /\ f.cmd = OnOffCMD => f.dat \in {0, 1}
        <4> SUFFICES ASSUME f.sum = <<f.cmd, f.dat>>, f.cmd = OnOffCMD
                     PROVE  f.dat \in {0, 1}
          OBVIOUS
        <4>1. f.cmd # ERRORCMD
          BY DEF OnOffCMD, ERRORCMD
        <4> QED BY <4>1, ObeyedWasAsked, AskedFacts DEF LInv
      <3>3. f.dat \in Nat
        BY DEF LInv, MailTyped, Frames
      <3> QED BY <3>1, <3>2, <3>3 DEF LInv, LightTyped
    <2>4. LightTyped' /\ PinTyped' /\ MailTyped'
      <3>1. LightTyped'
        BY <2>1, <2>2, <2>3 DEF LInv, LightTyped
      <3>2. PinTyped'
        BY <2>1, <2>2, <2>3 DEF LInv, PinTyped
      <3>3. MailTyped'
        BY <2>1, <2>2, <2>3 DEF LInv, MailTyped
      <3> QED BY <3>1, <3>2, <3>3
    <2>5. Solo' /\ SenderOK'
      BY <2>1, <2>2, SenderMoves
    <2>6. WriterOK' /\ FramesOK'
      BY <2>1, <2>2 DEF LInv, WriterOK, FramesOK, Genuine
    <2> QED BY <2>4, <2>5, <2>6 DEF LInv
  <1>2. CASE AfterTx(s)
    <2>1. /\ snd[s].pc = "post" /\ snd' = [snd EXCEPT ![s] = [pc |-> "delay", frame |-> NoFrame]]
          /\ UpdateLight(snd[s].frame.cmd, snd[s].frame.dat) /\ sendFlag' = FALSE
          /\ UNCHANGED <<buf, taskFlag, handle, crashed, asked, lightVars, call, rxFlag,
                         pinVars, timerVars, lock, mcu, mcuVars, rxq, init_end, reset>>
      BY <1>2 DEF AfterTx
    <2>2. NoFrame \in Frames /\ NoFrame.sum[1] = ERRORCMD
      BY DEF NoFrame, Frame, Frames, Cmds
    <2>3. /\ snd' \in [Senders -> [pc : SndPcs, frame : Frames]]
          /\ snd'[s].pc = "delay" /\ snd'[s].frame = NoFrame
          /\ \A r \in Senders : r # s => snd'[r] = snd[r]
      BY <2>1, <2>2 DEF LInv, MailTyped, SndPcs
    <2>4. report' \in Reports
      <3>1. snd[s].frame.dat \in Nat
        BY DEF LInv, MailTyped, Frames
      <3>2. report \in Reports
        BY DEF LInv, LightTyped
      <3> QED BY <2>1, <3>1, <3>2, UpdateTyped
    <2>5. LightTyped' /\ PinTyped' /\ MailTyped'
      <3>1. LightTyped'
        BY <2>1, <2>3, <2>4 DEF LInv, LightTyped
      <3>2. PinTyped'
        BY <2>1, <2>3, <2>4 DEF LInv, PinTyped
      <3>3. MailTyped'
        BY <2>1, <2>3, <2>4 DEF LInv, MailTyped
      <3> QED BY <3>1, <3>2, <3>3
    <2>6. ~Marking
      BY <2>1 DEF LInv, SenderOK
    <2>7. Solo' /\ SenderOK'
      BY <2>1, <2>3, <2>6, SenderMoves
    <2>8. WriterOK' /\ FramesOK'
      BY <2>1, <2>2, <2>3 DEF LInv, WriterOK, FramesOK, Genuine
    <2> QED BY <2>5, <2>7, <2>8 DEF LInv
  <1>3. CASE AfterDelay(s)
    <2>1. /\ snd[s].pc = "delay"
          /\ \/ Go(s, "snap") /\ UNCHANGED buf
             \/ Go(s, "end") /\ buf' = [buf EXCEPT !.cmd = ERRORCMD]
          /\ UNCHANGED <<sendFlag, taskFlag, handle, crashed, asked, lightVars, call, rxFlag,
                         pinVars, timerVars, lock, report, mcu, mcuVars, rxq, init_end, reset>>
      BY <1>3 DEF AfterDelay
    <2>2. /\ snd' \in [Senders -> [pc : SndPcs, frame : Frames]] /\ snd'[s].pc \in {"snap", "end"}
          /\ \A r \in Senders : r # s => snd'[r] = snd[r]
          /\ \A r \in Senders : snd'[r].frame = snd[r].frame
      BY <2>1, GoFacts DEF LInv, SndPcs
    <2>3. /\ buf' \in Frames /\ buf'.cmd \in {buf.cmd, ERRORCMD} /\ buf'.dat = buf.dat
          /\ buf'.sum = buf.sum
      BY <2>1 DEF LInv, MailTyped, Frames, Cmds
    <2>4. LightTyped' /\ PinTyped' /\ MailTyped'
      BY <2>1, <2>2, <2>3 DEF LInv, LightTyped, PinTyped, MailTyped
    <2>5. ~Marking
      BY <2>1 DEF LInv, SenderOK
    <2>6. Solo' /\ SenderOK'
      BY <2>1, <2>2, <2>5, SenderMoves
    <2>7. WriterOK' /\ FramesOK'
      BY <2>1, <2>2, <2>3 DEF LInv, WriterOK, FramesOK, Genuine
    <2> QED BY <2>4, <2>6, <2>7 DEF LInv
  <1>4. CASE Unmark(s)
    <2>1. /\ snd[s].pc = "end" /\ Go(s, "delete") /\ taskFlag' = FALSE
          /\ UNCHANGED <<buf, sendFlag, handle, crashed, asked, lightVars, call, rxFlag,
                         pinVars, timerVars, lock, report, mcu, mcuVars, rxq, init_end, reset>>
      BY <1>4 DEF Unmark
    <2>2. /\ snd' \in [Senders -> [pc : SndPcs, frame : Frames]] /\ snd'[s].pc = "delete"
          /\ \A r \in Senders : r # s => snd'[r] = snd[r]
          /\ \A r \in Senders : snd'[r].frame = snd[r].frame
      BY <2>1, GoFacts DEF LInv, SndPcs
    <2>3. LightTyped' /\ PinTyped' /\ MailTyped'
      <3>1. LightTyped'
        BY <2>1, <2>2 DEF LInv, LightTyped
      <3>2. PinTyped'
        BY <2>1, <2>2 DEF LInv, PinTyped
      <3>3. MailTyped'
        BY <2>1, <2>2 DEF LInv, MailTyped
      <3> QED BY <3>1, <3>2, <3>3
    <2>4. ~Marking /\ Marking' = Marking /\ \A r \in Senders : r # s => snd[r].pc = "none"
      BY <2>1 DEF LInv, SenderOK, Marking
    <2>5. SenderOK'
      BY <2>1, <2>2, <2>4 DEF LInv, SenderOK
    <2>6. Solo'
      BY <2>1, <2>2 DEF LInv, Solo, Busy, Transfer, RxBefore
    <2>7. WriterOK' /\ FramesOK'
      BY <2>1, <2>2 DEF LInv, WriterOK, FramesOK, Genuine
    <2> QED BY <2>3, <2>5, <2>6, <2>7 DEF LInv
  <1>5. CASE DeleteTask(s)
    <2>1. /\ snd[s].pc = "delete"
          /\ snd' = [snd EXCEPT ![handle] = [pc |-> "none", frame |-> NoFrame]]
          /\ crashed' = (handle # s)
          /\ UNCHANGED <<buf, sendFlag, taskFlag, handle, asked, lightVars, call, rxFlag,
                         pinVars, timerVars, lock, report, mcu, mcuVars, rxq, init_end, reset>>
      BY <1>5 DEF DeleteTask
    <2>2. handle = s /\ ~Marking /\ ~taskFlag
      BY <2>1 DEF LInv, SenderOK
    <2>3. NoFrame \in Frames /\ NoFrame.sum[1] = ERRORCMD
      BY DEF NoFrame, Frame, Frames, Cmds
    <2>4. /\ snd' \in [Senders -> [pc : SndPcs, frame : Frames]]
          /\ snd'[s].pc = "none" /\ snd'[s].frame = NoFrame
          /\ \A r \in Senders : r # s => snd'[r] = snd[r]
      BY <2>1, <2>2, <2>3 DEF LInv, MailTyped, SndPcs
    <2>5. LightTyped' /\ PinTyped' /\ MailTyped'
      BY <2>1, <2>4 DEF LInv, LightTyped, PinTyped, MailTyped
    <2>6. SenderOK'
      <3>1. ~Marking'
        BY <2>1, <2>2 DEF Marking
      <3>2. \A r \in Senders : snd'[r].pc = "none"
        BY <2>1, <2>2, <2>4 DEF LInv, SenderOK
      <3> QED BY <2>1, <2>2, <3>1, <3>2 DEF SenderOK
    <2>7. Solo'
      BY <2>1, <2>4 DEF LInv, Solo, Busy, Transfer, RxBefore
    <2>8. WriterOK' /\ FramesOK'
      BY <2>1, <2>3, <2>4 DEF LInv, WriterOK, FramesOK, Genuine
    <2> QED BY <2>5, <2>6, <2>7, <2>8 DEF LInv
  <1> QED BY <1>1, <1>2, <1>3, <1>4, <1>5

-----------------------------------------------------------------------------
(* The callers of send_bri_ctrl_info. *)

\* A caller moves on within its handler.
LEMMA StepFacts ==
    ASSUME MailTyped, NEW c \in Callers, NEW q \in CallPcs, Step(c, q)
    PROVE  /\ call' \in [Callers -> [pc : CallPcs, cmd : Cmds \cup {WIFIRESETCMD}, dat : Nat]]
           /\ call'[c].pc = q /\ call'[c].cmd = call[c].cmd /\ call'[c].dat = call[c].dat
           /\ \A d \in Callers : d # c => call'[d] = call[d]
  BY DEF MailTyped, Step

\* A busy caller that goes on stays the only one.
LEMMA SoloMoves ==
    ASSUME Solo, NEW c \in Callers, Busy(c),
           \A d \in Callers : d # c => call'[d] = call[d],
           RxBefore' => RxBefore, RxBefore => snd' = snd,
           UNCHANGED <<out, rxq>>
    PROVE  Solo'
  <1>1. ~Transfer /\ \A d \in Callers : Busy(d) => d = c
    BY DEF Solo
  <1>2. \A d \in Callers : Busy(d)' => d = c
    BY <1>1 DEF Busy
  <1>3. ~Transfer'
    BY <1>1 DEF Transfer
  <1>4. ~McuActs => ~Busy("rx")'
    <2>1. "rx" \in Callers
      BY DEF Callers
    <2> QED BY <1>2, <2>1 DEF Solo
  <1>5. RxBefore' => \A s \in Senders : snd'[s].pc = "none"
    BY DEF Solo
  <1> QED BY <1>1, <1>2, <1>3, <1>4, <1>5 DEF Solo, Transfer

\* No caller begins or ends to mark its sender.
LEMMA MarkingKept ==
    ASSUME SenderOK, Marking' <=> Marking, UNCHANGED <<snd, taskFlag, handle, crashed>>
    PROVE  SenderOK'
  BY DEF SenderOK

\* The three stores into the mailbox.
LEMMA PuttingKept ==
    ASSUME LInv, NEW c \in Callers, PutCmd(c) \/ PutDat(c) \/ PutSum(c)
    PROVE  LInv'
  <1> USE DEF pinVars, timerVars, mcuVars, lightVars
  <1>1. PICK q \in {"dat", "sum", "create"} :
          /\ Step(c, q)
          /\ UNCHANGED <<taskFlag, handle, snd, crashed, asked, lightVars, rxFlag, pinVars,
                         timerVars, lock, report, mcu, mcuVars, rxq, init_end, reset>>
          /\ call[c].pc = CASE q = "dat" -> "cmd" [] q = "sum" -> "dat" [] OTHER -> "sum"
          /\ buf' = CASE q = "dat" -> [buf EXCEPT !.cmd = call[c].cmd]
                      [] q = "sum" -> [buf EXCEPT !.dat = call[c].dat]
                      [] OTHER     -> [buf EXCEPT !.sum = <<buf.cmd, buf.dat>>]
          /\ sendFlag' \in {TRUE, sendFlag}
    BY DEF PutCmd, PutDat, PutSum
  <1>2. /\ call' \in [Callers -> [pc : CallPcs, cmd : Cmds \cup {WIFIRESETCMD}, dat : Nat]]
        /\ call'[c].pc = q /\ call'[c].cmd = call[c].cmd /\ call'[c].dat = call[c].dat
        /\ \A d \in Callers : d # c => call'[d] = call[d]
    BY <1>1, StepFacts DEF LInv, CallPcs
  <1>3. /\ <<call[c].cmd, call[c].dat>> \in asked
        /\ q \in {"sum", "create"} => buf.cmd \in {call[c].cmd, ERRORCMD}
        /\ q = "create" => buf.dat = call[c].dat
    BY <1>1 DEF LInv, WriterOK
  <1>4. call[c].cmd \in Cmds /\ call[c].dat \in Nat
    BY <1>3, AskedFacts DEF LInv
  <1>5. Solo'
    <2>1. Busy(c) /\ (RxBefore' => RxBefore)
      BY <1>1, <1>2 DEF Busy, RxBefore, Callers
    <2> QED BY <1>1, <1>2, <2>1, SoloMoves DEF LInv
  <1>6. SenderOK'
    <2>1. Marking' <=> Marking
      BY <1>1, <1>2 DEF Marking
    <2> QED BY <1>1, <2>1, MarkingKept DEF LInv
  <1>7. \A d \in Callers : d # c => call[d].pc \in {"idle", "boot"}
    BY <1>1 DEF LInv, Solo, Busy
  <1>8. LightTyped' /\ PinTyped'
    BY <1>1 DEF LInv, LightTyped, PinTyped
  <1>9. CASE q = "dat"
    <2>1. buf' = [buf EXCEPT !.cmd = call[c].cmd]
      BY <1>1, <1>9
    <2>2. /\ buf' \in Frames /\ buf'.cmd = call[c].cmd /\ buf'.sum = buf.sum
      BY <1>4, <2>1 DEF LInv, MailTyped, Frames
    <2>3. MailTyped'
      BY <1>1, <1>2, <2>2 DEF LInv, MailTyped
    <2>4. WriterOK'
      BY <1>1, <1>2, <1>3, <1>7, <1>9, <2>2 DEF WriterOK
    <2>5. FramesOK'
      BY <1>1, <2>2 DEF LInv, FramesOK, Genuine
    <2> QED BY <1>5, <1>6, <1>8, <2>3, <2>4, <2>5 DEF LInv
  <1>10. CASE q = "sum"
    <2>1. buf' = [buf EXCEPT !.dat = call[c].dat]
      BY <1>1, <1>10
    <2>2. /\ buf' \in Frames /\ buf'.cmd = buf.cmd /\ buf'.sum = buf.sum
          /\ buf'.dat = call[c].dat
      BY <1>4, <2>1 DEF LInv, MailTyped, Frames
    <2>3. MailTyped'
      BY <1>1, <1>2, <2>2 DEF LInv, MailTyped
    <2>4. WriterOK'
      BY <1>1, <1>2, <1>3, <1>7, <1>10, <2>2 DEF WriterOK
    <2>5. FramesOK'
      BY <1>1, <2>2 DEF LInv, FramesOK, Genuine
    <2> QED BY <1>5, <1>6, <1>8, <2>3, <2>4, <2>5 DEF LInv
  <1>11. CASE q = "create"
    <2>1. buf' = [buf EXCEPT !.sum = <<buf.cmd, buf.dat>>]
      BY <1>1, <1>11
    <2>2. buf' \in Frames /\ buf'.sum = <<buf.cmd, buf.dat>>
      BY <2>1 DEF LInv, MailTyped, Frames
    <2>3. MailTyped'
      BY <1>1, <1>2, <2>2 DEF LInv, MailTyped
    <2>4. WriterOK'
      BY <1>1, <1>2, <1>7, <1>11 DEF WriterOK
    <2>5. Genuine(buf)'
      BY <1>1, <1>3, <1>11, <2>2 DEF Genuine
    <2>6. FramesOK'
      BY <1>1, <2>5 DEF LInv, FramesOK, Genuine
    <2> QED BY <1>5, <1>6, <1>8, <2>3, <2>4, <2>6 DEF LInv
  <1> QED BY <1>9, <1>10, <1>11

\* Creating the sender: without the flag there is none, since the caller could
\* not run between another sender's clearing of the flag and its end.
LEMMA CreatingKept ==
    ASSUME LInv, NEW c \in Callers, CreateSender(c) \/ MarkSender(c)
    PROVE  LInv'
  <1> USE DEF pinVars, timerVars, mcuVars, lightVars
  <1>0. \A d \in Callers : call[d].pc \notin {"idle", "boot"} => d = c
    BY DEF CreateSender, MarkSender, LInv, Solo, Busy
  <1>1. CASE CreateSender(c)
    <2>1. /\ call[c].pc = "create" /\ MayRun(c)
          /\ UNCHANGED <<buf, sendFlag, taskFlag, crashed, asked, lightVars, rxFlag, pinVars,
                         timerVars, lock, report, mcu, mcuVars, rxq, init_end, reset>>
          /\ \/ taskFlag /\ Step(c, "report") /\ UNCHANGED <<snd, handle>>
             \/ ~taskFlag /\ \E s \in Senders \ Alive :
                   /\ snd' = [snd EXCEPT ![s] = [pc |-> "snap", frame |-> NoFrame]]
                   /\ handle' = s
                   /\ Step(c, "mark")
      BY <1>1 DEF CreateSender
    <2>2. LightTyped' /\ PinTyped'
      BY <2>1 DEF LInv, LightTyped, PinTyped
    <2>3. ~Marking
      BY <1>0, <2>1 DEF Marking
    <2>4. CASE taskFlag /\ Step(c, "report") /\ UNCHANGED <<snd, handle>>
      <3>1. /\ call' \in [Callers -> [pc : CallPcs, cmd : Cmds \cup {WIFIRESETCMD}, dat : Nat]]
            /\ call'[c].pc = "report"
            /\ \A d \in Callers : d # c => call'[d] = call[d]
        BY <2>4, StepFacts DEF LInv, CallPcs
      <3>2. MailTyped'
        BY <2>1, <2>4, <3>1 DEF LInv, MailTyped
      <3>3. Solo'
        <4>1. Busy(c) /\ (RxBefore' => RxBefore)
          BY <2>1, <3>1 DEF Busy, RxBefore, Callers
        <4> QED BY <2>1, <2>4, <3>1, <4>1, SoloMoves DEF LInv
      <3>4. SenderOK'
        <4>1. Marking' <=> Marking
          BY <2>1, <3>1 DEF Marking
        <4> QED BY <2>1, <2>4, <4>1, MarkingKept DEF LInv
      <3>5. WriterOK' /\ FramesOK'
        BY <2>1, <2>4, <3>1 DEF LInv, WriterOK, FramesOK, Genuine
      <3> QED BY <2>2, <3>2, <3>3, <3>4, <3>5 DEF LInv
    <2>5. CASE ~taskFlag /\ \E s \in Senders \ Alive :
                   /\ snd' = [snd EXCEPT ![s] = [pc |-> "snap", frame |-> NoFrame]]
                   /\ handle' = s
                   /\ Step(c, "mark")
      <3>1. PICK s \in Senders \ Alive :
                   /\ snd' = [snd EXCEPT ![s] = [pc |-> "snap", frame |-> NoFrame]]
                   /\ handle' = s
                   /\ Step(c, "mark")
        BY <2>5
      <3>2. /\ call' \in [Callers -> [pc : CallPcs, cmd : Cmds \cup {WIFIRESETCMD}, dat : Nat]]
            /\ call'[c].pc = "mark"
            /\ \A d \in Callers : d # c => call'[d] = call[d]
        BY <3>1, StepFacts DEF LInv, CallPcs
      <3>3. NoFrame \in Frames /\ NoFrame.sum[1] = ERRORCMD
        BY DEF NoFrame, Frame, Frames, Cmds
      <3>4. /\ snd' \in [Senders -> [pc : SndPcs, frame : Frames]]
            /\ snd'[s].pc = "snap" /\ snd'[s].frame = NoFrame
            /\ \A r \in Senders : r # s => snd'[r] = snd[r]
        BY <3>1, <3>3 DEF LInv, MailTyped, SndPcs
      <3>5. MailTyped'
        BY <2>1, <3>1, <3>2, <3>4 DEF LInv, MailTyped
      <3>6. \A r \in Senders : snd[r].pc = "none"
        <4>1. \A r \in Senders : snd[r].pc \in {"none", "delete"}
          BY <2>3, <2>5 DEF LInv, SenderOK
        <4>2. CASE c = "rx"
          BY <2>1, <4>2 DEF LInv, Solo, RxBefore
        <4>3. CASE c # "rx"
          BY <2>1, <4>1, <4>3 DEF MayRun, HighIdle
        <4> QED BY <4>2, <4>3
      <3>7. Solo'
        <4>1. Busy(c) /\ ~RxBefore'
          BY <1>0, <2>1, <3>2 DEF Busy, RxBefore, Callers
        <4>2. ~Transfer
          BY <4>1 DEF LInv, Solo
        <4>3. \A d \in Callers : Busy(d)' => d = c
          BY <1>0, <3>2 DEF Busy
        <4>4. ~McuActs => ~Busy("rx")'
          <5>1. "rx" \in Callers
            BY DEF Callers
          <5> QED BY <4>1, <4>3, <5>1 DEF LInv, Solo
        <4> QED BY <2>1, <4>1, <4>2, <4>3, <4>4 DEF LInv, Solo, Transfer
      <3>8. SenderOK'
        <4>1. Marking'
          BY <3>2 DEF Marking
        <4> QED BY <2>1, <2>5, <3>1, <3>4, <3>6, <4>1 DEF LInv, SenderOK
      <3>9. WriterOK'
        BY <1>0, <2>1, <3>2 DEF LInv, WriterOK
      <3>10. FramesOK'
        BY <2>1, <3>3, <3>4 DEF LInv, FramesOK, Genuine
      <3> QED BY <2>2, <3>5, <3>7, <3>8, <3>9, <3>10 DEF LInv
    <2> QED BY <2>1, <2>4, <2>5
  <1>2. CASE MarkSender(c)
    <2>1. /\ call[c].pc = "mark" /\ Step(c, "report") /\ taskFlag' = TRUE
          /\ UNCHANGED <<buf, sendFlag, handle, snd, crashed, asked, lightVars, rxFlag, pinVars,
                         timerVars, lock, report, mcu, mcuVars, rxq, init_end, reset>>
      BY <1>2 DEF MarkSender
    <2>2. /\ call' \in [Callers -> [pc : CallPcs, cmd : Cmds \cup {WIFIRESETCMD}, dat : Nat]]
          /\ call'[c].pc = "report"
          /\ \A d \in Callers : d # c => call'[d] = call[d]
      BY <2>1, StepFacts DEF LInv, CallPcs
    <2>3. LightTyped' /\ PinTyped'
      BY <2>1 DEF LInv, LightTyped, PinTyped
    <2>4. MailTyped'
      BY <2>1, <2>2 DEF LInv, MailTyped
    <2>5. Solo'
      <3>1. Busy(c) /\ (RxBefore' => RxBefore)
        BY <2>1, <2>2 DEF Busy, RxBefore, Callers
      <3> QED BY <2>1, <2>2, <3>1, SoloMoves DEF LInv
    <2>6. SenderOK'
      <3>1. Marking /\ ~Marking'
        BY <1>0, <2>1, <2>2 DEF Marking
      <3>2. \A s \in Senders : snd[s].pc # "delete"
        BY <3>1 DEF LInv, SenderOK
      <3> QED BY <2>1, <3>1, <3>2 DEF LInv, SenderOK
    <2>7. WriterOK' /\ FramesOK'
      BY <2>1, <2>2 DEF LInv, WriterOK, FramesOK, Genuine
    <2> QED BY <2>3, <2>4, <2>5, <2>6, <2>7 DEF LInv
  <1> QED BY <1>1, <1>2

\* app_main ends.
LEMMA AppMainEndsKept ==
    ASSUME LInv, AppMainEnds
    PROVE  LInv'
  <1> USE DEF pinVars, timerVars, mcuVars, lightVars, mailVars
  <1>1. /\ call["main"].pc = "boot" /\ call' = [call EXCEPT !["main"] = Idle] /\ init_end' = TRUE
        /\ UNCHANGED <<mailVars, lightVars, rxFlag, pinVars, timerVars, lock, report, mcu, mcuVars,
                       rxq, reset>>
    BY DEF AppMainEnds
  <1>2. Idle.pc = "idle" /\ Idle \in [pc : CallPcs, cmd : Cmds \cup {WIFIRESETCMD}, dat : Nat]
    BY DEF Idle, CallPcs, Cmds
  <1>3. /\ call' \in [Callers -> [pc : CallPcs, cmd : Cmds \cup {WIFIRESETCMD}, dat : Nat]]
        /\ "main" \in Callers /\ call'["main"].pc = "idle"
        /\ \A d \in Callers : d # "main" => call'[d] = call[d]
    BY <1>1, <1>2 DEF LInv, MailTyped, Callers
  <1>4. LightTyped' /\ PinTyped' /\ MailTyped'
    BY <1>1, <1>3 DEF LInv, LightTyped, PinTyped, MailTyped
  <1>5. Solo'
    BY <1>1, <1>3 DEF LInv, Solo, Busy, Transfer, RxBefore, Callers
  <1>6. SenderOK'
    <2>1. Marking' <=> Marking
      BY <1>1, <1>3 DEF Marking
    <2> QED BY <1>1, <2>1, MarkingKept DEF LInv
  <1>7. WriterOK' /\ FramesOK'
    BY <1>1, <1>3 DEF LInv, WriterOK, FramesOK, Genuine
  <1> QED BY <1>4, <1>5, <1>6, <1>7 DEF LInv

\* The end of a handler.
LEMMA EndCallKept ==
    ASSUME LInv, NEW c \in Callers, EndCall(c)
    PROVE  LInv'
  <1> USE DEF pinVars, timerVars, mcuVars, lightVars, mailVars
  <1>1. /\ call[c].pc = "report"
        /\ call' = [call EXCEPT ![c] = IF c = "main" THEN [Idle EXCEPT !.pc = "boot"] ELSE Idle]
        /\ UNCHANGED <<mailVars, lightVars, rxFlag, pinVars, timerVars, lock, mcu, mcuVars, rxq,
                       init_end, reset>>
    BY DEF EndCall
  <1>2. \/ ReportLight(call[c].cmd, Bri_Status, Bri_Now_Pct)
        \/ UpdateLight(call[c].cmd, call[c].dat) \/ UNCHANGED report
    BY DEF EndCall
  <1>3. /\ Idle.pc = "idle" /\ [Idle EXCEPT !.pc = "boot"].pc = "boot"
        /\ {Idle, [Idle EXCEPT !.pc = "boot"]} \subseteq [pc : CallPcs, cmd : Cmds \cup {WIFIRESETCMD}, dat : Nat]
    BY DEF Idle, CallPcs, Cmds
  <1>4. /\ call' \in [Callers -> [pc : CallPcs, cmd : Cmds \cup {WIFIRESETCMD}, dat : Nat]]
        /\ call'[c].pc \in {"idle", "boot"}
        /\ \A d \in Callers : d # c => call'[d] = call[d]
    BY <1>1, <1>3 DEF LInv, MailTyped
  <1>5. report' \in Reports
    <2>1. call[c].dat \in Nat
      BY DEF LInv, MailTyped
    <2>2. Bri_Status \in {0, 1} /\ Bri_Now_Pct \in Nat /\ report \in Reports
      BY LinkAssumption DEF LInv, LightTyped
    <2> QED BY <1>2, <2>1, <2>2, ReportTyped, UpdateTyped
  <1>6. LightTyped'
    BY <1>1, <1>5 DEF LInv, LightTyped
  <1>7. PinTyped'
    BY <1>1 DEF LInv, PinTyped
  <1>8. MailTyped'
    BY <1>1, <1>4 DEF LInv, MailTyped
  <1>9. Solo'
    <2>1. Busy(c) /\ (RxBefore' => RxBefore)
      BY <1>1, <1>4 DEF Busy, RxBefore, Callers
    <2> QED BY <1>1, <1>4, <2>1, SoloMoves DEF LInv
  <1>10. SenderOK'
    <2>1. Marking' <=> Marking
      BY <1>1, <1>4 DEF Marking
    <2> QED BY <1>1, <2>1, MarkingKept DEF LInv
  <1>11. WriterOK' /\ FramesOK'
    BY <1>1, <1>4 DEF LInv, WriterOK, FramesOK, Genuine
  <1> QED BY <1>6, <1>7, <1>8, <1>9, <1>10, <1>11 DEF LInv

-----------------------------------------------------------------------------
(* The cloud and the UART task. *)

\* A handler that nobody else's overlaps asks for a command.
LEMMA AskKept ==
    ASSUME LInv, NEW c \in Callers, NEW cmd, NEW dat, Ask(c, cmd, dat),
           <<cmd, dat>> \in Commands, call[c].pc \in {"idle", "ack"}, ~Transfer,
           \A d \in Callers : d # c => ~Busy(d),
           c = "rx" => RxBefore,
           UNCHANGED <<buf, sendFlag, taskFlag, handle, snd, crashed, out, rxq>>,
           LightTyped', PinTyped'
    PROVE  LInv'
  <1>1. /\ call' = [call EXCEPT ![c] = [pc |-> "cmd", cmd |-> cmd, dat |-> dat]]
        /\ asked' = asked \cup {<<cmd, dat>>}
    BY DEF Ask
  <1>2. cmd \in Cmds /\ dat \in Nat
    BY LinkAssumption DEF Commands, Cmds
  <1>3. /\ call' \in [Callers -> [pc : CallPcs, cmd : Cmds \cup {WIFIRESETCMD}, dat : Nat]]
        /\ call'[c].pc = "cmd" /\ call'[c].cmd = cmd /\ call'[c].dat = dat
        /\ \A d \in Callers : d # c => call'[d] = call[d]
    BY <1>1, <1>2 DEF LInv, MailTyped, CallPcs
  <1>4. MailTyped'
    BY <1>3 DEF LInv, MailTyped
  <1>5. Solo'
    <2>1. \A d \in Callers : Busy(d)' => d = c
      BY <1>3 DEF Busy
    <2>2. "rx" \in Callers /\ (RxBefore' => RxBefore)
      BY <1>3 DEF RxBefore, Callers, Busy
    <2>3. ~McuActs => ~Busy("rx")'
      <3>1. c = "rx" => Busy("rx")
        BY DEF RxBefore, Busy
      <3> QED BY <2>1, <2>2, <3>1 DEF LInv, Solo
    <2>4. ~Transfer'
      BY DEF Transfer
    <2> QED BY <2>1, <2>2, <2>3, <2>4 DEF LInv, Solo, Transfer
  <1>6. SenderOK'
    <2>1. Marking' <=> Marking
      BY <1>3 DEF Marking
    <2> QED BY <2>1, MarkingKept DEF LInv
  <1>7. WriterOK'
    BY <1>1, <1>3 DEF LInv, WriterOK, Busy
  <1>8. FramesOK'
    BY <1>1 DEF LInv, FramesOK, Genuine
  <1> QED BY <1>4, <1>5, <1>6, <1>7, <1>8 DEF LInv

\* The cloud begins to write while nothing else is in progress.
LEMMA WritesAlone ==
    ASSUME Apart, LInv, MayWrite
    PROVE  ~Transfer /\ \A d \in Callers : ~Busy(d)
  <1>1. call["cloud"].pc = "idle" /\ call["main"].pc = "idle"
    BY DEF MayWrite
  <1>2. CASE Quiet
    BY <1>2 DEF Quiet, Transfer, Busy
  <1>3. CASE ~McuActs
    BY <1>1, <1>3 DEF LInv, Solo, Callers, Busy
  <1> QED BY <1>2, <1>3 DEF Apart, MayWrite

\* The cloud's writes and the agent's start.
LEMMA CloudKept ==
    ASSUME Apart, LInv, CloudPower \/ CloudBrightness \/ AgentInitEnd
    PROVE  LInv'
  <1> USE DEF pinVars, timerVars, mcuVars, lightVars
  <1>0. /\ ~Transfer /\ \A d \in Callers : ~Busy(d)
        /\ "cloud" \in Callers /\ call["cloud"].pc = "idle" /\ "cloud" # "rx"
    BY WritesAlone DEF CloudPower, CloudBrightness, AgentInitEnd, MayWrite, Callers
  <1>1. CASE CloudPower
    <2>1. PICK b \in {0, 1} : Bri_Status' = b /\ Ask("cloud", OnOffCMD, b)
      BY <1>1 DEF CloudPower
    <2>2. UNCHANGED <<Bri_Now_Pct, buf, sendFlag, taskFlag, handle, snd, crashed, rxFlag, pinVars,
                      timerVars, lock, report, mcu, mcuVars, rxq, init_end, reset>>
      BY <1>1 DEF CloudPower
    <2>3. LightTyped' /\ PinTyped'
      BY <2>1, <2>2 DEF LInv, LightTyped, PinTyped
    <2>4. <<OnOffCMD, b>> \in Commands
      BY DEF Commands
    <2> QED BY <1>0, <2>1, <2>2, <2>3, <2>4, AskKept
  <1>2. CASE CloudBrightness
    <2>1. PICK v \in BriData :
            IF InRange(v)
            THEN Bri_Now_Pct' = v /\ Ask("cloud", BriNowCMD, v)
            ELSE /\ call' = [call EXCEPT !["cloud"] = [pc |-> "report", cmd |-> BriNowCMD, dat |-> 0]]
                 /\ UNCHANGED <<Bri_Now_Pct, asked>>
      BY <1>2 DEF CloudBrightness
    <2>2. UNCHANGED <<Bri_Status, buf, sendFlag, taskFlag, handle, snd, crashed, rxFlag, pinVars,
                      timerVars, lock, report, mcu, mcuVars, rxq, init_end, reset>>
      BY <1>2 DEF CloudBrightness
    <2>3. CASE InRange(v)
      <3>1. v \in 0..MaxPct
        BY <2>3, LinkAssumption DEF InRange
      <3>2. LightTyped' /\ PinTyped'
        BY <2>1, <2>2, <2>3, <3>1 DEF LInv, LightTyped, PinTyped
      <3>3. <<BriNowCMD, v>> \in Commands
        BY <3>1 DEF Commands
      <3> QED BY <1>0, <2>1, <2>2, <2>3, <3>2, <3>3, AskKept
    <2>4. CASE ~InRange(v)
      <3>1. /\ call' = [call EXCEPT !["cloud"] = [pc |-> "report", cmd |-> BriNowCMD, dat |-> 0]]
            /\ UNCHANGED <<Bri_Now_Pct, asked>>
        BY <2>1, <2>4
      <3>2. /\ call' \in [Callers -> [pc : CallPcs, cmd : Cmds \cup {WIFIRESETCMD}, dat : Nat]]
            /\ call'["cloud"].pc = "report"
            /\ \A d \in Callers : d # "cloud" => call'[d] = call[d]
        BY <1>0, <3>1 DEF LInv, MailTyped, CallPcs, Cmds
      <3>3. LightTyped' /\ PinTyped'
        BY <2>2, <3>1 DEF LInv, LightTyped, PinTyped
      <3>4. MailTyped'
        BY <2>2, <3>1, <3>2 DEF LInv, MailTyped
      <3>5. Solo'
        BY <1>0, <2>2, <3>2 DEF LInv, Solo, Busy, Transfer, RxBefore, Callers
      <3>6. SenderOK'
        <4>1. Marking' <=> Marking
          BY <1>0, <3>2 DEF Marking
        <4> QED BY <2>2, <4>1, MarkingKept DEF LInv
      <3>7. WriterOK' /\ FramesOK'
        BY <2>2, <3>1, <3>2 DEF LInv, WriterOK, FramesOK, Genuine
      <3> QED BY <3>3, <3>4, <3>5, <3>6, <3>7 DEF LInv
    <2> QED BY <2>3, <2>4
  <1>3. CASE AgentInitEnd
    <2>1. /\ Ask("cloud", WIFIINITENDCMD, 1)
          /\ UNCHANGED <<lightVars, buf, sendFlag, taskFlag, handle, snd, crashed, rxFlag, pinVars,
                         timerVars, lock, report, mcu, mcuVars, rxq, init_end, reset>>
      BY <1>3 DEF AgentInitEnd
    <2>2. LightTyped' /\ PinTyped'
      BY <2>1 DEF LInv, LightTyped, PinTyped
    <2>3. <<WIFIINITENDCMD, 1>> \in Commands
      BY DEF Commands
    <2> QED BY <1>0, <2>1, <2>2, <2>3, AskKept
  <1> QED BY <1>1, <1>2, <1>3

\* What a frame of the MCU says.
LEMMA McuFrameFacts ==
    ASSUME NEW f \in McuFrames
    PROVE  /\ f.cmd \in {OnOffCMD, BriNowCMD, WIFIRESETCMD} /\ f.dat \in Nat
           /\ f.cmd = OnOffCMD => f.dat \in {0, 1}
           /\ f.cmd = BriNowCMD => f.dat \in 0..MaxPct
  BY LinkAssumption DEF McuFrames, Frame, OnOffCMD, BriNowCMD, WIFIRESETCMD

\* The UART task takes a frame.
LEMMA RxFrameKept ==
    ASSUME LInv, RxFrame
    PROVE  LInv'
  <1> USE DEF pinVars, timerVars, mcuVars, lightVars, mailVars
  <1>1. /\ rxq # << >> /\ rxq' = Tail(rxq)
        /\ UNCHANGED <<Bri_Now_Pct, mailVars, rxFlag, pinVars, timerVars, report, mcu, mcuVars,
                       init_end, reset>>
    BY DEF RxFrame
  <1>2. PICK f \in McuFrames : rxq = <<f>>
    BY <1>1 DEF LInv, PinTyped, OneFrame
  <1>3. rxq' = << >> /\ Head(rxq) = f
    BY <1>1, <1>2
  <1>4. /\ \A d \in Callers : ~Busy(d)
        /\ \A s \in Senders : snd[s].pc = "none"
        /\ McuActs /\ out = << >> /\ call["rx"].pc = "idle"
    BY <1>1 DEF LInv, Solo, Transfer, RxFrame
  <1>5. /\ lock' \in BOOLEAN
        /\ \/ UNCHANGED <<call, Bri_Status>>
           \/ /\ call' = [call EXCEPT !["rx"] = [pc |-> "ack", cmd |-> f.cmd, dat |-> f.dat]]
              /\ Bri_Status' = IF f.cmd = OnOffCMD THEN f.dat ELSE Bri_Status
    BY <1>3 DEF RxFrame
  <1>6. LightTyped'
    BY <1>1, <1>5, McuFrameFacts DEF LInv, LightTyped
  <1>7. PinTyped'
    BY <1>1, <1>3, <1>5 DEF LInv, PinTyped, OneFrame
  <1>8. /\ call' \in [Callers -> [pc : CallPcs, cmd : Cmds \cup {WIFIRESETCMD}, dat : Nat]]
        /\ \A d \in Callers : d # "rx" => call'[d] = call[d]
        /\ call'["rx"].pc \in {"idle", "ack"}
    <2>1. f.cmd \in Cmds \cup {WIFIRESETCMD} /\ f.dat \in Nat /\ "rx" \in Callers
      BY McuFrameFacts DEF Cmds, Callers
    <2> QED BY <1>4, <1>5, <2>1 DEF LInv, MailTyped, CallPcs, Busy
  <1>9. MailTyped'
    BY <1>1, <1>8 DEF LInv, MailTyped
  <1>10. Solo'
    BY <1>1, <1>3, <1>4, <1>8 DEF Solo, Transfer, Busy, RxBefore
  <1>11. SenderOK'
    <2>1. Marking' <=> Marking
      BY <1>4, <1>8 DEF Marking, Busy
    <2> QED BY <1>1, <2>1, MarkingKept DEF LInv
  <1>12. WriterOK' /\ FramesOK'
    BY <1>1, <1>8 DEF LInv, WriterOK, FramesOK, Genuine
  <1> QED BY <1>6, <1>7, <1>9, <1>10, <1>11, <1>12 DEF LInv

\* It has acknowledged the frame.
LEMMA RxAckedKept ==
    ASSUME LInv, RxAcked
    PROVE  LInv'
  <1> USE DEF pinVars, timerVars, mcuVars, lightVars
  <1> DEFINE c == call["rx"]
  <1>1. /\ c.pc = "ack" /\ lock' = FALSE /\ rxFlag' = FALSE
        /\ reset' = (reset \/ c.cmd = WIFIRESETCMD)
        /\ UNCHANGED <<Bri_Status, buf, sendFlag, taskFlag, handle, snd, crashed, pinVars, timerVars,
                       report, mcu, mcuVars, rxq, init_end>>
    BY DEF RxAcked
  <1>2. /\ "rx" \in Callers /\ RxBefore
        /\ ~Transfer /\ \A d \in Callers : d # "rx" => ~Busy(d)
    <2>1. "rx" \in Callers /\ Busy("rx")
      BY <1>1 DEF Callers, Busy
    <2> QED BY <1>1, <2>1 DEF LInv, Solo, RxBefore
  <1>3. PinTyped'
    BY <1>1 DEF LInv, PinTyped
  <1>4. reset' \in BOOLEAN
    BY <1>1
  <1>5. CASE c.cmd = BriNowCMD /\ InRange(c.dat)
    <2>1. Bri_Now_Pct' = c.dat /\ Ask("rx", BriNowCMD, c.dat)
      BY <1>5 DEF RxAcked
    <2>2. c.dat \in 0..MaxPct
      BY <1>2, <1>5, LinkAssumption DEF LInv, MailTyped, InRange
    <2>3. LightTyped'
      BY <1>1, <1>4, <2>1, <2>2 DEF LInv, LightTyped
    <2>4. <<BriNowCMD, c.dat>> \in Commands
      BY <2>2 DEF Commands
    <2> HIDE DEF c
    <2>5. call["rx"].pc \in {"idle", "ack"}
      BY <1>1 DEF c
    <2> QED BY <1>1, <1>2, <1>3, <2>1, <2>3, <2>4, <2>5, AskKept
  <1>6. CASE ~(c.cmd = BriNowCMD /\ InRange(c.dat))
    <2>1. /\ call' = [call EXCEPT !["rx"] = IF c.cmd = OnOffCMD THEN [@ EXCEPT !.pc = "report"] ELSE Idle]
          /\ UNCHANGED <<Bri_Now_Pct, asked>>
      BY <1>6 DEF RxAcked
    <2>2. /\ call' \in [Callers -> [pc : CallPcs, cmd : Cmds \cup {WIFIRESETCMD}, dat : Nat]]
          /\ call'["rx"].pc \in {"report", "idle"}
          /\ \A d \in Callers : d # "rx" => call'[d] = call[d]
      BY <1>2, <2>1 DEF LInv, MailTyped, CallPcs, Idle, Cmds
    <2>3. LightTyped'
      BY <1>1, <1>4, <2>1 DEF LInv, LightTyped
    <2>4. MailTyped'
      BY <1>1, <2>1, <2>2 DEF LInv, MailTyped
    <2>5. Solo'
      <3>1. Busy("rx") /\ (RxBefore' => RxBefore)
        BY <1>1, <1>2 DEF Busy
      <3> QED BY <1>1, <1>2, <2>2, <3>1, SoloMoves DEF LInv
    <2>6. SenderOK'
      <3>1. Marking' <=> Marking
        BY <1>1, <2>2 DEF Marking
      <3> QED BY <1>1, <3>1, MarkingKept DEF LInv
    <2>7. WriterOK' /\ FramesOK'
      BY <1>1, <2>1, <2>2 DEF LInv, WriterOK, FramesOK, Genuine
    <2> QED BY <1>3, <2>3, <2>4, <2>5, <2>6, <2>7 DEF LInv
  <1> QED BY <1>5, <1>6

-----------------------------------------------------------------------------
(* The theorems about the sender. *)

\* The invariant at the start.
LEMMA LinkInit ==
    ASSUME Init
    PROVE  LInv
  <1>1. LightTyped
    <2>1. Bri_Now_Pct \in 0..MaxPct /\ Bri_Status \in {0, 1}
      BY LinkAssumption DEF Init, DEFAULT_BRI
    <2>2. mcu \in [on : {0, 1}, bri : Nat] /\ report \in Reports
      BY DEF Init, DEFAULT_BRI, PARAM_BRI, Reports
    <2> QED BY <2>1, <2>2 DEF Init, LightTyped
  <1>2. PinTyped
    BY DEF Init, PinTyped, OneFrame
  <1>3. /\ buf \in Frames /\ buf.sum[1] = ERRORCMD /\ NoFrame \in Frames /\ NoFrame.sum[1] = ERRORCMD
    BY DEF Init, NoFrame, Frame, Frames, Cmds
  <1>4. /\ snd \in [Senders -> [pc : SndPcs, frame : Frames]]
        /\ \A s \in Senders : snd[s].pc = "none" /\ snd[s].frame = NoFrame
    BY <1>3 DEF Init, SndPcs
  <1>5. /\ call \in [Callers -> [pc : CallPcs, cmd : Cmds \cup {WIFIRESETCMD}, dat : Nat]]
        /\ call["main"].pc = "cmd" /\ <<call["main"].cmd, call["main"].dat>> \in asked
        /\ \A c \in Callers : c # "main" => call[c].pc = "idle"
    BY DEF Init, Idle, CallPcs, Cmds, Callers
  <1>6. MailTyped
    BY <1>3, <1>4, <1>5 DEF Init, MailTyped
  <1>7. Solo
    BY <1>4, <1>5 DEF Init, Solo, Busy, Transfer, RxBefore, Callers
  <1>8. SenderOK
    <2>1. ~Marking
      BY <1>5 DEF Marking, Callers
    <2> QED BY <1>4, <2>1 DEF Init, SenderOK
  <1>9. WriterOK
    BY <1>5 DEF WriterOK, Callers
  <1>10. FramesOK
    BY <1>3, <1>4 DEF Init, FramesOK, Genuine, Commands
  <1> QED BY <1>1, <1>2, <1>6, <1>7, <1>8, <1>9, <1>10 DEF LInv

\* Every step keeps it.
LEMMA LinkStep ==
    ASSUME Apart, LInv, [Next]_vars
    PROVE  LInv'
  <1>1. CASE UNCHANGED vars
    <2>1. LightTyped'
      BY <1>1 DEF vars, lightVars, LInv, LightTyped
    <2>2. PinTyped'
      BY <1>1 DEF vars, pinVars, timerVars, mcuVars, LInv, PinTyped
    <2> QED BY <1>1, <2>1, <2>2, Elsewhere DEF vars, mailAndCalls, mcuVars
  <1> QED BY <1>1, CloudKept, PuttingKept, CreatingKept, EndCallKept, AppMainEndsKept, SenderBeginsKept,
             SenderEndsKept, PinKept, McuKept, RxFrameKept, RxAckedKept
          DEF Next, Mailbox, Sender, Rx, Mcu

\* The invariant in every state.
LEMMA LinkInvariant ==
    ASSUME Apart
    PROVE  Spec => []LInv
  <1>1. Init => LInv
    BY LinkInit
  <1>2. LInv /\ [Next]_vars => LInv'
    BY LinkStep
  <1> QED BY <1>1, <1>2, PTL DEF Spec

\* However the writers of ucSendBuff, the sender, the interrupt and the timers
\* interleave, at most one send_uart_info_task exists, vTaskDelete deletes its own
\* caller, and ucSendTaskHandle_Flag is set only while that task exists, so no
\* command put in the mailbox is left without a sender.
THEOREM OneSenderAtMost ==
    ASSUME Apart
    PROVE  Spec => []SenderInv
  <1>1. LInv => SenderInv
    <2> SUFFICES ASSUME LInv
                 PROVE  SenderInv
      OBVIOUS
    <2>1. TypeOK
      <3>1. /\ buf.cmd \in {OnOffCMD, BriNowCMD, ERRORCMD, WIFIINITSTARTCMD, WIFIINITENDCMD}
            /\ handle \in Senders \cup {0}
            /\ \A s \in Senders : snd[s].pc \in {"none", "snap", "clear", "wait", "wake", "tx", "post",
                                                 "delay", "end", "delete"}
            /\ \A c \in Callers : call[c].pc \in {"idle", "frame", "ack", "cmd", "dat", "sum",
                                                  "create", "mark", "report", "boot"}
        BY DEF LInv, MailTyped, Frames, Cmds, SndPcs, CallPcs
      <3>2. {sendFlag, taskFlag, crashed, rxFlag, edge, stopTimer, startTimer, lock,
             pin, allowed} \subseteq BOOLEAN
        BY DEF LInv, MailTyped, PinTyped
      <3> QED BY <3>1, <3>2 DEF LInv, LightTyped, PinTyped, TypeOK, Reports
    <2>2. OneSender
      <3>1. Alive \in {{}, {handle}}
        BY DEF LInv, SenderOK, Alive
      <3>2. Cardinality({}) = 0 /\ Cardinality({handle}) = 1
        BY FS_EmptySet, FS_Singleton
      <3>3. Cardinality(Alive) <= 1
        BY <3>1, <3>2
      <3> QED BY <3>3 DEF LInv, SenderOK, OneSender
    <2>3. FlagMeansSender
      BY DEF LInv, SenderOK, FlagMeansSender, Alive
    <2> QED BY <2>1, <2>2, <2>3 DEF SenderInv
  <1> QED BY <1>1, LinkInvariant, PTL

\* No interleaving of the stores into ucSendBuff with the sender's copying and
\* withdrawing forges a frame: one whose checksum fits, and that is a command at all,
\* was handed to send_bri_ctrl_info.
THEOREM SentFramesWereAsked ==
    ASSUME Apart
    PROVE  Spec => []SentWasAsked
  <1>1. LInv => SentWasAsked
    BY ObeyedWasAsked DEF SentWasAsked
  <1> QED BY <1>1, LinkInvariant, PTL

-----------------------------------------------------------------------------
(***************************************************************************)
(* The light.  When the cloud writes only while nothing is in progress     *)
(* (CloudOverlap = FALSE), every handler finds no sender, so that its      *)
(* command is the one its sender copies: until the MCU has obeyed it,      *)
(* obeying it is all that the MCU's light lacks, and what the MCU has said *)
(* is all that the firmware's lacks.                                       *)
(***************************************************************************)

Light == [on |-> Bri_Status, bri |-> Bri_Now_Pct]

\* A light after a command.
Obeyed(m, cmd, dat) ==
    [on  |-> IF cmd = OnOffCMD  THEN dat ELSE m.on,
     bri |-> IF cmd = BriNowCMD THEN dat ELSE m.bri]

\* A command that tells of the light as it is.
Says(cmd, dat) ==
    (cmd = OnOffCMD => dat = Bri_Status) /\ (cmd = BriNowCMD => dat = Bri_Now_Pct)

Asking(c) == call[c].pc \in {"cmd", "dat", "sum", "create"}

PutOK ==
    \A c \in Callers : Asking(c) =>
       /\ \A s \in Senders : snd[s].pc = "none"
       /\ Obeyed(mcu, call[c].cmd, call[c].dat) = Light
       /\ call[c].pc # "cmd" => buf.cmd = call[c].cmd
       /\ call[c].pc \in {"sum", "create"} => buf.dat = call[c].dat
       /\ call[c].pc = "create" => buf.sum = <<buf.cmd, buf.dat>>

SentBy(s) ==
    /\ snd[s].pc = "snap" =>
          /\ buf.sum = <<buf.cmd, buf.dat>>
          /\ Obeyed(mcu, buf.cmd, buf.dat) = Light
    /\ snd[s].pc \in {"clear", "wait", "wake", "tx"} =>
          /\ snd[s].frame.sum = <<snd[s].frame.cmd, snd[s].frame.dat>>
          /\ Obeyed(mcu, snd[s].frame.cmd, snd[s].frame.dat) = Light
    /\ snd[s].pc = "post" => Says(snd[s].frame.cmd, snd[s].frame.dat)
    /\ snd[s].pc \in {"wait", "wake", "tx", "post", "delay"} => ~sendFlag
SentOK == \A s \in Senders : SentBy(s)

\* No command and no frame of the MCU is waiting to be obeyed.
Settled ==
    /\ \A c \in Callers : ~Asking(c)
    /\ \A s \in Senders : snd[s].pc \in {"none", "post", "delay", "end", "delete"}
    /\ ~Transfer /\ call["rx"].pc # "ack"

HeardOK ==
    /\ Settled => mcu = Light
    /\ out # << >> => Obeyed(Light, out[1].cmd, out[1].dat) = mcu
    /\ rxq # << >> => Obeyed(Light, rxq[1].cmd, rxq[1].dat) = mcu
    /\ call["rx"].pc = "ack" =>
          /\ Obeyed(Light, call["rx"].cmd, call["rx"].dat) = mcu
          /\ call["rx"].cmd = OnOffCMD => call["rx"].dat = Bri_Status
          /\ call["rx"].cmd = BriNowCMD => InRange(call["rx"].dat)
    /\ Busy("rx") /\ call["rx"].pc # "ack" => Says(call["rx"].cmd, call["rx"].dat)

Flow == PutOK /\ SentOK /\ HeardOK

\* What obeying changes.
LEMMA ObeyedFacts ==
    ASSUME NEW m, NEW cmd, NEW dat
    PROVE  /\ Obeyed(m, cmd, dat) = Light => Says(cmd, dat)
           /\ m \in [on : {0, 1}, bri : Nat] /\ cmd \notin {OnOffCMD, BriNowCMD} => Obeyed(m, cmd, dat) = m
           /\ Says(cmd, dat) => Obeyed(Light, cmd, dat) = Light
  BY DEF Obeyed, Light, Says

\* A step of a sender: no caller is asking, and the MCU has nothing to say.
LEMMA SenderFlow ==
    ASSUME LInv, Flow, NEW s \in Senders, snd[s].pc # "none",
           \A r \in Senders : r # s => snd'[r] = snd[r],
           UNCHANGED <<call, lightVars, out, rxq>>,
           SentBy(s)', Settled' => mcu' = Light
    PROVE  Flow'
  <1> USE DEF lightVars
  <1>1. \A r \in Senders : r # s => snd[r].pc = "none"
    BY DEF LInv, SenderOK
  <1>2. ~Transfer /\ call["rx"].pc # "ack" /\ \A c \in Callers : ~Asking(c)
    BY DEF LInv, Solo, RxBefore, Flow, PutOK
  <1>3. PutOK'
    BY <1>2 DEF PutOK, Asking
  <1>4. SentOK'
    BY <1>1 DEF SentOK, SentBy
  <1>5. HeardOK'
    BY <1>2 DEF Flow, HeardOK, Transfer, Light, Says, Busy
  <1> QED BY <1>3, <1>4, <1>5 DEF Flow

\* The sender carries the command to the MCU.
LEMMA SenderKeepsFlow ==
    ASSUME LInv, Flow, NEW s \in Senders, Sender(s)
    PROVE  Flow'
  <1> USE DEF pinVars, timerVars, mcuVars
  <1>0. MailTyped /\ SentBy(s)
    BY DEF LInv, Flow, SentOK
  <1>1. CASE Snapshot(s)
    <2>1. /\ snd[s].pc = "snap" /\ snd' = [snd EXCEPT ![s] = [pc |-> "clear", frame |-> buf]]
          /\ UNCHANGED <<call, lightVars, mcu, out, rxq>>
      BY <1>1 DEF Snapshot
    <2>2. /\ snd'[s].pc = "clear" /\ snd'[s].frame = buf
          /\ \A r \in Senders : r # s => snd'[r] = snd[r]
      BY <1>0, <2>1 DEF MailTyped
    <2>3. SentBy(s)'
      BY <1>0, <2>1, <2>2 DEF SentBy, Light, lightVars
    <2>4. ~Settled'
      BY <2>2 DEF Settled
    <2> QED BY <2>1, <2>2, <2>3, <2>4, SenderFlow
  <1>2. CASE ClearFlag(s) \/ WakeMcu(s) \/ BeginTx(s)
    <2>1. PICK q \in {"wait", "wake", "tx"} :
            /\ snd[s].pc \in {"clear", "wait", "wake"} /\ Go(s, q)
            /\ sendFlag' = FALSE \/ (snd[s].pc # "clear" /\ UNCHANGED sendFlag)
            /\ UNCHANGED <<call, lightVars, mcu, out, rxq>>
      BY <1>2 DEF ClearFlag, WakeMcu, BeginTx
    <2>2. /\ snd'[s].pc = q /\ snd'[s].frame = snd[s].frame
          /\ \A r \in Senders : r # s => snd'[r] = snd[r]
      BY <1>0, <2>1, GoFacts DEF SndPcs
    <2>3. SentBy(s)'
      BY <1>0, <2>1, <2>2 DEF SentBy, Light, lightVars
    <2>4. ~Settled'
      BY <2>2 DEF Settled
    <2> QED BY <2>1, <2>2, <2>3, <2>4, SenderFlow
  <1>3. CASE EndTx(s)
    <2> DEFINE f == snd[s].frame
    <2>1. /\ snd[s].pc = "tx" /\ Go(s, "post")
          /\ UNCHANGED <<call, lightVars, out, rxq, sendFlag>>
          /\ mcu' = IF f.sum # <<f.cmd, f.dat>> THEN mcu
                    ELSE [on  |-> IF f.cmd = OnOffCMD  THEN f.dat ELSE mcu.on,
                          bri |-> IF f.cmd = BriNowCMD THEN f.dat ELSE mcu.bri]
      BY <1>3 DEF EndTx
    <2>2. /\ snd'[s].pc = "post" /\ snd'[s].frame = f
          /\ \A r \in Senders : r # s => snd'[r] = snd[r]
      BY <1>0, <2>1, GoFacts DEF SndPcs
    <2>3. mcu' = Light /\ Says(f.cmd, f.dat) /\ ~sendFlag
      <3>1. f.sum = <<f.cmd, f.dat>> /\ Obeyed(mcu, f.cmd, f.dat) = Light /\ ~sendFlag
        BY <1>0, <2>1 DEF SentBy
      <3>2. mcu' = Obeyed(mcu, f.cmd, f.dat)
        BY <2>1, <3>1 DEF Obeyed
      <3> QED BY <3>1, <3>2, ObeyedFacts
    <2>4. SentBy(s)'
      BY <2>1, <2>2, <2>3 DEF SentBy, Says, lightVars
    <2> QED BY <2>1, <2>2, <2>3, <2>4, SenderFlow
  <1>4. ASSUME snd[s].pc \in {"post", "delay", "end", "delete"},
               snd'[s].pc \in {"none", "delay", "end", "delete"},
               snd'[s].pc = "delay" => sendFlag' = FALSE,
               \A r \in Senders : r # s => snd'[r] = snd[r],
               UNCHANGED <<call, lightVars, mcu, out, rxq>>
        PROVE  Flow'
    <2>1. mcu = Light
      <3>1. Settled
        BY <1>4 DEF LInv, SenderOK, Solo, RxBefore, Flow, PutOK, Settled
      <3> QED BY <3>1 DEF Flow, HeardOK
    <2>2. SentBy(s)'
      BY <1>4 DEF SentBy
    <2> QED BY <1>4, <2>1, <2>2, SenderFlow
  <1>5. CASE AfterTx(s)
    <2>1. /\ snd[s].pc = "post" /\ snd' = [snd EXCEPT ![s] = [pc |-> "delay", frame |-> NoFrame]]
          /\ sendFlag' = FALSE /\ UNCHANGED <<call, lightVars, mcu, out, rxq>>
      BY <1>5 DEF AfterTx
    <2>2. snd'[s].pc = "delay" /\ \A r \in Senders : r # s => snd'[r] = snd[r]
      BY <1>0, <2>1 DEF MailTyped
    <2> QED BY <1>4, <2>1, <2>2
  <1>6. CASE AfterDelay(s)
    <2>1. snd[s].pc = "delay" /\ ~sendFlag
      BY <1>0, <1>6 DEF AfterDelay, SentBy
    <2>2. Go(s, "end") /\ UNCHANGED <<call, lightVars, mcu, out, rxq>>
      BY <1>6, <2>1 DEF AfterDelay
    <2>3. snd'[s].pc = "end" /\ \A r \in Senders : r # s => snd'[r] = snd[r]
      BY <1>0, <2>2, GoFacts DEF SndPcs
    <2> QED BY <1>4, <2>1, <2>2, <2>3
  <1>7. CASE Unmark(s)
    <2>1. snd[s].pc = "end" /\ Go(s, "delete") /\ UNCHANGED <<call, lightVars, mcu, out, rxq>>
      BY <1>7 DEF Unmark
    <2>2. snd'[s].pc = "delete" /\ \A r \in Senders : r # s => snd'[r] = snd[r]
      BY <1>0, <2>1, GoFacts DEF SndPcs
    <2> QED BY <1>4, <2>1, <2>2
  <1>8. CASE DeleteTask(s)
    <2>1. /\ snd[s].pc = "delete"
          /\ snd' = [snd EXCEPT ![handle] = [pc |-> "none", frame |-> NoFrame]]
          /\ UNCHANGED <<call, lightVars, mcu, out, rxq>>
      BY <1>8 DEF DeleteTask
    <2>2. handle = s
      BY <2>1 DEF LInv, SenderOK
    <2>3. snd'[s].pc = "none" /\ \A r \in Senders : r # s => snd'[r] = snd[r]
      BY <1>0, <2>1, <2>2 DEF MailTyped
    <2> QED BY <1>4, <2>1, <2>3
  <1> QED BY <1>1, <1>2, <1>3, <1>5, <1>6, <1>7, <1>8 DEF Sender

\* A caller puts its command in the mailbox, and goes on.
LEMMA MailboxKeepsFlow ==
    ASSUME LInv, Flow, NEW c \in Callers, Mailbox(c)
    PROVE  Flow'
  <1> USE DEF pinVars, timerVars, mcuVars, lightVars, mailVars
  <1>0. /\ MailTyped /\ "rx" \in Callers
        /\ UNCHANGED <<lightVars, mcu, out, rxq>>
    BY DEF LInv, Callers, Mailbox, PutCmd, PutDat, PutSum, CreateSender, MarkSender, EndCall
  <1>1. /\ Busy(c) /\ call[c].pc # "ack" /\ ~Transfer
        /\ \A d \in Callers : d # c => call[d].pc \in {"idle", "boot"}
    <2>1. Busy(c) /\ call[c].pc # "ack"
      BY DEF Busy, Mailbox, PutCmd, PutDat, PutSum, CreateSender, MarkSender, EndCall
    <2> QED BY <2>1 DEF LInv, Solo, Busy
  <1>2. call["rx"].pc # "ack" /\ (c = "rx" => Says(call[c].cmd, call[c].dat))
    BY <1>0, <1>1 DEF Flow, HeardOK
  <1>3. CASE PutCmd(c) \/ PutDat(c) \/ PutSum(c)
    <2>1. PICK q \in {"dat", "sum", "create"} :
            /\ Step(c, q) /\ snd' = snd
            /\ call[c].pc = CASE q = "dat" -> "cmd" [] q = "sum" -> "dat" [] OTHER -> "sum"
            /\ buf' = CASE q = "dat" -> [buf EXCEPT !.cmd = call[c].cmd]
                        [] q = "sum" -> [buf EXCEPT !.dat = call[c].dat]
                        [] OTHER     -> [buf EXCEPT !.sum = <<buf.cmd, buf.dat>>]
      BY <1>3 DEF PutCmd, PutDat, PutSum
    <2>2. /\ call'[c].pc = q /\ call'[c].cmd = call[c].cmd /\ call'[c].dat = call[c].dat
          /\ \A d \in Callers : d # c => call'[d] = call[d]
      BY <1>0, <2>1, StepFacts DEF CallPcs
    <2>3. /\ \A s \in Senders : snd[s].pc = "none"
          /\ Obeyed(mcu, call[c].cmd, call[c].dat) = Light
          /\ call[c].pc # "cmd" => buf.cmd = call[c].cmd
          /\ call[c].pc = "sum" => buf.dat = call[c].dat
      BY <2>1 DEF Flow, PutOK, Asking
    <2>4. /\ buf'.cmd = IF q = "dat" THEN call[c].cmd ELSE buf.cmd
          /\ buf'.dat = IF q = "sum" THEN call[c].dat ELSE buf.dat
          /\ buf'.sum = IF q = "create" THEN <<buf.cmd, buf.dat>> ELSE buf.sum
      BY <1>0, <2>1 DEF MailTyped, Frames
    <2>5. PutOK'
      <3>1. \A d \in Callers : Asking(d)' => d = c
        BY <1>1, <2>2 DEF Asking
      <3>2. Light' = Light /\ mcu' = mcu
        BY <1>0 DEF Light
      <3>3. Obeyed(mcu, call[c].cmd, call[c].dat)' = Light'
        BY <2>2, <2>3, <3>2 DEF Obeyed
      <3>4. /\ q # "cmd" => buf'.cmd = call'[c].cmd
            /\ q \in {"sum", "create"} => buf'.dat = call'[c].dat
            /\ q = "create" => buf'.sum = <<buf'.cmd, buf'.dat>>
        BY <2>1, <2>2, <2>3, <2>4
      <3> QED BY <2>1, <2>2, <2>3, <3>1, <3>3, <3>4 DEF PutOK
    <2>6. SentOK'
      BY <2>1, <2>3 DEF SentOK, SentBy
    <2>7. HeardOK'
      <3>1. ~Settled'
        BY <2>2 DEF Settled, Asking
      <3>2. call'["rx"].pc # "ack" /\ (Busy("rx")' => Says(call["rx"].cmd, call["rx"].dat)')
        BY <1>0, <1>1, <1>2, <2>2 DEF Busy, Says
      <3> QED BY <1>0, <1>1, <3>1, <3>2 DEF HeardOK, Transfer
    <2> QED BY <2>5, <2>6, <2>7 DEF Flow
  <1>4. CASE CreateSender(c)
    <2>1. /\ \A s \in Senders : snd[s].pc = "none"
          /\ Obeyed(mcu, call[c].cmd, call[c].dat) = Light
          /\ buf.cmd = call[c].cmd /\ buf.dat = call[c].dat /\ buf.sum = <<buf.cmd, buf.dat>>
      BY <1>4 DEF CreateSender, Flow, PutOK, Asking
    <2>2. ~taskFlag
      BY <2>1 DEF LInv, SenderOK
    <2>3. PICK s \in Senders : /\ snd' = [snd EXCEPT ![s] = [pc |-> "snap", frame |-> NoFrame]]
                               /\ Step(c, "mark") /\ buf' = buf
      BY <1>4, <2>2 DEF CreateSender
    <2>4. /\ call'[c].pc = "mark" /\ call'[c].cmd = call[c].cmd /\ call'[c].dat = call[c].dat
          /\ \A d \in Callers : d # c => call'[d] = call[d]
      BY <1>0, <2>3, StepFacts DEF CallPcs
    <2>5. snd'[s].pc = "snap" /\ \A r \in Senders : r # s => snd'[r] = snd[r]
      BY <1>0, <2>3 DEF MailTyped
    <2>6. PutOK'
      BY <1>1, <2>4 DEF PutOK, Asking
    <2>7. SentOK'
      BY <1>0, <2>1, <2>3, <2>5 DEF SentOK, SentBy, Light
    <2>8. HeardOK'
      <3>1. ~Settled'
        BY <2>5 DEF Settled
      <3>2. call'["rx"].pc # "ack" /\ (Busy("rx")' => Says(call["rx"].cmd, call["rx"].dat)')
        BY <1>0, <1>1, <1>2, <2>4 DEF Busy, Says
      <3> QED BY <1>0, <1>1, <3>1, <3>2 DEF HeardOK, Transfer
    <2> QED BY <2>6, <2>7, <2>8 DEF Flow
  <1>5. CASE MarkSender(c) \/ EndCall(c)
    <2>1. /\ call[c].pc \in {"mark", "report"} /\ snd' = snd /\ buf' = buf /\ sendFlag' = sendFlag
          /\ \/ Step(c, "report")
             \/ call' = [call EXCEPT ![c] = IF c = "main" THEN [Idle EXCEPT !.pc = "boot"] ELSE Idle]
      BY <1>5 DEF MarkSender, EndCall
    <2>2. /\ \/ call'[c].pc = "report" /\ call'[c].cmd = call[c].cmd /\ call'[c].dat = call[c].dat
             \/ call'[c].pc \in {"idle", "boot"}
          /\ \A d \in Callers : d # c => call'[d] = call[d]
      <3>1. CASE Step(c, "report")
        BY <1>0, <3>1, StepFacts DEF CallPcs
      <3>2. CASE call' = [call EXCEPT ![c] = IF c = "main" THEN [Idle EXCEPT !.pc = "boot"] ELSE Idle]
        BY <1>0, <3>2 DEF MailTyped, Idle
      <3> QED BY <2>1, <3>1, <3>2
    <2>3. PutOK'
      BY <1>1, <2>2 DEF PutOK, Asking
    <2>4. SentOK'
      BY <1>0, <2>1 DEF Flow, SentOK, SentBy, Light, Says
    <2>5. HeardOK'
      <3>1. Settled' => Settled
        BY <1>0, <1>1, <1>2, <2>1 DEF Settled, Asking, Transfer
      <3>2. call'["rx"].pc # "ack" /\ (Busy("rx")' => Says(call["rx"].cmd, call["rx"].dat)')
        BY <1>0, <1>1, <1>2, <2>2 DEF Busy, Says
      <3> QED BY <1>0, <1>1, <3>1, <3>2 DEF Flow, HeardOK, Transfer, Light
    <2> QED BY <2>3, <2>4, <2>5 DEF Flow
  <1> QED BY <1>3, <1>4, <1>5 DEF Mailbox

\* Nothing is in progress: the MCU's light is the firmware's.
LEMMA QuietIsSettled ==
    ASSUME Flow, Quiet
    PROVE  /\ Settled /\ mcu = Light /\ ~Transfer
           /\ \A c \in Callers : call[c].pc \in {"idle", "boot"}
           /\ \A s \in Senders : snd[s].pc = "none"
  <1>1. /\ ~Transfer
        /\ \A c \in Callers : call[c].pc \in {"idle", "boot"}
        /\ \A s \in Senders : snd[s].pc = "none"
    BY DEF Quiet, Alive, Transfer
  <1>2. Settled
    BY <1>1 DEF Settled, Asking, Callers
  <1> QED BY <1>1, <1>2 DEF Flow, HeardOK

\* A handler that finds no sender asks for what the light has just become.
LEMMA AskFlow ==
    ASSUME LInv, NEW c \in Callers, NEW cmd, NEW dat, Ask(c, cmd, dat),
           \A d \in Callers : d # c => call[d].pc \in {"idle", "boot"},
           \A s \in Senders : snd[s].pc = "none",
           ~Transfer, UNCHANGED <<snd, mcu, out, rxq>>,
           Obeyed(mcu, cmd, dat) = Light'
    PROVE  Flow'
  <1>1. /\ call'[c].pc = "cmd" /\ call'[c].cmd = cmd /\ call'[c].dat = dat
        /\ \A d \in Callers : d # c => call'[d] = call[d]
    BY DEF Ask, LInv, MailTyped
  <1>2. Obeyed(mcu, call[c].cmd, call[c].dat)' = Light' /\ Says(cmd, dat)'
    BY <1>1 DEF Obeyed, Says, Light
  <1>3. PutOK'
    BY <1>1, <1>2 DEF PutOK, Asking
  <1>4. SentOK'
    BY DEF SentOK, SentBy
  <1>5. HeardOK'
    <2>1. ~Settled'
      BY <1>1 DEF Settled, Asking
    <2>2. call'["rx"].pc # "ack" /\ (Busy("rx")' => Says(call["rx"].cmd, call["rx"].dat)')
      BY <1>1, <1>2 DEF Busy, Callers
    <2> QED BY <2>1, <2>2 DEF HeardOK, Transfer
  <1> QED BY <1>3, <1>4, <1>5 DEF Flow

\* The cloud, under CloudOverlap = FALSE.
LEMMA CloudKeepsFlow ==
    ASSUME ~CloudOverlap, LInv, Flow, CloudPower \/ CloudBrightness \/ AgentInitEnd
    PROVE  Flow'
  <1> USE DEF pinVars, timerVars, mcuVars, lightVars
  <1>0. /\ mcu = Light /\ ~Transfer /\ "cloud" \in Callers
        /\ \A c \in Callers : call[c].pc \in {"idle", "boot"}
        /\ \A s \in Senders : snd[s].pc = "none"
        /\ UNCHANGED <<snd, mcu, out, rxq>>
    BY QuietIsSettled DEF CloudPower, CloudBrightness, AgentInitEnd, MayWrite, Callers
  <1>1. CASE CloudPower
    <2>1. PICK b \in {0, 1} : Bri_Status' = b /\ Ask("cloud", OnOffCMD, b) /\ UNCHANGED Bri_Now_Pct
      BY <1>1 DEF CloudPower
    <2>2. Obeyed(mcu, OnOffCMD, b) = Light'
      BY <1>0, <2>1 DEF Obeyed, Light, OnOffCMD, BriNowCMD
    <2> QED BY <1>0, <2>1, <2>2, AskFlow
  <1>2. CASE CloudBrightness
    <2>1. PICK v \in BriData :
            /\ IF InRange(v)
               THEN Bri_Now_Pct' = v /\ Ask("cloud", BriNowCMD, v)
               ELSE /\ call' = [call EXCEPT !["cloud"] = [pc |-> "report", cmd |-> BriNowCMD, dat |-> 0]]
                    /\ UNCHANGED <<Bri_Now_Pct, asked>>
            /\ UNCHANGED Bri_Status
      BY <1>2 DEF CloudBrightness
    <2>2. CASE InRange(v)
      <3>1. Obeyed(mcu, BriNowCMD, v) = Light'
        BY <1>0, <2>1, <2>2 DEF Obeyed, Light, OnOffCMD, BriNowCMD
      <3> QED BY <1>0, <2>1, <2>2, <3>1, AskFlow
    <2>3. CASE ~InRange(v)
      <3>1. /\ call' = [call EXCEPT !["cloud"] = [pc |-> "report", cmd |-> BriNowCMD, dat |-> 0]]
            /\ UNCHANGED Bri_Now_Pct
        BY <2>1, <2>3
      <3>2. \A c \in Callers : /\ call'[c].pc \in {"idle", "boot", "report"}
                               /\ c # "cloud" => call'[c].pc \in {"idle", "boot"}
        BY <1>0, <3>1 DEF LInv, MailTyped
      <3>3. PutOK' /\ SentOK'
        BY <1>0, <3>2 DEF PutOK, SentOK, SentBy, Asking
      <3>4. HeardOK'
        BY <1>0, <2>1, <3>1, <3>2 DEF HeardOK, Transfer, Light, Busy, Callers
      <3> QED BY <3>3, <3>4 DEF Flow
    <2> QED BY <2>2, <2>3
  <1>3. CASE AgentInitEnd
    <2>1. Ask("cloud", WIFIINITENDCMD, 1) /\ UNCHANGED lightVars
      BY <1>3 DEF AgentInitEnd
    <2>2. Obeyed(mcu, WIFIINITENDCMD, 1) = Light'
      BY <1>0, <2>1 DEF Obeyed, Light, OnOffCMD, BriNowCMD, WIFIINITENDCMD
    <2> QED BY <1>0, <2>1, <2>2, AskFlow
  <1> QED BY <1>1, <1>2, <1>3

\* The MCU says how its light has changed.
LEMMA McuKeepsFlow ==
    ASSUME LInv, Flow, McuChanges \/ McuSends
    PROVE  Flow'
  <1> USE DEF pinVars, timerVars, mcuVars, lightVars, mailVars
  <1>1. CASE McuChanges
    <2>1. PICK f \in {Frame(OnOffCMD, b) : b \in {0, 1}} \cup {Frame(BriNowCMD, v) : v \in BriData}
                     \cup {Frame(WIFIRESETCMD, 0)} :
            /\ out' = <<f>>
            /\ mcu' = CASE f.cmd = OnOffCMD  -> [mcu EXCEPT !.on  = f.dat]
                        [] f.cmd = BriNowCMD -> [mcu EXCEPT !.bri = f.dat]
                        [] OTHER             -> mcu
      BY <1>1 DEF McuChanges
    <2>2. /\ mcu = Light /\ ~Transfer
          /\ \A c \in Callers : call[c].pc \in {"idle", "boot"}
          /\ \A s \in Senders : snd[s].pc = "none"
          /\ UNCHANGED <<snd, call, lightVars, rxq>>
      BY <1>1, QuietIsSettled DEF McuChanges
    <2>3. mcu' = Obeyed(Light, f.cmd, f.dat)
      BY <2>1, <2>2 DEF Obeyed, Light, OnOffCMD, BriNowCMD
    <2>4. PutOK' /\ SentOK'
      BY <2>2 DEF PutOK, SentOK, SentBy, Asking
    <2>5. HeardOK'
      <3>1. out'[1] = f /\ out' # << >> /\ Light' = Light
        BY <2>1, <2>2 DEF Light
      <3>2. ~Settled' /\ rxq' = << >> /\ call'["rx"].pc \in {"idle", "boot"}
        BY <2>2, <3>1 DEF Settled, Transfer, Callers
      <3> QED BY <2>3, <3>1, <3>2 DEF HeardOK, Busy
    <2> QED BY <2>4, <2>5 DEF Flow
  <1>2. CASE McuSends
    <2>1. /\ out # << >> /\ rxq' = rxq \o out /\ out' = << >>
          /\ UNCHANGED <<mailVars, call, lightVars, mcu>>
      BY <1>2 DEF McuSends
    <2>2. rxq' = out
      <3>1. rxq = << >>
        BY <2>1 DEF LInv, Solo
      <3>2. PICK f \in McuFrames : out = <<f>>
        BY <2>1 DEF LInv, PinTyped, OneFrame
      <3> QED BY <2>1, <3>1, <3>2
    <2>3. PutOK' /\ SentOK'
      BY <2>1 DEF Flow, PutOK, SentOK, SentBy, Asking, Light, Says
    <2>4. HeardOK'
      <3>1. ~Settled'
        BY <2>1, <2>2 DEF Settled, Transfer
      <3> QED BY <2>1, <2>2, <3>1 DEF Flow, HeardOK, Light, Busy, Says
    <2> QED BY <2>3, <2>4 DEF Flow
  <1> QED BY <1>1, <1>2

\* The UART task follows the MCU.
LEMMA RxKeepsFlow ==
    ASSUME LInv, Flow, Rx
    PROVE  Flow'
  <1> USE DEF pinVars, timerVars, mcuVars, lightVars, mailVars
  <1>0. "rx" \in Callers
    BY DEF Callers
  <1>1. CASE RxFrame
    <2>1. /\ rxq # << >> /\ rxq' = Tail(rxq)
          /\ UNCHANGED <<Bri_Now_Pct, mailVars, mcu, out>>
      BY <1>1 DEF RxFrame
    <2>2. PICK f \in McuFrames : rxq = <<f>>
      BY <2>1 DEF LInv, PinTyped, OneFrame
    <2>3. rxq' = << >> /\ Head(rxq) = f /\ rxq[1] = f
      BY <2>1, <2>2
    <2>4. /\ \A d \in Callers : call[d].pc \in {"idle", "boot"}
          /\ \A s \in Senders : snd[s].pc = "none"
          /\ out = << >> /\ Obeyed(Light, f.cmd, f.dat) = mcu
      BY <2>1, <2>3 DEF LInv, Solo, Transfer, Flow, HeardOK, Busy
    <2>5. IF Says(f.cmd, f.dat) /\ f.cmd \in {OnOffCMD, BriNowCMD}
          THEN UNCHANGED <<call, Bri_Status>>
          ELSE /\ call' = [call EXCEPT !["rx"] = [pc |-> "ack", cmd |-> f.cmd, dat |-> f.dat]]
               /\ Bri_Status' = IF f.cmd = OnOffCMD THEN f.dat ELSE Bri_Status
      BY <1>1, <2>3 DEF RxFrame, Says, OnOffCMD, BriNowCMD
    <2>6. CASE Says(f.cmd, f.dat) /\ f.cmd \in {OnOffCMD, BriNowCMD}
      <3>1. mcu = Light /\ UNCHANGED <<call, Bri_Status>>
        BY <2>4, <2>5, <2>6, ObeyedFacts
      <3>2. PutOK' /\ SentOK'
        BY <2>1, <2>4, <3>1 DEF PutOK, SentOK, SentBy, Asking
      <3>3. HeardOK'
        BY <1>0, <2>1, <2>3, <2>4, <3>1 DEF HeardOK, Busy, Light
      <3> QED BY <3>2, <3>3 DEF Flow
    <2>7. CASE ~(Says(f.cmd, f.dat) /\ f.cmd \in {OnOffCMD, BriNowCMD})
      <3>1. /\ call'["rx"].pc = "ack" /\ call'["rx"].cmd = f.cmd /\ call'["rx"].dat = f.dat
            /\ \A d \in Callers : d # "rx" => call'[d] = call[d]
            /\ Bri_Status' = IF f.cmd = OnOffCMD THEN f.dat ELSE Bri_Status
        BY <1>0, <2>5, <2>7 DEF LInv, MailTyped
      <3>2. PutOK' /\ SentOK'
        BY <2>1, <2>4, <3>1 DEF PutOK, SentOK, SentBy, Asking
      <3>3. Obeyed(Light', f.cmd, f.dat) = mcu
        BY <2>1, <2>4, <3>1 DEF Obeyed, Light
      <3>4. f.cmd = BriNowCMD => InRange(f.dat)
        BY McuFrameFacts, LinkAssumption DEF InRange
      <3>5. HeardOK'
        BY <2>1, <2>3, <2>4, <3>1, <3>3, <3>4 DEF HeardOK, Settled, InRange
      <3> QED BY <3>2, <3>5 DEF Flow
    <2> QED BY <2>6, <2>7
  <1>2. CASE RxAcked
    <2> DEFINE c == call["rx"]
    <2>1. /\ c.pc = "ack" /\ UNCHANGED <<Bri_Status, buf, sendFlag, snd, mcu, out, rxq>>
      BY <1>2 DEF RxAcked
    <2>2. /\ \A d \in Callers : d # "rx" => call[d].pc \in {"idle", "boot"}
          /\ \A s \in Senders : snd[s].pc = "none"
          /\ ~Transfer
      BY <1>0, <2>1 DEF LInv, Solo, Busy, RxBefore
    <2>3. /\ Obeyed(Light, c.cmd, c.dat) = mcu
          /\ c.cmd = OnOffCMD => c.dat = Bri_Status
          /\ c.cmd = BriNowCMD => InRange(c.dat)
      BY <2>1 DEF Flow, HeardOK
    <2>4. CASE c.cmd = BriNowCMD
      <3>1. Bri_Now_Pct' = c.dat /\ Ask("rx", BriNowCMD, c.dat)
        BY <1>2, <2>3, <2>4 DEF RxAcked
      <3>2. Obeyed(mcu, BriNowCMD, c.dat) = Light'
        BY <2>1, <2>3, <2>4, <3>1 DEF Obeyed, Light, OnOffCMD, BriNowCMD
      <3> QED BY <1>0, <2>1, <2>2, <3>1, <3>2, AskFlow
    <2>5. CASE c.cmd # BriNowCMD
      <3>1. /\ call' = [call EXCEPT !["rx"] = IF c.cmd = OnOffCMD THEN [@ EXCEPT !.pc = "report"] ELSE Idle]
            /\ UNCHANGED Bri_Now_Pct
        BY <1>2, <2>5 DEF RxAcked
      <3>2. /\ IF c.cmd = OnOffCMD
               THEN call'["rx"].pc = "report" /\ call'["rx"].cmd = OnOffCMD /\ call'["rx"].dat = c.dat
               ELSE call'["rx"].pc = "idle"
            /\ \A d \in Callers : d # "rx" => call'[d] = call[d]
        BY <1>0, <3>1 DEF LInv, MailTyped, Idle
      <3>3. mcu' = Light'
        <4>1. c.cmd = OnOffCMD => Says(c.cmd, c.dat)
          BY <2>3, <2>5 DEF Says
        <4>2. Light \in [on : {0, 1}, bri : Nat]
          BY LinkAssumption DEF LInv, LightTyped, Light
        <4>3. mcu = Light
          BY <2>3, <2>5, <4>1, <4>2, ObeyedFacts
        <4> QED BY <2>1, <3>1, <4>3 DEF Light
      <3>4. PutOK' /\ SentOK'
        BY <2>1, <2>2, <3>2 DEF PutOK, SentOK, SentBy, Asking
      <3>5. HeardOK'
        <4>1. call'["rx"].pc # "ack" /\ (Busy("rx")' => Says(call["rx"].cmd, call["rx"].dat)')
          BY <2>1, <2>3, <3>2 DEF Busy, Says, OnOffCMD, BriNowCMD
        <4> QED BY <2>1, <2>2, <3>3, <4>1 DEF HeardOK, Transfer
      <3> QED BY <3>4, <3>5 DEF Flow
    <2> QED BY <2>4, <2>5
  <1> QED BY <1>1, <1>2 DEF Rx

\* Steps elsewhere.
LEMMA ElsewhereFlow ==
    ASSUME Flow, UNCHANGED <<mailAndCalls, lightVars, mcu>>
    PROVE  Flow'
  <1> USE DEF mailAndCalls, mailVars, lightVars
  <1>1. PutOK'
    BY DEF Flow, PutOK, Asking, Obeyed, Light
  <1>2. SentOK'
    BY DEF Flow, SentOK, SentBy, Obeyed, Light, Says
  <1>3. HeardOK'
    BY DEF Flow, HeardOK, Settled, Asking, Transfer, Obeyed, Light, Says, Busy
  <1> QED BY <1>1, <1>2, <1>3 DEF Flow

\* app_main ends: its call was over.
LEMMA AppMainEndsKeepsFlow ==
    ASSUME LInv, Flow, AppMainEnds
    PROVE  Flow'
  <1> USE DEF pinVars, timerVars, mcuVars, lightVars, mailVars
  <1>1. /\ call["main"].pc = "boot" /\ call' = [call EXCEPT !["main"] = Idle]
        /\ UNCHANGED <<buf, sendFlag, snd, lightVars, mcu, out, rxq>>
    BY DEF AppMainEnds
  <1>2. /\ call'["main"].pc = "idle" /\ \A d \in Callers : d # "main" => call'[d] = call[d]
        /\ "main" \in Callers /\ "rx" \in Callers
    BY <1>1 DEF LInv, MailTyped, Idle, Callers
  <1>3. (\A c \in Callers : Asking(c)' <=> Asking(c)) /\ ~Asking("main")'
    BY <1>1, <1>2 DEF Asking
  <1>4. PutOK'
    BY <1>1, <1>2, <1>3 DEF Flow, PutOK, Obeyed, Light
  <1>5. SentOK'
    BY <1>1 DEF Flow, SentOK, SentBy, Obeyed, Light, Says
  <1>6. HeardOK'
    <2>1. Settled' => Settled
      BY <1>1, <1>2, <1>3 DEF Settled, Transfer
    <2> QED BY <1>1, <1>2, <2>1 DEF Flow, HeardOK, Obeyed, Light, Says, Busy
  <1> QED BY <1>4, <1>5, <1>6 DEF Flow

\* The invariant about the light in every state.
LEMMA FlowInvariant ==
    ASSUME ~CloudOverlap
    PROVE  Spec => [](LInv /\ Flow)
  <1>0. Apart
    BY DEF Apart
  <1>1. Init => Flow
    <2> SUFFICES ASSUME Init PROVE Flow
      OBVIOUS
    <2>1. /\ \A s \in Senders : snd[s].pc = "none"
          /\ mcu = Light /\ out = << >> /\ rxq = << >>
          /\ call["main"].pc = "cmd" /\ call["main"].cmd = WIFIINITSTARTCMD
          /\ \A c \in Callers : c # "main" => call[c].pc = "idle"
      BY DEF Init, Light, Idle, Callers
    <2>2. mcu \in [on : {0, 1}, bri : Nat]
      BY DEF Init, DEFAULT_BRI
    <2>3. PutOK
      BY <2>1, <2>2, ObeyedFacts DEF PutOK, Asking, OnOffCMD, BriNowCMD, WIFIINITSTARTCMD
    <2>4. SentOK /\ HeardOK
      BY <2>1 DEF SentOK, SentBy, HeardOK, Busy, Callers
    <2> QED BY <2>3, <2>4 DEF Flow
  <1>2. LInv /\ Flow /\ [Next]_vars => Flow'
    <2> SUFFICES ASSUME LInv, Flow, [Next]_vars PROVE Flow'
      OBVIOUS
    <2>1. ASSUME WifiLost \/ Interrupts \/ McuLowersPin \/ UNCHANGED vars
          PROVE  UNCHANGED <<mailAndCalls, lightVars, mcu>>
      BY <2>1 DEF WifiLost, Interrupts, wakeup_io_isr_handler, StopPowerSaveTimer,
         StartPowerSaveTimer, McuLowersPin, vars, mailAndCalls, mcuVars
    <2> QED BY <2>1, ElsewhereFlow, CloudKeepsFlow, MailboxKeepsFlow, SenderKeepsFlow, RxKeepsFlow,
               McuKeepsFlow, AppMainEndsKeepsFlow DEF Next, Mcu
  <1> QED BY <1>0, <1>1, <1>2, LinkInvariant, PTL DEF Spec

\* With operations that do not overlap, by the cloud and at the switch:
\* once everything has settled, the MCU's light is the one that Bri_Status and
\* Bri_Now_Pct tell of.  (With overlapping writes it need not be: see the run of
\* MCMcuLinkLost.)
THEOREM LightsAgree ==
    ASSUME ~CloudOverlap
    PROVE  Spec => []LightAgrees
  <1>1. Flow => LightAgrees
    BY QuietIsSettled DEF LightAgrees, Light
  <1> QED BY <1>1, FlowInvariant, PTL

-----------------------------------------------------------------------------
(* The pin and the power lock: whatever takes the lock gives it back. *)

\* The software follows the pin's trigger, the receive flag is up only until the
\* MCU lowers the pin, and the timer that allows it to send is for a frame it has.
PinOK ==
    /\ hwIntr = "low" => swIntr = "low"
    /\ rxFlag => hwIntr = "low"
    /\ pin /\ out = << >> => hwIntr = "low"
    /\ out # << >> => pin
    /\ edge => pin /\ hwIntr = "posedge"
    /\ stopTimer \/ allowed => pin /\ out # << >> /\ hwIntr = "low"
    /\ ~(stopTimer /\ allowed)

\* Who has yet to give the lock back.
Holding == startTimer \/ call["rx"].pc = "ack" \/ \E s \in Senders : snd[s].pc = "tx"
LockOK == lock => pin \/ hwIntr = "low" \/ Holding

\* While the MCU has the pin, no sender takes it.
WakeFree ==
    pin \/ hwIntr = "low" =>
       /\ ~Busy("main") /\ ~Busy("cloud")
       /\ Asking("rx") => call["rx"].cmd = BriNowCMD
       /\ \A s \in Senders :
             /\ snd[s].pc = "snap" => buf.cmd \notin WakeCmds
             /\ snd[s].pc \in {"clear", "wait", "wake", "tx"} => snd[s].frame.cmd \notin WakeCmds

Pins == PinOK /\ LockOK /\ WakeFree

\* The interrupt, the timers and the end of the MCU's transfer.
LEMMA InterruptsKeepPins ==
    ASSUME LInv, Pins, Interrupts \/ McuLowersPin \/ WifiLost \/ UNCHANGED vars
    PROVE  Pins'
  <1> USE DEF pinVars, timerVars, mcuVars, mailVars
  <1>0. PinTyped /\ PinOK /\ LockOK
    BY DEF LInv, Pins
  <1>1. UNCHANGED <<mailVars, call, out, rxq>>
    BY DEF Interrupts, wakeup_io_isr_handler, StopPowerSaveTimer, StartPowerSaveTimer,
       McuLowersPin, WifiLost, vars
  <1>2. ASSUME pin' \/ hwIntr' = "low" => pin \/ hwIntr = "low" PROVE WakeFree'
    BY <1>1, <1>2 DEF Pins, WakeFree, Busy, Asking
  <1>3. CASE wakeup_io_isr_handler
    <2>1. /\ Triggered /\ edge' = FALSE /\ UNCHANGED <<lock, pin, allowed, out>>
      BY <1>3 DEF wakeup_io_isr_handler
    <2>2. CASE swIntr = "low"
      <3>1. /\ swIntr' = "high" /\ hwIntr' = "high" /\ rxFlag' = FALSE
            /\ startTimer' = TRUE /\ stopTimer' = stopTimer
        BY <1>3, <2>2 DEF wakeup_io_isr_handler
      <3>2. PinOK'
        BY <1>0, <2>1, <3>1 DEF PinOK, Triggered
      <3>3. LockOK'
        BY <3>1 DEF LockOK, Holding
      <3>4. WakeFree'
        BY <1>2, <2>1, <3>1
      <3> QED BY <3>2, <3>3, <3>4 DEF Pins
    <2>3. CASE swIntr = "high"
      <3>1. /\ swIntr' = "low" /\ hwIntr' = "low" /\ rxFlag' = TRUE
            /\ stopTimer' = TRUE /\ startTimer' = startTimer
        BY <1>3, <2>3 DEF wakeup_io_isr_handler
      <3>2. pin /\ out # << >> /\ ~allowed
        BY <1>0, <2>1, <2>3 DEF PinOK, Triggered
      <3>3. PinOK'
        BY <2>1, <3>1, <3>2 DEF PinOK
      <3>4. LockOK'
        BY <3>1 DEF LockOK
      <3>5. WakeFree'
        BY <1>2, <3>2
      <3> QED BY <3>3, <3>4, <3>5 DEF Pins
    <2>4. CASE swIntr \notin {"low", "high"}
      <3>1. swIntr' = "high" /\ hwIntr' = "high" /\ UNCHANGED <<rxFlag, timerVars>>
        BY <1>3, <2>4 DEF wakeup_io_isr_handler
      <3>2. pin /\ out # << >> /\ ~rxFlag /\ ~stopTimer /\ ~allowed
        BY <1>0, <2>1, <2>4 DEF PinOK, Triggered
      <3>3. PinOK'
        BY <2>1, <3>1, <3>2 DEF PinOK
      <3>4. LockOK'
        BY <2>1, <3>2 DEF LockOK
      <3>5. WakeFree'
        BY <1>2, <3>2
      <3> QED BY <3>3, <3>4, <3>5 DEF Pins
    <2> QED BY <2>2, <2>3, <2>4
  <1>4. CASE StopPowerSaveTimer \/ StartPowerSaveTimer
    <2>1. UNCHANGED <<pinVars, pin, out, rxFlag>>
      BY <1>4 DEF StopPowerSaveTimer, StartPowerSaveTimer
    <2>2. PinOK'
      BY <1>0, <1>4, <2>1 DEF PinOK, StopPowerSaveTimer, StartPowerSaveTimer
    <2>3. LockOK'
      BY <1>0, <1>4, <2>1 DEF PinOK, LockOK, StopPowerSaveTimer, StartPowerSaveTimer
    <2>4. WakeFree'
      BY <1>2, <2>1
    <2> QED BY <2>2, <2>3, <2>4 DEF Pins
  <1>5. CASE McuLowersPin
    <2>1. /\ pin /\ out = << >> /\ pin' = FALSE
          /\ UNCHANGED <<pinVars, rxFlag, timerVars, lock, allowed, out>>
      BY <1>5 DEF McuLowersPin
    <2>2. hwIntr = "low" /\ ~stopTimer /\ ~allowed
      BY <1>0, <2>1 DEF PinOK
    <2>3. PinOK'
      BY <1>0, <2>1, <2>2 DEF PinOK
    <2>4. LockOK'
      BY <2>1, <2>2 DEF LockOK
    <2>5. WakeFree'
      BY <1>2, <2>1
    <2> QED BY <2>3, <2>4, <2>5 DEF Pins
  <1>6. CASE WifiLost \/ UNCHANGED vars
    <2>1. UNCHANGED <<pinVars, rxFlag, timerVars, lock, pin, allowed, out>>
      BY <1>6 DEF WifiLost, vars
    <2> QED BY <1>0, <1>1, <1>2, <2>1 DEF Pins, PinOK, LockOK, Holding
  <1> QED BY <1>3, <1>4, <1>5, <1>6 DEF Interrupts

\* A step that touches neither the pin nor the timers.
LEMMA PinAlone ==
    ASSUME PinOK, UNCHANGED <<pinVars, rxFlag, timerVars, mcuVars>>
    PROVE  PinOK'
  BY DEF PinOK, pinVars, timerVars, mcuVars

\* The cloud, which finds everything quiet.
LEMMA CloudKeepsPins ==
    ASSUME ~CloudOverlap, LInv, Pins, CloudPower \/ CloudBrightness \/ AgentInitEnd
    PROVE  Pins'
  <1> USE DEF pinVars, timerVars, mcuVars, lightVars
  <1>1. /\ ~pin /\ hwIntr # "low"
        /\ UNCHANGED <<pinVars, rxFlag, timerVars, mcuVars, lock, snd>>
    BY DEF CloudPower, CloudBrightness, AgentInitEnd, MayWrite, Quiet
  <1>2. call'["rx"] = call["rx"]
    BY DEF CloudPower, CloudBrightness, AgentInitEnd, Ask, LInv, MailTyped, Callers
  <1>3. PinOK'
    BY <1>1, PinAlone DEF Pins
  <1>4. LockOK'
    BY <1>1, <1>2 DEF Pins, LockOK, Holding
  <1>5. WakeFree'
    BY <1>1 DEF WakeFree
  <1> QED BY <1>3, <1>4, <1>5 DEF Pins

\* The MCU's own steps.
LEMMA McuKeepsPins ==
    ASSUME LInv, Pins, McuChanges \/ McuSends
    PROVE  Pins'
  <1> USE DEF pinVars, timerVars, mcuVars, lightVars, mailVars
  <1>0. UNCHANGED <<mailVars, call, lock, hwIntr, timerVars>>
    BY DEF McuChanges, McuSends
  <1>1. CASE McuChanges
    <2>1. /\ Quiet /\ out' # << >> /\ pin' = TRUE /\ edge' = (hwIntr = "posedge")
          /\ UNCHANGED <<rxFlag, hwIntr, swIntr, timerVars, allowed>>
      BY <1>1 DEF McuChanges
    <2>2. PinOK'
      BY <2>1 DEF Quiet, Pins, PinOK
    <2>3. LockOK'
      BY <2>1 DEF LockOK
    <2>4. WakeFree'
      BY <1>0, <2>1 DEF WakeFree, Quiet, Alive, Busy, Asking, Callers
    <2> QED BY <2>2, <2>3, <2>4 DEF Pins
  <1>2. CASE McuSends
    <2>1. /\ allowed /\ out' = << >> /\ allowed' = FALSE
          /\ UNCHANGED <<pinVars, rxFlag, timerVars, pin>>
      BY <1>2 DEF McuSends
    <2>2. PinOK'
      BY <2>1 DEF Pins, PinOK
    <2>3. LockOK'
      BY <1>0, <2>1 DEF Pins, LockOK, Holding
    <2>4. WakeFree'
      BY <1>0, <2>1 DEF Pins, WakeFree, Busy, Asking
    <2> QED BY <2>2, <2>3, <2>4 DEF Pins
  <1> QED BY <1>1, <1>2

\* The UART task: its lock is given back once the acknowledgement is out.
LEMMA RxKeepsPins ==
    ASSUME LInv, Pins, Rx
    PROVE  Pins'
  <1> USE DEF pinVars, timerVars, mcuVars, lightVars, mailVars
  <1>0. /\ {"main", "cloud", "rx"} = Callers
        /\ call \in [Callers -> [pc : CallPcs, cmd : Cmds \cup {WIFIRESETCMD}, dat : Nat]]
    BY DEF Callers, LInv, MailTyped
  <1>1. CASE RxFrame
    <2>1. /\ call["rx"].pc = "idle" /\ UNCHANGED <<pinVars, rxFlag, timerVars, mcuVars, snd, buf>>
          /\ \/ lock' = FALSE /\ call' = call
             \/ /\ lock' = TRUE /\ call'["rx"].pc = "ack"
                /\ \A c \in Callers : c # "rx" => call'[c] = call[c]
      BY <1>0, <1>1 DEF RxFrame
    <2>2. PinOK'
      BY <2>1, PinAlone DEF Pins
    <2>3. LockOK'
      BY <2>1 DEF LockOK, Holding
    <2>4. WakeFree'
      BY <1>0, <2>1 DEF Pins, WakeFree, Busy, Asking
    <2> QED BY <2>2, <2>3, <2>4 DEF Pins
  <1>2. CASE RxAcked
    <2>1. /\ lock' = FALSE /\ rxFlag' = FALSE /\ UNCHANGED <<pinVars, timerVars, mcuVars, snd, buf>>
      BY <1>2 DEF RxAcked
    <2>2. /\ \A c \in Callers : c # "rx" => call'[c] = call[c]
          /\ Asking("rx")' => call'["rx"].cmd = BriNowCMD
      BY <1>0, <1>2 DEF RxAcked, Ask, Asking, Idle
    <2>3. PinOK'
      BY <2>1 DEF Pins, PinOK
    <2>4. LockOK'
      BY <2>1 DEF LockOK
    <2>5. WakeFree'
      BY <1>0, <2>1, <2>2 DEF Pins, WakeFree, Busy
    <2> QED BY <2>3, <2>4, <2>5 DEF Pins
  <1> QED BY <1>1, <1>2 DEF Rx

\* A thread in its handler: while the MCU has the pin only the UART task is, and
\* what it hands over needs no waking.
LEMMA MailboxKeepsPins ==
    ASSUME LInv, Flow, Pins, NEW c \in Callers, Mailbox(c)
    PROVE  Pins'
  <1> USE DEF pinVars, timerVars, mcuVars, lightVars, mailVars
  <1>0. /\ {"main", "cloud", "rx"} = Callers
        /\ call[c].pc \in {"cmd", "dat", "sum", "create", "mark", "report"}
        /\ UNCHANGED <<pinVars, rxFlag, timerVars, mcuVars, lock>>
    BY DEF Callers, Mailbox, PutCmd, PutDat, PutSum, CreateSender, MarkSender, EndCall
  <1>1. /\ call'[c].pc \in {"dat", "sum", "create", "mark", "report", "idle", "boot"}
        /\ call'[c].pc \in {"dat", "sum", "create"} => Asking(c) /\ call'[c].cmd = call[c].cmd
        /\ \A d \in Callers : d # c => call'[d] = call[d]
    <2>1. CASE \E q \in {"dat", "sum", "create"} : Asking(c) /\ Step(c, q)
      BY <2>1, StepFacts DEF LInv, CallPcs
    <2>2. CASE \E q \in {"mark", "report"} : Step(c, q)
      BY <2>2, StepFacts DEF LInv, CallPcs
    <2>3. CASE call' = [call EXCEPT ![c] = IF c = "main" THEN [Idle EXCEPT !.pc = "boot"] ELSE Idle]
      BY <2>3 DEF LInv, MailTyped, Idle
    <2> QED BY <2>1, <2>2, <2>3 DEF Mailbox, PutCmd, PutDat, PutSum, CreateSender, MarkSender,
               EndCall, Asking
  <1>2. PinOK'
    BY <1>0, PinAlone DEF Pins
  <1>3. \/ snd' = snd /\ buf' = buf
        \/ Asking(c) /\ snd' = snd
        \/ /\ call[c].pc = "create" /\ buf' = buf
           /\ \E s \in Senders : /\ snd'[s].pc = "snap"
                                 /\ \A r \in Senders : r # s => snd'[r] = snd[r]
    BY DEF Mailbox, PutCmd, PutDat, PutSum, CreateSender, MarkSender, EndCall, Asking, LInv, MailTyped
  <1>4. Asking(c) => \A s \in Senders : snd[s].pc = "none"
    BY DEF Flow, PutOK
  <1>5. LockOK'
    BY <1>0, <1>1, <1>3, <1>4 DEF Pins, LockOK, Holding, Asking
  <1>6. WakeFree'
    <2> SUFFICES ASSUME pin \/ hwIntr = "low" PROVE WakeFree'
      BY <1>0 DEF WakeFree
    <2>1. c = "rx" /\ ~Busy("main") /\ ~Busy("cloud") /\ (Asking(c) => call[c].cmd = BriNowCMD)
      BY <1>0 DEF Pins, WakeFree, Busy
    <2>2. ~Busy("main")' /\ ~Busy("cloud")' /\ (Asking("rx")' => call'["rx"].cmd = BriNowCMD)
      BY <1>0, <1>1, <2>1 DEF Busy, Asking
    <2>3. CASE snd' = snd /\ buf' = buf
      BY <2>2, <2>3 DEF Pins, WakeFree
    <2>4. CASE Asking(c) /\ snd' = snd
      BY <1>4, <2>2, <2>4 DEF WakeFree
    <2>5. CASE /\ call[c].pc = "create" /\ buf' = buf
               /\ \E s \in Senders : /\ snd'[s].pc = "snap"
                                     /\ \A r \in Senders : r # s => snd'[r] = snd[r]
      <3>1. buf.cmd = BriNowCMD /\ BriNowCMD \notin WakeCmds
        BY <2>1, <2>5 DEF Flow, PutOK, Asking, WakeCmds, BriNowCMD, OnOffCMD, WIFIINITSTARTCMD,
           WIFIINITENDCMD
      <3> QED BY <1>4, <2>2, <2>5, <3>1 DEF WakeFree, Asking
    <2> QED BY <1>3, <2>3, <2>4, <2>5
  <1> QED BY <1>2, <1>5, <1>6 DEF Pins

\* The sender, which takes the pin only while the MCU does not have it.
LEMMA SenderKeepsPins ==
    ASSUME LInv, Flow, Pins, NEW s \in Senders, Sender(s)
    PROVE  Pins'
  <1> USE DEF pinVars, timerVars, mcuVars, lightVars, mailVars
  <1>0. MailTyped /\ PinOK /\ LockOK /\ UNCHANGED <<call, rxFlag, swIntr, edge, timerVars, mcuVars>>
    BY DEF LInv, Pins, Sender, Snapshot, ClearFlag, WakeMcu, BeginTx, EndTx, AfterTx, AfterDelay,
       Unmark, DeleteTask
  <1>1. \/ hwIntr' = hwIntr
        \/ ~pin /\ hwIntr # "low" /\ hwIntr' \in {"off", "posedge"} /\ ~rxFlag
    BY <1>0 DEF Sender, Snapshot, ClearFlag, WakeMcu, BeginTx, EndTx, AfterTx, AfterDelay, Unmark,
       DeleteTask, Pins, WakeFree, PinOK
  <1>2. PinOK'
    BY <1>0, <1>1 DEF PinOK
  <1>3. LockOK'
    <2>1. CASE BeginTx(s)
      <3>1. snd'[s].pc = "tx"
        BY <1>0, <2>1, GoFacts DEF BeginTx, SndPcs
      <3> QED BY <3>1 DEF LockOK, Holding
    <2>2. CASE EndTx(s)
      BY <2>2 DEF EndTx, LockOK
    <2>3. CASE ~BeginTx(s) /\ ~EndTx(s)
      <3>1. lock' = lock /\ snd[s].pc # "tx"
        BY <2>3 DEF Sender, Snapshot, ClearFlag, WakeMcu, AfterTx, AfterDelay, Unmark, DeleteTask
      <3>2. \A r \in Senders : snd[r].pc = "tx" => snd'[r] = snd[r]
        <4>1. \A r \in Senders : snd[r].pc # "none" => r = s
          BY <3>1 DEF LInv, SenderOK, Sender, Snapshot, ClearFlag, WakeMcu, BeginTx, EndTx, AfterTx,
             AfterDelay, Unmark, DeleteTask
        <4> QED BY <3>1, <4>1
      <3> QED BY <1>0, <1>1, <3>1, <3>2 DEF LockOK, Holding
    <2> QED BY <2>1, <2>2, <2>3
  <1>4. WakeFree'
    <2> SUFFICES ASSUME pin \/ hwIntr = "low" PROVE WakeFree'
      BY <1>0, <1>1 DEF WakeFree
    <2>1. /\ ~Busy("main")' /\ ~Busy("cloud")' /\ (Asking("rx")' => call'["rx"].cmd = BriNowCMD)
          /\ snd[s].pc = "snap" => buf.cmd \notin WakeCmds
          /\ snd[s].pc \in {"clear", "wait", "wake", "tx"} => snd[s].frame.cmd \notin WakeCmds
      BY <1>0 DEF Pins, WakeFree, Busy, Asking
    <2>2. snd[s].pc # "none" /\ \A r \in Senders : snd[r].pc # "none" => r = s
      BY DEF LInv, SenderOK, Sender, Snapshot, ClearFlag, WakeMcu, BeginTx, EndTx, AfterTx,
         AfterDelay, Unmark, DeleteTask
    <2>3. \A r \in Senders : snd'[r].pc # "none" => r = s
      BY <1>0, <2>2 DEF LInv, SenderOK, Sender, Snapshot, ClearFlag, WakeMcu, BeginTx, EndTx,
         AfterTx, AfterDelay, Unmark, DeleteTask, Go, MailTyped
    <2>4. CASE Snapshot(s)
      <3>1. snd'[s].pc = "clear" /\ snd'[s].frame = buf /\ snd[s].pc = "snap"
        BY <1>0, <2>4 DEF Snapshot, MailTyped
      <3> QED BY <2>1, <2>3, <3>1 DEF WakeFree
    <2>5. CASE \E q \in {"wait", "wake", "tx"} : Go(s, q) /\ snd[s].pc \in {"clear", "wait", "wake"}
      <3>1. snd'[s].frame = snd[s].frame /\ snd'[s].pc \in {"wait", "wake", "tx"}
        BY <1>0, <2>5, GoFacts DEF SndPcs
      <3> QED BY <2>1, <2>3, <2>5, <3>1 DEF WakeFree
    <2>6. CASE EndTx(s) \/ AfterTx(s) \/ AfterDelay(s) \/ Unmark(s) \/ DeleteTask(s)
      <3>1. snd[s].pc = "delay" => ~sendFlag
        BY DEF Flow, SentOK, SentBy
      <3>2. snd'[s].pc \in {"none", "post", "delay", "end", "delete"}
        BY <1>0, <2>2, <2>6, <3>1 DEF EndTx, AfterTx, AfterDelay, Unmark, DeleteTask, Go, MailTyped,
           LInv, SenderOK
      <3> QED BY <2>1, <2>3, <3>2 DEF WakeFree
    <2> QED BY <2>4, <2>5, <2>6 DEF Sender, ClearFlag, WakeMcu, BeginTx
  <1> QED BY <1>2, <1>3, <1>4 DEF Pins

\* app_main ends: it does not touch the pin.
LEMMA AppMainEndsKeepsPins ==
    ASSUME LInv, Pins, AppMainEnds
    PROVE  Pins'
  <1> USE DEF pinVars, timerVars, mcuVars, lightVars, mailVars
  <1>1. /\ UNCHANGED <<pinVars, rxFlag, timerVars, mcuVars, lock, snd, buf>>
        /\ call["main"].pc = "boot" /\ call'["main"].pc = "idle"
        /\ call'["rx"] = call["rx"] /\ call'["cloud"] = call["cloud"]
    BY DEF AppMainEnds, LInv, MailTyped, Idle, Callers
  <1>2. PinOK'
    BY <1>1, PinAlone DEF Pins
  <1>3. LockOK'
    BY <1>1 DEF Pins, LockOK, Holding
  <1>4. WakeFree'
    BY <1>1 DEF Pins, WakeFree, Busy, Asking
  <1> QED BY <1>2, <1>3, <1>4 DEF Pins

\* The invariant about the pin in every state.
LEMMA PinsInvariant ==
    ASSUME ~CloudOverlap
    PROVE  Spec => []Pins
  <1>1. Init => Pins
    BY DEF Init, Pins, PinOK, LockOK, WakeFree
  <1>2. LInv /\ Flow /\ Pins /\ [Next]_vars => Pins'
    BY InterruptsKeepPins, CloudKeepsPins, McuKeepsPins, RxKeepsPins, MailboxKeepsPins,
       SenderKeepsPins, AppMainEndsKeepsPins DEF Next, Mcu
  <1> QED BY <1>1, <1>2, FlowInvariant, PTL DEF Spec

\* With operations that do not overlap, by the cloud and at the switch:
\* once everything has settled, the power lock is released, so that the switch falls
\* back to light sleep, and the receive flag, which holds every sender up, is clear.
THEOREM NothingIsLeftBehind ==
    ASSUME ~CloudOverlap
    PROVE  Spec => []NothingLeftBehind
  <1>1. Pins => NothingLeftBehind
    BY DEF Pins, PinOK, LockOK, Holding, NothingLeftBehind, Quiet, Alive, Callers
  <1> QED BY <1>1, PinsInvariant, PTL

-----------------------------------------------------------------------------
(* What the cloud is told. *)

\* A handler that will report the value a command is about.
Owes(cmd) == \E c \in {"cloud", "rx"} : Busy(c) /\ call[c].cmd = cmd

OnTold  == OnOffCMD \in report.withheld \/ report.on = Bri_Status
BriTold == \/ BriNowCMD \in report.withheld \/ report.bri = Bri_Now_Pct
           \/ <<report.bri, Bri_Now_Pct>> = <<PARAM_BRI, DEFAULT_BRI>>

\* A value that the cloud does not know was withheld from it, or a handler is on its way
\* to the report.
Owing ==
    /\ Owes(OnOffCMD) \/ OnTold
    /\ Owes(BriNowCMD) \/ BriTold

\* A thread in its handler is the only one that may owe a report.
LEMMA OnlyOwes ==
    ASSUME LInv, NEW c \in Callers, Busy(c), NEW cmd, Owes(cmd)
    PROVE  call[c].cmd = cmd /\ c # "main"
  BY DEF LInv, Solo, Owes, Callers

\* A step that leaves what is reported alone, and every handler at its command.
LEMMA OwingAlone ==
    ASSUME Owing, UNCHANGED <<report, lightVars>>,
           \A c \in Callers : (Busy(c)' <=> Busy(c)) /\ (Busy(c) => call'[c].cmd = call[c].cmd)
    PROVE  Owing'
  <1>1. "main" \in Callers /\ {"cloud", "rx"} \subseteq Callers
    BY DEF Callers
  <1>2. \A cmd : Owes(cmd) => Owes(cmd)'
    BY <1>1 DEF Owes
  <1> QED BY <1>1, <1>2 DEF Owing, OnTold, BriTold, lightVars

\* A report of a value that the light has.
LEMMA ToldTruly ==
    ASSUME LInv, NEW cmd, NEW on, NEW bri, ReportLight(cmd, on, bri),
           cmd = OnOffCMD => on = Bri_Status, cmd = BriNowCMD => bri = Bri_Now_Pct,
           UNCHANGED lightVars
    PROVE  /\ OnTold \/ cmd = OnOffCMD => OnTold'
           /\ BriTold \/ cmd = BriNowCMD => BriTold'
  <1>1. /\ report'.on = (IF cmd = OnOffCMD THEN on ELSE report.on)
        /\ report'.bri = (IF cmd = BriNowCMD THEN bri ELSE report.bri)
        /\ report'.withheld = report.withheld \ {cmd}
    BY DEF ReportLight
  <1> QED BY <1>1 DEF OnTold, BriTold, lightVars, OnOffCMD, BriNowCMD

\* What a sender or the UART task says of the light is told, or withheld.
LEMMA UpdatedTruly ==
    ASSUME LInv, NEW cmd, NEW dat, UpdateLight(cmd, dat), Says(cmd, dat), UNCHANGED lightVars
    PROVE  /\ OnTold \/ cmd = OnOffCMD => OnTold'
           /\ BriTold \/ cmd = BriNowCMD => BriTold'
  <1>0. cmd = OnOffCMD => AsBool(dat) = Bri_Status
    BY DEF Says, AsBool, LInv, LightTyped
  <1>1. CASE init_end
    <2>1. ReportLight(cmd, AsBool(dat), dat)
      BY <1>1 DEF UpdateLight
    <2> QED BY <1>0, <2>1, ToldTruly DEF Says
  <1>2. CASE ~init_end
    <2>1. report' = [report EXCEPT !.withheld = IF IsNews(cmd, dat) THEN @ \cup {cmd} ELSE @]
      BY <1>2 DEF UpdateLight
    <2>2. /\ report'.on = report.on /\ report'.bri = report.bri
          /\ report'.withheld = IF IsNews(cmd, dat) THEN report.withheld \cup {cmd} ELSE report.withheld
      BY <2>1 DEF LInv, LightTyped, Reports
    <2>3. /\ cmd = OnOffCMD => cmd \in report'.withheld \/ report.on = Bri_Status
          /\ cmd = BriNowCMD => cmd \in report'.withheld \/ report.bri = Bri_Now_Pct
      BY <1>0, <2>2 DEF IsNews, Says
    <2> QED BY <2>2, <2>3 DEF OnTold, BriTold, lightVars
  <1> QED BY <1>1, <1>2 DEF LInv, LightTyped

\* The cloud's handlers report at their end.
LEMMA CloudKeepsOwing ==
    ASSUME ~CloudOverlap, LInv, Owing, CloudPower \/ CloudBrightness \/ AgentInitEnd
    PROVE  Owing'
  <1> USE DEF lightVars
  <1>1. \A c \in Callers : call[c].pc \in {"idle", "boot"}
    BY DEF CloudPower, CloudBrightness, AgentInitEnd, MayWrite, Quiet
  <1>2. OnTold /\ BriTold
    BY <1>1 DEF Owing, Owes, Busy, Callers
  <1>3. UNCHANGED report
    BY DEF CloudPower, CloudBrightness, AgentInitEnd
  <1>4. CASE CloudPower
    <2>1. Bri_Now_Pct' = Bri_Now_Pct /\ call'["cloud"].pc = "cmd" /\ call'["cloud"].cmd = OnOffCMD
      BY <1>4 DEF CloudPower, Ask, LInv, MailTyped, Callers
    <2> QED BY <1>2, <1>3, <2>1 DEF Owing, Owes, Busy, BriTold
  <1>5. CASE CloudBrightness
    <2>1. /\ Bri_Status' = Bri_Status
          /\ call'["cloud"].pc \in {"cmd", "report"} /\ call'["cloud"].cmd = BriNowCMD
      BY <1>5 DEF CloudBrightness, Ask, LInv, MailTyped, Callers
    <2> QED BY <1>2, <1>3, <2>1 DEF Owing, Owes, Busy, OnTold
  <1>6. CASE AgentInitEnd
    BY <1>2, <1>3, <1>6 DEF AgentInitEnd, Owing, OnTold, BriTold
  <1> QED BY <1>4, <1>5, <1>6

\* A handler on its way to its report, and at it.
LEMMA MailboxKeepsOwing ==
    ASSUME LInv, Flow, Owing, NEW c \in Callers, Mailbox(c)
    PROVE  Owing'
  <1> USE DEF pinVars, timerVars, mcuVars, lightVars, mailVars
  <1>0. MailTyped /\ UNCHANGED lightVars
    BY DEF LInv, Mailbox, PutCmd, PutDat, PutSum, CreateSender, MarkSender, EndCall
  <1>1. CASE ~EndCall(c)
    <2>1. /\ UNCHANGED report /\ Busy(c)
          /\ \E q \in {"dat", "sum", "create", "mark", "report"} : Step(c, q)
      BY <1>1 DEF Mailbox, PutCmd, PutDat, PutSum, CreateSender, MarkSender, Busy
    <2>2. /\ call'[c].pc \notin {"idle", "boot"} /\ call'[c].cmd = call[c].cmd
          /\ \A d \in Callers : d # c => call'[d] = call[d]
      BY <1>0, <2>1, StepFacts DEF CallPcs
    <2> QED BY <1>0, <2>1, <2>2, OwingAlone DEF Busy
  <1>2. CASE EndCall(c)
    <2>0. /\ Busy(c) /\ call[c].pc = "report" /\ call'[c].pc \in {"idle", "boot"}
          /\ \A d \in Callers : d # c => call'[d] = call[d]
      BY <1>0, <1>2 DEF EndCall, Busy, Idle, MailTyped
    <2>1. /\ c = "cloud" => ReportLight(call[c].cmd, Bri_Status, Bri_Now_Pct)
          /\ c = "rx"    => UpdateLight(call[c].cmd, call[c].dat)
          /\ c = "main"  => UNCHANGED report
      BY <1>2 DEF EndCall
    <2>2. /\ OnTold \/ (call[c].cmd = OnOffCMD /\ c # "main")
          /\ BriTold \/ (call[c].cmd = BriNowCMD /\ c # "main")
      BY <2>0, OnlyOwes DEF Owing
    <2>3. CASE c = "cloud"
      BY <1>0, <2>1, <2>2, <2>3, ToldTruly DEF Owing
    <2>4. CASE c = "rx"
      <3>1. Says(call[c].cmd, call[c].dat)
        BY <2>0, <2>4 DEF Flow, HeardOK
      <3> QED BY <1>0, <2>1, <2>2, <2>4, <3>1, UpdatedTruly DEF Owing
    <2>5. CASE c = "main"
      BY <1>0, <2>1, <2>2, <2>5 DEF Owing, OnTold, BriTold
    <2> QED BY <2>3, <2>4, <2>5 DEF Callers
  <1> QED BY <1>1, <1>2

\* The sender reports what it has sent.
LEMMA SenderKeepsOwing ==
    ASSUME LInv, Flow, Owing, NEW s \in Senders, Sender(s)
    PROVE  Owing'
  <1> USE DEF pinVars, timerVars, mcuVars, lightVars, mailVars
  <1>0. UNCHANGED <<lightVars, call>>
    BY DEF Sender, Snapshot, ClearFlag, WakeMcu, BeginTx, EndTx, AfterTx, AfterDelay, Unmark, DeleteTask
  <1>1. CASE AfterTx(s)
    <2>1. UpdateLight(snd[s].frame.cmd, snd[s].frame.dat) /\ snd[s].pc = "post"
      BY <1>1 DEF AfterTx
    <2>2. Says(snd[s].frame.cmd, snd[s].frame.dat)
      BY <2>1 DEF Flow, SentOK, SentBy
    <2>3. (OnTold => OnTold') /\ (BriTold => BriTold')
      BY <1>0, <2>1, <2>2, UpdatedTruly
    <2> QED BY <1>0, <2>3 DEF Owing, Owes, Busy
  <1>2. CASE ~AfterTx(s)
    <2>1. UNCHANGED report
      BY <1>2 DEF Sender, Snapshot, ClearFlag, WakeMcu, BeginTx, EndTx, AfterDelay, Unmark, DeleteTask
    <2> QED BY <1>0, <2>1, OwingAlone DEF Busy
  <1> QED BY <1>1, <1>2

\* The UART task reports what the MCU has said.
LEMMA RxKeepsOwing ==
    ASSUME LInv, Flow, Owing, Rx
    PROVE  Owing'
  <1> USE DEF pinVars, timerVars, mcuVars, lightVars, mailVars
  <1>0. "rx" \in Callers /\ MailTyped /\ UNCHANGED report
    BY DEF Callers, LInv, Rx, RxFrame, RxAcked
  <1>1. CASE RxFrame
    <2> DEFINE f == Head(rxq)
    <2>1. /\ \A d \in Callers : call[d].pc \in {"idle", "boot"}
          /\ Bri_Now_Pct' = Bri_Now_Pct
          /\ \/ UNCHANGED <<call, Bri_Status>>
             \/ /\ call' = [call EXCEPT !["rx"] = [pc |-> "ack", cmd |-> f.cmd, dat |-> f.dat]]
                /\ Bri_Status' = IF f.cmd = OnOffCMD THEN f.dat ELSE Bri_Status
      BY <1>1 DEF RxFrame, LInv, Solo, Transfer, Busy
    <2>2. OnTold /\ BriTold
      BY <1>0, <2>1 DEF Owing, Owes, Busy, Callers
    <2>3. \/ UNCHANGED <<call, Bri_Status>>
          \/ /\ call'["rx"].pc = "ack" /\ call'["rx"].cmd = f.cmd
             /\ f.cmd # OnOffCMD => Bri_Status' = Bri_Status
      BY <1>0, <2>1 DEF MailTyped
    <2> HIDE DEF f
    <2>4. BriTold'
      BY <1>0, <2>1, <2>2 DEF BriTold
    <2>5. Owes(OnOffCMD)' \/ OnTold'
      BY <1>0, <2>2, <2>3 DEF OnTold, Owes, Busy
    <2> QED BY <2>4, <2>5 DEF Owing
  <1>2. CASE RxAcked
    <2> DEFINE c == call["rx"]
    <2>1. c.pc = "ack" /\ Busy("rx") /\ Bri_Status' = Bri_Status
      BY <1>2 DEF RxAcked, Busy
    <2>2. /\ OnTold \/ c.cmd = OnOffCMD
          /\ BriTold \/ c.cmd = BriNowCMD
      BY <1>0, <2>1, OnlyOwes DEF Owing
    <2>3. c.cmd = BriNowCMD => InRange(c.dat)
      BY <2>1 DEF Flow, HeardOK
    <2>4. CASE c.cmd = BriNowCMD
      <3>1. call'["rx"].pc = "cmd" /\ call'["rx"].cmd = BriNowCMD
        BY <1>0, <1>2, <2>3, <2>4 DEF RxAcked, Ask, MailTyped
      <3>2. OnTold'
        BY <1>0, <2>1, <2>2, <2>4 DEF OnTold, OnOffCMD, BriNowCMD
      <3> QED BY <1>0, <2>2, <3>1, <3>2 DEF Owing, Owes, Busy
    <2>5. CASE c.cmd # BriNowCMD
      <3>1. /\ Bri_Now_Pct' = Bri_Now_Pct
            /\ c.cmd = OnOffCMD => call'["rx"].pc = "report" /\ call'["rx"].cmd = OnOffCMD
        BY <1>0, <1>2, <2>5 DEF RxAcked, MailTyped
      <3>2. BriTold'
        BY <1>0, <2>2, <2>5, <3>1 DEF BriTold
      <3>3. Owes(OnOffCMD)' \/ OnTold'
        BY <1>0, <2>1, <2>2, <3>1 DEF OnTold, Owes, Busy
      <3> QED BY <3>2, <3>3 DEF Owing
    <2> QED BY <2>4, <2>5
  <1> QED BY <1>1, <1>2 DEF Rx

\* app_main ends, and owes nothing.
LEMMA AppMainEndsKeepsOwing ==
    ASSUME LInv, Owing, AppMainEnds
    PROVE  Owing'
  <1>1. /\ UNCHANGED <<report, lightVars>>
        /\ call["main"].pc = "boot" /\ call'["main"].pc = "idle"
        /\ \A d \in Callers : d # "main" => call'[d] = call[d]
    BY DEF AppMainEnds, LInv, MailTyped, Idle, Callers
  <1> QED BY <1>1, OwingAlone DEF Busy, Callers

\* With operations that do not overlap, and connections that may be lost at any moment:
\* once everything has settled, the parameters the cloud knows are those of the light,
\* however it was operated, but for a value whose last change was made at the switch
\* while s_wifi_init_end_flag was clear.  (The brightness parameter starts at a value of
\* its own, which stands until a brightness is reported.)
THEOREM CloudKnows ==
    ASSUME ~CloudOverlap
    PROVE  Spec => []CloudAgrees
  <1>1. Init => Owing
    BY DEF Init, Owing, Busy, OnTold, BriTold, Callers
  <1>2. LInv /\ Flow /\ Owing /\ [Next]_vars => Owing'
    <2> SUFFICES ASSUME LInv, Flow, Owing, [Next]_vars PROVE Owing'
      OBVIOUS
    <2>1. ASSUME WifiLost \/ Interrupts \/ McuChanges \/ Mcu \/ UNCHANGED vars
          PROVE  Owing'
      <3>1. UNCHANGED <<report, lightVars, call>>
        BY <2>1 DEF WifiLost, Interrupts, wakeup_io_isr_handler, StopPowerSaveTimer,
           StartPowerSaveTimer, McuChanges, Mcu, McuSends, McuLowersPin, vars
      <3> QED BY <3>1, OwingAlone DEF Busy
    <2> QED BY <2>1, CloudKeepsOwing, MailboxKeepsOwing, SenderKeepsOwing, RxKeepsOwing,
               AppMainEndsKeepsOwing DEF Next
  <1>3. Owing => CloudAgrees
    BY DEF Owing, OnTold, BriTold, Owes, Busy, CloudAgrees, Quiet, Callers
  <1> QED BY <1>1, <1>2, <1>3, FlowInvariant, PTL DEF Spec
=============================================================================
