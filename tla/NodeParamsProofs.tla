-------------------------- MODULE NodeParamsProofs --------------------------
(***************************************************************************)
(* Proofs about NodeParams, for every set of parameters, values and tasks. *)
(* What flash holds is current however the tasks interleave, unless a      *)
(* store was of memory that another task had freed.  That the cloud gets   *)
(* every value needs reports that do not overlap.                          *)
(***************************************************************************)
EXTENDS NodeParams, TLAPS

-----------------------------------------------------------------------------
(***************************************************************************)
(* Storage: any number of tasks, also with overlapping reports.            *)
(***************************************************************************)
CallOK ==
    \A t \in Tasks :
        /\ call[t].at \in {"store", "write"} => call[t].p \in Persist
        /\ call[t].at \in {"store", "write", "updated"} => call[t].p \in Params /\ call[t].pass \in Flags
        /\ call[t].at \in {"fill", "refill", "reset", "send"} =>
                \/ call[t].pass = "state" /\ call[t].at # "reset"
                \/ call[t].pass \in Flags /\ call[t].p \in Params

SInv == TypeOK /\ CallOK /\ StoredIsCurrent

\* What an action does to the calls: the task's own call changes, no other.
LEMMA GotoTyped ==
    ASSUME TypeOK, NEW t \in Tasks, NEW at \in {"write", "updated", "fill", "refill", "reset", "send"},
           Goto(t, at)
    PROVE  /\ call' \in [Tasks -> Calls]
           /\ call'[t].at = at /\ call'[t].p = call[t].p /\ call'[t].pass = call[t].pass
           /\ \A u \in Tasks : u # t => call'[u] = call[u]
BY DEF TypeOK, Goto, Calls

\* A call that returns leaves its task idle and the others where they are.
LEMMA ReturnTyped ==
    ASSUME TypeOK, NEW t \in Tasks, Return(t)
    PROVE  /\ call' \in [Tasks -> Calls]
           /\ call'[t] = Idle /\ call'[t].at = "idle"
           /\ \A u \in Tasks : u # t => call'[u] = call[u]
BY DEF TypeOK, Return, Calls, Idle

\* Every step keeps the stored values current, or a call about to store them.
LEMMA StorageInductive == SInv /\ [Next]_vars => SInv'
<1> SUFFICES ASSUME SInv, [Next]_vars PROVE SInv'
    OBVIOUS
<1> USE NodeParamsAssumption DEF flashVars
<1>1. ASSUME NEW t \in Tasks, NEW p \in Params, NEW v \in Values, NEW report \in Flags,
             Update(t, p, v, report)
      PROVE  SInv'
  <2>1. /\ call' \in [Tasks -> Calls] /\ call'[t].p = p /\ call'[t].pass = report
        /\ call'[t].at = IF p \in Persist THEN "store" ELSE "updated"
        /\ \A u \in Tasks : u # t => call'[u] = call[u]
        BY <1>1 DEF SInv, TypeOK, Update, Calls
  <2>2. TypeOK'
        BY <1>1, <2>1 DEF SInv, TypeOK, Update
  <2>3. CallOK'
        BY <2>1 DEF SInv, CallOK
  <2>4. StoredIsCurrent'
    <3> SUFFICES ASSUME NEW q \in Persist,
                        \A u \in Tasks : call'[u].at \in {"store", "write"} => call'[u].p # q
                 PROVE  q \in stale' \/ stored'[q] = val'[q]
        BY DEF StoredIsCurrent
    <3>1. q # p
          BY <2>1
    <3>2. \A u \in Tasks : call[u].at \in {"store", "write"} => call[u].p # q
          BY <1>1, <2>1 DEF Update, Idle
    <3> QED BY <1>1, <3>1, <3>2 DEF SInv, StoredIsCurrent, TypeOK, Update
  <2> QED BY <2>2, <2>3, <2>4 DEF SInv
<1>0. ASSUME NEW t \in Tasks, TakeValue(t) PROVE SInv'
  <2>1. /\ call' \in [Tasks -> Calls] /\ call'[t].at = "write" /\ call[t].at = "store"
        /\ call'[t].p = call[t].p /\ call'[t].pass = call[t].pass
        /\ \A u \in Tasks : u # t => call'[u] = call[u]
        BY <1>0, GotoTyped DEF SInv, TakeValue
  <2>2. TypeOK'
        BY <1>0, <2>1 DEF SInv, TypeOK, TakeValue
  <2>3. CallOK'
        BY <2>1 DEF SInv, CallOK
  <2>4. StoredIsCurrent'
    <3> SUFFICES ASSUME NEW q \in Persist,
                        \A u \in Tasks : call'[u].at \in {"store", "write"} => call'[u].p # q
                 PROVE  q \in stale' \/ stored'[q] = val'[q]
        BY DEF StoredIsCurrent
    <3>1. \A u \in Tasks : call[u].at \in {"store", "write"} => call[u].p # q
          BY <2>1
    <3> QED BY <1>0, <3>1 DEF SInv, StoredIsCurrent, TakeValue
  <2> QED BY <2>2, <2>3, <2>4 DEF SInv
<1>2. ASSUME NEW t \in Tasks, NEW v \in Values, StoreValue(t, v) PROVE SInv'
  <2>1. /\ call' \in [Tasks -> Calls] /\ call'[t].at = "updated" /\ call[t].at = "write"
        /\ call'[t].p = call[t].p /\ call'[t].pass = call[t].pass
        /\ \A u \in Tasks : u # t => call'[u] = call[u]
        BY <1>2, GotoTyped DEF SInv, StoreValue
  <2>2. call[t].p \in Persist
        BY <2>1 DEF SInv, CallOK
  <2>3. /\ stored' = [stored EXCEPT ![call[t].p] = v]
        /\ stale' = IF t \in fresh THEN stale \ {call[t].p} ELSE stale \cup {call[t].p}
        /\ t \in fresh => v = val[call[t].p]
        /\ fresh' \subseteq fresh
        /\ UNCHANGED <<val, flags, buf, started, init_done, remote, gave_up>>
        BY <1>2 DEF StoreValue
  <2>4. TypeOK'
        BY <2>1, <2>2, <2>3 DEF SInv, TypeOK
  <2>5. CallOK'
        BY <2>1 DEF SInv, CallOK
  <2>6. StoredIsCurrent'
    <3> SUFFICES ASSUME NEW q \in Persist,
                        \A u \in Tasks : call'[u].at \in {"store", "write"} => call'[u].p # q
                 PROVE  q \in stale' \/ stored'[q] = val'[q]
        BY DEF StoredIsCurrent
    <3>1. CASE q = call[t].p
          BY <2>2, <2>3, <3>1 DEF SInv, TypeOK
    <3>2. CASE q # call[t].p
      <4>1. \A u \in Tasks : call[u].at \in {"store", "write"} => call[u].p # q
            BY <2>1, <3>2
      <4>2. q \in stale \/ stored[q] = val[q]
            BY <4>1 DEF SInv, StoredIsCurrent
      <4> QED BY <2>3, <3>2, <4>2 DEF SInv, TypeOK
    <3> QED BY <3>1, <3>2
  <2> QED BY <2>4, <2>5, <2>6 DEF SInv
<1>3. ASSUME NEW t \in Tasks, Report(t) PROVE SInv'
  <2>1. /\ call' \in [Tasks -> Calls] /\ call'[t].at = "fill"
        /\ call'[t].p = call[t].p /\ call'[t].pass = call[t].pass
        /\ \A u \in Tasks : u # t => call'[u] = call[u]
        BY <1>3, GotoTyped DEF SInv, Report
  <2>2. call[t].p \in Params /\ call[t].pass \in Flags
        BY <1>3 DEF SInv, CallOK, Report
  <2>3. TypeOK'
        BY <1>3, <2>1, <2>2 DEF SInv, TypeOK, Report, Flags
  <2>4. CallOK'
        BY <1>3, <2>1, <2>2 DEF SInv, CallOK
  <2>5. StoredIsCurrent'
        BY <1>3, <2>1 DEF SInv, StoredIsCurrent, Report
  <2> QED BY <2>3, <2>4, <2>5 DEF SInv
<1>4. ASSUME NEW t \in Tasks, DoNotReport(t) PROVE SInv'
  <2>1. /\ call' \in [Tasks -> Calls] /\ call'[t].at = "idle"
        /\ \A u \in Tasks : u # t => call'[u] = call[u]
        BY <1>4, ReturnTyped DEF SInv, DoNotReport
  <2>2. TypeOK' /\ CallOK'
        BY <1>4, <2>1 DEF SInv, TypeOK, CallOK, DoNotReport
  <2>3. StoredIsCurrent'
        BY <1>4, <2>1 DEF SInv, StoredIsCurrent, DoNotReport
  <2> QED BY <2>2, <2>3 DEF SInv
<1>5. ASSUME NEW t \in Tasks, Populate(t) \/ Reallocate(t) PROVE SInv'
  <2>1. PICK at \in {"refill", "reset", "send"} :
            /\ Goto(t, at)
            /\ at = "reset" => call[t].pass # "state"
        BY <1>5 DEF Populate, Reallocate
  <2>2. /\ call' \in [Tasks -> Calls] /\ call'[t].p = call[t].p
        /\ call'[t].pass = call[t].pass /\ call'[t].at = at
        /\ \A u \in Tasks : u # t => call'[u] = call[u]
        BY <2>1, GotoTyped DEF SInv
  <2>3. /\ call[t].at \in {"fill", "refill"}
        /\ UNCHANGED <<val, flashVars, flags, started, init_done, remote, gave_up>>
        BY <1>5 DEF Populate, Reallocate
  <2>4. DOMAIN buf' \subseteq Params /\ \A p \in DOMAIN buf' : buf'[p] \in Values
        BY <1>5 DEF SInv, TypeOK, Populate, Reallocate, Selected, Empty
  <2>5. TypeOK'
        BY <2>2, <2>3, <2>4 DEF SInv, TypeOK
  <2>6. CallOK'
        BY <2>1, <2>2, <2>3 DEF SInv, CallOK
  <2>7. StoredIsCurrent'
        BY <2>2, <2>3 DEF SInv, StoredIsCurrent
  <2> QED BY <2>5, <2>6, <2>7 DEF SInv
<1>6. ASSUME NEW t \in Tasks, ResetFlags(t) PROVE SInv'
  <2>1. /\ call' \in [Tasks -> Calls] /\ call'[t].at = "send"
        /\ call'[t].p = call[t].p /\ call'[t].pass = call[t].pass
        /\ \A u \in Tasks : u # t => call'[u] = call[u]
        BY <1>6, GotoTyped DEF SInv, ResetFlags
  <2>2. TypeOK'
        BY <1>6, <2>1 DEF SInv, TypeOK, ResetFlags
  <2>3. CallOK'
        BY <1>6, <2>1 DEF SInv, CallOK, ResetFlags
  <2>4. StoredIsCurrent'
        BY <1>6, <2>1 DEF SInv, StoredIsCurrent, ResetFlags
  <2> QED BY <2>2, <2>3, <2>4 DEF SInv
<1>7. ASSUME NEW t \in Tasks, Publish(t) \/ GiveUp(t) PROVE SInv'
  <2>1. /\ remote' \in [Params -> Values \cup {None}] /\ gave_up' \in BOOLEAN
        /\ DOMAIN buf' \subseteq Params /\ \A p \in DOMAIN buf' : buf'[p] \in Values
        BY <1>7 DEF SInv, TypeOK, Publish, GiveUp, Empty
  <2>2. /\ call[t].at \in {"refill", "send"} /\ EndPass(t)
        /\ UNCHANGED <<val, flashVars, flags, started, init_done>>
        BY <1>7 DEF Publish, GiveUp
  <2>3. CASE call[t].pass = "notify"
    <3>1. /\ call' \in [Tasks -> Calls] /\ call'[t].at = "fill"
          /\ call'[t].p = call[t].p /\ call'[t].pass = "change"
          /\ \A u \in Tasks : u # t => call'[u] = call[u]
          BY <2>2, <2>3 DEF EndPass, SInv, TypeOK, Calls, Flags
    <3>2. TypeOK'
          BY <2>1, <2>2, <3>1 DEF SInv, TypeOK
    <3>3. CallOK'
          BY <2>2, <2>3, <3>1 DEF SInv, CallOK, Flags
    <3>4. StoredIsCurrent'
          BY <2>2, <3>1 DEF SInv, StoredIsCurrent
    <3> QED BY <3>2, <3>3, <3>4 DEF SInv
  <2>4. CASE call[t].pass # "notify"
    <3>1. /\ call' \in [Tasks -> Calls] /\ call'[t].at = "idle"
          /\ \A u \in Tasks : u # t => call'[u] = call[u]
          BY <2>2, <2>4, ReturnTyped DEF SInv, EndPass
    <3>2. TypeOK'
          BY <2>1, <2>2, <3>1 DEF SInv, TypeOK
    <3>3. CallOK'
          BY <3>1 DEF SInv, CallOK
    <3>4. StoredIsCurrent'
          BY <2>2, <3>1 DEF SInv, StoredIsCurrent
    <3> QED BY <3>2, <3>3, <3>4 DEF SInv
  <2> QED BY <2>3, <2>4
<1>8. ASSUME NEW t \in Tasks, ParamsMqttInit(t) \/ ReportNodeState(t) PROVE SInv'
  <2>1. /\ call' = [call EXCEPT ![t] = StateReport]
        /\ UNCHANGED <<val, flashVars, flags, buf, started, remote, gave_up>>
        /\ init_done' \in BOOLEAN /\ call[t] = Idle
        BY <1>8 DEF ParamsMqttInit, ReportNodeState, SInv, TypeOK
  <2>2. /\ call' \in [Tasks -> Calls] /\ call'[t].at = "fill" /\ call'[t].pass = "state"
        /\ \A u \in Tasks : u # t => call'[u] = call[u]
        BY <2>1 DEF SInv, TypeOK, Calls, StateReport
  <2>3. TypeOK'
        BY <2>1, <2>2 DEF SInv, TypeOK
  <2>4. CallOK'
        BY <2>2 DEF SInv, CallOK
  <2>5. StoredIsCurrent'
        BY <2>1, <2>2 DEF SInv, StoredIsCurrent, Idle
  <2> QED BY <2>3, <2>4, <2>5 DEF SInv
<1>9. CASE AgentStarts
      BY <1>9 DEF AgentStarts, SInv, TypeOK, CallOK, StoredIsCurrent
<1>10. CASE Restart
  <2>1. call' \in [Tasks -> Calls] /\ \A u \in Tasks : call'[u].at = "idle"
        BY <1>10 DEF Restart, Idle, Calls
  <2>2. TypeOK'
        BY <1>10, <2>1 DEF Restart, SInv, TypeOK, Empty
  <2>3. CallOK'
        BY <2>1 DEF CallOK
  <2>4. StoredIsCurrent'
        BY <1>10 DEF Restart, StoredIsCurrent
  <2> QED BY <2>2, <2>3, <2>4 DEF SInv
<1>11. CASE UNCHANGED vars
       BY <1>11 DEF vars, SInv, TypeOK, CallOK, StoredIsCurrent
<1> QED
    BY <1>0, <1>1, <1>2, <1>3, <1>4, <1>5, <1>6, <1>7, <1>8, <1>9, <1>10, <1>11 DEF Next, TaskStep

\* At start no call is in progress and flash has what the parameters have.
LEMMA StorageInit == Init => SInv
<1> SUFFICES ASSUME Init PROVE SInv
    OBVIOUS
<1>1. call \in [Tasks -> Calls] /\ \A t \in Tasks : call[t].at = "idle"
      BY DEF Init, Idle, Calls
<1>2. TypeOK
      BY <1>1, NodeParamsAssumption DEF Init, TypeOK, Empty
<1>3. CallOK
      BY <1>1 DEF CallOK
<1>4. StoredIsCurrent
      BY NodeParamsAssumption DEF Init, StoredIsCurrent
<1> QED BY <1>2, <1>3, <1>4 DEF SInv

\* However the tasks that call esp_rmaker_param_update interleave, flash never keeps
\* another value of a parameter that persists than the node has, except where the last
\* store copied a string that another task's update had freed (esp_rmaker_param.c:489).
THEOREM FlashIsCurrent == Spec => []StorageInv
<1>1. SInv => StorageInv
      BY DEF SInv, StorageInv
<1> QED BY StorageInit, StorageInductive, <1>1, PTL DEF Spec

-----------------------------------------------------------------------------
(***************************************************************************)
(* Reports that do not overlap.  A value that the cloud was not told is    *)
(* due to some call: an update that has yet to report, a report that will  *)
(* select the parameter, or one that has its value in the buffer.          *)
(***************************************************************************)
InReport(t) == call[t].at \in {"fill", "refill", "reset", "send"}

Exclusive == \A t, u \in Tasks : InReport(t) /\ InReport(u) => t = u

Online == init_done => started

DueBy(t, p) ==
    \/ call[t].at \in {"store", "write", "updated"} /\ call[t].p = p
    \/ call[t].at \in {"fill", "refill"} /\ (call[t].pass = "state" \/ "change" \in flags[p])
    \/ call[t].at \in {"reset", "send"} /\ call[t].pass = "notify" /\ "change" \in flags[p]
    \/ /\ call[t].at \in {"reset", "send"} /\ call[t].pass # "notify"
       /\ p \in DOMAIN buf /\ buf[p] = val[p]

CloudOK ==
    init_done => \A p \in Params : remote[p] = val[p] \/ \E t \in Tasks : DueBy(t, p)

\* A value in the buffer that is old is followed by that of a later update.
BufferOK ==
    init_done =>
        \A t \in Tasks, p \in DOMAIN buf :
            call[t].at \in {"reset", "send"} /\ call[t].pass # "notify" =>
                \/ buf[p] = val[p]
                \/ \E u \in Tasks : call[u].at \in {"store", "write", "updated"} /\ call[u].p = p

NotifyOK ==
    /\ \A p \in Params :
        "notify" \in flags[p] =>
            \E t \in Tasks : /\ call[t].at \in {"fill", "refill", "reset"}
                            /\ call[t].pass = "notify" /\ call[t].p = p
    /\ \A t \in Tasks :
        call[t].pass = "notify" =>
            /\ call[t].at \in {"fill", "refill"} => "notify" \in flags[call[t].p]
            /\ call[t].at \in {"reset", "send"} => DOMAIN buf = {call[t].p}

CInv == SInv /\ Exclusive /\ Online /\ CloudOK /\ BufferOK /\ NotifyOK

\* Every step of reports that do not overlap keeps each missing value due in some
\* call, as long as no report is given up.
LEMMA CloudStep ==
    ASSUME Overlap = FALSE
    PROVE  CInv /\ [Next]_vars /\ ~gave_up' => CInv'
<1> SUFFICES ASSUME CInv, [Next]_vars, ~gave_up' PROVE CInv'
    OBVIOUS
<1> USE NodeParamsAssumption DEF flashVars
<1>s. SInv'
      BY StorageInductive DEF CInv
<1>t. TypeOK /\ CallOK
      BY DEF CInv, SInv
<1>1. ASSUME NEW t \in Tasks, NEW p \in Params, NEW v \in Values, NEW report \in Flags,
             Update(t, p, v, report)
      PROVE  CInv'
  <2>1. /\ call'[t].p = p /\ call'[t].at \in {"store", "write", "updated"}
        /\ \A u \in Tasks : u # t => call'[u] = call[u]
        /\ call[t].at = "idle" /\ call[t].pass = "none"
        BY <1>1, <1>t DEF TypeOK, Update, Calls, Idle
  <2>2. /\ \A q \in Params : q # p => val'[q] = val[q]
        /\ UNCHANGED <<flags, buf, started, init_done, remote>>
        BY <1>1, <1>t DEF TypeOK, Update
  <2>3. Exclusive' /\ Online'
        BY <2>1, <2>2 DEF CInv, Exclusive, Online, InReport
  <2>4. CloudOK'
    <3> SUFFICES ASSUME init_done, NEW q \in Params
                 PROVE  remote'[q] = val'[q] \/ \E u \in Tasks : DueBy(u, q)'
        BY <2>2 DEF CloudOK
    <3>1. CASE q = p
          BY <2>1, <3>1 DEF DueBy
    <3>2. CASE q # p
      <4>1. CASE remote[q] = val[q]
            BY <2>2, <3>2, <4>1
      <4>2. ASSUME NEW u \in Tasks, DueBy(u, q) PROVE DueBy(u, q)'
            BY <2>1, <2>2, <3>2, <4>2 DEF DueBy
      <4> QED BY <4>1, <4>2 DEF CInv, CloudOK
    <3> QED BY <3>1, <3>2
  <2>5. BufferOK'
    <3> SUFFICES ASSUME init_done, NEW u \in Tasks, NEW q \in DOMAIN buf,
                        call'[u].at \in {"reset", "send"}, call'[u].pass # "notify"
                 PROVE  \/ buf[q] = val'[q]
                        \/ \E w \in Tasks : call'[w].at \in {"store", "write", "updated"} /\ call'[w].p = q
        BY <2>2 DEF BufferOK
    <3>1. CASE q = p
          BY <2>1, <3>1
    <3>2. CASE q # p
      <4>1. call'[u] = call[u] /\ q \in Params
            BY <2>1, <1>t DEF TypeOK
      <4>2. \/ buf[q] = val[q]
            \/ \E w \in Tasks : call[w].at \in {"store", "write", "updated"} /\ call[w].p = q
            BY <4>1 DEF CInv, BufferOK
      <4>3. ASSUME NEW w \in Tasks, call[w].at \in {"store", "write", "updated"} PROVE call'[w] = call[w]
            BY <2>1, <4>3
      <4> QED BY <2>2, <3>2, <4>1, <4>2, <4>3
    <3> QED BY <3>1, <3>2
  <2>6. NotifyOK'
    <3>1. ASSUME NEW q \in Params, "notify" \in flags'[q]
          PROVE  \E u \in Tasks : /\ call'[u].at \in {"fill", "refill", "reset"}
                                  /\ call'[u].pass = "notify" /\ call'[u].p = q
      <4>1. PICK u \in Tasks : /\ call[u].at \in {"fill", "refill", "reset"}
                               /\ call[u].pass = "notify" /\ call[u].p = q
            BY <2>2, <3>1 DEF CInv, NotifyOK
      <4> QED BY <2>1, <4>1
    <3>2. ASSUME NEW u \in Tasks, call'[u].pass = "notify"
          PROVE  /\ call'[u].at \in {"fill", "refill"} => "notify" \in flags'[call'[u].p]
                 /\ call'[u].at \in {"reset", "send"} => DOMAIN buf' = {call'[u].p}
          BY <2>1, <2>2, <3>2 DEF CInv, NotifyOK
    <3> QED BY <3>1, <3>2 DEF NotifyOK
  <2> QED BY <1>s, <2>3, <2>4, <2>5, <2>6 DEF CInv
<1>2. ASSUME NEW t \in Tasks, TakeValue(t) \/ (\E v \in Values : StoreValue(t, v)) PROVE CInv'
  <2>1. /\ call[t].at \in {"store", "write"} /\ call'[t].at \in {"write", "updated"}
        /\ call'[t].p = call[t].p /\ call'[t].pass = call[t].pass
        /\ \A u \in Tasks : u # t => call'[u] = call[u]
        /\ UNCHANGED <<val, flags, buf, started, init_done, remote>>
    <3>1. CASE TakeValue(t)
          BY <3>1, <1>t, GotoTyped DEF TakeValue
    <3>2. CASE \E v \in Values : StoreValue(t, v)
          BY <3>2, <1>t, GotoTyped DEF StoreValue
    <3> QED BY <1>2, <3>1, <3>2
  <2>2. Exclusive' /\ Online'
        BY <2>1 DEF CInv, Exclusive, Online, InReport
  <2>3. CloudOK'
    <3>1. ASSUME NEW u \in Tasks, NEW q \in Params, DueBy(u, q) PROVE DueBy(u, q)'
          BY <2>1, <3>1 DEF DueBy
    <3> QED BY <2>1, <3>1 DEF CInv, CloudOK
  <2>4. BufferOK'
    <3>1. ASSUME NEW w \in Tasks, call[w].at \in {"store", "write", "updated"}
          PROVE  call'[w].at \in {"store", "write", "updated"} /\ call'[w].p = call[w].p
          BY <2>1, <3>1
    <3>2. ASSUME NEW w \in Tasks, call'[w].at \in {"reset", "send"} PROVE call'[w] = call[w]
          BY <2>1, <3>2
    <3> QED BY <2>1, <3>1, <3>2 DEF CInv, BufferOK
  <2>5. NotifyOK'
    <3>1. ASSUME NEW q \in Params, "notify" \in flags'[q]
          PROVE  \E u \in Tasks : /\ call'[u].at \in {"fill", "refill", "reset"}
                                  /\ call'[u].pass = "notify" /\ call'[u].p = q
      <4>1. PICK u \in Tasks : /\ call[u].at \in {"fill", "refill", "reset"}
                               /\ call[u].pass = "notify" /\ call[u].p = q
            BY <2>1, <3>1 DEF CInv, NotifyOK
      <4> QED BY <2>1, <4>1
    <3>2. ASSUME NEW u \in Tasks, call'[u].pass = "notify"
          PROVE  /\ call'[u].at \in {"fill", "refill"} => "notify" \in flags'[call'[u].p]
                 /\ call'[u].at \in {"reset", "send"} => DOMAIN buf' = {call'[u].p}
          BY <2>1, <3>2 DEF CInv, NotifyOK
    <3> QED BY <3>1, <3>2 DEF NotifyOK
  <2> QED BY <1>s, <2>2, <2>3, <2>4, <2>5 DEF CInv
<1>3. ASSUME NEW t \in Tasks, Report(t) PROVE CInv'
  <2>1. /\ call[t].at = "updated" /\ call'[t].at = "fill"
        /\ call'[t].p = call[t].p /\ call'[t].pass = call[t].pass
        /\ \A u \in Tasks : u # t => call'[u] = call[u]
        /\ UNCHANGED <<val, buf, started, init_done, remote>>
        BY <1>3, <1>t, GotoTyped DEF Report
  <2>2. call[t].p \in Params /\ call[t].pass \in Flags
        BY <1>3, <1>t DEF CallOK, Report
  <2>3. /\ flags'[call[t].p] = flags[call[t].p] \cup {"change", call[t].pass}
        /\ \A q \in Params : q # call[t].p => flags'[q] = flags[q]
        BY <1>3, <1>t, <2>2 DEF TypeOK, Report
  <2>4. \A u \in Tasks : ~InReport(u)
        BY <1>3 DEF Report, MayReport, Reporting, InReport
  <2>5. Exclusive' /\ Online'
        BY <2>1, <2>4 DEF CInv, Exclusive, Online, InReport
  <2>6. CloudOK'
    <3>1. ASSUME NEW u \in Tasks, NEW q \in Params, DueBy(u, q) PROVE DueBy(u, q)'
          BY <2>1, <2>3, <2>4, <3>1 DEF DueBy, InReport
    <3> QED BY <2>1, <3>1 DEF CInv, CloudOK
  <2>7. \A q \in Params : "notify" \notin flags[q]
        BY <2>4 DEF CInv, NotifyOK, InReport
  <2>8. ASSUME NEW q \in Params, "notify" \in flags'[q]
        PROVE  q = call[t].p /\ call[t].pass = "notify"
        BY <2>3, <2>7, <2>8
  <2>9. ASSUME NEW u \in Tasks, InReport(u)' PROVE u = t
        BY <2>1, <2>4, <2>9 DEF InReport
  <2>10. NotifyOK'
    <3>1. ASSUME NEW q \in Params, "notify" \in flags'[q]
          PROVE  \E u \in Tasks : /\ call'[u].at \in {"fill", "refill", "reset"}
                                  /\ call'[u].pass = "notify" /\ call'[u].p = q
          BY <2>1, <2>8, <3>1
    <3>2. ASSUME NEW u \in Tasks, call'[u].pass = "notify"
          PROVE  /\ call'[u].at \in {"fill", "refill"} => "notify" \in flags'[call'[u].p]
                 /\ call'[u].at \in {"reset", "send"} => DOMAIN buf' = {call'[u].p}
          BY <2>1, <2>3, <2>9, <3>2 DEF InReport
    <3> QED BY <3>1, <3>2 DEF NotifyOK
  <2>11. BufferOK'
         BY <2>1, <2>9 DEF BufferOK, InReport
  <2> QED BY <1>s, <2>5, <2>6, <2>10, <2>11 DEF CInv
<1>4. ASSUME NEW t \in Tasks, DoNotReport(t) PROVE CInv'
  <2>1. /\ call[t].at = "updated" /\ call'[t].at = "idle" /\ call'[t] = Idle /\ ~started
        /\ \A u \in Tasks : u # t => call'[u] = call[u]
        /\ UNCHANGED <<flags, buf, started, init_done>>
        BY <1>4, <1>t, ReturnTyped DEF DoNotReport
  <2>2. Exclusive' /\ Online' /\ ~init_done'
        BY <2>1 DEF CInv, Exclusive, Online, InReport
  <2>3. NotifyOK'
        BY <2>1 DEF CInv, NotifyOK, Idle
  <2> QED BY <1>s, <2>2, <2>3 DEF CInv, CloudOK, BufferOK
<1>5. ASSUME NEW t \in Tasks, Populate(t) \/ Reallocate(t) PROVE CInv'
  <2>a. /\ call[t].at \in {"fill", "refill"} /\ InReport(t)
        /\ UNCHANGED <<val, flags, started, init_done, remote>>
        BY <1>5 DEF Populate, Reallocate, InReport
  <2>b. \A u \in Tasks : InReport(u) => u = t
        BY <2>a DEF CInv, Exclusive
  <2>1. CASE Goto(t, "refill")
    <3>0. /\ call'[t].p = call[t].p /\ call'[t].pass = call[t].pass /\ call'[t].at = "refill"
          /\ \A u \in Tasks : u # t => call'[u] = call[u]
          BY <2>1, <1>t, GotoTyped
    <3>1. Exclusive' /\ Online'
          BY <2>a, <2>b, <3>0 DEF CInv, Exclusive, Online, InReport
    <3>2. ASSUME NEW u \in Tasks, NEW q \in Params, DueBy(u, q) PROVE DueBy(u, q)'
          BY <2>a, <2>b, <3>0, <3>2 DEF DueBy, InReport
    <3>3. CloudOK'
          BY <2>a, <3>2 DEF CInv, CloudOK
    <3>4. NotifyOK'
      <4>1. ASSUME NEW q \in Params, "notify" \in flags'[q]
            PROVE  \E u \in Tasks : /\ call'[u].at \in {"fill", "refill", "reset"}
                                    /\ call'[u].pass = "notify" /\ call'[u].p = q
        <5>1. call[t].pass = "notify" /\ call[t].p = q
              BY <2>a, <2>b, <4>1 DEF CInv, NotifyOK, InReport
        <5> QED BY <3>0, <5>1
      <4>2. ASSUME NEW u \in Tasks, call'[u].pass = "notify"
            PROVE  /\ call'[u].at \in {"fill", "refill"} => "notify" \in flags'[call'[u].p]
                   /\ call'[u].at \in {"reset", "send"} => DOMAIN buf' = {call'[u].p}
        <5>1. CASE u = t
              BY <2>a, <3>0, <4>2, <5>1 DEF CInv, NotifyOK
        <5>2. CASE u # t
              BY <2>b, <3>0, <5>2 DEF InReport
        <5> QED BY <5>1, <5>2
      <4> QED BY <4>1, <4>2 DEF NotifyOK
    <3>5. BufferOK'
          BY <2>a, <2>b, <3>0 DEF BufferOK, InReport
    <3> QED BY <1>s, <3>1, <3>3, <3>4, <3>5 DEF CInv
  <2>2. CASE /\ Goto(t, IF call[t].pass = "state" THEN "send" ELSE "reset")
             /\ buf' = [p \in Selected(call[t].pass) |-> val[p]]
    <3>1. /\ call'[t].p = call[t].p /\ call'[t].pass = call[t].pass
          /\ call'[t].at = IF call[t].pass = "state" THEN "send" ELSE "reset"
          /\ \A u \in Tasks : u # t => call'[u] = call[u]
          BY <2>2, <1>t, GotoTyped
    <3>2. Exclusive' /\ Online'
          BY <2>a, <2>b, <3>1 DEF CInv, Exclusive, Online, InReport
    <3>3. ASSUME NEW u \in Tasks, NEW q \in Params, DueBy(u, q) PROVE DueBy(u, q)'
      <4>1. CASE u # t
            BY <2>a, <2>b, <3>1, <3>3, <4>1 DEF DueBy, InReport
      <4>2. CASE u = t /\ call[t].pass = "notify"
            BY <2>a, <3>1, <3>3, <4>2 DEF DueBy
      <4>3. CASE u = t /\ call[t].pass # "notify"
        <5>1. call[t].pass \in {"state", "change"}
              BY <1>t, <2>a, <4>3 DEF CallOK, Flags
        <5>2. q \in Selected(call[t].pass)
              BY <2>a, <3>3, <4>3, <5>1 DEF DueBy, Selected
        <5>3. q \in DOMAIN buf' /\ buf'[q] = val'[q]
              BY <2>a, <2>2, <5>2
        <5> QED BY <3>1, <4>3, <5>3 DEF DueBy
      <4> QED BY <4>1, <4>2, <4>3
    <3>4. CloudOK'
          BY <2>a, <3>3 DEF CInv, CloudOK
    <3>5. ASSUME call[t].pass = "notify" PROVE DOMAIN buf' = {call[t].p}
      <4>1. call[t].p \in Params /\ "notify" \in flags[call[t].p]
            BY <1>t, <2>a, <3>5 DEF CallOK, CInv, NotifyOK, Flags
      <4>2. \A q \in Params : "notify" \in flags[q] => q = call[t].p
            BY <2>b DEF CInv, NotifyOK, InReport
      <4>3. Selected("notify") = {call[t].p}
            BY <4>1, <4>2 DEF Selected
      <4> QED BY <2>2, <3>5, <4>3
    <3>6. NotifyOK'
      <4>1. ASSUME NEW q \in Params, "notify" \in flags'[q]
            PROVE  \E u \in Tasks : /\ call'[u].at \in {"fill", "refill", "reset"}
                                    /\ call'[u].pass = "notify" /\ call'[u].p = q
        <5>1. call[t].pass = "notify" /\ call[t].p = q
              BY <2>a, <2>b, <4>1 DEF CInv, NotifyOK, InReport
        <5> QED BY <3>1, <5>1
      <4>2. ASSUME NEW u \in Tasks, call'[u].pass = "notify"
            PROVE  /\ call'[u].at \in {"fill", "refill"} => "notify" \in flags'[call'[u].p]
                   /\ call'[u].at \in {"reset", "send"} => DOMAIN buf' = {call'[u].p}
        <5>1. CASE u = t
              BY <3>1, <3>5, <4>2, <5>1
        <5>2. CASE u # t
              BY <2>b, <3>1, <5>2 DEF InReport
        <5> QED BY <5>1, <5>2
      <4> QED BY <4>1, <4>2 DEF NotifyOK
    <3>7. BufferOK'
          BY <2>a, <2>2 DEF BufferOK
    <3> QED BY <1>s, <3>2, <3>4, <3>6, <3>7 DEF CInv
  <2> QED BY <1>5, <2>1, <2>2 DEF Populate, Reallocate
<1>6. ASSUME NEW t \in Tasks, ResetFlags(t) PROVE CInv'
  <2>1. /\ call[t].at = "reset" /\ call'[t].at = "send"
        /\ call'[t].p = call[t].p /\ call'[t].pass = call[t].pass
        /\ \A u \in Tasks : u # t => call'[u] = call[u]
        /\ UNCHANGED <<val, buf, started, init_done, remote>>
        /\ \A q \in Params : flags'[q] = flags[q] \ {call[t].pass}
        BY <1>6, <1>t, GotoTyped DEF ResetFlags
  <2>2. \A u \in Tasks : InReport(u) => u = t
        BY <2>1 DEF CInv, Exclusive, InReport
  <2>3. Exclusive' /\ Online'
        BY <2>1, <2>2 DEF CInv, Exclusive, Online, InReport
  <2>4. CloudOK'
    <3>1. ASSUME NEW u \in Tasks, NEW q \in Params, DueBy(u, q) PROVE DueBy(u, q)'
          BY <2>1, <2>2, <3>1 DEF DueBy, InReport
    <3> QED BY <2>1, <3>1 DEF CInv, CloudOK
  <2>5. NotifyOK'
    <3>1. ASSUME NEW q \in Params, "notify" \in flags'[q] PROVE FALSE
      <4>1. "notify" \in flags[q] /\ call[t].pass # "notify"
            BY <2>1, <3>1
      <4> QED BY <2>2, <4>1 DEF CInv, NotifyOK, InReport
    <3>2. ASSUME NEW u \in Tasks, call'[u].pass = "notify"
          PROVE  /\ call'[u].at \in {"fill", "refill"} => "notify" \in flags'[call'[u].p]
                 /\ call'[u].at \in {"reset", "send"} => DOMAIN buf' = {call'[u].p}
      <4>1. CASE u = t
            BY <2>1, <3>2, <4>1 DEF CInv, NotifyOK
      <4>2. CASE u # t
            BY <2>1, <2>2, <4>2 DEF InReport
      <4> QED BY <4>1, <4>2
    <3> QED BY <3>1, <3>2 DEF NotifyOK
  <2>6. BufferOK'
    <3> SUFFICES ASSUME init_done, NEW u \in Tasks, NEW q \in DOMAIN buf,
                        call'[u].at \in {"reset", "send"}, call'[u].pass # "notify"
                 PROVE  \/ buf[q] = val[q]
                        \/ \E w \in Tasks : call'[w].at \in {"store", "write", "updated"} /\ call'[w].p = q
        BY <2>1 DEF BufferOK
    <3>1. call[u].at \in {"reset", "send"} /\ call[u].pass # "notify"
          BY <2>1
    <3>2. ASSUME NEW w \in Tasks, call[w].at \in {"store", "write", "updated"} PROVE call'[w] = call[w]
          BY <2>1, <3>2
    <3> QED BY <3>1, <3>2 DEF CInv, BufferOK
  <2> QED BY <1>s, <2>3, <2>4, <2>5, <2>6 DEF CInv
<1>7. ASSUME NEW t \in Tasks, Publish(t) PROVE CInv'
  <2>1. /\ call[t].at = "send" /\ InReport(t)
        /\ UNCHANGED <<val, flags, buf, started, init_done>>
        BY <1>7 DEF Publish, InReport
  <2>2. \A u \in Tasks : InReport(u) => u = t
        BY <2>1 DEF CInv, Exclusive
  <2>3. \A q \in Params : "notify" \notin flags[q]
        BY <2>1, <2>2 DEF CInv, NotifyOK, InReport
  <2>4. CASE call[t].pass = "notify"
    <3>1. call' = [call EXCEPT ![t].at = "fill", ![t].pass = "change"] /\ remote' = remote
          BY <1>7, <2>4 DEF Publish, EndPass
    <3>2. /\ call'[t].at = "fill" /\ call'[t].p = call[t].p /\ call'[t].pass = "change"
          /\ \A u \in Tasks : u # t => call'[u] = call[u]
          BY <1>t, <3>1 DEF TypeOK, Calls
    <3>3. Exclusive' /\ Online'
          BY <2>1, <2>2, <3>2 DEF CInv, Exclusive, Online, InReport
    <3>4. ASSUME NEW u \in Tasks, NEW q \in Params, DueBy(u, q) PROVE DueBy(u, q)'
          BY <2>1, <2>2, <2>4, <3>2, <3>4 DEF DueBy, InReport
    <3>5. CloudOK'
          BY <2>1, <3>1, <3>4 DEF CInv, CloudOK
    <3>6. NotifyOK'
          BY <2>1, <2>2, <2>3, <3>2 DEF NotifyOK, InReport
    <3>7. BufferOK'
          BY <2>1, <2>2, <3>2 DEF BufferOK, InReport
    <3> QED BY <1>s, <3>3, <3>5, <3>6, <3>7 DEF CInv
  <2>5. CASE call[t].pass # "notify"
    <3>1. /\ call'[t].at = "idle" /\ call'[t] = Idle
          /\ \A u \in Tasks : u # t => call'[u] = call[u]
          BY <1>7, <1>t, <2>5, ReturnTyped DEF Publish, EndPass
    <3>2. Exclusive' /\ Online'
          BY <2>1, <2>2, <3>1 DEF CInv, Exclusive, Online, InReport
    <3>3. CloudOK'
      <4> SUFFICES ASSUME init_done, NEW q \in Params
                   PROVE  remote'[q] = val'[q] \/ \E u \in Tasks : DueBy(u, q)'
          BY <2>1 DEF CloudOK
      <4>1. remote'[q] = IF q \in DOMAIN buf THEN buf[q] ELSE remote[q]
            BY <1>7, <2>5 DEF Publish
      <4>2. ASSUME NEW u \in Tasks, DueBy(u, q), u # t PROVE DueBy(u, q)'
            BY <2>1, <2>2, <3>1, <4>2 DEF DueBy, InReport
      <4>3. ASSUME DueBy(t, q) PROVE remote'[q] = val'[q]
            BY <2>1, <2>5, <4>1, <4>3 DEF DueBy
      <4>4. CASE \E u \in Tasks : DueBy(u, q)
            BY <4>2, <4>3, <4>4
      <4>5. CASE remote[q] = val[q] /\ q \notin DOMAIN buf
            BY <2>1, <4>1, <4>5
      <4>6. CASE q \in DOMAIN buf /\ buf[q] = val[q]
            BY <2>1, <4>1, <4>6
      <4>7. CASE q \in DOMAIN buf /\ buf[q] # val[q]
        <5>1. PICK u \in Tasks : call[u].at \in {"store", "write", "updated"} /\ call[u].p = q
              BY <2>1, <2>5, <4>7 DEF CInv, BufferOK
        <5> QED BY <3>1, <2>1, <5>1 DEF DueBy
      <4> QED BY <4>4, <4>5, <4>6, <4>7 DEF CInv, CloudOK
    <3>4. NotifyOK'
          BY <2>1, <2>2, <2>3, <3>1 DEF NotifyOK, InReport, Idle
    <3>5. BufferOK'
          BY <2>1, <2>2, <3>1 DEF BufferOK, InReport
    <3> QED BY <1>s, <3>2, <3>3, <3>4, <3>5 DEF CInv
  <2> QED BY <2>4, <2>5
<1>8. ASSUME NEW t \in Tasks, ParamsMqttInit(t) \/ ReportNodeState(t) PROVE CInv'
  <2>1. /\ call' = [call EXCEPT ![t] = StateReport] /\ call[t] = Idle
        /\ UNCHANGED <<val, flags, buf, started, remote>> /\ started /\ MayReport
        BY <1>8 DEF ParamsMqttInit, ReportNodeState
  <2>2. /\ call'[t].at = "fill" /\ call'[t].pass = "state"
        /\ \A u \in Tasks : u # t => call'[u] = call[u]
        BY <1>t, <2>1 DEF TypeOK, Calls, StateReport
  <2>3. \A u \in Tasks : ~InReport(u)
        BY <2>1 DEF MayReport, Reporting, InReport
  <2>4. Exclusive' /\ Online'
        BY <2>1, <2>2, <2>3 DEF CInv, Exclusive, Online, InReport
  <2>5. CloudOK'
        BY <2>2 DEF CloudOK, DueBy
  <2>6. BufferOK'
        BY <2>2, <2>3 DEF BufferOK, InReport
  <2>7. \A q \in Params : "notify" \notin flags[q]
        BY <2>3 DEF CInv, NotifyOK, InReport
  <2>8. NotifyOK'
        BY <2>1, <2>2, <2>3, <2>7 DEF NotifyOK, InReport
  <2> QED BY <1>s, <2>4, <2>5, <2>6, <2>8 DEF CInv
<1>9. CASE AgentStarts
  <2>1. /\ UNCHANGED <<val, flags, buf, init_done, call, remote>> /\ started'
        BY <1>9 DEF AgentStarts
  <2> QED BY <1>s, <2>1 DEF CInv, Exclusive, InReport, Online, CloudOK, DueBy, BufferOK, NotifyOK
<1>10. CASE Restart
  <2>1. /\ \A u \in Tasks : call'[u].at = "idle" /\ call'[u].pass = "none"
        /\ ~init_done' /\ \A q \in Params : flags'[q] = {}
        BY <1>10 DEF Restart, Idle
  <2> QED BY <1>s, <2>1 DEF CInv, Exclusive, InReport, Online, CloudOK, BufferOK, NotifyOK
<1>11. CASE UNCHANGED vars
  <2>1. UNCHANGED <<val, flags, buf, started, init_done, call, remote>>
        BY <1>11 DEF vars
  <2> QED BY <1>s, <2>1 DEF CInv, Exclusive, InReport, Online, CloudOK, DueBy, BufferOK, NotifyOK
<1>12. ASSUME NEW t \in Tasks, GiveUp(t) PROVE FALSE
       BY <1>12 DEF GiveUp
<1> QED
    BY <1>1, <1>2, <1>3, <1>4, <1>5, <1>6, <1>7, <1>8, <1>9, <1>10, <1>11, <1>12
       DEF Next, TaskStep

\* A report that was given up stays known.
LEMMA GaveUpStays == SInv /\ [Next]_vars /\ ~gave_up' => ~gave_up
<1> SUFFICES ASSUME [Next]_vars, gave_up PROVE gave_up'
    OBVIOUS
<1>1. ASSUME NEW t \in Tasks, TaskStep(t) PROVE gave_up'
      BY <1>1 DEF TaskStep, TakeValue, StoreValue, Report, DoNotReport, Populate, Reallocate, GiveUp,
                  ResetFlags, Publish
<1> QED BY <1>1 DEF Next, Update, ParamsMqttInit, ReportNodeState, AgentStarts, Restart, vars

DInv == SInv /\ (~gave_up => CInv)

\* With reports that were given up, nothing more is claimed.
LEMMA CloudInductive ==
    ASSUME Overlap = FALSE
    PROVE  DInv /\ [Next]_vars => DInv'
BY StorageInductive, CloudStep, GaveUpStays DEF DInv

\* Before the first report every value is due.
LEMMA CloudInit == Init => DInv
<1> SUFFICES ASSUME Init PROVE DInv
    OBVIOUS
<1>1. /\ \A u \in Tasks : call[u].at = "idle" /\ call[u].pass = "none"
      /\ ~init_done /\ \A q \in Params : flags[q] = {}
      BY DEF Init, Idle
<1> QED BY <1>1, StorageInit DEF DInv, CInv, Exclusive, InReport, Online, CloudOK, BufferOK, NotifyOK

\* With reports that do not overlap, a node at rest and online has told the cloud the
\* value of each parameter, whatever the sizes of values and buffer, unless values
\* outgrew the margin while the buffer was replaced.
THEOREM CloudToldAll ==
    ASSUME Overlap = FALSE
    PROVE  Spec => []CloudHasValues
<1>1. DInv => CloudHasValues
  <2> SUFFICES ASSUME CInv, init_done, AllIdle, NEW p \in Params PROVE remote[p] = val[p]
      BY DEF CloudHasValues, DInv
  <2>1. \A t \in Tasks : call[t].at = "idle"
        BY DEF AllIdle, Idle
  <2> QED BY <2>1 DEF CInv, CloudOK, DueBy
<1> QED BY CloudInit, CloudInductive, <1>1, PTL DEF Spec

\* With reports that do not overlap, a notification carries exactly the parameter it
\* is about, unless an earlier one was given up.
THEOREM NotificationsExact ==
    ASSUME Overlap = FALSE
    PROVE  Spec => []NotifiesOnlyWhatIsAsked
<1>1. DInv => NotifiesOnlyWhatIsAsked
      BY DEF DInv, CInv, NotifyOK, NotifiesOnlyWhatIsAsked
<1> QED BY CloudInit, CloudInductive, <1>1, PTL DEF Spec

=============================================================================
