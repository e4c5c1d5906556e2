-------------------------- MODULE WorkQueueProofs --------------------------
(***************************************************************************)
(* Proofs about WorkQueue, for every set of work functions and every size  *)
(* of the queue: it implements FifoExecutor, has at most one working task  *)
(* and never deletes the queue under it.                                   *)
(***************************************************************************)
EXTENDS WorkQueue, SequenceTheorems, TLAPS

(* Type correctness. *)

\* Adding work keeps the queue and its history sequences of work functions.
LEMMA AddTyped ==
    ASSUME TypeOK, NEW w \in Work, add_task(w)
    PROVE  /\ work_queue' \in Seq(Work) /\ Len(work_queue') <= QUEUE_SIZE
           /\ accepted' \in Seq(Work)
  <1>1. CASE exists /\ Len(work_queue) < QUEUE_SIZE
    <2>1. work_queue' = Append(work_queue, w) /\ accepted' = Append(accepted, w)
      BY <1>1 DEF add_task
    <2>2. Len(work_queue') = Len(work_queue) + 1
      BY <2>1 DEF TypeOK
    <2> QED BY <1>1, <2>1, <2>2, WorkQueueAssumption DEF TypeOK
  <1>2. CASE ~(exists /\ Len(work_queue) < QUEUE_SIZE)
    BY <1>2 DEF TypeOK, add_task
  <1> QED BY <1>1, <1>2

\* A step of a task keeps every program counter typed.
LEMMA GotoTyped ==
    ASSUME TypeOK, NEW t \in Tasks, NEW from, NEW to \in TaskSteps, Goto(t, from, to)
    PROVE  task' \in [Tasks -> TaskSteps]
  BY DEF TypeOK, Goto

\* The empty sequence is a queue and a history.
LEMMA EmptyTyped == <<>> \in Seq(Work) /\ Len(<<>>) = 0 /\ Len(<<>>) <= QUEUE_SIZE
  BY WorkQueueAssumption

\* Every action keeps every variable in its type.
LEMMA NextTyped == TypeOK /\ [Next]_vars => TypeOK'
  <1> SUFFICES ASSUME TypeOK, [Next]_vars PROVE TypeOK'
    OBVIOUS
  <1> USE DEF history
  <1>1. CASE work_queue_init
    BY <1>1, EmptyTyped DEF work_queue_init, TypeOK, QueueStates
  <1>2. CASE AddAgent
    BY <1>2, AddTyped, WorkQueueAssumption DEF AddAgent, TypeOK
  <1>3. CASE work_queue_deinit
    BY <1>3, EmptyTyped DEF work_queue_deinit, TypeOK, QueueStates
  <1>4. CASE work_queue_start
    BY <1>4 DEF work_queue_start, TypeOK, TaskSteps
  <1>5. CASE Started \/ work_queue_stop
    BY <1>5 DEF Started, work_queue_stop, TypeOK, QueueStates
  <1>6. CASE AddWork
    BY <1>6, AddTyped DEF AddWork, TypeOK
  <1>7. ASSUME NEW t \in Tasks, WorkTask(t) PROVE TypeOK'
    <2>s. {"drain", "stop", "run", "sleep", "test", "delete", "none"} \subseteq TaskSteps
      BY DEF TaskSteps
    <2>1. CASE TestState(t)
      BY <2>1, <2>s, GotoTyped DEF TestState, TypeOK
    <2>2. CASE RunNext(t)
      <3>1. task' \in [Tasks -> TaskSteps]
        BY <2>2, <2>s, GotoTyped DEF RunNext
      <3>2. /\ work_queue' \in Seq(Work) /\ Len(work_queue') <= QUEUE_SIZE
            /\ executed' \in Seq(Work)
        BY <2>2, WorkQueueAssumption DEF RunNext, TypeOK
      <3> QED BY <2>2, <3>1, <3>2 DEF RunNext, TypeOK
    <2>3. CASE FunctionReturns(t) \/ Drained(t) \/ Wakes(t) \/ Deleted(t)
      BY <2>3, <2>s, GotoTyped DEF FunctionReturns, Drained, Wakes, Deleted, TypeOK
    <2>4. CASE Stops(t)
      BY <2>4, <2>s, GotoTyped DEF Stops, TypeOK, QueueStates
    <2> QED BY <1>7, <2>1, <2>2, <2>3, <2>4 DEF WorkTask
  <1>8. CASE UNCHANGED vars
    BY <1>8 DEF vars, TypeOK
  <1> QED BY <1>1, <1>2, <1>3, <1>4, <1>5, <1>6, <1>7, <1>8 DEF Next, Api

\* The queue never holds more than its slots and every state keeps its type.
THEOREM WorkQueueTyped == Spec => []TypeOK
  <1>1. Init => TypeOK
    BY EmptyTyped DEF Init, TypeOK, QueueStates, TaskSteps
  <1> QED BY <1>1, NextTyped, PTL DEF Spec

-----------------------------------------------------------------------------
(* One working task. *)

\* What makes OneWorker inductive: a working task means that the queue was
\* started, and only a task that has seen the request to stop can undo that.
OneWorkerInv ==
    /\ OneWorker
    /\ \A t \in Tasks : Working(t) => control = "created" \/ queue_state \in {"RUNNING", "STOP_REQUESTED"}
    /\ \A t \in Tasks : task[t] = "stop" => queue_state = "STOP_REQUESTED"
    /\ control # "idle" => queue_state = "INIT_DONE"
    /\ exists <=> queue_state # "DEINIT"

\* Every action preserves it.
LEMMA OneWorkerStep == TypeOK /\ OneWorkerInv /\ [Next]_vars => OneWorkerInv'
  <1> SUFFICES ASSUME TypeOK, OneWorkerInv, [Next]_vars PROVE OneWorkerInv'
    OBVIOUS
  <1> USE DEF OneWorkerInv, OneWorker, Working, history
  <1>1. CASE work_queue_init \/ work_queue_deinit
    BY <1>1 DEF work_queue_init, work_queue_deinit
  <1>2. CASE AddAgent \/ AddWork
    BY <1>2 DEF AddAgent, AddWork
  <1>3. CASE work_queue_start
    <2>1. \A t \in Tasks : ~Working(t)
      BY <1>3 DEF work_queue_start
    <2>2. PICK t \in Tasks : task' = [task EXCEPT ![t] = "test"]
      BY <1>3 DEF work_queue_start
    <2>3. \A u \in Tasks : u # t => task'[u] = task[u]
      BY <2>2 DEF TypeOK
    <2>4. task'[t] = "test"
      BY <2>2 DEF TypeOK
    <2> QED BY <1>3, <2>1, <2>3, <2>4 DEF work_queue_start
  <1>4. CASE Started \/ work_queue_stop
    BY <1>4 DEF Started, work_queue_stop
  <1>5. ASSUME NEW t \in Tasks, WorkTask(t) PROVE OneWorkerInv'
    <2>u. \A from, to : Goto(t, from, to) =>
             task[t] = from /\ task'[t] = to /\ \A u \in Tasks : u # t => task'[u] = task[u]
      BY DEF Goto, TypeOK
    <2>1. CASE TestState(t)
      BY <2>1, <2>u DEF TestState
    <2>2. CASE RunNext(t)
      BY <2>2, <2>u DEF RunNext
    <2>3. CASE FunctionReturns(t)
      BY <2>3, <2>u DEF FunctionReturns
    <2>4. CASE Drained(t)
      BY <2>4, <2>u DEF Drained
    <2>5. CASE Wakes(t)
      BY <2>5, <2>u DEF Wakes
    <2>6. CASE Stops(t)
      BY <2>6, <2>u DEF Stops
    <2>7. CASE Deleted(t)
      BY <2>7, <2>u DEF Deleted
    <2> QED BY <1>5, <2>1, <2>2, <2>3, <2>4, <2>5, <2>6, <2>7 DEF WorkTask
  <1>6. CASE UNCHANGED vars
    BY <1>6 DEF vars
  <1> QED BY <1>1, <1>2, <1>3, <1>4, <1>5, <1>6 DEF Next, Api

\* The strengthened invariant holds in every state.
LEMMA OneWorkerHolds == Spec => []OneWorkerInv
  <1>1. Init => OneWorkerInv
    BY DEF Init, OneWorkerInv, OneWorker, Working
  <1> QED BY <1>1, OneWorkerStep, WorkQueueTyped, PTL DEF Spec

\* Work functions run one at a time: no sequence of start and stop leaves two
\* tasks that take functions from the queue.
THEOREM OneWorkerAlways == Spec => []OneWorker
  <1>1. OneWorkerInv => OneWorker
    BY DEF OneWorkerInv
  <1> QED BY <1>1, OneWorkerHolds, PTL

\* esp_rmaker_work_queue_deinit never deletes a queue that a task still uses.
THEOREM QueueOutlivesWorker == Spec => []WorkerHasQueue
  <1>1. OneWorkerInv => WorkerHasQueue
    BY DEF OneWorkerInv, WorkerHasQueue
  <1> QED BY <1>1, OneWorkerHolds, PTL

-----------------------------------------------------------------------------
(* Refinement. *)

\* What relates the queue to its history: the functions waiting in it are the
\* accepted ones that were not executed yet, and a queue that does not exist
\* has no history.
FifoInv ==
    /\ accepted = executed \o work_queue
    /\ queue_state = "DEINIT" => accepted = <<>>

\* A function that is added goes to the end of both sequences.
LEMMA AddFifo ==
    ASSUME TypeOK, FifoInv, NEW w \in Work, add_task(w)
    PROVE  /\ accepted' = executed \o work_queue'
           /\ accepted' = Append(accepted, w) \/ accepted' = accepted
  <1>1. CASE exists /\ Len(work_queue) < QUEUE_SIZE
    <2>1. work_queue' = Append(work_queue, w) /\ accepted' = Append(accepted, w)
      BY <1>1 DEF add_task
    <2>2. /\ executed \in Seq(Work) /\ work_queue \in Seq(Work) /\ accepted \in Seq(Work)
          /\ <<w>> \in Seq(Work)
      BY DEF TypeOK
    <2>3. /\ Append(accepted, w) = accepted \o <<w>>
          /\ Append(work_queue, w) = work_queue \o <<w>>
      BY <2>2, AppendIsConcat
    <2>4. (executed \o work_queue) \o <<w>> = executed \o (work_queue \o <<w>>)
      BY <2>2, ConcatAssociative
    <2> QED BY <2>1, <2>3, <2>4 DEF FifoInv
  <1>2. CASE ~(exists /\ Len(work_queue) < QUEUE_SIZE)
    BY <1>2 DEF add_task, FifoInv
  <1> QED BY <1>1, <1>2

\* The function that the task takes is the oldest that was not executed.
LEMMA RunFifo ==
    ASSUME TypeOK, FifoInv, NEW t \in Tasks, RunNext(t)
    PROVE  /\ accepted = executed' \o work_queue'
           /\ Len(executed) < Len(accepted)
           /\ executed' = Append(executed, accepted[Len(executed) + 1])
  <1> DEFINE w == Head(work_queue)
             r == Tail(work_queue)
  <1>1. /\ work_queue # <<>> /\ work_queue' = r
        /\ executed' = Append(executed, w)
    BY DEF RunNext
  <1>2. /\ work_queue \in Seq(Work) /\ executed \in Seq(Work)
        /\ accepted = executed \o work_queue
    BY DEF TypeOK, FifoInv
  <1>3. /\ w \in Work /\ r \in Seq(Work) /\ Len(r) = Len(work_queue) - 1
        /\ w = work_queue[1] /\ \A i \in 1..Len(r) : r[i] = work_queue[i + 1]
        /\ Len(work_queue) \in Nat \ {0} /\ Len(executed) \in Nat
    BY <1>1, <1>2
  <1> HIDE DEF w, r
  <1>4. Len(accepted) = Len(executed) + Len(work_queue)
    BY <1>2
  <1>5. accepted[Len(executed) + 1] = w
    BY <1>2, <1>3
  <1>6. executed \o work_queue = Append(executed, w) \o r
    <2>1. <<w>> \in Seq(Work) /\ Append(executed, w) = executed \o <<w>>
      BY <1>2, <1>3, AppendIsConcat
    <2>2. work_queue = <<w>> \o r
      <3>1. /\ <<w>> \o r \in Seq(Work) /\ Len(<<w>> \o r) = Len(work_queue)
            /\ \A i \in 1..Len(work_queue) :
                 (<<w>> \o r)[i] = IF i <= 1 THEN w ELSE r[i - 1]
        BY <1>3, <2>1, ConcatProperties
      <3>2. ASSUME NEW i \in 1..Len(work_queue) PROVE (<<w>> \o r)[i] = work_queue[i]
        <4>1. CASE i <= 1
          BY <1>3, <3>1, <4>1
        <4>2. CASE i > 1
          <5>1. i - 1 \in 1..Len(r)
            BY <1>3, <4>2
          <5> QED BY <1>3, <3>1, <4>2, <5>1
        <4> QED BY <1>3, <4>1, <4>2
      <3> QED BY <1>2, <3>1, <3>2, SeqEqual
    <2>3. (executed \o <<w>>) \o r = executed \o (<<w>> \o r)
      <3>1. executed \in Seq(Work) /\ <<w>> \in Seq(Work) /\ r \in Seq(Work)
        BY <1>2, <1>3, <2>1
      <3> QED BY <3>1, ConcatAssociative
    <2> QED BY <2>1, <2>2, <2>3
  <1> QED BY <1>1, <1>2, <1>3, <1>4, <1>5, <1>6

\* Every step of the queue keeps FifoInv and is a step of FifoExecutor or
\* changes neither history.
LEMMA FifoStep ==
    ASSUME TypeOK, OneWorkerInv, FifoInv, [Next]_vars
    PROVE  FifoInv' /\ [Fifo!Next]_<<accepted, executed>>
  <1> USE DEF history
  <1>1. CASE work_queue_init
    BY <1>1, EmptyTyped DEF work_queue_init, FifoInv, TypeOK
  <1>2. CASE AddAgent
    BY <1>2, AddFifo, WorkQueueAssumption
       DEF AddAgent, FifoInv, OneWorkerInv, Fifo!Next, Fifo!Accept
  <1>3. CASE work_queue_deinit
    BY <1>3 DEF work_queue_deinit, FifoInv, Fifo!Next, Fifo!GiveUp
  <1>4. CASE work_queue_start \/ Started \/ work_queue_stop
    BY <1>4 DEF work_queue_start, Started, work_queue_stop, FifoInv
  <1>5. CASE AddWork
    BY <1>5, AddFifo DEF AddWork, add_task, FifoInv, OneWorkerInv, Fifo!Next, Fifo!Accept
  <1>6. ASSUME NEW t \in Tasks, RunNext(t)
        PROVE  FifoInv' /\ [Fifo!Next]_<<accepted, executed>>
    BY <1>6, RunFifo DEF RunNext, FifoInv, Fifo!Next, Fifo!Execute
  <1>7. ASSUME NEW t \in Tasks, WorkTask(t), ~RunNext(t)
        PROVE  FifoInv' /\ [Fifo!Next]_<<accepted, executed>>
    BY <1>7 DEF WorkTask, TestState, FunctionReturns, Drained, Wakes, Stops, Deleted, FifoInv
  <1>8. CASE UNCHANGED vars
    BY <1>8 DEF vars, FifoInv
  <1> QED BY <1>1, <1>2, <1>3, <1>4, <1>5, <1>6, <1>7, <1>8 DEF Next, Api

\* The work queue executes what it accepted once each and in the order it was
\* accepted, for every size of the queue and every interleaving of its users.
THEOREM WorkQueueIsFifo == Spec => FifoSpec
  <1>1. Init => FifoInv /\ Fifo!Init
    BY DEF Init, FifoInv, Fifo!Init
  <1> QED BY <1>1, FifoStep, WorkQueueTyped, OneWorkerHolds, PTL
          DEF Spec, FifoSpec, Fifo!Spec

-----------------------------------------------------------------------------
(* The agent's task is the first function. *)

\* What makes AgentFirst inductive: the first function that a queue accepts is
\* the agent's, and until esp_rmaker_init has added it there is no other.
AgentFirstInv ==
    /\ accepted # <<>> => accepted[1] = Agent
    /\ control = "add_agent" => accepted = <<>>

\* Adding to an empty history makes the function the first, and adding to
\* another one leaves the first as it is.
LEMMA AddFirst ==
    ASSUME TypeOK, NEW w \in Work, add_task(w)
    PROVE  /\ accepted # <<>> => accepted' # <<>> /\ accepted'[1] = accepted[1]
           /\ accepted = <<>> => accepted' = <<>> \/ accepted'[1] = w
  <1>1. CASE exists /\ Len(work_queue) < QUEUE_SIZE
    <2>1. accepted' = Append(accepted, w) /\ accepted \in Seq(Work)
      BY <1>1 DEF add_task, TypeOK
    <2> QED BY <2>1
  <1>2. CASE ~(exists /\ Len(work_queue) < QUEUE_SIZE)
    BY <1>2 DEF add_task
  <1> QED BY <1>1, <1>2

\* Every action preserves it.
LEMMA AgentFirstStep ==
    ASSUME TypeOK, OneWorkerInv, FifoInv, AgentFirstInv, [Next]_vars
    PROVE  AgentFirstInv'
  <1> USE DEF history, AgentFirstInv
  <1>1. CASE work_queue_init
    BY <1>1 DEF work_queue_init, FifoInv
  <1>2. CASE AddAgent
    BY <1>2, AddFirst, WorkQueueAssumption DEF AddAgent
  <1>3. CASE work_queue_deinit
    BY <1>3 DEF work_queue_deinit
  <1>4. CASE work_queue_start \/ Started \/ work_queue_stop
    BY <1>4 DEF work_queue_start, Started, work_queue_stop
  <1>5. CASE AddWork
    BY <1>5, AddFirst DEF AddWork
  <1>6. ASSUME NEW t \in Tasks, WorkTask(t) PROVE AgentFirstInv'
    BY <1>6 DEF WorkTask, TestState, RunNext, FunctionReturns, Drained, Wakes, Stops, Deleted
  <1>7. CASE UNCHANGED vars
    BY <1>7 DEF vars
  <1> QED BY <1>1, <1>2, <1>3, <1>4, <1>5, <1>6, <1>7 DEF Next, Api

\* The agent's task is the first function that the work queue executes.
THEOREM AgentIsFirst == Spec => []AgentFirst
  <1>1. Init => AgentFirstInv /\ FifoInv
    BY DEF Init, AgentFirstInv, FifoInv
  <1>2. TypeOK /\ FifoInv /\ AgentFirstInv => AgentFirst
    <2> SUFFICES ASSUME TypeOK, FifoInv, AgentFirstInv, executed # <<>>
                 PROVE  executed[1] = Agent
      BY DEF AgentFirst
    <2>1. executed \in Seq(Work) /\ work_queue \in Seq(Work) /\ Len(executed) \in Nat \ {0}
      BY DEF TypeOK
    <2>2. accepted[1] = executed[1] /\ Len(accepted) > 0
      BY <2>1, ConcatProperties DEF FifoInv
    <2> QED BY <2>1, <2>2 DEF AgentFirstInv, TypeOK
  <1> QED BY <1>1, <1>2, AgentFirstStep, FifoStep, WorkQueueTyped, OneWorkerHolds, PTL DEF Spec

\* For every size of the queue and however it is started, stopped and filled: one task,
\* whose queue exists and keeps its bound, and which executes the agent's function first.
THEOREM WorkerInvariant == Spec => []WorkerInv
  <1>1. TypeOK /\ OneWorker /\ WorkerHasQueue /\ AgentFirst => WorkerInv
    BY DEF WorkerInv
  <1> QED BY <1>1, WorkQueueTyped, OneWorkerAlways, QueueOutlivesWorker, AgentIsFirst, PTL
=============================================================================
