----------------------------- MODULE WorkQueue -----------------------------
(***************************************************************************)
(* rmaker_common/src/work_queue.c: a bounded queue of functions and the    *)
(* task that executes them.  One thread controls it (esp_rmaker_init,      *)
(* esp_rmaker_start and the unused stop and deinit of its API); any thread *)
(* adds work, the agent's task first.                                      *)
(***************************************************************************)
EXTENDS Integers, Sequences, FiniteSets

CONSTANTS Work,         \* work functions; the agent's is one of them
          Agent,        \* esp_rmaker_task
          QUEUE_SIZE,   \* ESP_RMAKER_TASK_QUEUE_SIZE
          MaxAccepted   \* bound: functions accepted in the life of a queue

ASSUME WorkQueueAssumption ==
    /\ Agent \in Work
    /\ QUEUE_SIZE \in Nat \ {0} /\ MaxAccepted \in Nat

Tasks == 1..2   \* instances of esp_rmaker_work_queue_task

VARIABLES
    work_queue,         \* the queued functions, oldest first
    exists,             \* the handle work_queue is not NULL
    queue_state,
    control,            \* progress of the controlling thread
    task,               \* progress of each instance of the task
    accepted, executed  \* history of this queue

vars == <<work_queue, exists, queue_state, control, task, accepted, executed>>
history == <<accepted, executed>>

QueueStates == {"DEINIT", "INIT_DONE", "RUNNING", "STOP_REQUESTED"}
TaskSteps   == {"none", "test", "drain", "run", "sleep", "stop", "delete"}

TypeOK ==
    /\ work_queue \in Seq(Work) /\ Len(work_queue) <= QUEUE_SIZE
    /\ exists \in BOOLEAN
    /\ queue_state \in QueueStates
    /\ control \in {"idle", "add_agent", "created"}
    /\ task \in [Tasks -> TaskSteps]
    /\ accepted \in Seq(Work) /\ executed \in Seq(Work)

Init ==
    /\ work_queue = <<>> /\ exists = FALSE
    /\ queue_state = "DEINIT"
    /\ control = "idle"
    /\ task = [t \in Tasks |-> "none"]
    /\ accepted = <<>> /\ executed = <<>>

-----------------------------------------------------------------------------
(* The API. *)

\* esp_rmaker_work_queue_add_task never waits: with no queue, or a full one, it
\* fails, and few of its callers look.
add_task(w) ==
    IF exists /\ Len(work_queue) < QUEUE_SIZE
    THEN work_queue' = Append(work_queue, w) /\ accepted' = Append(accepted, w)
    ELSE UNCHANGED <<work_queue, accepted>>

\* esp_rmaker_init, which goes on to add the agent's task.
work_queue_init ==
    /\ control = "idle" /\ queue_state = "DEINIT"
    /\ work_queue' = <<>> /\ exists' = TRUE /\ queue_state' = "INIT_DONE"
    /\ control' = "add_agent"
    /\ UNCHANGED <<task, history>>

AddAgent ==
    /\ control = "add_agent" /\ control' = "idle"
    /\ add_task(Agent)
    /\ UNCHANGED <<exists, queue_state, task, executed>>

\* Other parts only add work once the node has been initialised.
AddWork ==
    /\ accepted # <<>> /\ Len(accepted) < MaxAccepted
    /\ \E w \in Work \ {Agent} : add_task(w)
    /\ UNCHANGED <<exists, queue_state, control, task, executed>>

work_queue_deinit ==
    /\ control = "idle" /\ queue_state = "INIT_DONE"
    /\ work_queue' = <<>> /\ exists' = FALSE /\ queue_state' = "DEINIT"
    /\ accepted' = <<>> /\ executed' = <<>>
    /\ UNCHANGED <<control, task>>

\* Mutant: a queue whose task is being stopped may be started again.
start_early ==
    /\ control = "idle" /\ queue_state \in {"INIT_DONE", "STOP_REQUESTED"}
    /\ \E t \in Tasks : task[t] = "none" /\ task' = [task EXCEPT ![t] = "test"]
    /\ control' = "created"
    /\ UNCHANGED <<work_queue, exists, queue_state, history>>

\* The new task may run before its creator has recorded that it is running.
work_queue_start ==
    /\ control = "idle" /\ queue_state = "INIT_DONE"
    /\ \E t \in Tasks : task[t] = "none" /\ task' = [task EXCEPT ![t] = "test"]
    /\ control' = "created"
    /\ UNCHANGED <<work_queue, exists, queue_state, history>>

Started ==
    /\ control = "created" /\ control' = "idle"
    /\ queue_state' = "RUNNING"
    /\ UNCHANGED <<work_queue, exists, task, history>>

work_queue_stop ==
    /\ control = "idle" /\ queue_state = "RUNNING"
    /\ queue_state' = "STOP_REQUESTED"
    /\ UNCHANGED <<work_queue, exists, control, task, history>>

-----------------------------------------------------------------------------
(* esp_rmaker_work_queue_task. *)

Goto(t, from, to) == task[t] = from /\ task' = [task EXCEPT ![t] = to]

TestState(t) ==
    /\ Goto(t, "test", IF queue_state # "STOP_REQUESTED" THEN "drain" ELSE "stop")
    /\ UNCHANGED <<work_queue, exists, queue_state, control, history>>

\* Mutant: the function is called but stays in the queue.
PeekNext(t) ==
    /\ work_queue # <<>> /\ Len(executed) < MaxAccepted /\ Goto(t, "drain", "run")
    /\ executed' = Append(executed, Head(work_queue))
    /\ UNCHANGED <<work_queue, exists, queue_state, control, accepted>>

\* esp_rmaker_handle_work_queue takes the oldest function and calls it ...
RunNext(t) ==
    /\ work_queue # <<>> /\ Goto(t, "drain", "run")
    /\ work_queue' = Tail(work_queue)
    /\ executed' = Append(executed, Head(work_queue))
    /\ UNCHANGED <<exists, queue_state, control, accepted>>

FunctionReturns(t) ==
    /\ Goto(t, "run", "drain")
    /\ UNCHANGED <<work_queue, exists, queue_state, control, history>>

\* Mutant: the task ends when it has found the queue empty.
DrainedEnds(t) ==
    /\ work_queue = <<>> /\ Goto(t, "drain", "delete")
    /\ UNCHANGED <<work_queue, exists, queue_state, control, history>>

\* ... until there is none left; then the task sleeps for two seconds.
Drained(t) ==
    /\ work_queue = <<>> /\ Goto(t, "drain", "sleep")
    /\ UNCHANGED <<work_queue, exists, queue_state, control, history>>

Wakes(t) ==
    /\ Goto(t, "sleep", "test")
    /\ UNCHANGED <<work_queue, exists, queue_state, control, history>>

Stops(t) ==
    /\ Goto(t, "stop", "delete")
    /\ queue_state' = "INIT_DONE"
    /\ UNCHANGED <<work_queue, exists, control, history>>

Deleted(t) ==
    /\ Goto(t, "delete", "none")
    /\ UNCHANGED <<work_queue, exists, queue_state, control, history>>

-----------------------------------------------------------------------------
Api == work_queue_init \/ AddAgent \/ work_queue_deinit \/ work_queue_start \/ Started
       \/ work_queue_stop

WorkTask(t) == TestState(t) \/ RunNext(t) \/ FunctionReturns(t) \/ Drained(t) \/ Wakes(t)
               \/ Stops(t) \/ Deleted(t)

Next == Api \/ AddWork \/ \E t \in Tasks : WorkTask(t)

Spec == Init /\ [][Next]_vars

\* The tasks run, a call of the API returns, and so does every work function.
FairSpec ==
    /\ Spec
    /\ WF_vars(AddAgent) /\ WF_vars(Started)
    /\ \A t \in Tasks : WF_vars(WorkTask(t))

-----------------------------------------------------------------------------
(* Properties. *)

Fifo == INSTANCE FifoExecutor

\* What was accepted is executed once, in order, whatever is stopped, restarted
\* or added meanwhile.
FifoSpec == Fifo!Spec

\* Never two tasks that execute functions: those rely on running one at a time.
Working(t) == task[t] \notin {"none", "delete"}
OneWorker == \A t, u \in Tasks : Working(t) /\ Working(u) => t = u

\* The queue is not deleted under a task that still uses it.
WorkerHasQueue == \A t \in Tasks : Working(t) => exists

\* "so that it is will be the first function to be executed when the Work Queue
\* task begins" (esp_rmaker_core.c:461).
AgentFirst == executed # <<>> => executed[1] = Agent

\* A queue that keeps running executes everything that it accepted.
Drains == <>[](queue_state = "RUNNING") => <>[](executed = accepted)

\* The queue's task: however it is started and stopped there is one at most, its queue
\* exists and holds no more than its slots, and the agent's function comes first.
WorkerInv == TypeOK /\ OneWorker /\ WorkerHasQueue /\ AgentFirst
=============================================================================
