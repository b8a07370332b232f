--------------------------- MODULE FirestoreExecutor ---------------------------
(***************************************************************************)
(* The worker queue of the Firestore client in Flash Chat: AsyncQueue over *)
(* ExecutorLibdispatch over Task, and how FirestoreClient disposes of it.  *)
(*                                                                         *)
(* A Task is counted: the executor owns it while it is in tasks_, the      *)
(* system's dispatch queue while it has a block for it, and a call that    *)
(* took it out of tasks_ until it releases it.  The task's operation runs  *)
(* without the task's mutex, so that it can cancel the task it is part of; *)
(* whoever else cancels it waits for its end.  Each action is one critical *)
(* section, or what a thread does between two of them.                     *)
(*                                                                         *)
(* The threads are the one that runs the serial dispatch queue (Worker),   *)
(* those that enqueue (Api) and those that dispose (Disposer).             *)
(***************************************************************************)
EXTENDS Naturals, Sequences, FiniteSets

CONSTANTS
    Worker, Api, Disposer,
    ViaClient,      \* FirestoreClient::Dispose, or AsyncQueue::Dispose alone?
    OwnedByTask,    \* may an operation hold the last owner of the queue?
    MaxTasks        \* how many tasks there are in all: a bound

ASSUME ThreadAssumption == Api \cap Disposer = {} /\ Worker \notin Api \cup Disposer
ASSUME ModeAssumption == ViaClient \in BOOLEAN /\ OwnedByTask \in BOOLEAN
ASSUME BoundAssumption == MaxTasks \in Nat /\ IsFiniteSet(Disposer)

VARIABLES
    task,           \* the Tasks
    queue,          \* AsyncQueue and ExecutorLibdispatch
    blocks,         \* what the dispatch queue still has to invoke
    run,            \* the task Worker executes and how far it is
    call,           \* what each thread is in
    signalled,      \* the TerminateInternal tasks that have started
    cancelled       \* the timers whose Cancel has returned before they ran

vars == <<task, queue, blocks, run, call, signalled, cancelled>>

Task == 1..MaxTasks
NoTask == 0
Nobody == "nobody"
Thread == Api \cup Disposer \cup {Worker}

(* No thread has the name of one of a task's other owners.                 *)
ASSUME NameAssumption == Thread \cap {Nobody, "executor", "libdispatch"} = {}

State == {"none", "initial", "running", "done", "cancelled", "deleted"}
Mode == {"running", "restricted", "disposed"}

(* Where in a call a thread is.                                            *)
Place == {"idle", "dispatch", "terminate", "signal", "dispose", "swap",
          "next", "cancel", "await", "release", "returned"}

Idle == [at |-> "idle", task |-> NoTask, rest |-> {}, then |-> "idle"]

Init ==
    /\ task = [t \in Task |-> [state |-> "none", refs |-> 0, executor |-> TRUE,
                               timer |-> FALSE, final |-> FALSE, mutex |-> Nobody]]
    /\ queue = [mode |-> "running", mutex |-> Nobody, disposed |-> FALSE,
                tasks |-> {}, schedule |-> {}, alive |-> TRUE]
    /\ blocks = [now |-> <<>>, later |-> {}]
    /\ run = [task |-> NoTask, at |-> "idle"]
    /\ call = [x \in Thread |-> Idle]
    /\ signalled = {}
    /\ cancelled = {}

-----------------------------------------------------------------------------
(* Task.                                                                   *)

Retain(tasks, t) == [tasks EXCEPT ![t].refs = @ + 1]

Release(tasks, t) ==
    [tasks EXCEPT ![t].refs = @ - 1,
                  ![t].state = IF tasks[t].refs = 1 THEN "deleted" ELSE @]

(* Fault: a task that cancels itself waits for its own end.                *)
Fault_AwaitsItself(x, t) == task[t].state = "running"

(* Cancel has to wait: the task runs, and not on the thread that cancels.  *)
MustAwait(x, t) == task[t].state = "running" /\ x # Worker

(* Fault: a cancelled task is not marked so.                               *)
Fault_NotMarked(t) == task

Cancelled(t) ==
    CASE task[t].state = "initial" ->
            [task EXCEPT ![t].state = "cancelled", ![t].executor = FALSE]
      [] task[t].state = "running" -> [task EXCEPT ![t].executor = FALSE]
      [] OTHER -> task

(* Task::Cancel, entered with the ownership of the task.                   *)
Cancel(x) ==
    LET t == call[x].task
    IN  /\ call[x].at = "cancel"
        /\ task[t].mutex = Nobody
        /\ task' = Cancelled(t)
        /\ call' = [call EXCEPT ![x].at = IF MustAwait(x, t) THEN "await" ELSE "release"]
        /\ UNCHANGED <<queue, blocks, run, signalled, cancelled>>

(* AwaitLocked: is_complete_ was notified and the mutex is free again.     *)
Await(x) ==
    LET t == call[x].task
    IN  /\ call[x].at = "await"
        /\ task[t].mutex = Nobody
        /\ task[t].state \in {"cancelled", "done"}
        /\ call' = [call EXCEPT ![x].at = "release"]
        /\ UNCHANGED <<task, queue, blocks, run, signalled, cancelled>>

Released(tasks, x) == Release(tasks, call[x].task)

(* Release, after Cancel.  A timer that has not run is off from then on.   *)
GiveUp(x) ==
    LET t == call[x].task
    IN  /\ call[x].at = "release"
        /\ task' = Released(task, x)
        /\ call' = [call EXCEPT ![x] = IF @.then = "next"
                                       THEN [@ EXCEPT !.at = "next", !.task = NoTask]
                                       ELSE Idle]
        /\ cancelled' = IF call[x].then = "off" /\ t # run.task
                        THEN cancelled \cup {t} ELSE cancelled
        /\ UNCHANGED <<queue, blocks, run, signalled>>

-----------------------------------------------------------------------------
(* AsyncQueue and ExecutorLibdispatch: new tasks.                          *)

Unused == {t \in Task : task[t].state = "none"}
NewTask == CHOOSE t \in Unused : TRUE

(* The bound leaves room for the tasks of FirestoreClient::Dispose.        *)
Reserved == IF ViaClient THEN Cardinality(Disposer) ELSE 0

Inserted(x, t, timer) ==
    [queue EXCEPT !.mutex = x,
                  !.tasks = @ \cup {t},
                  !.schedule = IF timer THEN @ \cup {t} ELSE @]

(* EnqueueRelaxed, EnqueueEvenWhileRestricted and EnqueueAfterDelay, as    *)
(* far as the end of the executor's critical section.                      *)
Insert(x, modes, timer, final) ==
    /\ queue.alive
    /\ queue.mutex = Nobody
    /\ queue.mode \in modes
    /\ IF final THEN Unused # {} ELSE Cardinality(Unused) > Reserved
    /\ task' = [task EXCEPT ![NewTask] = [@ EXCEPT !.state = "initial", !.refs = 1,
                                                 !.timer = timer, !.final = final]]
    /\ queue' = Inserted(x, NewTask, timer)
    /\ call' = [call EXCEPT ![x] = [Idle EXCEPT !.at = "dispatch", !.task = NewTask]]
    /\ UNCHANGED <<blocks, run, signalled, cancelled>>

(* The rest of Execute and Schedule: libdispatch's ownership and its block.*)
Dispatch(x) ==
    LET t == call[x].task
    IN  /\ call[x].at = "dispatch"
        /\ task' = Retain(task, t)
        /\ blocks' = IF task[t].timer THEN [blocks EXCEPT !.later = @ \cup {t}]
                                      ELSE [blocks EXCEPT !.now = Append(@, t)]
        /\ queue' = [queue EXCEPT !.mutex = IF @ = x THEN Nobody ELSE @]
        /\ call' = [call EXCEPT ![x] =
                       IF task[t].final THEN [@ EXCEPT !.at = "signal"] ELSE Idle]
        /\ UNCHANGED <<run, signalled, cancelled>>

(* Worker has dropped the last owner: nobody else can call the queue.      *)
Dropped == run.at = "cleared" /\ call[Worker].at # "idle"

Enqueue(u) ==
    /\ call[u].at = "idle"
    /\ ~Dropped
    /\ Insert(u, {"running"}, FALSE, FALSE)

-----------------------------------------------------------------------------
(* Disposing.                                                              *)

(* FirestoreClient::Dispose enters the restricted mode; AsyncQueue's is    *)
(* called at once otherwise.                                               *)
BeginDispose(d) ==
    /\ call[d].at = "idle"
    /\ queue.alive /\ ~Dropped
    /\ queue.mutex = Nobody
    /\ IF ViaClient
       THEN /\ queue' = [queue EXCEPT !.mode = IF @ = "disposed" THEN @ ELSE "restricted"]
            /\ call' = [call EXCEPT ![d].at = "terminate"]
       ELSE /\ call' = [call EXCEPT ![d].at = "dispose"]
            /\ UNCHANGED queue
    /\ UNCHANGED <<task, blocks, run, signalled, cancelled>>

EnqueueTerminate(d) ==
    /\ call[d].at = "terminate"
    /\ Insert(d, {"running", "restricted"}, FALSE, TRUE)

(* It is not enqueued if the queue has been disposed of by another call.   *)
TerminateNotEnqueued(d) ==
    /\ call[d].at = "terminate"
    /\ queue.mutex = Nobody
    /\ queue.mode = "disposed"
    /\ call' = [call EXCEPT ![d].at = "dispose"]
    /\ UNCHANGED <<task, queue, blocks, run, signalled, cancelled>>

(* Fault: the start of the task is not waited for.                         *)
Fault_NoSignal(d) == TRUE

HasStarted(d) == call[d].task \in signalled

SignalReceived(d) ==
    /\ call[d].at = "signal"
    /\ HasStarted(d)
    /\ call' = [call EXCEPT ![d].at = "dispose", ![d].task = NoTask]
    /\ UNCHANGED <<task, queue, blocks, run, signalled, cancelled>>

(* AsyncQueue::Dispose ...                                                 *)
SetDisposed(x) ==
    /\ call[x].at = "dispose"
    /\ queue.mutex = Nobody
    /\ queue' = [queue EXCEPT !.mode = "disposed"]
    /\ call' = [call EXCEPT ![x].at = "swap"]
    /\ UNCHANGED <<task, blocks, run, signalled, cancelled>>

(* ... and ExecutorLibdispatch::Dispose, which takes all tasks ...         *)
SwapTasks(x) ==
    /\ call[x].at = "swap"
    /\ queue' = [queue EXCEPT !.disposed = TRUE, !.tasks = {}, !.schedule = {}]
    /\ call' = [call EXCEPT ![x].at = "next", ![x].rest = queue.tasks]
    /\ UNCHANGED <<task, blocks, run, signalled, cancelled>>

(* ... and cancels and releases one after the other.                       *)
CancelNext(x) ==
    /\ call[x].at = "next"
    /\ \E t \in call[x].rest :
          call' = [call EXCEPT ![x] =
                      [at |-> "cancel", task |-> t, rest |-> @.rest \ {t}, then |-> "next"]]
    /\ UNCHANGED <<task, queue, blocks, run, signalled, cancelled>>

DisposeReturns(x) ==
    /\ call[x].at = "next"
    /\ call[x].rest = {}
    /\ call' = [call EXCEPT ![x] = [Idle EXCEPT !.at = "returned"]]
    /\ UNCHANGED <<task, queue, blocks, run, signalled, cancelled>>

(* The last owner is gone: a thread that is in a call still owns the queue,*)
(* Worker does not.                                                        *)
Delete(x) ==
    /\ call[x].at = "returned"
    /\ queue.alive
    /\ \A y \in (Api \cup Disposer) \ {x} : call[y].at \in {"idle", "returned"}
    /\ queue' = [queue EXCEPT !.alive = FALSE]
    /\ UNCHANGED <<task, blocks, run, call, signalled, cancelled>>

-----------------------------------------------------------------------------
(* Worker: Task::ExecuteAndRelease.                                        *)

Pending == IF blocks.now = <<>> THEN blocks.later ELSE blocks.later \cup {Head(blocks.now)}

(* The task is run unless it was cancelled; then it is only released.      *)
Take(t) ==
    /\ run.at = "idle"
    /\ t \in Pending
    /\ task[t].mutex = Nobody
    /\ blocks' = IF t \in blocks.later THEN [blocks EXCEPT !.later = @ \ {t}]
                                       ELSE [blocks EXCEPT !.now = Tail(@)]
    /\ IF task[t].state = "initial"
       THEN /\ task' = [task EXCEPT ![t].state = "running"]
            /\ run' = [task |-> t, at |-> "operation"]
       ELSE /\ run' = [task |-> t, at |-> "last"]
            /\ UNCHANGED task
    /\ UNCHANGED <<queue, call, signalled, cancelled>>

InOperation == run.at = "operation" /\ call[Worker].at = "idle"

(* The operation of FirestoreClient::Dispose signals before all else.      *)
Signal ==
    /\ InOperation
    /\ task[run.task].final
    /\ signalled' = signalled \cup {run.task}
    /\ UNCHANGED <<task, queue, blocks, run, call, cancelled>>

Operating == InOperation /\ (task[run.task].final => run.task \in signalled)

(* What operations do with the queue: enqueue, start a timer, ...          *)
WorkerEnqueues ==
    /\ Operating
    /\ \E timer \in BOOLEAN : Insert(Worker, {"running"}, timer, FALSE)

(* ... ask if a timer is scheduled (IsIdScheduled; the task they ask of is *)
(* not started, or their own, and is not waited for), ...                  *)
WorkerAsks ==
    /\ Operating
    /\ \E t \in queue.schedule :
          /\ task' = Retain(task, t)
          /\ call' = [call EXCEPT ![Worker] = [Idle EXCEPT !.at = "release", !.task = t]]
    /\ UNCHANGED <<queue, blocks, run, signalled, cancelled>>

Taken(t) == [queue EXCEPT !.tasks = @ \ {t}, !.schedule = @ \ {t}]

(* ... or cancel one, maybe their own: ExecutorLibdispatch::Cancel.        *)
WorkerCancels ==
    /\ Operating
    /\ \E t \in queue.schedule :
          /\ queue' = Taken(t)
          /\ call' = [call EXCEPT ![Worker] =
                         [Idle EXCEPT !.at = "cancel", !.task = t, !.then = "off"]]
    /\ UNCHANGED <<task, blocks, run, signalled, cancelled>>

(* TerminateInternal comes to all of them.                                 *)
TerminateCancels == run.at = "operation" /\ task[run.task].final /\ WorkerCancels

(* TerminateInternal cancels lru_callback_ and shuts the RemoteStore down, *)
(* which cancels all other timers.                                         *)
Terminated == queue.schedule = {}

(* The operation returns to ExecuteBlocking, which resets a flag of the    *)
(* queue, and is cleared.                                                  *)
OperationEnds ==
    /\ Operating
    /\ task[run.task].final => Terminated
    /\ run' = [run EXCEPT !.at = "cleared"]
    /\ UNCHANGED <<task, queue, blocks, call, signalled, cancelled>>

(* It may have held the last owner of the queue: the queue's destructor.   *)
DropsQueue ==
    /\ OwnedByTask
    /\ run.at = "cleared"
    /\ queue.alive
    /\ \A x \in Thread : call[x].at = "idle"
    /\ call' = [call EXCEPT ![Worker].at = "dispose"]
    /\ UNCHANGED <<task, queue, blocks, run, signalled, cancelled>>

(* The mutex again: the executor is told, if it has not cancelled the task.*)
Complete ==
    LET t == run.task
    IN  /\ run.at = "cleared"
        /\ call[Worker].at = "idle" \/ (call[Worker].at = "returned" /\ ~queue.alive)
        /\ task[t].mutex = Nobody
        /\ task' = [task EXCEPT ![t].state = "done",
                                ![t].mutex = IF task[t].executor THEN Worker ELSE Nobody]
        /\ run' = [run EXCEPT !.at = IF task[t].executor THEN "completing" ELSE "last"]
        /\ UNCHANGED <<queue, blocks, call, signalled, cancelled>>

(* ExecutorLibdispatch::OnCompletion, under the task's mutex.              *)
OnCompletion ==
    LET t == run.task
        tasks == IF t \in queue.tasks THEN Release(task, t) ELSE task
    IN  /\ run.at = "completing"
        /\ queue' = IF t \in queue.tasks THEN Taken(t) ELSE queue
        /\ task' = [tasks EXCEPT ![t].mutex = Nobody]
        /\ run' = [run EXCEPT !.at = "last"]
        /\ UNCHANGED <<blocks, call, signalled, cancelled>>

LastRelease ==
    /\ run.at = "last"
    /\ task' = Release(task, run.task)
    /\ run' = [task |-> NoTask, at |-> "idle"]
    /\ UNCHANGED <<queue, blocks, call, signalled, cancelled>>

-----------------------------------------------------------------------------
(* What a thread that is in a call goes on with.                           *)
Proceed(x) ==
    \/ Dispatch(x) \/ Cancel(x) \/ Await(x) \/ GiveUp(x)
    \/ SetDisposed(x) \/ SwapTasks(x) \/ CancelNext(x) \/ DisposeReturns(x)

Execute ==
    \/ \E t \in Task : Take(t)
    \/ Signal \/ OperationEnds \/ Complete \/ OnCompletion \/ LastRelease

DisposeStep(d) ==
    EnqueueTerminate(d) \/ TerminateNotEnqueued(d) \/ SignalReceived(d)

Next ==
    \/ \E u \in Api : Enqueue(u)
    \/ \E d \in Disposer : BeginDispose(d) \/ DisposeStep(d)
    \/ \E x \in Disposer \cup {Worker} : Delete(x)
    \/ \E x \in Thread : Proceed(x)
    \/ Execute
    \/ WorkerEnqueues \/ WorkerAsks \/ WorkerCancels \/ DropsQueue

(* Threads are scheduled, the dispatch queue invokes its blocks, timers    *)
(* elapse and operations come to an end, whatever they call before; nobody *)
(* has to call anything.                                                   *)
Fairness ==
    /\ WF_vars(Execute)
    /\ SF_vars(TerminateCancels) /\ SF_vars(OperationEnds)
    /\ \A x \in Thread : WF_vars(Proceed(x))
    /\ \A d \in Disposer : WF_vars(DisposeStep(d))
    /\ WF_vars(Delete(Worker))

Spec == Init /\ [][Next]_vars /\ Fairness

-----------------------------------------------------------------------------
(* What is to hold.                                                        *)

TypeOK ==
    /\ \A t \in Task :
          /\ task[t].state \in State
          /\ task[t].refs \in Nat
          /\ task[t].mutex \in Thread \cup {Nobody}
    /\ queue.mode \in Mode
    /\ queue.mutex \in Thread \cup {Nobody}
    /\ queue.schedule \subseteq queue.tasks /\ queue.tasks \subseteq Task
    /\ \A x \in Thread : call[x].at \in Place /\ call[x].rest \subseteq Task

(* Who owns a task: the executor, the block or the run of the dispatch     *)
(* queue, and the calls that took it out of the executor or retained it.   *)
InBlocks(t) == t \in blocks.later \/ \E i \in DOMAIN blocks.now : blocks.now[i] = t

Owners(t) ==
    {"executor" : e \in {u \in queue.tasks : u = t}}
    \cup {"libdispatch" : b \in {u \in Task : u = t /\ (InBlocks(t) \/ run.task = t)}}
    \cup {x \in Thread :
            \/ t \in call[x].rest
            \/ call[x].task = t /\ call[x].at \in {"cancel", "await", "release"}}

(* The count of a task is the number of its owners, and a task is deleted  *)
(* when the last one lets go of it, not before: neither a leak nor a use   *)
(* after it.                                                               *)
RefsAreOwners ==
    \A t \in Task : task[t].state # "none" =>
        /\ task[t].refs = Cardinality(Owners(t))
        /\ task[t].state = "deleted" <=> Owners(t) = {}

(* A thread that is about to dispatch a task it has just handed to the     *)
(* executor, and does not own any more, still finds it there.              *)
DispatchedAreLive ==
    \A x \in Thread : call[x].at = "dispatch" => task[call[x].task].state # "deleted"

(* A timer that was cancelled before it ran never runs: "they're           *)
(* guaranteed not to execute".                                             *)
CancelledNeverRuns == \A t \in cancelled : task[t].state \in {"cancelled", "deleted"}

(* Tasks, their owners and the schedule agree at every step of every       *)
(* thread.                                                                 *)
Inv == TypeOK /\ RefsAreOwners /\ DispatchedAreLive /\ CancelledNeverRuns

(* Nothing of the queue is used after its deletion, not by a task either   *)
(* that runs at that time, nor by the one whose operation deleted it.      *)
QueueOutlivesUse ==
    ~queue.alive =>
        /\ run.at \notin {"operation", "completing"}
        /\ \A x \in Thread : call[x].at \in {"idle", "returned"}

(* "... canceling pending tasks, and waiting for any tasks that are        *)
(* currently running": when Dispose has returned, and nobody else is still *)
(* in it, no operation runs.                                               *)
DisposeWaits ==
    (/\ \E d \in Disposer : call[d].at = "returned"
     /\ \A d \in Disposer : call[d].at \in {"idle", "returned"})
        => run.at # "operation"

(* When the queue is gone nothing uses it, and when it has been disposed   *)
(* of nothing runs.                                                        *)
NothingAfterDispose == QueueOutlivesUse /\ DisposeWaits

(* Disposal comes to its end: of the threads that call Dispose at least    *)
(* one gets back, whatever task it waits for.                              *)
DisposeEnds ==
    (\E d \in Disposer : call[d].at # "idle")
        ~> (\E d \in Disposer : call[d].at = "returned")

(* "If the task was not enqueued, we lost the race with some other         *)
(* concurrent invocation of Dispose": every call gets back, also of two    *)
(* threads at once.                                                        *)
EveryDisposeReturns ==
    \A d \in Disposer : (call[d].at # "idle") ~> (call[d].at = "returned")

=============================================================================
