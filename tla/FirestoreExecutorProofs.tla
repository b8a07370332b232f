------------------------ MODULE FirestoreExecutorProofs ------------------------
(***************************************************************************)
(* Theorems about the worker queue of the Firestore client.                *)
(*                                                                         *)
(* Inv, that a task's count is the number of its owners and that it is     *)
(* deleted with the last of them, is not inductive: whether a step counts  *)
(* right depends on where every thread is in its call, and on which states *)
(* a task can have while the executor, a block or a call refers to it.     *)
(* IInv adds these, in layers that are proved one after the other in each  *)
(* step:                                                                   *)
(*   Calls    what a thread holds at each place of a call, and that the    *)
(*            queue's mutex is held exactly by the one that dispatches;    *)
(*   Tasks    a task's state agrees with the queue, the run and the blocks *)
(*            (a block is never there twice, nor while its task runs);     *)
(*   Count    the count, and that the owners are finitely many;            *)
(*   Off      a timer that is being cancelled is already off when its      *)
(*            cancellation is recorded;                                    *)
(*   Live     a task the executor may still be told about is in tasks_ or  *)
(*            with the one that is going to cancel it;                     *)
(*   Past     what is true from the executor's disposal on;                *)
(*   Ending   FirestoreClient::Dispose alone: once its last task has       *)
(*            started no timer is left, so that the task that runs is one  *)
(*            a call of Dispose waits for.                                 *)
(***************************************************************************)
EXTENDS FirestoreExecutor, FiniteSetTheorems, SequenceTheorems, TLAPS

(* The types of the variables.                                             *)
TaskRecord ==
    [state : State, refs : Nat, executor : BOOLEAN, timer : BOOLEAN, final : BOOLEAN,
     mutex : {Nobody, Worker}]
QueueRecord ==
    [mode : Mode, mutex : Thread \cup {Nobody}, disposed : BOOLEAN,
     tasks : SUBSET Task, schedule : SUBSET Task, alive : BOOLEAN]
BlocksRecord == [now : Seq(Task), later : SUBSET Task]
RunRecord ==
    [task : Task \cup {NoTask}, at : {"idle", "operation", "cleared", "completing", "last"}]
CallRecord ==
    [at : Place, task : Task \cup {NoTask}, rest : SUBSET Task, then : {"idle", "next", "off"}]

Types ==
    /\ task \in [Task -> TaskRecord]
    /\ queue \in QueueRecord /\ queue.schedule \subseteq queue.tasks
    /\ blocks \in BlocksRecord
    /\ run \in RunRecord /\ (run.at = "idle" <=> run.task = NoTask)
    /\ call \in [Thread -> CallRecord]
    /\ signalled \subseteq Task /\ cancelled \subseteq Task

(* What a thread that holds a task does with it.                           *)
InCall == {"cancel", "await", "release"}

(* A thread holds tasks only while it disposes or cancels, and is in the   *)
(* places of its own kind.                                                 *)
CallFits(x) ==
    /\ call[x].rest # {} => call[x].at \in {"next"} \cup InCall
    /\ call[x].at \in InCall =>
          /\ call[x].task \in Task /\ call[x].task \notin call[x].rest
          /\ call[x].then # "next" => call[x].rest = {} /\ x = Worker
    /\ call[x].at = "await" => x # Worker
    /\ call[x].at \in {"terminate", "signal"} => x \in Disposer
    /\ call[x].at = "swap" => queue.mode = "disposed"

(* The task a thread is about to dispatch is in tasks_ and has no block.   *)
DispatchFits(x) ==
    LET t == call[x].task
    IN  /\ t \in queue.tasks /\ ~InBlocks(t) /\ run.task # t
        /\ task[t].state = "initial"
        /\ task[t].timer = TRUE => x = Worker
        /\ task[t].final = TRUE => x \in Disposer

(* Worker calls the queue from the operation it runs, or from the queue's  *)
(* destructor when that operation is cleared.                              *)
WorkerFits ==
    LET at == call[Worker].at
    IN  /\ at \notin {"idle", "returned"} => run.at \in {"operation", "cleared"}
        /\ at = "dispatch" => run.at = "operation"
        /\ at \in {"dispose", "swap", "next"} => run.at = "cleared"
        /\ at \in InCall => (run.at = "cleared" <=> call[Worker].then = "next")

(* Places and the queue's mutex.                                           *)
Calls ==
    /\ \A x \in Thread : CallFits(x)
    /\ \A x \in Thread : call[x].at = "dispatch" => queue.mutex = x /\ DispatchFits(x)
    /\ queue.mutex # Nobody => call[queue.mutex].at = "dispatch"
    /\ queue.mode = "disposed" => queue.mutex = Nobody
    /\ \A u \in Api : call[u].at \in {"idle", "dispatch"}
    /\ WorkerFits

(* Worker runs t, without t's mutex.                                       *)
InRun(t) == run.task = t /\ run.at \in {"operation", "cleared"}

(* x has taken t out of tasks_ and is going to cancel it, or waits too.    *)
Takes(x, t) == t \in call[x].rest \/ (call[x].task = t /\ call[x].at = "cancel")
HasTaken(x, t) == t \in call[x].rest \/ (call[x].task = t /\ call[x].at \in {"cancel", "await"})

(* What t's state says of the queue, the run and the calls.                *)
TaskFits(t) ==
    /\ t \in queue.tasks =>
          /\ task[t].executor = TRUE
          /\ task[t].state = "initial" \/ InRun(t) \/ (run.task = t /\ run.at = "completing")
    /\ t \in queue.schedule => task[t].timer = TRUE
    /\ task[t].state = "none" =>
          Owners(t) = {} /\ task[t].executor = TRUE /\ task[t].timer = FALSE /\ task[t].final = FALSE
    /\ task[t].state = "initial" => task[t].executor = TRUE
    /\ task[t].state = "running" <=> InRun(t)
    /\ run.task = t /\ run.at = "completing" => task[t].state = "done"
    /\ task[t].final = TRUE => task[t].timer = FALSE
    /\ \A x \in Thread : HasTaken(x, t) => t \notin queue.tasks

(* Timers are delayed blocks, others are not; a task has at most one block, *)
(* and none when it is run.                                                *)
BlocksFit ==
    /\ \A t \in blocks.later : task[t].timer = TRUE
    /\ \A i \in DOMAIN blocks.now : task[blocks.now[i]].timer = FALSE
    /\ \A i, j \in DOMAIN blocks.now : blocks.now[i] = blocks.now[j] => i = j
    /\ ~InBlocks(run.task)

Tasks == BlocksFit /\ \A t \in Task : TaskFits(t)

(* The count of a task k, given its owners.                                *)
Counted(k, owners) ==
    k.state # "none" =>
        /\ IsFiniteSet(owners)
        /\ k.refs = Cardinality(owners)
        /\ k.state = "deleted" <=> owners = {}

Count == \A t \in Task : Counted(task[t], Owners(t))

(* t is marked as cancelled, or is the task that runs.                     *)
TurnedOff(t) == task[t].state = "cancelled" \/ t = run.task

Off ==
    /\ CancelledNeverRuns
    /\ call[Worker].then = "off" =>
          /\ call[Worker].at = "cancel" =>
                TurnedOff(call[Worker].task) \/ task[call[Worker].task].state = "initial"
          /\ call[Worker].at = "release" => TurnedOff(call[Worker].task)

(* Someone can still find t: the executor, or a call that cancels it.      *)
Reachable(t) == t \in queue.tasks \/ \E x \in Thread : Takes(x, t)

Live ==
    /\ \A t \in Task :
          task[t].state \in {"initial", "running"} /\ task[t].executor = TRUE => Reachable(t)
    /\ run.at = "completing" => task[run.task].mutex = Worker /\ Reachable(run.task)

(* An executor that is disposed of has no tasks and takes none.            *)
Past ==
    /\ queue.disposed = TRUE => queue.mode = "disposed" /\ queue.tasks = {}
    /\ \A x \in Thread :
          call[x].at \in {"next", "returned"} \/ (call[x].at \in InCall /\ call[x].then = "next")
             => queue.disposed = TRUE

Quiet(x) == call[x].at \in {"idle", "returned"}

(* Dispose waits for t when it comes to it.                                *)
Waited(t) == t \in queue.tasks \/ \E x \in Thread \ {Worker} : HasTaken(x, t)

(* Disposal by FirestoreClient::Dispose.                                   *)
Ending ==
    /\ queue.mode = "running" =>
          /\ \A t \in Task : task[t].final = FALSE
          /\ \A x \in Thread : call[x].at # "terminate"
          /\ signalled = {}
    /\ signalled # {} =>
          queue.schedule = {} \/ (run.at = "operation" /\ task[run.task].final = TRUE)
    /\ run.at = "operation" =>
          Waited(run.task) \/ (task[run.task].timer = TRUE /\ signalled = {})
    /\ \A d \in Disposer :
          call[d].at \notin {"idle", "terminate", "dispatch", "signal"} => signalled # {}
    /\ signalled = {} /\ queue.mode = "disposed" =>
          /\ \A d \in Disposer : call[d].at = "idle"
          /\ queue.alive = FALSE \/ Dropped
    /\ Dropped => \A x \in Api \cup Disposer : call[x].at = "idle"
    /\ call[Worker].at = "returned" => run.at = "cleared" \/ queue.alive = FALSE
    /\ queue.alive = FALSE =>
          /\ queue.disposed = TRUE
          /\ run.at \notin {"operation", "completing"}
          /\ \A x \in Thread : Quiet(x)

(* The inductive invariant.                                                *)
IInv == Types /\ Calls /\ Tasks /\ Count /\ Off /\ Live /\ Past /\ (ViaClient => Ending)

-----------------------------------------------------------------------------
(* Owners, one at a time.                                                  *)
Holds(x, t) == t \in call[x].rest \/ (call[x].task = t /\ call[x].at \in InCall)

Owns(o, t) ==
    \/ o = "executor" /\ t \in queue.tasks
    \/ o = "libdispatch" /\ (InBlocks(t) \/ run.task = t)
    \/ o \in Thread /\ Holds(o, t)

(* Owns is membership in Owners, now ...                                   *)
LEMMA OwnerNow ==
    ASSUME NEW t \in Task, NEW o
    PROVE  o \in Owners(t) <=> Owns(o, t)
<1>1. o \in {"executor" : e \in {u \in queue.tasks : u = t}} <=> o = "executor" /\ t \in queue.tasks
  OBVIOUS
<1>2. o \in {"libdispatch" : b \in {u \in Task : u = t /\ (InBlocks(t) \/ run.task = t)}}
        <=> o = "libdispatch" /\ (InBlocks(t) \/ run.task = t)
  OBVIOUS
<1>3. o \in {x \in Thread :
               \/ t \in call[x].rest
               \/ call[x].task = t /\ call[x].at \in {"cancel", "await", "release"}}
        <=> o \in Thread /\ Holds(o, t)
  BY DEF Holds, InCall
<1> QED
  BY <1>1, <1>2, <1>3 DEF Owners, Owns

(* ... and after a step.                                                   *)
LEMMA OwnerNext ==
    ASSUME NEW t \in Task, NEW o
    PROVE  o \in Owners(t)' <=> Owns(o, t)'
<1>1. o \in {"executor" : e \in {u \in queue'.tasks : u = t}} <=> o = "executor" /\ t \in queue'.tasks
  OBVIOUS
<1>2. o \in {"libdispatch" : b \in {u \in Task : u = t /\ (InBlocks(t)' \/ run'.task = t)}}
        <=> o = "libdispatch" /\ (InBlocks(t)' \/ run'.task = t)
  OBVIOUS
<1>3. o \in {x \in Thread :
               \/ t \in call'[x].rest
               \/ call'[x].task = t /\ call'[x].at \in {"cancel", "await", "release"}}
        <=> o \in Thread /\ Holds(o, t)'
  BY DEF Holds, InCall
<1> QED
  BY <1>1, <1>2, <1>3 DEF Owners, Owns

(* The count of a task k with these owners, once it has one more, ...      *)
LEMMA Gains ==
    ASSUME NEW k \in TaskRecord, NEW l \in TaskRecord, NEW old, NEW new, NEW o,
           Counted(k, old), k.state \notin {"none", "deleted"}, o \notin old,
           \A p : p \in new <=> p \in old \/ p = o,
           l.refs = k.refs + 1, l.state = k.state
    PROVE  Counted(l, new)
<1>1. new = old \cup {o} /\ IsFiniteSet(old)
  BY DEF Counted
<1>2. IsFiniteSet(new) /\ Cardinality(new) = Cardinality(old) + 1
  BY <1>1, FS_AddElement
<1> QED
  BY <1>1, <1>2 DEF Counted

(* ... or one less, ...                                                    *)
LEMMA Loses ==
    ASSUME NEW k \in TaskRecord, NEW l \in TaskRecord, NEW old, NEW new, NEW o,
           Counted(k, old), k.state # "none", o \in old,
           \A p : p \in new <=> p \in old /\ p # o,
           l.refs = k.refs - 1, l.state = IF k.refs = 1 THEN "deleted" ELSE k.state
    PROVE  Counted(l, new) /\ (k.refs = 1 => new = {}) /\ k.refs > 0
<1>1. new = old \ {o} /\ IsFiniteSet(old)
  BY DEF Counted
<1>2. IsFiniteSet(new) /\ Cardinality(new) = Cardinality(old) - 1
  BY <1>1, FS_RemoveElement
<1>3. Cardinality(new) = 0 <=> new = {}
  BY <1>2, FS_EmptySet
<1>4. Cardinality(new) \in Nat
  BY <1>2, FS_CardinalityType
<1>5. k.refs = Cardinality(old) /\ k.state # "deleted" /\ k.refs \in Nat
  BY DEF Counted, TaskRecord
<1> QED
  BY <1>2, <1>3, <1>4, <1>5 DEF Counted

(* ... or another instead of one.                                          *)
LEMMA Exchanges ==
    ASSUME NEW k \in TaskRecord, NEW l \in TaskRecord, NEW old, NEW new, NEW o, NEW p,
           Counted(k, old), k.state # "none", o \in old, p \notin old,
           \A q : q \in new <=> (q \in old /\ q # o) \/ q = p,
           l.refs = k.refs, l.state = k.state
    PROVE  Counted(l, new)
<1>1. new = (old \ {o}) \cup {p} /\ IsFiniteSet(old)
  BY DEF Counted
<1>2. IsFiniteSet(old \ {o}) /\ Cardinality(old \ {o}) = Cardinality(old) - 1
  BY <1>1, FS_RemoveElement
<1>3. IsFiniteSet(new) /\ Cardinality(new) = Cardinality(old \ {o}) + 1
  BY <1>1, <1>2, FS_AddElement
<1>4. Cardinality(old) \in Nat
  BY <1>1, FS_CardinalityType
<1> QED
  BY <1>1, <1>2, <1>3, <1>4 DEF Counted

(* The same owners.                                                        *)
LEMMA Keeps ==
    ASSUME NEW k, NEW l, NEW old, NEW new, Counted(k, old),
           \A p : p \in new <=> p \in old,
           l.refs = k.refs, l.state = "none" \/ k.state # "none",
           l.state = "deleted" <=> k.state = "deleted"
    PROVE  Counted(l, new)
<1>1. new = old
  OBVIOUS
<1> QED
  BY <1>1 DEF Counted

-----------------------------------------------------------------------------
(* The blocks of the dispatch queue.                                       *)

(* A block is appended, and nothing else changes.                          *)
LEMMA AppendedBlock ==
    ASSUME blocks \in BlocksRecord, NEW t \in Task, blocks' = [blocks EXCEPT !.now = Append(@, t)]
    PROVE  /\ blocks' \in BlocksRecord /\ blocks'.later = blocks.later
           /\ \A u : InBlocks(u)' <=> InBlocks(u) \/ u = t
           /\ DOMAIN blocks'.now = 1..(Len(blocks.now) + 1)
           /\ \A i \in DOMAIN blocks.now : blocks'.now[i] = blocks.now[i] /\ i \in DOMAIN blocks'.now
           /\ blocks'.now[Len(blocks.now) + 1] = t
<1> PICK n \in Nat : n = Len(blocks.now)
  BY DEF BlocksRecord
<1>0. /\ blocks.now \in Seq(Task) /\ blocks.later \in SUBSET Task
      /\ blocks'.now = Append(blocks.now, t) /\ blocks'.later = blocks.later
      /\ blocks' = [now |-> Append(blocks.now, t), later |-> blocks.later]
  BY DEF BlocksRecord
<1>1. /\ blocks'.now = Append(blocks.now, t) /\ blocks'.later = blocks.later
      /\ blocks' \in BlocksRecord /\ DOMAIN blocks.now = 1..n
  <2>1. Append(blocks.now, t) \in Seq(Task) /\ DOMAIN blocks.now = 1..n
    BY <1>0
  <2> QED
    BY <1>0, <2>1 DEF BlocksRecord
<1>2. /\ DOMAIN blocks'.now = 1..(n + 1) /\ blocks'.now[n + 1] = t
      /\ \A i \in 1..n : blocks'.now[i] = blocks.now[i] /\ i \in 1..(n + 1)
  BY <1>1 DEF BlocksRecord
<1>3. \A u : InBlocks(u)' <=> InBlocks(u) \/ u = t
  <2> TAKE u
  <2>1. ASSUME NEW i \in 1..(n + 1) PROVE i \in 1..n \/ i = n + 1
    OBVIOUS
  <2> QED
    BY <1>1, <1>2, <2>1 DEF InBlocks
<1> QED
  BY <1>1, <1>2, <1>3

(* The first block goes, and no other is of its task.                      *)
LEMMA FirstBlockTaken ==
    ASSUME blocks \in BlocksRecord, blocks.now # <<>>,
           blocks' = [blocks EXCEPT !.now = Tail(@)],
           \A i, j \in DOMAIN blocks.now : blocks.now[i] = blocks.now[j] => i = j,
           \A i \in DOMAIN blocks.now : blocks.now[i] \notin blocks.later
    PROVE  /\ blocks' \in BlocksRecord /\ blocks'.later = blocks.later
           /\ Head(blocks.now) \in Task
           /\ \A u : InBlocks(u)' <=> InBlocks(u) /\ u # Head(blocks.now)
           /\ \A i \in DOMAIN blocks'.now :
                 /\ blocks'.now[i] = blocks.now[i + 1] /\ i + 1 \in DOMAIN blocks.now
                 /\ i \in Nat
<1> PICK n \in Nat : n = Len(blocks.now)
  BY DEF BlocksRecord
<1>0. /\ blocks.now \in Seq(Task) /\ blocks.later \in SUBSET Task
      /\ blocks'.now = Tail(blocks.now) /\ blocks'.later = blocks.later
      /\ blocks' = [now |-> Tail(blocks.now), later |-> blocks.later]
  BY DEF BlocksRecord
<1>1. /\ blocks'.now = Tail(blocks.now) /\ blocks'.later = blocks.later
      /\ blocks' \in BlocksRecord /\ DOMAIN blocks.now = 1..n /\ n # 0
      /\ Head(blocks.now) = blocks.now[1] /\ blocks.now[1] \in Task
  <2>1. /\ Tail(blocks.now) \in Seq(Task) /\ DOMAIN blocks.now = 1..n /\ n # 0
        /\ Head(blocks.now) = blocks.now[1] /\ blocks.now[1] \in Task
    BY <1>0
  <2> QED
    BY <1>0, <2>1 DEF BlocksRecord
<1>2. /\ DOMAIN blocks'.now = 1..(n - 1)
      /\ \A i \in 1..(n - 1) : blocks'.now[i] = blocks.now[i + 1]
  BY <1>1 DEF BlocksRecord
<1>3. \A i \in 1..(n - 1) : i + 1 \in 1..n /\ i + 1 # 1
  OBVIOUS
<1>4. \A u : InBlocks(u)' <=> InBlocks(u) /\ u # Head(blocks.now)
  <2> TAKE u
  <2>1. ASSUME InBlocks(u)' PROVE InBlocks(u) /\ u # Head(blocks.now)
    <3>1. 1 \in 1..n
      BY <1>1
    <3>2. CASE u \in blocks.later
      BY <3>1, <3>2, <1>1 DEF InBlocks
    <3>3. CASE \E i \in 1..(n - 1) : blocks'.now[i] = u
      <4>1. PICK i \in 1..(n - 1) : blocks'.now[i] = u
        BY <3>3
      <4>2. i + 1 \in 1..n /\ i + 1 # 1 /\ blocks.now[i + 1] = u
        BY <4>1, <1>2
      <4>3. blocks.now[1] # u
        BY <4>2, <3>1, <1>1
      <4> QED
        BY <4>2, <4>3, <1>1 DEF InBlocks
    <3> QED
      BY <2>1, <3>2, <3>3, <1>1, <1>2 DEF InBlocks
  <2>2. ASSUME InBlocks(u), u # Head(blocks.now) PROVE InBlocks(u)'
    <3>1. CASE u \in blocks.later
      BY <3>1, <1>1 DEF InBlocks
    <3>2. CASE \E i \in 1..n : blocks.now[i] = u
      <4>1. PICK i \in 1..n : blocks.now[i] = u
        BY <3>2
      <4>2. i # 1
        BY <4>1, <2>2, <1>1
      <4>3. i - 1 \in 1..(n - 1) /\ (i - 1) + 1 = i
        BY <4>2
      <4> QED
        BY <4>1, <4>3, <1>1, <1>2 DEF InBlocks
    <3> QED
      BY <2>2, <3>1, <3>2, <1>1 DEF InBlocks
  <2> QED
    BY <2>1, <2>2
<1>5. \A i \in 1..(n - 1) : i \in Nat
  OBVIOUS
<1> QED
  BY <1>1, <1>2, <1>3, <1>4, <1>5


-----------------------------------------------------------------------------
(* Steps that leave the tasks and their owners alone.                      *)

SameTasks ==
    /\ UNCHANGED <<task, blocks, cancelled>>
    /\ queue'.tasks = queue.tasks /\ queue'.schedule = queue.schedule
    /\ run'.task = run.task
    /\ run'.at = "completing" <=> run.at = "completing"
    /\ run'.at \in {"operation", "cleared"} <=> run.at \in {"operation", "cleared"}

SameHolders ==
    \A y \in Thread, u \in Task :
        /\ Holds(y, u)' <=> Holds(y, u)
        /\ HasTaken(y, u)' => HasTaken(y, u)
        /\ Takes(y, u) => Takes(y, u)'

(* The threads are of three kinds and are not the other owners.            *)
LEMMA Threads ==
    /\ Worker \in Thread /\ Worker \notin Api /\ Worker \notin Disposer
    /\ \A u \in Api : u \in Thread /\ u \notin Disposer
    /\ \A d \in Disposer : d \in Thread
    /\ \A x \in Thread : x \in Api \/ x \in Disposer \/ x = Worker
    /\ \A x \in Thread : x # Nobody /\ x # "executor" /\ x # "libdispatch"
    /\ NoTask \notin Task
  BY ThreadAssumption, NameAssumption DEF Thread, NoTask, Task

(* The layers of such a step that are always the same.                     *)
LEMMA QuietStep ==
    ASSUME Types, Tasks, Count, Live, SameTasks, SameHolders
    PROVE  Tasks' /\ Count' /\ Live'
<1>1. \A u : InBlocks(u)' <=> InBlocks(u)
  BY DEF SameTasks, InBlocks
<1>2. ASSUME NEW t \in Task, NEW o PROVE o \in Owners(t)' <=> o \in Owners(t)
  BY <1>1, OwnerNow, OwnerNext DEF SameTasks, SameHolders, Owns
<1>3. \A t \in Task : Owners(t)' = Owners(t)
  BY <1>2
<1>4. ASSUME NEW t \in Task PROVE TaskFits(t)'
  <2>1. TaskFits(t) /\ (InRun(t)' <=> InRun(t))
    BY DEF Tasks, SameTasks, InRun
  <2> QED
    BY <2>1, <1>3 DEF TaskFits, SameTasks, SameHolders
<1>5. BlocksFit'
  BY <1>1 DEF Tasks, BlocksFit, SameTasks
<1>6. Count'
  BY <1>3 DEF Count, SameTasks
<1>7. ASSUME NEW t \in Task, Reachable(t) PROVE Reachable(t)'
  BY <1>7 DEF Reachable, SameTasks, SameHolders
<1>8. run.at = "completing" => run.task \in Task
  BY DEF Types, RunRecord, NoTask
<1>9. Live'
  BY <1>7, <1>8 DEF Live, SameTasks
<1> QED
  BY <1>4, <1>5, <1>6, <1>9 DEF Tasks

(* Each such action keeps the invariant.                                   *)
LEMMA CancelNextStep ==
    ASSUME IInv, NEW x \in Thread, CancelNext(x)
    PROVE  IInv'
<1> USE DEF IInv
<1>1. PICK t \in call[x].rest :
         call' = [call EXCEPT ![x] =
                     [at |-> "cancel", task |-> t, rest |-> @.rest \ {t}, then |-> "next"]]
  BY DEF CancelNext
<1>2. /\ call[x] \in CallRecord /\ t \in Task /\ call[x].at = "next"
      /\ call'[x] = [at |-> "cancel", task |-> t, rest |-> call[x].rest \ {t}, then |-> "next"]
      /\ \A y \in Thread \ {x} : call'[y] = call[y]
      /\ UNCHANGED <<task, queue, blocks, run, signalled, cancelled>>
  BY <1>1 DEF CancelNext, Types, CallRecord
<1>3. Types'
  <2>1. call'[x] \in CallRecord
    BY <1>2 DEF CallRecord, Place
  <2>2. call' \in [Thread -> CallRecord]
    BY <1>1, <2>1, <1>2 DEF Types
  <2> QED
    BY <2>2, <1>2 DEF Types
<1>4. SameTasks /\ SameHolders
  <2>1. ASSUME NEW y \in Thread, NEW u \in Task
        PROVE  /\ Holds(y, u)' <=> Holds(y, u)
               /\ HasTaken(y, u)' => HasTaken(y, u)
               /\ Takes(y, u) => Takes(y, u)'
    BY <1>2 DEF Holds, HasTaken, Takes, InCall
  <2> QED
    BY <2>1, <1>2 DEF SameTasks, SameHolders
<1>5. Tasks' /\ Count' /\ Live'
  BY <1>4, QuietStep
<1>6. Calls'
  <2>1. ASSUME NEW y \in Thread PROVE CallFits(y)'
    BY <1>2 DEF Calls, CallFits, InCall
  <2>2. ASSUME NEW y \in Thread, call'[y].at = "dispatch" PROVE queue'.mutex = y /\ DispatchFits(y)'
    BY <1>2, <2>2 DEF Calls, DispatchFits, InBlocks
  <2>3. WorkerFits'
    BY Threads, <1>2 DEF Calls, WorkerFits, InCall
  <2>4. queue'.mutex # Nobody => call'[queue'.mutex].at = "dispatch"
    BY <1>2 DEF Calls, Types, QueueRecord
  <2>5. x \notin Api
    BY <1>2 DEF Calls
  <2> QED
    BY <2>1, <2>2, <2>3, <2>4, <2>5, <1>2, Threads DEF Calls
<1>7. Off'
  BY Threads, <1>2 DEF Off, CancelledNeverRuns, TurnedOff
<1>8. Past'
  BY <1>2 DEF Past, InCall
<1>9. ASSUME ViaClient PROVE Ending'
  BY Threads, <1>2, <1>9 DEF Ending, Waited, HasTaken, Dropped, Quiet
<1> QED
  BY <1>3, <1>5, <1>6, <1>7, <1>8, <1>9

(* A last task that comes too late changes no task.                        *)
LEMMA TerminateNotEnqueuedStep ==
    ASSUME IInv, NEW d \in Disposer, TerminateNotEnqueued(d)
    PROVE  IInv'
<1> USE DEF IInv
<1>1. /\ d \in Thread /\ call[d].at = "terminate"
      /\ queue.mutex = Nobody /\ queue.mode = "disposed"
      /\ call[d] \in CallRecord
      /\ call'[d].at = "dispose" /\ call'[d].task = call[d].task
      /\ call'[d].rest = call[d].rest /\ call'[d].then = call[d].then
      /\ \A y \in Thread \ {d} : call'[y] = call[y]
      /\ UNCHANGED <<task, blocks, cancelled, queue, run, signalled>>
  BY Threads DEF TerminateNotEnqueued, Types, CallRecord, QueueRecord, RunRecord, Idle, vars
<1>2. /\ call' \in [Thread -> CallRecord]
      /\ UNCHANGED queue
      /\ UNCHANGED run
  BY Threads, <1>1 DEF TerminateNotEnqueued, Types, CallRecord, Place, QueueRecord, Mode, RunRecord, Idle, InCall
<1>3. Types'
  BY <1>1, <1>2 DEF Types
<1>4. SameTasks /\ SameHolders
  <2>1. ASSUME NEW y \in Thread, NEW u \in Task
        PROVE  /\ Holds(y, u)' <=> Holds(y, u)
               /\ HasTaken(y, u)' => HasTaken(y, u)
               /\ Takes(y, u) => Takes(y, u)'
    BY <1>1 DEF Holds, HasTaken, Takes, InCall, Calls, CallFits
  <2> QED
    BY <2>1, <1>1 DEF SameTasks, SameHolders
<1>5. Tasks' /\ Count' /\ Live'
  BY <1>4, QuietStep
<1>6. Calls'
  <2>1. ASSUME NEW y \in Thread PROVE CallFits(y)'
    BY Threads, <1>1 DEF Calls, CallFits, InCall, DispatchFits
  <2>2. ASSUME NEW y \in Thread, call'[y].at = "dispatch"
        PROVE  queue'.mutex = y /\ DispatchFits(y)'
    BY Threads, <1>1, <2>2 DEF Calls, DispatchFits, InBlocks
  <2>3. WorkerFits'
    BY Threads, <1>1 DEF Calls, WorkerFits, InCall, InOperation, Operating, CallFits
  <2>4. queue'.mutex # Nobody => call'[queue'.mutex].at = "dispatch"
    BY Threads, <1>1 DEF Calls, Types, QueueRecord
  <2>5. queue'.mode = "disposed" => queue'.mutex = Nobody
    BY <1>1 DEF Calls, CallFits
  <2>6. \A u \in Api : call'[u].at \in {"idle", "dispatch"}
    BY Threads, <1>1 DEF Calls
  <2> QED
    BY <2>1, <2>2, <2>3, <2>4, <2>5, <2>6 DEF Calls
<1>7. Off'
  BY Threads, <1>1 DEF Off, CancelledNeverRuns, TurnedOff, Calls, CallFits, WorkerFits, InCall
<1>8. Past'
  BY Threads, <1>1 DEF Past, InCall, Calls, CallFits, WorkerFits
<1>9. ASSUME ViaClient PROVE Ending'
  BY Threads, <1>1, <1>9 DEF Ending, Waited, HasTaken, Dropped, Quiet, Calls, CallFits, WorkerFits, InCall, InOperation, Operating
<1> QED
  BY <1>3, <1>5, <1>6, <1>7, <1>8, <1>9

(* A thread that sees the signal has signalled # {}.                       *)
LEMMA SignalReceivedStep ==
    ASSUME IInv, NEW d \in Disposer, SignalReceived(d)
    PROVE  IInv'
<1> USE DEF IInv
<1>1. /\ d \in Thread /\ call[d].at = "signal"
      /\ signalled # {}
      /\ call[d] \in CallRecord
      /\ call'[d].at = "dispose" /\ call'[d].task = NoTask
      /\ call'[d].rest = call[d].rest /\ call'[d].then = call[d].then
      /\ \A y \in Thread \ {d} : call'[y] = call[y]
      /\ UNCHANGED <<task, blocks, cancelled, queue, run, signalled>>
  BY Threads DEF SignalReceived, Types, CallRecord, QueueRecord, RunRecord, Idle, vars, HasStarted
<1>2. /\ call' \in [Thread -> CallRecord]
      /\ UNCHANGED queue
      /\ UNCHANGED run
  BY Threads, <1>1 DEF SignalReceived, Types, CallRecord, Place, QueueRecord, Mode, RunRecord, Idle, InCall, HasStarted
<1>3. Types'
  BY <1>1, <1>2 DEF Types
<1>4. SameTasks /\ SameHolders
  <2>1. ASSUME NEW y \in Thread, NEW u \in Task
        PROVE  /\ Holds(y, u)' <=> Holds(y, u)
               /\ HasTaken(y, u)' => HasTaken(y, u)
               /\ Takes(y, u) => Takes(y, u)'
    BY <1>1 DEF Holds, HasTaken, Takes, InCall, Calls, CallFits
  <2> QED
    BY <2>1, <1>1 DEF SameTasks, SameHolders
<1>5. Tasks' /\ Count' /\ Live'
  BY <1>4, QuietStep
<1>6. Calls'
  <2>1. ASSUME NEW y \in Thread PROVE CallFits(y)'
    BY Threads, <1>1 DEF Calls, CallFits, InCall, DispatchFits
  <2>2. ASSUME NEW y \in Thread, call'[y].at = "dispatch"
        PROVE  queue'.mutex = y /\ DispatchFits(y)'
    BY Threads, <1>1, <2>2 DEF Calls, DispatchFits, InBlocks
  <2>3. WorkerFits'
    BY Threads, <1>1 DEF Calls, WorkerFits, InCall, InOperation, Operating, CallFits
  <2>4. queue'.mutex # Nobody => call'[queue'.mutex].at = "dispatch"
    BY Threads, <1>1 DEF Calls, Types, QueueRecord
  <2>5. queue'.mode = "disposed" => queue'.mutex = Nobody
    BY <1>1 DEF Calls, CallFits
  <2>6. \A u \in Api : call'[u].at \in {"idle", "dispatch"}
    BY Threads, <1>1 DEF Calls
  <2> QED
    BY <2>1, <2>2, <2>3, <2>4, <2>5, <2>6 DEF Calls
<1>7. Off'
  BY Threads, <1>1 DEF Off, CancelledNeverRuns, TurnedOff, Calls, CallFits, WorkerFits, InCall
<1>8. Past'
  BY Threads, <1>1 DEF Past, InCall, Calls, CallFits, WorkerFits
<1>9. ASSUME ViaClient PROVE Ending'
  BY Threads, <1>1, <1>9 DEF Ending, Waited, HasTaken, Dropped, Quiet, Calls, CallFits, WorkerFits, InCall, InOperation, Operating
<1> QED
  BY <1>3, <1>5, <1>6, <1>7, <1>8, <1>9

(* The end that was waited for: the task is not running any more.          *)
LEMMA AwaitStep ==
    ASSUME IInv, NEW x \in Thread, Await(x)
    PROVE  IInv'
<1> USE DEF IInv
<1>1. /\ x \in Thread /\ call[x].at = "await"
      /\ task[call[x].task].state \in {"cancelled", "done"}
      /\ call[x] \in CallRecord
      /\ call'[x].at = "release" /\ call'[x].task = call[x].task
      /\ call'[x].rest = call[x].rest /\ call'[x].then = call[x].then
      /\ \A y \in Thread \ {x} : call'[y] = call[y]
      /\ UNCHANGED <<task, blocks, cancelled, queue, run, signalled>>
  BY Threads DEF Await, Types, CallRecord, QueueRecord, RunRecord, Idle, vars
<1>2. /\ call' \in [Thread -> CallRecord]
      /\ UNCHANGED queue
      /\ UNCHANGED run
  BY Threads, <1>1 DEF Await, Types, CallRecord, Place, QueueRecord, Mode, RunRecord, Idle, InCall
<1>3. Types'
  BY <1>1, <1>2 DEF Types
<1>4. SameTasks /\ SameHolders
  <2>1. ASSUME NEW y \in Thread, NEW u \in Task
        PROVE  /\ Holds(y, u)' <=> Holds(y, u)
               /\ HasTaken(y, u)' => HasTaken(y, u)
               /\ Takes(y, u) => Takes(y, u)'
    BY <1>1 DEF Holds, HasTaken, Takes, InCall, Calls, CallFits
  <2> QED
    BY <2>1, <1>1 DEF SameTasks, SameHolders
<1>5. Tasks' /\ Count' /\ Live'
  BY <1>4, QuietStep
<1>6. Calls'
  <2>1. ASSUME NEW y \in Thread PROVE CallFits(y)'
    BY Threads, <1>1 DEF Calls, CallFits, InCall, DispatchFits
  <2>2. ASSUME NEW y \in Thread, call'[y].at = "dispatch"
        PROVE  queue'.mutex = y /\ DispatchFits(y)'
    BY Threads, <1>1, <2>2 DEF Calls, DispatchFits, InBlocks
  <2>3. WorkerFits'
    BY Threads, <1>1 DEF Calls, WorkerFits, InCall, InOperation, Operating, CallFits
  <2>4. queue'.mutex # Nobody => call'[queue'.mutex].at = "dispatch"
    BY Threads, <1>1 DEF Calls, Types, QueueRecord
  <2>5. queue'.mode = "disposed" => queue'.mutex = Nobody
    BY <1>1 DEF Calls, CallFits
  <2>6. \A u \in Api : call'[u].at \in {"idle", "dispatch"}
    BY Threads, <1>1 DEF Calls
  <2> QED
    BY <2>1, <2>2, <2>3, <2>4, <2>5, <2>6 DEF Calls
<1>7. Off'
  BY Threads, <1>1 DEF Off, CancelledNeverRuns, TurnedOff, Calls, CallFits, WorkerFits, InCall
<1>8. Past'
  BY Threads, <1>1 DEF Past, InCall, Calls, CallFits, WorkerFits
<1>9. ASSUME ViaClient PROVE Ending'
  <2>1. run.at = "operation" => task[run.task].state = "running"
    BY DEF Types, RunRecord, Tasks, TaskFits, InRun, NoTask
  <2>2. run.at = "operation" /\ Waited(run.task) => Waited(run.task)'
    BY <1>1, <2>1 DEF Waited, HasTaken
  <2> QED
    BY Threads, <1>1, <1>9, <2>2 DEF Ending, Dropped, Quiet, Calls, CallFits, WorkerFits, InCall
<1> QED
  BY <1>3, <1>5, <1>6, <1>7, <1>8, <1>9

(* All tasks taken have been released.                                     *)
LEMMA DisposeReturnsStep ==
    ASSUME IInv, NEW x \in Thread, DisposeReturns(x)
    PROVE  IInv'
<1> USE DEF IInv
<1>1. /\ x \in Thread /\ call[x].at = "next" /\ call[x].rest = {}
      /\ call[x] \in CallRecord
      /\ call'[x].at = "returned" /\ call'[x].task = NoTask
      /\ call'[x].rest = {} /\ call'[x].then = "idle"
      /\ \A y \in Thread \ {x} : call'[y] = call[y]
      /\ UNCHANGED <<task, blocks, cancelled, queue, run, signalled>>
  BY Threads DEF DisposeReturns, Types, CallRecord, QueueRecord, RunRecord, Idle, vars
<1>2. /\ call' \in [Thread -> CallRecord]
      /\ UNCHANGED queue
      /\ UNCHANGED run
  BY Threads, <1>1 DEF DisposeReturns, Types, CallRecord, Place, QueueRecord, Mode, RunRecord, Idle, InCall
<1>3. Types'
  BY <1>1, <1>2 DEF Types
<1>4. SameTasks /\ SameHolders
  <2>1. ASSUME NEW y \in Thread, NEW u \in Task
        PROVE  /\ Holds(y, u)' <=> Holds(y, u)
               /\ HasTaken(y, u)' => HasTaken(y, u)
               /\ Takes(y, u) => Takes(y, u)'
    BY <1>1 DEF Holds, HasTaken, Takes, InCall, Calls, CallFits
  <2> QED
    BY <2>1, <1>1 DEF SameTasks, SameHolders
<1>5. Tasks' /\ Count' /\ Live'
  BY <1>4, QuietStep
<1>6. Calls'
  <2>1. ASSUME NEW y \in Thread PROVE CallFits(y)'
    BY Threads, <1>1 DEF Calls, CallFits, InCall, DispatchFits
  <2>2. ASSUME NEW y \in Thread, call'[y].at = "dispatch"
        PROVE  queue'.mutex = y /\ DispatchFits(y)'
    BY Threads, <1>1, <2>2 DEF Calls, DispatchFits, InBlocks
  <2>3. WorkerFits'
    BY Threads, <1>1 DEF Calls, WorkerFits, InCall, InOperation, Operating, CallFits
  <2>4. queue'.mutex # Nobody => call'[queue'.mutex].at = "dispatch"
    BY Threads, <1>1 DEF Calls, Types, QueueRecord
  <2>5. queue'.mode = "disposed" => queue'.mutex = Nobody
    BY <1>1 DEF Calls, CallFits
  <2>6. \A u \in Api : call'[u].at \in {"idle", "dispatch"}
    BY Threads, <1>1 DEF Calls
  <2> QED
    BY <2>1, <2>2, <2>3, <2>4, <2>5, <2>6 DEF Calls
<1>7. Off'
  BY Threads, <1>1 DEF Off, CancelledNeverRuns, TurnedOff, Calls, CallFits, WorkerFits, InCall
<1>8. Past'
  BY Threads, <1>1 DEF Past, InCall, Calls, CallFits, WorkerFits
<1>9. ASSUME ViaClient PROVE Ending'
  BY Threads, <1>1, <1>9 DEF Ending, Waited, HasTaken, Dropped, Quiet, Calls, CallFits, WorkerFits, InCall, InOperation, Operating
<1> QED
  BY <1>3, <1>5, <1>6, <1>7, <1>8, <1>9

(* From here on no task is enqueued; a last task has started before.       *)
LEMMA SetDisposedStep ==
    ASSUME IInv, NEW x \in Thread, SetDisposed(x)
    PROVE  IInv'
<1> USE DEF IInv
<1>1. /\ x \in Thread /\ call[x].at = "dispose"
      /\ queue.mutex = Nobody
      /\ call[x] \in CallRecord
      /\ call'[x].at = "swap" /\ call'[x].task = call[x].task
      /\ call'[x].rest = call[x].rest /\ call'[x].then = call[x].then
      /\ \A y \in Thread \ {x} : call'[y] = call[y]
      /\ queue'.mode = "disposed"
      /\ queue'.mutex = queue.mutex /\ queue'.disposed = queue.disposed /\ queue'.tasks = queue.tasks
      /\ queue'.schedule = queue.schedule /\ queue'.alive = queue.alive
      /\ UNCHANGED <<task, blocks, cancelled, run, signalled>>
  BY Threads DEF SetDisposed, Types, CallRecord, QueueRecord, RunRecord, Idle, vars
<1>2. /\ call' \in [Thread -> CallRecord]
      /\ queue' \in QueueRecord
      /\ UNCHANGED run
  BY Threads, <1>1 DEF SetDisposed, Types, CallRecord, Place, QueueRecord, Mode, RunRecord, Idle, InCall
<1>3. Types'
  BY <1>1, <1>2 DEF Types
<1>4. SameTasks /\ SameHolders
  <2>1. ASSUME NEW y \in Thread, NEW u \in Task
        PROVE  /\ Holds(y, u)' <=> Holds(y, u)
               /\ HasTaken(y, u)' => HasTaken(y, u)
               /\ Takes(y, u) => Takes(y, u)'
    BY <1>1 DEF Holds, HasTaken, Takes, InCall, Calls, CallFits
  <2> QED
    BY <2>1, <1>1 DEF SameTasks, SameHolders
<1>5. Tasks' /\ Count' /\ Live'
  BY <1>4, QuietStep
<1>6. Calls'
  <2>1. ASSUME NEW y \in Thread PROVE CallFits(y)'
    BY Threads, <1>1 DEF Calls, CallFits, InCall, DispatchFits
  <2>2. ASSUME NEW y \in Thread, call'[y].at = "dispatch"
        PROVE  queue'.mutex = y /\ DispatchFits(y)'
    BY Threads, <1>1, <2>2 DEF Calls, DispatchFits, InBlocks
  <2>3. WorkerFits'
    BY Threads, <1>1 DEF Calls, WorkerFits, InCall, InOperation, Operating, CallFits
  <2>4. queue'.mutex # Nobody => call'[queue'.mutex].at = "dispatch"
    BY Threads, <1>1 DEF Calls, Types, QueueRecord
  <2>5. queue'.mode = "disposed" => queue'.mutex = Nobody
    BY <1>1 DEF Calls, CallFits
  <2>6. \A u \in Api : call'[u].at \in {"idle", "dispatch"}
    BY Threads, <1>1 DEF Calls
  <2> QED
    BY <2>1, <2>2, <2>3, <2>4, <2>5, <2>6 DEF Calls
<1>7. Off'
  BY Threads, <1>1 DEF Off, CancelledNeverRuns, TurnedOff, Calls, CallFits, WorkerFits, InCall
<1>8. Past'
  BY Threads, <1>1 DEF Past, InCall, Calls, CallFits, WorkerFits
<1>9. ASSUME ViaClient PROVE Ending'
  BY Threads, <1>1, <1>9 DEF Ending, Waited, HasTaken, Dropped, Quiet, Calls, CallFits, WorkerFits, InCall, InOperation, Operating
<1> QED
  BY <1>3, <1>5, <1>6, <1>7, <1>8, <1>9

(* Nobody is in a call, and the executor has been disposed of.             *)
LEMMA DeleteStep ==
    ASSUME IInv, NEW x \in Thread, Delete(x)
    PROVE  IInv'
<1> USE DEF IInv
<1>1. /\ x \in Thread /\ call[x].at = "returned"
      /\ \A y \in (Api \cup Disposer) \ {x} : call[y].at \in {"idle", "returned"}
      /\ queue'.alive = FALSE /\ queue.alive = TRUE
      /\ queue'.mutex = queue.mutex /\ queue'.disposed = queue.disposed /\ queue'.tasks = queue.tasks
      /\ queue'.schedule = queue.schedule /\ queue'.mode = queue.mode
      /\ UNCHANGED <<task, blocks, cancelled, call, run, signalled>>
  BY Threads DEF Delete, Types, CallRecord, QueueRecord, RunRecord, Idle, vars
<1>2. /\ UNCHANGED call
      /\ queue' \in QueueRecord
      /\ UNCHANGED run
  BY Threads, <1>1 DEF Delete, Types, CallRecord, Place, QueueRecord, Mode, RunRecord, Idle, InCall
<1>3. Types'
  BY <1>1, <1>2 DEF Types
<1>4. SameTasks /\ SameHolders
  <2>1. ASSUME NEW y \in Thread, NEW u \in Task
        PROVE  /\ Holds(y, u)' <=> Holds(y, u)
               /\ HasTaken(y, u)' => HasTaken(y, u)
               /\ Takes(y, u) => Takes(y, u)'
    BY <1>1 DEF Holds, HasTaken, Takes, InCall, Calls, CallFits
  <2> QED
    BY <2>1, <1>1 DEF SameTasks, SameHolders
<1>5. Tasks' /\ Count' /\ Live'
  BY <1>4, QuietStep
<1>6. Calls'
  <2>1. ASSUME NEW y \in Thread PROVE CallFits(y)'
    BY Threads, <1>1 DEF Calls, CallFits, InCall, DispatchFits
  <2>2. ASSUME NEW y \in Thread, call'[y].at = "dispatch"
        PROVE  queue'.mutex = y /\ DispatchFits(y)'
    BY Threads, <1>1, <2>2 DEF Calls, DispatchFits, InBlocks
  <2>3. WorkerFits'
    BY Threads, <1>1 DEF Calls, WorkerFits, InCall, InOperation, Operating, CallFits
  <2>4. queue'.mutex # Nobody => call'[queue'.mutex].at = "dispatch"
    BY Threads, <1>1 DEF Calls, Types, QueueRecord
  <2>5. queue'.mode = "disposed" => queue'.mutex = Nobody
    BY <1>1 DEF Calls, CallFits
  <2>6. \A u \in Api : call'[u].at \in {"idle", "dispatch"}
    BY Threads, <1>1 DEF Calls
  <2> QED
    BY <2>1, <2>2, <2>3, <2>4, <2>5, <2>6 DEF Calls
<1>7. Off'
  BY Threads, <1>1 DEF Off, CancelledNeverRuns, TurnedOff, Calls, CallFits, WorkerFits, InCall
<1>8. Past'
  BY Threads, <1>1 DEF Past, InCall, Calls, CallFits, WorkerFits
<1>9. ASSUME ViaClient PROVE Ending'
  <2>1. /\ queue.disposed = TRUE /\ queue.tasks = {} /\ x \notin Api
        /\ \A y \in (Api \cup Disposer) \cup {x} : Quiet(y)
    BY Threads, <1>1 DEF Past, Calls, Quiet
  <2>2. ASSUME NEW y \in Thread, Quiet(y), NEW u PROVE ~HasTaken(y, u) /\ ~Takes(y, u)
    BY <2>2 DEF Quiet, HasTaken, Takes, Calls, CallFits, InCall
  <2>3. /\ run.at \notin {"operation", "completing"}
        /\ Quiet(Worker)
    <3>1. CASE x = Worker
      BY <3>1, <1>1, <1>9 DEF Ending, Quiet
    <3>2. CASE x # Worker
      <4>1. x \in Disposer /\ signalled # {}
        BY Threads, <3>2, <2>1, <1>1, <1>9 DEF Ending
      <4>2. \A y \in Thread \ {Worker} : Quiet(y)
        BY Threads, <2>1
      <4>3. run.at # "operation"
        BY <4>1, <4>2, <2>1, <2>2, <1>9 DEF Ending, Waited
      <4>4. Quiet(Worker)
        <5>1. ~Dropped
          BY <4>1, <1>1, <1>9 DEF Ending
        <5> QED
          BY <4>3, <5>1 DEF Calls, WorkerFits, Dropped, Quiet
      <4>5. run.at # "completing"
        BY Threads, <4>2, <4>4, <2>1, <2>2 DEF Live, Reachable
      <4> QED
        BY <4>3, <4>4, <4>5
    <3> QED
      BY <3>1, <3>2
  <2>4. \A y \in Thread : Quiet(y)
    BY Threads, <2>1, <2>3
  <2> QED
    BY Threads, <1>1, <1>9, <2>1, <2>3, <2>4 DEF Ending, Waited, HasTaken, Dropped, Quiet
<1> QED
  BY <1>3, <1>5, <1>6, <1>7, <1>8, <1>9

(* The last task has started: it is Worker's, and no other runs.           *)
LEMMA SignalStep ==
    ASSUME IInv, Signal
    PROVE  IInv'
<1> USE DEF IInv
<1>1. /\ run.at = "operation" /\ call[Worker].at = "idle"
      /\ task[run.task].final = TRUE /\ run.task \in Task
      /\ signalled' = signalled \cup {run.task}
      /\ UNCHANGED <<task, blocks, cancelled, call, queue, run>>
  BY Threads DEF Signal, Types, CallRecord, QueueRecord, RunRecord, Idle, vars, InOperation, TaskRecord
<1>2. /\ UNCHANGED call
      /\ UNCHANGED queue
      /\ UNCHANGED run
  BY Threads, <1>1 DEF Signal, Types, CallRecord, Place, QueueRecord, Mode, RunRecord, Idle, InCall, InOperation, TaskRecord
<1>3. Types'
  BY <1>1, <1>2 DEF Types
<1>4. SameTasks /\ SameHolders
  <2>1. ASSUME NEW y \in Thread, NEW u \in Task
        PROVE  /\ Holds(y, u)' <=> Holds(y, u)
               /\ HasTaken(y, u)' => HasTaken(y, u)
               /\ Takes(y, u) => Takes(y, u)'
    BY <1>1 DEF Holds, HasTaken, Takes, InCall, Calls, CallFits
  <2> QED
    BY <2>1, <1>1 DEF SameTasks, SameHolders
<1>5. Tasks' /\ Count' /\ Live'
  BY <1>4, QuietStep
<1>6. Calls'
  <2>1. ASSUME NEW y \in Thread PROVE CallFits(y)'
    BY Threads, <1>1 DEF Calls, CallFits, InCall, DispatchFits
  <2>2. ASSUME NEW y \in Thread, call'[y].at = "dispatch"
        PROVE  queue'.mutex = y /\ DispatchFits(y)'
    BY Threads, <1>1, <2>2 DEF Calls, DispatchFits, InBlocks
  <2>3. WorkerFits'
    BY Threads, <1>1 DEF Calls, WorkerFits, InCall, InOperation, Operating, CallFits
  <2>4. queue'.mutex # Nobody => call'[queue'.mutex].at = "dispatch"
    BY Threads, <1>1 DEF Calls, Types, QueueRecord
  <2>5. queue'.mode = "disposed" => queue'.mutex = Nobody
    BY <1>1 DEF Calls, CallFits
  <2>6. \A u \in Api : call'[u].at \in {"idle", "dispatch"}
    BY Threads, <1>1 DEF Calls
  <2> QED
    BY <2>1, <2>2, <2>3, <2>4, <2>5, <2>6 DEF Calls
<1>7. Off'
  BY Threads, <1>1 DEF Off, CancelledNeverRuns, TurnedOff, Calls, CallFits, WorkerFits, InCall
<1>8. Past'
  BY Threads, <1>1 DEF Past, InCall, Calls, CallFits, WorkerFits
<1>9. ASSUME ViaClient PROVE Ending'
  <2>1. task[run.task].timer = FALSE /\ queue.mode # "running"
    BY <1>1, <1>9 DEF Tasks, TaskFits, Ending
  <2>2. Waited(run.task)'
    BY <1>1, <1>9, <2>1 DEF Ending, Waited, HasTaken
  <2> QED
    BY Threads, <1>1, <1>9, <2>1, <2>2 DEF Ending, Dropped, Quiet
<1> QED
  BY <1>3, <1>5, <1>6, <1>7, <1>8, <1>9

(* The operation ends; the last one leaves no timer.                       *)
LEMMA OperationEndsStep ==
    ASSUME IInv, OperationEnds
    PROVE  IInv'
<1> USE DEF IInv
<1>1. /\ run.at = "operation" /\ call[Worker].at = "idle"
      /\ task[run.task].final = TRUE => queue.schedule = {}
      /\ run'.at = "cleared" /\ run'.task = run.task
      /\ UNCHANGED <<task, blocks, cancelled, call, queue, signalled>>
  BY Threads DEF OperationEnds, Types, CallRecord, QueueRecord, RunRecord, Idle, vars, Operating, InOperation, Terminated
<1>2. /\ UNCHANGED call
      /\ UNCHANGED queue
      /\ run' \in RunRecord
  BY Threads, <1>1 DEF OperationEnds, Types, CallRecord, Place, QueueRecord, Mode, RunRecord, Idle, InCall, Operating, InOperation, Terminated
<1>3. Types'
  BY <1>1, <1>2 DEF Types
<1>4. SameTasks /\ SameHolders
  <2>1. ASSUME NEW y \in Thread, NEW u \in Task
        PROVE  /\ Holds(y, u)' <=> Holds(y, u)
               /\ HasTaken(y, u)' => HasTaken(y, u)
               /\ Takes(y, u) => Takes(y, u)'
    BY <1>1 DEF Holds, HasTaken, Takes, InCall, Calls, CallFits
  <2> QED
    BY <2>1, <1>1 DEF SameTasks, SameHolders
<1>5. Tasks' /\ Count' /\ Live'
  BY <1>4, QuietStep
<1>6. Calls'
  <2>1. ASSUME NEW y \in Thread PROVE CallFits(y)'
    BY Threads, <1>1 DEF Calls, CallFits, InCall, DispatchFits
  <2>2. ASSUME NEW y \in Thread, call'[y].at = "dispatch"
        PROVE  queue'.mutex = y /\ DispatchFits(y)'
    BY Threads, <1>1, <2>2 DEF Calls, DispatchFits, InBlocks
  <2>3. WorkerFits'
    BY Threads, <1>1 DEF Calls, WorkerFits, InCall, InOperation, Operating, CallFits
  <2>4. queue'.mutex # Nobody => call'[queue'.mutex].at = "dispatch"
    BY Threads, <1>1 DEF Calls, Types, QueueRecord
  <2>5. queue'.mode = "disposed" => queue'.mutex = Nobody
    BY <1>1 DEF Calls, CallFits
  <2>6. \A u \in Api : call'[u].at \in {"idle", "dispatch"}
    BY Threads, <1>1 DEF Calls
  <2> QED
    BY <2>1, <2>2, <2>3, <2>4, <2>5, <2>6 DEF Calls
<1>7. Off'
  BY Threads, <1>1 DEF Off, CancelledNeverRuns, TurnedOff, Calls, CallFits, WorkerFits, InCall
<1>8. Past'
  BY Threads, <1>1 DEF Past, InCall, Calls, CallFits, WorkerFits
<1>9. ASSUME ViaClient PROVE Ending'
  BY Threads, <1>1, <1>9 DEF Ending, Waited, HasTaken, Dropped, Quiet, Calls, CallFits, WorkerFits, InCall, InOperation, Operating
<1> QED
  BY <1>3, <1>5, <1>6, <1>7, <1>8, <1>9

(* The queue's destructor is called by Worker, with nobody else in a call. *)
LEMMA DropsQueueStep ==
    ASSUME IInv, DropsQueue
    PROVE  IInv'
<1> USE DEF IInv
<1>1. /\ run.at = "cleared" /\ queue.alive = TRUE
      /\ \A y \in Thread : call[y].at = "idle"
      /\ call[Worker] \in CallRecord
      /\ call'[Worker].at = "dispose" /\ call'[Worker].task = call[Worker].task
      /\ call'[Worker].rest = call[Worker].rest /\ call'[Worker].then = call[Worker].then
      /\ \A y \in Thread \ {Worker} : call'[y] = call[y]
      /\ UNCHANGED <<task, blocks, cancelled, queue, run, signalled>>
  BY Threads DEF DropsQueue, Types, CallRecord, QueueRecord, RunRecord, Idle, vars
<1>2. /\ call' \in [Thread -> CallRecord]
      /\ UNCHANGED queue
      /\ UNCHANGED run
  BY Threads, <1>1 DEF DropsQueue, Types, CallRecord, Place, QueueRecord, Mode, RunRecord, Idle, InCall
<1>3. Types'
  BY <1>1, <1>2 DEF Types
<1>4. SameTasks /\ SameHolders
  <2>1. ASSUME NEW y \in Thread, NEW u \in Task
        PROVE  /\ Holds(y, u)' <=> Holds(y, u)
               /\ HasTaken(y, u)' => HasTaken(y, u)
               /\ Takes(y, u) => Takes(y, u)'
    BY <1>1 DEF Holds, HasTaken, Takes, InCall, Calls, CallFits
  <2> QED
    BY <2>1, <1>1 DEF SameTasks, SameHolders
<1>5. Tasks' /\ Count' /\ Live'
  BY <1>4, QuietStep
<1>6. Calls'
  <2>1. ASSUME NEW y \in Thread PROVE CallFits(y)'
    BY Threads, <1>1 DEF Calls, CallFits, InCall, DispatchFits
  <2>2. ASSUME NEW y \in Thread, call'[y].at = "dispatch"
        PROVE  queue'.mutex = y /\ DispatchFits(y)'
    BY Threads, <1>1, <2>2 DEF Calls, DispatchFits, InBlocks
  <2>3. WorkerFits'
    BY Threads, <1>1 DEF Calls, WorkerFits, InCall, InOperation, Operating, CallFits
  <2>4. queue'.mutex # Nobody => call'[queue'.mutex].at = "dispatch"
    BY Threads, <1>1 DEF Calls, Types, QueueRecord
  <2>5. queue'.mode = "disposed" => queue'.mutex = Nobody
    BY <1>1 DEF Calls, CallFits
  <2>6. \A u \in Api : call'[u].at \in {"idle", "dispatch"}
    BY Threads, <1>1 DEF Calls
  <2> QED
    BY <2>1, <2>2, <2>3, <2>4, <2>5, <2>6 DEF Calls
<1>7. Off'
  BY Threads, <1>1 DEF Off, CancelledNeverRuns, TurnedOff, Calls, CallFits, WorkerFits, InCall
<1>8. Past'
  BY Threads, <1>1 DEF Past, InCall, Calls, CallFits, WorkerFits
<1>9. ASSUME ViaClient PROVE Ending'
  BY Threads, <1>1, <1>9 DEF Ending, Waited, HasTaken, Dropped, Quiet, Calls, CallFits, WorkerFits, InCall, InOperation, Operating
<1> QED
  BY <1>3, <1>5, <1>6, <1>7, <1>8, <1>9

(* A call of Dispose begins.                                               *)
LEMMA BeginDisposeStep ==
    ASSUME IInv, NEW d \in Disposer, BeginDispose(d)
    PROVE  IInv'
<1> USE DEF IInv
<1>1. /\ d \in Thread /\ call[d].at = "idle"
      /\ queue.alive = TRUE /\ ~Dropped /\ queue.mutex = Nobody
      /\ d # Worker
      /\ call[d] \in CallRecord
      /\ call'[d].at = (IF ViaClient THEN "terminate" ELSE "dispose") /\ call'[d].task = call[d].task
      /\ call'[d].rest = call[d].rest /\ call'[d].then = call[d].then
      /\ \A y \in Thread \ {d} : call'[y] = call[y]
      /\ queue'.mode = (IF ViaClient /\ queue.mode # "disposed" THEN "restricted" ELSE queue.mode)
      /\ queue'.mutex = queue.mutex /\ queue'.disposed = queue.disposed /\ queue'.tasks = queue.tasks
      /\ queue'.schedule = queue.schedule /\ queue'.alive = queue.alive
      /\ UNCHANGED <<task, blocks, cancelled, run, signalled>>
  <2>1. /\ d \in Thread /\ d # Worker /\ call[d].at = "idle" /\ queue.alive /\ ~Dropped
        /\ queue.mutex = Nobody /\ queue \in QueueRecord /\ call \in [Thread -> CallRecord]
        /\ UNCHANGED <<task, blocks, run, signalled, cancelled>>
    BY Threads DEF BeginDispose, Types
  <2>2. queue.alive = TRUE /\ call[d] \in CallRecord
    BY <2>1 DEF QueueRecord
  <2>3. call' = [call EXCEPT ![d].at = IF ViaClient THEN "terminate" ELSE "dispose"]
    BY DEF BeginDispose
  <2>4. /\ call'[d].at = (IF ViaClient THEN "terminate" ELSE "dispose")
        /\ call'[d].task = call[d].task /\ call'[d].rest = call[d].rest
        /\ call'[d].then = call[d].then
        /\ \A y \in Thread \ {d} : call'[y] = call[y]
    BY <2>1, <2>2, <2>3 DEF CallRecord
  <2>5. queue' = [queue EXCEPT !.mode = IF ViaClient /\ @ # "disposed" THEN "restricted" ELSE @]
    <3>1. CASE ViaClient
      BY <3>1 DEF BeginDispose
    <3>2. CASE ~ViaClient
      BY <3>2, <2>1 DEF BeginDispose, QueueRecord
    <3> QED
      BY <3>1, <3>2
  <2>6. /\ queue'.mode = (IF ViaClient /\ queue.mode # "disposed" THEN "restricted" ELSE queue.mode)
        /\ queue'.mutex = queue.mutex /\ queue'.disposed = queue.disposed
        /\ queue'.tasks = queue.tasks /\ queue'.schedule = queue.schedule
        /\ queue'.alive = queue.alive
    BY <2>1, <2>5 DEF QueueRecord
  <2> QED
    BY <2>1, <2>2, <2>4, <2>6
<1>2. /\ call' \in [Thread -> CallRecord]
      /\ queue' \in QueueRecord
      /\ UNCHANGED run
  BY Threads, <1>1 DEF BeginDispose, Types, CallRecord, Place, QueueRecord, Mode, RunRecord, Idle, InCall
<1>3. Types'
  BY <1>1, <1>2 DEF Types
<1>4. SameTasks /\ SameHolders
  <2>1. ASSUME NEW y \in Thread, NEW u \in Task
        PROVE  /\ Holds(y, u)' <=> Holds(y, u)
               /\ HasTaken(y, u)' => HasTaken(y, u)
               /\ Takes(y, u) => Takes(y, u)'
    BY <1>1 DEF Holds, HasTaken, Takes, InCall, Calls, CallFits
  <2> QED
    BY <2>1, <1>1 DEF SameTasks, SameHolders
<1>5. Tasks' /\ Count' /\ Live'
  BY <1>4, QuietStep
<1>6. Calls'
  <2>1. ASSUME NEW y \in Thread PROVE CallFits(y)'
    BY Threads, <1>1 DEF Calls, CallFits, InCall, DispatchFits
  <2>2. ASSUME NEW y \in Thread, call'[y].at = "dispatch"
        PROVE  queue'.mutex = y /\ DispatchFits(y)'
    BY Threads, <1>1, <2>2 DEF Calls, DispatchFits, InBlocks
  <2>3. WorkerFits'
    BY Threads, <1>1 DEF Calls, WorkerFits, InCall, InOperation, Operating, CallFits
  <2>4. queue'.mutex # Nobody => call'[queue'.mutex].at = "dispatch"
    BY Threads, <1>1 DEF Calls, Types, QueueRecord
  <2>5. queue'.mode = "disposed" => queue'.mutex = Nobody
    BY <1>1 DEF Calls, CallFits
  <2>6. \A u \in Api : call'[u].at \in {"idle", "dispatch"}
    BY Threads, <1>1 DEF Calls
  <2> QED
    BY <2>1, <2>2, <2>3, <2>4, <2>5, <2>6 DEF Calls
<1>7. Off'
  BY Threads, <1>1 DEF Off, CancelledNeverRuns, TurnedOff, Calls, CallFits, WorkerFits, InCall
<1>8. Past'
  BY Threads, <1>1 DEF Past, InCall, Calls, CallFits, WorkerFits
<1>9. ASSUME ViaClient PROVE Ending'
  BY Threads, <1>1, <1>9 DEF Ending, Waited, HasTaken, Dropped, Quiet, Calls, CallFits, WorkerFits, InCall, InOperation, Operating
<1> QED
  BY <1>3, <1>5, <1>6, <1>7, <1>8, <1>9

(* A new task, of a thread, a task or a call of Dispose.                   *)
Inserts(x, timer, final) ==
    \/ /\ x \in Api /\ call[x].at = "idle" /\ ~Dropped
       /\ timer = FALSE /\ final = FALSE
       /\ Insert(x, {"running"}, timer, final)
    \/ /\ x = Worker /\ run.at = "operation" /\ call[x].at = "idle"
       /\ final = FALSE
       /\ Insert(x, {"running"}, timer, final)
    \/ /\ x \in Disposer /\ call[x].at = "terminate"
       /\ timer = FALSE /\ final = TRUE
       /\ Insert(x, {"running", "restricted"}, timer, final)

(* There is an unused task whenever Insert asks for one.                   *)
LEMMA NewTaskIsUnused ==
    ASSUME NEW final \in BOOLEAN,
           IF final THEN Unused # {} ELSE Cardinality(Unused) > Reserved
    PROVE  NewTask \in Unused
<1>1. Unused # {}
  <2>1. Reserved \in Nat
    BY BoundAssumption, FS_CardinalityType DEF Reserved
  <2>2. Cardinality({}) = 0
    BY FS_EmptySet
  <2> QED
    BY <2>1, <2>2
<1> QED
  BY <1>1 DEF NewTask

(* A new task: the executor is its one owner.                              *)
LEMMA InsertStep ==
    ASSUME IInv, NEW x \in Thread, NEW timer \in BOOLEAN, NEW final \in BOOLEAN,
           Inserts(x, timer, final)
    PROVE  IInv'
<1> USE DEF IInv
<1>0. PICK t : t = NewTask
  OBVIOUS
<1>1. /\ t \in Task /\ task[t].state = "none"
      /\ queue.alive = TRUE /\ queue.mutex = Nobody /\ queue.mode # "disposed"
      /\ final = FALSE => queue.mode = "running"
      /\ task' = [task EXCEPT ![t] = [@ EXCEPT !.state = "initial", !.refs = 1,
                                               !.timer = timer, !.final = final]]
      /\ queue' = Inserted(x, t, timer)
      /\ call' = [call EXCEPT ![x] = [Idle EXCEPT !.at = "dispatch", !.task = t]]
      /\ UNCHANGED <<blocks, run, signalled, cancelled>>
  BY <1>0, NewTaskIsUnused DEF Inserts, Insert, Unused
<1>2. /\ \/ x \in Api /\ call[x].at = "idle" /\ ~Dropped /\ timer = FALSE /\ final = FALSE
         \/ x = Worker /\ run.at = "operation" /\ call[x].at = "idle" /\ final = FALSE
         \/ x \in Disposer /\ call[x].at = "terminate" /\ timer = FALSE /\ final = TRUE
      /\ \A u \in Task \ {t} : task'[u] = task[u]
      /\ task'[t].state = "initial" /\ task'[t].refs = 1 /\ task'[t].timer = timer
      /\ task'[t].final = final /\ task'[t].executor = task[t].executor
      /\ task'[t].mutex = task[t].mutex
      /\ queue'.mutex = x /\ queue'.tasks = queue.tasks \cup {t}
      /\ queue'.schedule = IF timer THEN queue.schedule \cup {t} ELSE queue.schedule
      /\ queue'.mode = queue.mode /\ queue'.disposed = queue.disposed
      /\ queue'.alive = queue.alive
      /\ call'[x].at = "dispatch" /\ call'[x].task = t /\ call'[x].rest = {}
      /\ call'[x].then = "idle"
      /\ \A y \in Thread \ {x} : call'[y] = call[y]
      /\ UNCHANGED <<blocks, run, signalled, cancelled>>
  BY <1>1 DEF Inserts, Types, TaskRecord, QueueRecord, Inserted, Idle
<1>3. Types'
  <2>1. task' \in [Task -> TaskRecord]
    <3>1. [task[t] EXCEPT !.state = "initial", !.refs = 1, !.timer = timer, !.final = final]
            \in TaskRecord
      BY <1>1 DEF Types, TaskRecord, State
    <3> QED
      BY <3>1, <1>1 DEF Types
  <2>2. queue' \in QueueRecord
    BY <1>1 DEF Types, QueueRecord, Inserted
  <2>3. call' \in [Thread -> CallRecord]
    BY <1>1 DEF Types, CallRecord, Idle, Place
  <2> QED
    BY <2>1, <2>2, <2>3, <1>2 DEF Types
<1>4. /\ t \notin queue.tasks /\ ~InBlocks(t) /\ run.task # t /\ task[t].executor = TRUE
      /\ \A y \in Thread : ~Holds(y, t)
  <2>1. Owners(t) = {} /\ task[t].executor = TRUE
    BY <1>1 DEF Tasks, TaskFits
  <2> QED
    BY <1>1, <2>1, OwnerNow DEF Owns
<1>5. ASSUME NEW y \in Thread, NEW u \in Task
      PROVE  /\ Holds(y, u)' <=> Holds(y, u)
             /\ HasTaken(y, u)' <=> HasTaken(y, u)
             /\ Takes(y, u)' <=> Takes(y, u)
  BY <1>2 DEF Holds, HasTaken, Takes, InCall, Calls, CallFits
<1>6. ASSUME NEW u \in Task, NEW o
      PROVE  Owns(o, u)' <=> Owns(o, u) \/ (o = "executor" /\ u = t)
  <2>1. InBlocks(u)' <=> InBlocks(u)
    BY <1>2 DEF InBlocks
  <2> QED
    BY <1>2, <1>5, <2>1 DEF Owns
<1>7. Count'
  <2> SUFFICES ASSUME NEW u \in Task PROVE Counted(task[u], Owners(u))'
    BY DEF Count
  <2>1. CASE u = t
    <3>1. Owners(t)' = {"executor"}
      <4>1. Owners(t) = {}
        BY <1>1 DEF Tasks, TaskFits
      <4> QED
        BY <1>1, <4>1, <1>6, OwnerNow, OwnerNext
    <3>2. /\ IsFiniteSet(Owners(t)') /\ Cardinality(Owners(t)') = 1 /\ Owners(t)' # {}
      BY <3>1, FS_Singleton
    <3>3. task'[t].refs = 1 /\ task'[t].state = "initial"
      BY <1>2
    <3> QED
      BY <2>1, <3>2, <3>3 DEF Counted
  <2>2. CASE u # t
    <3>1. \A o : o \in Owners(u)' <=> o \in Owners(u)
      BY <2>2, <1>6, OwnerNow, OwnerNext
    <3> QED
      BY <2>2, <3>1, <1>2, Keeps DEF Count
  <2> QED
    BY <2>1, <2>2
<1>8. Tasks'
  <2>1. ASSUME NEW u \in Task PROVE TaskFits(u)'
    <3>1. CASE u = t
      <4>1. \A y \in Thread : ~HasTaken(y, t)
        BY <1>4 DEF Holds, HasTaken, InCall
      <4>2. ~InRun(t)'
        BY <1>2, <1>4 DEF InRun
      <4>3. final = TRUE => timer = FALSE
        BY <1>2
      <4>4. t \in queue'.schedule => timer = TRUE
        BY <1>2, <1>4 DEF Types
      <4> QED
        BY <3>1, <4>1, <4>2, <4>3, <4>4, <1>2, <1>4, <1>5 DEF TaskFits
    <3>2. CASE u # t
      <4>1. TaskFits(u) /\ (InRun(u)' <=> InRun(u))
        BY <1>2 DEF Tasks, InRun
      <4>2. Owners(u) = {} => Owners(u)' = {}
        BY <3>2, <1>6, OwnerNow, OwnerNext
      <4> QED
        BY <3>2, <4>1, <4>2, <1>2, <1>5 DEF TaskFits
    <3> QED
      BY <3>1, <3>2
  <2>2. BlocksFit'
    <3>1. \A u : InBlocks(u)' <=> InBlocks(u)
      BY <1>2 DEF InBlocks
    <3>2. /\ \A u \in blocks.later : u \in Task \ {t}
          /\ \A i \in DOMAIN blocks.now : blocks.now[i] \in Task \ {t}
      BY <1>4 DEF Types, BlocksRecord, InBlocks
    <3> QED
      BY <3>1, <3>2, <1>2 DEF Tasks, BlocksFit
  <2> QED
    BY <2>1, <2>2 DEF Tasks
<1>9. Calls'
  <2>1. ASSUME NEW y \in Thread PROVE CallFits(y)'
    BY Threads, <1>2 DEF Calls, CallFits, InCall
  <2>2. ASSUME NEW y \in Thread, call'[y].at = "dispatch"
        PROVE  queue'.mutex = y /\ DispatchFits(y)'
    <3>1. y = x
      BY Threads, <1>1, <1>2, <2>2 DEF Calls
    <3> QED
      BY Threads, <3>1, <1>2, <1>4 DEF DispatchFits, InBlocks
  <2>3. WorkerFits'
    BY Threads, <1>2 DEF Calls, WorkerFits, InCall
  <2> QED
    BY Threads, <2>1, <2>2, <2>3, <1>1, <1>2 DEF Calls
<1>10. Off'
  <2>1. \A u \in cancelled : u # t
    BY <1>1 DEF Off, CancelledNeverRuns
  <2> QED
    BY Threads, <2>1, <1>1, <1>2 DEF Off, CancelledNeverRuns, TurnedOff, Types, Calls, CallFits, InCall
<1>11. Live'
  <2>1. ASSUME NEW u \in Task, Reachable(u) PROVE Reachable(u)'
    BY <2>1, <1>2, <1>5 DEF Reachable
  <2>2. Reachable(t)'
    BY <1>2 DEF Reachable
  <2>3. run.at = "completing" => run.task \in Task \ {t}
    BY <1>4 DEF Types, RunRecord, NoTask
  <2> QED
    BY <2>1, <2>2, <2>3, <1>2 DEF Live
<1>12. Past'
  BY Threads, <1>1, <1>2 DEF Past, InCall
<1>13. ASSUME ViaClient PROVE Ending'
  <2>1. ASSUME NEW u, Waited(u) PROVE Waited(u)'
    BY <2>1, <1>2 DEF Waited, HasTaken, Calls, CallFits, InCall
  <2>2. run.at = "operation" => run.task \in Task \ {t}
    BY <1>4 DEF Types, RunRecord, NoTask
  <2>3. final = TRUE => queue.mode # "running"
    BY <1>2, <1>13 DEF Ending
  <2> QED
    BY Threads, <1>13, <2>1, <2>2, <2>3, <1>1, <1>2 DEF Ending, Dropped, Quiet
<1> QED
  BY <1>3, <1>7, <1>8, <1>9, <1>10, <1>11, <1>12, <1>13

-----------------------------------------------------------------------------
(* Steps that change who owns a task.                                      *)

(* One owner less: what Release does to a task that is owned.              *)
LEMMA ReleaseFacts ==
    ASSUME Types, Tasks, Count, NEW t \in Task, NEW o, o \in Owners(t)
    PROVE  /\ Release(task, t) \in [Task -> TaskRecord]
           /\ \A u \in Task \ {t} : Release(task, t)[u] = task[u]
           /\ Release(task, t)[t].refs = task[t].refs - 1
           /\ Release(task, t)[t].state = IF task[t].refs = 1 THEN "deleted" ELSE task[t].state
           /\ Release(task, t)[t].executor = task[t].executor
           /\ Release(task, t)[t].timer = task[t].timer
           /\ Release(task, t)[t].final = task[t].final
           /\ Release(task, t)[t].mutex = task[t].mutex
           /\ task[t].state \notin {"none", "deleted"}
           /\ task[t].refs = 1 => Owners(t) = {o}
<1>1. task[t].state # "none" /\ task[t] \in TaskRecord
  BY DEF Tasks, TaskFits, Types
<1>2. IsFiniteSet(Owners(t)) /\ task[t].refs = Cardinality(Owners(t)) /\ task[t].state # "deleted"
  BY <1>1 DEF Count, Counted
<1>3. /\ IsFiniteSet(Owners(t) \ {o})
      /\ Cardinality(Owners(t) \ {o}) = Cardinality(Owners(t)) - 1
      /\ Cardinality(Owners(t) \ {o}) \in Nat
  BY <1>2, FS_RemoveElement, FS_CardinalityType
<1>4. Cardinality(Owners(t) \ {o}) = 0 => Owners(t) = {o}
  BY <1>3, FS_EmptySet
<1>5. task[t].refs - 1 \in Nat /\ task[t].refs \in Nat
  BY <1>1, <1>2, <1>3 DEF TaskRecord
<1>6. PICK s \in State : s = IF task[t].refs = 1 THEN "deleted" ELSE task[t].state
  BY <1>1 DEF TaskRecord, State
<1>7. [task[t] EXCEPT !.refs = task[t].refs - 1, !.state = s] \in TaskRecord
  BY <1>1, <1>5 DEF TaskRecord
<1>8. Release(task, t) = [task EXCEPT ![t] = [task[t] EXCEPT !.refs = task[t].refs - 1, !.state = s]]
  BY <1>1, <1>6 DEF Release, Types, TaskRecord
<1>9. /\ Release(task, t) \in [Task -> TaskRecord]
      /\ \A u \in Task \ {t} : Release(task, t)[u] = task[u]
      /\ Release(task, t)[t] = [task[t] EXCEPT !.refs = task[t].refs - 1, !.state = s]
  BY <1>7, <1>8 DEF Types
<1> QED
  BY <1>1, <1>2, <1>3, <1>4, <1>5, <1>6, <1>9 DEF TaskRecord

(* The dispatch queue is one owner more; the task is still in tasks_.      *)
LEMMA DispatchStep ==
    ASSUME IInv, NEW x \in Thread, Dispatch(x)
    PROVE  IInv'
<1> USE DEF IInv
<1>0. PICK t : t = call[x].task
  OBVIOUS
<1>1. /\ call[x].at = "dispatch" /\ queue.mutex = x
      /\ t \in queue.tasks /\ t \in Task /\ ~InBlocks(t) /\ run.task # t
      /\ task[t].state = "initial" /\ task[t] \in TaskRecord /\ call[x] \in CallRecord
      /\ task[t].final = TRUE => x \in Disposer
      /\ call[x].rest = {}
  BY <1>0 DEF Dispatch, Calls, DispatchFits, CallFits, InCall, Types, QueueRecord
<1>2. /\ task' \in [Task -> TaskRecord]
      /\ \A u \in Task \ {t} : task'[u] = task[u]
      /\ task'[t].refs = task[t].refs + 1 /\ task'[t].state = task[t].state
      /\ task'[t].executor = task[t].executor /\ task'[t].timer = task[t].timer
      /\ task'[t].final = task[t].final /\ task'[t].mutex = task[t].mutex
  <2>1. task' = [task EXCEPT ![t] = [task[t] EXCEPT !.refs = task[t].refs + 1]]
    BY <1>0, <1>1 DEF Dispatch, Retain, Types
  <2>2. [task[t] EXCEPT !.refs = task[t].refs + 1] \in TaskRecord
    BY <1>1 DEF TaskRecord
  <2> QED
    BY <2>1, <2>2, <1>1 DEF Types, TaskRecord
<1>3. /\ queue' \in QueueRecord /\ queue'.mutex = Nobody /\ queue'.mode = queue.mode
      /\ queue'.tasks = queue.tasks /\ queue'.schedule = queue.schedule
      /\ queue'.disposed = queue.disposed /\ queue'.alive = queue.alive
  BY <1>1 DEF Dispatch, Types, QueueRecord
<1>4. /\ call' \in [Thread -> CallRecord]
      /\ call'[x].at = IF task[t].final = TRUE THEN "signal" ELSE "idle"
      /\ call'[x].rest = {}
      /\ \A y \in Thread \ {x} : call'[y] = call[y]
  <2>1. call' = [call EXCEPT ![x] = IF task[t].final THEN [@ EXCEPT !.at = "signal"] ELSE Idle]
    BY <1>0 DEF Dispatch
  <2>2. CASE task[t].final = TRUE
    BY <2>1, <2>2, <1>1 DEF Types, CallRecord, Place
  <2>3. CASE task[t].final = FALSE
    BY <2>1, <2>3, <1>1 DEF Types, CallRecord, Place, Idle
  <2> QED
    BY <2>2, <2>3, <1>1 DEF TaskRecord
<1>5. UNCHANGED <<run, signalled, cancelled>>
  BY DEF Dispatch
<1>6. /\ blocks' \in BlocksRecord
      /\ \A u : InBlocks(u)' <=> InBlocks(u) \/ u = t
      /\ BlocksFit'
  <2>1. /\ \A u \in blocks.later : u \in Task /\ task'[u].timer = TRUE
        /\ \A i \in DOMAIN blocks.now : blocks.now[i] \in Task /\ task'[blocks.now[i]].timer = FALSE
    <3>1. /\ \A u \in blocks.later : u \in Task
          /\ \A i \in DOMAIN blocks.now : blocks.now[i] \in Task
      BY DEF Types, BlocksRecord
    <3> QED
      BY <3>1, <1>1, <1>2 DEF Tasks, BlocksFit
  <2>2. CASE task[t].timer = TRUE
    <3>1. blocks' = [blocks EXCEPT !.later = @ \cup {t}]
      BY <2>2, <1>0 DEF Dispatch
    <3>2. /\ blocks' \in BlocksRecord /\ blocks'.now = blocks.now
          /\ blocks'.later = blocks.later \cup {t}
      BY <3>1, <1>1 DEF Types, BlocksRecord
    <3>3. \A u : InBlocks(u)' <=> InBlocks(u) \/ u = t
      BY <3>2 DEF InBlocks
    <3> QED
      BY <2>1, <2>2, <3>2, <3>3, <1>1, <1>2, <1>5 DEF Tasks, BlocksFit
  <2>3. CASE task[t].timer = FALSE
    <3>1. blocks' = [blocks EXCEPT !.now = Append(@, t)] /\ blocks \in BlocksRecord
      BY <2>3, <1>0 DEF Dispatch, Types
    <3> PICK n \in Nat : n = Len(blocks.now)
      BY <3>1 DEF BlocksRecord
    <3>2. /\ blocks' \in BlocksRecord /\ blocks'.later = blocks.later
          /\ \A u : InBlocks(u)' <=> InBlocks(u) \/ u = t
          /\ DOMAIN blocks'.now = 1..(n + 1)
          /\ \A i \in DOMAIN blocks.now : blocks'.now[i] = blocks.now[i]
          /\ blocks'.now[n + 1] = t
      BY <3>1, <1>1, AppendedBlock
    <3>3. DOMAIN blocks.now = 1..n
      BY <3>1 DEF BlocksRecord
    <3>4. \A i \in 1..(n + 1) : i \in 1..n \/ i = n + 1
      OBVIOUS
    <3>5. \A i \in 1..n : blocks.now[i] # t
      BY <3>3, <1>1 DEF InBlocks
    <3>6. \A i, j \in 1..n : blocks.now[i] = blocks.now[j] => i = j
      BY <3>3 DEF Tasks, BlocksFit
    <3>7. \A i, j \in 1..(n + 1) : blocks'.now[i] = blocks'.now[j] => i = j
      BY <3>2, <3>3, <3>4, <3>5, <3>6
    <3>8. \A i \in 1..(n + 1) : task'[blocks'.now[i]].timer = FALSE
      BY <2>1, <2>3, <3>2, <3>3, <3>4, <1>2
    <3> QED
      BY <2>1, <3>2, <3>7, <3>8, <1>1, <1>5 DEF Tasks, BlocksFit
  <2> QED
    BY <2>2, <2>3, <1>1 DEF TaskRecord
<1>7. Types'
  BY <1>2, <1>3, <1>4, <1>5, <1>6 DEF Types
<1>8. ASSUME NEW y \in Thread, NEW u \in Task
      PROVE  /\ Holds(y, u)' <=> Holds(y, u)
             /\ HasTaken(y, u)' <=> HasTaken(y, u)
             /\ Takes(y, u)' <=> Takes(y, u)
  BY <1>1, <1>4 DEF Holds, HasTaken, Takes, InCall
<1>9. ASSUME NEW u \in Task, NEW o
      PROVE  Owns(o, u)' <=> Owns(o, u) \/ (o = "libdispatch" /\ u = t)
  BY <1>3, <1>5, <1>6, <1>8 DEF Owns
<1>10. Count'
  <2> SUFFICES ASSUME NEW u \in Task PROVE Counted(task[u], Owners(u))'
    BY DEF Count
  <2>1. CASE u = t
    <3>1. "libdispatch" \notin Owners(t)
      BY Threads, <1>1, OwnerNow DEF Owns
    <3>2. \A o : o \in Owners(t)' <=> o \in Owners(t) \/ o = "libdispatch"
      BY <1>1, <1>9, OwnerNow, OwnerNext
    <3>3. Counted(task[t], Owners(t))
      BY <1>1 DEF Count
    <3>4. task'[t] \in TaskRecord
      BY <1>1, <1>2
    <3>5. Counted(task'[t], Owners(t)')
      BY <3>1, <3>2, <3>3, <3>4, <1>1, <1>2, Gains
    <3> QED
      BY <2>1, <3>5
  <2>2. CASE u # t
    <3>1. \A o : o \in Owners(u)' <=> o \in Owners(u)
      BY <2>2, <1>9, OwnerNow, OwnerNext
    <3> QED
      BY <2>2, <3>1, <1>2, Keeps DEF Count
  <2> QED
    BY <2>1, <2>2
<1>11. Tasks'
  <2>1. ASSUME NEW u \in Task PROVE TaskFits(u)'
    <3>1. TaskFits(u) /\ (InRun(u)' <=> InRun(u))
      BY <1>5 DEF Tasks, InRun
    <3>2. u # t => (Owners(u) = {} => Owners(u)' = {})
      BY <1>9, OwnerNow, OwnerNext
    <3> QED
      BY <3>1, <3>2, <1>1, <1>2, <1>3, <1>5, <1>8 DEF TaskFits
  <2> QED
    BY <2>1, <1>6 DEF Tasks
<1>12. Calls'
  <2>1. ASSUME NEW y \in Thread PROVE CallFits(y)'
    BY Threads, <1>1, <1>3, <1>4 DEF Calls, CallFits, InCall
  <2>2. \A y \in Thread : call'[y].at # "dispatch"
    BY <1>1, <1>4 DEF Calls
  <2>3. WorkerFits'
    BY Threads, <1>1, <1>4, <1>5 DEF Calls, WorkerFits, InCall
  <2>4. \A u \in Api : call'[u].at \in {"idle", "dispatch"}
    BY Threads, <1>1, <1>4 DEF Calls, TaskRecord
  <2> QED
    BY <2>1, <2>2, <2>3, <2>4, <1>3 DEF Calls
<1>13. Off'
  BY Threads, <1>1, <1>2, <1>4, <1>5 DEF Off, CancelledNeverRuns, TurnedOff, Types, Calls, CallFits, InCall
<1>14. Live'
  <2>1. \A u \in Task : Reachable(u) => Reachable(u)'
    BY <1>3, <1>8 DEF Reachable
  <2>2. run.at = "completing" => run.task \in Task
    BY DEF Types, RunRecord, NoTask
  <2> QED
    BY <2>1, <2>2, <1>1, <1>2, <1>5 DEF Live
<1>15. Past'
  BY Threads, <1>3, <1>4 DEF Past, InCall
<1>16. ASSUME ViaClient PROVE Ending'
  <2>1. \A u : Waited(u) => Waited(u)'
    BY <1>1, <1>3, <1>4 DEF Waited, HasTaken
  <2>2. run.at = "operation" => run.task \in Task
    BY DEF Types, RunRecord, NoTask
  <2>3. queue.mode # "disposed"
    BY Threads, <1>1 DEF Calls
  <2>4. ~Dropped /\ queue.alive # FALSE
    <3>1. x = Worker => run.at = "operation"
      BY <1>1 DEF Calls, WorkerFits
    <3> QED
      BY Threads, <3>1, <1>1, <1>16 DEF Ending, Dropped, Quiet
  <2>5. ~Dropped'
    <3>1. x = Worker => run.at = "operation"
      BY <1>1 DEF Calls, WorkerFits
    <3> QED
      BY Threads, <2>4, <3>1, <1>4, <1>5 DEF Dropped
  <2>6. call'[Worker].at = "returned" => call[Worker].at = "returned"
    BY Threads, <1>4
  <2>7. /\ \A y \in Thread \ {x} : call'[y].at = call[y].at
        /\ call'[x].at \in {"idle", "signal"}
    BY <1>4
  <2>8. \A u \in Task : task'[u].final = task[u].final /\ task'[u].timer = task[u].timer
    BY <1>2
  <2>9. queue'.mode = "running" =>
          /\ \A u \in Task : task'[u].final = FALSE
          /\ \A y \in Thread : call'[y].at # "terminate"
          /\ signalled' = {}
    BY <1>16, <2>7, <2>8, <1>3, <1>5 DEF Ending
  <2>10. \A d \in Disposer :
           call'[d].at \notin {"idle", "terminate", "dispatch", "signal"} => signalled' # {}
    BY Threads, <1>16, <2>7, <1>5 DEF Ending
  <2> QED
    BY Threads, <1>16, <2>1, <2>2, <2>3, <2>4, <2>5, <2>6, <2>8, <2>9, <2>10, <1>3, <1>5 DEF Ending
<1> QED
  BY <1>7, <1>10, <1>11, <1>12, <1>13, <1>14, <1>15, <1>16

(* Cancel: the executor forgets the task, its owners stay.                 *)
LEMMA CancelStep ==
    ASSUME IInv, NEW x \in Thread, Cancel(x)
    PROVE  IInv'
<1> USE DEF IInv
<1>0. PICK t : t = call[x].task
  OBVIOUS
<1>1. /\ call[x].at = "cancel" /\ t \in Task /\ t \notin call[x].rest
      /\ task[t].mutex = Nobody /\ task[t] \in TaskRecord /\ call[x] \in CallRecord
      /\ HasTaken(x, t) /\ t \notin queue.tasks
  BY <1>0 DEF Cancel, Calls, CallFits, InCall, Types, HasTaken, Tasks, TaskFits
<1>2. /\ task' \in [Task -> TaskRecord]
      /\ \A u \in Task \ {t} : task'[u] = task[u]
      /\ task'[t].state = IF task[t].state = "initial" THEN "cancelled" ELSE task[t].state
      /\ task'[t].executor = IF task[t].state \in {"initial", "running"} THEN FALSE
                             ELSE task[t].executor
      /\ task'[t].refs = task[t].refs /\ task'[t].timer = task[t].timer
      /\ task'[t].final = task[t].final /\ task'[t].mutex = task[t].mutex
  <2>1. task' = Cancelled(t)
    BY <1>0 DEF Cancel
  <2>2. CASE task[t].state = "initial"
    BY <2>1, <2>2, <1>1 DEF Cancelled, Types, TaskRecord, State
  <2>3. CASE task[t].state = "running"
    BY <2>1, <2>3, <1>1 DEF Cancelled, Types, TaskRecord, State
  <2>4. CASE task[t].state \notin {"initial", "running"}
    BY <2>1, <2>4, <1>1 DEF Cancelled, Types
  <2> QED
    BY <2>2, <2>3, <2>4
<1>3. /\ call' \in [Thread -> CallRecord]
      /\ call'[x].at = IF task[t].state = "running" /\ x # Worker THEN "await" ELSE "release"
      /\ call'[x].task = t /\ call'[x].rest = call[x].rest /\ call'[x].then = call[x].then
      /\ \A y \in Thread \ {x} : call'[y] = call[y]
  BY <1>0, <1>1 DEF Cancel, MustAwait, Types, CallRecord, Place
<1>4. UNCHANGED <<queue, blocks, run, signalled, cancelled>>
  BY DEF Cancel
<1>5. Types'
  BY <1>2, <1>3, <1>4 DEF Types
<1>6. ASSUME NEW y \in Thread, NEW u \in Task
      PROVE  /\ Holds(y, u)' <=> Holds(y, u)
             /\ HasTaken(y, u)' => HasTaken(y, u)
             /\ u # t => (Takes(y, u)' <=> Takes(y, u))
  BY <1>0, <1>1, <1>3 DEF Holds, HasTaken, Takes, InCall
<1>7. \A u : InBlocks(u)' <=> InBlocks(u)
  BY <1>4 DEF InBlocks
<1>8. ASSUME NEW u \in Task PROVE \A o : o \in Owners(u)' <=> o \in Owners(u)
  BY <1>4, <1>6, <1>7, OwnerNow, OwnerNext DEF Owns
<1>9. task[t].state # "none"
  <2>1. x \in Owners(t)
    BY <1>0, <1>1, OwnerNow DEF Owns, Holds, InCall
  <2> QED
    BY <2>1, <1>1 DEF Tasks, TaskFits
<1>10. \A u \in Task : task'[u].timer = task[u].timer /\ task'[u].final = task[u].final
  BY <1>2
<1>11. Count'
  <2> SUFFICES ASSUME NEW u \in Task PROVE Counted(task[u], Owners(u))'
    BY DEF Count
  <2>1. /\ task'[u].refs = task[u].refs
        /\ task'[u].state = "none" \/ task[u].state # "none"
        /\ task'[u].state = "deleted" <=> task[u].state = "deleted"
    BY <1>2, <1>9
  <2> QED
    BY <2>1, <1>8, Keeps DEF Count
<1>12. Tasks'
  <2>1. ASSUME NEW u \in Task PROVE TaskFits(u)'
    <3>1. TaskFits(u) /\ (InRun(u)' <=> InRun(u))
      BY <1>4 DEF Tasks, InRun
    <3>2. Owners(u)' = Owners(u)
      BY <1>8
    <3>3. CASE u = t
      BY <3>1, <3>2, <3>3, <1>1, <1>2, <1>4, <1>6, <1>9 DEF TaskFits
    <3>4. CASE u # t
      BY <3>1, <3>2, <3>4, <1>2, <1>4, <1>6 DEF TaskFits
    <3> QED
      BY <3>3, <3>4
  <2>2. BlocksFit'
    <3>1. /\ \A u \in blocks.later : u \in Task
          /\ \A i \in DOMAIN blocks.now : blocks.now[i] \in Task
      BY DEF Types, BlocksRecord
    <3> QED
      BY <3>1, <1>4, <1>7, <1>10 DEF Tasks, BlocksFit
  <2> QED
    BY <2>1, <2>2 DEF Tasks
<1>13. Calls'
  <2>1. ASSUME NEW y \in Thread PROVE CallFits(y)'
    BY Threads, <1>0, <1>1, <1>3, <1>4 DEF Calls, CallFits, InCall
  <2>2. ASSUME NEW y \in Thread, call'[y].at = "dispatch"
        PROVE  queue'.mutex = y /\ DispatchFits(y)'
    <3>1. y # x /\ call'[y] = call[y] /\ call[y].at = "dispatch"
      BY <2>2, <1>3
    <3>2. queue.mutex = y /\ DispatchFits(y)
      BY <3>1 DEF Calls
    <3>3. call[y].task \in Task \ {t}
      BY <3>2, <1>1 DEF DispatchFits, Types, QueueRecord
    <3> QED
      BY <3>1, <3>2, <3>3, <1>2, <1>4, <1>7 DEF DispatchFits
  <2>3. WorkerFits'
    BY Threads, <1>1, <1>3, <1>4 DEF Calls, WorkerFits, InCall
  <2>4. queue'.mutex # Nobody => call'[queue'.mutex].at = "dispatch"
    BY <1>1, <1>3, <1>4 DEF Calls, Types, QueueRecord
  <2> QED
    BY Threads, <2>1, <2>2, <2>3, <2>4, <1>1, <1>3, <1>4 DEF Calls
<1>14. Off'
  <2>1. CancelledNeverRuns'
    BY <1>2, <1>4 DEF Off, CancelledNeverRuns, Types
  <2>2. CASE x = Worker
    BY Threads, <2>1, <2>2, <1>0, <1>1, <1>2, <1>3, <1>4 DEF Off, TurnedOff
  <2>3. CASE x # Worker
    <3>1. call'[Worker] = call[Worker]
      BY Threads, <2>3, <1>3
    <3>2. call[Worker].at \in InCall => call[Worker].task \in Task
      BY Threads DEF Calls, CallFits
    <3> QED
      BY <2>1, <3>1, <3>2, <1>2, <1>4 DEF Off, TurnedOff, InCall
  <2> QED
    BY <2>2, <2>3
<1>15. Live'
  <2>1. ASSUME NEW u \in Task, u # t, Reachable(u) PROVE Reachable(u)'
    BY <2>1, <1>4, <1>6 DEF Reachable
  <2>2. run.at = "completing" => run.task \in Task \ {t}
    BY Threads, <1>1 DEF Types, RunRecord, NoTask, Live
  <2> QED
    BY <2>1, <2>2, <1>2, <1>4 DEF Live
<1>16. Past'
  BY Threads, <1>1, <1>3, <1>4 DEF Past, InCall
<1>17. ASSUME ViaClient PROVE Ending'
  <2>1. run.at = "operation" /\ Waited(run.task) => Waited(run.task)'
    <3> SUFFICES ASSUME run.at = "operation", Waited(run.task) PROVE Waited(run.task)'
      OBVIOUS
    <3>1. run.task \in Task /\ task[run.task].state = "running"
      BY DEF Types, RunRecord, NoTask, Tasks, TaskFits, InRun
    <3>2. CASE run.task \in queue.tasks
      BY <3>2, <1>4 DEF Waited
    <3>3. ASSUME NEW y \in Thread \ {Worker}, HasTaken(y, run.task)
          PROVE  HasTaken(y, run.task)'
      BY <3>1, <3>3, <1>0, <1>1, <1>3, <1>4 DEF HasTaken
    <3> QED
      BY <3>2, <3>3, <1>4 DEF Waited
  <2>2. run.at = "operation" => run.task \in Task
    BY DEF Types, RunRecord, NoTask
  <2>3. /\ call'[x].at \in {"await", "release"}
        /\ \A y \in Thread \ {x} : call'[y].at = call[y].at
    BY <1>3
  <2>4. (signalled # {} => queue.schedule = {} \/ (run.at = "operation" /\ task'[run.task].final = TRUE))
    BY <1>10, <1>17, <2>2 DEF Ending
  <2>5. Dropped' <=> Dropped
    BY Threads, <1>1, <1>4, <2>3 DEF Dropped
  <2> QED
    BY Threads, <1>17, <2>1, <2>2, <2>3, <2>4, <2>5, <1>1, <1>4, <1>10 DEF Ending, Quiet
<1> QED
  BY <1>5, <1>11, <1>12, <1>13, <1>14, <1>15, <1>16, <1>17

(* The call is one owner less.                                             *)
LEMMA GiveUpStep ==
    ASSUME IInv, NEW x \in Thread, GiveUp(x)
    PROVE  IInv'
<1> USE DEF IInv
<1>0. PICK t : t = call[x].task
  OBVIOUS
<1>1. /\ call[x].at = "release" /\ t \in Task /\ t \notin call[x].rest
      /\ call[x] \in CallRecord
      /\ call[x].then # "next" => call[x].rest = {} /\ x = Worker
      /\ x \in Owners(t)
  BY <1>0, OwnerNow DEF GiveUp, Calls, CallFits, InCall, Types, Owns, Holds
<1>2. /\ task' = Release(task, t)
      /\ task' \in [Task -> TaskRecord]
      /\ \A u \in Task \ {t} : task'[u] = task[u]
      /\ task'[t].refs = task[t].refs - 1
      /\ task'[t].state = IF task[t].refs = 1 THEN "deleted" ELSE task[t].state
      /\ task'[t].executor = task[t].executor /\ task'[t].timer = task[t].timer
      /\ task'[t].final = task[t].final /\ task'[t].mutex = task[t].mutex
      /\ task[t].state \notin {"none", "deleted"}
      /\ task[t].refs = 1 => Owners(t) = {x}
  BY <1>0, <1>1, ReleaseFacts DEF GiveUp, Released
<1>3. /\ call' \in [Thread -> CallRecord]
      /\ call'[x].at = IF call[x].then = "next" THEN "next" ELSE "idle"
      /\ call'[x].rest = call[x].rest
      /\ call'[x].then = IF call[x].then = "next" THEN "next" ELSE "idle"
      /\ \A y \in Thread \ {x} : call'[y] = call[y]
  BY <1>1 DEF GiveUp, Types, CallRecord, Place, Idle
<1>4. /\ cancelled' = IF call[x].then = "off" /\ t # run.task THEN cancelled \cup {t} ELSE cancelled
      /\ UNCHANGED <<queue, blocks, run, signalled>>
  BY <1>0 DEF GiveUp
<1>5. Types'
  BY <1>1, <1>2, <1>3, <1>4 DEF Types
<1>6. ASSUME NEW y \in Thread, NEW u \in Task
      PROVE  /\ Holds(y, u)' <=> Holds(y, u) /\ ~(y = x /\ u = t)
             /\ HasTaken(y, u)' <=> HasTaken(y, u)
             /\ Takes(y, u)' <=> Takes(y, u)
  BY <1>0, <1>1, <1>3 DEF Holds, HasTaken, Takes, InCall
<1>7. \A u : InBlocks(u)' <=> InBlocks(u)
  BY <1>4 DEF InBlocks
<1>8. ASSUME NEW u \in Task, NEW o
      PROVE  o \in Owners(u)' <=> o \in Owners(u) /\ ~(o = x /\ u = t)
  BY Threads, <1>4, <1>6, <1>7, OwnerNow, OwnerNext DEF Owns
<1>9. Count'
  <2> SUFFICES ASSUME NEW u \in Task PROVE Counted(task[u], Owners(u))'
    BY DEF Count
  <2>1. CASE u = t
    <3>1. /\ task[t] \in TaskRecord /\ task'[t] \in TaskRecord
          /\ Counted(task[t], Owners(t)) /\ task[t].state # "none"
          /\ \A o : o \in Owners(t)' <=> o \in Owners(t) /\ o # x
      BY <1>1, <1>2, <1>8 DEF Types, Count
    <3>2. Counted(task'[t], Owners(t)')
      BY <3>1, <1>1, <1>2, Loses
    <3> QED
      BY <2>1, <3>2
  <2>2. CASE u # t
    <3>1. \A o : o \in Owners(u)' <=> o \in Owners(u)
      BY <2>2, <1>8
    <3> QED
      BY <2>2, <3>1, <1>2, Keeps DEF Count
  <2> QED
    BY <2>1, <2>2
<1>10. /\ t \in queue.tasks \/ run.task = t => task'[t].state = task[t].state
       /\ \A y \in Thread \ {x} : Holds(y, t) => task'[t].state = task[t].state
  <2>1. /\ t \in queue.tasks => "executor" \in Owners(t)
        /\ run.task = t => "libdispatch" \in Owners(t)
        /\ \A y \in Thread \ {x} : Holds(y, t) => y \in Owners(t)
    BY <1>1, OwnerNow DEF Owns
  <2> QED
    BY Threads, <2>1, <1>2
<1>11. \A u \in Task : task'[u].timer = task[u].timer /\ task'[u].final = task[u].final
  BY <1>2
<1>12. Tasks'
  <2>1. ASSUME NEW u \in Task PROVE TaskFits(u)'
    <3>1. TaskFits(u) /\ (InRun(u)' <=> InRun(u))
      BY <1>4 DEF Tasks, InRun
    <3>2. Owners(u) = {} => Owners(u)' = {}
      BY <1>8
    <3>3. CASE u = t
      <4>1. InRun(t) => task'[t].state = task[t].state
        BY <1>10 DEF InRun
      <4>2. task'[t].state = task[t].state \/ task'[t].state = "deleted"
        BY <1>2
      <4> QED
        BY <3>1, <3>3, <4>1, <4>2, <1>1, <1>2, <1>4, <1>6, <1>10 DEF TaskFits
    <3>4. CASE u # t
      BY <3>1, <3>2, <3>4, <1>2, <1>4, <1>6 DEF TaskFits
    <3> QED
      BY <3>3, <3>4
  <2>2. BlocksFit'
    <3>1. /\ \A u \in blocks.later : u \in Task
          /\ \A i \in DOMAIN blocks.now : blocks.now[i] \in Task
      BY DEF Types, BlocksRecord
    <3> QED
      BY <3>1, <1>4, <1>7, <1>11 DEF Tasks, BlocksFit
  <2> QED
    BY <2>1, <2>2 DEF Tasks
<1>13. Calls'
  <2>1. ASSUME NEW y \in Thread PROVE CallFits(y)'
    BY Threads, <1>0, <1>1, <1>3, <1>4 DEF Calls, CallFits, InCall
  <2>2. ASSUME NEW y \in Thread, call'[y].at = "dispatch"
        PROVE  queue'.mutex = y /\ DispatchFits(y)'
    <3>1. y # x /\ call'[y] = call[y] /\ call[y].at = "dispatch"
      BY <2>2, <1>3
    <3>2. queue.mutex = y /\ DispatchFits(y)
      BY <3>1 DEF Calls
    <3>3. call[y].task \in queue.tasks /\ call[y].task \in Task
      BY <3>2 DEF DispatchFits, Types, QueueRecord
    <3>4. task'[call[y].task].state = task[call[y].task].state
      BY <3>3, <1>2, <1>10
    <3> QED
      BY <3>1, <3>2, <3>3, <3>4, <1>4, <1>7, <1>11 DEF DispatchFits
  <2>3. WorkerFits'
    BY Threads, <1>1, <1>3, <1>4 DEF Calls, WorkerFits, InCall
  <2>4. queue'.mutex # Nobody => call'[queue'.mutex].at = "dispatch"
    BY <1>1, <1>3, <1>4 DEF Calls, Types, QueueRecord
  <2> QED
    BY Threads, <2>1, <2>2, <2>3, <2>4, <1>1, <1>3, <1>4 DEF Calls
<1>14. Off'
  <2>1. CancelledNeverRuns'
    <3>1. ASSUME call[x].then = "off", t # run.task PROVE task'[t].state \in {"cancelled", "deleted"}
      BY <3>1, <1>0, <1>1, <1>2 DEF Off, TurnedOff
    <3>2. \A u \in cancelled : u \in Task /\ task[u].state \in {"cancelled", "deleted"}
      BY DEF Off, CancelledNeverRuns, Types
    <3>3. \A u \in cancelled : task'[u].state \in {"cancelled", "deleted"}
      BY <3>2, <1>2
    <3> QED
      BY <3>1, <3>3, <1>4 DEF CancelledNeverRuns
  <2>2. CASE x = Worker
    BY Threads, <2>1, <2>2, <1>3 DEF Off
  <2>3. CASE x # Worker
    <3>1. call'[Worker] = call[Worker]
      BY Threads, <2>3, <1>3
    <3>2. call[Worker].at \in InCall =>
            call[Worker].task \in Task /\ Holds(Worker, call[Worker].task)
      BY Threads DEF Calls, CallFits, Holds
    <3>3. call[Worker].at \in InCall =>
            task'[call[Worker].task].state = task[call[Worker].task].state
      BY Threads, <2>3, <3>2, <1>2, <1>10
    <3> QED
      BY <2>1, <3>1, <3>3, <1>4 DEF Off, TurnedOff, InCall
  <2> QED
    BY <2>2, <2>3
<1>15. Live'
  <2>1. ASSUME NEW u \in Task, Reachable(u) PROVE Reachable(u)'
    BY <2>1, <1>4, <1>6 DEF Reachable
  <2>2. run.at = "completing" => run.task \in Task
    BY DEF Types, RunRecord, NoTask
  <2> QED
    BY <2>1, <2>2, <1>2, <1>4 DEF Live
<1>16. Past'
  BY Threads, <1>1, <1>3, <1>4 DEF Past, InCall
<1>17. ASSUME ViaClient PROVE Ending'
  <2>1. \A u \in Task : Waited(u) => Waited(u)'
    BY <1>4, <1>6 DEF Waited
  <2>2. run.at = "operation" => run.task \in Task
    BY DEF Types, RunRecord, NoTask
  <2>3. \A y \in Thread \ {x} : call'[y].at = call[y].at
    BY <1>3
  <2>4. x # Worker => call'[x].at = "next"
    BY <1>1, <1>3
  <2>5. x = Worker => (run.at = "cleared" <=> call[x].then = "next")
    BY <1>1 DEF Calls, WorkerFits, InCall
  <2>6. Dropped' <=> Dropped
    BY Threads, <2>3, <2>5, <1>1, <1>3, <1>4 DEF Dropped
  <2>7. Quiet(x)' => ~Dropped'
    BY Threads, <2>3, <2>4, <2>5, <1>1, <1>3, <1>4 DEF Quiet, Dropped
  <2>8. /\ ~Quiet(x) /\ call[x].at # "idle" /\ call'[x].at \in {"next", "idle"}
        /\ x \notin Api
    BY <1>1, <1>3 DEF Quiet, Calls
  <2> QED
    BY Threads, <1>17, <2>1, <2>2, <2>3, <2>4, <2>6, <2>8, <1>1, <1>4, <1>11 DEF Ending
<1> QED
  BY <1>5, <1>9, <1>12, <1>13, <1>14, <1>15, <1>16, <1>17

(* The call owns the tasks instead of the executor.                        *)
LEMMA SwapTasksStep ==
    ASSUME IInv, NEW x \in Thread, SwapTasks(x)
    PROVE  IInv'
<1> USE DEF IInv
<1>1. /\ call[x].at = "swap" /\ call[x].rest = {} /\ call[x] \in CallRecord
      /\ queue.mode = "disposed" /\ queue.mutex = Nobody
      /\ UNCHANGED <<task, blocks, run, signalled, cancelled>>
  BY DEF SwapTasks, Calls, CallFits, InCall, Types
<1>2. /\ queue' \in QueueRecord
      /\ queue'.disposed = TRUE /\ queue'.tasks = {} /\ queue'.schedule = {}
      /\ queue'.mode = queue.mode /\ queue'.mutex = queue.mutex /\ queue'.alive = queue.alive
      /\ queue.tasks \in SUBSET Task
  BY DEF SwapTasks, Types, QueueRecord
<1>3. /\ call' \in [Thread -> CallRecord]
      /\ call'[x].at = "next" /\ call'[x].rest = queue.tasks /\ call'[x].task = call[x].task
      /\ \A y \in Thread \ {x} : call'[y] = call[y]
  BY <1>1, <1>2 DEF SwapTasks, Types, CallRecord, Place
<1>4. Types'
  BY <1>1, <1>2, <1>3 DEF Types
<1>5. ASSUME NEW y \in Thread, NEW u
      PROVE  /\ Holds(y, u)' <=> Holds(y, u) \/ (y = x /\ u \in queue.tasks)
             /\ HasTaken(y, u)' <=> HasTaken(y, u) \/ (y = x /\ u \in queue.tasks)
             /\ Takes(y, u)' <=> Takes(y, u) \/ (y = x /\ u \in queue.tasks)
             /\ ~Holds(x, u)
  BY <1>1, <1>3 DEF Holds, HasTaken, Takes, InCall
<1>6. \A u : InBlocks(u)' <=> InBlocks(u)
  BY <1>1 DEF InBlocks
<1>7. ASSUME NEW u \in Task, NEW o
      PROVE  o \in Owners(u)' <=>
                 \/ o \in Owners(u) /\ ~(o = "executor" /\ u \in queue.tasks)
                 \/ o = x /\ u \in queue.tasks
  BY Threads, <1>1, <1>2, <1>5, <1>6, OwnerNow, OwnerNext DEF Owns
<1>8. Count'
  <2> SUFFICES ASSUME NEW u \in Task PROVE Counted(task[u], Owners(u))'
    BY DEF Count
  <2>1. CASE u \in queue.tasks
    <3>1. "executor" \in Owners(u) /\ x \notin Owners(u)
      BY Threads, <2>1, <1>5, OwnerNow DEF Owns
    <3>2. task[u].state # "none" /\ task[u] \in TaskRecord /\ Counted(task[u], Owners(u))
      BY <3>1 DEF Tasks, TaskFits, Types, Count
    <3>3. \A o : o \in Owners(u)' <=> (o \in Owners(u) /\ o # "executor") \/ o = x
      BY <2>1, <1>7
    <3>4. Counted(task[u], Owners(u)')
      BY <3>1, <3>2, <3>3, Exchanges
    <3> QED
      BY <3>4, <1>1
  <2>2. CASE u \notin queue.tasks
    <3>1. Owners(u)' = Owners(u)
      BY <2>2, <1>7
    <3> QED
      BY <3>1, <1>1 DEF Count
  <2> QED
    BY <2>1, <2>2
<1>9. Tasks'
  <2>1. ASSUME NEW u \in Task PROVE TaskFits(u)'
    <3>1. TaskFits(u) /\ (InRun(u)' <=> InRun(u))
      BY <1>1 DEF Tasks, InRun
    <3>2. Owners(u) = {} => Owners(u)' = {}
      <4>1. u \in queue.tasks => "executor" \in Owners(u)
        BY OwnerNow DEF Owns
      <4> QED
        BY <4>1, <1>7
    <3> QED
      BY <3>1, <3>2, <1>1, <1>2 DEF TaskFits
  <2> QED
    BY <2>1, <1>1, <1>6 DEF Tasks, BlocksFit
<1>10. Calls'
  <2>1. ASSUME NEW y \in Thread PROVE CallFits(y)'
    BY Threads, <1>1, <1>2, <1>3 DEF Calls, CallFits, InCall
  <2>2. \A y \in Thread : call'[y].at # "dispatch"
    BY Threads, <1>1, <1>3 DEF Calls
  <2>3. WorkerFits'
    BY Threads, <1>1, <1>3 DEF Calls, WorkerFits, InCall
  <2> QED
    BY Threads, <2>1, <2>2, <2>3, <1>1, <1>2, <1>3 DEF Calls
<1>11. Off'
  BY Threads, <1>1, <1>3 DEF Off, CancelledNeverRuns, TurnedOff
<1>12. Live'
  <2>1. ASSUME NEW u, Reachable(u) PROVE Reachable(u)'
    BY <2>1, <1>2, <1>5 DEF Reachable
  <2> QED
    BY <2>1, <1>1 DEF Live
<1>13. Past'
  BY <1>1, <1>2, <1>3 DEF Past, InCall
<1>14. ASSUME ViaClient PROVE Ending'
  <2>1. x = Worker => run.at = "cleared"
    BY <1>1 DEF Calls, WorkerFits
  <2>2. ASSUME NEW u, Waited(u), run.at = "operation" PROVE Waited(u)'
    BY <2>1, <2>2, <1>2, <1>5 DEF Waited
  <2>3. \A y \in Thread \ {x} : call'[y].at = call[y].at
    BY <1>3
  <2>4. Dropped' <=> Dropped
    BY Threads, <2>3, <1>1, <1>3 DEF Dropped
  <2> QED
    BY Threads, <1>14, <2>2, <2>3, <2>4, <1>1, <1>2, <1>3 DEF Ending, Quiet
<1> QED
  BY <1>4, <1>8, <1>9, <1>10, <1>11, <1>12, <1>13, <1>14

(* The block becomes the run: the dispatch queue is still the owner.       *)
LEMMA TakeStep ==
    ASSUME IInv, NEW t \in Task, Take(t)
    PROVE  IInv'
<1> USE DEF IInv
<1>1. /\ run.at = "idle" /\ run.task = NoTask /\ t \in Pending
      /\ task[t].mutex = Nobody /\ task[t] \in TaskRecord /\ blocks \in BlocksRecord
      /\ UNCHANGED <<queue, call, signalled, cancelled>>
  BY DEF Take, Types
<1>2. /\ blocks' \in BlocksRecord /\ BlocksFit' /\ InBlocks(t)
      /\ \A u : InBlocks(u)' <=> InBlocks(u) /\ u # t
  <2>1. /\ \A i \in DOMAIN blocks.now : blocks.now[i] \in Task /\ task[blocks.now[i]].timer = FALSE
        /\ \A i, j \in DOMAIN blocks.now : blocks.now[i] = blocks.now[j] => i = j
        /\ \A i \in DOMAIN blocks.now : blocks.now[i] \notin blocks.later
        /\ \A u \in blocks.later : u \in Task /\ task[u].timer = TRUE
    BY DEF Tasks, BlocksFit, Types, BlocksRecord
  <2>2. \A u \in Task : task'[u].timer = task[u].timer
    <3>1. CASE task[t].state = "initial"
      <4>1. task' = [task EXCEPT ![t].state = "running"]
        BY <3>1 DEF Take
      <4> QED
        BY <4>1, <1>1 DEF Types, TaskRecord
    <3>2. CASE task[t].state # "initial"
      BY <3>2 DEF Take
    <3> QED
      BY <3>1, <3>2
  <2>3. run'.task = t
    <3>1. CASE task[t].state = "initial"
      BY <3>1 DEF Take
    <3>2. CASE task[t].state # "initial"
      BY <3>2 DEF Take
    <3> QED
      BY <3>1, <3>2
  <2>4. CASE t \in blocks.later
    <3>1. blocks' = [blocks EXCEPT !.later = @ \ {t}]
      BY <2>4 DEF Take
    <3>2. blocks'.now = blocks.now /\ blocks'.later = blocks.later \ {t} /\ blocks' \in BlocksRecord
      BY <3>1, <1>1 DEF BlocksRecord
    <3>3. \A u : InBlocks(u)' <=> InBlocks(u) /\ u # t
      BY <2>1, <2>4, <3>2 DEF InBlocks
    <3>4. BlocksFit'
      BY <2>1, <2>2, <2>3, <3>2, <3>3 DEF BlocksFit
    <3> QED
      BY <2>4, <3>2, <3>3, <3>4 DEF InBlocks
  <2>5. CASE t \notin blocks.later
    <3>1. blocks.now # <<>> /\ t = Head(blocks.now) /\ blocks' = [blocks EXCEPT !.now = Tail(@)]
      BY <2>5, <1>1 DEF Take, Pending
    <3>2. /\ blocks' \in BlocksRecord /\ blocks'.later = blocks.later
          /\ \A u : InBlocks(u)' <=> InBlocks(u) /\ u # t
          /\ \A i \in DOMAIN blocks'.now :
                blocks'.now[i] = blocks.now[i + 1] /\ i + 1 \in DOMAIN blocks.now /\ i \in Nat
      BY <2>1, <3>1, <1>1, FirstBlockTaken
    <3>3. \A i, j \in DOMAIN blocks'.now : blocks'.now[i] = blocks'.now[j] => i = j
      <4> SUFFICES ASSUME NEW i \in DOMAIN blocks'.now, NEW j \in DOMAIN blocks'.now,
                          blocks'.now[i] = blocks'.now[j]
                   PROVE  i = j
        OBVIOUS
      <4>1. i + 1 = j + 1 /\ i \in Nat /\ j \in Nat
        BY <2>1, <3>2
      <4> QED
        BY <4>1
    <3>4. \A i \in DOMAIN blocks'.now : task'[blocks'.now[i]].timer = FALSE
      BY <2>1, <2>2, <3>2
    <3>5. BlocksFit'
      BY <2>1, <2>2, <2>3, <3>2, <3>3, <3>4 DEF BlocksFit
    <3>6. InBlocks(t)
      <4>1. Len(blocks.now) \in Nat /\ Len(blocks.now) # 0
            /\ t = blocks.now[1] /\ DOMAIN blocks.now = 1..Len(blocks.now)
        BY <3>1, <1>1 DEF BlocksRecord
      <4>2. 1 \in DOMAIN blocks.now
        BY <4>1
      <4> QED
        BY <4>1, <4>2 DEF InBlocks
    <3> QED
      BY <3>2, <3>5, <3>6
  <2> QED
    BY <2>4, <2>5
<1>3. /\ task' \in [Task -> TaskRecord]
      /\ \A u \in Task \ {t} : task'[u] = task[u]
      /\ task'[t].state = IF task[t].state = "initial" THEN "running" ELSE task[t].state
      /\ task'[t].refs = task[t].refs /\ task'[t].executor = task[t].executor
      /\ task'[t].timer = task[t].timer /\ task'[t].final = task[t].final
      /\ task'[t].mutex = task[t].mutex
      /\ run' \in RunRecord /\ run'.task = t
      /\ run'.at = IF task[t].state = "initial" THEN "operation" ELSE "last"
  <2>1. CASE task[t].state = "initial"
    <3>1. task' = [task EXCEPT ![t].state = "running"] /\ run' = [task |-> t, at |-> "operation"]
      BY <2>1 DEF Take
    <3> QED
      BY <2>1, <3>1, <1>1 DEF Types, TaskRecord, State, RunRecord
  <2>2. CASE task[t].state # "initial"
    <3>1. task' = task /\ run' = [task |-> t, at |-> "last"]
      BY <2>2 DEF Take
    <3> QED
      BY <2>2, <3>1, <1>1 DEF Types, RunRecord
  <2> QED
    BY <2>1, <2>2
<1>4. Types'
  BY Threads, <1>1, <1>2, <1>3 DEF Types
<1>5. /\ "libdispatch" \in Owners(t) /\ task[t].state # "none"
      /\ Quiet(Worker)
      /\ \A u : ~InRun(u)
  <2>1. "libdispatch" \in Owners(t)
    BY <1>2, OwnerNow DEF Owns
  <2> QED
    BY <2>1, <1>1 DEF Tasks, TaskFits, Calls, WorkerFits, Quiet, InRun
<1>6. ASSUME NEW u \in Task PROVE Owners(u)' = Owners(u)
  <2>1. ASSUME NEW o PROVE o \in Owners(u)' <=> o \in Owners(u)
    <3>1. InBlocks(u)' \/ run'.task = u <=> InBlocks(u) \/ run.task = u
      BY Threads, <1>1, <1>2, <1>3
    <3>2. o \in Thread => (Holds(o, u)' <=> Holds(o, u))
      BY <1>1 DEF Holds
    <3> QED
      BY <3>1, <3>2, <1>1, OwnerNow, OwnerNext DEF Owns
  <2> QED
    BY <2>1
<1>7. Count'
  <2> SUFFICES ASSUME NEW u \in Task PROVE Counted(task[u], Owners(u))'
    BY DEF Count
  <2>1. /\ task'[u].refs = task[u].refs
        /\ task'[u].state = "none" \/ task[u].state # "none"
        /\ task'[u].state = "deleted" <=> task[u].state = "deleted"
    BY <1>3, <1>5
  <2> QED
    BY <2>1, <1>6, Keeps DEF Count
<1>8. Tasks'
  <2>1. ASSUME NEW u \in Task PROVE TaskFits(u)'
    <3>1. TaskFits(u) /\ \A y \in Thread : HasTaken(y, u)' <=> HasTaken(y, u)
      BY <1>1 DEF Tasks, HasTaken
    <3>2. CASE u = t
      <4>1. InRun(t)' <=> task[t].state = "initial"
        BY <1>3 DEF InRun
      <4>2. task[t].state # "running" /\ run.task # t
        BY Threads, <1>1, <1>5 DEF Tasks, TaskFits
      <4>3. run'.at # "completing"
        BY <1>3
      <4> QED
        BY <3>1, <3>2, <4>1, <4>2, <4>3, <1>1, <1>3, <1>5 DEF TaskFits
    <3>3. CASE u # t
      <4>1. ~InRun(u)'
        BY <3>3, <1>3 DEF InRun
      <4> QED
        BY <3>1, <3>3, <4>1, <1>1, <1>3, <1>5, <1>6 DEF TaskFits
    <3> QED
      BY <3>2, <3>3
  <2> QED
    BY <2>1, <1>2 DEF Tasks
<1>9. Calls'
  <2>1. ASSUME NEW y \in Thread PROVE CallFits(y)'
    BY <1>1 DEF Calls, CallFits
  <2>2. ASSUME NEW y \in Thread, call'[y].at = "dispatch"
        PROVE  queue'.mutex = y /\ DispatchFits(y)'
    <3>1. queue.mutex = y /\ DispatchFits(y) /\ call'[y] = call[y]
      BY <2>2, <1>1 DEF Calls
    <3>2. call[y].task # t /\ call[y].task \in Task
      BY <3>1, <1>2 DEF DispatchFits, Types, QueueRecord
    <3> QED
      BY <3>1, <3>2, <1>1, <1>2, <1>3 DEF DispatchFits
  <2>3. WorkerFits'
    BY <1>1, <1>5 DEF WorkerFits, Quiet, InCall
  <2> QED
    BY Threads, <2>1, <2>2, <2>3, <1>1 DEF Calls
<1>10. Off'
  BY <1>1, <1>3, <1>5 DEF Off, CancelledNeverRuns, Quiet, Types
<1>11. /\ \A u : Reachable(u)' <=> Reachable(u)
       /\ task[t].state = "initial" => Reachable(t)
  BY <1>1 DEF Reachable, Takes, Live, Tasks, TaskFits
<1>12. Live'
  BY <1>3, <1>11 DEF Live
<1>13. Past'
  BY <1>1 DEF Past
<1>14. ASSUME ViaClient PROVE Ending'
  <2>1. task[t].state = "initial" => Waited(t)'
    BY Threads, <1>1, <1>5, <1>11 DEF Reachable, Waited, Takes, HasTaken, Quiet, Calls, CallFits, InCall
  <2>2. task[t].state = "initial" => queue.alive # FALSE
    BY <1>1, <1>11, <1>14 DEF Ending, Past, Reachable, Takes, Quiet, Calls, CallFits, InCall
  <2>3. \A u \in Task : task'[u].final = task[u].final /\ task'[u].timer = task[u].timer
    BY <1>3
  <2>4. ~Dropped /\ ~Dropped'
    BY <1>1, <1>3 DEF Dropped
  <2> QED
    BY <1>14, <2>1, <2>2, <2>3, <2>4, <1>1, <1>3 DEF Ending, Quiet
<1> QED
  BY <1>4, <1>7, <1>8, <1>9, <1>10, <1>12, <1>13, <1>14

(* Worker is one owner more.                                               *)
LEMMA WorkerAsksStep ==
    ASSUME IInv, WorkerAsks
    PROVE  IInv'
<1> USE DEF IInv
<1>0. PICK t \in queue.schedule :
         /\ task' = Retain(task, t)
         /\ call' = [call EXCEPT ![Worker] = [Idle EXCEPT !.at = "release", !.task = t]]
  BY DEF WorkerAsks
<1>1. /\ run.at = "operation" /\ call[Worker].at = "idle" /\ call[Worker].rest = {}
      /\ t \in Task /\ t \in queue.tasks /\ task[t] \in TaskRecord
      /\ UNCHANGED <<queue, blocks, run, signalled, cancelled>>
  BY Threads DEF WorkerAsks, Operating, InOperation, Types, QueueRecord, Calls, CallFits, InCall
<1>2. /\ task' \in [Task -> TaskRecord]
      /\ \A u \in Task \ {t} : task'[u] = task[u]
      /\ task'[t].refs = task[t].refs + 1 /\ task'[t].state = task[t].state
      /\ task'[t].executor = task[t].executor /\ task'[t].timer = task[t].timer
      /\ task'[t].final = task[t].final /\ task'[t].mutex = task[t].mutex
  <2>1. task' = [task EXCEPT ![t] = [task[t] EXCEPT !.refs = task[t].refs + 1]]
    BY <1>0, <1>1 DEF Retain, Types
  <2>2. [task[t] EXCEPT !.refs = task[t].refs + 1] \in TaskRecord
    BY <1>1 DEF TaskRecord
  <2> QED
    BY <2>1, <2>2, <1>1 DEF Types, TaskRecord
<1>3. /\ call' \in [Thread -> CallRecord]
      /\ call'[Worker].at = "release" /\ call'[Worker].task = t /\ call'[Worker].rest = {}
      /\ call'[Worker].then = "idle"
      /\ \A y \in Thread \ {Worker} : call'[y] = call[y]
  BY Threads, <1>0, <1>1 DEF Types, CallRecord, Place, Idle
<1>4. Types'
  BY <1>1, <1>2, <1>3 DEF Types
<1>5. ASSUME NEW y \in Thread, NEW u
      PROVE  /\ Holds(y, u)' <=> Holds(y, u) \/ (y = Worker /\ u = t)
             /\ HasTaken(y, u)' <=> HasTaken(y, u)
             /\ Takes(y, u)' <=> Takes(y, u)
             /\ ~Holds(Worker, u)
  BY <1>1, <1>3 DEF Holds, HasTaken, Takes, InCall
<1>6. \A u : InBlocks(u)' <=> InBlocks(u)
  BY <1>1 DEF InBlocks
<1>7. ASSUME NEW u \in Task, NEW o
      PROVE  o \in Owners(u)' <=> o \in Owners(u) \/ (o = Worker /\ u = t)
  BY Threads, <1>1, <1>5, <1>6, OwnerNow, OwnerNext DEF Owns
<1>8. /\ "executor" \in Owners(t) /\ Worker \notin Owners(t)
      /\ task[t].state \notin {"none", "deleted"}
  <2>1. "executor" \in Owners(t) /\ Worker \notin Owners(t)
    BY Threads, <1>1, <1>5, OwnerNow DEF Owns
  <2> QED
    BY <2>1, <1>1 DEF Tasks, TaskFits, Count, Counted
<1>9. Count'
  <2> SUFFICES ASSUME NEW u \in Task PROVE Counted(task[u], Owners(u))'
    BY DEF Count
  <2>1. CASE u = t
    <3>1. /\ task[t] \in TaskRecord /\ task'[t] \in TaskRecord /\ Counted(task[t], Owners(t))
          /\ \A o : o \in Owners(t)' <=> o \in Owners(t) \/ o = Worker
      BY <1>1, <1>2, <1>7 DEF Count
    <3>2. Counted(task'[t], Owners(t)')
      BY <3>1, <1>2, <1>8, Gains
    <3> QED
      BY <2>1, <3>2
  <2>2. CASE u # t
    <3>1. \A o : o \in Owners(u)' <=> o \in Owners(u)
      BY <2>2, <1>7
    <3> QED
      BY <2>2, <3>1, <1>2, Keeps DEF Count
  <2> QED
    BY <2>1, <2>2
<1>10. \A u \in Task : /\ task'[u].timer = task[u].timer /\ task'[u].final = task[u].final
                       /\ task'[u].state = task[u].state /\ task'[u].executor = task[u].executor
                       /\ task'[u].mutex = task[u].mutex
  BY <1>2
<1>11. Tasks'
  <2>1. ASSUME NEW u \in Task PROVE TaskFits(u)'
    <3>1. TaskFits(u) /\ (InRun(u)' <=> InRun(u))
      BY <1>1 DEF Tasks, InRun
    <3>2. u # t => Owners(u)' = Owners(u)
      BY <1>7
    <3> QED
      BY <3>1, <3>2, <1>1, <1>5, <1>8, <1>10 DEF TaskFits
  <2>2. BlocksFit'
    <3>1. /\ \A u \in blocks.later : u \in Task
          /\ \A i \in DOMAIN blocks.now : blocks.now[i] \in Task
      BY DEF Types, BlocksRecord
    <3> QED
      BY <3>1, <1>1, <1>6, <1>10 DEF Tasks, BlocksFit
  <2> QED
    BY <2>1, <2>2 DEF Tasks
<1>12. Calls'
  <2>1. ASSUME NEW y \in Thread PROVE CallFits(y)'
    BY Threads, <1>1, <1>3 DEF Calls, CallFits, InCall
  <2>2. ASSUME NEW y \in Thread, call'[y].at = "dispatch"
        PROVE  queue'.mutex = y /\ DispatchFits(y)'
    <3>1. y # Worker /\ call'[y] = call[y] /\ queue.mutex = y /\ DispatchFits(y)
      BY <2>2, <1>3 DEF Calls
    <3>2. call[y].task \in Task
      BY <3>1 DEF DispatchFits, Types, QueueRecord
    <3> QED
      BY <3>1, <3>2, <1>1, <1>6, <1>10 DEF DispatchFits
  <2>3. WorkerFits'
    BY <1>1, <1>3 DEF WorkerFits, InCall
  <2>4. queue'.mutex # Nobody => call'[queue'.mutex].at = "dispatch"
    BY <1>1, <1>3 DEF Calls, Types, QueueRecord
  <2> QED
    BY Threads, <2>1, <2>2, <2>3, <2>4, <1>1, <1>3 DEF Calls
<1>13. Off'
  BY <1>1, <1>3, <1>10 DEF Off, CancelledNeverRuns, Types
<1>14. Live'
  <2>1. ASSUME NEW u, Reachable(u) PROVE Reachable(u)'
    BY <2>1, <1>1, <1>5 DEF Reachable
  <2> QED
    BY <2>1, <1>1, <1>10 DEF Live
<1>15. Past'
  BY <1>1, <1>3 DEF Past, InCall
<1>16. ASSUME ViaClient PROVE Ending'
  <2>1. \A u : Waited(u) => Waited(u)'
    BY <1>1, <1>5 DEF Waited
  <2>2. run.task \in Task
    BY <1>1 DEF Types, RunRecord, NoTask
  <2>3. \A y \in Thread \ {Worker} : call'[y].at = call[y].at
    BY <1>3
  <2>4. ~Dropped /\ ~Dropped' /\ queue.alive # FALSE
    BY <1>1, <1>16 DEF Dropped, Ending
  <2> QED
    BY Threads, <1>16, <2>1, <2>2, <2>3, <2>4, <1>1, <1>3, <1>10 DEF Ending
<1> QED
  BY <1>4, <1>9, <1>11, <1>12, <1>13, <1>14, <1>15, <1>16

(* Worker owns the timer instead of the executor.                          *)
LEMMA WorkerCancelsStep ==
    ASSUME IInv, WorkerCancels
    PROVE  IInv'
<1> USE DEF IInv
<1>0. PICK t \in queue.schedule :
         /\ queue' = Taken(t)
         /\ call' = [call EXCEPT ![Worker] =
                        [Idle EXCEPT !.at = "cancel", !.task = t, !.then = "off"]]
  BY DEF WorkerCancels
<1>1. /\ run.at = "operation" /\ call[Worker].at = "idle" /\ call[Worker].rest = {}
      /\ t \in Task /\ t \in queue.tasks /\ task[t].timer = TRUE
      /\ UNCHANGED <<task, blocks, run, signalled, cancelled>>
  BY Threads DEF WorkerCancels, Operating, InOperation, Types, QueueRecord, Calls, CallFits, InCall,
                 Tasks, TaskFits
<1>2. /\ queue' \in QueueRecord
      /\ queue'.tasks = queue.tasks \ {t} /\ queue'.schedule = queue.schedule \ {t}
      /\ queue'.mode = queue.mode /\ queue'.mutex = queue.mutex
      /\ queue'.disposed = queue.disposed /\ queue'.alive = queue.alive
  BY <1>0 DEF Taken, Types, QueueRecord
<1>3. /\ call' \in [Thread -> CallRecord]
      /\ call'[Worker].at = "cancel" /\ call'[Worker].task = t /\ call'[Worker].rest = {}
      /\ call'[Worker].then = "off"
      /\ \A y \in Thread \ {Worker} : call'[y] = call[y]
  BY Threads, <1>0, <1>1 DEF Types, CallRecord, Place, Idle
<1>4. Types'
  BY <1>1, <1>2, <1>3 DEF Types
<1>5. ASSUME NEW y \in Thread, NEW u
      PROVE  /\ Holds(y, u)' <=> Holds(y, u) \/ (y = Worker /\ u = t)
             /\ HasTaken(y, u)' <=> HasTaken(y, u) \/ (y = Worker /\ u = t)
             /\ Takes(y, u)' <=> Takes(y, u) \/ (y = Worker /\ u = t)
             /\ ~Holds(Worker, u)
  BY <1>1, <1>3 DEF Holds, HasTaken, Takes, InCall
<1>6. \A u : InBlocks(u)' <=> InBlocks(u)
  BY <1>1 DEF InBlocks
<1>7. ASSUME NEW u \in Task, NEW o
      PROVE  o \in Owners(u)' <=>
                 \/ o \in Owners(u) /\ ~(o = "executor" /\ u = t)
                 \/ o = Worker /\ u = t
  BY Threads, <1>1, <1>2, <1>5, <1>6, OwnerNow, OwnerNext DEF Owns
<1>8. Count'
  <2> SUFFICES ASSUME NEW u \in Task PROVE Counted(task[u], Owners(u))'
    BY DEF Count
  <2>1. CASE u = t
    <3>1. "executor" \in Owners(t) /\ Worker \notin Owners(t)
      BY Threads, <1>1, <1>5, OwnerNow DEF Owns
    <3>2. /\ task[t] \in TaskRecord /\ Counted(task[t], Owners(t)) /\ task[t].state # "none"
          /\ \A o : o \in Owners(t)' <=> (o \in Owners(t) /\ o # "executor") \/ o = Worker
      BY <3>1, <1>1, <1>7 DEF Count, Types, Tasks, TaskFits
    <3>3. Counted(task[t], Owners(t)')
      BY <3>1, <3>2, Exchanges
    <3> QED
      BY <2>1, <3>3, <1>1
  <2>2. CASE u # t
    <3>1. Owners(u)' = Owners(u)
      BY <2>2, <1>7
    <3> QED
      BY <3>1, <1>1 DEF Count
  <2> QED
    BY <2>1, <2>2
<1>9. Tasks'
  <2>1. ASSUME NEW u \in Task PROVE TaskFits(u)'
    <3>1. TaskFits(u) /\ (InRun(u)' <=> InRun(u))
      BY <1>1 DEF Tasks, InRun
    <3>2. Owners(u) = {} => Owners(u)' = {}
      <4>1. "executor" \in Owners(t)
        BY <1>1, OwnerNow DEF Owns
      <4> QED
        BY <4>1, <1>7
    <3> QED
      BY <3>1, <3>2, <1>1, <1>2, <1>5 DEF TaskFits
  <2> QED
    BY <2>1, <1>1, <1>6 DEF Tasks, BlocksFit
<1>10. Calls'
  <2>1. ASSUME NEW y \in Thread PROVE CallFits(y)'
    BY Threads, <1>1, <1>2, <1>3 DEF Calls, CallFits, InCall
  <2>2. ASSUME NEW y \in Thread, call'[y].at = "dispatch"
        PROVE  queue'.mutex = y /\ DispatchFits(y)'
    <3>1. y # Worker /\ call'[y] = call[y] /\ queue.mutex = y /\ DispatchFits(y)
      BY <2>2, <1>3 DEF Calls
    <3>2. call[y].task # t
      BY <3>1, <1>1 DEF DispatchFits
    <3> QED
      BY <3>1, <3>2, <1>1, <1>2, <1>6 DEF DispatchFits
  <2>3. WorkerFits'
    BY <1>1, <1>3 DEF WorkerFits, InCall
  <2>4. queue'.mutex # Nobody => call'[queue'.mutex].at = "dispatch"
    BY <1>1, <1>2, <1>3 DEF Calls, Types, QueueRecord
  <2> QED
    BY Threads, <2>1, <2>2, <2>3, <2>4, <1>1, <1>2, <1>3 DEF Calls
<1>11. Off'
  <2>1. task[t].state = "initial" \/ t = run.task
    BY <1>1 DEF Tasks, TaskFits, InRun
  <2> QED
    BY <2>1, <1>1, <1>3 DEF Off, CancelledNeverRuns, TurnedOff
<1>12. Live'
  <2>1. ASSUME NEW u, Reachable(u) PROVE Reachable(u)'
    BY Threads, <2>1, <1>2, <1>5 DEF Reachable
  <2> QED
    BY <2>1, <1>1 DEF Live
<1>13. Past'
  BY <1>1, <1>2, <1>3 DEF Past, InCall
<1>14. ASSUME ViaClient PROVE Ending'
  <2>1. run.task \in Task
    BY <1>1 DEF Types, RunRecord, NoTask
  <2>2. signalled # {} => run.task # t
    <3>1. signalled # {} => task[run.task].final = TRUE
      BY <1>1, <1>14 DEF Ending
    <3> QED
      BY <3>1, <1>1 DEF Tasks, TaskFits
  <2>3. ASSUME NEW u, u # t, Waited(u) PROVE Waited(u)'
    BY <2>3, <1>2, <1>5 DEF Waited
  <2>4. Waited(run.task)' \/ (task[run.task].timer = TRUE /\ signalled = {})
    BY <2>2, <2>3, <1>1, <1>14 DEF Ending
  <2>5. \A y \in Thread \ {Worker} : call'[y].at = call[y].at
    BY <1>3
  <2>6. ~Dropped /\ ~Dropped' /\ queue.alive # FALSE
    BY <1>1, <1>14 DEF Dropped, Ending
  <2> QED
    BY Threads, <1>14, <2>1, <2>4, <2>5, <2>6, <1>1, <1>2, <1>3 DEF Ending
<1> QED
  BY <1>4, <1>8, <1>9, <1>10, <1>11, <1>12, <1>13, <1>14

-----------------------------------------------------------------------------
(* The end of a task.                                                      *)

(* The task is done, and stays in tasks_ only to be completed.             *)
LEMMA CompleteStep ==
    ASSUME IInv, Complete
    PROVE  IInv'
<1> USE DEF IInv
<1>0. PICK t : t = run.task
  OBVIOUS
<1>1. /\ run.at = "cleared" /\ run.task = t /\ t \in Task /\ InRun(t)
      /\ task[t] \in TaskRecord /\ task[t].state = "running"
      /\ call[Worker].at = "idle" \/ (call[Worker].at = "returned" /\ queue.alive = FALSE)
      /\ UNCHANGED <<queue, blocks, call, signalled, cancelled>>
  <2>1. run.at = "cleared" /\ t \in Task /\ InRun(t)
    BY <1>0 DEF Complete, Types, RunRecord, NoTask, InRun
  <2> QED
    BY <1>0, <2>1 DEF Complete, Types, QueueRecord, Tasks, TaskFits
<1>2. /\ task' \in [Task -> TaskRecord]
      /\ \A u \in Task \ {t} : task'[u] = task[u]
      /\ task'[t].state = "done" /\ task'[t].refs = task[t].refs
      /\ task'[t].executor = task[t].executor /\ task'[t].timer = task[t].timer
      /\ task'[t].final = task[t].final
      /\ task[t].executor = TRUE => task'[t].mutex = Worker
      /\ run' \in RunRecord /\ run'.task = t
      /\ run'.at = IF task[t].executor = TRUE THEN "completing" ELSE "last"
  <2>1. /\ task' = [task EXCEPT ![t].state = "done",
                                ![t].mutex = IF task[t].executor THEN Worker ELSE Nobody]
        /\ run' = [run EXCEPT !.at = IF task[t].executor THEN "completing" ELSE "last"]
    BY <1>0 DEF Complete
  <2>2. CASE task[t].executor = TRUE
    BY <2>1, <2>2, <1>1 DEF Types, TaskRecord, State, RunRecord
  <2>3. CASE task[t].executor = FALSE
    BY <2>1, <2>3, <1>1 DEF Types, TaskRecord, State, RunRecord
  <2> QED
    BY <2>2, <2>3, <1>1 DEF TaskRecord
<1>3. Types'
  BY Threads, <1>1, <1>2 DEF Types
<1>4. /\ Quiet(Worker)
      /\ \A u \in Task : InRun(u) <=> u = t
      /\ \A u \in Task : ~InRun(u)'
  BY <1>1, <1>2 DEF Quiet, InRun
<1>5. ASSUME NEW u \in Task PROVE Owners(u)' = Owners(u)
  <2>1. ASSUME NEW o PROVE o \in Owners(u)' <=> o \in Owners(u)
    <3>1. InBlocks(u)' \/ run'.task = u <=> InBlocks(u) \/ run.task = u
      BY <1>1, <1>2 DEF InBlocks
    <3>2. o \in Thread => (Holds(o, u)' <=> Holds(o, u))
      BY <1>1 DEF Holds
    <3> QED
      BY <3>1, <3>2, <1>1, OwnerNow, OwnerNext DEF Owns
  <2> QED
    BY <2>1
<1>6. Count'
  <2> SUFFICES ASSUME NEW u \in Task PROVE Counted(task[u], Owners(u))'
    BY DEF Count
  <2>1. /\ task'[u].refs = task[u].refs
        /\ task'[u].state = "none" \/ task[u].state # "none"
        /\ task'[u].state = "deleted" <=> task[u].state = "deleted"
    BY <1>1, <1>2
  <2> QED
    BY <2>1, <1>5, Keeps DEF Count
<1>7. Tasks'
  <2>1. ASSUME NEW u \in Task PROVE TaskFits(u)'
    <3>1. TaskFits(u) /\ \A y \in Thread : HasTaken(y, u)' <=> HasTaken(y, u)
      BY <1>1 DEF Tasks, HasTaken
    <3>2. CASE u = t
      BY <3>1, <3>2, <1>1, <1>2, <1>4 DEF TaskFits
    <3>3. CASE u # t
      BY <3>1, <3>3, <1>1, <1>2, <1>4, <1>5 DEF TaskFits
    <3> QED
      BY <3>2, <3>3
  <2>2. BlocksFit'
    <3>1. /\ \A u \in blocks.later : u \in Task
          /\ \A i \in DOMAIN blocks.now : blocks.now[i] \in Task
      BY DEF Types, BlocksRecord
    <3>2. \A u \in Task : task'[u].timer = task[u].timer
      BY <1>2
    <3>3. InBlocks(run.task)' <=> InBlocks(run.task)
      BY <1>1, <1>2 DEF InBlocks
    <3> QED
      BY <3>1, <3>2, <3>3, <1>1, <1>2 DEF Tasks, BlocksFit
  <2> QED
    BY <2>1, <2>2 DEF Tasks
<1>8. Calls'
  <2>1. ASSUME NEW y \in Thread PROVE CallFits(y)'
    BY <1>1 DEF Calls, CallFits
  <2>2. ASSUME NEW y \in Thread, call'[y].at = "dispatch"
        PROVE  queue'.mutex = y /\ DispatchFits(y)'
    <3>1. queue.mutex = y /\ DispatchFits(y) /\ call'[y] = call[y]
      BY <2>2, <1>1 DEF Calls
    <3>2. call[y].task # t /\ call[y].task \in Task
      BY <3>1, <1>1 DEF DispatchFits, Types, QueueRecord
    <3>3. InBlocks(call[y].task)' <=> InBlocks(call[y].task)
      BY <1>1 DEF InBlocks
    <3> QED
      BY <3>1, <3>2, <3>3, <1>1, <1>2 DEF DispatchFits
  <2>3. WorkerFits'
    BY <1>1, <1>4 DEF WorkerFits, Quiet, InCall
  <2> QED
    BY Threads, <2>1, <2>2, <2>3, <1>1 DEF Calls
<1>9. Off'
  BY <1>1, <1>2, <1>4 DEF Off, CancelledNeverRuns, Quiet, Types
<1>10. /\ \A u : Reachable(u)' <=> Reachable(u)
       /\ task[t].executor = TRUE => Reachable(t)
  BY <1>1 DEF Reachable, Takes, Live
<1>11. Live'
  BY <1>1, <1>2, <1>10 DEF Live
<1>12. Past'
  BY <1>1 DEF Past
<1>13. ASSUME ViaClient PROVE Ending'
  <2>1. task[t].executor = TRUE => queue.alive # FALSE
    BY <1>10, <1>13 DEF Ending, Past, Reachable, Takes, Quiet, Calls, CallFits, InCall
  <2>2. \A u \in Task : task'[u].final = task[u].final
    BY <1>2
  <2>3. ~Dropped' /\ (Dropped => queue.alive = FALSE)
    BY <1>1, <1>2 DEF Dropped
  <2> QED
    BY <1>13, <2>1, <2>2, <2>3, <1>1, <1>2 DEF Ending, Quiet
<1> QED
  BY <1>3, <1>6, <1>7, <1>8, <1>9, <1>11, <1>12, <1>13

(* The executor is one owner less, unless a call has taken the task.       *)
LEMMA OnCompletionStep ==
    ASSUME IInv, OnCompletion
    PROVE  IInv'
<1> USE DEF IInv
<1>0. PICK t : t = run.task
  OBVIOUS
<1>1. /\ run.at = "completing" /\ run.task = t /\ t \in Task
      /\ task[t] \in TaskRecord /\ task[t].state = "done"
      /\ run' = [run EXCEPT !.at = "last"]
      /\ UNCHANGED <<blocks, call, signalled, cancelled>>
  <2>1. run.at = "completing" /\ t \in Task
    BY <1>0 DEF OnCompletion, Types, RunRecord, NoTask
  <2> QED
    BY <1>0, <2>1 DEF OnCompletion, Types, Tasks, TaskFits
<1>2. run' \in RunRecord /\ run'.task = t /\ run'.at = "last"
  BY <1>1 DEF Types, RunRecord
<1>3. "libdispatch" \in Owners(t) /\ (t \in queue.tasks <=> "executor" \in Owners(t))
  BY Threads, <1>1, OwnerNow DEF Owns
<1>4. /\ task' \in [Task -> TaskRecord]
      /\ \A u \in Task \ {t} : task'[u] = task[u]
      /\ task'[t].refs = IF t \in queue.tasks THEN task[t].refs - 1 ELSE task[t].refs
      /\ task'[t].state = "done"
      /\ t \in queue.tasks => task[t].refs # 1
      /\ task'[t].executor = task[t].executor /\ task'[t].timer = task[t].timer
      /\ task'[t].final = task[t].final
  <2>1. CASE t \in queue.tasks
    <3>1. task' = [Release(task, t) EXCEPT ![t].mutex = Nobody]
      BY <2>1, <1>0 DEF OnCompletion
    <3>2. /\ Release(task, t) \in [Task -> TaskRecord]
          /\ \A u \in Task \ {t} : Release(task, t)[u] = task[u]
          /\ Release(task, t)[t].refs = task[t].refs - 1
          /\ Release(task, t)[t].state = IF task[t].refs = 1 THEN "deleted" ELSE task[t].state
          /\ Release(task, t)[t].executor = task[t].executor
          /\ Release(task, t)[t].timer = task[t].timer
          /\ Release(task, t)[t].final = task[t].final
          /\ task[t].refs = 1 => Owners(t) = {"executor"}
      BY <2>1, <1>1, <1>3, ReleaseFacts
    <3>3. task[t].refs # 1
      BY <3>2, <1>3
    <3>4. Release(task, t)[t] \in TaskRecord
      BY <3>2, <1>1
    <3> QED
      BY <2>1, <3>1, <3>2, <3>3, <3>4, <1>1 DEF TaskRecord
  <2>2. CASE t \notin queue.tasks
    <3>1. task' = [task EXCEPT ![t].mutex = Nobody]
      BY <2>2, <1>0 DEF OnCompletion
    <3> QED
      BY <2>2, <3>1, <1>1 DEF Types, TaskRecord
  <2> QED
    BY <2>1, <2>2
<1>5. /\ queue' \in QueueRecord
      /\ queue'.tasks = queue.tasks \ {t}
      /\ queue'.mode = queue.mode /\ queue'.mutex = queue.mutex
      /\ queue'.disposed = queue.disposed /\ queue'.alive = queue.alive
      /\ queue'.schedule = queue.schedule \ {t}
  <2>1. CASE t \in queue.tasks
    BY <2>1, <1>0 DEF OnCompletion, Taken, Types, QueueRecord
  <2>2. CASE t \notin queue.tasks
    BY <2>2, <1>0 DEF OnCompletion, Types, QueueRecord
  <2> QED
    BY <2>1, <2>2
<1>6. Types'
  BY Threads, <1>1, <1>2, <1>4, <1>5 DEF Types
<1>7. ASSUME NEW u \in Task, NEW o
      PROVE  o \in Owners(u)' <=> o \in Owners(u) /\ ~(o = "executor" /\ u = t)
  <2>1. InBlocks(u)' \/ run'.task = u <=> InBlocks(u) \/ run.task = u
    BY <1>1, <1>2 DEF InBlocks
  <2>2. o \in Thread => (Holds(o, u)' <=> Holds(o, u))
    BY <1>1 DEF Holds
  <2> QED
    BY Threads, <2>1, <2>2, <1>5, OwnerNow, OwnerNext DEF Owns
<1>8. Count'
  <2> SUFFICES ASSUME NEW u \in Task PROVE Counted(task[u], Owners(u))'
    BY DEF Count
  <2>1. CASE u = t /\ t \in queue.tasks
    <3>1. /\ task[t] \in TaskRecord /\ task'[t] \in TaskRecord /\ Counted(task[t], Owners(t))
          /\ \A o : o \in Owners(t)' <=> o \in Owners(t) /\ o # "executor"
      BY <1>1, <1>4, <1>7 DEF Count
    <3>2. /\ task'[t].refs = task[t].refs - 1 /\ task[t].state # "none"
          /\ task'[t].state = IF task[t].refs = 1 THEN "deleted" ELSE task[t].state
          /\ "executor" \in Owners(t)
      BY <2>1, <1>1, <1>3, <1>4
    <3>3. Counted(task'[t], Owners(t)')
      BY <3>1, <3>2, Loses
    <3> QED
      BY <2>1, <3>3
  <2>2. CASE ~(u = t /\ t \in queue.tasks)
    <3>1. \A o : o \in Owners(u)' <=> o \in Owners(u)
      BY <2>2, <1>3, <1>7
    <3>2. task'[u].refs = task[u].refs /\ task'[u].state = task[u].state
      BY <2>2, <1>1, <1>4
    <3> QED
      BY <3>1, <3>2, Keeps DEF Count
  <2> QED
    BY <2>1, <2>2
<1>9. \A u \in Task : /\ task'[u].state = task[u].state /\ task'[u].executor = task[u].executor
                      /\ task'[u].timer = task[u].timer /\ task'[u].final = task[u].final
  BY <1>1, <1>4
<1>10. Tasks'
  <2>1. ASSUME NEW u \in Task PROVE TaskFits(u)'
    <3>1. TaskFits(u) /\ \A y \in Thread : HasTaken(y, u)' <=> HasTaken(y, u)
      BY <1>1 DEF Tasks, HasTaken
    <3>2. ~InRun(u) /\ ~InRun(u)'
      BY <1>1, <1>2 DEF InRun
    <3>3. Owners(u) = {} => Owners(u)' = {}
      BY <1>7
    <3> QED
      BY <3>1, <3>2, <3>3, <1>1, <1>2, <1>5, <1>9 DEF TaskFits
  <2>2. BlocksFit'
    <3>1. /\ \A u \in blocks.later : u \in Task
          /\ \A i \in DOMAIN blocks.now : blocks.now[i] \in Task
      BY DEF Types, BlocksRecord
    <3>2. InBlocks(run.task)' <=> InBlocks(run.task)
      BY <1>1, <1>2 DEF InBlocks
    <3> QED
      BY <3>1, <3>2, <1>1, <1>9 DEF Tasks, BlocksFit
  <2> QED
    BY <2>1, <2>2 DEF Tasks
<1>11. Calls'
  <2>1. ASSUME NEW y \in Thread PROVE CallFits(y)'
    BY <1>1, <1>5 DEF Calls, CallFits
  <2>2. ASSUME NEW y \in Thread, call'[y].at = "dispatch"
        PROVE  queue'.mutex = y /\ DispatchFits(y)'
    <3>1. queue.mutex = y /\ DispatchFits(y) /\ call'[y] = call[y]
      BY <2>2, <1>1 DEF Calls
    <3>2. call[y].task # t /\ call[y].task \in Task
      BY <3>1, <1>1 DEF DispatchFits, Types, QueueRecord
    <3>3. InBlocks(call[y].task)' <=> InBlocks(call[y].task)
      BY <1>1 DEF InBlocks
    <3> QED
      BY <3>1, <3>2, <3>3, <1>1, <1>2, <1>5, <1>9 DEF DispatchFits
  <2>3. WorkerFits'
    BY <1>1, <1>2 DEF Calls, WorkerFits, InCall
  <2> QED
    BY Threads, <2>1, <2>2, <2>3, <1>1, <1>5 DEF Calls
<1>12. Off'
  <2>1. call[Worker].at \in InCall => call[Worker].task \in Task
    BY Threads DEF Calls, CallFits
  <2> QED
    BY <2>1, <1>1, <1>2, <1>9 DEF Off, CancelledNeverRuns, TurnedOff, Types, InCall
<1>13. Live'
  <2>1. ASSUME NEW u \in Task, u # t, Reachable(u) PROVE Reachable(u)'
    BY <2>1, <1>1, <1>5 DEF Reachable, Takes
  <2> QED
    BY <2>1, <1>1, <1>2, <1>9 DEF Live
<1>14. Past'
  BY <1>1, <1>5 DEF Past
<1>15. ASSUME ViaClient PROVE Ending'
  <2>1. ~Dropped /\ ~Dropped' /\ queue.alive # FALSE
    BY <1>1, <1>2, <1>15 DEF Dropped, Ending
  <2> QED
    BY <2>1, <1>15, <1>1, <1>2, <1>5, <1>9 DEF Ending, Quiet
<1> QED
  BY <1>6, <1>8, <1>10, <1>11, <1>12, <1>13, <1>14, <1>15

(* The dispatch queue is one owner less.                                   *)
LEMMA LastReleaseStep ==
    ASSUME IInv, LastRelease
    PROVE  IInv'
<1> USE DEF IInv
<1>0. PICK t : t = run.task
  OBVIOUS
<1>1. /\ run.at = "last" /\ run.task = t /\ t \in Task /\ task[t] \in TaskRecord
      /\ task' = Release(task, t) /\ run' = [task |-> NoTask, at |-> "idle"]
      /\ UNCHANGED <<queue, blocks, call, signalled, cancelled>>
  <2>1. run.at = "last" /\ t \in Task
    BY <1>0 DEF LastRelease, Types, RunRecord, NoTask
  <2> QED
    BY <1>0, <2>1 DEF LastRelease, Types
<1>2. "libdispatch" \in Owners(t) /\ (t \in queue.tasks => "executor" \in Owners(t))
  BY Threads, <1>1, OwnerNow DEF Owns
<1>3. /\ task' \in [Task -> TaskRecord]
      /\ \A u \in Task \ {t} : task'[u] = task[u]
      /\ task'[t].refs = task[t].refs - 1
      /\ task'[t].state = IF task[t].refs = 1 THEN "deleted" ELSE task[t].state
      /\ task'[t].executor = task[t].executor /\ task'[t].timer = task[t].timer
      /\ task'[t].final = task[t].final
      /\ task[t].state \notin {"none", "deleted"}
      /\ task[t].refs = 1 => Owners(t) = {"libdispatch"}
  BY <1>1, <1>2, ReleaseFacts
<1>4. run' \in RunRecord /\ run'.task = NoTask /\ run'.at = "idle"
  BY <1>1 DEF RunRecord
<1>5. Types'
  BY Threads, <1>1, <1>3, <1>4 DEF Types
<1>6. ~InBlocks(t) /\ \A u : InBlocks(u)' <=> InBlocks(u)
  BY <1>1 DEF Tasks, BlocksFit, InBlocks
<1>7. ASSUME NEW u \in Task, NEW o
      PROVE  o \in Owners(u)' <=> o \in Owners(u) /\ ~(o = "libdispatch" /\ u = t)
  <2>1. InBlocks(u)' \/ run'.task = u <=> (InBlocks(u) \/ run.task = u) /\ u # t
    BY Threads, <1>1, <1>4, <1>6
  <2>2. o \in Thread => (Holds(o, u)' <=> Holds(o, u))
    BY <1>1 DEF Holds
  <2> QED
    BY Threads, <2>1, <2>2, <1>1, OwnerNow, OwnerNext DEF Owns
<1>8. Count'
  <2> SUFFICES ASSUME NEW u \in Task PROVE Counted(task[u], Owners(u))'
    BY DEF Count
  <2>1. CASE u = t
    <3>1. /\ task[t] \in TaskRecord /\ task'[t] \in TaskRecord
          /\ Counted(task[t], Owners(t)) /\ task[t].state # "none"
          /\ \A o : o \in Owners(t)' <=> o \in Owners(t) /\ o # "libdispatch"
      BY <1>1, <1>3, <1>7 DEF Count
    <3>2. Counted(task'[t], Owners(t)')
      BY <3>1, <1>2, <1>3, Loses
    <3> QED
      BY <2>1, <3>2
  <2>2. CASE u # t
    <3>1. \A o : o \in Owners(u)' <=> o \in Owners(u)
      BY <2>2, <1>7
    <3> QED
      BY <2>2, <3>1, <1>3, Keeps DEF Count
  <2> QED
    BY <2>1, <2>2
<1>9. /\ t \in queue.tasks => task'[t].state = task[t].state
      /\ \A y \in Thread : Holds(y, t) => task'[t].state = task[t].state
      /\ task'[t].state = task[t].state \/ task'[t].state = "deleted"
  <2>1. \A y \in Thread : Holds(y, t) => y \in Owners(t)
    BY <1>1, OwnerNow DEF Owns
  <2> QED
    BY Threads, <2>1, <1>2, <1>3
<1>10. \A u \in Task : task'[u].timer = task[u].timer /\ task'[u].final = task[u].final
  BY <1>3
<1>11. /\ task[t].state # "running" /\ ~InRun(t) /\ ~InRun(t)'
       /\ \A u \in Task \ {t} : ~InRun(u) /\ ~InRun(u)'
  BY <1>1, <1>4 DEF Tasks, TaskFits, InRun
<1>12. Tasks'
  <2>1. ASSUME NEW u \in Task PROVE TaskFits(u)'
    <3>1. TaskFits(u) /\ \A y \in Thread : HasTaken(y, u)' <=> HasTaken(y, u)
      BY <1>1 DEF Tasks, HasTaken
    <3>2. Owners(u) = {} => Owners(u)' = {}
      BY <1>7
    <3>3. CASE u = t
      <4>1. run'.task # t /\ run.at # "completing"
        BY Threads, <1>1, <1>4
      <4> QED
        BY <3>1, <3>2, <3>3, <4>1, <1>1, <1>3, <1>9, <1>11 DEF TaskFits
    <3>4. CASE u # t
      BY <3>1, <3>2, <3>4, <1>1, <1>3, <1>4, <1>11 DEF TaskFits
    <3> QED
      BY <3>3, <3>4
  <2>2. BlocksFit'
    <3>1. /\ \A u \in blocks.later : u \in Task
          /\ \A i \in DOMAIN blocks.now : blocks.now[i] \in Task
      BY DEF Types, BlocksRecord
    <3>2. ~InBlocks(run.task)'
      BY Threads, <3>1, <1>1, <1>4 DEF InBlocks
    <3> QED
      BY <3>1, <3>2, <1>1, <1>10 DEF Tasks, BlocksFit
  <2> QED
    BY <2>1, <2>2 DEF Tasks
<1>13. Calls'
  <2>1. ASSUME NEW y \in Thread PROVE CallFits(y)'
    BY <1>1 DEF Calls, CallFits
  <2>2. ASSUME NEW y \in Thread, call'[y].at = "dispatch"
        PROVE  queue'.mutex = y /\ DispatchFits(y)'
    <3>1. queue.mutex = y /\ DispatchFits(y) /\ call'[y] = call[y]
      BY <2>2, <1>1 DEF Calls
    <3>2. call[y].task # t /\ call[y].task \in Task
      BY <3>1, <1>1 DEF DispatchFits, Types, QueueRecord
    <3>3. run'.task # call[y].task
      BY Threads, <3>2, <1>4
    <3> QED
      BY <3>1, <3>2, <3>3, <1>1, <1>3, <1>6 DEF DispatchFits
  <2>3. WorkerFits'
    BY <1>1, <1>4 DEF Calls, WorkerFits, InCall
  <2> QED
    BY Threads, <2>1, <2>2, <2>3, <1>1 DEF Calls
<1>14. Quiet(Worker)
  BY <1>1 DEF Calls, WorkerFits, Quiet
<1>15. Off'
  BY <1>1, <1>3, <1>9, <1>14 DEF Off, CancelledNeverRuns, Quiet, Types
<1>16. Live'
  <2>1. \A u : Reachable(u)' <=> Reachable(u)
    BY <1>1 DEF Reachable, Takes
  <2> QED
    BY <2>1, <1>1, <1>3, <1>4, <1>9 DEF Live
<1>17. Past'
  BY <1>1 DEF Past
<1>18. ASSUME ViaClient PROVE Ending'
  <2>1. ~Dropped /\ ~Dropped'
    BY <1>1, <1>4 DEF Dropped
  <2> QED
    BY <2>1, <1>18, <1>1, <1>4, <1>10 DEF Ending, Quiet
<1> QED
  BY <1>5, <1>8, <1>12, <1>13, <1>15, <1>16, <1>17, <1>18

-----------------------------------------------------------------------------
(* The invariant.                                                          *)

(* Initially.                                                              *)
LEMMA InitIInv ==
    ASSUME Init
    PROVE  IInv
<1>1. /\ \A t \in Task : task[t] = [state |-> "none", refs |-> 0, executor |-> TRUE,
                                    timer |-> FALSE, final |-> FALSE, mutex |-> Nobody]
      /\ queue.tasks = {} /\ queue.schedule = {} /\ queue.mode = "running"
      /\ queue.mutex = Nobody /\ queue.disposed = FALSE /\ queue.alive = TRUE
      /\ blocks.now = <<>> /\ blocks.later = {}
      /\ run.task = NoTask /\ run.at = "idle"
      /\ \A x \in Thread : call[x] = Idle
      /\ signalled = {} /\ cancelled = {}
  BY DEF Init
<1>2. \A x \in Thread : /\ call[x].at = "idle" /\ call[x].rest = {} /\ call[x].then = "idle"
                        /\ call[x].task = NoTask
  BY <1>1 DEF Idle
<1>3. DOMAIN blocks.now = {} /\ \A u : ~InBlocks(u)
  BY <1>1 DEF InBlocks
<1>4. Types
  <2>1. task \in [Task -> TaskRecord]
    BY DEF Init, TaskRecord, State
  <2>2. queue \in QueueRecord /\ blocks \in BlocksRecord /\ run \in RunRecord
    BY DEF Init, QueueRecord, Mode, BlocksRecord, RunRecord
  <2>3. call \in [Thread -> CallRecord]
    BY DEF Init, Idle, CallRecord, Place
  <2> QED
    BY <2>1, <2>2, <2>3, <1>1 DEF Types
<1>5. Calls
  BY Threads, <1>1, <1>2 DEF Calls, CallFits, WorkerFits, InCall
<1>6. ASSUME NEW t \in Task PROVE TaskFits(t)
  <2>1. ASSUME NEW o PROVE o \notin Owners(t)
    BY Threads, <1>1, <1>2, <1>3, OwnerNow DEF Owns, Holds, InCall
  <2>2. Owners(t) = {}
    BY <2>1
  <2>3. run.task # t
    BY Threads, <1>1
  <2> QED
    BY <2>2, <2>3, <1>1, <1>2 DEF TaskFits, InRun, HasTaken
<1>7. Tasks /\ Count
  BY <1>1, <1>3, <1>6 DEF Tasks, BlocksFit, Count, Counted
<1>8. Off /\ Live /\ Past
  BY Threads, <1>1, <1>2 DEF Off, CancelledNeverRuns, Live, Past, InCall
<1>9. Ending
  BY Threads, <1>1, <1>2 DEF Ending, Dropped
<1> QED
  BY <1>4, <1>5, <1>7, <1>8, <1>9 DEF IInv

(* Nothing changes.                                                        *)
LEMMA StutterStep ==
    ASSUME IInv, UNCHANGED vars
    PROVE  IInv'
<1> USE DEF IInv
<1>1. UNCHANGED <<task, queue, blocks, run, call, signalled, cancelled>>
  BY DEF vars
<1>2. SameTasks /\ SameHolders
  BY <1>1 DEF SameTasks, SameHolders, Holds, HasTaken, Takes
<1>3. Tasks' /\ Count' /\ Live'
  BY <1>2, QuietStep
<1>4. Types' /\ Off' /\ Past'
  BY <1>1 DEF Types, Off, CancelledNeverRuns, TurnedOff, Past
<1>5. Calls'
  BY <1>1 DEF Calls, CallFits, DispatchFits, WorkerFits, InBlocks
<1>6. ASSUME ViaClient PROVE Ending'
  BY <1>1, <1>6 DEF Ending, Waited, HasTaken, Dropped, Quiet
<1> QED
  BY <1>3, <1>4, <1>5, <1>6

(* Every step.                                                             *)
LEMMA NextStep ==
    ASSUME IInv, Next
    PROVE  IInv'
<1>1. ASSUME NEW u \in Api, Enqueue(u) PROVE IInv'
  <2>1. u \in Thread /\ Inserts(u, FALSE, FALSE)
    BY Threads, <1>1 DEF Enqueue, Inserts
  <2> QED
    BY <2>1, InsertStep
<1>2. ASSUME NEW d \in Disposer, BeginDispose(d) \/ DisposeStep(d) PROVE IInv'
  <2>1. CASE BeginDispose(d)
    BY <2>1, BeginDisposeStep
  <2>2. CASE EnqueueTerminate(d)
    <3>1. d \in Thread /\ Inserts(d, FALSE, TRUE)
      BY Threads, <2>2 DEF EnqueueTerminate, Inserts
    <3> QED
      BY <3>1, InsertStep
  <2>3. CASE TerminateNotEnqueued(d)
    BY <2>3, TerminateNotEnqueuedStep
  <2>4. CASE SignalReceived(d)
    BY <2>4, SignalReceivedStep
  <2> QED
    BY <1>2, <2>1, <2>2, <2>3, <2>4 DEF DisposeStep
<1>3. ASSUME NEW x \in Disposer \cup {Worker}, Delete(x) PROVE IInv'
  BY <1>3, Threads, DeleteStep
<1>4. ASSUME NEW x \in Thread, Proceed(x) PROVE IInv'
  <2>1. CASE Dispatch(x)
    BY <2>1, DispatchStep
  <2>2. CASE Cancel(x)
    BY <2>2, CancelStep
  <2>3. CASE Await(x)
    BY <2>3, AwaitStep
  <2>4. CASE GiveUp(x)
    BY <2>4, GiveUpStep
  <2>5. CASE SetDisposed(x)
    BY <2>5, SetDisposedStep
  <2>6. CASE SwapTasks(x)
    BY <2>6, SwapTasksStep
  <2>7. CASE CancelNext(x)
    BY <2>7, CancelNextStep
  <2>8. CASE DisposeReturns(x)
    BY <2>8, DisposeReturnsStep
  <2> QED
    BY <1>4, <2>1, <2>2, <2>3, <2>4, <2>5, <2>6, <2>7, <2>8 DEF Proceed
<1>5. ASSUME Execute PROVE IInv'
  BY <1>5, TakeStep, SignalStep, OperationEndsStep, CompleteStep, OnCompletionStep, LastReleaseStep
     DEF Execute
<1>6. ASSUME WorkerEnqueues PROVE IInv'
  <2>1. PICK timer \in BOOLEAN : Insert(Worker, {"running"}, timer, FALSE)
    BY <1>6 DEF WorkerEnqueues
  <2>2. Worker \in Thread /\ Inserts(Worker, timer, FALSE)
    BY Threads, <1>6, <2>1 DEF WorkerEnqueues, Operating, InOperation, Inserts
  <2> QED
    BY <2>2, InsertStep
<1>7. ASSUME WorkerAsks \/ WorkerCancels \/ DropsQueue PROVE IInv'
  BY <1>7, WorkerAsksStep, WorkerCancelsStep, DropsQueueStep
<1> QED
  BY <1>1, <1>2, <1>3, <1>4, <1>5, <1>6, <1>7 DEF Next

(* Every reachable state of the queue, its tasks and its threads fits      *)
(* together.                                                               *)
THEOREM StaysIInv == Spec => []IInv
<1>1. Init => IInv
  BY InitIInv
<1>2. IInv /\ [Next]_vars => IInv'
  BY NextStep, StutterStep
<1> QED
  BY <1>1, <1>2, PTL DEF Spec

(* Whatever the threads do, in whatever order: a task is counted by its    *)
(* owners (Retain and Release, task.cc), one about to be dispatched has    *)
(* not been deleted, and a timer that was cancelled before it ran never    *)
(* runs.                                                                   *)
THEOREM OwnersAreCounted == Spec => []Inv
<1>1. IInv => Inv
  <2> SUFFICES ASSUME IInv PROVE Inv
    OBVIOUS
  <2> USE DEF IInv
  <2>1. TypeOK
    BY Threads DEF TypeOK, Types, TaskRecord, QueueRecord, CallRecord, State, Mode, Place
  <2>2. RefsAreOwners
    BY DEF RefsAreOwners, Count, Counted
  <2>3. DispatchedAreLive
    BY DEF DispatchedAreLive, Calls, DispatchFits
  <2> QED
    BY <2>1, <2>2, <2>3 DEF Inv, Off
<1> QED
  BY <1>1, StaysIInv, PTL

(* FirestoreClient::Dispose, which enqueues a last task and waits for its  *)
(* start, leaves nothing behind that uses the queue or runs in it; without *)
(* it a timer may still run (see DisposeWaits).                            *)
THEOREM NothingRunsAfterDispose == ViaClient => (Spec => []NothingAfterDispose)
<1> SUFFICES ASSUME ViaClient PROVE Spec => []NothingAfterDispose
  OBVIOUS
<1>1. IInv => NothingAfterDispose
  <2> SUFFICES ASSUME IInv PROVE NothingAfterDispose
    OBVIOUS
  <2> USE DEF IInv
  <2>1. QueueOutlivesUse
    BY DEF QueueOutlivesUse, Ending, Quiet, Types, QueueRecord
  <2>2. DisposeWaits
    <3> SUFFICES ASSUME NEW d \in Disposer, call[d].at = "returned",
                        \A e \in Disposer : call[e].at \in {"idle", "returned"},
                        run.at = "operation"
                 PROVE  FALSE
      BY DEF DisposeWaits
    <3>1. queue.tasks = {} /\ queue.mutex = Nobody /\ signalled # {}
      BY Threads DEF Past, Calls, Ending
    <3>2. ASSUME NEW x \in Thread \ {Worker}
          PROVE  call[x].at \in {"idle", "returned"} /\ call[x].rest = {}
      <4>1. CASE x \in Api
        <5>1. call[x].at # "dispatch"
          BY <3>1, Threads DEF Calls
        <5> QED
          BY <4>1, <5>1 DEF Calls, CallFits, InCall
      <4>2. CASE x \in Disposer
        BY <4>2 DEF Calls, CallFits, InCall
      <4> QED
        BY <4>1, <4>2, Threads
    <3>3. ~Waited(run.task)
      BY <3>1, <3>2 DEF Waited, HasTaken
    <3> QED
      BY <3>1, <3>3 DEF Ending
  <2> QED
    BY <2>1, <2>2 DEF NothingAfterDispose
<1> QED
  BY <1>1, StaysIInv, PTL

==============================================================================
