------------------------------ MODULE Threadpool ------------------------------
(***************************************************************************)
(* The thread pool of src/shared/threadpool.c: a bounded ring of task      *)
(* slots, worker threads that take tasks from it, and one owner thread     *)
(* (the server's main thread) that creates the pool, adds tasks, waits for *)
(* them and destroys the pool.                                             *)
(*                                                                         *)
(* Every access the code makes while it holds pool->lock, or a task's      *)
(* task_mutex, is one step of the model.  Accesses the code makes without  *)
(* a lock are steps of their own: a worker reads task->function and        *)
(* task->argument after pool->lock is released, writes task->result before *)
(* it takes task_mutex, and executes pool->started-- as a read followed by *)
(* a write; the owner reads task->result after task_mutex is released.     *)
(*                                                                         *)
(* A task is a (function, argument) pair; the value its function returns   *)
(* is identified with the task itself.                                     *)
(***************************************************************************)
EXTENDS Integers

CONSTANTS
  Workers,     \* the worker threads, thread_count of them
  QueueSize,   \* queue_size
  Tasks,       \* the tasks the owner may add, each at most once
  AwaitEach,   \* TRUE: every threadpool_add is followed by threadpool_wait
               \* (the server); FALSE: the owner may pass task_out = NULL
  NoTask       \* the null pointer

ASSUME PoolAssumption ==
  /\ QueueSize \in Nat \ {0}
  /\ AwaitEach \in BOOLEAN
  /\ NoTask \notin Tasks

\* Return codes and flags of threadpool.h.
THREADPOOL_QUEUE_FULL     == -3
THREADPOOL_SHUTDOWN       == -4
THREADPOOL_THREAD_FAILURE == -5
THREADPOOL_GRACEFUL       == 1

Slots == 0 .. QueueSize - 1

VARIABLES
  head, tail, count,   \* the ring, as in threadpool_t
  shutdown,            \* 0 until threadpool_destroy
  started,             \* threads created minus threads that left
  freed,               \* the pool's memory has been released
  slotTask,            \* function and argument of every task_queue slot
  slotResult,          \* its result field
  slotDone,            \* its done flag
  wpc,                 \* control state of each worker
  wslot,               \* worker's local task pointer: a slot
  wtask,               \* the function/argument the worker called
  wreg,                \* worker's register in started--
  mpc,                 \* control state of the owner
  mslot, mtask,        \* slot and task the owner waits for
  err,                 \* return code of the owner's last call
  added,               \* history: the tasks threadpool_add accepted
  runs,                \* history: how often each task was executed
  got                  \* history: what threadpool_wait returned for it

ring    == <<head, tail, count>>
slots   == <<slotTask, slotResult, slotDone>>
workers == <<wpc, wslot, wtask, wreg>>
owner   == <<mpc, mslot, mtask, err>>
history == <<added, runs, got>>
vars    == <<head, tail, count, shutdown, started, freed,
             slotTask, slotResult, slotDone, wpc, wslot, wtask, wreg,
             mpc, mslot, mtask, err, added, runs, got>>

WorkerStates == {"none", "check", "waiting", "invoke", "running", "finish",
                 "exiting", "exitwrite", "gone"}
OwnerStates  == {"create", "idle", "wait", "blocked", "result", "join",
                 "done", "crashed"}

\* threadpool_create up to its loop: fields zeroed, no thread yet.  (If there is
\* no memory, or the mutex or the condition variable cannot be made, it returns
\* NULL here and the server does not start, as CreatePool of Setup has it.)
Init ==
  /\ head = 0 /\ tail = 0 /\ count = 0
  /\ shutdown = 0 /\ started = 0 /\ freed = FALSE
  /\ slotTask   = [s \in Slots |-> NoTask]
  /\ slotResult = [s \in Slots |-> NoTask]
  /\ slotDone   = [s \in Slots |-> FALSE]
  /\ wpc   = [w \in Workers |-> "none"]
  /\ wslot = [w \in Workers |-> 0]
  /\ wtask = [w \in Workers |-> NoTask]
  /\ wreg  = [w \in Workers |-> 0]
  /\ mpc = "create" /\ mslot = 0 /\ mtask = NoTask /\ err = 0
  /\ added = {}
  /\ runs = [t \in Tasks |-> 0]
  /\ got  = [t \in Tasks |-> NoTask]

-------------------------------------------------------------------------------
(* The condition variables. *)

WaitingWorkers == {w \in Workers : wpc[w] = "waiting"}

\* Mutant: the signal is forgotten.
SignalNotifyLost == UNCHANGED wpc

\* pthread_cond_signal(&pool->notify): one of the waiting workers, if any,
\* goes back to test the condition.
SignalNotify ==
  \/ /\ WaitingWorkers = {}
     /\ UNCHANGED wpc
  \/ \E w \in WaitingWorkers : wpc' = [wpc EXCEPT ![w] = "check"]

\* Mutant: signal in place of broadcast.
BroadcastNotifyOne == SignalNotify

\* pthread_cond_broadcast(&pool->notify).
BroadcastNotify ==
  wpc' = [w \in Workers |-> IF wpc[w] = "waiting" THEN "check" ELSE wpc[w]]

\* pthread_cond_signal(&task->task_complete) on slot s.
SignalTaskComplete(s) ==
  mpc' = IF mpc = "blocked" /\ mslot = s THEN "wait" ELSE mpc

-------------------------------------------------------------------------------
(* The owner. *)

\* One turn of the loop of threadpool_create.
CreateThread(w) ==
  /\ mpc = "create" /\ wpc[w] = "none"
  /\ wpc' = [wpc EXCEPT ![w] = "check"]
  /\ started' = started + 1
  /\ UNCHANGED <<ring, shutdown, freed, slots, wslot, wtask, wreg, owner, history>>

CreateDone ==
  /\ mpc = "create" /\ \A w \in Workers : wpc[w] # "none"
  /\ mpc' = "idle"
  /\ UNCHANGED <<ring, shutdown, started, freed, slots, workers,
                 mslot, mtask, err, history>>

\* The locked part of threadpool_destroy: set the flag, wake every worker.
BeginDestroy(flags) ==
  /\ shutdown' = IF flags = THREADPOOL_GRACEFUL THEN THREADPOOL_GRACEFUL ELSE 1
  /\ BroadcastNotify
  /\ mpc' = "join"
  /\ UNCHANGED <<ring, started, freed, slots, wslot, wtask, wreg,
                 mslot, mtask, err, history>>

\* pthread_create fails: threadpool_create calls threadpool_destroy(pool, 0).
CreateFails ==
  /\ mpc = "create" /\ \E w \in Workers : wpc[w] = "none"
  /\ BeginDestroy(0)

\* Called once, so that its test for a pool that is shut down already never holds.
threadpool_destroy ==
  /\ mpc = "idle"
  /\ BeginDestroy(THREADPOOL_GRACEFUL)

\* Mutants: one slot kept free, as rings without a count do; no full check.
AddErrorOneFree == IF count = QueueSize - 1 THEN THREADPOOL_QUEUE_FULL ELSE 0
AddErrorNoFull  == IF shutdown # 0 THEN THREADPOOL_SHUTDOWN ELSE 0

\* The error threadpool_add returns, 0 for none.
AddError ==
  IF count = QueueSize THEN THREADPOOL_QUEUE_FULL
  ELSE IF shutdown # 0 THEN THREADPOOL_SHUTDOWN ELSE 0

NextIndex(i) == (i + 1) % QueueSize

\* Mutant: done and result keep what the slot's previous task left.
AddTaskStale(t, await) ==
  /\ AddError = 0
  /\ slotTask' = [slotTask EXCEPT ![tail] = t]
  /\ tail' = NextIndex(tail)
  /\ count' = count + 1
  /\ SignalNotify
  /\ err' = 0
  /\ added' = added \cup {t}
  /\ mpc'   = IF await THEN "wait" ELSE "idle"
  /\ mslot' = IF await THEN tail ELSE mslot
  /\ mtask' = IF await THEN t ELSE mtask
  /\ UNCHANGED <<head, shutdown, started, freed, slotResult, slotDone,
                 wslot, wtask, wreg, runs, got>>

\* threadpool_add(pool, function, argument, task_out, 0) when there is room:
\* fill the slot at tail, move tail, signal notify.  await says whether the
\* owner asked for the task pointer; it then calls threadpool_wait.
AddTask(t, await) ==
  /\ AddError = 0
  /\ slotTask'   = [slotTask   EXCEPT ![tail] = t]
  /\ slotResult' = [slotResult EXCEPT ![tail] = NoTask]
  /\ slotDone'   = [slotDone   EXCEPT ![tail] = FALSE]
  /\ tail' = NextIndex(tail)
  /\ count' = count + 1
  /\ SignalNotify
  /\ err' = 0
  /\ added' = added \cup {t}
  /\ mpc'   = IF await THEN "wait" ELSE "idle"
  /\ mslot' = IF await THEN tail ELSE mslot
  /\ mtask' = IF await THEN t ELSE mtask
  /\ UNCHANGED <<head, shutdown, started, freed, wslot, wtask, wreg, runs, got>>

\* threadpool_add returns an error and has changed nothing.
AddRefused ==
  /\ AddError # 0
  /\ err' = AddError
  /\ UNCHANGED <<ring, shutdown, started, freed, slots, workers,
                 mpc, mslot, mtask, history>>

threadpool_add(t) ==
  /\ mpc = "idle" /\ t \notin added
  /\ \/ \E await \in (IF AwaitEach THEN {TRUE} ELSE BOOLEAN) : AddTask(t, await)
     \/ AddRefused

\* Mutant: done is not tested again after task_complete was signalled, nor before.
threadpool_waitNoLoop ==
  /\ mpc = "wait"
  /\ mpc' = "result"
  /\ UNCHANGED <<ring, shutdown, started, freed, slots, workers,
                 mslot, mtask, err, history>>

\* threadpool_wait up to the unlock of task_mutex: test done, and sleep on
\* task_complete while it is not set.
threadpool_wait ==
  /\ mpc = "wait"
  /\ mpc' = IF slotDone[mslot] THEN "result" ELSE "blocked"
  /\ UNCHANGED <<ring, shutdown, started, freed, slots, workers,
                 mslot, mtask, err, history>>

\* The last line of threadpool_wait: task->result is read without the mutex.
WaitReturn ==
  /\ mpc = "result"
  /\ got' = [got EXCEPT ![mtask] = slotResult[mslot]]
  /\ mpc' = "idle"
  /\ UNCHANGED <<ring, shutdown, started, freed, slots, workers,
                 mslot, mtask, err, added, runs>>

\* The joins of threadpool_destroy have all returned; threadpool_free gives
\* the pool up only if it counts no started thread.
JoinAndFree ==
  /\ mpc = "join" /\ \A w \in Workers : wpc[w] = "gone"
  /\ freed' = (started <= 0)
  /\ err' = 0
  /\ mpc' = "done"
  /\ UNCHANGED <<ring, shutdown, started, slots, workers, mslot, mtask, history>>

\* After CreateFails the loop goes on to join a thread id nobody wrote, once
\* the threads that exist have been joined.  Outcomes: an error, or a crash.
JoinUnstarted ==
  /\ mpc = "join" /\ \A w \in Workers : wpc[w] \in {"gone", "none"}
  /\ \E w \in Workers : wpc[w] = "none"
  /\ \/ mpc' = "done" /\ err' = THREADPOOL_THREAD_FAILURE
     \/ mpc' = "crashed" /\ UNCHANGED err
  /\ UNCHANGED <<ring, shutdown, started, freed, slots, workers,
                 mslot, mtask, history>>

\* pthread_cond_wait(&task->task_complete, ..) may return without a signal.
OwnerSpuriousWake ==
  /\ mpc = "blocked"
  /\ mpc' = "wait"
  /\ UNCHANGED <<ring, shutdown, started, freed, slots, workers,
                 mslot, mtask, err, history>>

-------------------------------------------------------------------------------
(* A worker: threadpool_thread. *)

\* The while condition holds: wait on notify.
WorkerSleep(w) ==
  /\ wpc[w] = "check" /\ count = 0 /\ shutdown = 0
  /\ wpc' = [wpc EXCEPT ![w] = "waiting"]
  /\ UNCHANGED <<ring, shutdown, started, freed, slots, wslot, wtask, wreg,
                 owner, history>>

WorkerSpuriousWake(w) ==
  /\ wpc[w] = "waiting"
  /\ wpc' = [wpc EXCEPT ![w] = "check"]
  /\ UNCHANGED <<ring, shutdown, started, freed, slots, wslot, wtask, wreg,
                 owner, history>>

MustLeave == shutdown = 1 \/ (shutdown = THREADPOOL_GRACEFUL /\ count = 0)

\* Out of the loop, with pool->lock released.
WorkerLeave(w) ==
  /\ wpc[w] = "check" /\ MustLeave
  /\ wpc' = [wpc EXCEPT ![w] = "exiting"]
  /\ UNCHANGED <<ring, shutdown, started, freed, slots, wslot, wtask, wreg,
                 owner, history>>

\* Take the slot at head.
WorkerTake(w) ==
  /\ wpc[w] = "check" /\ ~(count = 0 /\ shutdown = 0) /\ ~MustLeave
  /\ wslot' = [wslot EXCEPT ![w] = head]
  /\ slotDone' = [slotDone EXCEPT ![head] = FALSE]
  /\ head' = NextIndex(head)
  /\ count' = count - 1
  /\ wpc' = [wpc EXCEPT ![w] = "invoke"]
  /\ UNCHANGED <<tail, shutdown, started, freed, slotTask, slotResult,
                 wtask, wreg, owner, history>>

\* Read function and argument, without the lock, and call.
WorkerInvoke(w) ==
  /\ wpc[w] = "invoke"
  /\ wtask' = [wtask EXCEPT ![w] = slotTask[wslot[w]]]
  /\ runs' = [runs EXCEPT ![slotTask[wslot[w]]] = @ + 1]
  /\ wpc' = [wpc EXCEPT ![w] = "running"]
  /\ UNCHANGED <<ring, shutdown, started, freed, slots, wslot, wreg,
                 owner, added, got>>

\* Mutant: the result stays in the local variable.
WorkerReturnNoResult(w) ==
  /\ wpc[w] = "running"
  /\ wpc' = [wpc EXCEPT ![w] = "finish"]
  /\ UNCHANGED <<ring, shutdown, started, freed, slots,
                 wslot, wtask, wreg, owner, history>>

\* The function returns; its value goes into the slot, without a lock.
WorkerReturn(w) ==
  /\ wpc[w] = "running"
  /\ slotResult' = [slotResult EXCEPT ![wslot[w]] = wtask[w]]
  /\ wpc' = [wpc EXCEPT ![w] = "finish"]
  /\ UNCHANGED <<ring, shutdown, started, freed, slotTask, slotDone,
                 wslot, wtask, wreg, owner, history>>

\* Under task_mutex: set done and signal task_complete.
WorkerFinish(w) ==
  /\ wpc[w] = "finish"
  /\ slotDone' = [slotDone EXCEPT ![wslot[w]] = TRUE]
  /\ SignalTaskComplete(wslot[w])
  /\ wpc' = [wpc EXCEPT ![w] = "check"]
  /\ UNCHANGED <<ring, shutdown, started, freed, slotTask, slotResult,
                 wslot, wtask, wreg, mslot, mtask, err, history>>

\* pool->started-- without the lock: the read ...
WorkerExitRead(w) ==
  /\ wpc[w] = "exiting"
  /\ wreg' = [wreg EXCEPT ![w] = started]
  /\ wpc' = [wpc EXCEPT ![w] = "exitwrite"]
  /\ UNCHANGED <<ring, shutdown, started, freed, slots, wslot, wtask,
                 owner, history>>

\* ... and the write.
WorkerExitWrite(w) ==
  /\ wpc[w] = "exitwrite"
  /\ started' = wreg[w] - 1
  /\ wpc' = [wpc EXCEPT ![w] = "gone"]
  /\ UNCHANGED <<ring, shutdown, freed, slots, wslot, wtask, wreg,
                 owner, history>>

-------------------------------------------------------------------------------
\* The owner has nothing left to do.
Terminated == mpc \in {"done", "crashed"} /\ UNCHANGED vars

OwnerStep ==
  \/ \E w \in Workers : CreateThread(w)
  \/ CreateDone
  \/ \E t \in Tasks : threadpool_add(t)
  \/ threadpool_wait \/ WaitReturn
  \/ JoinAndFree \/ JoinUnstarted

\* What a worker does by itself, the body of its task excepted.
WorkerStep(w) ==
  \/ WorkerSleep(w) \/ WorkerLeave(w) \/ WorkerTake(w)
  \/ WorkerInvoke(w) \/ WorkerFinish(w)
  \/ WorkerExitRead(w) \/ WorkerExitWrite(w)

Next ==
  \/ OwnerStep \/ CreateFails \/ threadpool_destroy \/ OwnerSpuriousWake
  \/ \E w \in Workers : WorkerStep(w) \/ WorkerReturn(w) \/ WorkerSpuriousWake(w)
  \/ Terminated

Spec == Init /\ [][Next]_vars

\* Threads are scheduled, and every task's function returns.
Fairness ==
  /\ WF_vars(threadpool_wait) /\ WF_vars(WaitReturn)
  /\ WF_vars(JoinAndFree) /\ WF_vars(JoinUnstarted)
  /\ \A w \in Workers : WF_vars(WorkerStep(w)) /\ WF_vars(WorkerReturn(w))

FairSpec == Spec /\ Fairness

-------------------------------------------------------------------------------
(* Properties. *)

TypeOK ==
  /\ head \in Slots /\ tail \in Slots /\ count \in 0 .. QueueSize
  /\ shutdown \in {0, 1} /\ started \in Int /\ freed \in BOOLEAN
  /\ slotTask   \in [Slots -> Tasks \cup {NoTask}]
  /\ slotResult \in [Slots -> Tasks \cup {NoTask}]
  /\ slotDone   \in [Slots -> BOOLEAN]
  /\ wpc   \in [Workers -> WorkerStates]
  /\ wslot \in [Workers -> Slots]
  /\ wtask \in [Workers -> Tasks \cup {NoTask}]
  /\ wreg  \in [Workers -> Int]
  /\ mpc \in OwnerStates /\ mslot \in Slots /\ mtask \in Tasks \cup {NoTask}
  /\ err \in {0, THREADPOOL_QUEUE_FULL, THREADPOOL_SHUTDOWN,
              THREADPOOL_THREAD_FAILURE}
  /\ added \in SUBSET Tasks
  /\ runs \in [Tasks -> Nat]
  /\ got  \in [Tasks -> Tasks \cup {NoTask}]

\* The three ring counters, which threadpool_add and the workers update
\* separately, always describe the same segment of slots.
RingInv == tail = (head + count) % QueueSize

\* threadpool_wait never sleeps on a task that is already done: a worker that
\* sets done wakes the owner in the same critical section.
NoLostWakeup == mpc = "blocked" => ~slotDone[mslot]

\* A task that waits in the ring is not overwritten before a worker takes it,
\* however far the owner runs ahead of the workers.
QueueIntact ==
  \A i, j \in 0 .. count - 1 :
    LET Queued(k) == slotTask[(head + k) % QueueSize] IN
    /\ Queued(i) \in added
    /\ i # j => Queued(i) # Queued(j)

Busy(w) == wpc[w] \in {"invoke", "running", "finish"}

\* The server's handlers share heartbeat_data, clients[] and http_clients[]
\* with the main thread and take no lock for them.  What protects them: at
\* most one worker is busy, with the task the owner is waiting for.
HandlerExclusive ==
  \A w \in Workers : Busy(w) =>
    /\ mpc \in {"wait", "blocked"} /\ wslot[w] = mslot
    /\ \A v \in Workers : Busy(v) => v = w

\* A task runs at most once, and threadpool_wait gives back the result of the
\* very task that was added, although slots are used again and again.
OwnResult ==
  \A t \in Tasks :
    /\ runs[t] <= 1
    /\ got[t] # NoTask => got[t] = t /\ runs[t] = 1

\* With one task outstanding at a time threadpool_add is never refused, for
\* any queue size; handle_connections would stop the server if it were.
NeverRefused == err \notin {THREADPOOL_QUEUE_FULL, THREADPOOL_SHUTDOWN}

\* When the server destroys the pool no accepted task is left unexecuted or
\* unanswered, although both shutdown modes stop the workers at once.
DestroyDropsNothing ==
  shutdown # 0 => \A t \in added : runs[t] = 1 /\ got[t] = t

\* A destroy that reports success has released the pool.
DestroyFrees == mpc = "done" /\ err = 0 => freed

\* Every call of threadpool_destroy comes back (or dies in pthread_join of a
\* thread that never existed): no worker sleeps through the broadcast.
DestroyReturns == mpc = "join" ~> mpc \in {"done", "crashed"}

\* With functions that return, a task the server adds is answered: neither
\* the signal to the workers nor the one to the owner is lost.
EveryTaskAnswered == \A t \in Tasks : t \in added ~> got[t] = t

NoneBusy == \A w \in Workers : ~Busy(w)

Answered(S) == \A t \in S : runs[t] = 1 /\ got[t] = t

Calling == mpc \in {"wait", "blocked", "result"}

\* The task the owner waits for is in the ring ...
Queued ==
  /\ mpc \in {"wait", "blocked"}
  /\ count = 1 /\ head = mslot /\ NoneBusy
  /\ ~slotDone[mslot] /\ slotResult[mslot] = NoTask /\ runs[mtask] = 0

\* ... or worker w has it ...
TakenBy(w) ==
  /\ mpc \in {"wait", "blocked"}
  /\ count = 0 /\ Busy(w) /\ \A v \in Workers : Busy(v) => v = w
  /\ wslot[w] = mslot /\ ~slotDone[mslot]
  /\ runs[mtask] = IF wpc[w] = "invoke" THEN 0 ELSE 1
  /\ slotResult[mslot] = IF wpc[w] = "finish" THEN mtask ELSE NoTask
  /\ wpc[w] # "invoke" => wtask[w] = mtask

\* ... or its result is there, and the owner is awake.
Finished ==
  /\ mpc \in {"wait", "result"}
  /\ count = 0 /\ NoneBusy
  /\ slotDone[mslot] /\ slotResult[mslot] = mtask /\ runs[mtask] = 1

\* The inductive invariant of the pool under an owner that waits for each
\* task it adds: a call goes through the three phases above, and between
\* calls the pool is quiet and every task added so far is answered.
CallInv ==
  /\ shutdown = IF mpc \in {"join", "done", "crashed"} THEN 1 ELSE 0
  /\ err \in {0, THREADPOOL_THREAD_FAILURE}
  /\ \A t \in Tasks \ added : runs[t] = 0 /\ got[t] = NoTask
  /\ ~Calling => count = 0 /\ NoneBusy /\ Answered(added)
  /\ Calling =>
       /\ mtask \in added /\ got[mtask] = NoTask /\ Answered(added \ {mtask})
       /\ slotTask[mslot] = mtask
       /\ Queued \/ (\E w \in Workers : TakenBy(w)) \/ Finished

\* Where the owner's call stands, as SyncCall sees it.
CallStage ==
  IF mpc \notin {"wait", "blocked", "result"} THEN "idle"
  ELSE IF runs[mtask] = 0 THEN "called"
  ELSE IF slotResult[mslot] # mtask THEN "executing"
  ELSE "executed"

Sync == INSTANCE SyncCall WITH
  called <- added, current <- mtask, stage <- CallStage, returned <- got

\* threadpool_add followed by threadpool_wait is a synchronous procedure call.
ImplementsSyncCall == Sync!Spec
===============================================================================
