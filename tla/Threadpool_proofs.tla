-------------------------- MODULE Threadpool_proofs ---------------------------
(***************************************************************************)
(* What holds of the thread pool for every number of workers, every queue  *)
(* size and every set of tasks.                                            *)
(***************************************************************************)
EXTENDS Threadpool, TLAPS

\* Adding one modulo the queue size stays inside the ring.
LEMMA NextIndexValue ==
  ASSUME NEW i \in Slots
  PROVE  /\ NextIndex(i) \in Slots
         /\ NextIndex(i) = IF i + 1 = QueueSize THEN 0 ELSE i + 1
  BY PoolAssumption, SMT DEF NextIndex, Slots

LEMMA IndexMod ==
  ASSUME NEW i \in Slots
  PROVE  i % QueueSize = i
  BY PoolAssumption, SMT DEF Slots

\* A sum that passes the end of the ring at most once.
LEMMA WrapOnce ==
  ASSUME NEW h \in Int, NEW c \in Int, h + c \in 0 .. 2 * QueueSize - 1
  PROVE  (h + c) % QueueSize = IF h + c < QueueSize THEN h + c ELSE h + c - QueueSize
  BY PoolAssumption, SMT
-------------------------------------------------------------------------------
(* Types and the ring. *)

USE DEF ring, slots, workers, owner, history

\* Waking workers changes nothing but the control state of waiting ones.
LEMMA WakingKeepsTypes ==
  ASSUME wpc \in [Workers -> WorkerStates], SignalNotify \/ BroadcastNotify
  PROVE  /\ wpc' \in [Workers -> WorkerStates]
         /\ \A w \in Workers :
              wpc'[w] = wpc[w] \/ (wpc[w] = "waiting" /\ wpc'[w] = "check")
  BY DEF SignalNotify, BroadcastNotify, WaitingWorkers, WorkerStates

\* Every action keeps the pool's fields, the slots and the threads' locals in
\* their types: in particular both indices stay inside task_queue and count
\* stays within 0 .. queue_size.
LEMMA TypeStep == TypeOK /\ [Next]_vars => TypeOK'
<1> SUFFICES ASSUME TypeOK, [Next]_vars PROVE TypeOK'
  OBVIOUS
<1> USE PoolAssumption DEF TypeOK
<1>1. ASSUME NEW w \in Workers, CreateThread(w) PROVE TypeOK'
  BY <1>1 DEF CreateThread, WorkerStates
<1>2. CASE CreateDone
  BY <1>2 DEF CreateDone, OwnerStates
<1>3. ASSUME NEW t \in Tasks, threadpool_add(t) PROVE TypeOK'
  <2>1. CASE AddRefused
    BY <2>1 DEF AddRefused, AddError, THREADPOOL_QUEUE_FULL,
                THREADPOOL_SHUTDOWN, THREADPOOL_THREAD_FAILURE
  <2>2. ASSUME NEW await \in BOOLEAN, AddTask(t, await) PROVE TypeOK'
    <3>1. NextIndex(tail) \in Slots
      BY NextIndexValue
    <3>2. wpc' \in [Workers -> WorkerStates]
      BY <2>2, WakingKeepsTypes DEF AddTask
    <3>3. count # QueueSize
      BY <2>2 DEF AddTask, AddError, THREADPOOL_QUEUE_FULL
    <3> QED
      BY <2>2, <3>1, <3>2, <3>3 DEF AddTask, OwnerStates
  <2> QED
    BY <1>3, <2>1, <2>2 DEF threadpool_add
<1>4. CASE threadpool_wait
  BY <1>4 DEF threadpool_wait, OwnerStates
<1>5. CASE WaitReturn
  BY <1>5 DEF WaitReturn, OwnerStates
<1>6. CASE JoinAndFree
  BY <1>6 DEF JoinAndFree, OwnerStates
<1>7. CASE JoinUnstarted
  BY <1>7 DEF JoinUnstarted, OwnerStates
<1>8. ASSUME NEW flags \in {0, 1}, BeginDestroy(flags) PROVE TypeOK'
  <2>1. wpc' \in [Workers -> WorkerStates]
    BY <1>8, WakingKeepsTypes DEF BeginDestroy
  <2> QED
    BY <1>8, <2>1 DEF BeginDestroy, OwnerStates, THREADPOOL_GRACEFUL
<1>9. CASE CreateFails
  BY <1>8, <1>9 DEF CreateFails
<1>10. CASE threadpool_destroy
  BY <1>8, <1>10 DEF threadpool_destroy, THREADPOOL_GRACEFUL
<1>11. CASE OwnerSpuriousWake
  BY <1>11 DEF OwnerSpuriousWake, OwnerStates
<1>12. ASSUME NEW w \in Workers, WorkerSleep(w) \/ WorkerLeave(w) \/ WorkerSpuriousWake(w)
       PROVE  TypeOK'
  BY <1>12 DEF WorkerSleep, WorkerLeave, WorkerSpuriousWake, WorkerStates
<1>13. ASSUME NEW w \in Workers, WorkerTake(w) PROVE TypeOK'
  <2>1. NextIndex(head) \in Slots
    BY NextIndexValue
  <2>2. count # 0
    BY <1>13 DEF WorkerTake, MustLeave
  <2> QED
    BY <1>13, <2>1, <2>2 DEF WorkerTake, WorkerStates
<1>14. ASSUME NEW w \in Workers, WorkerInvoke(w) PROVE TypeOK'
  <2>1. runs' \in [Tasks -> Nat]
    <3> DEFINE k == slotTask[wslot[w]]
    <3>1. k \in Tasks => runs[k] + 1 \in Nat
      OBVIOUS
    <3>2. runs' = [runs EXCEPT ![k] = runs[k] + 1]
      BY <1>14 DEF WorkerInvoke
    <3> HIDE DEF k
    <3> QED
      BY <3>1, <3>2
  <2>2. wtask' \in [Workers -> Tasks \cup {NoTask}]
    BY <1>14 DEF WorkerInvoke
  <2> QED
    BY <1>14, <2>1, <2>2 DEF WorkerInvoke, WorkerStates
<1>15. ASSUME NEW w \in Workers, WorkerReturn(w) PROVE TypeOK'
  BY <1>15 DEF WorkerReturn, WorkerStates
<1>16. ASSUME NEW w \in Workers, WorkerFinish(w) PROVE TypeOK'
  BY <1>16 DEF WorkerFinish, WorkerStates, SignalTaskComplete, OwnerStates
<1>17. ASSUME NEW w \in Workers, WorkerExitRead(w) \/ WorkerExitWrite(w) PROVE TypeOK'
  BY <1>17 DEF WorkerExitRead, WorkerExitWrite, WorkerStates
<1>18. CASE UNCHANGED vars
  BY <1>18 DEF vars
<1> QED
  BY <1>1, <1>2, <1>3, <1>4, <1>5, <1>6, <1>7, <1>9, <1>10, <1>11, <1>12, <1>13,
     <1>14, <1>15, <1>16, <1>17, <1>18
     DEF Next, OwnerStep, WorkerStep, Terminated

LEMMA TypeInit == Init => TypeOK
<1> SUFFICES ASSUME Init PROVE TypeOK
  OBVIOUS
<1>1. 0 \in Slots /\ 0 \in 0 .. QueueSize
  BY PoolAssumption DEF Slots
<1>2. wpc \in [Workers -> WorkerStates] /\ mpc \in OwnerStates
  BY DEF Init, WorkerStates, OwnerStates
<1>3. runs \in [Tasks -> Nat] /\ got \in [Tasks -> Tasks \cup {NoTask}] /\ added \in SUBSET Tasks
  BY DEF Init
<1>4. /\ slotTask \in [Slots -> Tasks \cup {NoTask}]
      /\ slotResult \in [Slots -> Tasks \cup {NoTask}]
      /\ slotDone \in [Slots -> BOOLEAN]
  BY DEF Init
<1>5. /\ wslot \in [Workers -> Slots] /\ wreg \in [Workers -> Int]
      /\ wtask \in [Workers -> Tasks \cup {NoTask}]
  BY <1>1 DEF Init
<1>6. freed \in BOOLEAN
  BY DEF Init
<1>7. /\ head \in Slots /\ tail \in Slots /\ count \in 0 .. QueueSize
      /\ shutdown \in {0, 1} /\ started \in Int
      /\ mslot \in Slots /\ mtask \in Tasks \cup {NoTask}
      /\ err \in {0, THREADPOOL_QUEUE_FULL, THREADPOOL_SHUTDOWN,
                  THREADPOOL_THREAD_FAILURE}
  BY <1>1 DEF Init
<1> QED
  BY <1>1, <1>2, <1>3, <1>4, <1>5, <1>6, <1>7 DEF TypeOK

\* Both indices stay inside task_queue and count between 0 and queue_size,
\* for every number of workers and every queue size above 0.
THEOREM TypeCorrect == Spec => []TypeOK
  BY TypeInit, TypeStep, PTL DEF Spec

\* threadpool_add moves tail and count, a worker's take moves head and count;
\* nothing else moves them.
LEMMA RingStep == TypeOK /\ RingInv /\ [Next]_vars => RingInv'
<1> SUFFICES ASSUME TypeOK, RingInv, [Next]_vars PROVE RingInv'
  OBVIOUS
<1>1. CASE UNCHANGED <<head, tail, count>>
  BY <1>1 DEF RingInv
<1>2. ASSUME NEW t \in Tasks, NEW await \in BOOLEAN, AddTask(t, await) PROVE RingInv'
  <2>1. tail' = NextIndex(tail) /\ count' = count + 1 /\ head' = head
        /\ count # QueueSize
    BY <1>2 DEF AddTask, AddError, THREADPOOL_QUEUE_FULL
  <2>2. head + count \in 0 .. 2 * QueueSize - 1 /\ head + (count + 1) \in 0 .. 2 * QueueSize - 1
    BY <2>1, PoolAssumption DEF TypeOK, Slots
  <2>3. tail = IF head + count < QueueSize THEN head + count ELSE head + count - QueueSize
    BY <2>2, WrapOnce DEF RingInv, TypeOK, Slots
  <2>4. (head + (count + 1)) % QueueSize
          = IF head + (count + 1) < QueueSize THEN head + (count + 1)
            ELSE head + (count + 1) - QueueSize
    BY <2>2, WrapOnce DEF TypeOK, Slots
  <2>5. NextIndex(tail) = IF tail + 1 = QueueSize THEN 0 ELSE tail + 1
    BY NextIndexValue DEF TypeOK
  <2>6. NextIndex(tail) = (head + (count + 1)) % QueueSize
    BY <2>1, <2>3, <2>4, <2>5, PoolAssumption DEF TypeOK, Slots
  <2> QED
    BY <2>1, <2>6 DEF RingInv
<1>3. ASSUME NEW w \in Workers, WorkerTake(w) PROVE RingInv'
  <2>1. tail' = tail /\ count' = count - 1 /\ head' = NextIndex(head) /\ count # 0
    BY <1>3 DEF WorkerTake, MustLeave, TypeOK
  <2>2. NextIndex(head) = IF head + 1 = QueueSize THEN 0 ELSE head + 1
    BY NextIndexValue DEF TypeOK
  <2>3. head + count \in 0 .. 2 * QueueSize - 1
        /\ NextIndex(head) + (count - 1) \in 0 .. 2 * QueueSize - 1
    BY <2>1, <2>2, PoolAssumption DEF TypeOK, Slots
  <2>4. tail = IF head + count < QueueSize THEN head + count ELSE head + count - QueueSize
    BY <2>3, WrapOnce DEF RingInv, TypeOK, Slots
  <2>5. (NextIndex(head) + (count - 1)) % QueueSize
          = IF NextIndex(head) + (count - 1) < QueueSize THEN NextIndex(head) + (count - 1)
            ELSE NextIndex(head) + (count - 1) - QueueSize
    <3> DEFINE h == NextIndex(head)  c == count - 1
    <3>1. h \in Int /\ c \in Int /\ h + c \in 0 .. 2 * QueueSize - 1
      BY <2>2, <2>3 DEF TypeOK, Slots
    <3> HIDE DEF h, c
    <3>2. (h + c) % QueueSize = IF h + c < QueueSize THEN h + c ELSE h + c - QueueSize
      BY <3>1, WrapOnce
    <3> QED
      BY <3>2 DEF h, c
  <2>6. tail = (NextIndex(head) + (count - 1)) % QueueSize
    BY <2>1, <2>2, <2>4, <2>5, PoolAssumption DEF TypeOK, Slots
  <2> QED
    BY <2>1, <2>6 DEF RingInv
<1> QED
  BY <1>1, <1>2, <1>3
     DEF Next, OwnerStep, WorkerStep, Terminated, vars, CreateThread, CreateDone,
         threadpool_add, AddRefused, threadpool_wait, WaitReturn, JoinAndFree,
         JoinUnstarted, CreateFails, threadpool_destroy, BeginDestroy,
         OwnerSpuriousWake, WorkerSleep, WorkerLeave, WorkerSpuriousWake,
         WorkerInvoke, WorkerReturn, WorkerFinish, WorkerExitRead, WorkerExitWrite

\* head, tail and count describe the same segment of the ring, whoever adds
\* and however many workers take.
THEOREM RingCorrect == Spec => []RingInv
<1>1. Init => RingInv
  BY PoolAssumption, WrapOnce DEF Init, RingInv
<1> QED
  BY <1>1, RingStep, TypeCorrect, PTL DEF Spec

-------------------------------------------------------------------------------
(* The tasks in the ring, with an owner that need not wait. *)

\* The slot of the k-th task in the ring.
SlotAt(k) == (head + k) % QueueSize

LEMMA SlotValue ==
  ASSUME TypeOK, NEW k \in 0 .. QueueSize
  PROVE  SlotAt(k) = IF head + k < QueueSize THEN head + k ELSE head + k - QueueSize
<1>1. head \in Int /\ k \in Int /\ head + k \in 0 .. 2 * QueueSize - 1
  BY PoolAssumption DEF TypeOK, Slots
<1> QED
  BY <1>1, WrapOnce DEF SlotAt

\* A new task goes into a slot that no queued task has.
LEMMA AddKeepsQueue ==
  ASSUME TypeOK, RingInv, QueueIntact, NEW t \in Tasks, t \notin added,
         NEW await \in BOOLEAN, AddTask(t, await)
  PROVE  QueueIntact'
<1>1. /\ count # QueueSize /\ count' = count + 1 /\ head' = head
      /\ slotTask' = [slotTask EXCEPT ![tail] = t] /\ added' = added \cup {t}
  BY DEF AddTask, AddError, THREADPOOL_QUEUE_FULL
<1>2. count \in Nat /\ QueueSize \in Nat /\ count < QueueSize /\ head \in 0 .. QueueSize - 1
  BY <1>1, PoolAssumption DEF TypeOK, Slots
<1>3. tail = SlotAt(count) /\ SlotAt(count) \in Slots
  BY <1>2, SlotValue DEF RingInv, SlotAt, Slots
<1>4. \A k \in 0 .. count - 1 : SlotAt(k) # tail /\ SlotAt(k) \in Slots
  <2> TAKE k \in 0 .. count - 1
  <2>1. SlotAt(k) = IF head + k < QueueSize THEN head + k ELSE head + k - QueueSize
    BY <1>2, SlotValue
  <2>2. SlotAt(count) = IF head + count < QueueSize THEN head + count ELSE head + count - QueueSize
    BY <1>2, SlotValue
  <2> QED
    BY <1>2, <1>3, <2>1, <2>2 DEF Slots
<1>5. slotTask'[tail] = t /\ \A k \in 0 .. count - 1 : slotTask'[SlotAt(k)] = slotTask[SlotAt(k)]
  BY <1>1, <1>3, <1>4 DEF TypeOK
<1>6. \A i \in 0 .. count - 1 : slotTask[SlotAt(i)] \in added
  BY DEF QueueIntact, SlotAt
<1>7. \A i, j \in 0 .. count - 1 : i # j => slotTask[SlotAt(i)] # slotTask[SlotAt(j)]
  BY DEF QueueIntact, SlotAt
<1>8. \A k : (head' + k) % QueueSize = SlotAt(k)
  BY <1>1 DEF SlotAt
<1>9. ASSUME NEW i \in 0 .. count PROVE slotTask'[SlotAt(i)] \in added'
  <2>1. CASE i = count
    BY <1>1, <1>3, <1>5, <2>1
  <2>2. CASE i # count
    BY <1>1, <1>2, <1>5, <1>6, <2>2
  <2> QED
    BY <2>1, <2>2
<1>10. ASSUME NEW i \in 0 .. count, NEW j \in 0 .. count, i # j
       PROVE  slotTask'[SlotAt(i)] # slotTask'[SlotAt(j)]
  <2>1. CASE i = count
    <3>1. j \in 0 .. count - 1
      BY <1>2, <1>10, <2>1
    <3> QED
      BY <1>3, <1>5, <1>6, <2>1, <3>1
  <2>2. CASE j = count
    <3>1. i \in 0 .. count - 1
      BY <1>2, <1>10, <2>2
    <3> QED
      BY <1>3, <1>5, <1>6, <2>2, <3>1
  <2>3. CASE i # count /\ j # count
    <3>1. i \in 0 .. count - 1 /\ j \in 0 .. count - 1
      BY <1>2, <2>3
    <3> QED
      BY <1>5, <1>7, <1>10, <3>1
  <2> QED
    BY <2>1, <2>2, <2>3
<1>11. 0 .. count' - 1 = 0 .. count
  BY <1>1, <1>2
<1> QED
  BY <1>8, <1>9, <1>10, <1>11 DEF QueueIntact

\* The first task leaves, the others move up.
LEMMA TakeKeepsQueue ==
  ASSUME TypeOK, QueueIntact, NEW w \in Workers, WorkerTake(w)
  PROVE  QueueIntact'
<1>1. /\ count # 0 /\ count' = count - 1 /\ head' = NextIndex(head)
      /\ slotTask' = slotTask /\ added' = added
  BY DEF WorkerTake, MustLeave, TypeOK
<1>2. /\ count \in Nat /\ QueueSize \in Nat /\ count <= QueueSize /\ count > 0
      /\ head \in 0 .. QueueSize - 1
  BY <1>1, PoolAssumption DEF TypeOK, Slots
<1>3. \A k \in 0 .. count - 2 : (head' + k) % QueueSize = SlotAt(k + 1)
  <2> TAKE k \in 0 .. count - 2
  <2>1. head' = IF head + 1 = QueueSize THEN 0 ELSE head + 1
    BY <1>1, NextIndexValue DEF TypeOK
  <2>2. SlotAt(k + 1) = IF head + (k + 1) < QueueSize THEN head + (k + 1)
                        ELSE head + (k + 1) - QueueSize
    BY <1>2, SlotValue
  <2>3. head' \in Int /\ k \in Int /\ head' + k \in 0 .. 2 * QueueSize - 1
    BY <1>2, <2>1
  <2>4. (head' + k) % QueueSize = IF head' + k < QueueSize THEN head' + k
                                  ELSE head' + k - QueueSize
    <3> DEFINE h == head'
    <3>1. h \in Int /\ k \in Int /\ h + k \in 0 .. 2 * QueueSize - 1
      BY <2>3
    <3> HIDE DEF h
    <3>2. (h + k) % QueueSize = IF h + k < QueueSize THEN h + k ELSE h + k - QueueSize
      BY <3>1, WrapOnce
    <3> QED
      BY <3>2 DEF h
  <2> QED
    BY <1>2, <2>1, <2>2, <2>4
<1>4. \A i \in 0 .. count - 2 : i + 1 \in 0 .. count - 1
  BY <1>2
<1>5. \A i, j \in 0 .. count - 1 :
        /\ slotTask[SlotAt(i)] \in added
        /\ i # j => slotTask[SlotAt(i)] # slotTask[SlotAt(j)]
  BY DEF QueueIntact, SlotAt
<1>6. \A i, j \in 0 .. count - 2 :
        /\ slotTask[SlotAt(i + 1)] \in added
        /\ i # j => slotTask[SlotAt(i + 1)] # slotTask[SlotAt(j + 1)]
  <2> TAKE i, j \in 0 .. count - 2
  <2>1. i + 1 \in 0 .. count - 1 /\ j + 1 \in 0 .. count - 1 /\ (i # j => i + 1 # j + 1)
    BY <1>2
  <2> QED
    BY <1>5, <2>1, Zenon
<1>7. 0 .. count' - 1 = 0 .. count - 2
  BY <1>1, <1>2
<1>8. \A i, j \in 0 .. count - 2 :
        /\ slotTask'[(head' + i) % QueueSize] \in added'
        /\ i # j => slotTask'[(head' + i) % QueueSize] # slotTask'[(head' + j) % QueueSize]
  <2> TAKE i, j \in 0 .. count - 2
  <2>1. (head' + i) % QueueSize = SlotAt(i + 1) /\ (head' + j) % QueueSize = SlotAt(j + 1)
    BY <1>3, Zenon
  <2>2. /\ slotTask[SlotAt(i + 1)] \in added
        /\ i # j => slotTask[SlotAt(i + 1)] # slotTask[SlotAt(j + 1)]
    BY <1>6, Zenon
  <2> QED
    BY <1>1, <2>1, <2>2, Zenon
<1> QED
  BY <1>7, <1>8, Zenon DEF QueueIntact

LEMMA QueueStep == TypeOK /\ RingInv /\ QueueIntact /\ [Next]_vars => QueueIntact'
<1> SUFFICES ASSUME TypeOK, RingInv, QueueIntact, [Next]_vars PROVE QueueIntact'
  OBVIOUS
<1>1. CASE UNCHANGED <<head, count, slotTask, added>>
  BY <1>1 DEF QueueIntact
<1>2. ASSUME NEW t \in Tasks, threadpool_add(t) PROVE QueueIntact'
  <2>1. CASE AddRefused
    BY <2>1, <1>1 DEF AddRefused
  <2> QED
    BY <1>2, <2>1, AddKeepsQueue DEF threadpool_add
<1>3. ASSUME NEW w \in Workers, WorkerTake(w) PROVE QueueIntact'
  BY <1>3, TakeKeepsQueue
<1> QED
  BY <1>1, <1>2, <1>3
     DEF Next, OwnerStep, WorkerStep, Terminated, vars, CreateThread, CreateDone,
         threadpool_wait, WaitReturn, JoinAndFree,
         JoinUnstarted, CreateFails, threadpool_destroy, BeginDestroy,
         OwnerSpuriousWake, WorkerSleep, WorkerLeave, WorkerSpuriousWake,
         WorkerInvoke, WorkerReturn, WorkerFinish, WorkerExitRead, WorkerExitWrite

\* threadpool_add never writes over a task that is still queued, nor queues one
\* twice, however far the owner runs ahead of the workers and for any ring.
THEOREM QueueStaysIntact == Spec => []QueueIntact
<1>1. Init => QueueIntact
  BY DEF Init, QueueIntact
<1> QED
  BY <1>1, QueueStep, TypeCorrect, RingCorrect, PTL DEF Spec

-------------------------------------------------------------------------------
(* The pool as the server uses it: every threadpool_add is awaited. *)

CallVars == <<count, head, shutdown, slotTask, slotResult, slotDone, wslot,
              wtask, mpc, mslot, mtask, err, added, runs, got>>

\* A step of a worker that has no task, or the birth of one, leaves the
\* owner's call where it is.
LEMMA QuietStep ==
  ASSUME CallInv, UNCHANGED CallVars,
         \A w \in Workers : /\ Busy(w)' <=> Busy(w)
                            /\ Busy(w) => wpc'[w] = wpc[w]
  PROVE  CallInv'
<1> USE DEF CallVars
<1>1. NoneBusy' <=> NoneBusy
  BY DEF NoneBusy
<1>2. ASSUME NEW w \in Workers, TakenBy(w) PROVE TakenBy(w)'
  BY <1>2 DEF TakenBy
<1>3. Queued => Queued'
  BY <1>1 DEF Queued
<1>4. Finished => Finished'
  BY <1>1 DEF Finished
<1>5. Calling' <=> Calling
  BY DEF Calling
<1>6. \A S : Answered(S) => Answered(S)'
  BY DEF Answered
<1>7. Calling' => Queued' \/ (\E w \in Workers : TakenBy(w)') \/ Finished'
  BY <1>2, <1>3, <1>4, <1>5 DEF CallInv
<1>8. ~Calling' => count' = 0 /\ NoneBusy' /\ Answered(added)'
  BY <1>1, <1>5, <1>6 DEF CallInv
<1>9. Calling' => Answered(added \ {mtask})'
  BY <1>5 DEF CallInv, Answered
<1> QED
  BY <1>5, <1>7, <1>8, <1>9 DEF CallInv

\* An accepted task goes into an empty ring while every worker is free.
LEMMA AddStep ==
  ASSUME TypeOK, RingInv, CallInv, mpc = "idle",
         NEW t \in Tasks, t \notin added, AddTask(t, TRUE)
  PROVE  CallInv'
<1>1. count = 0 /\ NoneBusy /\ Answered(added) /\ shutdown = 0
  BY DEF CallInv, Calling
<1>2. tail = head
  <2>1. tail = head % QueueSize
    BY <1>1 DEF RingInv, TypeOK, Slots
  <2> QED
    BY <2>1, IndexMod DEF TypeOK
<1>3. /\ mpc' = "wait" /\ mslot' = tail /\ mtask' = t /\ count' = 1 /\ head' = head
      /\ err' = 0 /\ added' = added \cup {t} /\ shutdown' = shutdown
      /\ runs' = runs /\ got' = got /\ wslot' = wslot /\ wtask' = wtask
  BY <1>1 DEF AddTask
<1>4. slotTask'[tail] = t /\ slotResult'[tail] = NoTask /\ ~slotDone'[tail]
  BY DEF AddTask, TypeOK
<1>5. NoneBusy'
  <2>1. \A w \in Workers : wpc'[w] = wpc[w] \/ wpc'[w] = "check"
    BY WakingKeepsTypes DEF AddTask, TypeOK
  <2> QED
    BY <1>1, <2>1 DEF NoneBusy, Busy
<1>6. runs[t] = 0 /\ got[t] = NoTask
  BY DEF CallInv
<1>7. Queued'
  BY <1>2, <1>3, <1>4, <1>5, <1>6 DEF Queued
<1>8. Answered(added \ {mtask})'
  BY <1>1, <1>3 DEF Answered
<1>9. \A u \in Tasks \ added' : runs'[u] = 0 /\ got'[u] = NoTask
  BY <1>3 DEF CallInv
<1> QED
  BY <1>1, <1>3, <1>4, <1>6, <1>7, <1>8, <1>9 DEF CallInv, Calling

\* Between calls the owner may begin to destroy the pool.
LEMMA DestroyStep ==
  ASSUME TypeOK, CallInv, mpc \in {"create", "idle"}, NEW flags \in {0, 1}, BeginDestroy(flags)
  PROVE  CallInv'
<1>1. \A w \in Workers : wpc'[w] = wpc[w] \/ wpc'[w] = "check"
  BY WakingKeepsTypes DEF BeginDestroy, TypeOK
<1>2. NoneBusy'
  BY <1>1 DEF CallInv, Calling, NoneBusy, Busy
<1>3. shutdown' = 1 /\ mpc' = "join"
  BY DEF BeginDestroy, THREADPOOL_GRACEFUL
<1> QED
  BY <1>2, <1>3 DEF BeginDestroy, CallInv, Calling, Answered

\* The call of a step of worker w that has the task, or takes it.
LEMMA WorkerTakeStep ==
  ASSUME TypeOK, CallInv, NEW w \in Workers, WorkerTake(w)
  PROVE  CallInv'
<1>1. count # 0 /\ shutdown = 0
  BY DEF WorkerTake, MustLeave, TypeOK
<1>2. Calling /\ Queued
  BY <1>1 DEF CallInv, TakenBy, Finished
<1>3. /\ count' = 0 /\ wpc'[w] = "invoke" /\ wslot'[w] = mslot
      /\ ~slotDone'[mslot]
      /\ \A v \in Workers : v # w => wpc'[v] = wpc[v]
  BY <1>2 DEF WorkerTake, Queued, TypeOK
<1>4. TakenBy(w)'
  BY <1>2, <1>3 DEF WorkerTake, Queued, TakenBy, NoneBusy, Busy
<1>5. Calling' /\ UNCHANGED <<mpc, shutdown, err, added, runs, got, mtask, slotTask, mslot>>
  BY <1>2 DEF WorkerTake, Calling
<1> QED
  BY <1>2, <1>4, <1>5 DEF CallInv, Answered

\* A busy worker holds the task the owner waits for.
LEMMA BusyHasTheCall ==
  ASSUME CallInv, NEW w \in Workers, Busy(w)
  PROVE  Calling /\ TakenBy(w)
<1>1. ~NoneBusy
  BY DEF NoneBusy
<1>2. Calling
  BY <1>1 DEF CallInv
<1>3. PICK v \in Workers : TakenBy(v)
  BY <1>1, <1>2 DEF CallInv, Queued, Finished
<1>4. v = w
  BY <1>3 DEF TakenBy
<1> QED
  BY <1>2, <1>3, <1>4

LEMMA WorkerInvokeStep ==
  ASSUME TypeOK, CallInv, NEW w \in Workers, WorkerInvoke(w)
  PROVE  CallInv'
<1>1. Calling /\ TakenBy(w)
  BY BusyHasTheCall DEF WorkerInvoke, Busy
<1>2. /\ mtask \in added /\ mtask \in Tasks /\ slotTask[wslot[w]] = mtask
      /\ runs[mtask] = 0 /\ wslot[w] = mslot
  BY <1>1 DEF CallInv, TakenBy, WorkerInvoke, TypeOK
<1>3. /\ runs'[mtask] = 1
      /\ \A t \in Tasks : t # mtask => runs'[t] = runs[t]
      /\ wtask'[w] = mtask /\ wpc'[w] = "running"
      /\ \A v \in Workers : v # w => wpc'[v] = wpc[v]
  BY <1>2 DEF WorkerInvoke, TypeOK
<1>4. TakenBy(w)'
  BY <1>1, <1>3 DEF TakenBy, Busy, WorkerInvoke
<1>5. Calling' /\ UNCHANGED <<mpc, shutdown, err, added, got, mtask, slotTask, mslot>>
  BY <1>1 DEF WorkerInvoke, Calling
<1>6. Answered(added \ {mtask})'
  BY <1>1, <1>3, <1>5 DEF CallInv, Answered, TypeOK
<1>7. \A t \in Tasks \ added' : runs'[t] = 0 /\ got'[t] = NoTask
  BY <1>2, <1>3, <1>5 DEF CallInv
<1> QED
  BY <1>1, <1>4, <1>5, <1>6, <1>7 DEF CallInv

LEMMA WorkerReturnStep ==
  ASSUME TypeOK, CallInv, NEW w \in Workers, WorkerReturn(w)
  PROVE  CallInv'
<1>1. Calling /\ TakenBy(w)
  BY BusyHasTheCall DEF WorkerReturn, Busy
<1>2. wslot[w] = mslot /\ wtask[w] = mtask
  BY <1>1 DEF TakenBy, WorkerReturn
<1>3. /\ slotResult'[mslot] = mtask /\ wpc'[w] = "finish"
      /\ \A v \in Workers : v # w => wpc'[v] = wpc[v]
  BY <1>2 DEF WorkerReturn, TypeOK
<1>4. TakenBy(w)'
  BY <1>1, <1>3 DEF TakenBy, Busy, WorkerReturn
<1>5. Calling' /\ UNCHANGED <<mpc, shutdown, err, added, runs, got, mtask, slotTask, mslot>>
  BY <1>1 DEF WorkerReturn, Calling
<1> QED
  BY <1>1, <1>4, <1>5 DEF CallInv, Answered

LEMMA WorkerFinishStep ==
  ASSUME TypeOK, CallInv, NEW w \in Workers, WorkerFinish(w)
  PROVE  CallInv'
<1>1. Calling /\ TakenBy(w)
  BY BusyHasTheCall DEF WorkerFinish, Busy
<1>2. wslot[w] = mslot /\ slotResult[mslot] = mtask /\ runs[mtask] = 1
  BY <1>1 DEF TakenBy, WorkerFinish
<1>3. slotDone'[mslot] /\ mpc' = "wait" /\ wpc'[w] = "check"
      /\ \A v \in Workers : v # w => wpc'[v] = wpc[v]
  BY <1>1, <1>2 DEF WorkerFinish, SignalTaskComplete, TakenBy, TypeOK
<1>4. NoneBusy'
  BY <1>1, <1>3 DEF TakenBy, NoneBusy, Busy
<1>5. UNCHANGED <<count, shutdown, err, added, runs, got, mtask, slotTask, slotResult, mslot>>
  BY DEF WorkerFinish
<1>6. Finished'
  BY <1>1, <1>2, <1>3, <1>4, <1>5 DEF Finished, TakenBy
<1>7. Calling' /\ shutdown' = 0
  BY <1>1, <1>3, <1>5 DEF Calling, CallInv
<1> QED
  BY <1>1, <1>3, <1>5, <1>6, <1>7 DEF CallInv, Answered

\* The owner's own moves within a call.
LEMMA OwnerWaitStep ==
  ASSUME TypeOK, CallInv, threadpool_wait \/ OwnerSpuriousWake
  PROVE  CallInv'
<1>1. Calling /\ Calling' /\ shutdown = 0
  BY DEF threadpool_wait, OwnerSpuriousWake, Calling, CallInv
<1>2. UNCHANGED <<count, head, shutdown, slotTask, slotResult, slotDone, wpc, wslot,
                  wtask, mslot, mtask, err, added, runs, got>>
  BY DEF threadpool_wait, OwnerSpuriousWake
<1>3. mpc' \in {"wait", "blocked", "result"} /\ (mpc' = "result" <=> threadpool_wait /\ slotDone[mslot])
  BY DEF threadpool_wait, OwnerSpuriousWake
<1>4. Queued => Queued'
  BY <1>2, <1>3 DEF Queued, NoneBusy, Busy
<1>5. ASSUME NEW w \in Workers, TakenBy(w) PROVE TakenBy(w)'
  BY <1>2, <1>3, <1>5 DEF TakenBy, Busy
<1>6. Finished => Finished'
  BY <1>2, <1>3 DEF Finished, NoneBusy, Busy, threadpool_wait, OwnerSpuriousWake
<1>7. Queued' \/ (\E w \in Workers : TakenBy(w)') \/ Finished'
  BY <1>1, <1>4, <1>5, <1>6 DEF CallInv
<1>8. mpc' \notin {"join", "done", "crashed"}
  BY <1>3
<1> QED
  BY <1>1, <1>2, <1>7, <1>8 DEF CallInv, Answered

LEMMA WaitReturnStep ==
  ASSUME TypeOK, CallInv, WaitReturn
  PROVE  CallInv'
<1>1. Calling /\ Finished /\ shutdown = 0
  BY DEF WaitReturn, Calling, CallInv, Queued, TakenBy
<1>2. mtask \in added /\ mtask \in Tasks /\ slotResult[mslot] = mtask /\ runs[mtask] = 1
  BY <1>1 DEF CallInv, Finished, TypeOK
<1>3. got'[mtask] = mtask /\ \A t \in Tasks : t # mtask => got'[t] = got[t]
  BY <1>2 DEF WaitReturn, TypeOK
<1>4. mpc' = "idle" /\ UNCHANGED <<count, wpc, shutdown, err, added, runs>>
  BY DEF WaitReturn
<1>5. NoneBusy' /\ count' = 0
  BY <1>1, <1>4 DEF Finished, NoneBusy, Busy
<1>6. Answered(added)'
  BY <1>1, <1>2, <1>3, <1>4 DEF CallInv, Answered, TypeOK
<1>7. \A t \in Tasks \ added' : runs'[t] = 0 /\ got'[t] = NoTask
  BY <1>2, <1>3, <1>4 DEF CallInv
<1> QED
  BY <1>1, <1>4, <1>5, <1>6, <1>7 DEF CallInv, Calling

\* Every step keeps the invariant.
LEMMA CallStep ==
  ASSUME AwaitEach = TRUE, TypeOK, RingInv, CallInv, [Next]_vars
  PROVE  CallInv'
<1>1. ASSUME NEW w \in Workers, CreateThread(w) PROVE CallInv'
  BY <1>1, QuietStep DEF CreateThread, CallVars, Busy, TypeOK
<1>2. CASE CreateDone
  <2>1. UNCHANGED <<count, shutdown, wpc, err, added, runs, got>> /\ mpc = "create" /\ mpc' = "idle"
    BY <1>2 DEF CreateDone
  <2> QED
    BY <2>1 DEF CallInv, Calling, NoneBusy, Busy, Answered
<1>3. ASSUME NEW t \in Tasks, threadpool_add(t) PROVE CallInv'
  <2>1. mpc = "idle" /\ t \notin added
    BY <1>3 DEF threadpool_add
  <2>2. CASE AddTask(t, TRUE)
    BY <2>1, <2>2, AddStep
  <2>3. CASE AddRefused
    <3>1. count = 0 /\ shutdown = 0
      BY <2>1 DEF CallInv, Calling
    <3>2. AddError = 0
      BY <3>1, PoolAssumption DEF AddError
    <3> QED
      BY <2>3, <3>2 DEF AddRefused
  <2> QED
    BY <1>3, <2>2, <2>3 DEF threadpool_add
<1>4. CASE threadpool_wait \/ OwnerSpuriousWake
  BY <1>4, OwnerWaitStep
<1>5. CASE WaitReturn
  BY <1>5, WaitReturnStep
<1>6. CASE JoinAndFree \/ JoinUnstarted
  <2>1. /\ UNCHANGED <<count, shutdown, wpc, added, runs, got>>
        /\ mpc = "join" /\ mpc' \in {"done", "crashed"}
        /\ err' \in {0, THREADPOOL_THREAD_FAILURE}
    BY <1>6 DEF JoinAndFree, JoinUnstarted, CallInv
  <2> QED
    BY <2>1 DEF CallInv, Calling, NoneBusy, Busy, Answered
<1>7. CASE CreateFails
  BY <1>7, DestroyStep DEF CreateFails
<1>8. CASE threadpool_destroy
  BY <1>8, DestroyStep DEF threadpool_destroy, THREADPOOL_GRACEFUL
<1>9. ASSUME NEW w \in Workers,
             \/ WorkerSleep(w) \/ WorkerLeave(w) \/ WorkerSpuriousWake(w)
             \/ WorkerExitRead(w) \/ WorkerExitWrite(w)
      PROVE  CallInv'
  <2>1. UNCHANGED CallVars
    BY <1>9 DEF WorkerSleep, WorkerLeave, WorkerSpuriousWake, WorkerExitRead,
                WorkerExitWrite, CallVars
  <2>2. /\ ~Busy(w) /\ ~Busy(w)'
        /\ \A v \in Workers : v # w => wpc'[v] = wpc[v]
    BY <1>9 DEF WorkerSleep, WorkerLeave, WorkerSpuriousWake, WorkerExitRead,
                WorkerExitWrite, Busy, TypeOK
  <2> QED
    BY <2>1, <2>2, QuietStep DEF Busy
<1>10. ASSUME NEW w \in Workers, WorkerTake(w) PROVE CallInv'
  BY <1>10, WorkerTakeStep
<1>11. ASSUME NEW w \in Workers, WorkerInvoke(w) PROVE CallInv'
  BY <1>11, WorkerInvokeStep
<1>12. ASSUME NEW w \in Workers, WorkerReturn(w) PROVE CallInv'
  BY <1>12, WorkerReturnStep
<1>13. ASSUME NEW w \in Workers, WorkerFinish(w) PROVE CallInv'
  BY <1>13, WorkerFinishStep
<1>14. CASE UNCHANGED vars
  BY <1>14, QuietStep DEF vars, CallVars, Busy
<1> QED
  BY <1>1, <1>2, <1>3, <1>4, <1>5, <1>6, <1>7, <1>8, <1>9, <1>10, <1>11, <1>12,
     <1>13, <1>14 DEF Next, OwnerStep, WorkerStep, Terminated

LEMMA CallInit == Init => CallInv
  BY DEF Init, CallInv, Calling, NoneBusy, Busy, Answered

\* With an owner that waits for each task, a call goes through its phases
\* whatever the workers do, for any number of workers and any queue size.
THEOREM CallCorrect == ASSUME AwaitEach = TRUE PROVE Spec => []CallInv
<1>1. TypeOK /\ RingInv /\ CallInv /\ [Next]_vars => CallInv'
  BY CallStep
<1> QED
  BY <1>1, CallInit, TypeCorrect, RingCorrect, PTL DEF Spec

\* The handlers run one at a time, and only while the main thread waits:
\* this is what makes their unlocked use of the client tables safe.
THEOREM HandlersExclusive ==
  ASSUME AwaitEach = TRUE PROVE Spec => []HandlerExclusive
<1>1. CallInv => HandlerExclusive
  BY BusyHasTheCall DEF HandlerExclusive, TakenBy
<1> QED
  BY <1>1, CallCorrect, PTL

\* threadpool_wait returns the result of the task that was added, which ran
\* exactly once, though the slot is used again by later tasks.
THEOREM ResultsAreOwn == ASSUME AwaitEach = TRUE PROVE Spec => []OwnResult
<1>1. TypeOK /\ CallInv => OwnResult
  <2> SUFFICES ASSUME TypeOK, CallInv, NEW t \in Tasks
               PROVE  runs[t] <= 1 /\ (got[t] # NoTask => got[t] = t /\ runs[t] = 1)
    BY DEF OwnResult
  <2>1. CASE t \notin added
    BY <2>1 DEF CallInv
  <2>2. CASE t \in added /\ (~Calling \/ t # mtask)
    BY <2>2 DEF CallInv, Answered
  <2>3. CASE Calling /\ t = mtask
    BY <2>3 DEF CallInv, Queued, TakenBy, Finished
  <2> QED
    BY <2>1, <2>2, <2>3
<1> QED
  BY <1>1, CallCorrect, TypeCorrect, PTL

\* handle_connections never sees threadpool_add fail on a live pool.
THEOREM AddNeverRefused == ASSUME AwaitEach = TRUE PROVE Spec => []NeverRefused
<1>1. CallInv => NeverRefused
  BY DEF CallInv, NeverRefused, THREADPOOL_QUEUE_FULL, THREADPOOL_SHUTDOWN,
         THREADPOOL_THREAD_FAILURE
<1> QED
  BY <1>1, CallCorrect, PTL

\* The main thread never sleeps on a task that is done.
THEOREM WakeupsNotLost == ASSUME AwaitEach = TRUE PROVE Spec => []NoLostWakeup
<1>1. CallInv => NoLostWakeup
  BY DEF CallInv, NoLostWakeup, Calling, Queued, TakenBy, Finished
<1> QED
  BY <1>1, CallCorrect, PTL

\* The pool is destroyed only when every accepted task was executed and
\* answered.
THEOREM NothingDropped == ASSUME AwaitEach = TRUE PROVE Spec => []DestroyDropsNothing
<1>1. CallInv => DestroyDropsNothing
  BY DEF CallInv, DestroyDropsNothing, Calling, Answered
<1> QED
  BY <1>1, CallCorrect, PTL

-------------------------------------------------------------------------------
(* The pool implements a synchronous call. *)

\* The abstract stage, read off the phase of the call.
LEMMA StageOfPhase ==
  ASSUME TypeOK, CallInv
  PROVE  /\ ~Calling => CallStage = "idle"
         /\ Calling /\ Queued => CallStage = "called"
         /\ \A w \in Workers : Calling /\ TakenBy(w) =>
              CallStage = CASE wpc[w] = "invoke"  -> "called"
                            [] wpc[w] = "running" -> "executing"
                            [] wpc[w] = "finish"  -> "executed"
         /\ Calling /\ Finished => CallStage = "executed"
<1>1. Calling => mtask \in Tasks /\ mtask # NoTask
  BY PoolAssumption DEF CallInv, TypeOK
<1> QED
  BY <1>1 DEF CallStage, Calling, Queued, TakenBy, Finished, Busy

\* Steps that touch nothing of the owner, the histories and the awaited slot's
\* result do not move the abstract call.
LEMMA StutterStep ==
  ASSUME UNCHANGED <<mpc, mslot, mtask, slotResult, added, runs, got>>
  PROVE  UNCHANGED Sync!vars
  BY DEF Sync!vars, CallStage

LEMMA SyncStep ==
  ASSUME AwaitEach = TRUE, TypeOK, RingInv, CallInv, TypeOK', CallInv', [Next]_vars
  PROVE  [Sync!Next]_(Sync!vars)
<1>1. ASSUME NEW w \in Workers, CreateThread(w) PROVE UNCHANGED Sync!vars
  BY <1>1, StutterStep DEF CreateThread
<1>2. CASE CreateDone \/ CreateFails \/ threadpool_destroy \/ JoinAndFree \/ JoinUnstarted
  <2>1. ~Calling /\ ~Calling' /\ UNCHANGED <<mtask, added, got>>
    BY <1>2 DEF CreateDone, CreateFails, threadpool_destroy, BeginDestroy,
                JoinAndFree, JoinUnstarted, Calling
  <2> QED
    BY <2>1 DEF Sync!vars, CallStage, Calling
<1>3. ASSUME NEW t \in Tasks, threadpool_add(t) PROVE [Sync!Next]_(Sync!vars)
  <2>1. mpc = "idle" /\ t \notin added
    BY <1>3 DEF threadpool_add
  <2>2. CASE AddRefused
    BY <2>2, StutterStep DEF AddRefused
  <2>3. CASE AddTask(t, TRUE)
    <3>1. mpc' = "wait" /\ mtask' = t /\ added' = added \cup {t} /\ got' = got /\ runs' = runs
      BY <2>3 DEF AddTask
    <3>2. runs'[mtask'] = 0
      BY <2>1, <3>1 DEF CallInv
    <3>3. CallStage = "idle" /\ CallStage' = "called"
      BY <2>1, <3>1, <3>2 DEF CallStage
    <3> QED
      BY <2>1, <3>1, <3>3 DEF Sync!Next, Sync!Call
  <2> QED
    BY <1>3, <2>2, <2>3 DEF threadpool_add
<1>4. CASE threadpool_wait \/ OwnerSpuriousWake
  <2>1. /\ Calling /\ Calling'
        /\ UNCHANGED <<mslot, mtask, slotResult, added, runs, got>>
    BY <1>4 DEF threadpool_wait, OwnerSpuriousWake, Calling
  <2> QED
    BY <2>1 DEF Sync!vars, CallStage, Calling
<1>5. CASE WaitReturn
  <2>1. Calling /\ Finished
    BY <1>5 DEF WaitReturn, Calling, CallInv, Queued, TakenBy
  <2>2. CallStage = "executed"
    BY <2>1, StageOfPhase
  <2>3. CallStage' = "idle"
    BY <1>5 DEF WaitReturn, CallStage
  <2>4. got' = [got EXCEPT ![mtask] = mtask] /\ UNCHANGED <<mtask, added>>
    BY <1>5, <2>1 DEF WaitReturn, Finished
  <2> QED
    BY <2>2, <2>3, <2>4 DEF Sync!Next, Sync!Return
<1>6. ASSUME NEW w \in Workers,
             \/ WorkerSleep(w) \/ WorkerLeave(w) \/ WorkerSpuriousWake(w)
             \/ WorkerTake(w) \/ WorkerExitRead(w) \/ WorkerExitWrite(w)
      PROVE  UNCHANGED Sync!vars
  BY <1>6, StutterStep DEF WorkerSleep, WorkerLeave, WorkerSpuriousWake, WorkerTake,
                           WorkerExitRead, WorkerExitWrite
<1>7. ASSUME NEW w \in Workers, WorkerInvoke(w) PROVE Sync!Next
  <2>1. Calling /\ TakenBy(w) /\ wpc[w] = "invoke"
    BY <1>7, BusyHasTheCall DEF WorkerInvoke, Busy
  <2>2. Busy(w)' /\ wpc'[w] = "running" /\ UNCHANGED <<added, mtask, got>>
    BY <1>7 DEF WorkerInvoke, Busy, TypeOK
  <2>3. Calling' /\ TakenBy(w)'
    <3>1. ~NoneBusy'
      BY <2>2 DEF NoneBusy
    <3>2. Calling'
      BY <2>1, <1>7 DEF WorkerInvoke, Calling
    <3>3. PICK v \in Workers : TakenBy(v)'
      BY <3>1, <3>2 DEF CallInv, Queued, Finished
    <3>4. v = w
      BY <2>2, <3>3 DEF TakenBy
    <3> QED
      BY <3>2, <3>3, <3>4
  <2>4. CallStage = "called"
    BY <2>1, StageOfPhase
  <2>5. CallStage' = "executing"
    BY <2>2, <2>3, PoolAssumption DEF CallStage, Calling, TakenBy, CallInv, TypeOK
  <2> QED
    BY <2>2, <2>4, <2>5 DEF Sync!Next, Sync!Start
<1>8. ASSUME NEW w \in Workers, WorkerReturn(w) PROVE Sync!Next
  <2>1. Calling /\ TakenBy(w) /\ wpc[w] = "running"
    BY <1>8, BusyHasTheCall DEF WorkerReturn, Busy
  <2>2. UNCHANGED <<mpc, mslot, runs, added, mtask, got>> /\ slotResult'[mslot] = mtask
    BY <1>8, <2>1 DEF WorkerReturn, TakenBy, TypeOK
  <2>3. CallStage = "executing"
    BY <2>1, StageOfPhase
  <2>4. runs[mtask] = 1
    BY <2>1 DEF TakenBy
  <2>5. CallStage' = "executed"
    BY <2>1, <2>2, <2>4 DEF CallStage, Calling
  <2> QED
    BY <2>2, <2>3, <2>5 DEF Sync!Next, Sync!End
<1>9. ASSUME NEW w \in Workers, WorkerFinish(w) PROVE UNCHANGED Sync!vars
  <2>1. Calling
    BY <1>9, BusyHasTheCall DEF WorkerFinish, Busy
  <2>2. Calling' /\ UNCHANGED <<mslot, mtask, slotResult, added, runs, got>>
    BY <1>9, <2>1 DEF WorkerFinish, SignalTaskComplete, Calling
  <2> QED
    BY <2>1, <2>2 DEF Sync!vars, CallStage, Calling
<1>10. CASE UNCHANGED vars
  BY <1>10, StutterStep DEF vars
<1> QED
  BY <1>1, <1>2, <1>3, <1>4, <1>5, <1>6, <1>7, <1>8, <1>9, <1>10
     DEF Next, OwnerStep, WorkerStep, Terminated

\* threadpool_add followed by threadpool_wait is a synchronous procedure call.
THEOREM PoolIsSyncCall == ASSUME AwaitEach = TRUE PROVE Spec => ImplementsSyncCall
<1>1. Init => Sync!Init
  BY DEF Init, Sync!Init, CallStage
<1>2. /\ TypeOK /\ RingInv /\ CallInv /\ TypeOK' /\ CallInv' /\ [Next]_vars
      => [Sync!Next]_(Sync!vars)
  BY SyncStep
<1> QED
  BY <1>1, <1>2, TypeCorrect, RingCorrect, CallCorrect, PTL
     DEF Spec, ImplementsSyncCall, Sync!Spec

===============================================================================
