------------------------- MODULE ThreadGroupProofs -------------------------
(***************************************************************************)
(* Proofs about ThreadGroupT for every set of clients and tasks, every     *)
(* number of workers, both queue groups and both exit strategies.          *)
(***************************************************************************)
EXTENDS ThreadGroup, FiniteSetTheorems, TLAPS

(* Queued tasks are the accepted ones, each in one place; running tasks    *)
(* are those in a worker's hands.                                          *)
QueuedAccepted ==
    \A q \in Queue : \A i \in 1 .. Len(queue[q]) : promise[queue[q][i]] = "accepted"

QueuedOnce ==
    \A q, r \in Queue : \A i \in 1 .. Len(queue[q]), j \in 1 .. Len(queue[r]) :
        queue[q][i] = queue[r][j] => q = r /\ i = j

AcceptedQueued ==
    \A m \in Task : promise[m] = "accepted" =>
        \E q \in Queue : \E i \in 1 .. Len(queue[q]) : queue[q][i] = m

RunningHeld ==
    \A m \in Task : promise[m] = "running" => \E w \in Worker : job[w] = m

HeldRunning ==
    \A w \in Worker : job[w] # None =>
        /\ promise[job[w]] = "running"
        /\ \A v \in Worker : job[v] = job[w] => v = w

(* A worker has a task only while it runs it, leaves only a stopped queue, *)
(* and under exit_after_handle_all only an empty one.                      *)
WorkerFits(w) ==
    /\ w >= started => wpc[w] = "unborn"
    /\ wpc[w] = "run" <=> job[w] # None
    /\ wpc[w] \in {"clear", "done"} => stopped[get_queue(w)]
    /\ wpc[w] = "done" \/ (wpc[w] = "clear" /\ ~Immediate) => queue[get_queue(w)] = <<>>

WorkerSteps == \A w \in Worker : WorkerFits(w)

(* A task on its way into a queue is new and in one client's hands.        *)
ClientPushes ==
    \A c \in Client :
        /\ cpc[c] = "push" => pushing[c] \in Task
        /\ pushing[c] # None =>
              /\ promise[pushing[c]] = "new"
              /\ \A d \in Client : pushing[d] = pushing[c] => d = c

(* One client stops: queue after queue, then waits for thread after thread.*)
StopSteps == {"stop", "join", "stopped"}
ClientSteps == {"idle", "push", "stop", "join", "stopped"}

ClientStops ==
    /\ \A q \in Queue : stopped[q] => flag
    /\ \A c, d \in Client : cpc[c] \in StopSteps /\ cpc[d] \in StopSteps => c = d
    /\ \A c \in Client :
          /\ cpc[c] \in StopSteps => flag
          /\ cpc[c] \notin {"stop", "join"} => next[c] = 0
          /\ cpc[c] = "stop" => \A i \in 0 .. next[c] - 1 : stopped[get_queue(i)]
          /\ cpc[c] \in {"join", "stopped"} => \A q \in Queue : stopped[q]
          /\ cpc[c] = "join" => \A i \in 0 .. next[c] - 1 : wpc[i] = "done"
          /\ cpc[c] = "stopped" => \A w \in Worker : wpc[w] = "done"

(* The inductive invariant.                                                *)
IInv ==
    /\ TypeOK
    /\ QueuedAccepted /\ QueuedOnce /\ AcceptedQueued
    /\ RunningHeld /\ HeldRunning
    /\ WorkerSteps /\ ClientPushes /\ ClientStops

-----------------------------------------------------------------------------

(* Each worker has a queue.                                                *)
LEMMA QueueOfWorker == \A w \in Worker : get_queue(w) \in Queue
BY DEF Queue

(* There is a first worker and a first queue.                              *)
LEMMA ZeroQueue == 0 \in Worker /\ 0 \in Queue
<1>1. 0 \in Worker
    BY NumAssumption DEF Worker
<1> QED BY <1>1 DEF Queue, get_queue

(* The loops of stop() over queues and over threads stay among them.       *)
LEMMA LoopIndex ==
    ASSUME next \in [Client -> Worker], NEW c \in Client
    PROVE  /\ [next EXCEPT ![c] = 0] \in [Client -> Worker]
           /\ next[c] + 1 < num => [next EXCEPT ![c] = next[c] + 1] \in [Client -> Worker]
<1> DEFINE i == next[c] + 1
<1>1. i < num => i \in Worker
    BY NumAssumption DEF Worker
<1> HIDE DEF i
<1>2. /\ [next EXCEPT ![c] = 0] \in [Client -> Worker]
      /\ i < num => [next EXCEPT ![c] = i] \in [Client -> Worker]
    BY <1>1, ZeroQueue
<1> QED BY <1>2 DEF i

(* The dispatcher chooses one of the queues, and its counter stays in its  *)
(* range.                                                                  *)
LEMMA DispatchInRange ==
    ASSUME ticket \in 0 .. TicketModulus - 1
    PROVE  Dispatch \in Worker /\ NextTicket \in 0 .. TicketModulus - 1
<1>1. ASSUME NEW n \in Nat, NEW d \in Nat, d > 0 PROVE n % d \in 0 .. d - 1
    BY <1>1
<1>2. Dispatch \in Worker
    BY <1>1, NumAssumption DEF Dispatch, Worker
<1>3. NextTicket \in 0 .. TicketModulus - 1
    BY <1>1, NumAssumption DEF NextTicket
<1> QED BY <1>2, <1>3

(* What a step of the queues does to their type.                           *)
LEMMA HeadAndTail ==
    ASSUME NEW s \in Seq(Task), s # <<>>
    PROVE  /\ Head(s) \in Task /\ Tail(s) \in Seq(Task)
           /\ Len(s) \in Nat /\ Len(s) > 0 /\ Len(Tail(s)) = Len(s) - 1
           /\ Head(s) = s[1]
           /\ \A i \in 1 .. Len(Tail(s)) : Tail(s)[i] = s[i + 1]
OBVIOUS

(* The group begins empty, with no thread and nothing pushed.              *)
LEMMA InitIInv == Init => IInv
<1> SUFFICES ASSUME Init PROVE IInv OBVIOUS
<1> USE DEF Init
<1>1. TypeOK
  <2>1. <<>> \in Seq(Task)
    OBVIOUS
  <2>2. 0 \in 0 .. TicketModulus - 1 /\ 0 \in 0 .. num
    BY NumAssumption
  <2> QED BY ZeroQueue, <2>1, <2>2 DEF TypeOK, PromiseStates
<1>2. QueuedAccepted /\ QueuedOnce
    BY DEF QueuedAccepted, QueuedOnce
<1>3. AcceptedQueued /\ RunningHeld /\ HeldRunning
    BY DEF AcceptedQueued, RunningHeld, HeldRunning
<1>4. WorkerSteps
    BY QueueOfWorker DEF WorkerSteps, WorkerFits
<1>5. ClientPushes /\ ClientStops
    BY DEF ClientPushes, ClientStops, StopSteps
<1> QED BY <1>1, <1>2, <1>3, <1>4, <1>5 DEF IInv

(* Every step keeps the variables in their types.                          *)
LEMMA TypeStep == TypeOK /\ ClientPushes /\ [Next]_vars => TypeOK'
<1> SUFFICES ASSUME TypeOK, ClientPushes, [Next]_vars PROVE TypeOK' OBVIOUS
<1> USE DEF TypeOK, PromiseStates, Unfinished
<1>1. CASE UNCHANGED vars
    BY <1>1 DEF vars, queues, workers, clients
<1>2. CASE StartThread
  <2>1. started \in Worker /\ started + 1 \in 0 .. num
    BY <1>2, NumAssumption DEF StartThread, Worker
  <2> QED BY <1>2, <2>1 DEF StartThread, queues, clients
<1>3. ASSUME NEW c \in Client, PushDispatch(c) PROVE TypeOK'
  <2>1. get_queue(Dispatch) \in Queue /\ NextTicket \in 0 .. TicketModulus - 1
    BY DispatchInRange, QueueOfWorker
  <2> QED BY <1>3, <2>1 DEF PushDispatch, queues, workers
<1>4. ASSUME NEW c \in Client, PushQueue(c) PROVE TypeOK'
  <2>1. target' \in [Client -> Queue] /\ pushing' \in [Client -> Task \cup {None}]
    BY <1>4, ZeroQueue DEF PushQueue
  <2>2. CASE push_stopped(target[c])
    BY <1>4, <2>1, <2>2 DEF PushQueue, workers
  <2>3. CASE ~push_stopped(target[c])
    <3> DEFINE q == target[c]  m == pushing[c]
    <3>1. m \in Task
      BY <1>4 DEF PushQueue, ClientPushes
    <3>2. Append(queue[q], m) \in Seq(Task) /\ Append(arrived[q], m) \in Seq(Task)
      BY <3>1
    <3>3. queue' = [queue EXCEPT ![q] = Append(queue[q], m)]
          /\ arrived' = [arrived EXCEPT ![q] = Append(arrived[q], m)]
      BY <1>4, <2>3 DEF PushQueue
    <3>4. queue' \in [Queue -> Seq(Task)] /\ arrived' \in [Queue -> Seq(Task)]
      BY <3>2, <3>3
    <3>5. wpc' \in [Worker -> {"unborn", "pop", "wait", "run", "clear", "done"}]
      BY <1>4, <2>3 DEF PushQueue, NotifyAll
    <3> QED BY <1>4, <2>1, <2>3, <3>4, <3>5 DEF PushQueue
  <2> QED BY <2>2, <2>3
<1>5. ASSUME NEW c \in Client, StopFlag(c) PROVE TypeOK'
    BY <1>5 DEF StopFlag, queues, workers
<1>6. ASSUME NEW c \in Client, StopQueue(c) PROVE TypeOK'
  <2>1. stopped' \in [Queue -> BOOLEAN]
    BY <1>6 DEF StopQueue
  <2>2. wpc' \in [Worker -> {"unborn", "pop", "wait", "run", "clear", "done"}]
    BY <1>6 DEF StopQueue, NotifyAll
  <2>3. next' \in [Client -> Worker] /\ cpc' \in [Client -> ClientSteps]
    <3>1. CASE next[c] + 1 < num
      <4>1. next' = [next EXCEPT ![c] = next[c] + 1] /\ cpc' = cpc
        BY <1>6, <3>1 DEF StopQueue
      <4> QED BY <3>1, <4>1, LoopIndex DEF ClientSteps
    <3>2. CASE ~(next[c] + 1 < num)
      <4>1. next' = [next EXCEPT ![c] = 0] /\ cpc' = [cpc EXCEPT ![c] = "join"]
        BY <1>6, <3>2 DEF StopQueue
      <4> QED BY <4>1, LoopIndex DEF ClientSteps
    <3> QED BY <3>1, <3>2
  <2> QED BY <1>6, <2>1, <2>2, <2>3 DEF StopQueue, ClientSteps
<1>7. ASSUME NEW c \in Client, Join(c) PROVE TypeOK'
  <2>1. next' \in [Client -> Worker] /\ cpc' \in [Client -> ClientSteps]
    <3>1. CASE next[c] + 1 < num
      <4>1. next' = [next EXCEPT ![c] = next[c] + 1] /\ cpc' = cpc
        BY <1>7, <3>1 DEF Join
      <4> QED BY <3>1, <4>1, LoopIndex DEF ClientSteps
    <3>2. CASE ~(next[c] + 1 < num)
      <4>1. next' = [next EXCEPT ![c] = 0] /\ cpc' = [cpc EXCEPT ![c] = "stopped"]
        BY <1>7, <3>2 DEF Join
      <4> QED BY <4>1, LoopIndex DEF ClientSteps
    <3> QED BY <3>1, <3>2
  <2> QED BY <1>7, <2>1 DEF Join, ClientSteps, queues, workers
<1>8. ASSUME NEW w \in Worker, WorkerStep(w) PROVE TypeOK'
  <2> DEFINE q == get_queue(w)
  <2>0. q \in Queue
    BY QueueOfWorker
  <2>1. CASE PopTask(w)
    <3>1. Head(queue[q]) \in Task /\ Tail(queue[q]) \in Seq(Task)
      BY <2>0, <2>1, HeadAndTail DEF PopTask
    <3>2. queue' = [queue EXCEPT ![q] = Tail(queue[q])] /\ job' = [job EXCEPT ![w] = Head(queue[q])]
          /\ promise' = [promise EXCEPT ![Head(queue[q])] = "running"]
      BY <2>1 DEF PopTask, Popped
    <3>3. queue' \in [Queue -> Seq(Task)] /\ job' \in [Worker -> Task \cup {None}]
      BY <3>1, <3>2
    <3> QED BY <2>1, <3>2, <3>3 DEF PopTask, clients
  <2>2. CASE PopWait(w) \/ WaitTimeout(w) \/ PopStopped(w)
    BY <2>2 DEF PopWait, WaitTimeout, PopStopped, queues, clients
  <2>3. CASE RunTask(w)
    BY <2>3 DEF RunTask, queues, clients
  <2>4. CASE ClearQueue(w)
    <3>1. queue' = [queue EXCEPT ![q] = <<>>]
      BY <2>4 DEF ClearQueue
    <3>2. <<>> \in Seq(Task)
      OBVIOUS
    <3>3. queue' \in [Queue -> Seq(Task)]
      BY <3>1, <3>2
    <3> QED BY <2>4, <3>3 DEF ClearQueue, clients
  <2> QED BY <1>8, <2>1, <2>2, <2>3, <2>4 DEF WorkerStep
<1> QED BY <1>1, <1>2, <1>3, <1>4, <1>5, <1>6, <1>7, <1>8 DEF Next, ClientStep

(* Only these steps change a queue, a promise or what a worker runs.       *)
LEMMA OtherSteps ==
    ASSUME [Next]_vars,
           \A c \in Client : ~PushQueue(c),
           \A w \in Worker : ~PopTask(w) /\ ~RunTask(w) /\ ~ClearQueue(w)
    PROVE  UNCHANGED <<queue, promise, job>>
<1>1. CASE UNCHANGED vars
    BY <1>1 DEF vars, queues, workers
<1>2. CASE StartThread
    BY <1>2 DEF StartThread, queues
<1>3. ASSUME NEW c \in Client, PushDispatch(c) \/ StopFlag(c) \/ ClientStep(c)
      PROVE  UNCHANGED <<queue, promise, job>>
    BY <1>3 DEF PushDispatch, StopFlag, ClientStep, StopQueue, Join, queues, workers
<1>4. ASSUME NEW w \in Worker, WorkerStep(w)
      PROVE  UNCHANGED <<queue, promise, job>>
    BY <1>4 DEF WorkerStep, PopWait, WaitTimeout, PopStopped, queues
<1> QED BY <1>1, <1>2, <1>3, <1>4 DEF Next

(* A promise that is not, and does not become, that of a running task.     *)
LEMMA HandsKept ==
    ASSUME TypeOK, RunningHeld, HeldRunning, job' = job,
           \A m \in Task : promise'[m] = "running" <=> promise[m] = "running"
    PROVE  (RunningHeld /\ HeldRunning)'
<1>1. \A w \in Worker : job[w] # None => job[w] \in Task
    BY DEF TypeOK
<1>2. RunningHeld'
    BY DEF RunningHeld
<1>3. HeldRunning'
    BY <1>1 DEF HeldRunning
<1> QED BY <1>2, <1>3

(* The conjuncts of the invariant about tasks.                             *)
Tasks == QueuedAccepted /\ QueuedOnce /\ AcceptedQueued /\ RunningHeld /\ HeldRunning

(* The queues and hands hold the tasks the promises say they do.           *)
LEMMA TasksStep == IInv /\ [Next]_vars => Tasks'
<1> SUFFICES ASSUME IInv, [Next]_vars PROVE Tasks' OBVIOUS
<1> USE DEF IInv
<1>1. ASSUME NEW c \in Client, PushQueue(c) PROVE Tasks'
  <2> DEFINE q == target[c]  m == pushing[c]
  <2>1. m \in Task /\ m # None /\ promise[m] = "new" /\ q \in Queue
    BY <1>1, NoneAssumption DEF PushQueue, ClientPushes, TypeOK
  <2>2. job' = job
    BY <1>1 DEF PushQueue
  <2>3. CASE push_stopped(q)
    <3>1. queue' = queue /\ promise' = [promise EXCEPT ![m] = "refused"]
      BY <1>1, <2>3 DEF PushQueue
    <3>2. \A k \in Task : promise'[k] = IF k = m THEN "refused" ELSE promise[k]
      BY <3>1 DEF TypeOK
    <3>3. \A r \in Queue : \A i \in 1 .. Len(queue[r]) : queue[r][i] \in Task /\ queue[r][i] # m
      BY <2>1 DEF TypeOK, QueuedAccepted
    <3>4. (QueuedAccepted /\ QueuedOnce /\ AcceptedQueued)'
      BY <3>1, <3>2, <3>3 DEF QueuedAccepted, QueuedOnce, AcceptedQueued
    <3>5. (RunningHeld /\ HeldRunning)'
      BY <2>1, <2>2, <3>2, HandsKept
    <3> QED BY <3>4, <3>5 DEF Tasks
  <2>4. CASE ~push_stopped(q)
    <3>1. queue' = [queue EXCEPT ![q] = Append(queue[q], m)]
          /\ promise' = [promise EXCEPT ![m] = "accepted"]
      BY <1>1, <2>4 DEF PushQueue
    <3>2. \A k \in Task : promise'[k] = IF k = m THEN "accepted" ELSE promise[k]
      BY <3>1 DEF TypeOK
    <3>3. \A r \in Queue : queue[r] \in Seq(Task) /\ Len(queue[r]) \in Nat
      BY DEF TypeOK
    <3>4. \A r \in Queue : r # q => queue'[r] = queue[r]
      BY <3>1 DEF TypeOK
    <3>5. /\ Len(queue'[q]) = Len(queue[q]) + 1
          /\ queue'[q][Len(queue[q]) + 1] = m
          /\ \A i \in 1 .. Len(queue[q]) : queue'[q][i] = queue[q][i]
      BY <2>1, <3>1, <3>3 DEF TypeOK
    <3>6. \A r \in Queue : \A i \in 1 .. Len(queue'[r]) :
             \/ i \in 1 .. Len(queue[r]) /\ queue'[r][i] = queue[r][i]
             \/ r = q /\ i = Len(queue[q]) + 1 /\ queue'[r][i] = m
      BY <3>3, <3>4, <3>5, SMTT(30)
    <3>7. \A r \in Queue : \A i \in 1 .. Len(queue[r]) :
             /\ queue[r][i] \in Task /\ queue[r][i] # m
             /\ i \in 1 .. Len(queue'[r]) /\ queue'[r][i] = queue[r][i]
      BY <2>1, <3>3, <3>4, <3>5, SMTT(30) DEF QueuedAccepted
    <3>8. QueuedAccepted'
      BY <2>1, <3>2, <3>6, <3>7 DEF QueuedAccepted
    <3>9. QueuedOnce'
      BY <3>6, <3>7 DEF QueuedOnce
    <3>10. AcceptedQueued'
      <4> SUFFICES ASSUME NEW k \in Task, promise'[k] = "accepted"
                   PROVE  \E r \in Queue : \E i \in 1 .. Len(queue'[r]) : queue'[r][i] = k
          BY DEF AcceptedQueued
      <4>1. CASE k = m
        BY <2>1, <3>3, <3>5, <4>1
      <4>2. CASE k # m
        BY <3>2, <3>7, <4>2 DEF AcceptedQueued
      <4> QED BY <4>1, <4>2
    <3>11. (RunningHeld /\ HeldRunning)'
      BY <2>1, <2>2, <3>2, HandsKept
    <3> QED BY <3>8, <3>9, <3>10, <3>11 DEF Tasks
  <2> QED BY <2>3, <2>4
<1>2. ASSUME NEW w \in Worker, PopTask(w) PROVE Tasks'
  <2> DEFINE q == get_queue(w)  m == queue[q][1]
  <2>1. q \in Queue /\ queue[q] \in Seq(Task) /\ queue[q] # <<>> /\ wpc[w] = "pop"
    BY <1>2, QueueOfWorker DEF PopTask, TypeOK
  <2>2. /\ m \in Task /\ m # None /\ Tail(queue[q]) \in Seq(Task)
        /\ Len(queue[q]) \in Nat /\ Len(queue[q]) > 0
        /\ Len(Tail(queue[q])) = Len(queue[q]) - 1 /\ Head(queue[q]) = m
        /\ \A i \in 1 .. Len(Tail(queue[q])) : Tail(queue[q])[i] = queue[q][i + 1]
    BY <2>1, HeadAndTail, NoneAssumption
  <2>3. /\ queue' = [queue EXCEPT ![q] = Tail(queue[q])]
        /\ job' = [job EXCEPT ![w] = m]
        /\ promise' = [promise EXCEPT ![m] = "running"]
    BY <1>2, <2>2 DEF PopTask, Popped
  <2>4. \A k \in Task : promise'[k] = IF k = m THEN "running" ELSE promise[k]
    BY <2>3 DEF TypeOK
  <2>5. \A v \in Worker : job'[v] = IF v = w THEN m ELSE job[v]
    BY <2>3 DEF TypeOK
  <2>6. promise[m] = "accepted"
    BY <2>1, <2>2 DEF QueuedAccepted
  <2>7. \A r \in Queue : queue'[r] = IF r = q THEN Tail(queue[q]) ELSE queue[r]
    BY <2>3 DEF TypeOK
  <2>8. \A r \in Queue : Len(queue[r]) \in Nat /\ \A i \in 1 .. Len(queue[r]) : queue[r][i] \in Task
    BY DEF TypeOK
  <2>9. queue'[q] = Tail(queue[q]) /\ \A r \in Queue : r # q => queue'[r] = queue[r]
    BY <2>1, <2>7
  <2> HIDE DEF q, m
  <2>10. \A i \in 1 .. Len(queue'[q]) :
           i \in Nat /\ i + 1 \in 1 .. Len(queue[q]) /\ queue'[q][i] = queue[q][i + 1]
    BY <2>2, <2>9
  <2>11. \A r \in Queue : \A i \in 1 .. Len(queue'[r]) : queue'[r][i] \in Task /\ queue'[r][i] # m
    <3> SUFFICES ASSUME NEW r \in Queue, NEW i \in 1 .. Len(queue'[r])
                 PROVE  queue'[r][i] \in Task /\ queue'[r][i] # m
        OBVIOUS
    <3>1. 1 \in 1 .. Len(queue[q]) /\ queue[q][1] = m
      BY <2>2 DEF m
    <3>2. CASE r = q
      <4>1. i \in Nat /\ i + 1 \in 1 .. Len(queue[q]) /\ queue'[q][i] = queue[q][i + 1] /\ i + 1 # 1
        BY <2>10, <3>2
      <4> QED BY <2>1, <2>8, <3>1, <3>2, <4>1 DEF QueuedOnce
    <3>3. CASE r # q
      BY <2>1, <2>8, <2>9, <3>1, <3>3 DEF QueuedOnce
    <3> QED BY <3>2, <3>3
  <2>12. QueuedAccepted'
    <3> SUFFICES ASSUME NEW r \in Queue, NEW i \in 1 .. Len(queue'[r])
                 PROVE  promise'[queue'[r][i]] = "accepted"
        BY DEF QueuedAccepted
    <3>1. promise'[queue'[r][i]] = promise[queue'[r][i]]
      BY <2>4, <2>11
    <3>2. CASE r = q
      BY <2>1, <2>10, <3>1, <3>2 DEF QueuedAccepted
    <3>3. CASE r # q
      BY <2>9, <3>1, <3>3 DEF QueuedAccepted
    <3> QED BY <3>2, <3>3
  <2>13. QueuedOnce'
    <3> SUFFICES ASSUME NEW r \in Queue, NEW s \in Queue,
                        NEW i \in 1 .. Len(queue'[r]), NEW j \in 1 .. Len(queue'[s]),
                        queue'[r][i] = queue'[s][j]
                 PROVE  r = s /\ i = j
        BY DEF QueuedOnce
    <3>1. CASE r = q /\ s = q
      <4>1. i \in Nat /\ j \in Nat /\ queue[q][i + 1] = queue[q][j + 1]
            /\ i + 1 \in 1 .. Len(queue[q]) /\ j + 1 \in 1 .. Len(queue[q])
        BY <2>10, <3>1
      <4>2. i + 1 = j + 1
        BY <2>1, <4>1 DEF QueuedOnce
      <4> QED BY <3>1, <4>1, <4>2
    <3>2. CASE r # q /\ s # q
      BY <2>9, <3>2 DEF QueuedOnce
    <3>3. CASE r = q /\ s # q
      <4>1. /\ i + 1 \in 1 .. Len(queue[q]) /\ j \in 1 .. Len(queue[s])
            /\ queue[q][i + 1] = queue[s][j]
        BY <2>9, <2>10, <3>3
      <4> QED BY <2>1, <3>3, <4>1 DEF QueuedOnce
    <3>4. CASE r # q /\ s = q
      <4>1. /\ j + 1 \in 1 .. Len(queue[q]) /\ i \in 1 .. Len(queue[r])
            /\ queue[q][j + 1] = queue[r][i]
        BY <2>9, <2>10, <3>4
      <4> QED BY <2>1, <3>4, <4>1 DEF QueuedOnce
    <3> QED BY <3>1, <3>2, <3>3, <3>4
  <2>14. AcceptedQueued'
    <3> SUFFICES ASSUME NEW k \in Task, promise'[k] = "accepted"
                 PROVE  \E r \in Queue : \E i \in 1 .. Len(queue'[r]) : queue'[r][i] = k
        BY DEF AcceptedQueued
    <3>1. k # m /\ promise[k] = "accepted"
      BY <2>4
    <3>2. PICK r \in Queue : \E i \in 1 .. Len(queue[r]) : queue[r][i] = k
      BY <3>1 DEF AcceptedQueued
    <3>3. PICK i \in 1 .. Len(queue[r]) : queue[r][i] = k
      BY <3>2
    <3>4. CASE r = q
      <4>1. i \in Nat /\ i # 1 /\ i >= 1 /\ i <= Len(queue[q])
        BY <2>8, <3>1, <3>3, <3>4 DEF m
      <4>2. i - 1 \in 1 .. Len(Tail(queue[q])) /\ (i - 1) + 1 = i
        BY <2>2, <4>1
      <4>3. Tail(queue[q])[i - 1] = queue[q][i]
        BY <2>2, <4>2
      <4> QED BY <2>1, <2>9, <3>3, <3>4, <4>2, <4>3
    <3>5. CASE r # q
      BY <2>9, <3>3, <3>5
    <3> QED BY <3>4, <3>5
  <2>15. job[w] = None /\ job'[w] = m
    BY <2>1, <2>5 DEF WorkerSteps, WorkerFits
  <2>16. RunningHeld'
    <3> SUFFICES ASSUME NEW k \in Task, promise'[k] = "running"
                 PROVE  \E v \in Worker : job'[v] = k
        BY DEF RunningHeld
    <3>1. CASE k = m
      BY <2>15, <3>1
    <3>2. CASE k # m
      <4>1. PICK v \in Worker : job[v] = k
        BY <2>4, <3>2 DEF RunningHeld
      <4>2. v # w
        BY <2>15, <4>1, NoneAssumption
      <4> QED BY <2>5, <4>1, <4>2
    <3> QED BY <3>1, <3>2
  <2>17. HeldRunning'
    <3>1. \A v \in Worker : job[v] # None => job[v] \in Task /\ job[v] # m
      BY <2>6 DEF HeldRunning, TypeOK
    <3>2. \A v \in Worker : v # w /\ job'[v] # None =>
             job'[v] = job[v] /\ job'[v] \in Task /\ job'[v] # m
      BY <2>5, <3>1
    <3> QED BY <2>2, <2>4, <2>15, <3>2 DEF HeldRunning
  <2> QED BY <2>12, <2>13, <2>14, <2>16, <2>17 DEF Tasks
<1>3. ASSUME NEW w \in Worker, RunTask(w) PROVE Tasks'
  <2> DEFINE m == job[w]
  <2>1. m \in Task /\ promise[m] = "running"
    BY <1>3 DEF RunTask, WorkerSteps, WorkerFits, HeldRunning, TypeOK
  <2>2. PICK outcome \in {"value", "exception"} : promise' = [promise EXCEPT ![m] = outcome]
    BY <1>3 DEF RunTask
  <2>3. \A k \in Task : promise'[k] = IF k = m THEN outcome ELSE promise[k]
    BY <2>2 DEF TypeOK
  <2>4. queue' = queue
    BY <1>3 DEF RunTask, queues
  <2>5. \A v \in Worker : job'[v] = IF v = w THEN None ELSE job[v]
    BY <1>3 DEF RunTask, TypeOK
  <2>6. \A r \in Queue : \A i \in 1 .. Len(queue[r]) : queue[r][i] \in Task /\ queue[r][i] # m
    BY <2>1 DEF TypeOK, QueuedAccepted
  <2>7. (QueuedAccepted /\ QueuedOnce /\ AcceptedQueued)'
    BY <2>3, <2>4, <2>6 DEF QueuedAccepted, QueuedOnce, AcceptedQueued
  <2>8. RunningHeld'
    BY <2>1, <2>3, <2>5 DEF RunningHeld
  <2>9. \A v \in Worker : job[v] # None => job[v] \in Task
    BY DEF TypeOK
  <2>10. HeldRunning'
    BY <2>1, <2>3, <2>5, <2>9, NoneAssumption DEF HeldRunning
  <2> QED BY <2>7, <2>8, <2>10 DEF Tasks
<1>4. ASSUME NEW w \in Worker, ClearQueue(w) PROVE Tasks'
  <2> DEFINE q == get_queue(w)
  <2>1. q \in Queue /\ queue[q] \in Seq(Task) /\ job' = job
    BY <1>4, QueueOfWorker DEF ClearQueue, TypeOK
  <2>2. Left(q) = {queue[q][i] : i \in 1 .. Len(queue[q])}
    BY <2>1 DEF Left, ToSet
  <2>3. \A k \in Task : promise'[k] = IF k \in Left(q) THEN "abandoned" ELSE promise[k]
    BY <1>4 DEF ClearQueue
  <2>4. \A r \in Queue : queue'[r] = IF r = q THEN <<>> ELSE queue[r]
    BY <1>4 DEF ClearQueue, TypeOK
  <2>5. \A r \in Queue : r # q => \A i \in 1 .. Len(queue[r]) :
           queue[r][i] \in Task /\ queue[r][i] \notin Left(q)
    BY <2>1, <2>2 DEF QueuedOnce, TypeOK
  <2>6. \A r \in Queue : \A i \in 1 .. Len(queue'[r]) : r # q /\ i \in 1 .. Len(queue[r])
    BY <2>4
  <2>7. QueuedAccepted' /\ QueuedOnce'
    BY <2>3, <2>4, <2>5, <2>6 DEF QueuedAccepted, QueuedOnce
  <2>8. AcceptedQueued'
    BY <2>2, <2>3, <2>4 DEF AcceptedQueued
  <2>9. \A k \in Left(q) : promise[k] = "accepted"
    BY <2>1, <2>2 DEF QueuedAccepted
  <2>10. (RunningHeld /\ HeldRunning)'
    BY <2>1, <2>3, <2>9, HandsKept
  <2> QED BY <2>7, <2>8, <2>10 DEF Tasks
<1>5. CASE UNCHANGED <<queue, promise, job>>
    BY <1>5 DEF Tasks, QueuedAccepted, QueuedOnce, AcceptedQueued, RunningHeld, HeldRunning
<1> QED BY <1>1, <1>2, <1>3, <1>4, <1>5, OtherSteps

(* A step that leaves the pushes in progress alone.                        *)
LEMMA PushesKept ==
    ASSUME TypeOK, ClientPushes, pushing' = pushing,
           \A c \in Client : cpc'[c] = "push" => cpc[c] = "push",
           \A m \in Task : promise[m] = "new" => promise'[m] = "new"
    PROVE  ClientPushes'
<1>1. \A c \in Client : pushing[c] # None => pushing[c] \in Task
    BY DEF TypeOK
<1> QED BY <1>1 DEF ClientPushes

(* A task on its way into a queue stays new and in one client's hands.     *)
LEMMA PushesStep == IInv /\ [Next]_vars => ClientPushes'
<1> SUFFICES ASSUME IInv, [Next]_vars PROVE ClientPushes' OBVIOUS
<1> USE DEF IInv
<1>1. ASSUME NEW c \in Client, PushDispatch(c) PROVE ClientPushes'
  <2>1. PICK m \in Task : /\ promise[m] = "new"
                          /\ \A d \in Client : pushing[d] # m
                          /\ pushing' = [pushing EXCEPT ![c] = m]
    BY <1>1 DEF PushDispatch
  <2>2. promise' = promise /\ cpc' = [cpc EXCEPT ![c] = "push"]
    BY <1>1 DEF PushDispatch
  <2>3. \A d \in Client : pushing'[d] = IF d = c THEN m ELSE pushing[d]
    BY <2>1 DEF TypeOK
  <2>4. \A d \in Client : cpc'[d] = IF d = c THEN "push" ELSE cpc[d]
    BY <2>2 DEF TypeOK
  <2> QED BY <2>1, <2>2, <2>3, <2>4 DEF ClientPushes
<1>2. ASSUME NEW c \in Client, PushQueue(c) PROVE ClientPushes'
  <2> DEFINE m == pushing[c]
  <2>1. m \in Task /\ m # None
    BY <1>2, NoneAssumption DEF PushQueue, ClientPushes
  <2>2. \A k \in Task : k # m => promise'[k] = promise[k]
    BY <1>2 DEF PushQueue, TypeOK
  <2>3. pushing' = [pushing EXCEPT ![c] = None] /\ cpc' = [cpc EXCEPT ![c] = "idle"]
    BY <1>2 DEF PushQueue
  <2>4. \A d \in Client : pushing'[d] = IF d = c THEN None ELSE pushing[d]
    BY <2>3 DEF TypeOK
  <2>5. \A d \in Client : cpc'[d] = IF d = c THEN "idle" ELSE cpc[d]
    BY <2>3 DEF TypeOK
  <2>6. \A d \in Client : d # c /\ pushing[d] # None =>
           pushing[d] \in Task /\ promise'[pushing[d]] = "new"
    BY <2>1, <2>2 DEF ClientPushes, TypeOK
  <2> QED BY <2>4, <2>5, <2>6 DEF ClientPushes
<1>3. CASE UNCHANGED vars
    BY <1>3, PushesKept DEF vars, clients
<1>4. CASE StartThread
    BY <1>4, PushesKept DEF StartThread, clients
<1>5. ASSUME NEW c \in Client, StopFlag(c) \/ StopQueue(c) \/ Join(c)
      PROVE  ClientPushes'
  <2>1. pushing' = pushing /\ promise' = promise
    BY <1>5 DEF StopFlag, StopQueue, Join
  <2>2. \A d \in Client : cpc'[d] = "push" => cpc[d] = "push"
    BY <1>5 DEF StopFlag, StopQueue, Join, TypeOK
  <2> QED BY <2>1, <2>2, PushesKept
<1>6. ASSUME NEW w \in Worker, WorkerStep(w) PROVE ClientPushes'
  <2>1. pushing' = pushing /\ cpc' = cpc
    BY <1>6 DEF WorkerStep, PopTask, PopWait, WaitTimeout, PopStopped, RunTask, ClearQueue, clients
  <2> DEFINE q == get_queue(w)
  <2>2. q \in Queue /\ queue[q] \in Seq(Task)
    BY QueueOfWorker DEF TypeOK
  <2>3. CASE PopTask(w)
    <3>1. Head(queue[q]) = queue[q][1] /\ 1 \in 1 .. Len(queue[q])
      BY <2>2, <2>3, HeadAndTail DEF PopTask
    <3>2. promise[Head(queue[q])] = "accepted"
      BY <2>2, <3>1 DEF QueuedAccepted
    <3>3. \A m \in Task : promise[m] = "new" => promise'[m] = "new"
      BY <2>3, <3>2 DEF PopTask, Popped, TypeOK
    <3> QED BY <2>1, <3>3, PushesKept
  <2>4. CASE RunTask(w)
    <3>1. promise[job[w]] = "running"
      BY <2>4 DEF RunTask, WorkerSteps, WorkerFits, HeldRunning
    <3>2. \A m \in Task : promise[m] = "new" => promise'[m] = "new"
      BY <2>4, <3>1 DEF RunTask, TypeOK
    <3> QED BY <2>1, <3>2, PushesKept
  <2>5. CASE ClearQueue(w)
    <3>1. \A m \in Left(q) : promise[m] = "accepted"
      BY <2>2 DEF QueuedAccepted, Left, ToSet
    <3>2. \A m \in Task : promise[m] = "new" => promise'[m] = "new"
      BY <2>5, <3>1 DEF ClearQueue
    <3> QED BY <2>1, <3>2, PushesKept
  <2>6. CASE PopWait(w) \/ WaitTimeout(w) \/ PopStopped(w)
    BY <2>1, <2>6, PushesKept DEF PopWait, WaitTimeout, PopStopped
  <2> QED BY <1>6, <2>3, <2>4, <2>5, <2>6 DEF WorkerStep
<1> QED BY <1>1, <1>2, <1>3, <1>4, <1>5, <1>6 DEF Next, ClientStep

(* What notify_all does to the workers: some of the waiting look again.    *)
LEMMA Notified ==
    ASSUME TypeOK, NEW q, NotifyAll(q), NEW w \in Worker
    PROVE  wpc'[w] = wpc[w] \/ (wpc[w] = "wait" /\ wpc'[w] = "pop")
BY DEF NotifyAll

(* A worker's step agrees with its task, its queue and the stop.           *)
LEMMA WorkersStep == IInv /\ [Next]_vars => WorkerSteps'
<1> SUFFICES ASSUME IInv, [Next]_vars PROVE WorkerSteps' OBVIOUS
<1> USE DEF IInv
<1>1. CASE UNCHANGED vars
    BY <1>1 DEF vars, queues, workers, WorkerSteps, WorkerFits
<1>2. CASE StartThread
  <2>1. started \in Worker
    BY <1>2, NumAssumption DEF StartThread, Worker, TypeOK
  <2>2. \A w \in Worker : wpc'[w] = IF w = started THEN "pop" ELSE wpc[w]
    BY <1>2, <2>1 DEF StartThread, TypeOK
  <2>3. \A w \in Worker : w >= started + 1 => w # started /\ w >= started
    BY <2>1 DEF Worker
  <2>4. wpc[started] = "unborn" /\ started >= started
    BY <2>1 DEF WorkerSteps, WorkerFits, Worker
  <2> QED BY <1>2, <2>1, <2>2, <2>3, <2>4 DEF StartThread, queues, WorkerSteps, WorkerFits
<1>3. ASSUME NEW c \in Client, PushDispatch(c) \/ StopFlag(c) \/ Join(c)
      PROVE  WorkerSteps'
    BY <1>3 DEF PushDispatch, StopFlag, Join, queues, workers, WorkerSteps, WorkerFits
<1>4. ASSUME NEW c \in Client, PushQueue(c) PROVE WorkerSteps'
  <2> DEFINE q == target[c]
  <2>1. job' = job /\ stopped' = stopped /\ started' = started
    BY <1>4 DEF PushQueue
  <2>2. CASE push_stopped(q)
    BY <1>4, <2>1, <2>2 DEF PushQueue, WorkerSteps, WorkerFits
  <2>3. CASE ~push_stopped(q)
    <3>1. ~stopped[q] /\ NotifyAll(q)
      BY <1>4, <2>3 DEF PushQueue, push_stopped
    <3>2. \A r \in Queue : r # q => queue'[r] = queue[r]
      BY <1>4, <2>3 DEF PushQueue, TypeOK
    <3> SUFFICES ASSUME NEW w \in Worker PROVE WorkerFits(w)'
        BY DEF WorkerSteps
    <3> QED BY <2>1, <3>1, <3>2, Notified, QueueOfWorker DEF WorkerSteps, WorkerFits
  <2> QED BY <2>2, <2>3
<1>5. ASSUME NEW c \in Client, StopQueue(c) PROVE WorkerSteps'
  <2>1. job' = job /\ queue' = queue /\ started' = started
    BY <1>5 DEF StopQueue
  <2>2. \A q \in Queue : stopped[q] => stopped'[q]
    BY <1>5 DEF StopQueue, TypeOK
  <2>3. \A w \in Worker : wpc'[w] = wpc[w] \/ (wpc[w] = "wait" /\ wpc'[w] = "pop")
    BY <1>5, Notified DEF StopQueue
  <2> SUFFICES ASSUME NEW w \in Worker PROVE WorkerFits(w)'
      BY DEF WorkerSteps
  <2> QED BY <2>1, <2>2, <2>3, QueueOfWorker DEF WorkerSteps, WorkerFits
<1>6. ASSUME NEW w \in Worker, WorkerStep(w) PROVE WorkerSteps'
  <2> DEFINE q == get_queue(w)
  <2>1. q \in Queue /\ queue[q] \in Seq(Task) /\ stopped' = stopped /\ started' = started
    BY <1>6, QueueOfWorker DEF WorkerStep, PopTask, PopWait, WaitTimeout, PopStopped, RunTask,
       ClearQueue, queues, TypeOK
  <2>2. \A v \in Worker : v # w => wpc'[v] = wpc[v] /\ job'[v] = job[v]
    BY <1>6 DEF WorkerStep, PopTask, PopWait, WaitTimeout, PopStopped, RunTask, ClearQueue, TypeOK
  <2>3. wpc[w] # "unborn"
    BY <1>6 DEF WorkerStep, PopTask, PopWait, WaitTimeout, PopStopped, RunTask, ClearQueue
  <2>4. \A r \in Queue : queue[r] = <<>> => queue'[r] = <<>>
    <3>1. CASE PopTask(w)
      BY <3>1, <2>1 DEF PopTask, TypeOK
    <3>2. CASE ClearQueue(w)
      BY <3>2, <2>1 DEF ClearQueue, TypeOK
    <3> QED BY <1>6, <3>1, <3>2 DEF WorkerStep, PopWait, WaitTimeout, PopStopped, RunTask, queues
  <2>5. \A v \in Worker : v # w => WorkerFits(v)'
    BY <2>1, <2>2, <2>4, QueueOfWorker DEF WorkerSteps, WorkerFits
  <2>6. WorkerFits(w)'
    <3>1. CASE PopTask(w)
      <4>1. Head(queue[q]) \in Task
        BY <2>1, <3>1, HeadAndTail DEF PopTask
      <4>2. wpc'[w] = "run" /\ job'[w] = Head(queue[q])
        BY <3>1 DEF PopTask, Popped, TypeOK
      <4> QED BY <2>1, <2>3, <4>1, <4>2, NoneAssumption DEF WorkerSteps, WorkerFits
    <3>2. CASE PopWait(w) \/ WaitTimeout(w)
      BY <2>1, <2>3, <3>2 DEF PopWait, WaitTimeout, WorkerSteps, WorkerFits, TypeOK
    <3>3. CASE PopStopped(w)
      <4>1. wpc'[w] = "clear" /\ job'[w] = job[w] /\ queue' = queue /\ wpc[w] = "pop"
        BY <3>3 DEF PopStopped, queues, TypeOK
      <4>2. stopped[q] /\ (~Immediate => queue[q] = <<>>)
        BY <3>3 DEF PopStopped, pop_stopped
      <4> QED BY <2>1, <2>3, <4>1, <4>2 DEF WorkerSteps, WorkerFits
    <3>4. CASE RunTask(w)
      BY <2>1, <2>3, <3>4 DEF RunTask, WorkerSteps, WorkerFits, TypeOK
    <3>5. CASE ClearQueue(w)
      <4>1. wpc'[w] = "done" /\ job'[w] = job[w] /\ queue'[q] = <<>> /\ wpc[w] = "clear"
        BY <2>1, <3>5 DEF ClearQueue, TypeOK
      <4> QED BY <2>1, <2>3, <4>1 DEF WorkerSteps, WorkerFits
    <3> QED BY <1>6, <3>1, <3>2, <3>3, <3>4, <3>5 DEF WorkerStep
  <2> QED BY <2>5, <2>6 DEF WorkerSteps
<1> QED BY <1>1, <1>2, <1>3, <1>4, <1>5, <1>6 DEF Next, ClientStep

(* A step that leaves stop() where it is: queues stay stopped and workers  *)
(* that are done stay so.                                                  *)
LEMMA StopsKept ==
    ASSUME ClientStops, TypeOK, UNCHANGED <<stopped, flag, next>>,
           \A c \in Client : cpc[c] = cpc'[c] \/ {cpc[c], cpc'[c]} \cap StopSteps = {},
           \A w \in Worker : wpc[w] = "done" => wpc'[w] = "done"
    PROVE  ClientStops'
<1>1. \A c \in Client : \A step \in StopSteps : cpc'[c] = step <=> cpc[c] = step
    OBVIOUS
<1>2. \A c \in Client : cpc'[c] \in StopSteps <=> cpc[c] \in StopSteps
    BY <1>1
<1>3. \A c \in Client : \A i \in 0 .. next[c] - 1 : i \in Worker
    BY NumAssumption DEF Worker, TypeOK
<1> QED BY <1>1, <1>2, <1>3 DEF ClientStops, StopSteps

(* stop() has stopped the queues and seen off the threads it has passed.   *)
LEMMA StopsStep == IInv /\ [Next]_vars => ClientStops'
<1> SUFFICES ASSUME IInv, [Next]_vars PROVE ClientStops' OBVIOUS
<1> USE DEF IInv
<1>1. CASE UNCHANGED vars
    BY <1>1, StopsKept DEF vars, queues, workers, clients
<1>2. CASE StartThread
  <2>1. started \in Worker
    BY <1>2, NumAssumption DEF StartThread, Worker, TypeOK
  <2>2. wpc[started] = "unborn"
    BY <2>1 DEF WorkerSteps, WorkerFits, Worker
  <2>3. \A w \in Worker : wpc[w] = "done" => wpc'[w] = "done"
    BY <1>2, <2>1, <2>2 DEF StartThread, TypeOK
  <2> QED BY <1>2, <2>3, StopsKept DEF StartThread, queues, clients
<1>3. ASSUME NEW c \in Client, PushDispatch(c) \/ PushQueue(c) PROVE ClientStops'
  <2>1. UNCHANGED <<stopped, flag, next>>
    BY <1>3 DEF PushDispatch, PushQueue, queues
  <2>2. \A d \in Client : cpc[d] = cpc'[d] \/ {cpc[d], cpc'[d]} \cap StopSteps = {}
    BY <1>3 DEF PushDispatch, PushQueue, TypeOK, StopSteps
  <2>3. \A w \in Worker : wpc[w] = "done" => wpc'[w] = "done"
    BY <1>3, Notified DEF PushDispatch, PushQueue, workers
  <2> QED BY <2>1, <2>2, <2>3, StopsKept
<1>4. ASSUME NEW w \in Worker, WorkerStep(w) PROVE ClientStops'
  <2>1. UNCHANGED <<stopped, flag, clients>>
    BY <1>4 DEF WorkerStep, PopTask, PopWait, WaitTimeout, PopStopped, RunTask, ClearQueue, queues
  <2>2. \A v \in Worker : wpc[v] = "done" => wpc'[v] = "done"
    BY <1>4 DEF WorkerStep, PopTask, PopWait, WaitTimeout, PopStopped, RunTask, ClearQueue, TypeOK
  <2> QED BY <2>1, <2>2, StopsKept DEF clients
<1>5. ASSUME NEW c \in Client, StopFlag(c) PROVE ClientStops'
  <2>1. ~flag /\ flag' /\ UNCHANGED <<stopped, wpc, next>> /\ cpc[c] = "idle"
    BY <1>5 DEF StopFlag, queues, workers
  <2>2. \A d \in Client : cpc[d] \notin StopSteps
    BY <2>1 DEF ClientStops
  <2>3. \A d \in Client : cpc'[d] = IF d = c THEN "stop" ELSE cpc[d]
    BY <1>5 DEF StopFlag, TypeOK
  <2>4. next[c] = 0
    BY <2>1 DEF ClientStops
  <2> QED BY <2>1, <2>2, <2>3, <2>4 DEF ClientStops, StopSteps
<1>6. ASSUME NEW c \in Client, StopQueue(c) PROVE ClientStops'
  <2> DEFINE i == next[c]
  <2>1. i \in Worker /\ get_queue(i) \in Queue /\ flag /\ flag' = flag /\ cpc[c] = "stop"
    BY <1>6, QueueOfWorker DEF StopQueue, ClientStops, StopSteps, TypeOK
  <2>2. \A q \in Queue : stopped'[q] <=> stopped[q] \/ q = get_queue(i)
    BY <1>6, <2>1 DEF StopQueue, TypeOK
  <2>3. \A d \in Client : d # c => cpc'[d] = cpc[d] /\ next'[d] = next[d] /\ cpc[d] \notin StopSteps
    BY <1>6, <2>1 DEF StopQueue, ClientStops, StopSteps, TypeOK
  <2>4. \A j \in 0 .. i : j \in Worker /\ stopped'[get_queue(j)]
    <3>1. \A j \in 0 .. i : j \in Worker /\ (j = i \/ j \in 0 .. i - 1)
      BY <2>1, NumAssumption DEF Worker
    <3>2. \A j \in 0 .. i - 1 : stopped[get_queue(j)]
      BY <2>1 DEF ClientStops
    <3> QED BY <2>2, <3>1, <3>2, QueueOfWorker
  <2>5. \A q \in Queue : stopped'[q] => flag'
    BY <2>1
  <2>6. CASE i + 1 < num
    <3>1. next' = [next EXCEPT ![c] = i + 1] /\ cpc' = cpc
      BY <1>6, <2>6 DEF StopQueue
    <3>2. next'[c] = i + 1 /\ cpc'[c] = "stop" /\ (i + 1) - 1 = i
      BY <2>1, <3>1 DEF TypeOK, Worker
    <3> QED BY <2>1, <2>3, <2>4, <2>5, <3>2 DEF ClientStops, StopSteps
  <2>7. CASE ~(i + 1 < num)
    <3>1. next' = [next EXCEPT ![c] = 0] /\ cpc' = [cpc EXCEPT ![c] = "join"]
      BY <1>6, <2>7 DEF StopQueue
    <3>2. next'[c] = 0 /\ cpc'[c] = "join"
      BY <3>1 DEF TypeOK
    <3>3. \A w \in Worker : w \in 0 .. i
      BY <2>1, <2>7, NumAssumption DEF Worker
    <3>4. \A q \in Queue : stopped'[q]
      BY <2>4, <3>3 DEF Queue
    <3> QED BY <2>1, <2>3, <2>5, <3>2, <3>4 DEF ClientStops, StopSteps
  <2> QED BY <2>6, <2>7
<1>7. ASSUME NEW c \in Client, Join(c) PROVE ClientStops'
  <2> DEFINE i == next[c]
  <2>1. i \in Worker /\ wpc[i] = "done" /\ flag /\ cpc[c] = "join"
        /\ UNCHANGED <<flag, stopped, wpc>> /\ \A q \in Queue : stopped[q]
    BY <1>7 DEF Join, queues, workers, ClientStops, StopSteps, TypeOK
  <2>2. \A d \in Client : d # c => cpc'[d] = cpc[d] /\ next'[d] = next[d] /\ cpc[d] \notin StopSteps
    BY <1>7, <2>1 DEF Join, ClientStops, StopSteps, TypeOK
  <2>3. \A j \in 0 .. i : wpc[j] = "done"
    <3>1. \A j \in 0 .. i : j = i \/ j \in 0 .. i - 1
      BY <2>1 DEF Worker
    <3> QED BY <2>1, <3>1 DEF ClientStops
  <2>4. CASE i + 1 < num
    <3>1. next' = [next EXCEPT ![c] = i + 1] /\ cpc' = cpc
      BY <1>7, <2>4 DEF Join
    <3>2. next'[c] = i + 1 /\ cpc'[c] = "join" /\ (i + 1) - 1 = i
      BY <2>1, <3>1 DEF TypeOK, Worker
    <3> QED BY <2>1, <2>2, <2>3, <3>2 DEF ClientStops, StopSteps
  <2>5. CASE ~(i + 1 < num)
    <3>1. next' = [next EXCEPT ![c] = 0] /\ cpc' = [cpc EXCEPT ![c] = "stopped"]
      BY <1>7, <2>5 DEF Join
    <3>2. next'[c] = 0 /\ cpc'[c] = "stopped"
      BY <3>1 DEF TypeOK
    <3>3. \A w \in Worker : wpc[w] = "done"
      BY <2>1, <2>3, <2>5, NumAssumption DEF Worker
    <3> QED BY <2>1, <2>2, <3>2, <3>3 DEF ClientStops, StopSteps
  <2> QED BY <2>4, <2>5
<1> QED BY <1>1, <1>2, <1>3, <1>4, <1>5, <1>6, <1>7 DEF Next, ClientStep

-----------------------------------------------------------------------------

(* Every step preserves the inductive invariant ...                        *)
LEMMA Invariant == IInv /\ [Next]_vars => IInv'
BY TypeStep, TasksStep, PushesStep, WorkersStep, StopsStep DEF IInv, Tasks

(* ... which therefore always holds.                                       *)
LEMMA Invariance == Spec => []IInv
BY InitIInv, Invariant, PTL DEF Spec

(* The variables stay in their types; the dispatcher's index, modulo the   *)
(* number of workers, never leaves the queues (ThreadDispatchT::next).     *)
THEOREM TypeCorrect == Spec => []TypeOK
BY Invariance, PTL DEF IInv

(* A worker leaves only a queue that is stopped and empty, so no accepted  *)
(* task is left where nobody will take it (ThreadGroupT::start, push).     *)
THEOREM NothingStranded == Spec => []NoneStranded
<1>1. IInv => NoneStranded
    BY DEF IInv, NoneStranded, WorkerSteps, WorkerFits
<1> QED BY Invariance, <1>1, PTL

(* An accepted task is in one place of one queue and a running one in one  *)
(* worker's hands (ThreadMessageQueueT::push, pop and clear).              *)
THEOREM OnePlace == Spec => []TasksInOnePlace
<1>1. IInv => TasksInOnePlace
  <2> SUFFICES ASSUME IInv, NEW m \in Task
               PROVE  /\ Cardinality(Places(m)) = IF promise[m] = "accepted" THEN 1 ELSE 0
                      /\ Cardinality(Hands(m)) = IF promise[m] = "running" THEN 1 ELSE 0
      BY DEF TasksInOnePlace
  <2> USE DEF IInv
  <2>1. \A q \in Queue : DOMAIN queue[q] = 1 .. Len(queue[q])
    BY DEF TypeOK
  <2>2. Cardinality(Places(m)) = IF promise[m] = "accepted" THEN 1 ELSE 0
    <3>1. CASE promise[m] = "accepted"
      <4>1. PICK q \in Queue : \E i \in 1 .. Len(queue[q]) : queue[q][i] = m
        BY <3>1 DEF AcceptedQueued
      <4>2. PICK i \in 1 .. Len(queue[q]) : queue[q][i] = m
        BY <4>1
      <4>3. \A r \in Queue : \A j \in DOMAIN queue[r] : queue[r][j] = m <=> r = q /\ j = i
        BY <2>1, <4>2 DEF QueuedOnce
      <4>4. Places(m) = {<<q, i>>}
        <5>1. \A r \in Queue : {<<r, k>> : k \in {j \in DOMAIN queue[r] : queue[r][j] = m}}
                               = IF r = q THEN {<<q, i>>} ELSE {}
          BY <2>1, <4>2, <4>3
        <5> QED BY <5>1 DEF Places
      <4> QED BY <3>1, <4>4, FS_Singleton
    <3>2. CASE promise[m] # "accepted"
      <4>1. \A r \in Queue : \A j \in DOMAIN queue[r] : queue[r][j] # m
        BY <2>1, <3>2 DEF QueuedAccepted
      <4>2. Places(m) = {}
        BY <4>1 DEF Places
      <4> QED BY <3>2, <4>2, FS_EmptySet
    <3> QED BY <3>1, <3>2
  <2>3. Cardinality(Hands(m)) = IF promise[m] = "running" THEN 1 ELSE 0
    <3>1. m # None
      BY NoneAssumption
    <3>2. CASE promise[m] = "running"
      <4>1. PICK w \in Worker : job[w] = m
        BY <3>2 DEF RunningHeld
      <4>2. Hands(m) = {w}
        BY <3>1, <4>1 DEF Hands, HeldRunning
      <4> QED BY <3>2, <4>2, FS_Singleton
    <3>3. CASE promise[m] # "running"
      <4>1. Hands(m) = {}
        BY <3>1, <3>3 DEF Hands, HeldRunning
      <4> QED BY <3>3, <4>1, FS_EmptySet
    <3> QED BY <3>2, <3>3
  <2> QED BY <2>2, <2>3
<1> QED BY Invariance, <1>1, PTL

-----------------------------------------------------------------------------

(* The phase the clients see, and when a step leaves it alone.             *)
Phase == IF \E c \in Client : cpc[c] = "stopped" THEN "closed"
         ELSE IF flag THEN "closing" ELSE "open"

LEMMA PhaseKept ==
    ASSUME flag' = flag, \A c \in Client : cpc'[c] = "stopped" <=> cpc[c] = "stopped"
    PROVE  Phase' = Phase
BY DEF Phase

(* What the phase says of the queues.                                      *)
LEMMA PhaseFacts ==
    ASSUME IInv
    PROVE  /\ Phase = "closed" => \A q \in Queue : stopped[q]
           /\ Phase = "closed" => \A w \in Worker : wpc[w] = "done"
           /\ \A q \in Queue : stopped[q] => Phase # "open"
           /\ Phase \in {"open", "closing", "closed"}
BY DEF IInv, ClientStops, StopSteps, Phase

(* Nothing is unfinished when every worker has left.                       *)
LEMMA AllDone ==
    ASSUME IInv, \A w \in Worker : wpc[w] = "done"
    PROVE  \A m \in Task : promise[m] \notin Unfinished
<1> USE DEF IInv
<1>1. \A q \in Queue : queue[q] = <<>>
    BY DEF WorkerSteps, WorkerFits, Queue
<1>2. \A w \in Worker : job[w] = None
    BY DEF WorkerSteps, WorkerFits
<1>3. \A m \in Task : promise[m] # "accepted"
    BY <1>1 DEF AcceptedQueued
<1>4. \A m \in Task : promise[m] # "running"
    BY <1>2, NoneAssumption DEF RunningHeld
<1> QED BY <1>3, <1>4 DEF Unfinished

(* What clients see of a thread group is an executor: each critical        *)
(* section of a queue accepts, refuses, starts or abandons, and stop ends  *)
(* with nothing unfinished (ThreadGroupT::push, start, stop).              *)
THEOREM Refinement == Spec => ImplementsExecutor
<1>1. Init => Abs!Init
    BY DEF Init, Abs!Init
<1>2. IInv /\ [Next]_vars => [Abs!Next]_<<promise, Phase>>
  <2> SUFFICES ASSUME IInv, [Next]_vars PROVE [Abs!Next]_<<promise, Phase>> OBVIOUS
  <2> USE DEF IInv
  <2>1. CASE UNCHANGED vars
    BY <2>1, PhaseKept DEF vars, clients
  <2>2. CASE StartThread
    BY <2>2, PhaseKept DEF StartThread, clients
  <2>3. ASSUME NEW c \in Client, PushDispatch(c) PROVE UNCHANGED <<promise, Phase>>
    <3>1. \A d \in Client : cpc'[d] = "stopped" <=> cpc[d] = "stopped"
      BY <2>3 DEF PushDispatch, TypeOK
    <3> QED BY <2>3, <3>1, PhaseKept DEF PushDispatch
  <2>4. ASSUME NEW c \in Client, PushQueue(c) PROVE Abs!Next
    <3> DEFINE m == pushing[c]
    <3>1. m \in Task /\ promise[m] = "new" /\ target[c] \in Queue
      BY <2>4, NoneAssumption DEF PushQueue, ClientPushes, TypeOK
    <3>2. \A d \in Client : cpc'[d] = "stopped" <=> cpc[d] = "stopped"
      BY <2>4 DEF PushQueue, TypeOK
    <3>3. Phase' = Phase
      BY <2>4, <3>2, PhaseKept DEF PushQueue
    <3>4. CASE stopped[target[c]]
      <4>1. promise' = [promise EXCEPT ![m] = "refused"] /\ Phase # "open"
        BY <2>4, <3>1, <3>4, PhaseFacts DEF PushQueue, push_stopped
      <4>2. Abs!Refuse(m)
        BY <3>1, <3>3, <4>1 DEF Abs!Refuse, Abs!In, Abs!Becomes, Phase
      <4> QED BY <3>1, <4>2 DEF Abs!Next
    <3>5. CASE ~stopped[target[c]]
      <4>1. promise' = [promise EXCEPT ![m] = "accepted"] /\ Phase # "closed"
        BY <2>4, <3>1, <3>5, PhaseFacts DEF PushQueue, push_stopped
      <4>2. Abs!Accept(m)
        BY <3>1, <3>3, <4>1 DEF Abs!Accept, Abs!In, Abs!Becomes, Phase
      <4> QED BY <3>1, <4>2 DEF Abs!Next
    <3> QED BY <3>4, <3>5
  <2>5. ASSUME NEW c \in Client, StopFlag(c) PROVE Abs!Next
    <3>1. ~flag /\ flag' /\ promise' = promise
      BY <2>5 DEF StopFlag
    <3>2. \A d \in Client : cpc[d] # "stopped" /\ cpc'[d] # "stopped"
      BY <2>5, <3>1 DEF StopFlag, ClientStops, StopSteps, TypeOK
    <3>3. Abs!Close
      BY <3>1, <3>2 DEF Abs!Close
    <3> QED BY <3>3 DEF Abs!Next
  <2>6. ASSUME NEW c \in Client, StopQueue(c) PROVE UNCHANGED <<promise, Phase>>
    <3>1. \A d \in Client : cpc'[d] = "stopped" <=> cpc[d] = "stopped"
      BY <2>6 DEF StopQueue, TypeOK
    <3> QED BY <2>6, <3>1, PhaseKept DEF StopQueue
  <2>7. ASSUME NEW c \in Client, Join(c) PROVE Abs!Next \/ UNCHANGED <<promise, Phase>>
    <3>1. promise' = promise /\ flag' = flag /\ wpc' = wpc /\ cpc[c] = "join" /\ flag
      BY <2>7 DEF Join, ClientStops, StopSteps, workers
    <3>2. \A d \in Client : cpc[d] # "stopped"
      BY <3>1 DEF ClientStops, StopSteps
    <3>3. CASE next[c] + 1 < num
      <4>1. cpc' = cpc
        BY <2>7, <3>3 DEF Join
      <4> QED BY <3>1, <4>1, PhaseKept
    <3>4. CASE ~(next[c] + 1 < num)
      <4>1. cpc' = [cpc EXCEPT ![c] = "stopped"]
        BY <2>7, <3>4 DEF Join
      <4>2. cpc'[c] = "stopped"
        BY <4>1 DEF TypeOK
      <4>3. IInv'
        BY Invariant
      <4>4. (\A m \in Task : promise[m] \notin Unfinished)'
        <5>1. \A w \in Worker : wpc[w] = "done"
          BY <3>1, <4>2, <4>3 DEF ClientStops
        <5> QED BY <3>1, <5>1, AllDone
      <4>5. Abs!Closed
        BY <3>1, <3>2, <4>2, <4>4 DEF Abs!Closed, Abs!Unfinished, Unfinished
      <4> QED BY <4>5 DEF Abs!Next
    <3> QED BY <3>3, <3>4
  <2>8. ASSUME NEW w \in Worker, WorkerStep(w) PROVE Abs!Next \/ UNCHANGED <<promise, Phase>>
    <3> DEFINE q == get_queue(w)
    <3>1. Phase' = Phase /\ q \in Queue /\ queue[q] \in Seq(Task)
      <4>1. flag' = flag /\ cpc' = cpc
        BY <2>8 DEF WorkerStep, PopTask, PopWait, WaitTimeout, PopStopped, RunTask, ClearQueue,
           clients
      <4> QED BY <4>1, PhaseKept, QueueOfWorker DEF TypeOK
    <3>2. CASE PopTask(w)
      <4>1. /\ Head(queue[q]) \in Task /\ Head(queue[q]) = queue[q][1] /\ 1 \in 1 .. Len(queue[q])
            /\ promise' = [promise EXCEPT ![Head(queue[q])] = "running"]
        BY <3>1, <3>2, HeadAndTail DEF PopTask, Popped
      <4>2. promise[Head(queue[q])] = "accepted"
        BY <3>1, <4>1 DEF QueuedAccepted
      <4>3. Abs!Run(Head(queue[q]))
        BY <3>1, <4>1, <4>2 DEF Abs!Run, Abs!In, Abs!Becomes, Phase
      <4> QED BY <4>1, <4>3 DEF Abs!Next
    <3>3. CASE PopWait(w) \/ WaitTimeout(w) \/ PopStopped(w)
      BY <3>1, <3>3 DEF PopWait, WaitTimeout, PopStopped
    <3>4. CASE RunTask(w)
      <4>1. job[w] \in Task /\ promise[job[w]] = "running"
        BY <3>4 DEF RunTask, WorkerSteps, WorkerFits, HeldRunning, TypeOK
      <4>2. Abs!Finish(job[w])
        BY <3>1, <3>4, <4>1 DEF RunTask, Abs!Finish, Abs!In, Abs!Becomes, Phase
      <4> QED BY <4>1, <4>2 DEF Abs!Next
    <3>5. CASE ClearQueue(w)
      <4>1. promise' = [m \in Task |-> IF m \in Left(q) THEN "abandoned" ELSE promise[m]]
        BY <3>5 DEF ClearQueue
      <4>2. CASE Left(q) = {}
        BY <3>1, <4>1, <4>2 DEF TypeOK
      <4>3. CASE Left(q) # {}
        <5>1. queue[q] # <<>>
          BY <4>3 DEF Left, ToSet
        <5>2. Immediate /\ stopped[q]
          BY <3>5, <5>1 DEF ClearQueue, WorkerSteps, WorkerFits
        <5>3. Phase = "closing"
          BY <3>1, <3>5, <5>2, PhaseFacts DEF ClearQueue
        <5>4. Left(q) \in SUBSET {m \in Task : promise[m] = "accepted"}
          BY <3>1 DEF Left, ToSet, QueuedAccepted
        <5>5. Abs!Abandon
          BY <3>1, <4>1, <5>2, <5>3, <5>4 DEF Abs!Abandon, Abs!In, Phase
        <5> QED BY <5>5 DEF Abs!Next
      <4> QED BY <4>2, <4>3
    <3> QED BY <2>8, <3>2, <3>3, <3>4, <3>5 DEF WorkerStep
  <2> QED BY <2>1, <2>2, <2>3, <2>4, <2>5, <2>6, <2>7, <2>8 DEF Next, ClientStep
<1>3. IInv /\ [Next]_vars => [Abs!Next]_(Abs!vars)
    BY <1>2 DEF Abs!vars, Phase
<1> QED BY Invariance, <1>1, <1>3, PTL DEF Spec, ImplementsExecutor, Abs!Spec

-----------------------------------------------------------------------------

(* The order of tasks.  How many of those that arrived at a queue have     *)
(* left it.                                                                *)
Taken(q) == Len(arrived[q]) - Len(queue[q])

(* A queue is the end of what arrived at it.                               *)
QueueIsRest(q) ==
    /\ Taken(q) >= 0
    /\ \A i \in 1 .. Len(queue[q]) : queue[q][i] = arrived[q][Taken(q) + i]

(* What has arrived was accepted once, what has left the queue no longer   *)
(* is.                                                                     *)
ArrivedPushed(q) ==
    \A i \in 1 .. Len(arrived[q]) : promise[arrived[q][i]] # "new"

TakenBegun(q) ==
    \A i \in 1 .. Taken(q) : promise[arrived[q][i]] # "accepted"

(* A worker with a queue of its own runs the task it took last.            *)
RunsLastTaken(q) ==
    ~Shared => \A i \in 1 .. Taken(q) :
        promise[arrived[q][i]] = "running" => i = Taken(q) /\ job[q] = arrived[q][i]

Ordered(q) == QueueIsRest(q) /\ ArrivedPushed(q) /\ TakenBegun(q) /\ RunsLastTaken(q)

OInv == \A q \in Queue : Ordered(q)

-----------------------------------------------------------------------------

(* Lengths are numbers, and what is at a place of a queue is a task.       *)
LEMMA PlacesOf ==
    ASSUME TypeOK, NEW q \in Queue, QueueIsRest(q)
    PROVE  /\ queue[q] \in Seq(Task) /\ arrived[q] \in Seq(Task)
           /\ Len(queue[q]) \in Nat /\ Len(arrived[q]) \in Nat
           /\ Taken(q) \in Nat /\ Len(queue[q]) = Len(arrived[q]) - Taken(q)
           /\ \A i \in 1 .. Len(arrived[q]) : arrived[q][i] \in Task
           /\ \A i \in 1 .. Taken(q) : i \in 1 .. Len(arrived[q])
<1>1. queue[q] \in Seq(Task) /\ arrived[q] \in Seq(Task)
    BY DEF TypeOK
<1>2. Len(queue[q]) \in Nat /\ Len(arrived[q]) \in Nat
    BY <1>1
<1>3. \A i \in 1 .. Len(arrived[q]) : arrived[q][i] \in Task
    BY <1>1
<1>4. Taken(q) \in Nat /\ Len(queue[q]) = Len(arrived[q]) - Taken(q)
    BY <1>2 DEF Taken, QueueIsRest
<1> HIDE DEF Taken
<1> QED BY <1>1, <1>2, <1>3, <1>4

(* What Append does to a sequence of tasks.                                *)
LEMMA AppendAt ==
    ASSUME NEW s \in Seq(Task), NEW m \in Task
    PROVE  /\ Len(Append(s, m)) = Len(s) + 1
           /\ Append(s, m)[Len(s) + 1] = m
           /\ \A i \in 1 .. Len(s) : Append(s, m)[i] = s[i]
OBVIOUS

(* A queue that a step leaves alone stays in order when the step begins    *)
(* none of the tasks taken from it.                                        *)
LEMMA QueueKept ==
    ASSUME TypeOK, NEW r \in Queue, Ordered(r),
           queue'[r] = queue[r], arrived'[r] = arrived[r],
           \A i \in 1 .. Len(arrived[r]) : promise'[arrived[r][i]] # "new",
           \A i \in 1 .. Taken(r) :
               \/ promise'[arrived[r][i]] = promise[arrived[r][i]]
               \/ promise'[arrived[r][i]] \notin {"accepted", "running"},
           ~Shared => \/ job'[r] = job[r]
                      \/ \A i \in 1 .. Taken(r) : promise'[arrived[r][i]] # "running"
    PROVE  Ordered(r)'
<1>1. Taken(r)' = Taken(r)
    BY DEF Taken
<1>2. QueueIsRest(r)'
    BY <1>1 DEF Ordered, QueueIsRest
<1>3. ArrivedPushed(r)'
    BY DEF ArrivedPushed
<1>4. TakenBegun(r)'
    BY <1>1 DEF Ordered, TakenBegun
<1>5. RunsLastTaken(r)'
    BY <1>1 DEF Ordered, RunsLastTaken
<1> QED BY <1>2, <1>3, <1>4, <1>5 DEF Ordered

(* A step that changes only promises of tasks that have not arrived.       *)
LEMMA AllKept ==
    ASSUME TypeOK, OInv, queue' = queue, arrived' = arrived, job' = job,
           \A m \in Task : promise'[m] = promise[m] \/ promise[m] = "new"
    PROVE  OInv'
<1> SUFFICES ASSUME NEW r \in Queue PROVE Ordered(r)'
    BY DEF OInv
<1>1. Ordered(r) /\ QueueIsRest(r) /\ ArrivedPushed(r)
    BY DEF OInv, Ordered
<1>2. /\ \A i \in 1 .. Len(arrived[r]) : arrived[r][i] \in Task
      /\ \A i \in 1 .. Taken(r) : i \in 1 .. Len(arrived[r])
    BY <1>1, PlacesOf
<1>3. \A i \in 1 .. Len(arrived[r]) :
          promise'[arrived[r][i]] = promise[arrived[r][i]] /\ promise'[arrived[r][i]] # "new"
    BY <1>1, <1>2 DEF ArrivedPushed
<1> QED BY <1>1, <1>2, <1>3, QueueKept

(* An accepted push makes the queue and what arrived longer at the end.    *)
LEMMA OrderPush ==
    ASSUME IInv, OInv, NEW c \in Client, PushQueue(c)
    PROVE  OInv'
<1> DEFINE q == target[c]  m == pushing[c]
<1>0. TypeOK /\ ClientPushes
    BY DEF IInv
<1>1. m \in Task /\ promise[m] = "new" /\ q \in Queue /\ job' = job
    BY <1>0, NoneAssumption DEF PushQueue, ClientPushes, TypeOK
<1>2. CASE push_stopped(q)
  <2>1. queue' = queue /\ arrived' = arrived /\ promise' = [promise EXCEPT ![m] = "refused"]
    BY <1>2 DEF PushQueue
  <2>2. \A k \in Task : promise'[k] = promise[k] \/ promise[k] = "new"
    BY <1>0, <1>1, <2>1 DEF TypeOK
  <2> QED BY <1>0, <1>1, <2>1, <2>2, AllKept
<1>3. CASE ~push_stopped(q)
  <2>1. /\ queue' = [queue EXCEPT ![q] = Append(queue[q], m)]
        /\ arrived' = [arrived EXCEPT ![q] = Append(arrived[q], m)]
        /\ promise' = [promise EXCEPT ![m] = "accepted"]
    BY <1>3 DEF PushQueue
  <2>2. \A k \in Task : promise'[k] = IF k = m THEN "accepted" ELSE promise[k]
    BY <1>0, <2>1 DEF TypeOK
  <2>3. /\ \A r \in Queue \ {q} : queue'[r] = queue[r] /\ arrived'[r] = arrived[r]
        /\ queue'[q] = Append(queue[q], m) /\ arrived'[q] = Append(arrived[q], m)
    BY <1>0, <1>1, <2>1 DEF TypeOK
  <2> SUFFICES ASSUME NEW r \in Queue PROVE Ordered(r)'
    BY DEF OInv
  <2>4. Ordered(r) /\ QueueIsRest(r) /\ ArrivedPushed(r) /\ TakenBegun(r) /\ RunsLastTaken(r)
    BY DEF OInv, Ordered
  <2>5. /\ queue[r] \in Seq(Task) /\ arrived[r] \in Seq(Task)
        /\ Len(queue[r]) \in Nat /\ Len(arrived[r]) \in Nat
        /\ Taken(r) \in Nat /\ Len(queue[r]) = Len(arrived[r]) - Taken(r)
        /\ \A i \in 1 .. Len(arrived[r]) : arrived[r][i] \in Task \ {m}
        /\ \A i \in 1 .. Taken(r) : i \in 1 .. Len(arrived[r])
    BY <1>0, <1>1, <2>4, PlacesOf DEF ArrivedPushed
  <2>6. \A i \in 1 .. Len(arrived[r]) :
            promise'[arrived[r][i]] = promise[arrived[r][i]] /\ promise'[arrived[r][i]] # "new"
    BY <2>2, <2>4, <2>5 DEF ArrivedPushed
  <2>7. CASE r # q
    BY <1>0, <1>1, <2>3, <2>4, <2>5, <2>6, <2>7, QueueKept
  <2>8. CASE r = q
    <3>1. /\ Len(queue'[r]) = Len(queue[r]) + 1 /\ queue'[r][Len(queue[r]) + 1] = m
          /\ Len(arrived'[r]) = Len(arrived[r]) + 1 /\ arrived'[r][Len(arrived[r]) + 1] = m
          /\ \A i \in 1 .. Len(queue[r]) : queue'[r][i] = queue[r][i]
          /\ \A i \in 1 .. Len(arrived[r]) : arrived'[r][i] = arrived[r][i]
      <4>1. queue'[r] = Append(queue[r], m) /\ arrived'[r] = Append(arrived[r], m)
        BY <2>3, <2>8
      <4>2. queue[r] \in Seq(Task) /\ arrived[r] \in Seq(Task) /\ m \in Task
        BY <1>1, <2>5
      <4> HIDE DEF m
      <4> QED BY <4>1, <4>2, AppendAt
    <3>2. Taken(r)' = Taken(r)
      BY <2>5, <3>1 DEF Taken
    <3>3. QueueIsRest(r)'
      <4> SUFFICES ASSUME NEW i \in 1 .. Len(queue'[r])
                   PROVE  queue'[r][i] = arrived'[r][Taken(r) + i]
          BY <2>4, <3>2 DEF QueueIsRest
      <4>1. CASE i \in 1 .. Len(queue[r])
        <5>1. Taken(r) + i \in 1 .. Len(arrived[r])
          BY <2>5, <4>1
        <5> QED BY <2>4, <3>1, <4>1, <5>1 DEF QueueIsRest
      <4>2. CASE i = Len(queue[r]) + 1
        <5>1. Taken(r) + i = Len(arrived[r]) + 1
          BY <2>5, <4>2
        <5> QED BY <3>1, <4>2, <5>1
      <4> QED BY <2>5, <3>1, <4>1, <4>2
    <3>4. ArrivedPushed(r)'
      <4> SUFFICES ASSUME NEW i \in 1 .. Len(arrived'[r]) PROVE promise'[arrived'[r][i]] # "new"
          BY DEF ArrivedPushed
      <4>1. i \in 1 .. Len(arrived[r]) \/ i = Len(arrived[r]) + 1
        BY <2>5, <3>1
      <4> QED BY <1>1, <2>2, <2>6, <3>1, <4>1
    <3>5. TakenBegun(r)'
      <4> SUFFICES ASSUME NEW i \in 1 .. Taken(r) PROVE promise'[arrived'[r][i]] # "accepted"
          BY <3>2 DEF TakenBegun
      <4>1. arrived'[r][i] = arrived[r][i] /\ promise'[arrived[r][i]] = promise[arrived[r][i]]
        BY <2>5, <2>6, <3>1
      <4> QED BY <2>4, <4>1 DEF TakenBegun
    <3>6. RunsLastTaken(r)'
      <4> SUFFICES ASSUME ~Shared, NEW i \in 1 .. Taken(r),
                          promise'[arrived'[r][i]] = "running"
                   PROVE  i = Taken(r) /\ job'[r] = arrived'[r][i]
          BY <3>2 DEF RunsLastTaken
      <4>1. arrived'[r][i] = arrived[r][i] /\ promise'[arrived[r][i]] = promise[arrived[r][i]]
        BY <2>5, <2>6, <3>1
      <4> QED BY <1>1, <2>4, <4>1 DEF RunsLastTaken
    <3> QED BY <3>3, <3>4, <3>5, <3>6 DEF Ordered
  <2> QED BY <2>7, <2>8
<1> QED BY <1>2, <1>3

(* A pop takes the first task of the queue, which becomes the last taken.  *)
LEMMA OrderPop ==
    ASSUME IInv, OInv, NEW w \in Worker, PopTask(w)
    PROVE  OInv'
<1> DEFINE q == get_queue(w)  m == Head(queue[q])
<1>0. TypeOK /\ QueuedAccepted /\ WorkerSteps /\ q \in Queue
    BY QueueOfWorker DEF IInv
<1>1. /\ queue[q] # <<>> /\ wpc[w] = "pop" /\ arrived' = arrived
      /\ queue' = [queue EXCEPT ![q] = Tail(queue[q])]
      /\ job' = [job EXCEPT ![w] = m]
      /\ promise' = [promise EXCEPT ![m] = "running"]
    BY DEF PopTask, Popped
<1>2. /\ m \in Task /\ m = queue[q][1] /\ Len(queue[q]) \in Nat /\ Len(queue[q]) > 0
      /\ Len(Tail(queue[q])) = Len(queue[q]) - 1
      /\ \A i \in 1 .. Len(Tail(queue[q])) : Tail(queue[q])[i] = queue[q][i + 1]
  <2>1. queue[q] \in Seq(Task)
    BY <1>0 DEF TypeOK
  <2> QED BY <1>1, <2>1, HeadAndTail
<1>3. promise[m] = "accepted" /\ job[w] = None
  <2>1. 1 \in 1 .. Len(queue[q])
    BY <1>2
  <2>2. promise[m] = "accepted"
    BY <1>0, <1>2, <2>1 DEF QueuedAccepted
  <2>3. job[w] = None
    BY <1>0, <1>1 DEF WorkerSteps, WorkerFits
  <2> QED BY <2>2, <2>3
<1>4. /\ \A k \in Task : promise'[k] = IF k = m THEN "running" ELSE promise[k]
      /\ \A v \in Worker : job'[v] = IF v = w THEN m ELSE job[v]
      /\ \A r \in Queue \ {q} : queue'[r] = queue[r]
      /\ queue'[q] = Tail(queue[q])
    BY <1>0, <1>1 DEF TypeOK
<1> HIDE DEF m
<1> SUFFICES ASSUME NEW r \in Queue PROVE Ordered(r)'
    BY DEF OInv
<1>5. Ordered(r) /\ QueueIsRest(r) /\ ArrivedPushed(r) /\ TakenBegun(r) /\ RunsLastTaken(r)
    BY DEF OInv, Ordered
<1>6. /\ Len(queue[r]) \in Nat /\ Len(arrived[r]) \in Nat
      /\ Taken(r) \in Nat /\ Len(queue[r]) = Len(arrived[r]) - Taken(r)
      /\ \A i \in 1 .. Len(arrived[r]) : arrived[r][i] \in Task
      /\ \A i \in 1 .. Taken(r) : i \in 1 .. Len(arrived[r])
    BY <1>0, <1>5, PlacesOf
<1>7. \A i \in 1 .. Len(arrived[r]) : promise'[arrived[r][i]] # "new"
    BY <1>4, <1>5, <1>6 DEF ArrivedPushed
<1>8. \A i \in 1 .. Taken(r) :
          arrived[r][i] # m /\ promise'[arrived[r][i]] = promise[arrived[r][i]]
    BY <1>3, <1>4, <1>5, <1>6 DEF TakenBegun
<1>9. CASE r # q
  <2>1. ~Shared => r # w /\ r \in Worker
    BY <1>9 DEF get_queue, Queue
  <2> QED BY <1>0, <1>1, <1>4, <1>5, <1>7, <1>8, <1>9, <2>1, QueueKept
<1>10. CASE r = q
  <2>0. /\ arrived'[r] = arrived[r] /\ Len(queue'[r]) = Len(queue[r]) - 1
        /\ \A i \in 1 .. Len(queue'[r]) : queue'[r][i] = queue[r][i + 1]
    <3>1. queue'[r] = Tail(queue[r])
      BY <1>4, <1>10
    <3> QED BY <1>1, <1>2, <1>10, <3>1
  <2>1. Taken(r)' = Taken(r) + 1
    <3>1. Len(arrived[r]) - (Len(queue[r]) - 1) = Taken(r) + 1
      BY <1>6
    <3> QED BY <2>0, <3>1 DEF Taken
  <2>2. Taken(r) + 1 \in 1 .. Len(arrived[r]) /\ m = arrived[r][Taken(r) + 1]
    <3>1. 1 \in 1 .. Len(queue[r])
      BY <1>2, <1>10
    <3> QED BY <1>2, <1>5, <1>6, <1>10, <3>1 DEF QueueIsRest
  <2>3. QueueIsRest(r)'
    <3> SUFFICES ASSUME NEW i \in 1 .. Len(queue'[r])
                 PROVE  queue'[r][i] = arrived[r][(Taken(r) + 1) + i]
        BY <1>1, <1>6, <2>1 DEF QueueIsRest
    <3>1. i + 1 \in 1 .. Len(queue[r]) /\ queue'[r][i] = queue[r][i + 1]
      <4>1. i \in 1 .. Len(queue[r]) - 1 /\ Len(queue[r]) \in Nat
        BY <1>6, <2>0
      <4>2. queue'[r][i] = queue[r][i + 1]
        BY <2>0
      <4> QED BY <4>1, <4>2
    <3>2. Taken(r) + (i + 1) = (Taken(r) + 1) + i
      BY <1>6
    <3> QED BY <1>5, <3>1, <3>2 DEF QueueIsRest
  <2>4. ArrivedPushed(r)'
    BY <1>1, <1>7 DEF ArrivedPushed
  <2>5. \A i \in 1 .. Taken(r) + 1 : i \in 1 .. Taken(r) \/ i = Taken(r) + 1
    BY <1>6
  <2>6. TakenBegun(r)'
    BY <1>1, <1>2, <1>4, <1>5, <1>8, <2>1, <2>2, <2>5 DEF TakenBegun
  <2>7. RunsLastTaken(r)'
    <3> SUFFICES ASSUME ~Shared, NEW i \in 1 .. Taken(r) + 1,
                        promise'[arrived[r][i]] = "running"
                 PROVE  i = Taken(r) + 1 /\ job'[r] = arrived[r][i]
        BY <1>1, <2>1 DEF RunsLastTaken
    <3>1. r = w
      BY <1>10 DEF get_queue
    <3>2. ASSUME i \in 1 .. Taken(r) PROVE FALSE
      <4>1. job[w] = arrived[r][i] /\ arrived[r][i] \in Task
        BY <1>5, <1>6, <1>8, <3>1, <3>2 DEF RunsLastTaken
      <4> QED BY <1>3, <4>1, NoneAssumption
    <3> QED BY <1>4, <2>2, <2>5, <3>1, <3>2
  <2> QED BY <2>3, <2>4, <2>6, <2>7 DEF Ordered
<1> QED BY <1>9, <1>10

(* The function's return ends the task that its worker took last.          *)
LEMMA OrderRun ==
    ASSUME IInv, OInv, NEW w \in Worker, RunTask(w)
    PROVE  OInv'
<1>0. TypeOK /\ HeldRunning /\ WorkerSteps
    BY DEF IInv
<1>1. /\ wpc[w] = "run" /\ queue' = queue /\ arrived' = arrived
      /\ job' = [job EXCEPT ![w] = None]
    BY DEF RunTask, queues
<1>2. PICK outcome \in {"value", "exception"} :
          promise' = [promise EXCEPT ![job[w]] = outcome]
    BY DEF RunTask
<1>3. /\ \A k \in Task : promise'[k] = IF k = job[w] THEN outcome ELSE promise[k]
      /\ \A v \in Worker : v # w => job'[v] = job[v]
    BY <1>0, <1>1, <1>2 DEF TypeOK
<1> SUFFICES ASSUME NEW r \in Queue PROVE Ordered(r)'
    BY DEF OInv
<1>4. Ordered(r) /\ QueueIsRest(r) /\ ArrivedPushed(r) /\ RunsLastTaken(r)
    BY DEF OInv, Ordered
<1>5. /\ \A i \in 1 .. Len(arrived[r]) : arrived[r][i] \in Task
      /\ \A i \in 1 .. Taken(r) : i \in 1 .. Len(arrived[r])
    BY <1>0, <1>4, PlacesOf
<1>6. \A i \in 1 .. Len(arrived[r]) : promise'[arrived[r][i]] # "new"
    BY <1>3, <1>4, <1>5 DEF ArrivedPushed
<1>7. \A i \in 1 .. Taken(r) :
          \/ promise'[arrived[r][i]] = promise[arrived[r][i]]
          \/ promise'[arrived[r][i]] \notin {"accepted", "running"}
    BY <1>3, <1>5
<1>8. ASSUME ~Shared
      PROVE  \/ job'[r] = job[r]
             \/ \A i \in 1 .. Taken(r) : promise'[arrived[r][i]] # "running"
  <2>1. r \in Worker
    BY <1>8 DEF Queue, get_queue
  <2>2. ASSUME r = w, NEW i \in 1 .. Taken(r) PROVE promise'[arrived[r][i]] # "running"
    BY <1>3, <1>4, <1>5, <1>8, <2>2 DEF RunsLastTaken
  <2> QED BY <1>3, <2>1, <2>2
<1> QED BY <1>0, <1>1, <1>4, <1>6, <1>7, <1>8, QueueKept

(* What is left in a queue that is cleared never begins.                   *)
LEMMA OrderClear ==
    ASSUME IInv, OInv, NEW w \in Worker, ClearQueue(w)
    PROVE  OInv'
<1> DEFINE q == get_queue(w)  left == Left(q)
<1>0. TypeOK /\ WorkerSteps /\ q \in Queue
    BY QueueOfWorker DEF IInv
<1>1. /\ wpc[w] = "clear" /\ arrived' = arrived /\ job' = job
      /\ queue' = [queue EXCEPT ![q] = <<>>]
      /\ promise' = [k \in Task |-> IF k \in left THEN "abandoned" ELSE promise[k]]
    BY DEF ClearQueue
<1>2. \A i \in 1 .. Len(queue[q]) : queue[q][i] \in left
  <2>1. queue[q] \in Seq(Task)
    BY <1>0 DEF TypeOK
  <2> QED BY <2>1 DEF Left, ToSet
<1> HIDE DEF left
<1>3. /\ \A k \in Task : promise'[k] = IF k \in left THEN "abandoned" ELSE promise[k]
      /\ \A r \in Queue \ {q} : queue'[r] = queue[r]
      /\ queue'[q] = <<>>
    BY <1>0, <1>1 DEF TypeOK
<1>4. job[w] = None
    BY <1>0, <1>1 DEF WorkerSteps, WorkerFits
<1> SUFFICES ASSUME NEW r \in Queue PROVE Ordered(r)'
    BY DEF OInv
<1>5. Ordered(r) /\ QueueIsRest(r) /\ ArrivedPushed(r) /\ TakenBegun(r) /\ RunsLastTaken(r)
    BY DEF OInv, Ordered
<1>6. /\ Len(queue[r]) \in Nat /\ Len(arrived[r]) \in Nat
      /\ Taken(r) \in Nat /\ Len(queue[r]) = Len(arrived[r]) - Taken(r)
      /\ \A i \in 1 .. Len(arrived[r]) : arrived[r][i] \in Task
      /\ \A i \in 1 .. Taken(r) : i \in 1 .. Len(arrived[r])
    BY <1>0, <1>5, PlacesOf
<1>7. /\ \A i \in 1 .. Len(arrived[r]) : promise'[arrived[r][i]] # "new"
      /\ \A i \in 1 .. Len(arrived[r]) :
            promise'[arrived[r][i]] \in {promise[arrived[r][i]], "abandoned"}
    BY <1>3, <1>5, <1>6 DEF ArrivedPushed
<1>8. CASE r # q
    BY <1>0, <1>1, <1>3, <1>5, <1>6, <1>7, <1>8, QueueKept
<1>9. CASE r = q
  <2>1. Len(queue'[r]) = 0 /\ Taken(r)' = Len(arrived[r])
    <3>1. Len(queue'[r]) = 0 /\ arrived'[r] = arrived[r]
      BY <1>1, <1>3, <1>9
    <3>2. Len(arrived[r]) - 0 = Len(arrived[r])
      BY <1>6
    <3> QED BY <3>1, <3>2 DEF Taken
  <2>2. QueueIsRest(r)' /\ ArrivedPushed(r)'
    BY <1>1, <1>6, <1>7, <2>1 DEF QueueIsRest, ArrivedPushed
  <2>3. ASSUME NEW i \in 1 .. Len(arrived[r]), i \notin 1 .. Taken(r)
        PROVE  promise'[arrived[r][i]] = "abandoned"
    <3>1. i - Taken(r) \in 1 .. Len(queue[r]) /\ Taken(r) + (i - Taken(r)) = i
      BY <1>6, <2>3
    <3>2. arrived[r][i] \in left
      BY <1>2, <1>5, <1>9, <3>1 DEF QueueIsRest
    <3> QED BY <1>3, <1>6, <3>2
  <2>4. TakenBegun(r)'
    BY <1>1, <1>5, <1>7, <2>1, <2>3 DEF TakenBegun
  <2>5. ASSUME ~Shared, NEW i \in 1 .. Len(arrived[r])
        PROVE  promise'[arrived[r][i]] # "running"
    <3> SUFFICES ASSUME promise'[arrived[r][i]] = "running" PROVE FALSE
        OBVIOUS
    <3>1. i \in 1 .. Taken(r) /\ promise[arrived[r][i]] = "running"
      BY <1>7, <2>3
    <3>2. job[r] = arrived[r][i]
      BY <1>5, <2>5, <3>1 DEF RunsLastTaken
    <3>3. r = w
      BY <1>9, <2>5 DEF get_queue
    <3> QED BY <1>4, <1>6, <3>2, <3>3, NoneAssumption
  <2>6. RunsLastTaken(r)'
    BY <1>1, <2>1, <2>5 DEF RunsLastTaken
  <2> QED BY <2>2, <2>4, <2>6 DEF Ordered
<1> QED BY <1>8, <1>9

(* Only a push adds to what has arrived.                                   *)
LEMMA OnlyPushArrives ==
    ASSUME [Next]_vars, \A c \in Client : ~PushQueue(c)
    PROVE  arrived' = arrived
<1>1. CASE UNCHANGED vars
    BY <1>1 DEF vars, queues
<1>2. CASE StartThread
    BY <1>2 DEF StartThread, queues
<1>3. ASSUME NEW c \in Client, PushDispatch(c) \/ StopFlag(c) \/ ClientStep(c)
      PROVE  arrived' = arrived
    BY <1>3 DEF PushDispatch, StopFlag, ClientStep, StopQueue, Join, queues
<1>4. ASSUME NEW w \in Worker, WorkerStep(w) PROVE arrived' = arrived
    BY <1>4 DEF WorkerStep, PopTask, PopWait, WaitTimeout, PopStopped, RunTask, ClearQueue, queues
<1> QED BY <1>1, <1>2, <1>3, <1>4 DEF Next

(* Nothing has arrived at first, and every step keeps the order.           *)
LEMMA InitOrder == Init => OInv
<1> SUFFICES ASSUME Init, NEW q \in Queue PROVE Ordered(q)
    BY DEF OInv
<1>1. queue[q] = <<>> /\ arrived[q] = <<>> /\ Len(queue[q]) = 0 /\ Len(arrived[q]) = 0
    BY DEF Init
<1>2. Taken(q) = 0
    BY <1>1 DEF Taken
<1> QED BY <1>1, <1>2
        DEF Ordered, QueueIsRest, ArrivedPushed, TakenBegun, RunsLastTaken

LEMMA OrderStep == IInv /\ OInv /\ [Next]_vars => OInv'
<1> SUFFICES ASSUME IInv, OInv, [Next]_vars PROVE OInv'
    OBVIOUS
<1>1. ASSUME NEW c \in Client, PushQueue(c) PROVE OInv'
    BY <1>1, OrderPush
<1>2. ASSUME NEW w \in Worker, PopTask(w) PROVE OInv'
    BY <1>2, OrderPop
<1>3. ASSUME NEW w \in Worker, RunTask(w) PROVE OInv'
    BY <1>3, OrderRun
<1>4. ASSUME NEW w \in Worker, ClearQueue(w) PROVE OInv'
    BY <1>4, OrderClear
<1>5. ASSUME \A c \in Client : ~PushQueue(c),
             \A w \in Worker : ~PopTask(w) /\ ~RunTask(w) /\ ~ClearQueue(w)
      PROVE  OInv'
  <2>1. UNCHANGED <<queue, promise, job>> /\ arrived' = arrived
    BY <1>5, OtherSteps, OnlyPushArrives
  <2>2. TypeOK
    BY DEF IInv
  <2> QED BY <2>1, <2>2, AllKept
<1> QED BY <1>1, <1>2, <1>3, <1>4, <1>5

(* Tasks of a queue begin in the order in which push put them there, and   *)
(* where every worker has its own queue each ends before the next begins.  *)
THEOREM InOrder == Spec => []BeginInOrder
<1>1. Spec => []OInv
  <2>1. Init => OInv
    BY InitOrder
  <2>2. IInv /\ OInv /\ [Next]_vars => OInv'
    BY OrderStep
  <2> QED BY <2>1, <2>2, Invariance, PTL DEF Spec
<1>2. IInv /\ OInv => BeginInOrder
  <2> SUFFICES ASSUME IInv, OInv, NEW q \in Queue, NEW j \in DOMAIN arrived[q],
                      promise[arrived[q][j]] # "accepted", NEW i \in 1 .. j - 1
               PROVE  promise[arrived[q][i]] \notin IF Shared THEN {"accepted"} ELSE Unfinished
      BY DEF BeginInOrder
  <2>1. /\ TypeOK /\ QueuedAccepted
        /\ QueueIsRest(q) /\ TakenBegun(q) /\ RunsLastTaken(q)
    BY DEF IInv, OInv, Ordered
  <2>2. /\ arrived[q] \in Seq(Task)
        /\ Len(queue[q]) \in Nat /\ Len(arrived[q]) \in Nat
        /\ Taken(q) \in Nat /\ Len(queue[q]) = Len(arrived[q]) - Taken(q)
    BY <2>1, PlacesOf
  <2>3. j \in 1 .. Len(arrived[q])
    BY <2>2
  <2>4. j \in 1 .. Taken(q)
    <3> SUFFICES ASSUME j \notin 1 .. Taken(q) PROVE FALSE
        OBVIOUS
    <3>1. j - Taken(q) \in 1 .. Len(queue[q]) /\ Taken(q) + (j - Taken(q)) = j
      BY <2>2, <2>3, SMTT(30)
    <3> QED BY <2>1, <3>1 DEF QueuedAccepted, QueueIsRest
  <2>5. i \in 1 .. Taken(q) /\ i # Taken(q)
    BY <2>2, <2>4
  <2> QED BY <2>1, <2>5 DEF TakenBegun, RunsLastTaken, Unfinished
<1> QED BY <1>1, <1>2, Invariance, PTL
=============================================================================
