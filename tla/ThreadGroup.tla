---------------------------- MODULE ThreadGroup ----------------------------
(***************************************************************************)
(* ThreadGroupT with its dispatcher, queue group, message queues and exit  *)
(* strategy, include/snake/concurrency/Thread*.h.                          *)
(*                                                                         *)
(* Clients push tasks and one of them stops the group; each worker pops    *)
(* tasks from its queue and fulfils their promises.  A critical section of *)
(* a queue's lock is one action; a condition variable is the set of the    *)
(* workers that wait in it.                                                *)
(***************************************************************************)
EXTENDS Naturals, FiniteSets, Sequences, SequencesExt

CONSTANTS
    Client,         \* the threads that call push and stop
    Task,           \* the messages, each pushed at most once
    num,            \* num_, the number of workers
    Shared,         \* SharedQueueGroupT, or else DedicatedQueueGroupT
    Immediate,      \* exit_immediately, or else exit_after_handle_all
    TicketModulus,  \* the dispatcher's counter is unsigned: 2^64 in the code
    None

ASSUME NumAssumption == num \in Nat \ {0} /\ TicketModulus \in Nat \ {0}
ASSUME KindAssumption == Shared \in BOOLEAN /\ Immediate \in BOOLEAN
ASSUME NoneAssumption == None \notin Task

VARIABLES
    queue,          \* list_ of each queue
    arrived,        \* history: the tasks each queue has accepted, in order
    stopped,        \* stopped of each queue's exit strategy
    ticket,         \* num_ of the dispatcher
    flag,           \* flag_: stop has been called
    promise,        \* what has become of each task's promise
    started,        \* how many threads start() has made
    wpc, job,       \* each worker's step, and the task in its hands
    cpc, pushing,   \* each client's step, and the task and queue of its push
    target, next    \* and the index of its loop over queues or threads

queues  == <<queue, arrived, stopped>>
workers == <<started, wpc, job>>
clients == <<cpc, pushing, target, next>>
vars    == <<queues, ticket, flag, promise, workers, clients>>

Worker == 0 .. num - 1

get_queue(i) == IF Shared THEN 0 ELSE i
Queue == {get_queue(i) : i \in Worker}

push_stoppedNot(q) == FALSE             \* accepts after stop
push_stopped(q) == stopped[q]

pop_stoppedNever(q) == FALSE            \* waits on although stopped
pop_stopped(q) == stopped[q] /\ (Immediate \/ queue[q] = <<>>)

(* RoundRobinDispatchT::next: the index it returns, and its counter.       *)
DispatchUnbounded == ticket             \* past the last queue
Dispatch == IF num = 1 THEN 0 ELSE ticket % num
NextTicket == IF num = 1 THEN ticket ELSE (ticket + 1) % TicketModulus

(* notify_all: the workers that wait on the queue look at it again.        *)
NotifyAll(q) ==
    wpc' = [w \in Worker |->
              IF wpc[w] = "wait" /\ get_queue(w) = q THEN "pop" ELSE wpc[w]]

Init ==
    /\ queue = [q \in Queue |-> <<>>]
    /\ arrived = [q \in Queue |-> <<>>]
    /\ stopped = [q \in Queue |-> FALSE]
    /\ ticket = 0
    /\ flag = FALSE
    /\ promise = [m \in Task |-> "new"]
    /\ started = 0
    /\ wpc = [w \in Worker |-> "unborn"]
    /\ job = [w \in Worker |-> None]
    /\ cpc = [c \in Client |-> "idle"]
    /\ pushing = [c \in Client |-> None]
    /\ target = [c \in Client |-> 0]
    /\ next = [c \in Client |-> 0]

-----------------------------------------------------------------------------

(* start(): one thread after the other; each begins with pop.              *)
StartThread ==
    /\ started < num
    /\ wpc' = [wpc EXCEPT ![started] = "pop"]
    /\ started' = started + 1
    /\ UNCHANGED <<queues, ticket, flag, promise, job, clients>>

(* push(): the dispatcher chooses the queue ...                            *)
PushDispatch(c) ==
    /\ cpc[c] = "idle"
    /\ \E m \in Task :
          /\ promise[m] = "new"
          /\ \A d \in Client : pushing[d] # m
          /\ pushing' = [pushing EXCEPT ![c] = m]
    /\ target' = [target EXCEPT ![c] = get_queue(Dispatch)]
    /\ ticket' = NextTicket
    /\ cpc' = [cpc EXCEPT ![c] = "push"]
    /\ UNCHANGED <<queues, flag, promise, workers, next>>

(* ... which takes the task, or refuses it if it has been stopped since.   *)
PushQueue(c) ==
    LET q == target[c]
        m == pushing[c]
    IN
    /\ cpc[c] = "push"
    /\ \/ /\ ~push_stopped(q)
          /\ queue' = [queue EXCEPT ![q] = Append(@, m)]
          /\ arrived' = [arrived EXCEPT ![q] = Append(@, m)]
          /\ promise' = [promise EXCEPT ![m] = "accepted"]
          /\ NotifyAll(q)
       \/ /\ push_stopped(q)
          /\ promise' = [promise EXCEPT ![m] = "refused"]
          /\ UNCHANGED <<queue, arrived, wpc>>
    /\ cpc' = [cpc EXCEPT ![c] = "idle"]
    /\ pushing' = [pushing EXCEPT ![c] = None]
    /\ target' = [target EXCEPT ![c] = 0]
    /\ UNCHANGED <<stopped, ticket, flag, started, job, next>>

(* stop(): only the first call gets past the flag (a later one returns at  *)
(* once).  Called after start: join needs every thread to exist.           *)
StopFlag(c) ==
    /\ cpc[c] = "idle"
    /\ started = num
    /\ ~flag
    /\ flag' = TRUE
    /\ cpc' = [cpc EXCEPT ![c] = "stop"]
    /\ UNCHANGED <<queues, ticket, promise, workers, pushing, target, next>>

(* A shared queue is stopped again and again; available_stop ignores that. *)
StopQueue(c) ==
    LET q == get_queue(next[c])
    IN
    /\ cpc[c] = "stop"
    /\ IF stopped[q] THEN UNCHANGED <<stopped, wpc>>
       ELSE stopped' = [stopped EXCEPT ![q] = TRUE] /\ NotifyAll(q)
    /\ IF next[c] + 1 < num
       THEN next' = [next EXCEPT ![c] = @ + 1] /\ UNCHANGED cpc
       ELSE next' = [next EXCEPT ![c] = 0] /\ cpc' = [cpc EXCEPT ![c] = "join"]
    /\ UNCHANGED <<queue, arrived, ticket, flag, promise, started, job, pushing, target>>

Join(c) ==
    /\ cpc[c] = "join"
    /\ wpc[next[c]] = "done"
    /\ IF next[c] + 1 < num
       THEN next' = [next EXCEPT ![c] = @ + 1] /\ UNCHANGED cpc
       ELSE next' = [next EXCEPT ![c] = 0] /\ cpc' = [cpc EXCEPT ![c] = "stopped"]
    /\ UNCHANGED <<queues, ticket, flag, promise, workers, pushing, target>>

-----------------------------------------------------------------------------

(* pop(): take a task, wait for one, or find that it is time to stop.      *)
PoppedLast(q) == [task |-> Last(queue[q]), rest |-> Front(queue[q])] \* a stack
PoppedAgain(q) == [task |-> Head(queue[q]), rest |-> queue[q]]      \* top, no pop
Popped(q) == [task |-> Head(queue[q]), rest |-> Tail(queue[q])]

PopTask(w) ==
    LET q == get_queue(w) IN
    /\ wpc[w] = "pop"
    /\ ~pop_stopped(q) /\ queue[q] # <<>>
    /\ job' = [job EXCEPT ![w] = Popped(q).task]
    /\ queue' = [queue EXCEPT ![q] = Popped(q).rest]
    /\ promise' = [promise EXCEPT ![Popped(q).task] = "running"]
    /\ wpc' = [wpc EXCEPT ![w] = "run"]
    /\ UNCHANGED <<stopped, arrived, ticket, flag, started, clients>>

PopWait(w) ==
    LET q == get_queue(w) IN
    /\ wpc[w] = "pop"
    /\ ~pop_stopped(q) /\ queue[q] = <<>>
    /\ wpc' = [wpc EXCEPT ![w] = "wait"]
    /\ UNCHANGED <<queues, ticket, flag, promise, started, job, clients>>

(* wait_for returns after 50 ms, or for no reason.                         *)
WaitTimeout(w) ==
    /\ wpc[w] = "wait"
    /\ wpc' = [wpc EXCEPT ![w] = "pop"]
    /\ UNCHANGED <<queues, ticket, flag, promise, started, job, clients>>

PopStopped(w) ==
    /\ wpc[w] = "pop"
    /\ pop_stopped(get_queue(w))
    /\ wpc' = [wpc EXCEPT ![w] = "clear"]
    /\ UNCHANGED <<queues, ticket, flag, promise, started, job, clients>>

(* invoke(): the function returns a value or throws; both fulfil the       *)
(* promise.                                                                *)
RunTask(w) ==
    /\ wpc[w] = "run"
    /\ \E outcome \in {"value", "exception"} :
          promise' = [promise EXCEPT ![job[w]] = outcome]
    /\ job' = [job EXCEPT ![w] = None]
    /\ wpc' = [wpc EXCEPT ![w] = "pop"]
    /\ UNCHANGED <<queues, ticket, flag, started, clients>>

(* clear(): what is left in the queue gets bad_exception.                  *)
LeftIgnored(q) == {}                    \* empties the list, keeps promises open
Left(q) == ToSet(queue[q])

ClearQueue(w) ==
    LET left == Left(get_queue(w)) IN
    /\ wpc[w] = "clear"
    /\ queue' = [queue EXCEPT ![get_queue(w)] = <<>>]
    /\ promise' = [m \in Task |-> IF m \in left THEN "abandoned" ELSE promise[m]]
    /\ wpc' = [wpc EXCEPT ![w] = "done"]
    /\ UNCHANGED <<arrived, stopped, ticket, flag, started, job, clients>>

-----------------------------------------------------------------------------

ClientStep(c) == PushQueue(c) \/ StopQueue(c) \/ Join(c)

WorkerStep(w) ==
    PopTask(w) \/ PopWait(w) \/ WaitTimeout(w) \/ PopStopped(w) \/ RunTask(w) \/ ClearQueue(w)

Next ==
    \/ StartThread
    \/ \E c \in Client : PushDispatch(c) \/ StopFlag(c) \/ ClientStep(c)
    \/ \E w \in Worker : WorkerStep(w)

Spec == Init /\ [][Next]_vars

(* Threads that exist keep running and the function returns; nobody has to *)
(* start the group, push or stop.                                          *)
Fairness ==
    /\ \A c \in Client : WF_vars(ClientStep(c))
    /\ \A w \in Worker : WF_vars(WorkerStep(w))

FairSpec == Spec /\ Fairness

-----------------------------------------------------------------------------

Unfinished == {"accepted", "running"}
PromiseStates == {"new", "refused", "value", "exception", "abandoned"} \cup Unfinished

TypeOK ==
    /\ queue \in [Queue -> Seq(Task)] /\ arrived \in [Queue -> Seq(Task)]
    /\ stopped \in [Queue -> BOOLEAN]
    /\ ticket \in 0 .. TicketModulus - 1
    /\ flag \in BOOLEAN
    /\ promise \in [Task -> PromiseStates]
    /\ started \in 0 .. num
    /\ wpc \in [Worker -> {"unborn", "pop", "wait", "run", "clear", "done"}]
    /\ job \in [Worker -> Task \cup {None}]
    /\ cpc \in [Client -> {"idle", "push", "stop", "join", "stopped"}]
    /\ pushing \in [Client -> Task \cup {None}]
    /\ target \in [Client -> Queue]
    /\ next \in [Client -> Worker]

(* An accepted task is in one place of one queue, a running one in the     *)
(* hands of one worker, any other nowhere: none is lost between push, pop  *)
(* and clear, and none is handed out twice.                                *)
Places(m) ==
    UNION {{<<q, i>> : i \in {j \in DOMAIN queue[q] : queue[q][j] = m}} : q \in Queue}
Hands(m) == {w \in Worker : job[w] = m}

TasksInOnePlace ==
    \A m \in Task :
        /\ Cardinality(Places(m)) = IF promise[m] = "accepted" THEN 1 ELSE 0
        /\ Cardinality(Hands(m)) = IF promise[m] = "running" THEN 1 ELSE 0

(* Tasks of a queue begin in the order they were accepted; where each      *)
(* worker has its own queue (EventLoopExecutor) they also end in it.       *)
BeginInOrder ==
    \A q \in Queue : \A j \in DOMAIN arrived[q] :
        promise[arrived[q][j]] # "accepted" =>
            \A i \in 1 .. j - 1 :
                promise[arrived[q][i]] \notin IF Shared THEN {"accepted"} ELSE Unfinished

(* A worker leaves only a stopped queue, so that a push accepted from it   *)
(* later cannot be stranded.                                               *)
NoneStranded ==
    \A w \in Worker : wpc[w] = "done" =>
        stopped[get_queue(w)] /\ queue[get_queue(w)] = <<>>

Abs == INSTANCE Executor WITH
    state <- promise,
    MayAbandon <- Immediate,
    phase <- IF \E c \in Client : cpc[c] = "stopped" THEN "closed"
             ELSE IF flag THEN "closing" ELSE "open"

(* The promise to the clients: accepted tasks run once, stop leaves no     *)
(* future unready, and exit_after_handle_all abandons nothing.             *)
ImplementsExecutor == Abs!Spec

(* In a started group every future that push returned becomes ready, with  *)
(* or without a stop.                                                      *)
FuturesReady ==
    \A m \in Task :
        promise[m] = "accepted" /\ started = num ~> promise[m] \notin Unfinished

(* stop() returns: every worker leaves its queue.                          *)
StopReturns ==
    \A c \in Client : cpc[c] = "stop" ~> cpc[c] = "stopped"
=============================================================================
