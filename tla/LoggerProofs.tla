---------------------------- MODULE LoggerProofs -----------------------------
(***************************************************************************)
(* Proofs about the logger for every set of threads and lines, every size  *)
(* of its pool and of its files: each buffer is in one place, and the      *)
(* worker writes to the file that is meant.  The event loop's invariant is *)
(* that of a thread group of one worker, whose steps the logger's are.     *)
(* The pool, the lines and the pushed lines are one family of lists, which *)
(* no buffer is in twice: malloc, push and release move entries from one   *)
(* list to another, and a refused line's list is dropped.                  *)
(*                                                                         *)
(* On top of that, the logger implements LogStream.  The buffers of a line *)
(* hold its pages from the write until the release; the worker runs the    *)
(* last line that left the queue, and what has left it is a prefix of what *)
(* arrived.  So the page it writes is the next of the stream.              *)
(***************************************************************************)
EXTENDS Logger, SequenceProofs, FiniteSetTheorems, TLAPS

Group == INSTANCE ThreadGroupProofs WITH
    Client <- Line \cup {Owner}, Task <- Record, num <- 1,
    Shared <- FALSE, Immediate <- FALSE, TicketModulus <- 1

(* The logger's steps are steps of the loop, or do not touch it.           *)
LEMMA LoopInit == Init => Group!IInv
<1>1. Init => Group!Init
    BY DEF Init, Loop!Init, Group!Init, Loop!Queue, Group!Queue, Loop!Worker, Group!Worker,
           Loop!get_queue, Group!get_queue
<1> QED BY <1>1, Group!InitIInv, NoneAssumption

LEMMA LoopSteps == [Next]_vars => [Group!Next]_(Group!vars)
<1> SUFFICES ASSUME [Next]_vars PROVE [Group!Next]_(Group!vars)
    OBVIOUS
<1>1. UNCHANGED loopVars => UNCHANGED Group!vars
    BY DEF loopVars, Group!vars, Group!queues, Group!workers, Group!clients
<1>2. ASSUME NEW c \in Line \cup {Owner}, Loop!PushDispatch(c) PROVE Group!PushDispatch(c)
    BY <1>2 DEF Loop!PushDispatch, Group!PushDispatch, Loop!get_queue, Group!get_queue, Loop!Dispatch,
           Group!Dispatch, Loop!NextTicket, Group!NextTicket, Loop!queues, Group!queues, Loop!workers, Group!workers
<1>3. ASSUME NEW c \in Line \cup {Owner}, Loop!PushQueue(c) PROVE Group!PushQueue(c)
    BY <1>3 DEF Loop!PushQueue, Group!PushQueue, Loop!push_stopped, Group!push_stopped, Loop!NotifyAll,
           Group!NotifyAll, Loop!Worker, Group!Worker, Loop!get_queue, Group!get_queue
<1>4. ASSUME Loop!StartThread PROVE Group!StartThread
    BY <1>4 DEF Loop!StartThread, Group!StartThread, Loop!queues, Group!queues, Loop!clients, Group!clients
<1>5. ASSUME Loop!StopFlag(Owner) PROVE Group!StopFlag(Owner)
    BY <1>5 DEF Loop!StopFlag, Group!StopFlag, Loop!queues, Group!queues, Loop!workers, Group!workers
<1>6. ASSUME Loop!StopQueue(Owner) PROVE Group!StopQueue(Owner)
    BY <1>6 DEF Loop!StopQueue, Group!StopQueue, Loop!get_queue, Group!get_queue, Loop!NotifyAll,
           Group!NotifyAll, Loop!Worker, Group!Worker
<1>7. ASSUME Loop!Join(Owner) PROVE Group!Join(Owner)
    BY <1>7 DEF Loop!Join, Group!Join, Loop!queues, Group!queues, Loop!workers, Group!workers
<1>8. ASSUME Loop!PopTask(0) \/ Loop!PopStopped(0) PROVE Group!WorkerStep(0)
  <2> USE DEF Loop!get_queue, Group!get_queue, Loop!pop_stopped, Group!pop_stopped, Loop!queues, Group!queues,
              Loop!clients, Group!clients
  <2>1. CASE Loop!PopTask(0)
    BY <2>1 DEF Loop!PopTask, Group!WorkerStep, Group!PopTask, Loop!Popped, Group!Popped
  <2>2. CASE Loop!PopStopped(0)
    BY <2>2 DEF Loop!PopStopped, Group!WorkerStep, Group!PopStopped
  <2> QED BY <1>8, <2>1, <2>2
<1>9. ASSUME Loop!PopWait(0) \/ Loop!WaitTimeout(0) \/ Loop!ClearQueue(0) \/ Loop!RunTask(0)
      PROVE  Group!WorkerStep(0)
  <2> USE DEF Loop!get_queue, Group!get_queue, Loop!pop_stopped, Group!pop_stopped, Loop!queues, Group!queues,
              Loop!clients, Group!clients
  <2>1. CASE Loop!PopWait(0) \/ Loop!WaitTimeout(0)
    BY <2>1 DEF Loop!PopWait, Loop!WaitTimeout, Group!WorkerStep, Group!PopWait, Group!WaitTimeout
  <2>2. CASE Loop!ClearQueue(0)
    BY <2>2 DEF Loop!ClearQueue, Group!WorkerStep, Group!ClearQueue, Loop!Left, Group!Left,
           Loop!ToSet, Group!ToSet
  <2>3. CASE Loop!RunTask(0)
    BY <2>3 DEF Loop!RunTask, Group!WorkerStep, Group!RunTask
  <2> QED BY <1>9, <2>1, <2>2, <2>3
<1>10. 0 \in Group!Worker
    BY DEF Group!Worker
<1>11. CASE UNCHANGED vars
    BY <1>1, <1>11 DEF vars
<1>12. CASE \E t \in Line : LogWrite(t) \/ LogFlush(t) \/ LogPush(t)
    BY <1>1, <1>2, <1>3, <1>12 DEF LogWrite, LogFlush, LogPush, Group!Next, Group!ClientStep
<1>13. CASE start \/ StopLoop \/ close_log
    BY <1>1, <1>4, <1>5, <1>6, <1>7, <1>13 DEF start, StopLoop, close_log, Close, Group!Next, Group!ClientStep
<1>14. CASE WorkerStep
    BY <1>1, <1>8, <1>9, <1>10, <1>14
       DEF WorkerStep, WorkerLoop, WriteTime, WriteItem, ReleaseItems, ReleaseAt, Group!Next
<1> QED BY <1>11, <1>12, <1>13, <1>14 DEF Next

(* The loop's invariant, so, holds in the logger.                          *)
LEMMA LoopStep == Group!IInv /\ [Next]_vars => Group!IInv'
BY LoopSteps, Group!Invariant, NoneAssumption

LEMMA LoopTyped == Group!IInv => Loop!TypeOK
BY DEF Group!IInv, Group!TypeOK, Loop!TypeOK, Group!Queue, Loop!Queue, Group!Worker, Loop!Worker,
       Group!get_queue, Loop!get_queue, Group!PromiseStates, Loop!PromiseStates,
       Group!Unfinished, Loop!Unfinished

(* What it says of the worker, of the threads that push and of the owner.  *)
LEMMA LoopFacts ==
    ASSUME Group!IInv
    PROVE  /\ started \in {0, 1}
           /\ wpc \in [0 .. 0 -> {"unborn", "pop", "wait", "run", "clear", "done"}]
           /\ cpc \in [Line \cup {Owner} -> {"idle", "push", "stop", "join", "stopped"}]
           /\ promise \in [Record -> {"new", "refused", "value", "exception", "abandoned", "accepted", "running"}]
           /\ pushing \in [Line \cup {Owner} -> Record \cup {None}]
           /\ started = 0 => wpc[0] = "unborn"
           /\ wpc[0] = "run" => job[0] \in Record /\ promise[job[0]] = "running"
           /\ wpc[0] = "clear" => queue[0] = <<>>
           /\ cpc[Owner] = "stopped" => wpc[0] = "done"
           /\ \A t \in Line \cup {Owner} :
                 /\ cpc[t] = "push" => pushing[t] \in Record
                 /\ pushing[t] # None =>
                       promise[pushing[t]] = "new" /\ \A u \in Line \cup {Owner} : pushing[u] = pushing[t] => u = t
<1>1. Group!TypeOK /\ Group!WorkerSteps /\ Group!HeldRunning /\ Group!ClientPushes /\ Group!ClientStops
    BY DEF Group!IInv
<1>2. Group!Worker = 0 .. 0 /\ 0 \in Group!Worker
    BY DEF Group!Worker
<1>3. /\ started \in {0, 1}
      /\ wpc \in [0 .. 0 -> {"unborn", "pop", "wait", "run", "clear", "done"}]
      /\ cpc \in [Line \cup {Owner} -> {"idle", "push", "stop", "join", "stopped"}]
      /\ promise \in [Record -> {"new", "refused", "value", "exception", "abandoned", "accepted", "running"}]
      /\ pushing \in [Line \cup {Owner} -> Record \cup {None}]
      /\ job \in [0 .. 0 -> Record \cup {None}]
    BY <1>1, <1>2 DEF Group!TypeOK, Group!PromiseStates, Group!Unfinished
<1>4. Group!WorkerFits(0)
    BY <1>1, <1>2 DEF Group!WorkerSteps
<1>5. /\ started = 0 => wpc[0] = "unborn"
      /\ wpc[0] = "run" => job[0] # None
      /\ wpc[0] = "clear" => queue[0] = <<>>
    BY <1>3, <1>4 DEF Group!WorkerFits, Group!get_queue
<1>6. wpc[0] = "run" => job[0] \in Record /\ promise[job[0]] = "running"
    BY <1>1, <1>2, <1>3, <1>5 DEF Group!HeldRunning
<1>7. cpc[Owner] = "stopped" => wpc[0] = "done"
    BY <1>1, <1>2 DEF Group!ClientStops
<1>8. \A t \in Line \cup {Owner} :
         /\ cpc[t] = "push" => pushing[t] \in Record
         /\ pushing[t] # None =>
               promise[pushing[t]] = "new" /\ \A u \in Line \cup {Owner} : pushing[u] = pushing[t] => u = t
    BY <1>1 DEF Group!ClientPushes
<1> QED BY <1>3, <1>5, <1>6, <1>7, <1>8

-----------------------------------------------------------------------------

(* Where the worker's output goes while the logger is started; and that it *)
(* ends the loop before it ends itself.                                    *)
FileFits ==
    /\ is_started => started = 1 /\ fd = IF filename /\ ~openFailed THEN "file" ELSE "stdout"
    /\ started = 1 /\ ~is_started => cpc[Owner] = "stopped"

(* open_log leaves the output that is meant, and write calls it or not.    *)
LEMMA FileOpened ==
    ASSUME NEW size, open_log(size), filename' = filename
    PROVE  fd' = IF filename' /\ ~openFailed' THEN "file" ELSE "stdout"
BY DEF open_log

LEMMA FileWritten ==
    ASSUME FileFits, NEW page, write(page), UNCHANGED <<filename, is_started, started, cpc>>
    PROVE  FileFits'
<1>1. (\E size : open_log(size)) \/ UNCHANGED <<fd, open, openFailed>>
    BY DEF write, writeCounting
<1> QED BY <1>1, FileOpened DEF FileFits

(* Every step keeps it.                                                    *)
LEMMA FileStep == Group!IInv /\ FileFits /\ [Next]_vars => FileFits'
<1> SUFFICES ASSUME Group!IInv, FileFits, [Next]_vars PROVE FileFits'
    OBVIOUS
<1> USE DEF loopVars
<1>1. cpc \in [Line \cup {Owner} -> {"idle", "push", "stop", "join", "stopped"}] /\ started \in {0, 1}
    BY LoopFacts
<1>2. CASE UNCHANGED vars
    BY <1>2 DEF vars, FileFits, file
<1>3. ASSUME NEW t \in Line, LogWrite(t) \/ LogFlush(t) \/ LogPush(t) PROVE FileFits'
  <2>1. UNCHANGED <<file, filename, is_started, started>> /\ cpc'[Owner] = cpc[Owner]
    BY <1>1, <1>3, ThreadAssumption
       DEF LogWrite, LogFlush, LogPush, Loop!PushDispatch, Loop!PushQueue, Loop!workers
  <2> QED BY <2>1 DEF FileFits, file
<1>4. CASE start
  <2>1. CASE openFailed' = TRUE /\ UNCHANGED <<loopVars, is_started>>
    BY <1>4, <2>1 DEF FileFits, start
  <2>2. CASE Loop!StartThread /\ is_started' = TRUE
    <3>1. started' = 1
      BY <1>4, <2>2 DEF start, Loop!StartThread
    <3>2. fd' = IF filename' /\ ~openFailed' THEN "file" ELSE "stdout"
      BY <1>4, FileOpened DEF start
    <3> QED BY <2>2, <3>1, <3>2 DEF FileFits
  <2> QED BY <1>4, <2>1, <2>2 DEF start
<1>5. CASE StopLoop
  <2>1. is_started /\ UNCHANGED <<file, filename, is_started, started>>
    BY <1>5 DEF StopLoop, Loop!StopFlag, Loop!StopQueue, Loop!Join, Loop!workers
  <2> QED BY <2>1 DEF FileFits, file
<1>6. CASE close_log
    BY <1>6 DEF FileFits, close_log, Close
<1>7. CASE WorkerLoop
  <2>1. UNCHANGED <<file, filename, is_started, started, cpc>>
    BY <1>7 DEF WorkerLoop, Loop!PopTask, Loop!PopWait, Loop!WaitTimeout, Loop!PopStopped,
                Loop!ClearQueue, Loop!clients
  <2> QED BY <2>1 DEF FileFits, file
<1>8. CASE WriteTime \/ WriteItem
    BY <1>8, FileWritten DEF WriteTime, WriteItem
<1>9. CASE ReleaseItems
  <2>1. UNCHANGED <<file, filename, is_started, started, cpc>>
    BY <1>9 DEF ReleaseItems, ReleaseAt, Loop!RunTask, Loop!clients
  <2> QED BY <2>1 DEF FileFits, file
<1> QED BY <1>2, <1>3, <1>4, <1>5, <1>6, <1>7, <1>8, <1>9 DEF Next, WorkerStep

-----------------------------------------------------------------------------

(* No entry is in two lists of a family f, or twice in one.                *)
Alone(f) ==
    \A p, q \in DOMAIN f : \A i \in 1 .. Len(f[p]), j \in 1 .. Len(f[q]) :
        f[p][i] = f[q][j] => p = q /\ i = j

(* b is in a list of the family; b is in the list.                         *)
In(f, b) == \E p \in DOMAIN f : \E i \in 1 .. Len(f[p]) : f[p][i] = b
Has(list, b) == \E i \in 1 .. Len(list) : list[i] = b
Distinct(list) == \A i, j \in 1 .. Len(list) : list[i] = list[j] => i = j

(* What a concatenation is, place by place.                                *)
LEMMA Concatenation ==
    ASSUME NEW B, NEW s \in Seq(B), NEW t \in Seq(B), NEW c, c = s \o t
    PROVE  /\ Len(s) \in Nat /\ Len(t) \in Nat /\ Len(c) = Len(s) + Len(t)
           /\ \A i \in 1 .. Len(s) : c[i] = s[i]
           /\ \A i \in 1 .. Len(t) : c[Len(s) + i] = t[i]
           /\ \A i \in 1 .. Len(s) + Len(t) :
                 i \in 1 .. Len(s) \/ (i - Len(s) \in 1 .. Len(t) /\ c[i] = t[i - Len(s)])
OBVIOUS

(* The entries of one list move to the end of another.                     *)
Moves(P, B, f, p, q, g) ==
    /\ f \in [P -> Seq(B)] /\ g \in [P -> Seq(B)]
    /\ p \in P /\ q \in P /\ p # q
    /\ g[p] = <<>> /\ g[q] = f[q] \o f[p]
    /\ \A r \in P \ {p, q} : g[r] = f[r]

LEMMA ListMoved ==
    ASSUME NEW P, NEW B, NEW f, NEW p, NEW q, NEW g, Moves(P, B, f, p, q, g), Alone(f)
    PROVE  Alone(g) /\ \A b : In(g, b) <=> In(f, b)
<1> USE DEF Moves
<1> DEFINE n == Len(f[q])
<1>1. /\ n \in Nat /\ Len(f[p]) \in Nat /\ Len(g[q]) = n + Len(f[p])
      /\ \A i \in 1 .. n : g[q][i] = f[q][i]
      /\ \A i \in 1 .. Len(f[p]) : g[q][n + i] = f[p][i]
      /\ \A i \in 1 .. n + Len(f[p]) : i \in 1 .. n \/ (i - n \in 1 .. Len(f[p]) /\ g[q][i] = f[p][i - n])
  <2>1. f[p] \in Seq(B) /\ f[q] \in Seq(B) /\ g[q] = f[q] \o f[p]
    OBVIOUS
  <2> HIDE DEF Moves, n
  <2>2. \A c : c = f[q] \o f[p] =>
           /\ Len(f[q]) \in Nat /\ Len(f[p]) \in Nat /\ Len(c) = Len(f[q]) + Len(f[p])
           /\ \A i \in 1 .. Len(f[q]) : c[i] = f[q][i]
           /\ \A i \in 1 .. Len(f[p]) : c[Len(f[q]) + i] = f[p][i]
           /\ \A i \in 1 .. Len(f[q]) + Len(f[p]) :
                 i \in 1 .. Len(f[q]) \/ (i - Len(f[q]) \in 1 .. Len(f[p]) /\ c[i] = f[p][i - Len(f[q])])
    BY <2>1, Concatenation, ZenonT(60)
  <2> QED BY <2>1, <2>2, Zenon DEF n
<1>2. /\ g[p] = <<>> /\ \A r \in P \ {p, q} : g[r] = f[r]
      /\ \A r \in P : Len(f[r]) \in Nat /\ Len(g[r]) \in Nat
    OBVIOUS
<1>3. DOMAIN f = P /\ DOMAIN g = P /\ p \in P /\ q \in P /\ p # q
    OBVIOUS
<1> HIDE DEF n, Moves
<1>4. ASSUME NEW r \in P, NEW k \in 1 .. Len(g[r])
      PROVE  \/ r # p /\ k \in 1 .. Len(f[r]) /\ g[r][k] = f[r][k]
             \/ r = q /\ k - n \in 1 .. Len(f[p]) /\ g[r][k] = f[p][k - n]
  <2>1. CASE r = p
    BY <1>2, <2>1
  <2>2. CASE r = q
    <3>1. k \in 1 .. n + Len(f[p]) /\ r # p
      BY <1>1, <1>3, <2>2
    <3>2. k \in 1 .. n => k \in 1 .. Len(f[r]) /\ g[r][k] = f[r][k]
      BY <1>1, <2>2 DEF n
    <3> QED BY <1>1, <2>2, <3>1, <3>2
  <2>3. CASE r \in P \ {p, q}
    BY <1>2, <2>3
  <2> QED BY <2>1, <2>2, <2>3
<1>5. Alone(g)
  <2>1. \A r, s \in P : \A i \in 1 .. Len(f[r]), j \in 1 .. Len(f[s]) : f[r][i] = f[s][j] => r = s /\ i = j
    BY <1>3, Zenon DEF Alone
  <2>2. ASSUME NEW r \in P, NEW s \in P, NEW k \in 1 .. Len(g[r]), NEW l \in 1 .. Len(g[s]), g[r][k] = g[s][l]
        PROVE  r = s /\ k = l
    <3>1. k \in Int /\ l \in Int /\ n \in Int
      BY <1>1, <1>2
    <3>2. r \in P /\ s \in P /\ p \in P /\ g[r][k] = g[s][l]
      BY <1>3, <2>2
    <3>3. CASE /\ r # p /\ k \in 1 .. Len(f[r]) /\ g[r][k] = f[r][k]
               /\ s # p /\ l \in 1 .. Len(f[s]) /\ g[s][l] = f[s][l]
      <4>1. f[r][k] = f[s][l]
        BY ONLY <3>2, <3>3
      <4>2. r \in P /\ s \in P /\ k \in 1 .. Len(f[r]) /\ l \in 1 .. Len(f[s])
        BY ONLY <3>2, <3>3
      <4> QED BY ONLY <2>1, <4>1, <4>2
    <3>4. CASE /\ r = q /\ k - n \in 1 .. Len(f[p]) /\ g[r][k] = f[p][k - n]
               /\ s # p /\ l \in 1 .. Len(f[s]) /\ g[s][l] = f[s][l]
      BY ONLY <2>1, <3>2, <3>4
    <3>5. CASE /\ r # p /\ k \in 1 .. Len(f[r]) /\ g[r][k] = f[r][k]
               /\ s = q /\ l - n \in 1 .. Len(f[p]) /\ g[s][l] = f[p][l - n]
      <4>1. f[r][k] = f[p][l - n]
        BY ONLY <3>2, <3>5
      <4>2. r = p
        BY ONLY <2>1, <3>2, <3>5, <4>1, Zenon
      <4> QED BY <3>5, <4>2
    <3>6. CASE /\ r = q /\ k - n \in 1 .. Len(f[p]) /\ g[r][k] = f[p][k - n]
               /\ s = q /\ l - n \in 1 .. Len(f[p]) /\ g[s][l] = f[p][l - n]
      <4>1. k - n = l - n
        BY ONLY <2>1, <3>2, <3>6
      <4>2. k = l
        BY ONLY <3>1, <4>1
      <4> QED BY <3>6, <4>2
    <3> QED BY <1>4, <3>3, <3>4, <3>5, <3>6
  <2> QED BY <1>3, <2>2, Zenon DEF Alone
<1>6. ASSUME NEW b PROVE In(g, b) <=> In(f, b)
  <2> HIDE DEF In
  <2>1. ASSUME NEW r \in P, NEW k \in 1 .. Len(g[r]) PROVE In(f, g[r][k])
    <3>1. \E s \in P : \E i \in 1 .. Len(f[s]) : f[s][i] = g[r][k]
      BY <1>3, <1>4
    <3> QED BY <1>3, <3>1, Zenon DEF In
  <2>2. ASSUME NEW r \in P, NEW k \in 1 .. Len(f[r]) PROVE In(g, f[r][k])
    <3>1. CASE r = p
      <4>1. n + k \in 1 .. Len(g[q])
        BY ONLY <1>1, <3>1, k \in 1 .. Len(f[r])
      <4>2. g[q][n + k] = f[r][k]
        BY <1>1, <3>1
      <4> QED BY <1>3, <4>1, <4>2 DEF In
    <3>2. CASE r = q
      <4>1. k \in 1 .. n
        BY <3>2 DEF n
      <4>2. k \in 1 .. Len(g[q])
        BY ONLY <1>1, <4>1
      <4>3. g[q][k] = f[r][k]
        BY <1>1, <3>2, <4>1
      <4> QED BY <1>3, <4>2, <4>3 DEF In
    <3>3. CASE r \in P \ {p, q}
      BY <1>2, <1>3, <3>3 DEF In
    <3> QED BY <3>1, <3>2, <3>3
  <2>3. In(g, b) => In(f, b)
    <3> SUFFICES ASSUME In(g, b) PROVE In(f, b)
        OBVIOUS
    <3>1. PICK r \in P : \E k \in 1 .. Len(g[r]) : g[r][k] = b
      BY ONLY In(g, b), <1>3, Zenon DEF In
    <3> QED BY <2>1, <3>1
  <2>4. In(f, b) => In(g, b)
    <3> SUFFICES ASSUME In(f, b) PROVE In(g, b)
        OBVIOUS
    <3>1. PICK r \in P : \E k \in 1 .. Len(f[r]) : f[r][k] = b
      BY ONLY In(f, b), <1>3, Zenon DEF In
    <3> QED BY <2>2, <3>1
  <2> QED BY <2>3, <2>4
<1> QED BY <1>2, <1>5, <1>6

(* The first entry of one list goes to the end of another.                 *)
Hands(P, B, f, p, q, g) ==
    /\ f \in [P -> Seq(B)] /\ g \in [P -> Seq(B)]
    /\ p \in P /\ q \in P /\ p # q
    /\ f[p] # <<>> /\ g[p] = Tail(f[p]) /\ g[q] = Append(f[q], Head(f[p]))
    /\ \A r \in P \ {p, q} : g[r] = f[r]

LEMMA ListHanded ==
    ASSUME NEW P, NEW B, NEW f, NEW p, NEW q, NEW g, Hands(P, B, f, p, q, g), Alone(f)
    PROVE  Alone(g) /\ \A b : In(g, b) <=> In(f, b)
<1> USE DEF Hands
<1> DEFINE n == Len(f[q])
<1>1. /\ n \in Nat /\ Len(f[p]) \in Nat /\ Len(f[p]) > 0
      /\ Len(g[q]) = n + 1 /\ Len(g[p]) = Len(f[p]) - 1
      /\ \A i \in 1 .. n : g[q][i] = f[q][i]
      /\ g[q][n + 1] = f[p][1]
      /\ \A i \in 1 .. Len(g[p]) : g[p][i] = f[p][i + 1]
  <2>1. f[p] \in Seq(B) /\ f[q] \in Seq(B) /\ Head(f[p]) = f[p][1] /\ Head(f[p]) \in B
    OBVIOUS
  <2> QED BY <2>1
<1>2. /\ \A r \in P \ {p, q} : g[r] = f[r]
      /\ \A r \in P : Len(f[r]) \in Nat /\ Len(g[r]) \in Nat
    OBVIOUS
<1>3. DOMAIN f = P /\ DOMAIN g = P /\ p \in P /\ q \in P /\ p # q
    OBVIOUS
<1> HIDE DEF n, Hands
<1>4. ASSUME NEW r \in P, NEW k \in 1 .. Len(g[r])
      PROVE  \/ r # p /\ k \in 1 .. Len(f[r]) /\ g[r][k] = f[r][k]
             \/ r = p /\ k + 1 \in 2 .. Len(f[p]) /\ g[r][k] = f[p][k + 1]
             \/ r = q /\ k = n + 1 /\ 1 \in 1 .. Len(f[p]) /\ g[r][k] = f[p][1]
  <2>1. CASE r = p
    <3>1. k + 1 \in 2 .. Len(f[p])
      BY ONLY k \in 1 .. Len(g[r]), <1>1, <2>1
    <3> QED BY <1>1, <2>1, <3>1
  <2>2. CASE r = q
    <3>1. k \in 1 .. n \/ k = n + 1
      BY ONLY k \in 1 .. Len(g[r]), <1>1, <2>2
    <3>2. 1 \in 1 .. Len(f[p])
      BY ONLY <1>1
    <3> QED BY <1>1, <2>2, <3>1, <3>2 DEF n
  <2>3. CASE r \in P \ {p, q}
    BY <1>2, <2>3
  <2> QED BY <2>1, <2>2, <2>3
<1>5. Alone(g)
  <2>1. \A r, s \in P : \A i \in 1 .. Len(f[r]), j \in 1 .. Len(f[s]) : f[r][i] = f[s][j] => r = s /\ i = j
    BY <1>3, Zenon DEF Alone
  <2> DEFINE From(r, k, s, l) == s \in P /\ l \in 1 .. Len(f[s]) /\ g[r][k] = f[s][l]
  <2>2. \A r \in P : \A k \in 1 .. Len(g[r]) :
           \/ r # p /\ From(r, k, r, k)
           \/ r = p /\ k + 1 > 1 /\ From(r, k, p, k + 1)
           \/ r = q /\ k = n + 1 /\ From(r, k, p, 1)
    <3> SUFFICES ASSUME NEW r \in P, NEW k \in 1 .. Len(g[r])
                 PROVE  \/ r # p /\ From(r, k, r, k)
                        \/ r = p /\ k + 1 > 1 /\ From(r, k, p, k + 1)
                        \/ r = q /\ k = n + 1 /\ From(r, k, p, 1)
        OBVIOUS
    <3>1. k \in Int /\ Len(f[p]) \in Int
      BY <1>1, <1>2
    <3>2. k + 1 \in 2 .. Len(f[p]) => k + 1 > 1 /\ k + 1 \in 1 .. Len(f[p])
      BY ONLY <3>1
    <3> QED BY <1>3, <1>4, <3>2
  <2> HIDE DEF From
  <2>3. \A r, s, u, v \in P : \A k, l, i, j :
           From(r, k, u, i) /\ From(s, l, v, j) /\ g[r][k] = g[s][l] => u = v /\ i = j
    <3> SUFFICES ASSUME NEW r \in P, NEW s \in P, NEW u \in P, NEW v \in P, NEW k, NEW l, NEW i, NEW j,
                        From(r, k, u, i), From(s, l, v, j), g[r][k] = g[s][l]
                 PROVE  u = v /\ i = j
        OBVIOUS
    <3>1. i \in 1 .. Len(f[u]) /\ j \in 1 .. Len(f[v]) /\ g[r][k] = f[u][i] /\ g[s][l] = f[v][j]
      BY DEF From
    <3>2. f[u][i] = f[v][j]
      BY ONLY <3>1, g[r][k] = g[s][l]
    <3> QED BY ONLY <2>1, <3>1, <3>2, u \in P, v \in P
  <2>4. ASSUME NEW r \in P, NEW s \in P, NEW k \in 1 .. Len(g[r]), NEW l \in 1 .. Len(g[s]), g[r][k] = g[s][l]
        PROVE  r = s /\ k = l
    <3>1. k \in Int /\ l \in Int /\ n \in Int
      BY <1>1, <1>2
    <3>2. /\ r \in P /\ s \in P /\ p \in P /\ q \in P /\ p # q /\ g[r][k] = g[s][l]
          /\ \/ r # p /\ From(r, k, r, k)
             \/ r = p /\ k + 1 > 1 /\ From(r, k, p, k + 1)
             \/ r = q /\ k = n + 1 /\ From(r, k, p, 1)
          /\ \/ s # p /\ From(s, l, s, l)
             \/ s = p /\ l + 1 > 1 /\ From(s, l, p, l + 1)
             \/ s = q /\ l = n + 1 /\ From(s, l, p, 1)
      BY <1>3, <2>2, <2>4
    <3>3. \A u, v \in P : \A i, j : From(r, k, u, i) /\ From(s, l, v, j) => u = v /\ i = j
      BY ONLY <2>3, <3>2
    <3>4. CASE r # p /\ From(r, k, r, k)
      <4>1. CASE s # p /\ From(s, l, s, l)
        BY ONLY <3>2, <3>3, <3>4, <4>1
      <4>2. CASE s = p /\ l + 1 > 1 /\ From(s, l, p, l + 1)
        BY ONLY <3>2, <3>3, <3>4, <4>2
      <4>3. CASE s = q /\ l = n + 1 /\ From(s, l, p, 1)
        BY ONLY <3>2, <3>3, <3>4, <4>3
      <4> QED BY ONLY <3>2, <4>1, <4>2, <4>3
    <3>5. CASE r = p /\ k + 1 > 1 /\ From(r, k, p, k + 1)
      <4>1. CASE s # p /\ From(s, l, s, l)
        BY ONLY <3>2, <3>3, <3>5, <4>1
      <4>2. CASE s = p /\ l + 1 > 1 /\ From(s, l, p, l + 1)
        <5>1. k + 1 = l + 1
          BY ONLY <3>2, <3>3, <3>5, <4>2
        <5> QED BY ONLY <3>1, <3>5, <4>2, <5>1
      <4>3. CASE s = q /\ l = n + 1 /\ From(s, l, p, 1)
        <5>1. k + 1 = 1
          BY ONLY <3>2, <3>3, <3>5, <4>3
        <5> QED BY ONLY <3>1, <3>5, <5>1
      <4> QED BY ONLY <3>2, <4>1, <4>2, <4>3
    <3>6. CASE r = q /\ k = n + 1 /\ From(r, k, p, 1)
      <4>1. CASE s # p /\ From(s, l, s, l)
        BY ONLY <3>2, <3>3, <3>6, <4>1
      <4>2. CASE s = p /\ l + 1 > 1 /\ From(s, l, p, l + 1)
        <5>1. l + 1 = 1
          BY ONLY <3>2, <3>3, <3>6, <4>2
        <5> QED BY ONLY <3>1, <4>2, <5>1
      <4>3. CASE s = q /\ l = n + 1 /\ From(s, l, p, 1)
        BY ONLY <3>6, <4>3
      <4> QED BY ONLY <3>2, <4>1, <4>2, <4>3
    <3> QED BY ONLY <3>2, <3>4, <3>5, <3>6
  <2> QED BY <1>3, <2>4, Zenon DEF Alone
<1>6. ASSUME NEW b PROVE In(g, b) <=> In(f, b)
  <2> HIDE DEF In
  <2>1. ASSUME NEW r \in P, NEW k \in 1 .. Len(g[r]) PROVE In(f, g[r][k])
    <3>1. k + 1 \in 2 .. Len(f[p]) => k + 1 \in 1 .. Len(f[p])
      BY <1>1, <1>2
    <3>2. \E s \in P : \E i \in 1 .. Len(f[s]) : f[s][i] = g[r][k]
      BY <1>3, <1>4, <3>1
    <3> QED BY <1>3, <3>2, Zenon DEF In
  <2>2. ASSUME NEW r \in P, NEW k \in 1 .. Len(f[r]) PROVE In(g, f[r][k])
    <3>1. CASE r = p
      <4>1. CASE k = 1
        <5>1. n + 1 \in 1 .. Len(g[q])
          BY ONLY <1>1
        <5>2. g[q][n + 1] = f[r][k]
          BY <1>1, <3>1, <4>1
        <5> QED BY <1>3, <5>1, <5>2 DEF In
      <4>2. CASE k # 1
        <5>1. k - 1 \in 1 .. Len(g[p]) /\ (k - 1) + 1 = k
          BY ONLY k \in 1 .. Len(f[r]), <1>1, <3>1, <4>2
        <5>2. g[p][k - 1] = f[r][k]
          BY <1>1, <3>1, <5>1
        <5> QED BY <1>3, <5>1, <5>2 DEF In
      <4> QED BY <4>1, <4>2
    <3>2. CASE r = q
      <4>1. k \in 1 .. n /\ k \in 1 .. Len(g[q])
        BY <1>1, <3>2 DEF n
      <4>2. g[q][k] = f[r][k]
        BY <1>1, <3>2, <4>1
      <4> QED BY <1>3, <4>1, <4>2 DEF In
    <3>3. CASE r \in P \ {p, q}
      BY <1>2, <1>3, <3>3 DEF In
    <3> QED BY <3>1, <3>2, <3>3
  <2>3. In(g, b) => In(f, b)
    <3> SUFFICES ASSUME In(g, b) PROVE In(f, b)
        OBVIOUS
    <3>1. PICK r \in P : \E k \in 1 .. Len(g[r]) : g[r][k] = b
      BY ONLY In(g, b), <1>3, Zenon DEF In
    <3> QED BY <2>1, <3>1
  <2>4. In(f, b) => In(g, b)
    <3> SUFFICES ASSUME In(f, b) PROVE In(g, b)
        OBVIOUS
    <3>1. PICK r \in P : \E k \in 1 .. Len(f[r]) : f[r][k] = b
      BY ONLY In(f, b), <1>3, Zenon DEF In
    <3> QED BY <2>2, <3>1
  <2> QED BY <2>3, <2>4
<1> QED BY <1>5, <1>6

(* A list is dropped: its entries are in none.                             *)
Drops(P, B, f, p, g) ==
    /\ f \in [P -> Seq(B)] /\ g \in [P -> Seq(B)]
    /\ p \in P /\ g[p] = <<>> /\ \A r \in P \ {p} : g[r] = f[r]

LEMMA ListDropped ==
    ASSUME NEW P, NEW B, NEW f, NEW p, NEW g, Drops(P, B, f, p, g), Alone(f)
    PROVE  Alone(g) /\ \A b : In(g, b) <=> In(f, b) /\ ~Has(f[p], b)
<1>1. DOMAIN f = P /\ DOMAIN g = P /\ p \in P
    BY DEF Drops
<1>2. \A r \in P : \A k \in 1 .. Len(g[r]) : r # p /\ k \in 1 .. Len(f[r]) /\ g[r][k] = f[r][k]
    BY DEF Drops
<1>3. \A r \in P \ {p} : g[r] = f[r]
    BY DEF Drops
<1>4. Alone(g)
  <2>1. \A r, s \in P : \A i \in 1 .. Len(f[r]), j \in 1 .. Len(f[s]) : f[r][i] = f[s][j] => r = s /\ i = j
    BY <1>1, Zenon DEF Alone
  <2>2. ASSUME NEW r \in P, NEW s \in P, NEW k \in 1 .. Len(g[r]), NEW l \in 1 .. Len(g[s]), g[r][k] = g[s][l]
        PROVE  r = s /\ k = l
    <3>1. k \in 1 .. Len(f[r]) /\ l \in 1 .. Len(f[s]) /\ f[r][k] = f[s][l]
      BY <1>2, <2>2
    <3> QED BY ONLY <2>1, <3>1, r \in P, s \in P
  <2> QED BY <1>1, <2>2, Zenon DEF Alone
<1>5. ASSUME NEW b PROVE In(g, b) <=> In(f, b) /\ ~Has(f[p], b)
  <2>1. ASSUME In(g, b) PROVE In(f, b) /\ ~Has(f[p], b)
    <3>1. PICK r \in P : \E k \in 1 .. Len(g[r]) : g[r][k] = b
      BY ONLY In(g, b), <1>1, Zenon DEF In
    <3>2. PICK k \in 1 .. Len(g[r]) : g[r][k] = b
      BY <3>1
    <3>3. r # p /\ k \in 1 .. Len(f[r]) /\ f[r][k] = b
      BY <1>2, <3>2
    <3> QED BY <1>1, <3>3 DEF In, Alone, Has
  <2>2. ASSUME In(f, b), ~Has(f[p], b) PROVE In(g, b)
    <3>1. PICK r \in P : \E k \in 1 .. Len(f[r]) : f[r][k] = b
      BY ONLY In(f, b), <1>1, Zenon DEF In
    <3> QED BY <1>1, <1>3, <2>2, <3>1 DEF In, Has
  <2> QED BY <2>1, <2>2
<1> QED BY <1>4, <1>5

(* A list gets new entries.                                                *)
Fills(P, B, f, p, h, g) ==
    /\ f \in [P -> Seq(B)] /\ g \in [P -> Seq(B)] /\ p \in P
    /\ f[p] = <<>> /\ g[p] = h /\ \A r \in P \ {p} : g[r] = f[r]
    /\ Distinct(h) /\ \A b : Has(h, b) => ~In(f, b)

LEMMA ListFilled ==
    ASSUME NEW P, NEW B, NEW f, NEW p, NEW h, NEW g, Fills(P, B, f, p, h, g), Alone(f)
    PROVE  Alone(g) /\ \A b : In(g, b) <=> In(f, b) \/ Has(h, b)
<1>1. DOMAIN f = P /\ DOMAIN g = P /\ g[p] = h /\ p \in P /\ \A r \in P \ {p} : g[r] = f[r]
    BY DEF Fills
<1>2. \A r \in P : \A k \in 1 .. Len(f[r]) : r # p
    BY DEF Fills
<1>f. Distinct(h) /\ \A b : Has(h, b) => ~In(f, b)
    BY DEF Fills
<1>3. \A i \in 1 .. Len(h) : \A r \in P : \A k \in 1 .. Len(f[r]) : h[i] # f[r][k]
    BY <1>1, <1>f DEF In, Has
<1>4. Alone(g)
  <2>1. ASSUME NEW r \in P, NEW s \in P, NEW k \in 1 .. Len(g[r]), NEW l \in 1 .. Len(g[s]), g[r][k] = g[s][l]
        PROVE  r = s /\ k = l
    <3>1. CASE r = p /\ s = p
      BY <1>1, <2>1, <3>1, <1>f DEF Distinct
    <3>2. CASE r # p /\ s = p
      BY <1>1, <1>3, <2>1, <3>2
    <3>3. CASE r = p /\ s # p
      BY <1>1, <1>3, <2>1, <3>3
    <3>4. CASE r # p /\ s # p
      BY <1>1, <2>1, <3>4 DEF Alone
    <3> QED BY <3>1, <3>2, <3>3, <3>4
  <2> QED BY <1>1, <2>1, Zenon DEF Alone
<1>5. \A b : In(g, b) <=> In(f, b) \/ Has(h, b)
    BY ONLY <1>1, <1>2 DEF In, Has
<1> QED BY <1>4, <1>5

(* What a tail and a concatenation have.                                   *)
LEMMA HasTail ==
    ASSUME NEW B, NEW s \in Seq(B), s # <<>>, Distinct(s)
    PROVE  \A b : Has(Tail(s), b) <=> Has(s, b) /\ b # Head(s)
<1>1. /\ Len(s) \in Nat /\ Len(s) > 0 /\ Len(Tail(s)) = Len(s) - 1 /\ Head(s) = s[1]
      /\ \A i \in 1 .. Len(Tail(s)) : Tail(s)[i] = s[i + 1]
    OBVIOUS
<1>2. \A i, j \in 1 .. Len(s) : s[i] = s[j] => i = j
    BY DEF Distinct
<1>3. ASSUME NEW b, Has(Tail(s), b) PROVE Has(s, b) /\ b # Head(s)
  <2>1. PICK i \in 1 .. Len(Tail(s)) : Tail(s)[i] = b
    BY <1>3 DEF Has
  <2>2. i + 1 \in 1 .. Len(s) /\ i + 1 # 1 /\ 1 \in 1 .. Len(s)
    BY ONLY <1>1, i \in 1 .. Len(Tail(s))
  <2>3. s[i + 1] = b
    BY <1>1, <2>1
  <2>4. b # s[1]
    BY ONLY <1>2, <2>2, <2>3
  <2> QED BY <1>1, <2>2, <2>3, <2>4 DEF Has
<1>4. ASSUME NEW b, Has(s, b), b # Head(s) PROVE Has(Tail(s), b)
  <2>1. PICK i \in 1 .. Len(s) : s[i] = b
    BY <1>4 DEF Has
  <2>2. i # 1
    BY <1>1, <1>4, <2>1
  <2>3. i - 1 \in 1 .. Len(Tail(s)) /\ (i - 1) + 1 = i
    BY ONLY <1>1, <2>2, i \in 1 .. Len(s)
  <2>4. Tail(s)[i - 1] = b
    BY <1>1, <2>1, <2>3
  <2> QED BY <2>3, <2>4 DEF Has
<1> QED BY <1>3, <1>4

LEMMA HasConcat ==
    ASSUME NEW B, NEW s \in Seq(B), NEW t \in Seq(B)
    PROVE  \A b : Has(s \o t, b) <=> Has(s, b) \/ Has(t, b)
<1> DEFINE c == s \o t
<1>1. /\ Len(s) \in Nat /\ Len(t) \in Nat /\ Len(c) = Len(s) + Len(t)
      /\ \A i \in 1 .. Len(s) : c[i] = s[i]
      /\ \A i \in 1 .. Len(t) : c[Len(s) + i] = t[i]
      /\ \A i \in 1 .. Len(s) + Len(t) :
            i \in 1 .. Len(s) \/ (i - Len(s) \in 1 .. Len(t) /\ c[i] = t[i - Len(s)])
    BY Concatenation, ZenonT(60)
<1> HIDE DEF c
<1>2. \A i \in 1 .. Len(s) : i \in 1 .. Len(c)
    BY ONLY <1>1
<1>3. \A i \in 1 .. Len(t) : Len(s) + i \in 1 .. Len(c)
    BY ONLY <1>1
<1> QED BY <1>1, <1>2, <1>3 DEF Has, c

LEMMA HasToSet ==
    ASSUME NEW B, NEW s \in Seq(B)
    PROVE  \A b : b \in ToSet(s) <=> Has(s, b)
<1>1. DOMAIN s = 1 .. Len(s)
    OBVIOUS
<1> QED BY <1>1 DEF ToSet, Has

-----------------------------------------------------------------------------

(* The family: the pool, each thread's line and each pushed line.          *)
Pool == <<"pool", "pool">>
LineOf(t) == <<"line", t>>
ItemsOf(r) == <<"items", r>>
Place == {Pool} \cup {LineOf(t) : t \in Line} \cup {ItemsOf(r) : r \in Record}

Laid(a, l, s) ==
    [p \in Place |-> IF p = Pool THEN a
                     ELSE IF \E t \in Line : p = LineOf(t) THEN l[p[2]] ELSE s[p[2]]]

Lists == Laid(available, line, items)

(* The places of the family differ.                                        *)
LEMMA Places ==
    /\ Pool \in Place
    /\ \A t \in Line : LineOf(t) \in Place /\ LineOf(t) # Pool
    /\ \A r \in Record : ItemsOf(r) \in Place /\ ItemsOf(r) # Pool
    /\ \A t \in Line, r \in Record : LineOf(t) # ItemsOf(r)
    /\ \A t, u \in Line : LineOf(t) = LineOf(u) => t = u
    /\ \A r, s \in Record : ItemsOf(r) = ItemsOf(s) => r = s
    /\ \A p \in Place : p = Pool \/ (\E t \in Line : p = LineOf(t)) \/ \E r \in Record : p = ItemsOf(r)
BY DEF Place, Pool, LineOf, ItemsOf

(* What the family has at a place.                                         *)
LEMMA LaidAt ==
    ASSUME NEW a, NEW l, NEW s
    PROVE  /\ Laid(a, l, s)[Pool] = a
           /\ \A t \in Line : Laid(a, l, s)[LineOf(t)] = l[t]
           /\ \A r \in Record : Laid(a, l, s)[ItemsOf(r)] = s[r]
<1>1. (\A t : LineOf(t)[2] = t) /\ (\A r : ItemsOf(r)[2] = r)
    BY DEF LineOf, ItemsOf
<1>2. Laid(a, l, s)[Pool] = a
    BY Places DEF Laid
<1>3. ASSUME NEW t \in Line PROVE Laid(a, l, s)[LineOf(t)] = l[t]
    BY <1>1, Places DEF Laid
<1>4. ASSUME NEW r \in Record PROVE Laid(a, l, s)[ItemsOf(r)] = s[r]
    BY <1>1, Places DEF Laid
<1> QED BY <1>2, <1>3, <1>4

LEMMA LaidTyped ==
    ASSUME NEW B, NEW a \in Seq(B), NEW l \in [Line -> Seq(B)], NEW s \in [Record -> Seq(B)]
    PROVE  Laid(a, l, s) \in [Place -> Seq(B)]
<1>1. Laid(a, l, s) = [p \in Place |-> Laid(a, l, s)[p]]
    BY DEF Laid
<1>2. ASSUME NEW p \in Place PROVE Laid(a, l, s)[p] \in Seq(B)
    BY LaidAt, Places
<1> QED BY <1>1, <1>2

(* The steps of the family: a line is pushed, ...                          *)
LEMMA Flushed ==
    ASSUME NEW B, NEW a \in Seq(B), NEW l \in [Line -> Seq(B)], NEW s \in [Record -> Seq(B)],
           Alone(Laid(a, l, s)), NEW t \in Line, NEW r \in Record, s[r] = <<>>
    PROVE  /\ Alone(Laid(a, [l EXCEPT ![t] = <<>>], [s EXCEPT ![r] = l[t]]))
           /\ \A b : In(Laid(a, [l EXCEPT ![t] = <<>>], [s EXCEPT ![r] = l[t]]), b) <=> In(Laid(a, l, s), b)
<1> SUFFICES ASSUME NEW l2, l2 = [l EXCEPT ![t] = <<>>], NEW s2, s2 = [s EXCEPT ![r] = l[t]]
             PROVE  Alone(Laid(a, l2, s2)) /\ \A b : In(Laid(a, l2, s2), b) <=> In(Laid(a, l, s), b)
    OBVIOUS
<1>0. /\ l2 \in [Line -> Seq(B)] /\ s2 \in [Record -> Seq(B)]
      /\ l2[t] = <<>> /\ \A u \in Line \ {t} : l2[u] = l[u]
      /\ s2[r] = l[t] /\ \A v \in Record \ {r} : s2[v] = s[v]
    OBVIOUS
<1> DEFINE f == Laid(a, l, s)  g == Laid(a, l2, s2)
<1>1. f \in [Place -> Seq(B)] /\ g \in [Place -> Seq(B)]
    BY <1>0, LaidTyped
<1>2. LineOf(t) \in Place /\ ItemsOf(r) \in Place /\ LineOf(t) # ItemsOf(r)
    BY Places
<1>3. /\ f[Pool] = a /\ \A u \in Line : f[LineOf(u)] = l[u]
      /\ \A v \in Record : f[ItemsOf(v)] = s[v]
    BY ONLY LaidAt
<1>4. /\ g[Pool] = a /\ \A u \in Line : g[LineOf(u)] = l2[u]
      /\ \A v \in Record : g[ItemsOf(v)] = s2[v]
    BY ONLY LaidAt
<1>5. Alone(f)
    OBVIOUS
<1> HIDE DEF f, g
<1>6. g[LineOf(t)] = <<>> /\ g[ItemsOf(r)] = f[ItemsOf(r)] \o f[LineOf(t)]
  <2>1. l[t] = <<>> \o l[t]
    OBVIOUS
  <2> QED BY <1>3, <1>4, <2>1
<1>7. ASSUME NEW p \in Place \ {LineOf(t), ItemsOf(r)} PROVE g[p] = f[p]
  <2>1. ASSUME NEW u \in Line, p = LineOf(u) PROVE g[p] = f[p]
    BY ONLY <1>0, <1>3, <1>4, <1>7, <2>1
  <2>2. ASSUME NEW v \in Record, p = ItemsOf(v) PROVE g[p] = f[p]
    BY ONLY <1>0, <1>3, <1>4, <1>7, <2>2
  <2> QED BY <1>3, <1>4, <2>1, <2>2, Places
<1>8. Alone(g) /\ \A b : In(g, b) <=> In(f, b)
  <2>1. Moves(Place, B, f, LineOf(t), ItemsOf(r), g)
    BY <1>1, <1>2, <1>6, <1>7 DEF Moves
  <2> QED BY <1>5, <2>1, ListMoved
<1> QED BY <1>8 DEF f, g

(* ... a pushed line goes to the pool, ...                                 *)
LEMMA Released ==
    ASSUME NEW B, NEW a \in Seq(B), NEW l \in [Line -> Seq(B)], NEW s \in [Record -> Seq(B)],
           NEW a2 \in Seq(B), NEW s2 \in [Record -> Seq(B)],
           Alone(Laid(a, l, s)), NEW r \in Record, a2 = a \o s[r], s2 = [s EXCEPT ![r] = <<>>]
    PROVE  /\ Alone(Laid(a2, l, s2))
           /\ \A b : In(Laid(a2, l, s2), b) <=> In(Laid(a, l, s), b)
<1> DEFINE f == Laid(a, l, s)  g == Laid(a2, l, s2)
<1>1. f \in [Place -> Seq(B)] /\ g \in [Place -> Seq(B)]
    BY LaidTyped
<1>3. /\ f[Pool] = a /\ \A u \in Line : f[LineOf(u)] = l[u]
      /\ \A v \in Record : f[ItemsOf(v)] = s[v]
    BY ONLY LaidAt
<1>4. /\ g[Pool] = a2 /\ \A u \in Line : g[LineOf(u)] = l[u]
      /\ \A v \in Record : g[ItemsOf(v)] = s2[v]
    BY ONLY LaidAt
<1>5. Alone(f)
    OBVIOUS
<1> HIDE DEF f, g
<1>2. Pool \in Place /\ ItemsOf(r) \in Place /\ ItemsOf(r) # Pool
    BY Places
<1>6. g[ItemsOf(r)] = <<>> /\ g[Pool] = f[Pool] \o f[ItemsOf(r)]
    BY <1>3, <1>4
<1>7. ASSUME NEW p \in Place \ {ItemsOf(r), Pool} PROVE g[p] = f[p]
    BY <1>3, <1>4, Places
<1>8. Alone(g) /\ \A b : In(g, b) <=> In(f, b)
  <2>1. Moves(Place, B, f, ItemsOf(r), Pool, g)
    BY <1>1, <1>2, <1>6, <1>7 DEF Moves
  <2> QED BY <1>5, <2>1, ListMoved
<1> QED BY <1>8 DEF f, g

(* ... is dropped, ...                                                     *)
LEMMA Dropped ==
    ASSUME NEW B, NEW a \in Seq(B), NEW l \in [Line -> Seq(B)], NEW s \in [Record -> Seq(B)],
           NEW s2 \in [Record -> Seq(B)],
           Alone(Laid(a, l, s)), NEW r \in Record, s2 = [s EXCEPT ![r] = <<>>]
    PROVE  /\ Alone(Laid(a, l, s2))
           /\ \A b : In(Laid(a, l, s2), b) <=> In(Laid(a, l, s), b) /\ ~Has(s[r], b)
<1> DEFINE f == Laid(a, l, s)  g == Laid(a, l, s2)
<1>1. f \in [Place -> Seq(B)] /\ g \in [Place -> Seq(B)]
    BY LaidTyped
<1>3. /\ f[Pool] = a /\ \A u \in Line : f[LineOf(u)] = l[u]
      /\ \A v \in Record : f[ItemsOf(v)] = s[v]
    BY ONLY LaidAt
<1>4. /\ g[Pool] = a /\ \A u \in Line : g[LineOf(u)] = l[u]
      /\ \A v \in Record : g[ItemsOf(v)] = s2[v]
    BY ONLY LaidAt
<1>5. Alone(f)
    OBVIOUS
<1> HIDE DEF f, g
<1>2. ItemsOf(r) \in Place /\ ItemsOf(r) # Pool
    BY Places
<1>6. g[ItemsOf(r)] = <<>> /\ f[ItemsOf(r)] = s[r]
    BY <1>3, <1>4
<1>7. ASSUME NEW p \in Place \ {ItemsOf(r)} PROVE g[p] = f[p]
    BY <1>3, <1>4, Places
<1>8. Alone(g) /\ \A b : In(g, b) <=> In(f, b) /\ ~Has(f[ItemsOf(r)], b)
  <2>1. Drops(Place, B, f, ItemsOf(r), g)
    BY <1>1, <1>2, <1>6, <1>7 DEF Drops
  <2> QED BY <1>5, <2>1, ListDropped
<1> QED BY <1>6, <1>8 DEF f, g

(* ... the pool, which is empty, gets new buffers, ...                     *)
LEMMA Filled ==
    ASSUME NEW B, NEW a \in Seq(B), NEW l \in [Line -> Seq(B)], NEW s \in [Record -> Seq(B)],
           NEW a2 \in Seq(B), a = <<>>,
           Alone(Laid(a, l, s)), Distinct(a2), \A b : Has(a2, b) => ~In(Laid(a, l, s), b)
    PROVE  /\ Alone(Laid(a2, l, s))
           /\ \A b : In(Laid(a2, l, s), b) <=> In(Laid(a, l, s), b) \/ Has(a2, b)
<1> DEFINE f == Laid(a, l, s)  g == Laid(a2, l, s)
<1>1. f \in [Place -> Seq(B)] /\ g \in [Place -> Seq(B)]
    BY LaidTyped
<1>3. /\ f[Pool] = a /\ \A u \in Line : f[LineOf(u)] = l[u]
      /\ \A v \in Record : f[ItemsOf(v)] = s[v]
    BY ONLY LaidAt
<1>4. /\ g[Pool] = a2 /\ \A u \in Line : g[LineOf(u)] = l[u]
      /\ \A v \in Record : g[ItemsOf(v)] = s[v]
    BY ONLY LaidAt
<1>5. Alone(f) /\ \A b : Has(a2, b) => ~In(f, b)
    OBVIOUS
<1> HIDE DEF f, g
<1>2. Pool \in Place
    BY Places
<1>6. f[Pool] = <<>> /\ g[Pool] = a2
    BY <1>3, <1>4
<1>7. ASSUME NEW p \in Place \ {Pool} PROVE g[p] = f[p]
    BY <1>3, <1>4, Places
<1>8. a2 \in Seq(B) /\ Distinct(a2)
    OBVIOUS
<1>9. Alone(f) /\ (\A b : Has(a2, b) => ~In(f, b)) /\ f[Pool] = <<>> /\ g[Pool] = a2 /\ a2 \in Seq(B) /\ Distinct(a2)
    BY <1>5, <1>6, <1>8
<1>10. Alone(g) /\ \A b : In(g, b) <=> In(f, b) \/ Has(a2, b)
  <2>1. Fills(Place, B, f, Pool, a2, g)
    BY <1>1, <1>2, <1>7, <1>9 DEF Fills
  <2> QED BY <1>5, <2>1, ListFilled
<1> QED BY <1>10 DEF f, g

(* ... and a thread gets the first of the pool.                            *)
LEMMA Handed ==
    ASSUME NEW B, NEW a \in Seq(B), NEW l \in [Line -> Seq(B)], NEW s \in [Record -> Seq(B)],
           Alone(Laid(a, l, s)), NEW t \in Line, a # <<>>
    PROVE  /\ Alone(Laid(Tail(a), [l EXCEPT ![t] = Append(l[t], Head(a))], s))
           /\ \A b : In(Laid(Tail(a), [l EXCEPT ![t] = Append(l[t], Head(a))], s), b) <=> In(Laid(a, l, s), b)
<1> SUFFICES ASSUME NEW a2, a2 = Tail(a), NEW l2, l2 = [l EXCEPT ![t] = Append(l[t], Head(a))]
             PROVE  Alone(Laid(a2, l2, s)) /\ \A b : In(Laid(a2, l2, s), b) <=> In(Laid(a, l, s), b)
    OBVIOUS
<1>0. /\ a2 \in Seq(B) /\ Head(a) \in B /\ l2 \in [Line -> Seq(B)]
      /\ l2[t] = Append(l[t], Head(a)) /\ \A u \in Line \ {t} : l2[u] = l[u]
    OBVIOUS
<1> DEFINE f == Laid(a, l, s)  g == Laid(a2, l2, s)
<1>1. f \in [Place -> Seq(B)] /\ g \in [Place -> Seq(B)]
    BY <1>0, LaidTyped
<1>3. /\ f[Pool] = a /\ \A u \in Line : f[LineOf(u)] = l[u]
      /\ \A v \in Record : f[ItemsOf(v)] = s[v]
    BY ONLY LaidAt
<1>4. /\ g[Pool] = a2 /\ \A u \in Line : g[LineOf(u)] = l2[u]
      /\ \A v \in Record : g[ItemsOf(v)] = s[v]
    BY ONLY LaidAt
<1>5. Alone(f)
    OBVIOUS
<1> HIDE DEF f, g
<1>2. Pool \in Place /\ LineOf(t) \in Place /\ LineOf(t) # Pool
    BY Places
<1>6. /\ f[Pool] # <<>> /\ g[Pool] = Tail(f[Pool])
      /\ g[LineOf(t)] = Append(f[LineOf(t)], Head(f[Pool]))
    BY <1>0, <1>3, <1>4
<1>7. ASSUME NEW p \in Place \ {LineOf(t), Pool} PROVE g[p] = f[p]
  <2>1. ASSUME NEW u \in Line, p = LineOf(u) PROVE g[p] = f[p]
    BY ONLY <1>0, <1>3, <1>4, <1>7, <2>1
  <2>2. ASSUME NEW v \in Record, p = ItemsOf(v) PROVE g[p] = f[p]
    BY ONLY <1>0, <1>3, <1>4, <1>7, <2>2
  <2> QED BY <1>3, <1>4, <1>7, <2>1, <2>2, Places
<1>8. Alone(g) /\ \A b : In(g, b) <=> In(f, b)
  <2>1. Hands(Place, B, f, Pool, LineOf(t), g)
    BY <1>1, <1>2, <1>6, <1>7 DEF Hands
  <2> QED BY <1>5, <2>1, ListHanded
<1> QED BY <1>8 DEF f, g

-----------------------------------------------------------------------------

Shapes ==
    /\ available \in Seq(Nat) /\ line \in [Line -> Seq(Nat)] /\ items \in [Record -> Seq(Nat)]
    /\ made \in Nat \ {0}

(* The buffers are in the lists, but for the lost; the pool has what is not*)
(* allocated.                                                              *)
Placed ==
    /\ Alone(Lists)
    /\ \A b : In(Lists, b) <=> b \in 1 .. made /\ b \notin lost
    /\ \A b : b \in allocated <=> b \in 1 .. made /\ ~Has(available, b)
    /\ lost \subseteq 1 .. made

(* A pushed line has buffers only while a thread, the queue or the worker  *)
(* has it.                                                                 *)
PushedHeld ==
    \A r \in Record : items[r] # <<>> =>
        \/ promise[r] \in {"accepted", "running"}
        \/ \E t \in Line : cpc[t] = "push" /\ pushing[t] = r

Lengths ==
    /\ \A t \in Line : Len(line[t]) \in 0 .. MaxPages
    /\ \A r \in Record : Len(items[r]) \in 0 .. MaxPages

(* The worker is at a place of its line.                                   *)
ItemFits ==
    /\ wpc[0] = "run" => item \in 0 .. Len(items[job[0]]) + 1
    /\ wpc[0] # "run" => item = 0

LInv == Shapes /\ Placed /\ PushedHeld /\ Lengths /\ ItemFits

(* What is in the pool is alone there, and not in a line that was pushed.  *)
LEMMA PoolFacts ==
    ASSUME NEW B, NEW a \in Seq(B), NEW l \in [Line -> Seq(B)], NEW s \in [Record -> Seq(B)],
           Alone(Laid(a, l, s))
    PROVE  /\ Distinct(a)
           /\ \A b : Has(a, b) => In(Laid(a, l, s), b)
           /\ \A r \in Record : \A b : Has(s[r], b) => In(Laid(a, l, s), b) /\ ~Has(a, b)
           /\ \A t \in Line : \A b : Has(l[t], b) => In(Laid(a, l, s), b) /\ ~Has(a, b)
<1> DEFINE f == Laid(a, l, s)
<1>1. f \in [Place -> Seq(B)]
    BY LaidTyped
<1>2. /\ f[Pool] = a /\ \A u \in Line : f[LineOf(u)] = l[u]
      /\ \A v \in Record : f[ItemsOf(v)] = s[v]
    BY ONLY LaidAt
<1>3. Alone(f)
    OBVIOUS
<1> HIDE DEF f
<1>4. DOMAIN f = Place
    BY <1>1
<1>5. Distinct(a)
    BY <1>2, <1>3, <1>4, Places DEF Distinct, Alone
<1>6. \A p \in Place : \A b : Has(f[p], b) => In(f, b)
    BY <1>4 DEF Has, In
<1>7. \A p, q \in Place : \A b : Has(f[p], b) /\ Has(f[q], b) => p = q
    BY <1>3, <1>4 DEF Has, Alone
<1>8. \A r \in Record : \A b : Has(s[r], b) => In(f, b) /\ ~Has(a, b)
    BY <1>2, <1>6, <1>7, Places
<1>9. \A t \in Line : \A b : Has(l[t], b) => In(f, b) /\ ~Has(a, b)
    BY <1>2, <1>6, <1>7, Places
<1>10. \A b : Has(a, b) => In(f, b)
    BY <1>2, <1>6, Places
<1> QED BY <1>5, <1>8, <1>9, <1>10 DEF f

(* What malloc takes from: the pool, filled when it is empty.              *)
LEMMA BuffersMade ==
    ASSUME Shapes, Placed
    PROVE  /\ fillCount \in Nat /\ buffers \in Seq(Nat) /\ buffers # <<>>
           /\ \A b : Has(buffers, b) <=> Has(available, b) \/ b \in made + 1 .. made + fillCount
           /\ Alone(Laid(buffers, line, items))
           /\ \A b : In(Laid(buffers, line, items), b) <=> b \in 1 .. made + fillCount /\ b \notin lost
<1> DEFINE more == [i \in 1 .. fillCount |-> made + i]
<1>1. buffers = available \o more /\ made \in Nat /\ made # 0 /\ available \in Seq(Nat)
    BY DEF buffers, Shapes
<1>2. CASE available # <<>>
  <2>1. fillCount = 0
    BY <1>2 DEF fillCount
  <2>2. more = <<>>
    BY <2>1
  <2> HIDE DEF more
  <2>3. buffers = available
    <3>1. available \o <<>> = available
      BY <1>1
    <3> QED BY <1>1, <2>2, <3>1
  <2>4. \A b : b \notin made + 1 .. made + fillCount
    BY <1>1, <2>1
  <2>5. made + fillCount = made
    BY <1>1, <2>1
  <2> QED BY <1>1, <1>2, <2>1, <2>3, <2>4, <2>5 DEF Placed, Lists
<1>3. CASE available = <<>>
  <2>1. \A b : ~Has(available, b)
    BY <1>3 DEF Has
  <2>2. allocated = 1 .. made
    BY <2>1 DEF Placed
  <2>3. fillCount = made
    <3>1. Cardinality(1 .. made) = made
      BY <1>1, FS_Interval
    <3> QED BY <1>3, <2>2, <3>1 DEF fillCount
  <2>4. more \in Seq(Nat) /\ Len(more) = made /\ \A i \in 1 .. made : more[i] = made + i
    BY <1>1, <2>3
  <2>5. buffers = more
    BY <1>1, <1>3, <2>4
  <2> HIDE DEF more
  <2>6. ASSUME NEW b PROVE Has(more, b) <=> b \in made + 1 .. made + made
    <3>1. ASSUME NEW i \in 1 .. made PROVE more[i] \in made + 1 .. made + made
      BY <1>1, <2>4
    <3>2. ASSUME b \in made + 1 .. made + made PROVE b - made \in 1 .. made /\ more[b - made] = b
      BY <1>1, <2>4, <3>2
    <3> QED BY <2>4, <3>1, <3>2 DEF Has
  <2>7. Distinct(more)
    BY <1>1, <2>4 DEF Distinct
  <2>8. \A b : Has(more, b) => ~In(Laid(available, line, items), b)
    <3>1. \A b : b \in made + 1 .. made + made => b \notin 1 .. made
      BY <1>1
    <3> QED BY <2>6, <3>1 DEF Placed, Lists
  <2>9. /\ Alone(Laid(more, line, items))
        /\ \A b : In(Laid(more, line, items), b) <=> In(Laid(available, line, items), b) \/ Has(more, b)
    BY <1>1, <1>3, <2>4, <2>7, <2>8, Filled DEF Shapes, Placed, Lists
  <2>10. \A b : b \in 1 .. made + made <=> b \in 1 .. made \/ b \in made + 1 .. made + made
    BY <1>1
  <2>11. \A b : b \in made + 1 .. made + made => b \notin lost
    BY <1>1 DEF Placed
  <2>12. \A b : In(Laid(more, line, items), b) <=> b \in 1 .. made + made /\ b \notin lost
    BY <2>6, <2>9, <2>10, <2>11 DEF Placed, Lists
  <2>13. more # <<>>
    BY <1>1, <2>4
  <2> QED BY <1>1, <2>1, <2>3, <2>4, <2>5, <2>6, <2>9, <2>12, <2>13
<1> QED BY <1>2, <1>3

(* A thread takes a buffer for its line.                                   *)
LEMMA WritePlaces ==
    ASSUME Shapes, Placed, NEW t \in Line, LogWrite(t)
    PROVE  Shapes' /\ Placed'
<1>1. /\ available' = Tail(buffers) /\ allocated' = allocated \cup {Head(buffers)}
      /\ made' = made + fillCount /\ line' = [line EXCEPT ![t] = Append(@, Head(buffers))]
      /\ items' = items /\ lost' = lost
    BY DEF LogWrite, malloc, mallocLeaving, messages
<1>2. /\ available \in Seq(Nat) /\ line \in [Line -> Seq(Nat)] /\ items \in [Record -> Seq(Nat)]
      /\ made \in Nat /\ made # 0
    BY DEF Shapes
<1>3. /\ fillCount \in Nat /\ buffers \in Seq(Nat) /\ buffers # <<>>
      /\ \A b : Has(buffers, b) <=> Has(available, b) \/ b \in made + 1 .. made + fillCount
      /\ Alone(Laid(buffers, line, items))
      /\ \A b : In(Laid(buffers, line, items), b) <=> b \in 1 .. made + fillCount /\ b \notin lost
    BY BuffersMade
<1>4. Tail(buffers) \in Seq(Nat) /\ Head(buffers) \in Nat /\ line' \in [Line -> Seq(Nat)]
    BY <1>1, <1>2, <1>3
<1>5. made' \in Nat \ {0} /\ lost' \subseteq 1 .. made'
    BY <1>1, <1>2, <1>3 DEF Placed
<1>6. /\ Alone(Laid(Tail(buffers), line', items))
      /\ \A b : In(Laid(Tail(buffers), line', items), b) <=> In(Laid(buffers, line, items), b)
    BY <1>1, <1>2, <1>3, <1>4, Handed
<1>7. Distinct(buffers)
    BY <1>2, <1>3, PoolFacts
<1>8. \A b : Has(Tail(buffers), b) <=> Has(buffers, b) /\ b # Head(buffers)
    BY <1>3, <1>7, HasTail
<1>9. Has(buffers, Head(buffers))
  <2>1. Head(buffers) = buffers[1] /\ 1 \in 1 .. Len(buffers)
    BY <1>3
  <2> QED BY <2>1 DEF Has
<1>10. Head(buffers) \in 1 .. made + fillCount
    BY <1>2, <1>3, <1>9, PoolFacts
<1>11. \A b : b \in 1 .. made + fillCount <=> b \in 1 .. made \/ b \in made + 1 .. made + fillCount
    BY <1>2, <1>3
<1>12. \A b : b \in 1 .. made => b \notin made + 1 .. made + fillCount
    BY <1>2, <1>3
<1>13. \A b : b \in allocated' <=> b \in 1 .. made' /\ ~Has(available', b)
  <2>1. \A b : b \in allocated <=> b \in 1 .. made /\ ~Has(available, b)
    BY DEF Placed
  <2>2. \A b : b \in allocated' <=> b \in allocated \/ b = Head(buffers)
    BY <1>1
  <2>3. made' = made + fillCount /\ available' = Tail(buffers)
    BY <1>1
  <2> HIDE DEF fillCount, buffers
  <2>4. ASSUME NEW b PROVE b \in allocated' <=> b \in 1 .. made + fillCount /\ ~Has(Tail(buffers), b)
    <3>1. Has(available, b) => Has(buffers, b)
      BY <1>3
    <3>2. CASE b \in 1 .. made
      <4>1. Has(buffers, b) <=> Has(available, b)
        BY <1>3, <1>12, <3>2
      <4> QED BY <1>8, <1>11, <2>1, <2>2, <3>2, <4>1, Zenon
    <3>3. CASE b \notin 1 .. made /\ b \in made + 1 .. made + fillCount
      <4>1. Has(buffers, b)
        BY <1>3, <3>3
      <4> QED BY <1>8, <1>11, <2>1, <2>2, <3>3, <4>1, Zenon
    <3>4. CASE b \notin 1 .. made /\ b \notin made + 1 .. made + fillCount
      BY <1>10, <1>11, <2>1, <2>2, <3>4, Zenon
    <3> QED BY <3>2, <3>3, <3>4, Zenon
  <2> QED BY <2>3, <2>4
<1>14. Lists' = Laid(Tail(buffers), line', items)
    BY <1>1 DEF Lists
<1>15. \A b : In(Lists', b) <=> b \in 1 .. made' /\ b \notin lost'
    BY <1>1, <1>3, <1>6, <1>14
<1>16. Shapes'
    BY <1>1, <1>2, <1>4, <1>5 DEF Shapes
<1> QED BY <1>5, <1>6, <1>13, <1>14, <1>15, <1>16 DEF Placed

(* A line is pushed: its buffers go with it.                               *)
LEMMA FlushPlaces ==
    ASSUME Shapes, Placed, NEW t \in Line, record[t] \in Record, items[record[t]] = <<>>, LogFlush(t)
    PROVE  Shapes' /\ Placed'
<1>1. /\ available' = available /\ allocated' = allocated /\ made' = made /\ lost' = lost
      /\ line' = [line EXCEPT ![t] = <<>>] /\ items' = [items EXCEPT ![record[t]] = line[t]]
    BY DEF LogFlush, pool
<1>2. /\ available \in Seq(Nat) /\ line \in [Line -> Seq(Nat)] /\ items \in [Record -> Seq(Nat)]
      /\ made \in Nat \ {0} /\ Alone(Laid(available, line, items))
    BY DEF Shapes, Placed, Lists
<1>3. line' \in [Line -> Seq(Nat)] /\ items' \in [Record -> Seq(Nat)]
    BY <1>1, <1>2
<1>4. /\ Alone(Laid(available, line', items'))
      /\ \A b : In(Laid(available, line', items'), b) <=> In(Laid(available, line, items), b)
    BY <1>1, <1>2, <1>3, Flushed
<1>5. Shapes'
    BY <1>1, <1>2, <1>3 DEF Shapes
<1> QED BY <1>1, <1>4, <1>5 DEF Placed, Lists

(* The loop refuses a line: its buffers are lost.                          *)
LEMMA RefusedPlaces ==
    ASSUME Shapes, Placed, NEW r \in Record, items' = [items EXCEPT ![r] = <<>>],
           lost' = lost \cup ToSet(items[r]), UNCHANGED <<pool, line>>
    PROVE  Shapes' /\ Placed'
<1>1. /\ available \in Seq(Nat) /\ line \in [Line -> Seq(Nat)] /\ items \in [Record -> Seq(Nat)]
      /\ made \in Nat \ {0} /\ Alone(Laid(available, line, items))
      /\ items[r] \in Seq(Nat) /\ items' \in [Record -> Seq(Nat)]
    BY DEF Shapes, Placed, Lists
<1>2. /\ Alone(Laid(available, line, items'))
      /\ \A b : In(Laid(available, line, items'), b) <=> In(Laid(available, line, items), b) /\ ~Has(items[r], b)
    BY <1>1, Dropped
<1>3. \A b : b \in lost' <=> b \in lost \/ Has(items[r], b)
    BY <1>1, HasToSet
<1>4. \A b : Has(items[r], b) => In(Laid(available, line, items), b)
    BY <1>1, PoolFacts
<1>5. available' = available /\ line' = line /\ made' = made /\ allocated' = allocated
    BY DEF pool
<1>6. lost' \subseteq 1 .. made
    BY <1>3, <1>4 DEF Placed, Lists
<1>7. \A b : In(Lists', b) <=> b \in 1 .. made /\ b \notin lost'
    BY <1>2, <1>3, <1>5 DEF Placed, Lists
<1> QED BY <1>1, <1>2, <1>5, <1>6, <1>7 DEF Shapes, Placed, Lists

(* The worker releases a line: all its buffers go to the pool.             *)
LEMMA ReleasePlaces ==
    ASSUME Shapes, Placed, NEW r \in Record, release(items[r]), items' = [items EXCEPT ![r] = <<>>],
           UNCHANGED <<line, lost>>
    PROVE  Shapes' /\ Placed'
<1>1. /\ available \in Seq(Nat) /\ line \in [Line -> Seq(Nat)] /\ items \in [Record -> Seq(Nat)]
      /\ made \in Nat \ {0} /\ Alone(Laid(available, line, items))
      /\ items[r] \in Seq(Nat) /\ items' \in [Record -> Seq(Nat)]
    BY DEF Shapes, Placed, Lists
<1>2. \A b : b \in ToSet(items[r]) <=> Has(items[r], b)
    BY <1>1, HasToSet
<1>3. \A b : Has(items[r], b) => In(Laid(available, line, items), b) /\ ~Has(available, b)
    BY <1>1, PoolFacts
<1>4. ToSet(items[r]) \subseteq allocated
    BY <1>2, <1>3 DEF Placed, Lists
<1>5. available' = available \o items[r] /\ allocated' = allocated \ ToSet(items[r]) /\ made' = made
    BY <1>4, Zenon DEF release
<1>6. available' \in Seq(Nat)
    BY <1>1, <1>5
<1>7. /\ Alone(Laid(available', line, items'))
      /\ \A b : In(Laid(available', line, items'), b) <=> In(Laid(available, line, items), b)
    BY <1>1, <1>5, <1>6, Released
<1>8. \A b : Has(available', b) <=> Has(available, b) \/ Has(items[r], b)
    BY <1>1, <1>5, HasConcat
<1>9. \A b : b \in allocated' <=> b \in 1 .. made /\ ~Has(available', b)
    BY <1>2, <1>5, <1>8 DEF Placed
<1> QED BY <1>1, <1>5, <1>6, <1>7, <1>9 DEF Shapes, Placed, Lists

-----------------------------------------------------------------------------

(* A step that leaves pool and lines alone.                                *)
LEMMA PlacesKept ==
    ASSUME Shapes, Placed, UNCHANGED <<pool, line, items, lost>>
    PROVE  Shapes' /\ Placed'
<1>1. /\ available' = available /\ allocated' = allocated /\ made' = made /\ line' = line /\ items' = items
      /\ lost' = lost
    BY DEF pool
<1> QED BY <1>1 DEF Shapes, Placed, Lists

(* The loop's queue is a sequence of records.                              *)
LEMMA QueueTyped == ASSUME Group!IInv PROVE queue[0] \in Seq(Record) /\ Loop!get_queue(0) = 0
<1>1. Group!TypeOK
    BY DEF Group!IInv
<1>2. 0 \in Group!Queue
    BY DEF Group!Queue, Group!Worker, Group!get_queue
<1> QED BY <1>1, <1>2 DEF Group!TypeOK, Loop!get_queue

(* Who waits, is notified; the worker that runs a task runs on.            *)
LEMMA Notified ==
    ASSUME Group!IInv, NEW q, Loop!NotifyAll(q) \/ UNCHANGED wpc
    PROVE  wpc'[0] = "run" <=> wpc[0] = "run"
<1>1. 0 \in Loop!Worker
    BY DEF Loop!Worker
<1> QED BY <1>1 DEF Loop!NotifyAll

Held == PushedHeld /\ Lengths /\ ItemFits

(* What each step leaves of a line that was pushed, and of the worker.     *)
LEMMA WriteHeld == ASSUME LInv, NEW t \in Line, LogWrite(t) PROVE Held'
<1>1. /\ Len(line[t]) < MaxPages /\ line' = [line EXCEPT ![t] = Append(@, Head(buffers))]
      /\ UNCHANGED <<items, item, loopVars>>
    BY DEF LogWrite, messages
<1>2. MaxPages \in Nat /\ line \in [Line -> Seq(Nat)] /\ Len(line[t]) \in 0 .. MaxPages
    BY PoolAssumption DEF LInv, Shapes, Lengths
<1>3. line[t] \in Seq(Nat) /\ line'[t] = Append(line[t], Head(buffers))
    BY <1>1, <1>2
<1>4. Len(line'[t]) \in 0 .. MaxPages
  <2>1. Len(line'[t]) = Len(line[t]) + 1
    BY <1>3
  <2> QED BY <1>1, <1>2, <2>1
<1>5. ASSUME NEW u \in Line PROVE Len(line'[u]) \in 0 .. MaxPages
    BY <1>1, <1>2, <1>4 DEF LInv, Lengths
<1>6. items' = items /\ item' = item /\ wpc' = wpc /\ cpc' = cpc /\ pushing' = pushing /\ promise' = promise
      /\ job' = job
    BY <1>1 DEF loopVars
<1> QED BY <1>5, <1>6 DEF Held, LInv, PushedHeld, Lengths, ItemFits

(* A line is pushed once: its record had no buffers.                       *)
LEMMA FlushFacts ==
    ASSUME Group!IInv, LInv, NEW t \in Line, LogFlush(t)
    PROVE  /\ record[t] \in Record /\ promise[record[t]] = "new" /\ items[record[t]] = <<>>
           /\ cpc[t] = "idle" /\ cpc' = [cpc EXCEPT ![t] = "push"] /\ pushing' = [pushing EXCEPT ![t] = record[t]]
           /\ UNCHANGED <<promise, wpc, job>>
<1>1. /\ cpc[t] = "idle" /\ cpc' = [cpc EXCEPT ![t] = "push"]
      /\ UNCHANGED <<promise, wpc, job>>
    BY DEF LogFlush, Loop!PushDispatch, Loop!workers
<1>2. PICK m \in Record : /\ promise[m] = "new"
                          /\ \A d \in Line \cup {Owner} : pushing[d] # m
                          /\ pushing' = [pushing EXCEPT ![t] = m]
    BY DEF LogFlush, Loop!PushDispatch
<1>3. pushing \in [Line \cup {Owner} -> Record \cup {None}]
    BY LoopFacts
<1>4. pushing'[t] = m /\ pushing'[t] = record[t]
    BY <1>2, <1>3 DEF LogFlush
<1>5. items[m] = <<>>
    BY <1>2 DEF LInv, PushedHeld
<1> QED BY <1>1, <1>2, <1>4, <1>5

LEMMA FlushHeld == ASSUME Group!IInv, LInv, NEW t \in Line, LogFlush(t) PROVE Held'
<1> DEFINE r == record[t]
<1>1. /\ r \in Record /\ promise[r] = "new" /\ items[r] = <<>>
      /\ cpc[t] = "idle" /\ cpc' = [cpc EXCEPT ![t] = "push"] /\ pushing' = [pushing EXCEPT ![t] = r]
      /\ UNCHANGED <<promise, wpc, job>>
    BY FlushFacts
<1>2. /\ items' = [items EXCEPT ![r] = line[t]] /\ line' = [line EXCEPT ![t] = <<>>] /\ item' = item
    BY DEF LogFlush
<1> HIDE DEF r
<1>3. /\ line \in [Line -> Seq(Nat)] /\ items \in [Record -> Seq(Nat)]
      /\ Len(line[t]) \in 0 .. MaxPages /\ MaxPages \in Nat
      /\ cpc \in [Line \cup {Owner} -> {"idle", "push", "stop", "join", "stopped"}]
      /\ pushing \in [Line \cup {Owner} -> Record \cup {None}]
    BY LoopFacts, PoolAssumption DEF LInv, Shapes, Lengths
<1>4. PushedHeld'
  <2> SUFFICES ASSUME NEW v \in Record, items'[v] # <<>>
               PROVE  \/ promise'[v] \in {"accepted", "running"}
                      \/ \E u \in Line : cpc'[u] = "push" /\ pushing'[u] = v
      BY DEF PushedHeld
  <2>1. CASE v = r
    BY <1>1, <1>3, <2>1
  <2>2. CASE v # r /\ promise[v] \in {"accepted", "running"}
    BY <1>1, <2>2
  <2>3. CASE v # r /\ promise[v] \notin {"accepted", "running"}
    <3>1. items[v] # <<>>
      BY <1>2, <1>3, <2>3
    <3>2. PICK u \in Line : cpc[u] = "push" /\ pushing[u] = v
      BY <2>3, <3>1 DEF LInv, PushedHeld
    <3>3. u # t
      BY <1>1, <3>2
    <3> QED BY <1>1, <3>2, <3>3
  <2> QED BY <2>1, <2>2, <2>3
<1>5. Lengths'
  <2>1. ASSUME NEW u \in Line PROVE Len(line'[u]) \in 0 .. MaxPages
    BY <1>2, <1>3 DEF LInv, Lengths
  <2>2. ASSUME NEW v \in Record PROVE Len(items'[v]) \in 0 .. MaxPages
    BY <1>2, <1>3 DEF LInv, Lengths
  <2> QED BY <2>1, <2>2 DEF Lengths
<1>6. ItemFits'
  <2>1. wpc[0] = "run" => job[0] # r
    BY <1>1, LoopFacts
  <2>2. wpc[0] = "run" => job[0] \in Record
    BY LoopFacts
  <2>3. wpc[0] = "run" => items'[job[0]] = items[job[0]]
    BY <1>2, <1>3, <2>1, <2>2
  <2> QED BY <1>1, <1>2, <2>3 DEF LInv, ItemFits
<1> QED BY <1>4, <1>5, <1>6 DEF Held

(* A push hands the loop a new record, which it accepts or refuses.        *)
LEMMA PushFacts ==
    ASSUME Group!IInv, NEW t \in Line, LogPush(t)
    PROVE  /\ pushing[t] \in Record /\ promise[pushing[t]] = "new"
           /\ cpc' = [cpc EXCEPT ![t] = "idle"] /\ pushing' = [pushing EXCEPT ![t] = None]
           /\ job' = job /\ (wpc'[0] = "run" <=> wpc[0] = "run") /\ item' = item /\ line' = line /\ UNCHANGED pool
           /\ \/ /\ promise' = [promise EXCEPT ![pushing[t]] = "accepted"] /\ UNCHANGED <<items, lost>>
              \/ /\ promise' = [promise EXCEPT ![pushing[t]] = "refused"]
                 /\ lost' = lost \cup ToSet(items[pushing[t]])
                 /\ items' = [items EXCEPT ![pushing[t]] = <<>>]
<1>1. /\ cpc[t] = "push" /\ cpc' = [cpc EXCEPT ![t] = "idle"] /\ pushing' = [pushing EXCEPT ![t] = None]
      /\ job' = job
      /\ \/ /\ ~Loop!push_stopped(target[t]) /\ promise' = [promise EXCEPT ![pushing[t]] = "accepted"]
            /\ Loop!NotifyAll(target[t])
         \/ /\ Loop!push_stopped(target[t]) /\ promise' = [promise EXCEPT ![pushing[t]] = "refused"]
            /\ UNCHANGED wpc
    BY DEF LogPush, Loop!PushQueue
<1>2. /\ IF Loop!push_stopped(target[t])
         THEN /\ lost' = lost \cup ToSet(items[pushing[t]])
              /\ items' = [items EXCEPT ![pushing[t]] = <<>>]
         ELSE UNCHANGED <<items, lost>>
      /\ UNCHANGED pool /\ line' = line /\ item' = item
    BY DEF LogPush, lines
<1>3. wpc'[0] = "run" <=> wpc[0] = "run"
    BY <1>1, Notified
<1>4. pushing[t] \in Record /\ promise[pushing[t]] = "new"
    BY <1>1, LoopFacts, NoneAssumption
<1> QED BY <1>1, <1>2, <1>3, <1>4

LEMMA PushHeld == ASSUME Group!IInv, LInv, NEW t \in Line, LogPush(t) PROVE Held'
<1> DEFINE r == pushing[t]
<1>1. /\ r \in Record /\ promise[r] = "new"
      /\ cpc' = [cpc EXCEPT ![t] = "idle"] /\ pushing' = [pushing EXCEPT ![t] = None]
      /\ job' = job /\ (wpc'[0] = "run" <=> wpc[0] = "run") /\ item' = item /\ line' = line
    BY PushFacts
<1>2. \/ /\ promise' = [promise EXCEPT ![r] = "accepted"] /\ UNCHANGED <<items, lost>>
      \/ /\ promise' = [promise EXCEPT ![r] = "refused"]
         /\ items' = [items EXCEPT ![r] = <<>>]
    BY PushFacts
<1> HIDE DEF r
<1>3. /\ items \in [Record -> Seq(Nat)] /\ MaxPages \in Nat
      /\ cpc \in [Line \cup {Owner} -> {"idle", "push", "stop", "join", "stopped"}]
      /\ pushing \in [Line \cup {Owner} -> Record \cup {None}]
      /\ promise \in [Record -> {"new", "refused", "value", "exception", "abandoned", "accepted", "running"}]
    BY LoopFacts, PoolAssumption DEF LInv, Shapes
<1>4. PushedHeld'
  <2> SUFFICES ASSUME NEW v \in Record, items'[v] # <<>>
               PROVE  \/ promise'[v] \in {"accepted", "running"}
                      \/ \E u \in Line : cpc'[u] = "push" /\ pushing'[u] = v
      BY DEF PushedHeld
  <2>1. CASE v = r
    BY <1>1, <1>2, <1>3, <2>1
  <2>2. CASE v # r
    <3>1. items[v] # <<>> /\ promise'[v] = promise[v]
      BY <1>2, <1>3, <2>2
    <3>2. ASSUME NEW u \in Line, cpc[u] = "push", pushing[u] = v PROVE cpc'[u] = "push" /\ pushing'[u] = v
      <4>1. u # t
        BY <2>2, <3>2 DEF r
      <4> QED BY <1>1, <1>3, <3>2, <4>1
    <3> QED BY <3>1, <3>2 DEF LInv, PushedHeld
  <2> QED BY <2>1, <2>2
<1>5. ASSUME NEW v \in Record PROVE items'[v] = items[v] \/ (v = r /\ items'[v] = <<>>)
    BY <1>2, <1>3
<1>6. Lengths'
  <2>1. ASSUME NEW v \in Record PROVE Len(items'[v]) \in 0 .. MaxPages
    BY <1>3, <1>5 DEF LInv, Lengths
  <2> QED BY <1>1, <2>1 DEF LInv, Lengths
<1>7. ItemFits'
  <2>1. wpc[0] = "run" => job[0] # r /\ job[0] \in Record
    BY <1>1, LoopFacts
  <2>2. wpc[0] = "run" => items'[job[0]] = items[job[0]]
    BY <1>5, <2>1
  <2> QED BY <1>1, <2>2 DEF LInv, ItemFits
<1> QED BY <1>4, <1>6, <1>7 DEF Held

(* A step of the loop that leaves the lines alone.                         *)
LEMMA LoopHeld ==
    ASSUME LInv, UNCHANGED <<items, line, item>>,
           \A v \in Record : promise[v] \in {"accepted", "running"} => promise'[v] \in {"accepted", "running"},
           \A u \in Line : cpc[u] = "push" => cpc'[u] = "push" /\ pushing'[u] = pushing[u],
           wpc[0] = "run" => wpc'[0] = "run" /\ job'[0] = job[0],
           wpc'[0] = "run" /\ wpc[0] # "run" => job'[0] \in Record
    PROVE  Held'
<1>1. PushedHeld'
  <2> SUFFICES ASSUME NEW v \in Record, items[v] # <<>>
               PROVE  \/ promise'[v] \in {"accepted", "running"}
                      \/ \E u \in Line : cpc'[u] = "push" /\ pushing'[u] = v
      BY DEF PushedHeld
  <2>1. \/ promise[v] \in {"accepted", "running"}
        \/ \E u \in Line : cpc[u] = "push" /\ pushing[u] = v
    BY DEF LInv, PushedHeld
  <2> QED BY <2>1
<1>2. Lengths'
    BY DEF LInv, Lengths
<1>3. ItemFits'
  <2>1. \A v \in Record : Len(items[v]) \in Nat
    BY DEF LInv, Shapes
  <2>2. CASE wpc[0] = "run"
    BY <2>2 DEF LInv, ItemFits
  <2>3. CASE wpc[0] # "run" /\ wpc'[0] = "run"
    <3>1. item' = 0 /\ Len(items[job'[0]]) \in Nat
      BY <2>1, <2>3 DEF LInv, ItemFits
    <3>2. item' \in 0 .. Len(items'[job'[0]]) + 1
      BY <3>1
    <3> QED BY <2>3, <3>2 DEF ItemFits
  <2>4. CASE wpc[0] # "run" /\ wpc'[0] # "run"
    BY <2>4 DEF LInv, ItemFits
  <2> QED BY <2>2, <2>3, <2>4
<1> QED BY <1>1, <1>2, <1>3 DEF Held

LEMMA StartHeld == ASSUME Group!IInv, LInv, start PROVE Held'
<1>1. CASE UNCHANGED loopVars
    BY <1>1, LoopHeld DEF start, lines, messages, loopVars
<1>2. CASE Loop!StartThread
  <2>1. /\ started < 1 /\ wpc' = [wpc EXCEPT ![started] = "pop"]
        /\ UNCHANGED <<promise, cpc, pushing, job>>
    BY <1>2 DEF Loop!StartThread, Loop!clients
  <2>2. wpc[0] = "unborn" /\ wpc'[0] = "pop"
    BY <2>1, LoopFacts
  <2> QED BY <2>1, <2>2, LoopHeld DEF start, lines, messages
<1> QED BY <1>1, <1>2 DEF start

LEMMA StopHeld == ASSUME Group!IInv, LInv, StopLoop PROVE Held'
<1>1. UNCHANGED <<items, line, item>>
    BY DEF StopLoop, lines, messages
<1>2. cpc[Owner] # "push" /\ UNCHANGED <<promise, pushing, job>> /\ (wpc'[0] = "run" <=> wpc[0] = "run")
      /\ \A u \in Line : cpc'[u] = cpc[u]
  <2>1. cpc \in [Line \cup {Owner} -> {"idle", "push", "stop", "join", "stopped"}]
    BY LoopFacts
  <2>2. CASE Loop!StopFlag(Owner)
    BY <2>1, <2>2, ThreadAssumption DEF Loop!StopFlag, Loop!workers
  <2>3. CASE Loop!StopQueue(Owner)
    <3>1. wpc'[0] = "run" <=> wpc[0] = "run"
      <4>1. Loop!NotifyAll(Loop!get_queue(next[Owner])) \/ UNCHANGED wpc
        BY <2>3 DEF Loop!StopQueue
      <4> QED BY <4>1, Notified
    <3> QED BY <2>1, <2>3, <3>1, ThreadAssumption DEF Loop!StopQueue
  <2>4. CASE Loop!Join(Owner)
    BY <2>1, <2>4, ThreadAssumption DEF Loop!Join, Loop!workers
  <2> QED BY <2>2, <2>3, <2>4 DEF StopLoop
<1> QED BY <1>1, <1>2, LoopHeld

LEMMA WorkerHeld == ASSUME Group!IInv, LInv, WorkerLoop PROVE Held'
<1>1. UNCHANGED <<items, line, item>>
    BY DEF WorkerLoop, lines, messages
<1>2. /\ wpc \in [0 .. 0 -> {"unborn", "pop", "wait", "run", "clear", "done"}]
      /\ promise \in [Record -> {"new", "refused", "value", "exception", "abandoned", "accepted", "running"}]
      /\ job \in [0 .. 0 -> Record \cup {None}]
  <2>1. Group!TypeOK
    BY DEF Group!IInv
  <2> QED BY <2>1, LoopFacts DEF Group!TypeOK, Group!Worker
<1>3. UNCHANGED <<cpc, pushing>>
    BY DEF WorkerLoop, Loop!PopTask, Loop!PopWait, Loop!WaitTimeout, Loop!PopStopped, Loop!ClearQueue, Loop!clients
<1>4. CASE Loop!PopTask(0)
  <2>1. Loop!Popped(0).task \in Record
    BY <1>4, QueueTyped DEF Loop!PopTask, Loop!Popped
  <2>2. /\ wpc[0] = "pop" /\ job' = [job EXCEPT ![0] = Loop!Popped(0).task]
        /\ promise' = [promise EXCEPT ![Loop!Popped(0).task] = "running"]
    BY <1>4, QueueTyped DEF Loop!PopTask
  <2> HIDE DEF Loop!Popped
  <2>3. job'[0] \in Record
    BY <1>2, <2>1, <2>2
  <2>4. \A v \in Record : promise[v] \in {"accepted", "running"} => promise'[v] \in {"accepted", "running"}
    BY <1>2, <2>2
  <2> QED BY <1>1, <1>3, <2>2, <2>3, <2>4, LoopHeld
<1>5. CASE Loop!PopWait(0) \/ Loop!WaitTimeout(0) \/ Loop!PopStopped(0)
  <2>1. wpc[0] # "run" /\ wpc'[0] # "run" /\ promise' = promise
    BY <1>2, <1>5 DEF Loop!PopWait, Loop!WaitTimeout, Loop!PopStopped
  <2> QED BY <1>1, <1>3, <2>1, LoopHeld
<1>6. CASE Loop!ClearQueue(0)
  <2>1. /\ wpc[0] = "clear" /\ wpc' = [wpc EXCEPT ![0] = "done"]
        /\ promise' = [m \in Record |-> IF m \in Loop!Left(0) THEN "abandoned" ELSE promise[m]]
    BY <1>6, QueueTyped DEF Loop!ClearQueue
  <2>2. queue[0] = <<>>
    BY <2>1, LoopFacts
  <2>3. \A m : m \notin Loop!Left(0)
    BY <2>2 DEF Loop!Left, Loop!ToSet
  <2>4. \A v \in Record : promise'[v] = promise[v]
    BY <2>1, <2>3
  <2>5. wpc[0] # "run" /\ wpc'[0] # "run"
    BY <1>2, <2>1
  <2> QED BY <1>1, <1>3, <2>4, <2>5, LoopHeld
<1> QED BY <1>4, <1>5, <1>6 DEF WorkerLoop

LEMMA ItemHeld == ASSUME Group!IInv, LInv, WriteTime \/ WriteItem PROVE Held'
<1>1. /\ wpc[0] = "run" /\ UNCHANGED <<items, line, wpc, job, promise, cpc, pushing>>
      /\ \/ item = 0 /\ item' = 1
         \/ item \in DOMAIN items[job[0]] /\ item' = item + 1
    BY DEF WriteTime, WriteItem, lines, messages, loopVars
<1>2. Len(items[job[0]]) \in Nat /\ DOMAIN items[job[0]] = 1 .. Len(items[job[0]])
  <2>1. job[0] \in Record /\ items \in [Record -> Seq(Nat)]
    BY <1>1, LoopFacts DEF LInv, Shapes
  <2> QED BY <2>1
<1>3. item' \in 0 .. Len(items'[job'[0]]) + 1
    BY <1>1, <1>2
<1> QED BY <1>1, <1>3 DEF Held, LInv, PushedHeld, Lengths, ItemFits

(* The worker releases the line it has run.                                *)
LEMMA ReleaseFacts ==
    ASSUME Group!IInv, ReleaseItems
    PROVE  /\ wpc[0] = "run" /\ wpc'[0] = "pop" /\ job[0] \in Record /\ promise[job[0]] = "running"
           /\ promise' = [promise EXCEPT ![job[0]] = "value"]
           /\ release(items[job[0]]) /\ items' = [items EXCEPT ![job[0]] = <<>>] /\ item' = 0
           /\ UNCHANGED <<line, lost, cpc, pushing>>
<1>1. /\ wpc[0] = "run" /\ Loop!RunTask(0) /\ promise'[job[0]] = "value"
      /\ release(items[job[0]]) /\ items' = [items EXCEPT ![job[0]] = <<>>] /\ item' = 0
      /\ UNCHANGED <<line, lost>>
    BY DEF ReleaseItems, ReleaseAt, lines
<1>2. /\ wpc' = [wpc EXCEPT ![0] = "pop"] /\ UNCHANGED <<cpc, pushing>>
      /\ \E outcome \in {"value", "exception"} : promise' = [promise EXCEPT ![job[0]] = outcome]
    BY <1>1 DEF Loop!RunTask, Loop!clients
<1>3. /\ wpc \in [0 .. 0 -> {"unborn", "pop", "wait", "run", "clear", "done"}]
      /\ promise \in [Record -> {"new", "refused", "value", "exception", "abandoned", "accepted", "running"}]
      /\ job[0] \in Record /\ promise[job[0]] = "running"
    BY <1>1, LoopFacts
<1>4. PICK outcome \in {"value", "exception"} : promise' = [promise EXCEPT ![job[0]] = outcome]
    BY <1>2
<1>5. outcome = "value"
    BY ONLY <1>1, <1>3, <1>4
<1>6. wpc'[0] = "pop"
    BY <1>2, <1>3
<1> QED BY <1>1, <1>2, <1>3, <1>4, <1>5, <1>6

LEMMA ReleaseHeld == ASSUME Group!IInv, LInv, ReleaseItems PROVE Held'
<1> DEFINE r == job[0]
<1>1. /\ wpc[0] = "run" /\ wpc'[0] = "pop" /\ r \in Record
      /\ promise' = [promise EXCEPT ![r] = "value"]
      /\ items' = [items EXCEPT ![r] = <<>>] /\ item' = 0 /\ UNCHANGED <<line, cpc, pushing>>
    BY ReleaseFacts
<1>2. items \in [Record -> Seq(Nat)] /\ MaxPages \in Nat
      /\ promise \in [Record -> {"new", "refused", "value", "exception", "abandoned", "accepted", "running"}]
    BY LoopFacts, PoolAssumption DEF LInv, Shapes
<1> HIDE DEF r
<1>3. \A v \in Record : (v # r /\ items'[v] = items[v] /\ promise'[v] = promise[v]) \/ items'[v] = <<>>
    BY <1>1, <1>2
<1>4. PushedHeld'
    BY <1>1, <1>3 DEF LInv, PushedHeld
<1>5. Lengths'
  <2>1. ASSUME NEW v \in Record PROVE Len(items'[v]) \in 0 .. MaxPages
    BY <1>2, <1>3 DEF LInv, Lengths
  <2> QED BY <1>1, <2>1 DEF LInv, Lengths
<1>6. ItemFits'
    BY <1>1 DEF ItemFits
<1> QED BY <1>4, <1>5, <1>6 DEF Held

(* Every step keeps the invariant of the lists.                            *)
LEMMA LStep == Group!IInv /\ LInv /\ [Next]_vars => LInv'
<1> SUFFICES ASSUME Group!IInv, LInv, [Next]_vars PROVE Shapes' /\ Placed' /\ Held'
    BY DEF LInv, Held
<1>0. Shapes /\ Placed
    BY DEF LInv
<1>1. CASE UNCHANGED vars
  <2>1. UNCHANGED <<pool, line, items, lost, item, loopVars>>
    BY <1>1 DEF vars, lines, messages
  <2>2. Held'
    BY <2>1, LoopHeld DEF loopVars
  <2> QED BY <1>0, <2>1, <2>2, PlacesKept
<1>2. ASSUME NEW t \in Line, LogWrite(t) PROVE Shapes' /\ Placed' /\ Held'
    BY <1>0, <1>2, WritePlaces, WriteHeld
<1>3. ASSUME NEW t \in Line, LogFlush(t) PROVE Shapes' /\ Placed' /\ Held'
    BY <1>0, <1>3, FlushFacts, FlushPlaces, FlushHeld
<1>4. ASSUME NEW t \in Line, LogPush(t) PROVE Shapes' /\ Placed' /\ Held'
  <2>1. pushing[t] \in Record /\ UNCHANGED <<pool, line>>
    BY <1>4, PushFacts
  <2>2. CASE UNCHANGED <<items, lost>>
    BY <1>0, <1>4, <2>1, <2>2, PlacesKept, PushHeld
  <2>3. CASE lost' = lost \cup ToSet(items[pushing[t]]) /\ items' = [items EXCEPT ![pushing[t]] = <<>>]
    BY <1>0, <1>4, <2>1, <2>3, RefusedPlaces, PushHeld
  <2> QED BY <1>4, <2>2, <2>3, PushFacts
<1>5. CASE start
  <2>1. UNCHANGED <<pool, line, items, lost>>
    BY <1>5 DEF start, lines, messages
  <2> QED BY <1>0, <1>5, <2>1, PlacesKept, StartHeld
<1>6. CASE StopLoop
  <2>1. UNCHANGED <<pool, line, items, lost>>
    BY <1>6 DEF StopLoop, lines, messages
  <2> QED BY <1>0, <1>6, <2>1, PlacesKept, StopHeld
<1>7. CASE close_log
  <2>1. UNCHANGED <<pool, line, items, lost, item, loopVars>>
    BY <1>7 DEF close_log, Close, lines, messages
  <2>2. Held'
    BY <2>1, LoopHeld DEF loopVars
  <2> QED BY <1>0, <2>1, <2>2, PlacesKept
<1>8. CASE WorkerLoop
  <2>1. UNCHANGED <<pool, line, items, lost>>
    BY <1>8 DEF WorkerLoop, lines, messages
  <2> QED BY <1>0, <1>8, <2>1, PlacesKept, WorkerHeld
<1>9. CASE WriteTime \/ WriteItem
  <2>1. UNCHANGED <<pool, line, items, lost>>
    BY <1>9 DEF WriteTime, WriteItem, lines, messages
  <2> QED BY <1>0, <1>9, <2>1, PlacesKept, ItemHeld
<1>10. CASE ReleaseItems
    BY <1>0, <1>10, ReleaseFacts, ReleasePlaces, ReleaseHeld
<1> QED BY <1>1, <1>2, <1>3, <1>4, <1>5, <1>6, <1>7, <1>8, <1>9, <1>10 DEF Next, WorkerStep

-----------------------------------------------------------------------------

(* At first every buffer is in the pool.                                   *)
LEMMA LInit == Init => LInv
<1> SUFFICES ASSUME Init PROVE LInv
    OBVIOUS
<1>1. /\ available = [i \in 1 .. capacity |-> i] /\ allocated = {} /\ made = capacity /\ lost = {} /\ item = 0
      /\ line = [t \in Line |-> <<>>] /\ items = [r \in Record |-> <<>>] /\ wpc[0] = "unborn"
      /\ capacity \in Nat \ {0} /\ MaxPages \in Nat
    BY PoolAssumption DEF Init, Loop!Init, Loop!Worker
<1>2. available \in Seq(Nat) /\ Len(available) = made /\ made \in Nat \ {0} /\ \A i \in 1 .. made : available[i] = i
    BY <1>1
<1>3. Shapes
    BY <1>1, <1>2 DEF Shapes
<1>4. Lists \in [Place -> Seq(Nat)]
    BY <1>3, LaidTyped DEF Shapes, Lists
<1>5. Lists[Pool] = available /\ \A p \in Place \ {Pool} : Lists[p] = <<>>
    BY <1>1, LaidAt, Places DEF Lists
<1>6. DOMAIN Lists = Place /\ Pool \in Place
    BY <1>4, Places
<1>7. \A p \in Place : \A i \in 1 .. Len(Lists[p]) : p = Pool /\ i \in 1 .. made /\ Lists[p][i] = i
    BY <1>2, <1>5
<1>8. Alone(Lists)
    BY ONLY <1>6, <1>7 DEF Alone
<1>9. ASSUME NEW b PROVE In(Lists, b) <=> b \in 1 .. made
    BY <1>2, <1>5, <1>6, <1>7 DEF In
<1>10. ASSUME NEW b PROVE Has(available, b) <=> b \in 1 .. made
    BY <1>2 DEF Has
<1>11. Placed
    BY <1>1, <1>8, <1>9, <1>10 DEF Placed
<1>12. PushedHeld /\ Lengths /\ ItemFits
    BY <1>1 DEF PushedHeld, Lengths, ItemFits
<1> QED BY <1>3, <1>11, <1>12 DEF LInv

-----------------------------------------------------------------------------

(* The invariant says where each buffer is.                                *)
LEMMA OneHolder == ASSUME LInv PROVE BuffersInOnePlace
<1>1. /\ available \in Seq(Nat) /\ line \in [Line -> Seq(Nat)] /\ items \in [Record -> Seq(Nat)]
      /\ Alone(Lists)
    BY DEF LInv, Shapes, Placed
<1>2. Lists \in [Place -> Seq(Nat)]
    BY <1>1, LaidTyped DEF Lists
<1>3. /\ Lists[Pool] = available /\ \A t \in Line : Lists[LineOf(t)] = line[t]
      /\ \A r \in Record : Lists[ItemsOf(r)] = items[r]
    BY ONLY LaidAt DEF Lists
<1>4. \A p \in Place : DOMAIN Lists[p] = 1 .. Len(Lists[p])
    BY <1>2
<1>5. ASSUME NEW b, NEW x \in Holders(b)
      PROVE  \E p \in Place : \E i \in 1 .. Len(Lists[p]) : Lists[p][i] = b /\ x = <<p[2], i>>
  <2>1. CASE x \in {<<"pool", i>> : i \in At(available, b)}
    <3>1. PICK i \in DOMAIN available : available[i] = b /\ x = <<"pool", i>>
      BY <2>1 DEF At
    <3>2. Pool \in Place /\ Pool[2] = "pool" /\ i \in 1 .. Len(Lists[Pool])
      BY <1>3, <1>4, Places DEF Pool
    <3> QED BY <1>3, <3>1, <3>2
  <2>2. ASSUME NEW t \in Line, x \in {<<t, i>> : i \in At(line[t], b)}
        PROVE  \E p \in Place : \E i \in 1 .. Len(Lists[p]) : Lists[p][i] = b /\ x = <<p[2], i>>
    <3>1. PICK i \in DOMAIN line[t] : line[t][i] = b /\ x = <<t, i>>
      BY <2>2 DEF At
    <3>2. LineOf(t) \in Place /\ LineOf(t)[2] = t /\ i \in 1 .. Len(Lists[LineOf(t)])
      BY <1>3, <1>4, Places DEF LineOf
    <3> QED BY <1>3, <3>1, <3>2
  <2>3. ASSUME NEW r \in Record, x \in {<<r, i>> : i \in At(items[r], b)}
        PROVE  \E p \in Place : \E i \in 1 .. Len(Lists[p]) : Lists[p][i] = b /\ x = <<p[2], i>>
    <3>1. PICK i \in DOMAIN items[r] : items[r][i] = b /\ x = <<r, i>>
      BY <2>3 DEF At
    <3>2. ItemsOf(r) \in Place /\ ItemsOf(r)[2] = r /\ i \in 1 .. Len(Lists[ItemsOf(r)])
      BY <1>3, <1>4, Places DEF ItemsOf
    <3> QED BY <1>3, <3>1, <3>2
  <2> QED BY <1>5, <2>1, <2>2, <2>3 DEF Holders
<1>6. ASSUME NEW b, NEW p \in Place, NEW i \in 1 .. Len(Lists[p]), Lists[p][i] = b
      PROVE  <<p[2], i>> \in Holders(b)
  <2>1. i \in DOMAIN Lists[p]
    BY <1>4
  <2>2. CASE p = Pool
    <3>1. i \in At(available, b) /\ p[2] = "pool"
      BY <1>3, <1>6, <2>1, <2>2 DEF At, Pool
    <3> QED BY <3>1 DEF Holders
  <2>3. ASSUME NEW t \in Line, p = LineOf(t) PROVE <<p[2], i>> \in Holders(b)
    <3>1. i \in At(line[t], b) /\ p[2] = t
      BY <1>3, <1>6, <2>1, <2>3 DEF At, LineOf
    <3> QED BY <3>1 DEF Holders
  <2>4. ASSUME NEW r \in Record, p = ItemsOf(r) PROVE <<p[2], i>> \in Holders(b)
    <3>1. i \in At(items[r], b) /\ p[2] = r
      BY <1>3, <1>6, <2>1, <2>4 DEF At, ItemsOf
    <3> QED BY <3>1 DEF Holders
  <2> QED BY <2>2, <2>3, <2>4, Places
<1>7. DOMAIN Lists = Place
    BY <1>2
<1>8. ASSUME NEW b \in 1 .. made PROVE Cardinality(Holders(b)) = IF b \in lost THEN 0 ELSE 1
  <2>1. In(Lists, b) <=> b \notin lost
    BY DEF LInv, Placed
  <2>2. CASE b \in lost
    <3>1. Holders(b) = {}
      BY <1>5, <1>7, <2>1, <2>2 DEF In
    <3> QED BY <2>2, <3>1, FS_EmptySet
  <2>3. CASE b \notin lost
    <3>1. PICK p \in Place : \E i \in 1 .. Len(Lists[p]) : Lists[p][i] = b
      BY ONLY <1>7, <2>1, <2>3, Zenon DEF In
    <3>2. PICK i \in 1 .. Len(Lists[p]) : Lists[p][i] = b
      BY <3>1
    <3>3. ASSUME NEW x \in Holders(b) PROVE x = <<p[2], i>>
      <4>1. PICK q \in Place : \E j \in 1 .. Len(Lists[q]) : Lists[q][j] = b /\ x = <<q[2], j>>
        BY <1>5
      <4>2. PICK j \in 1 .. Len(Lists[q]) : Lists[q][j] = b /\ x = <<q[2], j>>
        BY <4>1
      <4>3. p = q /\ i = j
        BY ONLY <1>1, <1>7, <3>2, <4>2, p \in Place, q \in Place DEF Alone
      <4> QED BY <4>2, <4>3
    <3>4. Holders(b) = {<<p[2], i>>}
      <4>1. <<p[2], i>> \in Holders(b)
        BY <1>6, <3>2
      <4> QED BY <3>3, <4>1
    <3>5. Cardinality({<<p[2], i>>}) = 1
      BY FS_Singleton
    <3>6. Cardinality(Holders(b)) = 1
      BY <3>4, <3>5, Zenon
    <3> QED BY <2>3, <3>6
  <2> QED BY <2>2, <2>3
<1>9. ASSUME NEW b \in 1 .. made PROVE b \in allocated <=> At(available, b) = {}
  <2>1. At(available, b) = {} <=> ~Has(available, b)
    <3>1. DOMAIN available = 1 .. Len(available)
      BY <1>1
    <3> QED BY <3>1 DEF At, Has
  <2> QED BY <2>1 DEF LInv, Placed
<1> QED BY <1>8, <1>9 DEF BuffersInOnePlace

-----------------------------------------------------------------------------

(* What is left of the types.                                              *)
Rest ==
    /\ content \in [1 .. made -> Page] /\ last \in Page
    /\ record \in [Line -> Record \cup {None}]
    /\ pages \in [Record -> 0 .. MaxPages]
    /\ filename \in BOOLEAN /\ fd \in {"stdout", "file"}
    /\ open \in BOOLEAN /\ openFailed \in BOOLEAN
    /\ current_size \in 0 .. SizeModulus - 1 /\ is_started \in BOOLEAN

LEMMA RestInit == Init => Rest
<1> SUFFICES ASSUME Init PROVE Rest
    OBVIOUS
<1>1. 0 \in 0 .. SizeModulus - 1 /\ 0 \in 0 .. MaxPages
    BY SizeAssumption, PoolAssumption
<1>2. None \in Page
    BY DEF Page
<1> QED BY <1>1, <1>2 DEF Init, Rest

(* The size that open_log and write leave is in its width.                 *)
LEMMA RestOpened ==
    ASSUME Rest, NEW size \in 0 .. SizeModulus - 1, open_log(size)
    PROVE  /\ fd' \in {"stdout", "file"} /\ open' \in BOOLEAN /\ openFailed' \in BOOLEAN
           /\ current_size' \in 0 .. SizeModulus - 1
<1>1. 0 \in 0 .. SizeModulus - 1
    BY SizeAssumption
<1> QED BY <1>1 DEF open_log

LEMMA RestWritten ==
    ASSUME Rest, NEW page \in Page, write(page), UNCHANGED <<pool, lines, messages, filename, is_started>>
    PROVE  Rest'
<1>1. PICK size \in {(current_size + ret) % SizeModulus : ret \in {1, SizeModulus - 1}} :
          IF size > max_size_ THEN open_log(size)
          ELSE current_size' = size /\ UNCHANGED <<fd, open, openFailed>>
    BY DEF write, writeCounting
<1>2. size \in 0 .. SizeModulus - 1
  <2>1. SizeModulus \in Nat /\ SizeModulus > 0 /\ current_size \in Int
    BY SizeAssumption DEF Rest
  <2>2. PICK ret \in {1, SizeModulus - 1} : size = (current_size + ret) % SizeModulus
    OBVIOUS
  <2>3. current_size + ret \in Int
    BY <2>1
  <2> QED BY ONLY <2>1, <2>2, <2>3
<1>3. /\ fd' \in {"stdout", "file"} /\ open' \in BOOLEAN /\ openFailed' \in BOOLEAN
      /\ current_size' \in 0 .. SizeModulus - 1
    BY <1>1, <1>2, RestOpened DEF Rest
<1>4. last' \in Page
    BY DEF write, writeCounting, Rest
<1> QED BY <1>3, <1>4 DEF Rest, pool, lines, messages

(* What the worker writes is a page.                                       *)
LEMMA ItemIsPage ==
    ASSUME Group!IInv, LInv, Rest, WriteItem
    PROVE  content[items[job[0]][item]] \in Page
<1>1. job[0] \in Record /\ item \in DOMAIN items[job[0]]
    BY LoopFacts DEF WriteItem
<1>2. /\ available \in Seq(Nat) /\ line \in [Line -> Seq(Nat)] /\ items \in [Record -> Seq(Nat)]
      /\ Alone(Laid(available, line, items)) /\ \A b : In(Laid(available, line, items), b) => b \in 1 .. made
    BY DEF LInv, Shapes, Placed, Lists
<1>3. Has(items[job[0]], items[job[0]][item])
    BY <1>1, <1>2 DEF Has
<1>4. items[job[0]][item] \in 1 .. made
    BY <1>1, <1>2, <1>3, PoolFacts
<1> QED BY <1>4 DEF Rest

LEMMA RestStep == Group!IInv /\ LInv /\ Rest /\ [Next]_vars => Rest'
<1> SUFFICES ASSUME Group!IInv, LInv, Rest, [Next]_vars PROVE Rest'
    OBVIOUS
<1> DEFINE same == UNCHANGED <<pool, lines, messages, file, filename, is_started, last>>
<1>0. ASSUME same PROVE Rest'
    BY <1>0 DEF Rest, pool, lines, messages, file
<1>1. CASE UNCHANGED vars
    BY <1>0, <1>1 DEF vars
<1>2. ASSUME NEW t \in Line, LogWrite(t) PROVE Rest'
  <2>1. PICK r \in Record : /\ record' = [record EXCEPT ![t] = r]
                            /\ malloc(<<r, Len(line[t]) + 1>>)
    BY <1>2 DEF LogWrite
  <2>2. <<r, Len(line[t]) + 1>> \in Page
    <3>1. Len(line[t]) + 1 \in 1 .. MaxPages
      BY <1>2, PoolAssumption DEF LogWrite, LInv, Lengths
    <3> QED BY <3>1 DEF Page
  <2>3. content' \in [1 .. made' -> Page]
    <3>1. content' = [b \in 1 .. made' |->
                        IF b = Head(buffers) THEN <<r, Len(line[t]) + 1>>
                        ELSE IF b <= made THEN content[b] ELSE None]
      BY <2>1 DEF malloc, mallocLeaving
    <3>2. ASSUME NEW b \in 1 .. made', b <= made PROVE b \in 1 .. made
      BY <3>2 DEF LInv, Shapes
    <3>3. None \in Page
      BY DEF Page
    <3> QED BY <2>2, <3>1, <3>2, <3>3 DEF Rest
  <2>4. UNCHANGED <<messages, file, filename, is_started, last>>
    BY <1>2 DEF LogWrite
  <2> QED BY <2>1, <2>3, <2>4 DEF Rest, messages, file
<1>3. ASSUME NEW t \in Line, LogFlush(t) PROVE Rest'
  <2>1. /\ pages' = [pages EXCEPT ![record[t]] = Len(line[t])] /\ record' = [record EXCEPT ![t] = None]
        /\ UNCHANGED <<pool, file, filename, is_started, last>>
    BY <1>3 DEF LogFlush
  <2>2. Len(line[t]) \in 0 .. MaxPages
    BY DEF LInv, Lengths
  <2> QED BY <2>1, <2>2 DEF Rest, pool, file
<1>4. ASSUME NEW t \in Line, LogPush(t) PROVE Rest'
    BY <1>4 DEF LogPush, Rest, pool, lines, file
<1>5. CASE start
  <2>1. open_log(current_size) /\ is_started' \in BOOLEAN /\ UNCHANGED <<pool, lines, messages, filename, last>>
    BY <1>5 DEF start, Rest
  <2>2. current_size \in 0 .. SizeModulus - 1
    BY DEF Rest
  <2>3. /\ fd' \in {"stdout", "file"} /\ open' \in BOOLEAN /\ openFailed' \in BOOLEAN
        /\ current_size' \in 0 .. SizeModulus - 1
    BY <2>1, <2>2, RestOpened
  <2> QED BY <2>1, <2>3 DEF Rest, pool, lines, messages
<1>6. CASE StopLoop \/ WorkerLoop
    BY <1>0, <1>6 DEF StopLoop, WorkerLoop
<1>7. CASE close_log
    BY <1>7 DEF close_log, Close, Rest, pool, lines, messages
<1>8. CASE WriteTime
  <2>1. None \in Page
    BY DEF Page
  <2> QED BY <1>8, <2>1, RestWritten DEF WriteTime
<1>9. CASE WriteItem
  <2>1. content[items[job[0]][item]] \in Page
    BY <1>9, ItemIsPage
  <2>2. /\ write(content[items[job[0]][item]])
        /\ UNCHANGED <<pool, lines, messages, filename, is_started>>
    BY <1>9 DEF WriteItem
  <2> QED BY <2>1, <2>2, RestWritten
<1>10. CASE ReleaseItems
  <2>1. UNCHANGED <<made, content, lines, pages, file, filename, is_started, last>>
    BY <1>10 DEF ReleaseItems, ReleaseAt, release
  <2> QED BY <2>1 DEF Rest, lines, file
<1> QED BY <1>1, <1>2, <1>3, <1>4, <1>5, <1>6, <1>7, <1>8, <1>9, <1>10 DEF Next, WorkerStep

-----------------------------------------------------------------------------

(* What is in a sequence bounds its type.                                  *)
LEMMA SeqNarrowed ==
    ASSUME NEW n \in Nat, NEW s \in Seq(Nat), \A b : Has(s, b) => b \in 1 .. n
    PROVE  s \in Seq(1 .. n)
<1>1. \A i \in 1 .. Len(s) : s[i] \in 1 .. n
    BY DEF Has
<1> QED BY <1>1

(* The types follow from the invariant.                                    *)
LEMMA IsTyped == ASSUME Group!IInv, LInv, Rest PROVE TypeOK
<1>1. /\ available \in Seq(Nat) /\ line \in [Line -> Seq(Nat)] /\ items \in [Record -> Seq(Nat)]
      /\ made \in Nat \ {0} /\ lost \subseteq 1 .. made /\ allocated \subseteq 1 .. made
      /\ Alone(Laid(available, line, items)) /\ \A b : In(Laid(available, line, items), b) => b \in 1 .. made
    BY DEF LInv, Shapes, Placed, Lists
<1>2. available \in Seq(1 .. made)
    BY <1>1, PoolFacts, SeqNarrowed
<1>3. ASSUME NEW t \in Line PROVE line[t] \in Seq(1 .. made)
  <2>1. line[t] \in Seq(Nat) /\ \A b : Has(line[t], b) => b \in 1 .. made
    BY <1>1, PoolFacts
  <2> QED BY <1>1, <2>1, SeqNarrowed
<1>4. ASSUME NEW r \in Record PROVE items[r] \in Seq(1 .. made)
  <2>1. items[r] \in Seq(Nat) /\ \A b : Has(items[r], b) => b \in 1 .. made
    BY <1>1, PoolFacts
  <2> QED BY <1>1, <2>1, SeqNarrowed
<1>5. line \in [Line -> Seq(1 .. made)] /\ items \in [Record -> Seq(1 .. made)]
    BY <1>1, <1>3, <1>4
<1>6. item \in 0 .. MaxPages + 1
  <2>1. MaxPages \in Nat /\ (wpc[0] = "run" => job[0] \in Record)
    BY PoolAssumption, LoopFacts
  <2>2. CASE wpc[0] = "run"
    <3>1. item \in 0 .. Len(items[job[0]]) + 1 /\ Len(items[job[0]]) \in 0 .. MaxPages
      BY <2>1, <2>2 DEF LInv, ItemFits, Lengths
    <3> QED BY <2>1, <3>1
  <2>3. CASE wpc[0] # "run"
    BY <2>1, <2>3 DEF LInv, ItemFits
  <2> QED BY <2>2, <2>3
<1>7. Loop!TypeOK
    BY LoopTyped
<1> QED BY <1>1, <1>2, <1>5, <1>6, <1>7 DEF TypeOK, Rest

-----------------------------------------------------------------------------

(* The inductive invariant.                                                *)
IInv == Group!IInv /\ LInv /\ FileFits /\ Rest

(* It holds: each step of the pool, of a line, of the file and of the loop *)
(* keeps it.                                                               *)
THEOREM Invariance == Spec => []IInv
<1>1. Init => IInv
  <2>1. Init => FileFits
    BY DEF Init, Loop!Init, FileFits
  <2> QED BY <2>1, LoopInit, LInit, RestInit DEF IInv
<1>2. IInv /\ [Next]_vars => IInv'
    BY LoopStep, LStep, FileStep, RestStep DEF IInv
<1> QED BY <1>1, <1>2, PTL DEF Spec

(* The variables have their types: the sizes never leave the width of      *)
(* current_size_, and every buffer in a list is one that was made.         *)
THEOREM TypeCorrect == Spec => []TypeOK
<1>1. IInv => TypeOK
    BY IsTyped DEF IInv
<1> QED BY <1>1, Invariance, PTL

(* Every buffer is in the pool, in the line of one thread or in one line   *)
(* that was pushed, and there once (BufferPool under pool_lock_, Log::write*)
(* and flush, Logger::push and release); only the buffers of a refused     *)
(* line are in none.                                                       *)
THEOREM OnePlaceEach == Spec => []BuffersInOnePlace
<1>1. IInv => BuffersInOnePlace
    BY OneHolder DEF IInv
<1> QED BY <1>1, Invariance, PTL

(* While the worker is in its function it writes to the log file, unless   *)
(* none is named or the last open failed (Logger::stop joins the loop      *)
(* before close_log; rotate_file opens what it has closed).                *)
THEOREM FileIsRight == Spec => []WritesToFile
<1>1. IInv => WritesToFile
  <2> SUFFICES ASSUME Group!IInv, FileFits, wpc[0] = "run"
               PROVE  fd = IF filename /\ ~openFailed THEN "file" ELSE "stdout"
      BY DEF WritesToFile, IInv
  <2> QED BY LoopFacts DEF FileFits
<1> QED BY <1>1, Invariance, PTL

-----------------------------------------------------------------------------

(* The stream, as a function of the lines' lengths.                        *)
PagesOf(pg, r) == [i \in 1 .. pg[r] |-> <<r, i>>]
ListsOf(pg, records) == [k \in DOMAIN records |-> PagesOf(pg, records[k])]
StreamOf(pg, records) == FlattenSeq(ListsOf(pg, records))

LEMMA IsStream == \A records : Stream(records) = StreamOf(pages, records)
BY DEF Stream, StreamOf, ListsOf, PagesOf

(* A line's pages are its own; so are those of a stream.                   *)
LEMMA PagesTyped ==
    ASSUME NEW R \in SUBSET Record, NEW pg \in [Record -> Nat], NEW r \in R
    PROVE  /\ PagesOf(pg, r) \in Seq(R \X Nat) /\ Len(PagesOf(pg, r)) = pg[r]
           /\ \A i \in 1 .. pg[r] : PagesOf(pg, r)[i] = <<r, i>>
<1>1. pg[r] \in Nat
    OBVIOUS
<1>2. \A i \in 1 .. pg[r] : <<r, i>> \in R \X Nat
    OBVIOUS
<1> QED BY <1>1, <1>2 DEF PagesOf

LEMMA ListsTyped ==
    ASSUME NEW R \in SUBSET Record, NEW pg \in [Record -> Nat], NEW s \in Seq(R)
    PROVE  /\ ListsOf(pg, s) \in Seq(Seq(R \X Nat)) /\ Len(ListsOf(pg, s)) = Len(s)
           /\ \A k \in 1 .. Len(s) : ListsOf(pg, s)[k] = PagesOf(pg, s[k])
<1>1. DOMAIN s = 1 .. Len(s) /\ Len(s) \in Nat /\ \A k \in 1 .. Len(s) : s[k] \in R
    OBVIOUS
<1>2. \A k \in 1 .. Len(s) : PagesOf(pg, s[k]) \in Seq(R \X Nat)
    BY <1>1, PagesTyped
<1>3. ListsOf(pg, s) = [k \in 1 .. Len(s) |-> PagesOf(pg, s[k])]
    BY <1>1 DEF ListsOf
<1> QED BY <1>1, <1>2, <1>3

LEMMA StreamTyped ==
    ASSUME NEW R \in SUBSET Record, NEW pg \in [Record -> Nat], NEW s \in Seq(R)
    PROVE  StreamOf(pg, s) \in Seq(R \X Nat)
<1>1. ListsOf(pg, s) \in Seq(Seq(R \X Nat)) /\ <<>> \in Seq(R \X Nat)
    BY ListsTyped
<1> QED BY <1>1, FlattenAppend DEF StreamOf

(* The stream of one more line, of the first lines, ...                    *)
LEMMA StreamAppended ==
    ASSUME NEW pg \in [Record -> Nat], NEW s \in Seq(Record), NEW r \in Record
    PROVE  StreamOf(pg, Append(s, r)) = StreamOf(pg, s) \o PagesOf(pg, r)
<1> DEFINE B == Record \X Nat
           a == ListsOf(pg, s)  b == ListsOf(pg, Append(s, r))  x == PagesOf(pg, r)
<1>1. /\ Append(s, r) \in Seq(Record) /\ Len(Append(s, r)) = Len(s) + 1 /\ Len(s) \in Nat
      /\ Append(s, r)[Len(s) + 1] = r /\ \A k \in 1 .. Len(s) : Append(s, r)[k] = s[k]
    BY AppendProperties
<1>2. /\ a \in Seq(Seq(B)) /\ Len(a) = Len(s) /\ \A k \in 1 .. Len(s) : a[k] = PagesOf(pg, s[k])
    BY ListsTyped
<1>3. /\ b \in Seq(Seq(B)) /\ Len(b) = Len(s) + 1
      /\ \A k \in 1 .. Len(s) + 1 : b[k] = PagesOf(pg, Append(s, r)[k])
    BY <1>1, ListsTyped
<1>4. x \in Seq(B)
    BY PagesTyped
<1> HIDE DEF a, b, x
<1>5. /\ Append(a, x) \in Seq(Seq(B)) /\ Len(Append(a, x)) = Len(s) + 1
      /\ Append(a, x)[Len(s) + 1] = x /\ \A k \in 1 .. Len(s) : Append(a, x)[k] = a[k]
    BY <1>2, <1>4, AppendProperties
<1>6. \A k \in 1 .. Len(s) + 1 : k \in 1 .. Len(s) \/ k = Len(s) + 1
    BY <1>1
<1>7. ASSUME NEW k \in 1 .. Len(s) + 1 PROVE b[k] = Append(a, x)[k]
  <2>1. CASE k \in 1 .. Len(s)
    BY <1>1, <1>2, <1>3, <1>5, <2>1
  <2>2. CASE k = Len(s) + 1
    BY <1>1, <1>3, <1>5, <2>2 DEF x
  <2> QED BY <1>6, <2>1, <2>2
<1>8. b = Append(a, x)
    BY <1>3, <1>5, <1>7, SeqEqual
<1>9. FlattenSeq(Append(a, x)) = FlattenSeq(a) \o x
    BY <1>2, <1>4, FlattenAppend
<1> QED BY <1>8, <1>9 DEF a, b, x, StreamOf

LEMMA StreamPrefix ==
    ASSUME NEW pg \in [Record -> Nat], NEW s \in Seq(Record), NEW k \in 0 .. Len(s)
    PROVE  \E rest \in Seq(Record \X Nat) : StreamOf(pg, s) = StreamOf(pg, SubSeq(s, 1, k)) \o rest
<1> DEFINE B == Record \X Nat
           a == ListsOf(pg, s)  t == SubSeq(s, 1, k)
<1>1. /\ t \in Seq(Record) /\ Len(t) = k /\ k \in Nat /\ Len(s) \in Nat /\ k <= Len(s)
      /\ \A i \in 1 .. k : t[i] = s[i]
    OBVIOUS
<1>2. /\ a \in Seq(Seq(B)) /\ Len(a) = Len(s) /\ \A i \in 1 .. Len(s) : a[i] = PagesOf(pg, s[i])
    BY ListsTyped
<1> HIDE DEF a, t
<1>3. /\ ListsOf(pg, t) \in Seq(Seq(B)) /\ Len(ListsOf(pg, t)) = k
      /\ \A i \in 1 .. k : ListsOf(pg, t)[i] = PagesOf(pg, t[i])
    BY <1>1, ListsTyped
<1>4. /\ SubSeq(a, 1, k) \in Seq(Seq(B)) /\ Len(SubSeq(a, 1, k)) = k
      /\ \A i \in 1 .. k : SubSeq(a, 1, k)[i] = a[i]
    BY <1>1, <1>2
<1>5. SubSeq(a, 1, k) = ListsOf(pg, t)
  <2>1. ASSUME NEW i \in 1 .. k PROVE SubSeq(a, 1, k)[i] = ListsOf(pg, t)[i]
    <3>1. i \in 1 .. Len(s)
      BY <1>1
    <3>2. SubSeq(a, 1, k)[i] = PagesOf(pg, s[i]) /\ ListsOf(pg, t)[i] = PagesOf(pg, t[i])
      BY <1>2, <1>3, <1>4, <3>1
    <3> QED BY <1>1, <3>2
  <2> QED BY <1>3, <1>4, <2>1, SeqEqual
<1>6. \E rest \in Seq(B) : FlattenSeq(a) = FlattenSeq(SubSeq(a, 1, k)) \o rest
  <2>1. k \in 0 .. Len(a)
    BY <1>1, <1>2
  <2> QED BY <1>2, <2>1, FlattenPrefix
<1> QED BY <1>5, <1>6 DEF a, t, StreamOf

(* ... and of lines whose lengths are the same.                            *)
LEMMA StreamKept ==
    ASSUME NEW pg, NEW ph, NEW s \in Seq(Record), \A k \in 1 .. Len(s) : pg[s[k]] = ph[s[k]]
    PROVE  StreamOf(pg, s) = StreamOf(ph, s)
<1>1. DOMAIN s = 1 .. Len(s)
    OBVIOUS
<1>2. \A k \in 1 .. Len(s) : PagesOf(pg, s[k]) = PagesOf(ph, s[k])
    BY DEF PagesOf
<1>3. ListsOf(pg, s) = ListsOf(ph, s)
    BY <1>1, <1>2 DEF ListsOf
<1> QED BY <1>3 DEF StreamOf

LEMMA MiddleAt ==
    ASSUME NEW B, NEW a \in Seq(B), NEW x \in Seq(B), NEW rest \in Seq(B), NEW i \in 1 .. Len(x)
    PROVE  /\ Len(a) \in Nat /\ Len(a) + i <= Len((a \o x) \o rest)
           /\ ((a \o x) \o rest)[Len(a) + i] = x[i]
<1> DEFINE c == a \o x
<1>1. Len(a) \in Nat /\ Len(x) \in Nat /\ c \in Seq(B) /\ Len(c) = Len(a) + Len(x) /\ c[Len(a) + i] = x[i]
    OBVIOUS
<1> HIDE DEF c
<1>2. Len(a) + i \in 1 .. Len(c)
    BY <1>1
<1>3. Len(c \o rest) = Len(c) + Len(rest) /\ Len(rest) \in Nat /\ (c \o rest)[Len(a) + i] = c[Len(a) + i]
  <2> DEFINE j == Len(a) + i
  <2>1. j \in 1 .. Len(c) /\ c \in Seq(B)
    BY <1>1, <1>2
  <2> HIDE DEF j
  <2>2. Len(c \o rest) = Len(c) + Len(rest) /\ Len(rest) \in Nat /\ (c \o rest)[j] = c[j]
    BY <2>1
  <2> QED BY <2>2 DEF j
<1>4. Len(a) + i <= Len(c \o rest) /\ (c \o rest)[Len(a) + i] = x[i]
    BY <1>1, <1>2, <1>3
<1> QED BY <1>1, <1>4 DEF c

(* Where a line's pages stand in the stream.                               *)
LEMMA PageInStream ==
    ASSUME NEW pg \in [Record -> Nat], NEW s \in Seq(Record), NEW k \in 1 .. Len(s),
           NEW i \in 1 .. pg[s[k]], NEW n, n = Len(StreamOf(pg, SubSeq(s, 1, k - 1)))
    PROVE  n \in Nat /\ n + i <= Len(StreamOf(pg, s)) /\ StreamOf(pg, s)[n + i] = <<s[k], i>>
<1> DEFINE a == StreamOf(pg, SubSeq(s, 1, k - 1))  x == PagesOf(pg, s[k])  B == Record \X Nat
<1>1. k \in Nat /\ k - 1 \in Nat /\ (k - 1) + 1 = k /\ Len(s) \in Nat /\ k <= Len(s) /\ s[k] \in Record
    OBVIOUS
<1>2. SubSeq(s, 1, k - 1) \in Seq(Record) /\ SubSeq(s, 1, k) = Append(SubSeq(s, 1, k - 1), s[k])
    BY <1>1, SubSeqLonger
<1>3. StreamOf(pg, SubSeq(s, 1, k)) = a \o x
    BY <1>1, <1>2, StreamAppended
<1>4. a \in Seq(B)
    BY <1>2, StreamTyped
<1>5. x \in Seq(B) /\ Len(x) = pg[s[k]] /\ x[i] = <<s[k], i>>
    BY <1>1, PagesTyped
<1>6. PICK rest : rest \in Seq(B) /\ StreamOf(pg, s) = (a \o x) \o rest
  <2>1. k \in 0 .. Len(s)
    BY <1>1
  <2>2. \E rest \in Seq(B) : StreamOf(pg, s) = StreamOf(pg, SubSeq(s, 1, k)) \o rest
    BY <2>1, StreamPrefix
  <2> QED BY <1>3, <2>2
<1> HIDE DEF a, x, B
<1>7. n = Len(a) /\ i \in 1 .. Len(x)
    BY <1>4, <1>5 DEF a
<1>8. Len(a) \in Nat /\ Len(a) + i <= Len((a \o x) \o rest) /\ ((a \o x) \o rest)[Len(a) + i] = x[i]
  <2>1. a \in Seq(B) /\ x \in Seq(B) /\ rest \in Seq(B) /\ i \in 1 .. Len(x)
    BY <1>4, <1>5, <1>6, <1>7
  <2> QED BY ONLY <2>1, MiddleAt
<1> QED BY <1>5, <1>6, <1>7, <1>8

-----------------------------------------------------------------------------

(* How many of the lines that arrived have left the queue; the worker runs *)
(* the last of them.                                                       *)
Begun == Len(arrived[0]) - Len(queue[0])
RunsLast == wpc[0] = "run" => Begun \in 1 .. Len(arrived[0]) /\ job[0] = arrived[0][Begun]

(* What the loop's order says of the one queue.                            *)
LEMMA OrderFacts ==
    ASSUME Group!IInv, Group!OInv
    PROVE  /\ arrived[0] \in Seq(Record) /\ queue[0] \in Seq(Record)
           /\ Len(arrived[0]) \in Nat /\ Len(queue[0]) \in Nat
           /\ Begun \in Nat /\ Begun <= Len(arrived[0])
           /\ \A i \in 1 .. Len(queue[0]) : queue[0][i] = arrived[0][Begun + i] /\ promise[queue[0][i]] = "accepted"
           /\ \A i \in 1 .. Len(arrived[0]) : arrived[0][i] \in Record /\ promise[arrived[0][i]] # "new"
<1>1. Group!TypeOK /\ Group!QueuedAccepted
    BY DEF Group!IInv
<1>2. 0 \in Group!Queue
    BY DEF Group!Queue, Group!Worker, Group!get_queue
<1>3. arrived[0] \in Seq(Record) /\ queue[0] \in Seq(Record)
    BY <1>1, <1>2 DEF Group!TypeOK
<1>4. Group!QueueIsRest(0) /\ Group!ArrivedPushed(0)
    BY <1>2 DEF Group!OInv, Group!Ordered
<1>5. Len(arrived[0]) \in Nat /\ Len(queue[0]) \in Nat
    BY <1>3
<1>6. /\ Begun \in Nat /\ Begun <= Len(arrived[0])
      /\ \A i \in 1 .. Len(queue[0]) : queue[0][i] = arrived[0][Begun + i]
  <2>1. Begun = Group!Taken(0)
    BY DEF Group!Taken, Begun
  <2>2. Begun >= 0 /\ \A i \in 1 .. Len(queue[0]) : queue[0][i] = arrived[0][Begun + i]
    BY <1>4, <2>1 DEF Group!QueueIsRest
  <2>3. \A a, b \in Nat : a - b >= 0 => a - b \in Nat /\ a - b <= a
    OBVIOUS
  <2>4. Begun \in Nat /\ Begun <= Len(arrived[0])
    BY ONLY <1>5, <2>2, <2>3 DEF Begun
  <2> QED BY <2>2, <2>4
<1>7. \A i \in 1 .. Len(queue[0]) : promise[queue[0][i]] = "accepted"
    BY <1>1, <1>2 DEF Group!QueuedAccepted
<1>8. \A i \in 1 .. Len(arrived[0]) : promise[arrived[0][i]] # "new"
    BY <1>4 DEF Group!ArrivedPushed
<1>9. \A i \in 1 .. Len(arrived[0]) : arrived[0][i] \in Record
    BY <1>3
<1> QED BY <1>3, <1>5, <1>6, <1>7, <1>8, <1>9

(* The types of what the loop has, at its one queue and worker.            *)
LEMMA LoopShape ==
    ASSUME Group!IInv
    PROVE  /\ queue \in [0 .. 0 -> Seq(Record)] /\ arrived \in [0 .. 0 -> Seq(Record)]
           /\ stopped \in [0 .. 0 -> BOOLEAN] /\ job \in [0 .. 0 -> Record \cup {None}]
           /\ target \in [Line \cup {Owner} -> 0 .. 0]
           /\ Loop!get_queue(0) = 0
           /\ wpc[0] = "done" => stopped[0]
<1>1. Group!TypeOK /\ Group!WorkerSteps
    BY DEF Group!IInv
<1>2. Group!Worker = 0 .. 0 /\ 0 \in 0 .. 0
    BY DEF Group!Worker
<1>3. Group!Queue = 0 .. 0
    BY <1>2 DEF Group!Queue, Group!get_queue
<1>4. Group!WorkerFits(0)
    BY <1>1, <1>2 DEF Group!WorkerSteps
<1> QED BY <1>1, <1>2, <1>3, <1>4 DEF Group!TypeOK, Group!WorkerFits, Group!get_queue, Loop!get_queue

(* A step of the loop that takes, gives and ends nothing.                  *)
Quiet ==
    /\ arrived'[0] = arrived[0] /\ queue'[0] = queue[0] /\ job'[0] = job[0] /\ promise' = promise
    /\ wpc'[0] = "run" <=> wpc[0] = "run"
    /\ wpc'[0] = "done" <=> wpc[0] = "done"

LEMMA NotifiedQuiet ==
    ASSUME Group!IInv, NEW q, Loop!NotifyAll(q) \/ UNCHANGED wpc
    PROVE  (wpc'[0] = "run" <=> wpc[0] = "run") /\ (wpc'[0] = "done" <=> wpc[0] = "done")
<1>1. 0 \in Loop!Worker
    BY DEF Loop!Worker
<1> QED BY <1>1 DEF Loop!NotifyAll

LEMMA QuietSteps ==
    ASSUME Group!IInv,
           \/ UNCHANGED loopVars
           \/ Loop!StartThread
           \/ Loop!StopFlag(Owner) \/ Loop!StopQueue(Owner) \/ Loop!Join(Owner)
           \/ Loop!PopWait(0) \/ Loop!WaitTimeout(0) \/ Loop!PopStopped(0)
    PROVE  Quiet /\ pushing' = pushing
<1>1. wpc \in [0 .. 0 -> {"unborn", "pop", "wait", "run", "clear", "done"}]
    BY LoopFacts
<1>2. CASE UNCHANGED loopVars
    BY <1>2 DEF loopVars, Quiet
<1>3. CASE Loop!StartThread
  <2>1. /\ started < 1 /\ wpc' = [wpc EXCEPT ![started] = "pop"]
        /\ UNCHANGED <<queue, arrived, promise, job, pushing>>
    BY <1>3 DEF Loop!StartThread, Loop!clients, Loop!queues
  <2>2. wpc[0] = "unborn" /\ wpc'[0] = "pop"
    BY <2>1, LoopFacts
  <2> QED BY <2>1, <2>2 DEF Quiet
<1>4. CASE Loop!StopFlag(Owner) \/ Loop!Join(Owner)
    BY <1>4 DEF Loop!StopFlag, Loop!Join, Loop!queues, Loop!workers, Quiet
<1>5. CASE Loop!StopQueue(Owner)
  <2>1. Loop!NotifyAll(Loop!get_queue(next[Owner])) \/ UNCHANGED wpc
    BY <1>5 DEF Loop!StopQueue
  <2>2. (wpc'[0] = "run" <=> wpc[0] = "run") /\ (wpc'[0] = "done" <=> wpc[0] = "done")
    BY <2>1, NotifiedQuiet
  <2> QED BY <1>5, <2>2 DEF Loop!StopQueue, Quiet
<1>6. CASE Loop!PopWait(0) \/ Loop!WaitTimeout(0) \/ Loop!PopStopped(0)
    BY <1>1, <1>6 DEF Loop!PopWait, Loop!WaitTimeout, Loop!PopStopped, Loop!queues, Loop!clients, Quiet
<1> QED BY <1>2, <1>3, <1>4, <1>5, <1>6

(* Taking a line from the queue, leaving it, accepting and refusing.       *)
LEMMA LoopPops ==
    ASSUME Group!IInv, Group!OInv, Loop!PopTask(0)
    PROVE  /\ wpc[0] = "pop" /\ wpc'[0] = "run" /\ UNCHANGED <<arrived, pushing>>
           /\ Begun' = Begun + 1 /\ Begun + 1 \in 1 .. Len(arrived[0])
           /\ job'[0] = arrived[0][Begun + 1] /\ job'[0] \in Record /\ promise[job'[0]] = "accepted"
           /\ promise' = [promise EXCEPT ![job'[0]] = "running"]
<1> DEFINE r == Head(queue[0])
<1>1. /\ queue \in [0 .. 0 -> Seq(Record)] /\ job \in [0 .. 0 -> Record \cup {None}] /\ Loop!get_queue(0) = 0
      /\ wpc \in [0 .. 0 -> {"unborn", "pop", "wait", "run", "clear", "done"}]
    BY LoopShape, LoopFacts
<1>2. /\ wpc[0] = "pop" /\ queue[0] # <<>> /\ wpc' = [wpc EXCEPT ![0] = "run"]
      /\ job' = [job EXCEPT ![0] = r] /\ queue' = [queue EXCEPT ![0] = Tail(queue[0])]
      /\ promise' = [promise EXCEPT ![r] = "running"] /\ UNCHANGED <<arrived, pushing>>
    BY <1>1 DEF Loop!PopTask, Loop!Popped, Loop!clients
<1>3. queue[0] \in Seq(Record) /\ r = queue[0][1] /\ 1 \in 1 .. Len(queue[0]) /\ Len(Tail(queue[0])) = Len(queue[0]) - 1
    BY <1>1, <1>2
<1>4. /\ Len(arrived[0]) \in Nat /\ Len(queue[0]) \in Nat /\ Begun \in Nat
      /\ r = arrived[0][Begun + 1] /\ promise[r] = "accepted"
    BY <1>3, OrderFacts
<1>5. Begun + 1 \in 1 .. Len(arrived[0])
  <2>1. Len(queue[0]) >= 1
    BY <1>3, <1>4
  <2>2. \A a, b \in Nat : b >= 1 /\ a - b \in Nat => a - b + 1 \in 1 .. a
    OBVIOUS
  <2> QED BY ONLY <1>4, <2>1, <2>2 DEF Begun
<1>6. r \in Record
    BY <1>4, <1>5, OrderFacts
<1> HIDE DEF r
<1>7. job'[0] = r /\ queue'[0] = Tail(queue[0]) /\ wpc'[0] = "run"
    BY <1>1, <1>2
<1>8. Begun' = Begun + 1
    BY <1>2, <1>3, <1>4, <1>7 DEF Begun
<1> QED BY <1>2, <1>4, <1>5, <1>6, <1>7, <1>8

LEMMA LoopClears ==
    ASSUME Group!IInv, Group!OInv, Loop!ClearQueue(0)
    PROVE  /\ wpc[0] = "clear" /\ wpc'[0] = "done" /\ queue[0] = <<>> /\ queue'[0] = <<>>
           /\ UNCHANGED <<arrived, job, pushing, promise>>
<1>1. /\ queue \in [0 .. 0 -> Seq(Record)] /\ Loop!get_queue(0) = 0
      /\ wpc \in [0 .. 0 -> {"unborn", "pop", "wait", "run", "clear", "done"}]
      /\ promise \in [Record -> {"new", "refused", "value", "exception", "abandoned", "accepted", "running"}]
    BY LoopShape, LoopFacts
<1>2. /\ wpc[0] = "clear" /\ wpc' = [wpc EXCEPT ![0] = "done"] /\ queue' = [queue EXCEPT ![0] = <<>>]
      /\ promise' = [m \in Record |-> IF m \in Loop!Left(0) THEN "abandoned" ELSE promise[m]]
      /\ UNCHANGED <<arrived, job, pushing>>
    BY <1>1 DEF Loop!ClearQueue, Loop!clients
<1>3. queue[0] = <<>>
    BY <1>2, LoopFacts
<1>4. \A m : m \notin Loop!Left(0)
    BY <1>3 DEF Loop!Left, Loop!ToSet
<1>5. promise' = promise
    BY <1>1, <1>2, <1>4
<1> QED BY <1>1, <1>2, <1>3, <1>5

LEMMA LoopPushes ==
    ASSUME Group!IInv, Group!OInv, NEW t \in Line, Loop!PushQueue(t)
    PROVE  /\ pushing[t] \in Record /\ promise[pushing[t]] = "new" /\ pushing' = [pushing EXCEPT ![t] = None]
           /\ job' = job /\ (wpc'[0] = "run" <=> wpc[0] = "run") /\ (wpc'[0] = "done" <=> wpc[0] = "done")
           /\ \/ /\ ~Loop!push_stopped(target[t]) /\ wpc[0] # "done"
                 /\ arrived'[0] = Append(arrived[0], pushing[t]) /\ Begun' = Begun
                 /\ promise' = [promise EXCEPT ![pushing[t]] = "accepted"]
              \/ /\ Loop!push_stopped(target[t])
                 /\ UNCHANGED <<arrived, queue>>
                 /\ promise' = [promise EXCEPT ![pushing[t]] = "refused"]
<1>1. /\ queue \in [0 .. 0 -> Seq(Record)] /\ arrived \in [0 .. 0 -> Seq(Record)]
      /\ target[t] = 0 /\ (wpc[0] = "done" => stopped[0])
    BY LoopShape
<1>2. /\ cpc[t] = "push" /\ pushing' = [pushing EXCEPT ![t] = None] /\ job' = job
      /\ \/ /\ ~Loop!push_stopped(target[t])
            /\ queue' = [queue EXCEPT ![0] = Append(@, pushing[t])]
            /\ arrived' = [arrived EXCEPT ![0] = Append(@, pushing[t])]
            /\ promise' = [promise EXCEPT ![pushing[t]] = "accepted"]
            /\ Loop!NotifyAll(target[t])
         \/ /\ Loop!push_stopped(target[t])
            /\ promise' = [promise EXCEPT ![pushing[t]] = "refused"]
            /\ UNCHANGED <<queue, arrived, wpc>>
    BY <1>1 DEF Loop!PushQueue
<1>3. pushing[t] \in Record /\ promise[pushing[t]] = "new"
    BY <1>2, LoopFacts, NoneAssumption
<1>4. (wpc'[0] = "run" <=> wpc[0] = "run") /\ (wpc'[0] = "done" <=> wpc[0] = "done")
    BY <1>2, NotifiedQuiet
<1>5. CASE ~Loop!push_stopped(target[t])
  <2>1. /\ arrived'[0] = Append(arrived[0], pushing[t]) /\ queue'[0] = Append(queue[0], pushing[t])
        /\ arrived[0] \in Seq(Record) /\ queue[0] \in Seq(Record)
        /\ promise' = [promise EXCEPT ![pushing[t]] = "accepted"]
    BY <1>1, <1>2, <1>5
  <2>2. Begun' = Begun
    <3>1. Len(arrived'[0]) = Len(arrived[0]) + 1 /\ Len(queue'[0]) = Len(queue[0]) + 1
      BY <1>3, <2>1, AppendProperties
    <3>2. \A a, b \in Nat : (a + 1) - (b + 1) = a - b
      OBVIOUS
    <3>3. Len(arrived[0]) \in Nat /\ Len(queue[0]) \in Nat
      BY <2>1
    <3> QED BY ONLY <3>1, <3>2, <3>3 DEF Begun
  <2>3. wpc[0] # "done"
    BY <1>1, <1>5 DEF Loop!push_stopped
  <2> QED BY <1>2, <1>3, <1>4, <1>5, <2>1, <2>2, <2>3
<1>6. CASE Loop!push_stopped(target[t])
    BY <1>2, <1>3, <1>4, <1>6
<1> QED BY <1>5, <1>6

-----------------------------------------------------------------------------

(* A thread has a line while it has buffers for it, and nobody else has or *)
(* had that line; its buffers hold the line's pages.                       *)
LineWritten(t) ==
    /\ record[t] = None <=> line[t] = <<>>
    /\ record[t] # None =>
          /\ promise[record[t]] = "new" /\ pages[record[t]] = 0
          /\ \A u \in Line : record[u] = record[t] => u = t
    /\ \A i \in 1 .. Len(line[t]) : content[line[t][i]] = <<record[t], i>>

(* So do those of a line that was pushed; they are all there until the     *)
(* worker releases them.                                                   *)
Underway(r) == promise[r] \in {"accepted", "running"} \/ \E c \in Line \cup {Owner} : pushing[c] = r

ItemsWritten(r) ==
    /\ \A i \in 1 .. Len(items[r]) : content[items[r][i]] = <<r, i>>
    /\ Underway(r) => Len(items[r]) = pages[r] /\ pages[r] # 0

Written == (\A t \in Line : LineWritten(t)) /\ (\A r \in Record : ItemsWritten(r))

(* What malloc's caller writes is written to no buffer in use.             *)
LEMMA BufferIsFree ==
    ASSUME LInv, NEW t \in Line, NEW r \in Record, malloc(<<r, Len(line[t]) + 1>>)
    PROVE  /\ content'[Head(buffers)] = <<r, Len(line[t]) + 1>>
           /\ \A u \in Line : \A i \in 1 .. Len(line[u]) : content'[line[u][i]] = content[line[u][i]]
           /\ \A v \in Record : \A i \in 1 .. Len(items[v]) : content'[items[v][i]] = content[items[v][i]]
<1> DEFINE h == Head(buffers)  page == <<r, Len(line[t]) + 1>>
<1>1. /\ available \in Seq(Nat) /\ line \in [Line -> Seq(Nat)] /\ items \in [Record -> Seq(Nat)]
      /\ made \in Nat /\ made # 0 /\ \A b : In(Lists, b) => b \in 1 .. made
      /\ Alone(Laid(available, line, items))
    BY DEF LInv, Shapes, Placed, Lists
<1>2. /\ fillCount \in Nat /\ buffers \in Seq(Nat) /\ buffers # <<>>
      /\ Alone(Laid(buffers, line, items))
      /\ \A b : In(Laid(buffers, line, items), b) => b \in 1 .. made + fillCount
    BY BuffersMade DEF LInv
<1>3. Has(buffers, h)
  <2>1. h = buffers[1] /\ 1 \in 1 .. Len(buffers)
    BY <1>2
  <2> QED BY <2>1 DEF Has
<1>4. h \in 1 .. made + fillCount
    BY <1>1, <1>2, <1>3, PoolFacts
<1>5. /\ made' = made + fillCount
      /\ content' = [b \in 1 .. made' |-> IF b = h THEN page ELSE IF b <= made THEN content[b] ELSE None]
    BY DEF malloc, mallocLeaving
<1>6. \A u \in Line : \A b : Has(line[u], b) => b \in 1 .. made /\ b # h
  <2>1. \A u \in Line : \A b : Has(line[u], b) => ~Has(buffers, b)
    BY <1>1, <1>2, PoolFacts
  <2>2. \A u \in Line : \A b : Has(line[u], b) => In(Lists, b)
    BY <1>1, PoolFacts DEF Lists
  <2> QED BY <1>1, <1>3, <2>1, <2>2
<1>7. \A v \in Record : \A b : Has(items[v], b) => b \in 1 .. made /\ b # h
  <2>1. \A v \in Record : \A b : Has(items[v], b) => ~Has(buffers, b)
    BY <1>1, <1>2, PoolFacts
  <2>2. \A v \in Record : \A b : Has(items[v], b) => In(Lists, b)
    BY <1>1, PoolFacts DEF Lists
  <2> QED BY <1>1, <1>3, <2>1, <2>2
<1> HIDE DEF h, page
<1>8. content'[h] = page /\ \A b \in 1 .. made : b # h => content'[b] = content[b]
  <2>1. \A b \in 1 .. made : b \in 1 .. made' /\ b <= made
    BY <1>1, <1>2, <1>5
  <2> HIDE DEF fillCount, buffers
  <2> QED BY <1>4, <1>5, <2>1
<1>9. ASSUME NEW u \in Line, NEW i \in 1 .. Len(line[u]) PROVE content'[line[u][i]] = content[line[u][i]]
  <2>1. Has(line[u], line[u][i])
    BY DEF Has
  <2> QED BY <1>6, <1>8, <2>1
<1>10. ASSUME NEW v \in Record, NEW i \in 1 .. Len(items[v]) PROVE content'[items[v][i]] = content[items[v][i]]
  <2>1. Has(items[v], items[v][i])
    BY DEF Has
  <2> QED BY <1>7, <1>8, <2>1
<1> QED BY <1>8, <1>9, <1>10 DEF h, page

(* A thread writes a page of its line.                                     *)
LEMMA WriteWritten ==
    ASSUME Group!IInv, LInv, Rest, Written, NEW t \in Line, LogWrite(t)
    PROVE  Written'
<1> DEFINE h == Head(buffers)
<1>1. PICK r \in Record :
          /\ IF line[t] # <<>> THEN r = record[t]
             ELSE promise[r] = "new" /\ pages[r] = 0 /\ \A u \in Line : record[u] # r
          /\ record' = [record EXCEPT ![t] = r]
          /\ malloc(<<r, Len(line[t]) + 1>>)
    BY DEF LogWrite
<1>2. /\ line' = [line EXCEPT ![t] = Append(line[t], h)] /\ items' = items /\ pages' = pages
      /\ promise' = promise /\ pushing' = pushing
    BY DEF LogWrite, messages, loopVars
<1>3. /\ content'[h] = <<r, Len(line[t]) + 1>>
      /\ \A u \in Line : \A i \in 1 .. Len(line[u]) : content'[line[u][i]] = content[line[u][i]]
      /\ \A v \in Record : \A i \in 1 .. Len(items[v]) : content'[items[v][i]] = content[items[v][i]]
    BY <1>1, BufferIsFree
<1>4. /\ line \in [Line -> Seq(Nat)] /\ record \in [Line -> Record \cup {None}] /\ None \notin Record /\ h \in Nat
  <2>1. buffers \in Seq(Nat) /\ buffers # <<>>
    BY BuffersMade DEF LInv
  <2> QED BY <2>1, NoneAssumption DEF LInv, Shapes, Rest
<1> HIDE DEF h
<1>5. /\ record'[t] = r /\ \A u \in Line \ {t} : record'[u] = record[u] /\ line'[u] = line[u]
      /\ line'[t] = Append(line[t], h) /\ line[t] \in Seq(Nat) /\ Len(line[t]) \in Nat
    BY <1>1, <1>2, <1>4
<1>6. /\ Len(line'[t]) = Len(line[t]) + 1 /\ line'[t] # <<>> /\ line'[t][Len(line[t]) + 1] = h
      /\ \A i \in 1 .. Len(line[t]) : line'[t][i] = line[t][i]
  <2>1. \A s \in Seq(Nat) : /\ Len(Append(s, h)) = Len(s) + 1 /\ Append(s, h)[Len(s) + 1] = h
                            /\ \A i \in 1 .. Len(s) : Append(s, h)[i] = s[i]
    BY <1>4, AppendProperties
  <2>2. \A s \in Seq(Nat) : Append(s, h) # <<>>
    BY <1>4, AppendProperties, EmptySeq
  <2> QED BY <1>5, <2>1, <2>2
<1>7. promise[r] = "new" /\ pages[r] = 0 /\ \A u \in Line : record[u] = r => u = t
  <2>1. CASE line[t] # <<>>
    <3>1. LineWritten(t) /\ r = record[t] /\ record[t] # None
      BY <1>1, <1>4, <2>1 DEF Written
    <3> QED BY <3>1 DEF LineWritten
  <2>2. CASE line[t] = <<>>
    BY <1>1, <2>2
  <2> QED BY <2>1, <2>2
<1>8. ASSUME NEW u \in Line, u # t PROVE LineWritten(u)'
  <2>1. LineWritten(u)
    BY DEF Written
  <2>2. record'[u] = record[u] /\ line'[u] = line[u]
    BY <1>5, <1>8
  <2>3. \A i \in 1 .. Len(line[u]) : content'[line[u][i]] = <<record[u], i>>
    BY <1>3, <2>1 DEF LineWritten
  <2>4. record[u] # r
    BY <1>7, <1>8
  <2>5. record[u] # None => \A w \in Line : record'[w] = record[u] => w = u
    BY <1>5, <2>1, <2>4 DEF LineWritten
  <2> QED BY <1>2, <2>1, <2>2, <2>3, <2>5 DEF LineWritten
<1>9. LineWritten(t)'
  <2>1. r # None
    BY <1>4
  <2>2. \A i \in 1 .. Len(line[t]) : content'[line[t][i]] = <<r, i>>
    <3>1. CASE line[t] = <<>>
      BY <3>1
    <3>2. CASE line[t] # <<>>
      <4>1. LineWritten(t) /\ r = record[t]
        BY <1>1, <3>2 DEF Written
      <4> QED BY <1>3, <4>1 DEF LineWritten
    <3> QED BY <3>1, <3>2
  <2>3. ASSUME NEW i \in 1 .. Len(line'[t]) PROVE content'[line'[t][i]] = <<r, i>>
    <3>1. i \in 1 .. Len(line[t]) \/ i = Len(line[t]) + 1
      BY <1>5, <1>6
    <3>2. CASE i \in 1 .. Len(line[t])
      BY <1>6, <2>2, <3>2
    <3>3. CASE i = Len(line[t]) + 1
      BY <1>3, <1>6, <3>3
    <3> QED BY <3>1, <3>2, <3>3
  <2>4. \A u \in Line : record'[u] = r => u = t
    BY <1>5, <1>7
  <2> QED BY <1>2, <1>5, <1>6, <1>7, <2>1, <2>3, <2>4 DEF LineWritten
<1>10. ASSUME NEW v \in Record PROVE ItemsWritten(v)'
  <2>1. ItemsWritten(v)
    BY DEF Written
  <2> QED BY <1>2, <1>3, <2>1 DEF ItemsWritten, Underway
<1> QED BY <1>8, <1>9, <1>10 DEF Written

(* It pushes the line.                                                     *)
LEMMA FlushWritten ==
    ASSUME Group!IInv, LInv, Rest, Written, NEW t \in Line, LogFlush(t)
    PROVE  Written'
<1>0. PICK r \in Record : r = record[t]
    BY FlushFacts
<1>1. /\ r \in Record /\ promise[r] = "new" /\ pushing' = [pushing EXCEPT ![t] = r] /\ promise' = promise
    BY <1>0, FlushFacts
<1>2. /\ line[t] # <<>> /\ items' = [items EXCEPT ![r] = line[t]] /\ pages' = [pages EXCEPT ![r] = Len(line[t])]
      /\ line' = [line EXCEPT ![t] = <<>>] /\ record' = [record EXCEPT ![t] = None] /\ content' = content
    BY <1>0 DEF LogFlush, pool
<1>3. /\ line \in [Line -> Seq(Nat)] /\ items \in [Record -> Seq(Nat)] /\ record \in [Line -> Record \cup {None}]
      /\ pages \in [Record -> 0 .. MaxPages] /\ pushing \in [Line \cup {Owner} -> Record \cup {None}]
      /\ None \notin Record
    BY LoopFacts, NoneAssumption DEF LInv, Shapes, Rest
<1>4. LineWritten(t) /\ r = record[t]
    BY <1>0 DEF Written
<1>5. /\ line'[t] = <<>> /\ record'[t] = None /\ items'[r] = line[t] /\ pages'[r] = Len(line[t])
      /\ \A u \in Line \ {t} : line'[u] = line[u] /\ record'[u] = record[u]
      /\ \A v \in Record \ {r} : items'[v] = items[v] /\ pages'[v] = pages[v]
      /\ \A c \in Line \cup {Owner} : c # t => pushing'[c] = pushing[c]
      /\ pushing'[t] = r
    BY <1>1, <1>2, <1>3
<1>6. Len(line[t]) \in Nat /\ Len(line[t]) # 0
  <2>1. line[t] \in Seq(Nat)
    BY <1>3
  <2> QED BY <1>2, <2>1, EmptySeq
<1>7. LineWritten(t)'
  <2>1. 1 .. Len(line'[t]) = {}
    BY <1>5
  <2> QED BY <1>5, <2>1 DEF LineWritten
<1>8. ASSUME NEW u \in Line, u # t PROVE LineWritten(u)'
  <2>1. LineWritten(u)
    BY DEF Written
  <2>2. line'[u] = line[u] /\ record'[u] = record[u] /\ record[u] # r
    BY <1>1, <1>3, <1>4, <1>5, <1>8 DEF LineWritten
  <2>3. record[u] # None => pages'[record[u]] = pages[record[u]]
    BY <1>3, <1>5, <2>2
  <2>4. record[u] # None => \A w \in Line : record'[w] = record[u] => w = u
    BY <1>5, <2>1 DEF LineWritten
  <2> QED BY <1>1, <1>2, <2>1, <2>2, <2>3, <2>4 DEF LineWritten
<1>9. ItemsWritten(r)'
  <2>1. \A i \in 1 .. Len(line[t]) : content'[line[t][i]] = <<r, i>>
    BY <1>2, <1>4 DEF LineWritten
  <2> QED BY <1>5, <1>6, <2>1 DEF ItemsWritten
<1>10. ASSUME NEW v \in Record, v # r PROVE ItemsWritten(v)'
  <2>1. ItemsWritten(v) /\ items'[v] = items[v] /\ pages'[v] = pages[v]
    BY <1>5, <1>10 DEF Written
  <2>2. Underway(v)' => Underway(v)
    BY <1>1, <1>5, <1>10 DEF Underway
  <2> QED BY <1>2, <2>1, <2>2 DEF ItemsWritten
<1> QED BY <1>7, <1>8, <1>9, <1>10 DEF Written

(* Other steps write nothing and begin no line; they may drop a list.      *)
LEMMA WrittenKept ==
    ASSUME Written, UNCHANGED <<line, record, pages, content>>,
           \A u \in Line : record[u] # None => promise'[record[u]] = "new",
           \A v \in Record : \/ items'[v] = items[v] /\ (Underway(v)' => Underway(v))
                             \/ items'[v] = <<>> /\ ~Underway(v)'
    PROVE  Written'
<1>1. ASSUME NEW u \in Line PROVE LineWritten(u)'
    BY DEF Written, LineWritten
<1>2. ASSUME NEW v \in Record PROVE ItemsWritten(v)'
  <2>1. ItemsWritten(v)
    BY DEF Written
  <2>2. CASE items'[v] = items[v] /\ (Underway(v)' => Underway(v))
    BY <2>1, <2>2 DEF ItemsWritten
  <2>3. CASE items'[v] = <<>> /\ ~Underway(v)'
    <3>1. 1 .. Len(items'[v]) = {}
      BY <2>3
    <3> QED BY <2>3, <3>1 DEF ItemsWritten
  <2> QED BY <2>2, <2>3
<1> QED BY <1>1, <1>2 DEF Written

(* The line being pushed is no thread's any more.                          *)
LEMMA PushWritten ==
    ASSUME Group!IInv, Group!OInv, LInv, Rest, Written, NEW t \in Line, LogPush(t)
    PROVE  Written'
<1>0. PICK r \in Record : r = pushing[t]
    BY PushFacts
<1>1. /\ r \in Record /\ promise[r] = "new" /\ pushing' = [pushing EXCEPT ![t] = None]
      /\ UNCHANGED <<line, record, pages, content>>
      /\ \/ promise' = [promise EXCEPT ![r] = "accepted"] /\ items' = items
         \/ promise' = [promise EXCEPT ![r] = "refused"] /\ items' = [items EXCEPT ![r] = <<>>]
    BY <1>0, PushFacts DEF LogPush, lines, pool
<1>2. /\ items \in [Record -> Seq(Nat)] /\ pushing \in [Line \cup {Owner} -> Record \cup {None}]
      /\ promise \in [Record -> {"new", "refused", "value", "exception", "abandoned", "accepted", "running"}]
      /\ record \in [Line -> Record \cup {None}] /\ None \notin Record
      /\ \A c \in Line \cup {Owner} : pushing[c] = pushing[t] => c = t
  <2>1. \A c \in Line \cup {Owner} : pushing[t] # None /\ pushing[c] = pushing[t] => c = t
    BY LoopFacts
  <2> QED BY <1>0, <1>1, <2>1, LoopFacts, NoneAssumption DEF LInv, Shapes, Rest
<1>3. Underway(r)
    BY <1>0 DEF Underway
<1>4. pages[r] # 0
    BY <1>1, <1>3 DEF Written, ItemsWritten
<1>6. ASSUME NEW u \in Line, record[u] # None PROVE promise'[record[u]] = "new"
  <2>1. record[u] \in Record /\ promise[record[u]] = "new" /\ pages[record[u]] = 0
    BY <1>2, <1>6 DEF Written, LineWritten
  <2> QED BY <1>1, <1>2, <1>4, <2>1
<1>7. ASSUME NEW v \in Record, v # r PROVE items'[v] = items[v] /\ (Underway(v)' => Underway(v))
  <2>1. items'[v] = items[v] /\ promise'[v] = promise[v]
    BY <1>1, <1>2, <1>7
  <2>2. \A c \in Line \cup {Owner} : pushing'[c] = v => pushing[c] = v
    BY <1>1, <1>2
  <2> QED BY <2>1, <2>2 DEF Underway
<1>8. CASE promise' = [promise EXCEPT ![r] = "accepted"] /\ items' = items
    BY <1>1, <1>3, <1>6, <1>7, <1>8, WrittenKept
<1>9. CASE promise' = [promise EXCEPT ![r] = "refused"] /\ items' = [items EXCEPT ![r] = <<>>]
  <2>1. items'[r] = <<>> /\ promise'[r] = "refused"
    BY <1>1, <1>2, <1>9
  <2>2. \A c \in Line \cup {Owner} : pushing'[c] # r
    BY <1>0, <1>1, <1>2
  <2>3. ~Underway(r)'
    BY <2>1, <2>2 DEF Underway
  <2> QED BY <1>1, <1>6, <1>7, <2>1, <2>3, WrittenKept
<1> QED BY <1>1, <1>8, <1>9

(* The worker has written the line it releases.                            *)
LEMMA ReleaseWritten ==
    ASSUME Group!IInv, LInv, Rest, Written, ReleaseItems
    PROVE  Written'
<1>0. PICK r \in Record : r = job[0]
    BY ReleaseFacts
<1>1. /\ r \in Record /\ promise[r] = "running" /\ promise' = [promise EXCEPT ![r] = "value"]
      /\ items' = [items EXCEPT ![r] = <<>>] /\ pushing' = pushing
      /\ UNCHANGED <<line, record, pages, content>>
    BY <1>0, ReleaseFacts DEF ReleaseItems, ReleaseAt, release, lines
<1>2. /\ items \in [Record -> Seq(Nat)] /\ pushing \in [Line \cup {Owner} -> Record \cup {None}]
      /\ promise \in [Record -> {"new", "refused", "value", "exception", "abandoned", "accepted", "running"}]
      /\ record \in [Line -> Record \cup {None}] /\ None \notin Record
      /\ \A c \in Line \cup {Owner} : pushing[c] # None => promise[pushing[c]] = "new"
    BY LoopFacts, NoneAssumption DEF LInv, Shapes, Rest
<1>3. ASSUME NEW u \in Line, record[u] # None PROVE promise'[record[u]] = "new"
  <2>1. record[u] \in Record /\ promise[record[u]] = "new"
    BY <1>2, <1>3 DEF Written, LineWritten
  <2> QED BY <1>1, <1>2, <2>1
<1>4. ASSUME NEW v \in Record, v # r PROVE items'[v] = items[v] /\ (Underway(v)' => Underway(v))
    BY <1>1, <1>2, <1>4 DEF Underway
<1>5. items'[r] = <<>> /\ ~Underway(r)'
  <2>1. items'[r] = <<>> /\ promise'[r] = "value"
    BY <1>1, <1>2
  <2>2. \A c \in Line \cup {Owner} : pushing[c] # r
    BY <1>1, <1>2
  <2> QED BY <1>1, <2>1, <2>2 DEF Underway
<1> QED BY <1>1, <1>3, <1>4, <1>5, WrittenKept

(* What is underway is so after a step of the loop's own.                  *)
LEMMA LoopWritten ==
    ASSUME Group!IInv, Group!OInv, LInv, Rest, Written, UNCHANGED <<lines, pages, content, items>>,
           (Quiet /\ pushing' = pushing) \/ Loop!PopTask(0) \/ Loop!ClearQueue(0)
    PROVE  Written'
<1>1. UNCHANGED <<line, record, pages, content, items>> /\ pushing' = pushing
    BY LoopPops, LoopClears DEF lines
<1>2. CASE promise' = promise
  <2>1. ASSUME NEW u \in Line, record[u] # None PROVE promise'[record[u]] = "new"
    BY <1>2, <2>1 DEF Written, LineWritten
  <2>2. ASSUME NEW v \in Record PROVE items'[v] = items[v] /\ (Underway(v)' => Underway(v))
    BY <1>1, <1>2 DEF Underway
  <2> QED BY <1>1, <2>1, <2>2, WrittenKept
<1>3. CASE Loop!PopTask(0)
  <2> DEFINE r == job'[0]
  <2>1. r \in Record /\ promise[r] = "accepted" /\ promise' = [promise EXCEPT ![r] = "running"]
    BY <1>3, LoopPops
  <2> HIDE DEF r
  <2>2. /\ promise \in [Record -> {"new", "refused", "value", "exception", "abandoned", "accepted", "running"}]
        /\ record \in [Line -> Record \cup {None}]
    BY LoopFacts DEF Rest
  <2>3. ASSUME NEW u \in Line, record[u] # None PROVE promise'[record[u]] = "new"
    <3>1. record[u] \in Record /\ promise[record[u]] = "new"
      BY <2>2, <2>3 DEF Written, LineWritten
    <3> QED BY <2>1, <2>2, <3>1
  <2>4. ASSUME NEW v \in Record PROVE items'[v] = items[v] /\ (Underway(v)' => Underway(v))
    BY <1>1, <2>1, <2>2 DEF Underway
  <2> QED BY <1>1, <2>3, <2>4, WrittenKept
<1> QED BY <1>2, <1>3, LoopClears DEF Quiet

-----------------------------------------------------------------------------

(* The worker runs the line it took last, after every step.                *)
LEMMA RunsStep ==
    ASSUME Group!IInv, Group!OInv, RunsLast,
           \/ Quiet \/ Loop!PopTask(0) \/ Loop!ClearQueue(0) \/ ReleaseItems
           \/ \E t \in Line : Loop!PushQueue(t)
    PROVE  RunsLast'
<1>1. CASE Quiet
    BY <1>1 DEF Quiet, RunsLast, Begun
<1>2. CASE Loop!PopTask(0)
    BY <1>2, LoopPops DEF RunsLast
<1>3. CASE Loop!ClearQueue(0) \/ ReleaseItems
    BY <1>3, LoopClears, ReleaseFacts DEF RunsLast
<1>4. ASSUME NEW t \in Line, Loop!PushQueue(t) PROVE RunsLast'
  <2>1. job' = job /\ (wpc'[0] = "run" <=> wpc[0] = "run") /\ pushing[t] \in Record
    BY <1>4, LoopPushes
  <2>2. CASE UNCHANGED <<arrived, queue>>
    BY <2>1, <2>2 DEF RunsLast, Begun
  <2>3. CASE arrived'[0] = Append(arrived[0], pushing[t]) /\ Begun' = Begun
    <3>1. arrived[0] \in Seq(Record)
      BY OrderFacts
    <3>2. /\ Len(arrived'[0]) = Len(arrived[0]) + 1 /\ Len(arrived[0]) \in Nat
          /\ \A i \in 1 .. Len(arrived[0]) : arrived'[0][i] = arrived[0][i]
      BY <2>1, <2>3, <3>1, AppendProperties
    <3>3. \A i \in 1 .. Len(arrived[0]) : i \in 1 .. Len(arrived'[0])
      BY <3>2
    <3> QED BY <2>1, <2>3, <3>2, <3>3 DEF RunsLast
  <2> QED BY <1>4, <2>2, <2>3, LoopPushes
<1> QED BY <1>1, <1>2, <1>3, <1>4

(* The invariant of the stream.                                            *)
SInv == Group!IInv /\ Group!OInv /\ LInv /\ Rest /\ Written /\ RunsLast

(* Which of the loop's steps a step of the logger is, and what it leaves.  *)
LEMMA StepKinds ==
    ASSUME Group!IInv, [Next]_vars
    PROVE  \/ \E t \in Line : LogWrite(t) /\ Quiet /\ pushing' = pushing
           \/ \E t \in Line : LogFlush(t) /\ Quiet
           \/ \E t \in Line : LogPush(t) /\ Loop!PushQueue(t)
           \/ WriteTime /\ Quiet /\ pushing' = pushing
           \/ WriteItem /\ Quiet /\ pushing' = pushing
           \/ ReleaseItems
           \/ /\ UNCHANGED <<lines, pages, content, items, item, last>>
              /\ (Quiet /\ pushing' = pushing) \/ Loop!PopTask(0) \/ Loop!ClearQueue(0)
<1>1. ASSUME NEW t \in Line, LogWrite(t) PROVE Quiet /\ pushing' = pushing
    BY <1>1, QuietSteps DEF LogWrite
<1>2. ASSUME NEW t \in Line, LogFlush(t) PROVE Quiet
  <2>1. UNCHANGED <<queue, arrived, promise, wpc, job>>
    BY <1>2 DEF LogFlush, Loop!PushDispatch, Loop!queues, Loop!workers
  <2> QED BY <2>1 DEF Quiet
<1>3. ASSUME NEW t \in Line, LogPush(t) PROVE Loop!PushQueue(t)
    BY <1>3 DEF LogPush
<1>4. ASSUME WriteTime \/ WriteItem PROVE Quiet /\ pushing' = pushing
    BY <1>4, QuietSteps DEF WriteTime, WriteItem
<1>5. ASSUME UNCHANGED vars \/ start \/ StopLoop \/ close_log
      PROVE  UNCHANGED <<lines, pages, content, items, item, last>> /\ Quiet /\ pushing' = pushing
  <2>1. UNCHANGED <<lines, pages, content, items, item, last>>
    BY <1>5 DEF vars, start, StopLoop, close_log, Close, messages, pool
  <2>2. \/ UNCHANGED loopVars \/ Loop!StartThread
        \/ Loop!StopFlag(Owner) \/ Loop!StopQueue(Owner) \/ Loop!Join(Owner)
    BY <1>5 DEF vars, start, StopLoop, close_log, Close
  <2> QED BY <2>1, <2>2, QuietSteps
<1>6. ASSUME WorkerLoop
      PROVE  /\ UNCHANGED <<lines, pages, content, items, item, last>>
             /\ (Quiet /\ pushing' = pushing) \/ Loop!PopTask(0) \/ Loop!ClearQueue(0)
  <2>1. UNCHANGED <<lines, pages, content, items, item, last>>
    BY <1>6 DEF WorkerLoop, messages, pool
  <2>2. \/ Loop!PopWait(0) \/ Loop!WaitTimeout(0) \/ Loop!PopStopped(0)
        \/ Loop!PopTask(0) \/ Loop!ClearQueue(0)
    BY <1>6 DEF WorkerLoop
  <2> QED BY <2>1, <2>2, QuietSteps
<1> QED BY <1>1, <1>2, <1>3, <1>4, <1>5, <1>6 DEF Next, WorkerStep

LEMMA StreamStep == SInv /\ [Next]_vars => SInv'
<1> SUFFICES ASSUME SInv, [Next]_vars PROVE SInv'
    OBVIOUS
<1>0. Group!IInv /\ Group!OInv /\ LInv /\ Rest /\ Written /\ RunsLast
    BY DEF SInv
<1>1. Group!IInv' /\ LInv' /\ Rest'
    BY <1>0, LoopStep, LStep, RestStep
<1>2. Group!OInv'
    BY <1>0, LoopSteps, Group!OrderStep, NoneAssumption
<1>3. Written'
  <2>1. ASSUME NEW t \in Line, LogWrite(t) \/ LogFlush(t) \/ LogPush(t) PROVE Written'
    BY <1>0, <2>1, WriteWritten, FlushWritten, PushWritten
  <2>2. CASE (WriteTime \/ WriteItem) /\ Quiet /\ pushing' = pushing
    <3>1. UNCHANGED <<lines, pages, content, items>>
      BY <2>2 DEF WriteTime, WriteItem, messages, pool
    <3> QED BY <1>0, <2>2, <3>1, LoopWritten
  <2>3. CASE ReleaseItems
    BY <1>0, <2>3, ReleaseWritten
  <2>4. CASE /\ UNCHANGED <<lines, pages, content, items, item, last>>
             /\ (Quiet /\ pushing' = pushing) \/ Loop!PopTask(0) \/ Loop!ClearQueue(0)
    BY <1>0, <2>4, LoopWritten
  <2> QED BY <1>0, <2>1, <2>2, <2>3, <2>4, StepKinds
<1>4. RunsLast'
    BY <1>0, StepKinds, RunsStep
<1> QED BY <1>1, <1>2, <1>3, <1>4 DEF SInv

LEMMA StreamInit == Init => SInv
<1> SUFFICES ASSUME Init PROVE SInv
    OBVIOUS
<1>1. Group!IInv /\ LInv /\ Rest
    BY LoopInit, LInit, RestInit
<1>2. Group!OInv
  <2>1. Group!Init
    BY DEF Init, Loop!Init, Group!Init, Loop!Queue, Group!Queue, Loop!Worker, Group!Worker,
           Loop!get_queue, Group!get_queue
  <2> QED BY <2>1, Group!InitOrder, NoneAssumption
<1>3. /\ line = [t \in Line |-> <<>>] /\ record = [t \in Line |-> None] /\ items = [r \in Record |-> <<>>]
      /\ promise = [m \in Record |-> "new"] /\ pushing = [c \in Line \cup {Owner} |-> None]
      /\ wpc[0] = "unborn"
    BY DEF Init, Loop!Init, Loop!Worker
<1>4. \A t \in Line : LineWritten(t)
    BY <1>3 DEF LineWritten
<1>5. \A r \in Record : ItemsWritten(r)
    BY <1>3, NoneAssumption DEF ItemsWritten, Underway
<1>6. RunsLast
    BY <1>3 DEF RunsLast
<1> QED BY <1>1, <1>2, <1>4, <1>5, <1>6 DEF SInv, Written

-----------------------------------------------------------------------------

(* The logger as the stream sees it: the lines that arrived, how many the  *)
(* worker has ended, and the place in the line it is at.                   *)
Accepted == Stream(arrived[0])
Ended == Begun - (IF wpc[0] = "run" THEN 1 ELSE 0)
PageOffset == IF item = 0 THEN 0 ELSE item - 1
Position == Len(Stream(Finished)) + PageOffset

LEMMA SameView ==
    ASSUME Accepted' = Accepted, Position' = Position, last' = last, wpc'[0] = "done" <=> wpc[0] = "done"
    PROVE  UNCHANGED Abs!vars
<1>1. Abs!vars = <<Accepted, Position, last, wpc[0] = "done">>
    BY DEF Abs!vars, Accepted, Position, PageOffset
<1>2. Abs!vars' = <<Accepted', Position', last', wpc'[0] = "done">>
    BY DEF Abs!vars, Accepted, Position, PageOffset
<1>3. (wpc'[0] = "done") = (wpc[0] = "done")
    OBVIOUS
<1> QED BY <1>1, <1>2, <1>3

LEMMA EndedFacts ==
    ASSUME SInv
    PROVE  /\ arrived[0] \in Seq(Record) /\ Len(arrived[0]) \in Nat /\ pages \in [Record -> Nat]
           /\ Ended \in 0 .. Len(arrived[0]) /\ Finished = SubSeq(arrived[0], 1, Ended)
           /\ wpc[0] = "run" =>
                 /\ Ended = Begun - 1 /\ Begun \in 1 .. Len(arrived[0]) /\ job[0] = arrived[0][Begun]
                 /\ job[0] \in Record /\ Len(items[job[0]]) = pages[job[0]]
                 /\ item \in 0 .. pages[job[0]] + 1
           /\ wpc[0] # "run" => Ended = Begun /\ item = 0
<1>0. Group!IInv /\ Group!OInv /\ LInv /\ Rest /\ Written /\ RunsLast
    BY DEF SInv
<1>1. /\ arrived[0] \in Seq(Record) /\ Len(arrived[0]) \in Nat
      /\ Begun \in Nat /\ Begun <= Len(arrived[0])
    BY <1>0, OrderFacts
<1>2. pages \in [Record -> Nat]
  <2>1. pages \in [Record -> 0 .. MaxPages] /\ MaxPages \in Nat
    BY <1>0, PoolAssumption DEF Rest
  <2> QED BY <2>1
<1>3. ASSUME wpc[0] = "run"
      PROVE  /\ Ended = Begun - 1 /\ Begun \in 1 .. Len(arrived[0]) /\ job[0] = arrived[0][Begun]
             /\ job[0] \in Record /\ Len(items[job[0]]) = pages[job[0]]
             /\ item \in 0 .. pages[job[0]] + 1
  <2>1. job[0] \in Record /\ promise[job[0]] = "running"
    BY <1>0, <1>3, LoopFacts
  <2>2. Len(items[job[0]]) = pages[job[0]]
    BY <1>0, <2>1 DEF Written, ItemsWritten, Underway
  <2>3. item \in 0 .. Len(items[job[0]]) + 1
    BY <1>0, <1>3 DEF LInv, ItemFits
  <2> QED BY <1>0, <1>3, <2>1, <2>2, <2>3 DEF RunsLast, Ended
<1>4. wpc[0] # "run" => Ended = Begun /\ item = 0
    BY <1>0, <1>1 DEF LInv, ItemFits, Ended
<1>5. Ended \in 0 .. Len(arrived[0])
    BY <1>1, <1>3, <1>4
<1>6. Finished = SubSeq(arrived[0], 1, Ended)
    BY DEF Finished, Ended, Begun
<1> QED BY <1>1, <1>2, <1>3, <1>4, <1>5, <1>6

(* What has not changed when the lines that arrived have not.              *)
LEMMA ViewKept ==
    ASSUME SInv, SInv', arrived'[0] = arrived[0],
           \A k \in 1 .. Len(arrived[0]) : pages'[arrived[0][k]] = pages[arrived[0][k]]
    PROVE  Accepted' = Accepted /\ (Ended' = Ended => Stream(Finished)' = Stream(Finished))
<1>1. /\ arrived[0] \in Seq(Record) /\ Len(arrived[0]) \in Nat /\ Ended \in 0 .. Len(arrived[0])
      /\ Finished = SubSeq(arrived[0], 1, Ended)
    BY EndedFacts
<1>2. Finished' = SubSeq(arrived'[0], 1, Ended')
    BY DEF Finished, Ended, Begun
<1>3. Accepted' = StreamOf(pages', arrived'[0]) /\ Accepted = StreamOf(pages, arrived[0])
    BY IsStream DEF Accepted, Stream, StreamOf, ListsOf, PagesOf
<1>4. Accepted' = Accepted
    BY <1>1, <1>3, StreamKept
<1>5. ASSUME Ended' = Ended PROVE Stream(Finished)' = Stream(Finished)
  <2> DEFINE s == SubSeq(arrived[0], 1, Ended)
  <2>1. s \in Seq(Record) /\ Len(s) = Ended /\ \A k \in 1 .. Len(s) : s[k] = arrived[0][k] /\ k \in 1 .. Len(arrived[0])
    BY <1>1
  <2>2. Finished' = s /\ Finished = s
    BY <1>1, <1>2, <1>5
  <2>3. Stream(Finished)' = StreamOf(pages', Finished') /\ Stream(Finished) = StreamOf(pages, Finished)
    BY DEF Stream, StreamOf, ListsOf, PagesOf
  <2> HIDE DEF s
  <2>4. StreamOf(pages', s) = StreamOf(pages, s)
    BY <2>1, StreamKept
  <2> QED BY <2>2, <2>3, <2>4
<1> QED BY <1>4, <1>5

(* Steps the stream does not see: a line written or pushed to, a time      *)
(* stamp, a line taken from the queue, ...                                 *)
LEMMA Unseen ==
    ASSUME SInv, SInv', arrived'[0] = arrived[0],
           \A k \in 1 .. Len(arrived[0]) : pages'[arrived[0][k]] = pages[arrived[0][k]],
           Ended' = Ended, PageOffset' = PageOffset, last' = last, wpc'[0] = "done" <=> wpc[0] = "done"
    PROVE  UNCHANGED Abs!vars
<1>1. Accepted' = Accepted /\ Position' = Position
    BY ViewKept DEF Position
<1> QED BY <1>1, SameView

LEMMA QuietUnseen ==
    ASSUME SInv, SInv', Quiet, UNCHANGED <<pages, last>>, PageOffset' = PageOffset
    PROVE  UNCHANGED Abs!vars
<1>1. Ended' = Ended
    BY DEF Quiet, Ended, Begun
<1> QED BY <1>1, Unseen DEF Quiet

LEMMA FlushUnseen ==
    ASSUME SInv, SInv', NEW t \in Line, LogFlush(t), Quiet
    PROVE  UNCHANGED Abs!vars
<1>0. Group!IInv /\ Group!OInv /\ LInv /\ Rest
    BY DEF SInv
<1>1. /\ record[t] \in Record /\ promise[record[t]] = "new" /\ pages' = [pages EXCEPT ![record[t]] = Len(line[t])]
      /\ item' = item /\ last' = last
    BY <1>0, FlushFacts DEF LogFlush
<1>2. \A k \in 1 .. Len(arrived[0]) : arrived[0][k] \in Record /\ arrived[0][k] # record[t]
    BY <1>0, <1>1, OrderFacts
<1>3. \A k \in 1 .. Len(arrived[0]) : pages'[arrived[0][k]] = pages[arrived[0][k]]
    BY <1>1, <1>2, EndedFacts
<1>4. Ended' = Ended /\ PageOffset' = PageOffset
    BY <1>1 DEF Quiet, Ended, Begun, PageOffset
<1> QED BY <1>1, <1>3, <1>4, Unseen DEF Quiet

LEMMA PopUnseen ==
    ASSUME SInv, SInv', Loop!PopTask(0), UNCHANGED <<pages, item, last>>
    PROVE  UNCHANGED Abs!vars
<1>0. Group!IInv /\ Group!OInv
    BY DEF SInv
<1>1. /\ wpc[0] = "pop" /\ wpc'[0] = "run" /\ arrived' = arrived /\ Begun' = Begun + 1 /\ Begun \in Nat
    BY <1>0, LoopPops, OrderFacts
<1>2. Ended' = Ended /\ PageOffset' = PageOffset
    BY <1>1 DEF Ended, PageOffset
<1> QED BY <1>1, <1>2, Unseen

(* ... and the end of a line, whose pages it has seen.                     *)
LEMMA ReleaseUnseen ==
    ASSUME SInv, SInv', ReleaseItems
    PROVE  UNCHANGED Abs!vars
<1>0. Group!IInv /\ Group!OInv
    BY DEF SInv
<1>1. /\ wpc[0] = "run" /\ wpc'[0] = "pop" /\ item' = 0 /\ UNCHANGED <<arrived, queue, pages, last>>
      /\ item = Len(items[job[0]]) + 1
    BY <1>0, ReleaseFacts DEF ReleaseItems, ReleaseAt, Loop!RunTask, Loop!queues
<1>2. /\ arrived[0] \in Seq(Record) /\ Len(arrived[0]) \in Nat /\ pages \in [Record -> Nat]
      /\ Ended = Begun - 1 /\ Begun \in 1 .. Len(arrived[0]) /\ job[0] = arrived[0][Begun]
      /\ job[0] \in Record /\ item = pages[job[0]] + 1
      /\ Finished = SubSeq(arrived[0], 1, Begun - 1)
    BY <1>1, EndedFacts
<1>3. Finished' = SubSeq(arrived[0], 1, Begun)
  <2>1. Begun' = Begun
    BY <1>1 DEF Begun
  <2>2. Ended' = Begun
    BY <1>1, <1>2, <2>1 DEF Ended
  <2>3. Finished' = SubSeq(arrived'[0], 1, Ended')
    BY DEF Finished, Ended, Begun
  <2> QED BY <1>1, <2>2, <2>3
<1> DEFINE s == SubSeq(arrived[0], 1, Begun - 1)  r == job[0]
<1>4. s \in Seq(Record) /\ SubSeq(arrived[0], 1, Begun) = Append(s, r)
  <2>1. Begun - 1 \in Nat /\ (Begun - 1) + 1 = Begun /\ Begun <= Len(arrived[0])
    BY <1>2
  <2> QED BY <1>2, <2>1, SubSeqLonger
<1>5. Stream(Finished) = StreamOf(pages, s) /\ Stream(Finished)' = StreamOf(pages, Append(s, r))
  <2>1. Stream(Finished)' = StreamOf(pages', Finished')
    BY DEF Stream, StreamOf, ListsOf, PagesOf
  <2> QED BY <1>1, <1>2, <1>3, <1>4, <2>1, IsStream
<1>6. Len(StreamOf(pages, Append(s, r))) = Len(StreamOf(pages, s)) + pages[r] /\ Len(StreamOf(pages, s)) \in Nat
  <2>1. StreamOf(pages, Append(s, r)) = StreamOf(pages, s) \o PagesOf(pages, r)
    BY <1>2, <1>4, StreamAppended
  <2>2. StreamOf(pages, s) \in Seq(Record \X Nat)
    BY <1>2, <1>4, StreamTyped
  <2>3. PagesOf(pages, r) \in Seq(Record \X Nat) /\ Len(PagesOf(pages, r)) = pages[r]
    BY <1>2, PagesTyped
  <2> QED BY <2>1, <2>2, <2>3, ConcatProperties
<1> HIDE DEF s, r
<1>7. Position' = Position
  <2>1. PageOffset = pages[r] /\ PageOffset' = 0 /\ pages[r] \in Nat
    BY <1>1, <1>2 DEF PageOffset, r
  <2> QED BY <1>5, <1>6, <2>1 DEF Position
<1>8. Accepted' = Accepted
    BY <1>1 DEF Accepted, Stream
<1> QED BY <1>1, <1>7, <1>8, SameView

(* A push accepts a line, ...                                              *)
LEMMA PushAccepts ==
    ASSUME SInv, SInv', NEW t \in Line, LogPush(t)
    PROVE  Abs!Accept \/ UNCHANGED Abs!vars
<1>0. Group!IInv /\ Group!OInv /\ LInv /\ Rest /\ Written
    BY DEF SInv
<1>1. PICK r \in Record : r = pushing[t]
    BY <1>0, PushFacts
<1>2. /\ Loop!PushQueue(t) /\ pages' = pages /\ item' = item /\ last' = last
    BY DEF LogPush
<1>3. /\ promise[r] = "new" /\ (wpc'[0] = "run" <=> wpc[0] = "run") /\ (wpc'[0] = "done" <=> wpc[0] = "done")
      /\ \/ UNCHANGED <<arrived, queue>>
         \/ /\ wpc[0] # "done" /\ arrived'[0] = Append(arrived[0], r) /\ Begun' = Begun
    BY <1>0, <1>1, <1>2, LoopPushes
<1>4. CASE UNCHANGED <<arrived, queue>>
  <2>1. Ended' = Ended /\ PageOffset' = PageOffset
    BY <1>2, <1>3, <1>4 DEF Ended, Begun, PageOffset
  <2> QED BY <1>2, <1>3, <1>4, <2>1, Unseen
<1>5. CASE wpc[0] # "done" /\ arrived'[0] = Append(arrived[0], r) /\ Begun' = Begun
  <2>1. /\ arrived[0] \in Seq(Record) /\ Len(arrived[0]) \in Nat /\ pages \in [Record -> Nat]
        /\ Ended \in 0 .. Len(arrived[0]) /\ Finished = SubSeq(arrived[0], 1, Ended)
    BY EndedFacts
  <2>2. Finished' = SubSeq(Append(arrived[0], r), 1, Ended)
    <3>1. Ended' = Ended
      BY <1>3, <1>5 DEF Ended
    <3>2. Finished' = SubSeq(arrived'[0], 1, Ended')
      BY DEF Finished, Ended, Begun
    <3> QED BY <1>5, <3>1, <3>2
  <2>3. SubSeq(Append(arrived[0], r), 1, Ended) = SubSeq(arrived[0], 1, Ended)
    BY <2>1
  <2>4. Position' = Position
    <3>1. Stream(Finished)' = StreamOf(pages', Finished') /\ Stream(Finished) = StreamOf(pages, Finished)
      BY DEF Stream, StreamOf, ListsOf, PagesOf
    <3> QED BY <1>2, <2>1, <2>2, <2>3, <3>1 DEF Position, PageOffset
  <2>5. Accepted' = Accepted \o [i \in 1 .. pages[r] |-> <<r, i>>]
    <3>1. Accepted' = StreamOf(pages', arrived'[0]) /\ Accepted = StreamOf(pages, arrived[0])
      BY DEF Accepted, Stream, StreamOf, ListsOf, PagesOf
    <3> QED BY <1>2, <1>5, <2>1, <3>1, StreamAppended DEF PagesOf
  <2>6. \A i \in DOMAIN Accepted : Accepted[i][1] # r
    <3> DEFINE R == Record \ {r}
    <3>1. arrived[0] \in Seq(R)
      <4>1. \A k \in 1 .. Len(arrived[0]) : arrived[0][k] \in R
        BY <1>0, <1>3, OrderFacts
      <4> QED BY <2>1, <4>1
    <3>2. pages \in [Record -> Nat] /\ R \in SUBSET Record
      BY <2>1
    <3> HIDE DEF R
    <3>3. StreamOf(pages, arrived[0]) \in Seq(R \X Nat)
      BY <3>1, <3>2, StreamTyped
    <3>4. \A i \in DOMAIN Accepted : Accepted[i] \in R \X Nat
      BY <3>3, IsStream DEF Accepted
    <3> QED BY <3>4 DEF R
  <2>7. pages[r] \in 1 .. MaxPages
    <3>1. Underway(r)
      BY <1>1 DEF Underway
    <3>2. Len(items[r]) = pages[r] /\ pages[r] # 0
      BY <1>0, <3>1 DEF Written, ItemsWritten
    <3>3. Len(items[r]) \in 0 .. MaxPages /\ MaxPages \in Nat
      BY <1>0, PoolAssumption DEF LInv, Lengths
    <3> QED BY <3>2, <3>3
  <2>8. ~(wpc[0] = "done") /\ (wpc[0] = "done")' = (wpc[0] = "done")
    BY <1>3, <1>5
  <2> QED BY <1>2, <2>4, <2>5, <2>6, <2>7, <2>8 DEF Abs!Accept, Accepted, Position, PageOffset
<1> QED BY <1>3, <1>4, <1>5

(* ... a write hands over the next page ...                                *)
LEMMA WriteHands ==
    ASSUME SInv, SInv', WriteItem, Quiet
    PROVE  Abs!Write
<1>0. Group!IInv /\ Group!OInv /\ LInv /\ Rest /\ Written
    BY DEF SInv
<1>1. PICK r \in Record : r = job[0]
    BY <1>0, LoopFacts DEF WriteItem
<1>2. /\ wpc[0] = "run" /\ item \in DOMAIN items[r] /\ item' = item + 1 /\ pages' = pages
      /\ last' = IF content[items[r][item]] = None THEN last ELSE content[items[r][item]]
    BY <1>1 DEF WriteItem, write, writeCounting, messages
<1>3. /\ arrived[0] \in Seq(Record) /\ Len(arrived[0]) \in Nat /\ pages \in [Record -> Nat]
      /\ Ended = Begun - 1 /\ Begun \in 1 .. Len(arrived[0]) /\ r = arrived[0][Begun]
      /\ Len(items[r]) = pages[r] /\ Finished = SubSeq(arrived[0], 1, Begun - 1)
    BY <1>1, <1>2, EndedFacts
<1>4. item \in 1 .. pages[r] /\ pages[r] \in Nat
  <2>1. items[r] \in Seq(Nat)
    BY <1>0 DEF LInv, Shapes
  <2> QED BY <1>2, <1>3, <2>1
<1>5. last' = <<r, item>>
  <2>1. content[items[r][item]] = <<r, item>>
    BY <1>0, <1>3, <1>4 DEF Written, ItemsWritten
  <2>2. <<r, item>> # None
    <3>1. Len(items[r]) \in 0 .. MaxPages /\ MaxPages \in Nat
      BY <1>0, PoolAssumption DEF LInv, Lengths
    <3>2. item \in 1 .. MaxPages
      BY <1>3, <1>4, <3>1
    <3> QED BY <3>2, NoneAssumption
  <2> QED BY <1>2, <2>1, <2>2
<1>6. PICK n : n = Len(StreamOf(pages, SubSeq(arrived[0], 1, Begun - 1)))
    OBVIOUS
<1>7. n \in Nat /\ n + item <= Len(Accepted) /\ Accepted[n + item] = <<r, item>>
  <2>1. Accepted = StreamOf(pages, arrived[0]) /\ item \in 1 .. pages[arrived[0][Begun]]
    BY <1>3, <1>4, IsStream DEF Accepted
  <2> QED BY <1>3, <1>6, <2>1, PageInStream
<1>8. Position = n + item - 1
    BY <1>3, <1>4, <1>6, <1>7, IsStream DEF Position, PageOffset
<1>9. Position' = n + item
  <2>1. Ended' = Ended
    BY DEF Quiet, Ended, Begun
  <2>2. Stream(Finished)' = Stream(Finished)
    BY <1>2, <2>1, ViewKept DEF Quiet
  <2>3. Len(Stream(Finished)) = n
    BY <1>3, <1>6, IsStream
  <2>4. PageOffset' = item
    BY <1>2, <1>4 DEF PageOffset
  <2> QED BY <2>2, <2>3, <2>4 DEF Position
<1>10. Accepted' = Accepted
    BY <1>2, ViewKept DEF Quiet
<1>11. (wpc[0] = "done")' = (wpc[0] = "done")
    BY DEF Quiet
<1>12. Position < Len(Accepted) /\ Position' = Position + 1 /\ last' = Accepted[Position + 1]
  <2>1. item \in Nat /\ n + item - 1 + 1 = n + item /\ Len(Accepted) \in Nat
    <3>1. Accepted \in Seq(Record \X Nat)
      BY <1>3, StreamTyped, IsStream DEF Accepted
    <3> QED BY <1>4, <1>7, <3>1
  <2> QED BY <1>5, <1>7, <1>8, <1>9, <2>1
<1> QED BY <1>10, <1>11, <1>12 DEF Abs!Write, Accepted, Position, PageOffset

(* ... and the worker ends when all are.                                   *)
LEMMA ClearCloses ==
    ASSUME SInv, SInv', Loop!ClearQueue(0), UNCHANGED <<pages, item, last>>
    PROVE  Abs!Close
<1>0. Group!IInv /\ Group!OInv
    BY DEF SInv
<1>1. /\ wpc[0] = "clear" /\ wpc'[0] = "done" /\ queue[0] = <<>> /\ queue'[0] = <<>> /\ arrived' = arrived
    BY <1>0, LoopClears
<1>2. /\ arrived[0] \in Seq(Record) /\ Len(arrived[0]) \in Nat
      /\ Ended = Begun /\ item = 0 /\ Finished = SubSeq(arrived[0], 1, Ended)
    BY <1>1, EndedFacts
<1>3. Begun = Len(arrived[0])
  <2>1. Len(queue[0]) = 0
    BY <1>1
  <2> QED BY <1>2, <2>1 DEF Begun
<1>4. Finished = arrived[0]
    BY <1>2, <1>3, SubSeqFull
<1>5. Position = Len(Accepted)
  <2>1. Accepted \in Seq(Record \X Nat)
    <3>1. pages \in [Record -> Nat]
      BY EndedFacts
    <3> QED BY <1>2, <3>1, StreamTyped, IsStream DEF Accepted
  <2>2. PageOffset = 0 /\ Stream(Finished) = Accepted
    BY <1>2, <1>4 DEF PageOffset, Accepted
  <2> QED BY <2>1, <2>2 DEF Position
<1>6. Accepted' = Accepted /\ Position' = Position
  <2>1. Ended' = Ended /\ PageOffset' = PageOffset
    BY <1>1 DEF Ended, Begun, PageOffset
  <2> QED BY <1>1, <2>1, ViewKept DEF Position
<1>7. (wpc[0] = "done")' = TRUE
    BY <1>1
<1> QED BY <1>5, <1>6, <1>7 DEF Abs!Close, Accepted, Position, PageOffset

(* The stream at first.                                                    *)
LEMMA StreamBegins == Init => Abs!Init
<1> SUFFICES ASSUME Init PROVE Abs!Init
    OBVIOUS
<1>1. /\ arrived[0] = <<>> /\ queue[0] = <<>> /\ wpc[0] = "unborn" /\ item = 0 /\ last = None
    BY DEF Init, Loop!Init, Loop!Queue, Loop!Worker, Loop!get_queue
<1>2. Stream(<<>>) = <<>>
  <2>1. ListsOf(pages, <<>>) = <<>>
    BY DEF ListsOf
  <2> QED BY <2>1, FlattenEmpty, IsStream DEF StreamOf
<1>3. Finished = <<>>
  <2>1. Len(arrived[0]) - Len(queue[0]) - (IF wpc[0] = "run" THEN 1 ELSE 0) = 0
    BY <1>1
  <2> QED BY <1>1, <2>1 DEF Finished
<1>4. Len(Stream(Finished)) = 0
    BY <1>2, <1>3
<1>5. ~(wpc[0] = "done")
    BY <1>1
<1> QED BY <1>1, <1>2, <1>4, <1>5 DEF Abs!Init

(* The lines reach the system whole, each page once and as it was logged,  *)
(* in the order in which the loop accepted them, and all of them before    *)
(* the worker ends (Logger::push, the function it hands the loop, and      *)
(* Logger::stop).                                                          *)
THEOREM Refinement == Spec => ImplementsLogStream
<1>1. SInv /\ SInv' /\ [Next]_vars => [Abs!Next]_(Abs!vars)
  <2> SUFFICES ASSUME SInv, SInv', [Next]_vars PROVE [Abs!Next]_(Abs!vars)
      OBVIOUS
  <2>1. ASSUME NEW t \in Line, LogWrite(t), Quiet PROVE UNCHANGED Abs!vars
    BY <2>1, QuietUnseen DEF LogWrite, messages, PageOffset
  <2>2. ASSUME NEW t \in Line, LogFlush(t), Quiet PROVE UNCHANGED Abs!vars
    BY <2>2, FlushUnseen
  <2>3. ASSUME NEW t \in Line, LogPush(t) PROVE Abs!Accept \/ UNCHANGED Abs!vars
    BY <2>3, PushAccepts
  <2>4. ASSUME WriteTime, Quiet PROVE UNCHANGED Abs!vars
    <3>1. item = 0 /\ item' = 1 /\ last' = last /\ pages' = pages
      BY <2>4 DEF WriteTime, write, writeCounting, messages
    <3> QED BY <2>4, <3>1, QuietUnseen DEF PageOffset
  <2>5. ASSUME WriteItem, Quiet PROVE Abs!Write
    BY <2>5, WriteHands
  <2>6. CASE ReleaseItems
    BY <2>6, ReleaseUnseen
  <2>7. ASSUME UNCHANGED <<pages, item, last>>, Quiet \/ Loop!PopTask(0) PROVE UNCHANGED Abs!vars
    BY <2>7, QuietUnseen, PopUnseen DEF PageOffset
  <2>8. ASSUME UNCHANGED <<pages, item, last>>, Loop!ClearQueue(0) PROVE Abs!Close
    BY <2>8, ClearCloses
  <2>9. Group!IInv
    BY DEF SInv
  <2> QED BY <2>1, <2>2, <2>3, <2>4, <2>5, <2>6, <2>7, <2>8, <2>9, StepKinds DEF Abs!Next
<1> QED BY <1>1, StreamInit, StreamStep, StreamBegins, PTL DEF Spec, ImplementsLogStream, Abs!Spec
=============================================================================
