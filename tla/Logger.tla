------------------------------- MODULE Logger -------------------------------
(***************************************************************************)
(* The logger: Logger.cpp, Log.cpp and BufferPool.h, composed with the     *)
(* event loop that writes the lines, a ThreadGroup of one worker.          *)
(*                                                                         *)
(* Threads build lines in buffers of a pool and push each line's list of   *)
(* buffers to the loop; its worker writes them to the file and releases    *)
(* them to the pool.  The owner starts and stops the logger.  Only lines   *)
(* of a level that is logged appear: the others have no effect.            *)
(***************************************************************************)
EXTENDS Integers, FiniteSets, Sequences, SequencesExt

CONSTANTS
    Line,           \* the threads that log
    Owner,          \* the thread that calls start and stop
    Record,         \* the lines, each flushed at most once
    MaxPages,       \* bound: buffers of a line
    capacity,       \* of the new pool, 16 in the code
    max_size_,      \* of a file; a write counts 1
    SizeModulus,    \* current_size_ is unsigned: 2^64 in the code
    None

ASSUME PoolAssumption == capacity \in Nat \ {0} /\ MaxPages \in Nat \ {0}
ASSUME SizeAssumption ==
    SizeModulus \in Nat /\ max_size_ \in 0 .. SizeModulus - 2
ASSUME ThreadAssumption == Owner \notin Line
ASSUME NoneAssumption == None \notin Record \cup (Record \X (1 .. MaxPages))

VARIABLES
    available, allocated,   \* the pool's buffers, in order, and in use
    made,                   \* the buffers ever made are 1 .. made
    content,                \* the page in each buffer
    record, line,           \* of each thread: its line, and buffers_ so far
    items,                  \* the buffers of each line that was pushed
    lost,                   \* history: buffers whose line was refused
    pages,                  \* history: the number of pages of each line
    filename,               \* a file name was set before start
    fd, open,               \* fd_, and whether the log file is open
    openFailed,             \* history: the last open failed
    current_size, is_started,
    item,                   \* the worker's loop: 0 at the time stamp
    last,                   \* history: the last page handed to ::write
    \* the event loop's
    queue, arrived, stopped, ticket, flag, promise,
    started, wpc, job, cpc, pushing, target, next

pool     == <<available, allocated, made, content>>
lines    == <<record, line>>
messages == <<items, lost, pages>>
file     == <<fd, open, openFailed, current_size>>
loopVars == <<queue, arrived, stopped, ticket, flag, promise, started, wpc, job,
              cpc, pushing, target, next>>
vars     == <<pool, lines, messages, file, filename, is_started, item, last, loopVars>>

Loop == INSTANCE ThreadGroup WITH
    Client <- Line \cup {Owner}, Task <- Record, num <- 1,
    Shared <- FALSE, Immediate <- FALSE, TicketModulus <- 1

Init ==
    /\ available = [i \in 1 .. capacity |-> i]
    /\ allocated = {}
    /\ made = capacity
    /\ content = [b \in 1 .. capacity |-> None]
    /\ record = [t \in Line |-> None]
    /\ line = [t \in Line |-> <<>>]
    /\ items = [r \in Record |-> <<>>]
    /\ lost = {}
    /\ pages = [r \in Record |-> 0]
    /\ filename \in BOOLEAN
    /\ fd = "stdout" /\ open = FALSE /\ openFailed = FALSE
    /\ current_size = 0
    /\ is_started = FALSE
    /\ item = 0
    /\ last = None
    /\ Loop!Init

-----------------------------------------------------------------------------
(* BufferPool, under the logger's pool_lock_.                              *)

(* fill: when no buffer is available, as many new ones as are in use.      *)
fillCount == IF available = <<>> THEN Cardinality(allocated) ELSE 0

buffers == available \o [i \in 1 .. fillCount |-> made + i]

(* malloc, and what is then written to the buffer.                         *)
mallocLeaving(rest, page) ==
    /\ available' = rest
    /\ allocated' = allocated \cup {Head(buffers)}
    /\ made' = made + fillCount
    /\ content' = [b \in 1 .. made' |->
                     IF b = Head(buffers) THEN page
                     ELSE IF b <= made THEN content[b] ELSE None]

mallocKeeps(page) == mallocLeaving(buffers, page)   \* front without pop_front
malloc(page) == mallocLeaving(Tail(buffers), page)

(* free of each: a buffer that is not allocated would be deleted.          *)
release(list) ==
    LET known == IF ToSet(list) \subseteq allocated THEN list
                 ELSE SelectSeq(list, LAMBDA b : b \in allocated)
    IN
    /\ available' = available \o known
    /\ allocated' = allocated \ ToSet(list)
    /\ UNCHANGED <<made, content>>

-----------------------------------------------------------------------------
(* Log: a thread writes its line ...                                       *)

LogWrite(t) ==
    /\ cpc[t] = "idle" /\ Len(line[t]) < MaxPages
    /\ \E r \in Record :
          /\ IF line[t] # <<>> THEN r = record[t]
             ELSE /\ promise[r] = "new" /\ pages[r] = 0
                  /\ \A u \in Line : record[u] # r
          /\ record' = [record EXCEPT ![t] = r]
          /\ malloc(<<r, Len(line[t]) + 1>>)
    /\ line' = [line EXCEPT ![t] = Append(@, Head(buffers))]
    /\ UNCHANGED <<messages, file, filename, is_started, item, last, loopVars>>

(* ... and pushes it, by ENDLOG or in the destructor ...                   *)
LogFlush(t) ==
    /\ line[t] # <<>>
    /\ Loop!PushDispatch(t)
    /\ pushing'[t] = record[t]
    /\ items' = [items EXCEPT ![record[t]] = line[t]]
    /\ pages' = [pages EXCEPT ![record[t]] = Len(line[t])]
    /\ line' = [line EXCEPT ![t] = <<>>]
    /\ record' = [record EXCEPT ![t] = None]
    /\ UNCHANGED <<pool, lost, file, filename, is_started, item, last>>

(* ... and a stopped loop destroys the list, not the buffers.              *)
LogPush(t) ==
    LET r == pushing[t] IN
    /\ Loop!PushQueue(t)
    /\ IF Loop!push_stopped(target[t])
       THEN /\ lost' = lost \cup ToSet(items[r])
            /\ items' = [items EXCEPT ![r] = <<>>]
       ELSE UNCHANGED <<items, lost>>
    /\ UNCHANGED <<pool, lines, pages, file, filename, is_started, item, last>>

-----------------------------------------------------------------------------
(* The file.                                                               *)

(* open_log: with a name, a new file, unless the system refuses.           *)
open_log(size) ==
    \/ /\ ~filename
       /\ fd' = "stdout" /\ open' = FALSE /\ openFailed' = FALSE
       /\ current_size' = 0
    \/ /\ filename
       /\ fd' = "file" /\ open' = TRUE /\ openFailed' = FALSE
       /\ current_size' = 0
    \/ /\ filename
       /\ fd' = "stdout" /\ open' = FALSE /\ openFailed' = TRUE
       /\ current_size' = size

(* write, with rotate_file: it closes first, so a refused open leaves the standard output. *)
writeCounting(page, sizes) ==
    /\ last' = IF page = None THEN last ELSE page
    /\ \E size \in sizes :
          IF size > max_size_ THEN open_log(size)
          ELSE current_size' = size /\ UNCHANGED <<fd, open, openFailed>>

(* Written, or -1, which is added as well.                                 *)
writeSigned(page) == writeCounting(page, {current_size + 1, current_size - 1})
write(page) ==
    writeCounting(page, {(current_size + ret) % SizeModulus : ret \in {1, SizeModulus - 1}})

start ==
    /\ ~is_started /\ started = 0
    /\ \/ openFailed' = FALSE /\ Loop!StartThread /\ is_started' = TRUE
       \/ openFailed' = TRUE /\ UNCHANGED <<loopVars, is_started>>
    /\ open_log(current_size)
    /\ UNCHANGED <<pool, lines, messages, filename, item, last>>

(* stop: the loop stops, and its worker is joined, ...                     *)
StopLoop ==
    /\ is_started
    /\ Loop!StopFlag(Owner) \/ Loop!StopQueue(Owner) \/ Loop!Join(Owner)
    /\ UNCHANGED <<pool, lines, messages, file, filename, is_started, item, last>>

(* ... before the file is closed.                                          *)
Close(step) ==
    /\ is_started /\ cpc[Owner] = step
    /\ fd' = "stdout" /\ open' = FALSE
    /\ is_started' = FALSE
    /\ UNCHANGED <<pool, lines, messages, openFailed, current_size, filename, item,
                   last, loopVars>>

CloseUnjoined == Close("join")  \* while the worker still writes
close_log == Close("stopped")

-----------------------------------------------------------------------------
(* The worker: the loop's own steps, and the function it runs.             *)

WorkerLoop ==
    /\ Loop!PopTask(0) \/ Loop!PopWait(0) \/ Loop!WaitTimeout(0)
       \/ Loop!PopStopped(0) \/ Loop!ClearQueue(0)
    /\ UNCHANGED <<pool, lines, messages, file, filename, is_started, item, last>>

WriteTime ==
    /\ wpc[0] = "run" /\ item = 0
    /\ write(None)
    /\ item' = 1
    /\ UNCHANGED <<pool, lines, messages, filename, is_started, loopVars>>

WriteItemRetry ==               \* for as long as the write fails
    /\ wpc[0] = "run" /\ item \in DOMAIN items[job[0]]
    /\ write(content[items[job[0]][item]])
    /\ item' \in {item, item + 1}
    /\ UNCHANGED <<pool, lines, messages, filename, is_started, loopVars>>

WriteItem ==
    /\ wpc[0] = "run" /\ item \in DOMAIN items[job[0]]
    /\ write(content[items[job[0]][item]])
    /\ item' = item + 1
    /\ UNCHANGED <<pool, lines, messages, filename, is_started, loopVars>>

ReleaseAt(i) ==
    /\ wpc[0] = "run" /\ item = i
    /\ release(items[job[0]])
    /\ items' = [items EXCEPT ![job[0]] = <<>>]
    /\ Loop!RunTask(0) /\ promise'[job[0]] = "value"
    /\ item' = 0
    /\ UNCHANGED <<lines, lost, pages, file, filename, is_started, last>>

ReleaseEarly == ReleaseAt(Len(items[job[0]]))   \* before the last is written
ReleaseItems == ReleaseAt(Len(items[job[0]]) + 1)

-----------------------------------------------------------------------------
WorkerStep == WorkerLoop \/ WriteTime \/ WriteItem \/ ReleaseItems

Next ==
    \/ \E t \in Line : LogWrite(t) \/ LogFlush(t) \/ LogPush(t)
    \/ start \/ StopLoop \/ close_log
    \/ WorkerStep

Spec == Init /\ [][Next]_vars

(* The loop's fairness: its worker goes on, and so does a thread in push   *)
(* or in stop.  Nobody has to log, to flush or to stop.                    *)
Fairness ==
    /\ \A t \in Line : WF_vars(LogPush(t))
    /\ WF_vars(cpc[Owner] # "idle" /\ (StopLoop \/ close_log))
    /\ WF_vars(WorkerStep)

FairSpec == Spec /\ Fairness

-----------------------------------------------------------------------------

Page == (Record \X (1 .. MaxPages)) \cup {None}

TypeOK ==
    /\ available \in Seq(1 .. made) /\ allocated \subseteq 1 .. made
    /\ made \in Nat \ {0} /\ content \in [1 .. made -> Page]
    /\ record \in [Line -> Record \cup {None}]
    /\ line \in [Line -> Seq(1 .. made)] /\ items \in [Record -> Seq(1 .. made)]
    /\ lost \subseteq 1 .. made /\ pages \in [Record -> 0 .. MaxPages]
    /\ filename \in BOOLEAN /\ fd \in {"stdout", "file"}
    /\ open \in BOOLEAN /\ openFailed \in BOOLEAN
    /\ current_size \in 0 .. SizeModulus - 1 /\ is_started \in BOOLEAN
    /\ item \in 0 .. MaxPages + 1 /\ last \in Page
    /\ Loop!TypeOK

(* Every buffer is in one place: the pool, the line of one thread or one   *)
(* pushed line; or lost, if its line was refused.  So no two threads write *)
(* to one buffer, none is written while the worker reads it, and none is   *)
(* freed twice.                                                            *)
At(list, b) == {i \in DOMAIN list : list[i] = b}

Holders(b) ==
    {<<"pool", i>> : i \in At(available, b)}
    \cup (UNION {{<<t, i>> : i \in At(line[t], b)} : t \in Line})
    \cup (UNION {{<<r, i>> : i \in At(items[r], b)} : r \in Record})

BuffersInOnePlace ==
    \A b \in 1 .. made :
        /\ Cardinality(Holders(b)) = IF b \in lost THEN 0 ELSE 1
        /\ b \in allocated <=> At(available, b) = {}

(* While the worker is in its function it writes to the log file, unless   *)
(* none is named or the last open failed: stop closes it only after the    *)
(* worker, and a rotation opens the next.                                  *)
WritesToFile ==
    wpc[0] = "run" => fd = IF filename /\ ~openFailed THEN "file" ELSE "stdout"

(* What the buffers hold when they are written is what was logged: the     *)
(* pages of each accepted line, in one piece, in the order of acceptance,  *)
(* and all of them before stop is done.                                    *)
Stream(records) ==
    FlattenSeq([k \in DOMAIN records |-> [i \in 1 .. pages[records[k]] |-> <<records[k], i>>]])

(* What has left the queue is written, but for the line in hand.           *)
Finished ==
    SubSeq(arrived[0], 1,
           Len(arrived[0]) - Len(queue[0]) - (IF wpc[0] = "run" THEN 1 ELSE 0))

Abs == INSTANCE LogStream WITH
    accepted <- Stream(arrived[0]),
    position <- Len(Stream(Finished)) + (IF item = 0 THEN 0 ELSE item - 1),
    closed <- wpc[0] = "done"

ImplementsLogStream == Abs!Spec

(* Once the logger has started, the buffers of every accepted line return  *)
(* to the pool.                                                            *)
BuffersReturn ==
    \A r \in Record : promise[r] = "accepted" /\ is_started ~> items[r] = <<>>
=============================================================================
