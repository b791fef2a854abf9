# ETSComponents: models, checks and proofs

ETSComponents ("snake") is a C++14 library of components for server programs: locks, a
concurrent hash table, thread groups with futures, an asynchronous logger, an application that
hosts services, and a protoc plugin. This directory holds TLA+ modules translated from its
source, the TLC configurations that check them on small instances, and TLAPS proofs of their
main properties for all instances. Paths below are relative to the repository's root.

Contents: [inventory](#inventory) · [the modules and the code](#the-modules-and-the-code) ·
[runs and bounds](#runs-and-bounds) · [fairness](#fairness) · [proofs](#proofs) ·
[findings](#findings) · [what is not modelled](#what-is-not-modelled) · [plan](#plan)

How to run, in this directory:

    tlc -config HashTable_safety.cfg MCHashTable      # any run; PROJECT.json lists module and cfg
    tlapm HashTableProofs.tla                         # any *Proofs module

## Inventory

| Component | Source | State | Operations |
|---|---|---|---|
| Lock-free mutexes | `lib/concurrency/src/Mutex.cpp`, `Mutex.h` | flag of `write_`, `count_` | lock, try_lock, unlock, and their shared forms |
| Concurrent hash table | `ConcurrentHashTableT.h` | buckets of singly linked nodes, array of bucket mutexes, table mutex, number of buckets and of elements; per accessor: bucket index, node, "has lock" | get, get_or_create, insert, put, remove, has, clear, resize, accessors (release, erase), iterators (next, erase_and_next), for_each, find_if |
| Map and set wrappers | `ConcurrentHashMap.h`, `ConcurrentHashSet.h` | none | forward to the table |
| Thread group | `ThreadGroupT.h`, `ThreadGroup.h` | queues, threads, `flag_` | start, push (returns a future), stop, the worker loop |
| Message queue, container, exit strategy | `ThreadMessageQueueT.h`, `ThreadMessageContainerT.h`, `ThreadExitStrategyT.h` | list of messages, `stopped`, lock and condition variable | push, pop (timed wait), stop, clear |
| Queue groups, dispatcher | `ThreadQueueGroupT.h`, `ThreadDispatchT.h` | one or many queues; ticket counter | get_queue, next |
| Atomic, Thread, Future wrappers | `Atomic.h`, `Thread.h`, `Future.h`, `ConditionVariable.h` | none of their own | aliases of the standard library |
| Buffer pool | `include/snake/util/BufferPool.h` | lists of available and allocated buffers | malloc, free, fill |
| Asynchronous logger | `lib/core/src/Logger.cpp`, `Log.cpp`, `include/snake/core/Log.h`, `LogUtil.h` | file, its size, level, started; pool and its lock; an EventLoopExecutor; buffers of each line | start, stop, alloc_log_item, push, release, write, rotate_file; Log: write, flush, destructor |
| Application, services, main | `lib/core/src/Application.cpp`, `Main.cpp`, `Service.cpp`, `ServiceT.h` | libraries, services, is_running_; each service's initialized / running / stopping | initialize, start, run, shutdown, stop, join, cleanup |
| Service factory, singletons | `ServiceFactory.cpp`, `SingletonT.h` | creators by name | register, create |
| Configuration | `lib/core/src/Config.cpp` | a YAML tree | read-only views |
| Date, time, strings; exceptions | `lib/util/src/DateTime.cpp`, `String.h`, `Exception.h` | none | formatting |
| Message generator | `lib/message/src/generator/*` | the numbers of files to do and done; the one `generated.cpp` that is collected over the files | GenerateAll, Generate; parse and output of enums, classes, fields, the factory |
| Generated message classes | printed by `Type.cpp` | the objects of a program | X_to_protobuf, protobuf_to_X, serialize, deserialize, serialize_to_string, parse_from_string |

The headers without a directory are in `include/snake/concurrency/`.

**How the parts interact.** The hash table uses `LockFreeSharedMutex` as its table mutex and
`LockFreeMutex` for the buckets. A thread group composes a queue group, queues, a container, an
exit strategy and a dispatcher by templates; workers and clients share the queues, and workers
and callers share promises. The logger is a client of an event loop: lines are lists of buffers
from the pool, pushed to the loop, written by its one thread and given back to the pool. The
application starts the logger, loads service libraries, and runs services whose own threads may
call `shutdown`. The message generator is a program of its own, run by protoc; what it writes is
compiled into the message library, on top of protobuf.

**What is hard, and what would be correct.**

* *Mutexes*: a reader that passes the gate just as a writer closes it; exactness of `count_`; a
  failed try that must leave nothing behind. Correct: a writer is alone, a waiting writer is not
  starved by new readers, every call returns.
* *Hash table*: sizes and indices that are read before a lock is taken; a rehash that moves every
  node and replaces the bucket mutexes beside threads that hold accessors; a hash that throws in
  the middle of it; iterations beside inserts and erasures; three kinds of wait (table, drain,
  bucket) that must not form a cycle. Correct: a map, with accessors that never dangle, one node
  for a key, an exact size, iterations that neither repeat nor skip.
* *Thread group*: pushes that race with stop, queue by queue; timed waits; tasks left behind by
  exit_immediately; several workers that clear one queue. Correct: every accepted task runs once
  or is told that it will not, in order, and stop returns with no future unready.
* *Logger*: buffers whose list is refused after stop; a pool that grows; rotation in mid line.
  Correct: each buffer is in one place, written before it is reused, and comes back
  once its line was accepted.
* *Accessors*: objects that own locks and are moved, nested, assigned over, destroyed early.
  Correct: locks and objects correspond, and threads deadlock only where a caller asks for it.
* *Messages*: one class is spread over several headers, the factory and functions that call each
  other, over files that arrive in any order; conversions of lists, maps, bases and nested messages
  into objects that may not be new. Correct: the output is whole and compiles for every schema
  that keeps to the Readme, and objects arrive as they were sent.
* *Application*: shutdown before run; stop and join against states of services; service pointers
  held after libraries are unloaded. Correct: every service started is stopped and joined once,
  and a shutdown during run ends it.

The `hazards` in PROJECT.json give each of these at its line, with the properties that cover it.

## The modules and the code

    RWLock        <== SharedMutex
    ConcurrentMap <== HashTable <- HashIteration
    Accessors
    Executor      <== ThreadGroup
    LogStream     <== Logger ( ThreadGroup )
    Lifecycle     <== Application
    Transfer      <== Messages ( Generator )

`A <== B`: B is shown to implement A (INSTANCE with a refinement mapping, A's specification as a
property of B). `B <- C`: C extends B. `B ( D )`: D is part of B, which takes D's steps together
with its own or between them. `MC*` give constants values for TLC; `*Proofs` hold theorems.

### SharedMutex, against RWLock

`SharedMutex` has one action per atomic access of `Mutex.cpp`: `write` is the flag of `write_`,
`count` is `count_` (modulo `CountModulus`, 2^32 in the code), `pc[t]` the thread's place in
lock, try_lock, lock_shared or try_lock_shared or the way it holds the lock. A `test_and_set`
that fails changes nothing, so a spinning thread is one whose action is not enabled; the failing
try is the action `TryFails`. The atomics have the default, sequentially consistent, order. The
model is of the branch where `ATOMIC_INT_LOCK_FREE == 2`; the other names a type that does not
exist. `RWLock` is the standard's promise (`Mutex.h:49`): shared, exclusive, or not held. The
mapping lets a reader hold the lock from its increment of `count_` and a writer from the load
that sees 0.

### HashTable, against ConcurrentMap

A node is named by its key and a chain is the sequence of its nodes' keys (`buckets`); `tmp` is
the vector a rehash fills, `value` the mapped values, `numElements` and `bucketsSize` the
counters, `bmutex` the owner of each bucket mutex. The table mutex is the lock of `SharedMutex`
with its drain kept visible: `writer` is who has closed the gate, `readers` are those counted in.
This is what `SharedMutex` is shown to be: one owner of the gate, nobody counted in behind it
(`NoBarging`), and a writer that goes on when nobody is left.

`pc[t]` follows a call: `resize` (the check without the lock), `gate`, `drain`, then `rehash`,
`unwind` or `clear`; `lock_table`, `lock_bucket`, `find`, `add`, then `held` while the caller has
the accessor; `erase`; `unlock_bucket`, `unlock_table`. An iterator goes through `iter_table`,
`iter_bucket` and `held`. A step runs from one synchronisation to the next; what a thread does in
between under a lock nobody else can see half done is one action, except that rehash, its
unwinding and clear move one node at a time, because `size()` reads the counter meanwhile.

What each public operation is: `get`, `get_or_create`, `insert` are the calls themselves;
`has` and `get_copy` are get and `Release`; `put` is get or get_or_create, `Write`, `Release`;
`remove` is get and `Erase`; `for_each` is an iteration with `IterNext`, `find_if` one that ends
with `IterFound`. A thread has one accessor or iterator at a time.

The hash is a constant function, and so is the list of primes, which has a last member: a table
beyond it does not grow (`next_prime`). The hash may throw while a rehash runs
(`HashMayThrow`): the nodes already moved are destroyed and counted out, the others stay.

`ConcurrentMap` is what callers see: elements, and which thread has an accessor on which;
elements are dropped without an accessor only when nobody has one (clear, a failed rehash).

### HashIteration

The steps of `HashTable` with two histories for each iterator: what it has visited, and what has
been in the table ever since it began.

### Accessors

`HashTable` gives a thread one accessor, used as the calls of the table use it. `Accessors` is
about the objects themselves, `UniqueAccessor` and `UniqueIterator`, as variables of programs:
several to a thread (`Owner`), moved from one to another (`Move`, which is also what `find_if`
does with its iterator), assigned over, released or erased, iterators made and never begun. Each
variable has `m_table_` (set or not), `m_index_`, `m_node_`. The locks are as blind as in the code:
`count` is the number in the table mutex, modulo its range, `locked` the set of bucket mutexes that
are locked, by nobody in particular. Who has what must follow from the objects, and that is what
the properties say.

Three slips are followed, each at most once and up to `MaxFaults` of them: an accessor assigned
over one that holds an element (`ConcurrentHashTableT.h:289`, two locks lost), an iterator
destroyed before its first `next` (`:305`, a share given back that was never taken), a hash or
construct that throws in an insert (`:469`, `:474`, one or both locks lost). `faults` remembers
them. `LocksAccounted` gives the exact price of each, so that without slips the locks are exactly
those of the objects. After a slip that forges a share, `clear` may get in and destroy the node of
an accessor; the program is undefined from there and the model stops (`"undefined"`).

The table has room for all keys, so nothing rehashes; chains have two nodes at most, for the erase
of a third does not return.

### ThreadGroup, against Executor

`queue[q]`, `stopped[q]` are a queue's list and its exit strategy's flag, `arrived[q]` a history
of what it accepted, `ticket` the dispatcher's counter (modulo `TicketModulus`, 2^64 in the
code), `flag` the group's `flag_`, `promise[m]` what has become of a task's future. Each critical
section of a queue's lock is one action: `PushQueue`, `PopTask`, `PopWait`, `PopStopped`,
`StopQueue`, `ClearQueue`. `pop`'s timed wait is the step `wait`, left by a notification
(`NotifyAll`) or by `WaitTimeout` (50 ms, or a spurious wake). `Shared` chooses the queue group
(TaskExecutor or EventLoopExecutor) and `Immediate` the exit strategy. The function of a task
returns or throws; either makes the future ready. The group is stopped after it was started, as
its users do (joining threads that were never made would go through null pointers); a second
stop is refused by `flag_` and changes nothing. The aliases TaskExecutor and EventLoopExecutor
always use exit_after_handle_all: their queue parameter is ignored (`ThreadGroup.h:20,27`);
exit_immediately is reached through `ThreadGroupT` itself.

`Executor` is the promise to a client: a task is accepted while the group is open or closing,
runs once, ends with a value or an exception; only with exit_immediately, and only during stop,
is it abandoned; stop ends with nothing unfinished.

### Logger, against LogStream

`Logger` composes four parts: the threads that log (`Log.h`, `Log.cpp`), the pool
(`BufferPool.h`), the file (`Logger.cpp`) and the event loop, which is the module `ThreadGroup`
with one worker, exit_after_handle_all, and the logging threads and the logger's owner as its
clients. A push, a stop or a step of the worker is the step of `Loop` joined with what the logger
adds to it.

`available`, `allocated` are the pool's lists, `content` the page in each buffer; `line[t]` and
`record[t]` the buffers of the line a thread is writing and its name; `items[r]` the list that
travels through the loop in line r's function; `fd`, `open`, `current_size`, `is_started` the
logger's own. A page, what a line puts into one buffer, is its line and its number: `LogWrite` is
the step from one buffer to the next. `LogFlush` is `Log::flush` up to the choice of a queue,
`LogPush` the critical section of the push, where a line may be refused; then the list dies with
the function and its buffers stay allocated for ever (`lost`). The worker's function is
`WriteTime`, one `WriteItem` for each buffer, `ReleaseItems`. Each write may succeed or return -1,
which is added to the unsigned `current_size` (modulo `SizeModulus`), and may rotate the file;
each open may fail, after which lines go to the standard output until a later one succeeds.
`malloc`, `fill` and `free` are atomic: the logger calls them under `pool_lock_`.

Lines below the logged level have no effect and do not appear. The logger starts once, and stop
comes after start, as in `Application`.

`LogStream` is the promise to whoever reads the log: the pages of the accepted lines form one
stream, each line in one piece; they are handed to the system in that order, each once, as they
were logged; when the worker has gone, nothing is left.

### Application, against Lifecycle

`Application` follows the main thread, `mpc`, through the calls that the test of the services
makes and `Main::main` from line 45 on would make: initialize_log, initialize_services (again
after a failure), start, run, stop, join, cleanup. Its loops over the configuration and over
`services_map_` are steps with an index `at`; services are numbered in the order of their names,
the order of that map. `is_initialized`, `is_running`, `is_stopping` are the flags of each
`Service`, `app_running` the application's `is_running_`, `thread[s]` the thread that a service's
on_start may make and its on_join waits for, `ref[s]` the service pointers it holds. The code of
services is not in the library: that a service has at most one thread, that on_join waits for it
and that it drops its pointers is the behaviour of the service in `lib/core/test`.

What a step does when a library is missing, a name is repeated, a type is unknown, a service
fails to initialise, or a hook throws, on_start before or after it made its thread, is a disjunct of its action (`Fail`, `GoTo("stop")`): a
false goes back to the caller, who may repeat the call or give up; an exception ends the program
by way of stop, join and cleanup. The services created so far stay in the map, and are
initialised again by the next call. on_start may throw when `is_running_` of the service is
already set. A service's code is part of the program (`Linked`) or of a library named by the service, which
registers its type when it is loaded: a service is created only from loaded code, and `PointersBacked`
says that it keeps it, so cleanup must clear the map before it unloads. The hooks of stop and join do not throw.

`run` is `RunWait` (flag and wait in one critical section), `Wake` (spurious) and `RunReturn`
(the test of the flag); `shutdown` is two steps, as it clears the flag under the lock and notifies
without it. It is called by service threads and by one that belongs to no service, at any time.

`Lifecycle` is what services may rely on: none starts before all that exist are initialised, none
is joined before all have been told to stop, none is destroyed while one runs or is stopping.

### Generator

The plugin's run. A schema (constant `Schemas`, one is chosen in `GenInit`) says which types each
.proto file has, each message's base and fields, and the tags of the factory's oneof. protoc calls
`GenerateAll`, then `Generate` for each file; the model takes the files in any order. `cpp` is the
static `OutputCpp` that all calls fill, `proto_file_number` and `current_file_number` the two
counters that decide which call writes it, `written` the files handed to protoc. A file is reduced to
what it includes, defines, declares, and which .pb.h it needs: these are what the parse functions
add (`EnumParts`, `ClassParts`, `FactoryParts`), with the headers of a field by its type and kind
(`FieldHeader`, `FieldCppHeader`). A factory without its Item or oneof makes `Generate` throw, and
the plugin ends without an answer (`Throw`).

`Compiles` is what the compiler will ask of the written files: everything a header's class needs
is reached by its includes (`Reaches`, `Needs`); every function that the printed code calls is
declared and defined (`Callees`); no member, element, map value or item of the factory is an object
of a class without a base, whose serialize and deserialize are pure (`Creates`, `Abstract`);
`has_x`, `mutable_x` exist in the factory's Item for each class that serialises itself
(`HasMember`); what the factory hands out derives from MessageBase (`Derives`), and MessageType is an
enum. `Supported` restates the rules of `lib/message/Readme.txt` in terms of the schema: the root of
all messages is MessageBase (line 26), there is a MessageType, and every other message is registered
under its own name; with what the Readme takes for granted: types that are messages or enums of these
files (`KnownTypes`), and a time in MessageBase, which its constructor sets.

`CompilesIfSupported` says that what keeps to these rules compiles, and that what compiles uses
known types only, objects of classes with a base included. It is no equivalence: a second root that
nothing uses breaks a rule and compiles. `ProtoAssumption` is what protoc guarantees of a schema
(names with one meaning, maps with keys of a number or a text), with restrictions: no message
contains itself, a base or a registered type is a message (the plugin would follow a null pointer at
`Type.cpp:383` and `:608`), and the factory is not imported from a file that is not given.

### Messages, against Transfer

What the printed functions do once a program is built from them (`Start`, possible only when
`generated.cpp` is there and compiles). `to_protobuf` and `protobuf_to` follow the two functions of
each class, base first, then each field by number in its three forms; `SerializeToString`,
`parse_from_string` and `deserialize` the functions with the chains of branches over the factory's
tags. protobuf is external: a parsed message is what was serialised, an item whose tag is unknown
stays an item without one (`FromNewerPeer`), text that is no message is refused (`Unreadable`).
Times cross as seconds and nanoseconds, before 1970 too (`TimeUtil` rounds down). `store` has one
object of each class in `Used`; `deserialize` works on it in place, whatever it held.

`Transfer` is the promise, without protobuf: a string carries objects, all of them or none, and gives
back those of known classes, equal and in order; an object that receives another takes its values,
and adds to its own lists and maps.

## Runs and bounds

| Run | Question | Instance |
|---|---|---|
| `shared_mutex` | Is the lock exclusive, a reader-writer lock; does a writer enter; do calls return? | 3 threads, `count_` modulo 4 |
| `hash_table_safety` | Types, accessors that never dangle, exact size, bounded overfill, one node per key, mutex array replaced only when free, a null accessor that tells the truth | 2 threads, 3 keys, tables of 1, 2, 3 buckets, throwing hash |
| `hash_table_map` | Refinement of ConcurrentMap with values; calls return | 2 threads, 2 keys, 2 values, tables of 1, 2 buckets, throwing hash |
| `hash_iteration` | Iterations neither repeat nor skip | 2 threads, 3 keys, 2 buckets, 2 keys in one of them |
| `hash_table_erase` | Does erase return? No (see [findings](#findings)) | 1 thread, 3 keys, 1 bucket |
| `accessors` | Which locks do objects own and slips lose; can two objects share an element, or one dangle; who can deadlock? | 2 threads: two accessors, an accessor and an iterator; 3 keys, 4 buckets, up to 2 slips |
| `thread_group_tasks` | TaskExecutor: tasks in one place; stop returns | 2 clients, 3 tasks, 2 workers, shared queue |
| `thread_group_immediate` | Dedicated queues and exit_immediately: types and dispatch, order, nothing stranded, futures ready, refinement of Executor | 2 clients, 3 tasks, 2 workers, a queue each, ticket modulo 3 |
| `logger` | Each buffer in one place; the worker writes to the right file; refinement of LogStream; buffers come back | 2 threads, 2 lines of up to 3 pages, pool of 1, files of 2 writes, sizes modulo 5 |
| `application` | Services and pointers backed until the threads that use them end, and by loaded code; refinement of Lifecycle; a shutdown during run ends it | 2 services, one of them from a library, configurations of up to 2 names, 2 start-ups |
| `application_shutdown` | Does a shutdown by a service always end run? No (see [findings](#findings)) | 1 service, 1 name, 1 start-up |
| `messages` | Is the output whole, does it compile for schemas that keep to the Readme, and only with known types; do objects cross as promised? | the repository's schema, one more that keeps to the Readme and eleven that do not, 3 files in every order; 3 classes, batches of 2, lists up to 4 |

*Why these bounds are enough to be of interest.* Three threads are what a lock needs for a
writer, a reader that leaves and one that arrives. Two threads give every pairwise race of the
table. The keys of `hash_table_safety` collide with one
and with two buckets and part with three: two inserters that pass the size check together put
three nodes in one chain of the table of two buckets, so the erase that never ends happens beside
the other thread's steps, and the second rehash moves every key to another bucket. The list of
primes is short so that the table reaches its last size. In `hash_iteration` no rehash runs
(an iteration shares the table mutex, which excludes one), so two buckets and a chain of two
suffice for a step inside a bucket and one between buckets. Three tasks for two workers make a
worker take a second task; the ticket's modulus is not a multiple of the workers, so that the wrap
gives an index out of turn.

The pool of the logger begins with one buffer, so that it is dry at the second page and grows
under two lines that are being written while a third list is with the worker (1, 2, 4, 8). A file
is full after two writes, so a line of three pages is rotated in its middle, and sizes modulo 5
make the -1 of a failed write at size 0 wrap to 4, which looks full. Two services are enough for
one to start while another is not initialised, or to be joined before the other is told to stop;
one has its code in a library (`Linked`), the other in the program; two names give a duplicate in a
configuration, two start-ups a second one that meets what the
first left behind.

In `accessors` a thread with two accessors can hold one and wait for the other, in one bucket or in
two, while the second thread does so with an iterator; either may be the writer, by a `clear`.
Two slips show how their prices add up. k1 and k2 share a bucket, k3 has its own, and two buckets stay empty, so iterators meet every case.

The repository's schema in `messages` has a field of each kind (a number, a text, a time, an enum,
a message; lists of enums and of messages; maps to a message and to a time), bases of depth one and
two, three files. `Spread` has its types in other files, a base at depth three, a map to an enum and
a list of times. The other schemas break a rule each: a class that is not
registered, one registered under another name, a field of a nested type, a base from elsewhere, a field of
type MessageFactory, a root without a time, a list of MessageBase, MessageBase as an item of the factory,
a class registered that derives from a second root, a factory without its oneof; these do not compile
(or are not written), for that reason alone. A second root by itself does. Three classes have
objects: one with nested messages in all three kinds of fields, the one that is nested, and one whose
base has a base. `Second` is 3, so that -1 nanosecond is not a whole second. Batches of two have
an unknown object first, last, or twice; lists up to four let a list be received into one of two.

These constants are bounds and appear in guards: `MaxPages` of `Logger` (buffers of a line),
`MaxNodes` (names in a configuration) and `MaxCalls` (calls of initialize_services) of
`Application`, `MaxFaults` of `Accessors` (slips), `MaxBatch`, `MaxLength` and `Used` of `Messages`
(objects in a string, elements of a list, classes with an object). No other guard bounds
anything: the remaining state spaces are finite as they are (a task or a line is pushed once, a key has one node).

`CHECK_DEADLOCK FALSE` in the runs of the thread group, the logger and the application: when stop
has returned and no new task or line is left, or when the program has ended, nothing more happens
and nothing should. In `accessors` threads may wait for each other for ever, which is what
`DeadlockNeedsNesting` is about; in `messages` the plugin ends, with output that nobody may compile.
In all other runs TLC also checks for deadlock, with little to find since
callers can always make another call; the cycles of waits are what `CallsReturn` is for.

Every property of a passing run is paired, in PROJECT.json, with a plausible slip in one mapped
definition under which TLC finds it violated. Those alternatives stand before the definition they
would replace, with their flaw in a comment.

`hash_iteration` uses the symmetry of threads: it checks safety only, and no definition tells threads
apart.

## Fairness

Weak fairness only, for each thread's own progress: a thread that can take its next step does so
in the end. This is what a scheduler gives a running thread. Nobody is obliged to call, to push
or to stop. The locks are spin locks with no queue, so no fairness among those who compete for
one is assumed (no strong fairness): a thread may lose the race for a gate for ever while others
keep calling. Accordingly

* `WriterEnters` starts when the writer has the gate, from which on no new reader enters;
* `CallsReturn` holds once callers stop calling;
* holders do release: `Progress(t)` of the table contains `Release` and `IterNext`, as an
  accessor's scope ends, and `Step(t)` of the lock contains the unlocks;
* in the thread group a worker keeps taking steps and the function it runs returns; a client that
  is in push or stop goes on. `FuturesReady` asks nothing of anybody stopping the group;
* in the logger the same for its loop: the worker, a thread in push, the owner in stop. Nobody has
  to log, to flush or to stop;
* in the application the main thread goes on, a thread in shutdown leaves it, and the thread of a
  service ends once the service has been told to stop. Nobody has to call shutdown, and the wait
  in run need not wake without a notification: `ShutdownHonoured` rests on the notification.

`hash_table_map` checks liveness with chains of at most two nodes; longer ones meet the erase that
does not return.

## Proofs

All proofs are checked by tlapm with Z3, Zenon and LS4. They hold for every value of the constants
that meets the named assumptions of the modules.

**`SequenceProofs`** - the lemmas the others share: chains of nodes (one pushed, popped or erased, and
what the keys are then), the least of a set of numbers, induction over a set of numbers, and what
FlattenSeq gives: the joined list exists and is unique (`Joins`), grows with a list appended, and the
join of the first lists is the beginning of the join of all.

**`SharedMutexProofs`** - any finite set of threads, any modulus of `count_` larger than it
(`ThreadAssumption`, `ModulusAssumption`). Type correctness, `CountExact`, `MutualExclusion`,
`NoBarging` and `ImplementsRWLock`. Inductive invariant: types, one owner of the gate
(`GateOwned`), `CountExact`, `MutualExclusion`. One owner keeps writers apart and readers from
being counted in beside one; exactness of the count turns the load of 0 into the absence of
readers. `MutualExclusion` alone is not inductive.

**`HashTableProofs`** - any threads, keys, values, hash function, initial size, any set of positive
primes with a greatest one (`HashAssumption`, `PrimesAssumption`, `InitAssumption`,
`NoneAssumption`). `LocksMatchSteps`, `WriterAlone`, `AccessorsLive`, `MutexArrayReplacedFree`.
Inductive invariant: the shape of the state; that a call about to rehash wants a larger size of
the list and a rehash in progress has a vector of that size (`CallsReady`); that the index of a
thread in a bucket is one of the table's (`IndexInTable`); and the three properties themselves.
They need each other: an index is in range because no rehash runs beside a reader, which follows
from the locks, which are right only if every index is in range. The lemmas about the list of primes
come with the proofs, those about chains are in `SequenceProofs`. The proof of each conjunct has one step per action that
can disturb it. On top of it (`HInv`): every node is in the bucket of its key (`HomeBuckets`), and a
lookup that ends with a null accessor is right (`NullMeansAbsent`). The inductive part says that
an index computed in `LockTable` remains the one of the present size while the thread shares the
table (`HomeIndex`), and that the vector of a rehash has nodes only during one (`TmpIdle`) and
has the size wanted (`TmpVector`).

The second half, on top of both and from the same assumptions: the table is a map. `TypeOK`,
`UniqueKeys`, `SizeExact`, `LoadBounded`, `ImplementsMap`, and `VisitsOnce` and `VisitsAll` of the
iterations. The third inductive invariant, `KInv`, says that no chain has a key twice and the two
vectors of a rehash share none (`Chains`, `Apart`); that a key about to be added is absent
(`AddsAbsent`: the lookup missed it in its home bucket, whose mutex the thread has owned since,
so that nobody else can have added it); and that the counter is the number of keys
present (`Counted`). `UniqueKeys` is not inductive without `AddsAbsent`, nor that without
`HomeBuckets`; `TypeOK` needs `Counted`, for the counter is never below zero because a node is
erased only where there is one. `LoadBounded` has an invariant of its own (`LoadInv`): whatever size
below the last prime one looks at, the elements together with the calls that will add one without
asking for more buckets than that are fewer than the buckets and threads. In the refinement
only the steps at which an element or an accessor appears or goes are steps of the map; rehash,
failed lookups and the locks stutter. For an iterator, `JInv` says that one between two buckets has
seen, of the elements that stayed, those of the buckets before (`Past`), and one on a node also
those before it in the chain (`On`); nobody else can touch that chain, and no rehash moves it.

**`AccessorsProofs`** - any threads and objects, any keys, hashes and number of buckets that leave
the table as it is, any number of slips, any width of `count_` with room for them
(`ObjectAssumption`, `NoGrowthAssumption`, `WidthAssumption`, `NoneAssumption`). `TypeOK`,
`LocksAccounted`, `ElementsOwned` and `DeadlockNeedsNesting`. The inductive invariant: a call knows the object its result
goes to (`CallsReady`), an object on an element has the table and a locked mutex
(`HoldersLock`), no two are in one bucket (`Apart`), none dangles unless a forged share let a
clear in (`Live`), and the books balance: the count is that of the objects and calls that share
the table, plus the shares lost to slips, less the forged ones, in the width of the counter, and
no more mutexes are locked than there are objects on elements and lost locks (`Balanced`).
`DeadlockNeedsNesting` says, of a state without slips and of any group of threads that wait for nobody
outside it, that one of them can go on or keeps an element while it waits; what a thread can do is
spelled out by its guards (`CanGo`), since ENABLED is out of reach. The books show that a wait for a
bucket is for the owner of an object on it, and a drain for such an owner or a thread that waits for a
bucket; a wait for the table is for the thread that drains (`ClearInv`: the writer is the thread in
`clear`). So every wait ends, after three more at most, at a thread that goes on or nests (`NoKnot`).

**`ThreadGroupProofs`** - any clients, tasks, number of workers, width of the ticket, both queue
groups, both strategies (`NumAssumption`, `KindAssumption`, `NoneAssumption`). `TypeOK` (the
dispatcher's index included), `NoneStranded`, `TasksInOnePlace` and `ImplementsExecutor`. The
inductive invariant relates the queues and the workers' hands to the promises (`QueuedAccepted`,
`QueuedOnce`, `AcceptedQueued`, `RunningHeld`, `HeldRunning`), a worker's step to its queue and
task (`WorkerSteps`), pushes in progress to promises (`ClientPushes`), and the stopping client's
loop to the queues it has stopped and the threads it has seen off (`ClientStops`). The last two
are what makes `Closed` and `Refuse` of the abstract executor provable: a stopped queue means
that stop was called, and a stop that ends has met every worker in its last step.
On top of it: `BeginInOrder`. A queue is the end of what has arrived at it
(`QueueIsRest`), so what has left it is a prefix, whose length is `Taken`; what left is no longer
accepted (`TakenBegun`), and of these a worker with its own queue runs at most the last
(`RunsLastTaken`). The property speaks of promises only: this is what ties them to places.

**`ApplicationProofs`** - any number of services, any length of configurations, any number of
start-ups, any of the services from libraries (`NumAssumption`, `LinkedAssumption`). `TypeOK` (no loop of the main thread runs past its end),
`PointersBacked` and `ImplementsLifecycle`. The inductive invariant ties the services' flags to
the main thread's place: nobody is active while services are made or destroyed (`IdleServices`),
and each of the four loops has done its part up to its index and not beyond
(`InitializedSoFar`, `StartedSoFar`, `StoppedSoFar`, `JoinedSoFar`); an active service exists, is
initialised and is not both running and stopping (`ActiveServices`); threads belong to active
services and pointers to running threads (`Threads`); only existing services are initialised, and
none is left to unload_all_libraries (`Known`); the code of those that exist is loaded (`Loaded`). Every way a start-up fails leads to the stop loop with these facts intact, which is why
neither property needs to know how it failed.

**`LoggerProofs`** - any threads and lines, any capacity of the pool, number of buffers of a line,
size of a file and width of its counter (`PoolAssumption`, `SizeAssumption`, `ThreadAssumption`,
`NoneAssumption`). `TypeOK`, `BuffersInOnePlace`, `WritesToFile` and `ImplementsLogStream`. Every step of the logger is a
step of its event loop or leaves it alone (`LoopSteps`), so the invariant of `ThreadGroupProofs`,
instantiated with one worker, holds of the loop. The pool, the threads' lines and the pushed lines
are laid out as one family of lists (`Laid`) in which no buffer is twice (`Alone`) and which holds
the buffers made, less the lost ones (`Placed`). malloc, flush, release and a refused push are then
moves within this family, each with one lemma. Two facts come from the loop's invariant: a pushed
line has its buffers only while a thread, the queue or the worker has it (`PushedHeld`), which is
why a flush never overwrites buffers; and the worker is at a place of the line it has
(`ItemFits`). `WritesToFile` rests on stop: what the worker runs, it runs before the owner has
joined it, and the file is closed after that (`FileFits`). The refinement needs what is in the
buffers, beside where they are (`SInv`): a buffer of a line holds its page from `LogWrite` until the worker
gives it back (`Written`, `Rest`), since nobody else has it; the lines the worker has been
through are those that have left the queue, in the order of their arrival, the last perhaps in part
(`RunsLast`). So the abstract stream, which is the flattening of the accepted lines' pages, grows at its end
with an accepted push, and the write of a page is the next page of the stream; all
other steps stutter.

**`GeneratorProofs`** - any schemas that meet `ProtoAssumption`, with any numbers of files, types and
fields, and any order of the calls. `GeneratedWhole` and `CompilesIfSupported`. The inductive invariant
(`GenInv`): nothing has happened, or a file has failed and nothing is written, or what is written and
gathered is that of the files that have been through `Generate`, whose number is the counter (`Going`);
so the counter meets the number of files in the call for the last one, whichever that is. `Reaches`, a
recursion over as many levels as there are files, is shown to be the least set that is closed under
the includes of generated headers: each level but the last enters a header that those before did not
(`LevelsEnd`, `ReachesLeast`). From there, a schema that keeps to the Readme (`SupportedFacts`) compiles
since the set of types and standard headers is closed, a class's own headers have what its fields need,
MessageType comes by way of the bases, and these, which go round in no circle, end in MessageBase, the only
root (`SupportedDerives`); conversely, what a compiling output includes, calls and makes objects of is what
was generated (`CompilesKnown`).

Five properties are stated by theorems only, since a proof for every instance leaves nothing for a
run to add: `CountExact` and `NoBarging` of the lock, `LocksMatchSteps`, `WriterAlone` and
`HomeBuckets` of the table. They are parts of inductive invariants and may be added to a
configuration at any time.

**Only model-checked.** Liveness (`WriterEnters`, `CallsReturn`, `FuturesReady`, `StopReturns`,
`BuffersReturn`, `ShutdownHonoured`): it rests on fairness, which is out of the prover's reach. `Messages`
and `Transfer` hold no theorem, so `ImplementsTransfer` and the `TypeOK` of `Messages` are TLC's alone: the
conversions follow messages within messages by operators that are defined by recursion, and these the
prover cannot unfold. (A recursive *function* of a number can be reasoned about, as in the
generator's `Reaches`; these conversions take whole objects, of which there is no set to make
a function on.)

## Findings

`hash_table_erase`: the loop in `erase_with_no_lock` (`ConcurrentHashTableT.h:255`) that looks for
the predecessor of the node to erase never advances `p`. The first two nodes of a chain are
erased; for a later one the call does not return, and the bucket mutex and the share of the table
mutex stay held. The module has both halves: `EraseNode` for positions 1 and 2, `EraseSearch`,
which changes nothing, for the rest. The test at `lib/concurrency/test/container_test.cpp:342`
says that erase returns.

`application_shutdown`: `Application::run` sets `is_running_` to true whatever came before
(`lib/core/src/Application.cpp:224`), so a shutdown called between start_services and run, by the
thread of a service that has just been started, is overwritten, and run waits for another one. The
test at `lib/core/test/services_test.cpp:146` says that a shutdown from another thread ends run; it
sleeps for two seconds first, which is what makes it pass.

Noted while reading, and not checked:

* `Main::main` returns when the configuration *was* loaded (`Main.cpp:40`), so no service runs.
* initialize_services, repeated with another configuration after it failed half-way, meets services
  without a configuration: an assertion stands at `Application.cpp:162`.
* A logger that starts again after stop starts a thread group that has discarded its threads, and
  indexes an empty vector.
* The static logger may be destroyed before the static application, whose clean-up logs.
* A thread group that was never started joins through null pointers when it is stopped or
  destroyed (`ThreadGroupT.h:109`).
* Microseconds and the like of a time before 1970 are negative (`DateTime.cpp:93-106`), beside the
  range that `DateTime.h:65-67` gives.

What `accessors` shows of misused accessors (an assignment over one in use keeps its former locks,
an iterator destroyed before its first `next` releases a share it never took, an insert that throws
keeps its locks) contradicts no statement in the repository and is a property, `LocksAccounted`,
instead of a finding.

## What is not modelled

* Hash table: an allocation of the mutex array that fails at the end of a rehash (it leaves a table
  larger than its array of mutexes, so what follows is undefined); accessors of `Accessors` beside a
  rehash; the hash and the equality of keys throwing inside a lookup of `HashTable`.
* Logger: a start after stop, its destructor, levels, formatting. Application: loading the
  configuration and the part of `Main::main` before line 45; hooks of stop and join that throw; a
  second start of services after join; reading the configuration, which a choice stands for.
* Weak memory: the code uses sequentially consistent atomics throughout.
* The end of an object's life: destructors that race with other calls, statics at exit.
* Configuration, date and time, strings, exceptions, singletons, service factory: no behaviour
  over time beyond start-up in one thread.
* Message generator: operator== of the classes, enum_to_string and parse_enum, the enumerators that
  MessageType must have for each class, the characters of the output (print_line, tabs, namespaces,
  include guards), the members that the printed constructors name (major_version, minor_version,
  last_update, and those of MessageVersion), a message that contains itself (its header would include itself). A header of an
  enum uses std::string and includes nothing (`Type.cpp:68`): it compiles only after a header that
  does, as in generated.cpp; `Needs` leaves that out. protoc and protobuf are external.
* The wrappers of std primitives: aliases.

## Plan

Done: `RWLock`, `SharedMutex`, `ConcurrentMap`, `HashTable`, `HashIteration`, `Accessors`,
`Executor`, `ThreadGroup`, `LogStream`, `Logger`, `Lifecycle`, `Application`, `Generator`,
`Messages`, `Transfer`, with the proofs above; most important behaviour first (the lock everything
rests on, the table, the executor, then their users).

Every safety property that a run checks is a theorem, except the two of `Messages` named above.
What could follow, in this order:

1. The end of a thread group's life: a second stop, and a destructor, beside the first.
2. A failing allocation of the mutex array at the end of a rehash.
3. The conversions of `Messages` by the depth of an object instead of by recursion, which would bring
   `ImplementsTransfer` into the prover's reach.
