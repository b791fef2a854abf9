---------------------------- MODULE Application ----------------------------
(***************************************************************************)
(* Application and Service, lib/core/src, driven as Main::main and the     *)
(* test of the services do: initialise, start, run until someone calls     *)
(* shutdown, stop, join, clean up.  The threads of the services live from  *)
(* on_start to on_join.                                                    *)
(*                                                                         *)
(* Services are numbered in the order of their names, the order of         *)
(* services_map_.  Configurations are lists of names; what else they say   *)
(* decides whether a step fails.                                           *)
(***************************************************************************)
EXTENDS Naturals, Sequences

CONSTANTS
    NumServices,
    Linked,         \* the services whose code is the program's own; that of
                    \* another is in a library, named by the service
    MaxNodes,       \* bound: length of a configuration
    MaxCalls        \* bound: calls of initialize_services

ASSUME NumAssumption ==
    NumServices \in Nat \ {0} /\ MaxNodes \in Nat /\ MaxCalls \in Nat \ {0}

Service == 1 .. NumServices

ASSUME LinkedAssumption == Linked \subseteq Service

Other == 0                      \* a thread that belongs to no service

VARIABLES
    mpc,                        \* the main thread's step
    at,                         \* the index of its loop
    nodes,                      \* the configuration it initialises from
    calls,                      \* calls of initialize_services
    services_map,               \* the services that exist
    loaded_libs,                \* the services whose library is loaded
    is_initialized, is_running, is_stopping,    \* of each service
    app_running,                \* is_running_ of the application
    thread,                     \* each service's thread
    ref,                        \* the service pointers that thread has
    spc                         \* threads inside shutdown

flags == <<is_initialized, is_running, is_stopping>>
setup == <<nodes, calls, services_map, loaded_libs>>
vars  == <<mpc, at, setup, flags, app_running, thread, ref, spc>>

Init ==
    /\ mpc = "log" /\ at = 1
    /\ nodes = <<>> /\ calls = 0
    /\ services_map = {} /\ loaded_libs = {}
    /\ is_initialized = [s \in Service |-> FALSE]
    /\ is_running = [s \in Service |-> FALSE]
    /\ is_stopping = [s \in Service |-> FALSE]
    /\ app_running = FALSE
    /\ thread = [s \in Service |-> "none"]
    /\ ref = [s \in Service |-> {}]
    /\ spc = [x \in Service \cup {Other} |-> "idle"]

(* The main thread goes on to a step of its own, at the start of a loop.   *)
GoTo(step) == mpc' = step /\ at' = 1

-----------------------------------------------------------------------------

(* initialize_log: without a log the program ends.                         *)
initialize_log ==
    /\ mpc = "log"
    /\ GoTo("call") \/ GoTo("clear")
    /\ UNCHANGED <<setup, flags, app_running, thread, ref, spc>>

(* initialize_services is called, again if it failed; main gives up.       *)
CallInitialize ==
    /\ mpc = "call"
    /\ \/ /\ calls < MaxCalls
          /\ calls' = calls + 1
          /\ \E n \in 1 .. MaxNodes : nodes' \in [1 .. n -> Service]
          /\ GoTo("load")
       \/ GoTo("stop") /\ UNCHANGED <<nodes, calls>>
    /\ UNCHANGED <<services_map, loaded_libs, flags, app_running, thread, ref, spc>>

(* A step of it returns false, or throws, which ends the program.          *)
Fail == GoTo("call") \/ GoTo("stop")

(* load_library of each that a node lists, until one fails; what it loaded *)
(* stays, and what is loaded already is left alone.                        *)
load_library(libs) == loaded_libs' = loaded_libs \cup libs

LoadLibrary ==
    /\ mpc = "load"
    /\ \/ /\ at <= Len(nodes)
          /\ \E libs \in SUBSET (Service \ Linked) : load_library(libs)
          /\ Fail \/ (at' = at + 1 /\ UNCHANGED mpc)
       \/ at > Len(nodes) /\ GoTo("create") /\ UNCHANGED loaded_libs
    /\ UNCHANGED <<nodes, calls, services_map, flags, app_running, thread, ref, spc>>

(* No name, a duplicate, no such type: false.  What was created stays.  A  *)
(* library registers the types it has when it is loaded.                   *)
CreateService ==
    /\ mpc = "create"
    /\ \/ /\ at <= Len(nodes) /\ nodes[at] \notin services_map
          /\ nodes[at] \in Linked \cup loaded_libs
          /\ services_map' = services_map \cup {nodes[at]}
          /\ at' = at + 1 /\ UNCHANGED mpc
       \/ at <= Len(nodes) /\ Fail /\ UNCHANGED services_map
       \/ at > Len(nodes) /\ GoTo("init") /\ UNCHANGED services_map
    /\ UNCHANGED <<nodes, calls, loaded_libs, flags, app_running, thread, ref, spc>>

(* The loops over services_map_ skip what is not in it.                    *)
SkipTo(step, then, end) ==
    /\ mpc = step
    /\ \/ at \in 1 .. end /\ at \notin services_map /\ at' = at + 1 /\ UNCHANGED mpc
       \/ at > end /\ GoTo(then)
    /\ UNCHANGED <<setup, flags, app_running, thread, ref, spc>>

SkipFar(step, then) == SkipTo(step, then, NumServices + 1)  \* past the end
Skip(step, then) == SkipTo(step, then, NumServices)

(* Service::initialize of each; an initialisation that throws sets no flag.*)
InitializeGoesOn ==             \* when one has failed
    /\ mpc = "init" /\ at \in services_map
    /\ \E ok \in BOOLEAN :
          is_initialized' = [is_initialized EXCEPT ![at] = ok]
    /\ at' = at + 1 /\ UNCHANGED mpc
    /\ UNCHANGED <<setup, is_running, is_stopping, app_running, thread, ref, spc>>

InitializeService ==
    /\ mpc = "init" /\ at \in services_map
    /\ \/ /\ is_initialized' = [is_initialized EXCEPT ![at] = TRUE]
          /\ at' = at + 1 /\ UNCHANGED mpc
       \/ /\ is_initialized' = [is_initialized EXCEPT ![at] = FALSE]
          /\ GoTo("call")
       \/ GoTo("stop") /\ UNCHANGED is_initialized
    /\ UNCHANGED <<setup, is_running, is_stopping, app_running, thread, ref, spc>>

-----------------------------------------------------------------------------

(* Service::start: before_start and on_start may throw, on_start before or *)
(* after it made a thread, if it makes one.  (In this order of calls every *)
(* service is idle here.)                                                  *)
StartService ==
    /\ mpc = "start" /\ at \in services_map
    /\ \/ GoTo("stop") /\ UNCHANGED <<is_running, thread>>
       \/ /\ ~(is_running[at] \/ is_stopping[at])
          /\ is_running' = [is_running EXCEPT ![at] = TRUE]
          /\ \E state \in {"none", "running"} : thread' = [thread EXCEPT ![at] = state]
          /\ GoTo("stop") \/ (at' = at + 1 /\ UNCHANGED mpc)
    /\ UNCHANGED <<setup, is_initialized, is_stopping, app_running, ref, spc>>

(* Service::stop, which tells its thread, ...                              *)
StopService ==
    /\ mpc = "stop" /\ at \in services_map
    /\ IF is_running[at] /\ ~is_stopping[at]
       THEN /\ is_running' = [is_running EXCEPT ![at] = FALSE]
            /\ is_stopping' = [is_stopping EXCEPT ![at] = TRUE]
       ELSE UNCHANGED <<is_running, is_stopping>>
    /\ at' = at + 1 /\ UNCHANGED mpc
    /\ UNCHANGED <<setup, is_initialized, app_running, thread, ref, spc>>

(* ... and Service::join, which waits for it.                              *)
JoinIf(ended) ==
    /\ mpc = "join" /\ at \in services_map
    /\ IF ~is_running[at] /\ is_stopping[at]
       THEN ended /\ is_stopping' = [is_stopping EXCEPT ![at] = FALSE]
       ELSE UNCHANGED is_stopping
    /\ at' = at + 1 /\ UNCHANGED mpc
    /\ UNCHANGED <<setup, is_initialized, is_running, app_running, thread, ref, spc>>

JoinNotWaiting == JoinIf(TRUE)  \* on_join returns at once
JoinService == JoinIf(thread[at] # "running")

(* run: sets the flag and waits, in one critical section, ...              *)
RunWait ==
    /\ mpc = "run"
    /\ app_running' = TRUE
    /\ GoTo("wait")
    /\ UNCHANGED <<setup, flags, thread, ref, spc>>

(* ... is notified or wakes for no reason, and looks at the flag again.    *)
Wake ==
    /\ mpc = "wait"
    /\ GoTo("woken")
    /\ UNCHANGED <<setup, flags, app_running, thread, ref, spc>>

RunReturn ==
    /\ mpc = "woken"
    /\ IF app_running THEN GoTo("wait") ELSE GoTo("stop")
    /\ UNCHANGED <<setup, flags, app_running, thread, ref, spc>>

(* cleanup: the map, then the libraries, then the logger.                  *)
ClearServices ==
    /\ mpc = "clear"
    /\ services_map' = {}
    /\ GoTo("unload")
    /\ UNCHANGED <<nodes, calls, loaded_libs, flags, app_running, thread, ref, spc>>

unload_all_libraries ==
    /\ mpc = "unload"
    /\ loaded_libs' = {}
    /\ GoTo("end")
    /\ UNCHANGED <<nodes, calls, services_map, flags, app_running, thread, ref, spc>>

-----------------------------------------------------------------------------
(* The other threads.                                                      *)

MayCall(x) == IF x = Other THEN mpc # "end" ELSE thread[x] = "running"

Notify == mpc' = IF mpc = "wait" THEN "woken" ELSE mpc

shutdownSwapped(x) ==           \* notifies before it clears the flag
    /\ \/ spc[x] = "idle" /\ MayCall(x) /\ Notify /\ UNCHANGED app_running
       \/ spc[x] = "notify" /\ app_running' = FALSE /\ UNCHANGED mpc
    /\ spc' = [spc EXCEPT ![x] = IF @ = "idle" THEN "notify" ELSE "idle"]
    /\ UNCHANGED <<at, setup, flags, thread, ref>>

(* shutdown clears the flag under the lock and notifies without it.        *)
shutdown(x) ==
    /\ \/ spc[x] = "idle" /\ MayCall(x) /\ app_running' = FALSE /\ UNCHANGED mpc
       \/ spc[x] = "notify" /\ Notify /\ UNCHANGED app_running
    /\ spc' = [spc EXCEPT ![x] = IF @ = "idle" THEN "notify" ELSE "idle"]
    /\ UNCHANGED <<at, setup, flags, thread, ref>>

get_service_pointer(s, name) ==
    /\ thread[s] = "running" /\ name \in services_map
    /\ ref' = [ref EXCEPT ![s] = @ \cup {name}]
    /\ UNCHANGED <<mpc, at, setup, flags, app_running, thread, spc>>

(* A service's thread ends, on its own or told to, and drops its pointers. *)
ThreadEnds(s) ==
    /\ thread[s] = "running" /\ spc[s] = "idle"
    /\ thread' = [thread EXCEPT ![s] = "ended"]
    /\ ref' = [ref EXCEPT ![s] = {}]
    /\ UNCHANGED <<mpc, at, setup, flags, app_running, spc>>

-----------------------------------------------------------------------------

MainStep ==
    \/ initialize_log \/ CallInitialize \/ LoadLibrary \/ CreateService
    \/ Skip("init", "start") \/ InitializeService
    \/ Skip("start", "run") \/ StartService \/ RunWait \/ RunReturn
    \/ Skip("stop", "join") \/ StopService
    \/ Skip("join", "clear") \/ JoinService
    \/ ClearServices \/ unload_all_libraries

Next ==
    \/ MainStep \/ Wake
    \/ \E x \in Service \cup {Other} : shutdown(x)
    \/ \E s \in Service : ThreadEnds(s) \/ \E name \in Service : get_service_pointer(s, name)

Spec == Init /\ [][Next]_vars

(* The main thread goes on; a thread in shutdown leaves it; a service's    *)
(* thread ends once it is told to.  Nobody has to call shutdown, and the   *)
(* wait need not wake without a notification.                              *)
Fairness ==
    /\ WF_vars(MainStep)
    /\ \A x \in Service \cup {Other} : WF_vars(spc[x] = "notify" /\ shutdown(x))
    /\ \A s \in Service : WF_vars(is_stopping[s] /\ ThreadEnds(s))

FairSpec == Spec /\ Fairness

-----------------------------------------------------------------------------

Steps == {"log", "call", "load", "create", "init", "start", "run", "wait", "woken",
          "stop", "join", "clear", "unload", "end"}

ControlOK ==
    /\ mpc \in Steps
    /\ at \in 1 .. 1 + IF mpc \in {"load", "create"} THEN Len(nodes) ELSE NumServices

SetupOK ==
    /\ nodes \in Seq(Service) /\ Len(nodes) <= MaxNodes /\ calls \in 0 .. MaxCalls
    /\ services_map \subseteq Service /\ loaded_libs \subseteq Service

FlagsOK ==
    /\ is_initialized \in [Service -> BOOLEAN]
    /\ is_running \in [Service -> BOOLEAN] /\ is_stopping \in [Service -> BOOLEAN]
    /\ app_running \in BOOLEAN

ThreadsOK ==
    /\ thread \in [Service -> {"none", "running", "ended"}]
    /\ ref \in [Service -> SUBSET Service]
    /\ spc \in [Service \cup {Other} -> {"idle", "notify"}]

TypeOK == ControlOK /\ SetupOK /\ FlagsOK /\ ThreadsOK

(* While a service exists its code is loaded: the libraries are unloaded   *)
(* after the map is cleared.  And while a service's thread runs, or holds  *)
(* a service pointer, the services it may use exist: clean-up comes after  *)
(* every join, also when the start-up failed half-way.                     *)
PointersBacked ==
    /\ services_map \subseteq Linked \cup loaded_libs
    /\ \A s \in Service :
          thread[s] = "running" \/ ref[s] # {} => ref[s] \cup {s} \subseteq services_map

(* The services see what Lifecycle promises.                               *)
ServiceState(s) ==
    IF mpc \in {"unload", "end"} THEN "gone"
    ELSE IF s \notin services_map THEN "absent"
    ELSE IF is_stopping[s] THEN "stopping"
    ELSE IF is_running[s] THEN "running"
    ELSE IF is_initialized[s] THEN "ready" ELSE "created"

Abs == INSTANCE Lifecycle WITH state <- [s \in Service |-> ServiceState(s)]

ImplementsLifecycle == Abs!Spec

(* A shutdown that finds the main thread in run ends it: the notification  *)
(* is not lost between its look at the flag and its wait.                  *)
ShutdownHonoured ==
    \A x \in Service \cup {Other} :
        spc[x] = "notify" /\ ~app_running /\ mpc \in {"wait", "woken"} ~> mpc = "stop"

(* A service that calls shutdown ends the program.  It need not: before    *)
(* run, which its thread does not see, the call has no effect.             *)
ShutdownEndsRun ==
    \A s \in Service : spc[s] = "notify" ~> mpc \notin {"start", "run", "wait", "woken"}
=============================================================================
