------------------------- MODULE ApplicationProofs -------------------------
(***************************************************************************)
(* Proofs about Application and Service for any number of services, any    *)
(* configurations and any number of repeated start-ups.                    *)
(***************************************************************************)
EXTENDS Application, SequenceTheorems, TLAPS

(* How far the main thread's loops have got with the services' flags.      *)
Setup == {"log", "call", "load", "create", "init"}
Teardown == {"clear", "unload", "end"}
Running == {"start", "run", "wait", "woken"}

ActiveServices ==
    \A s \in Service : is_running[s] \/ is_stopping[s] =>
        s \in services_map /\ is_initialized[s] /\ ~(is_running[s] /\ is_stopping[s])

IdleServices ==
    mpc \in Setup \cup Teardown =>
        \A s \in Service : ~is_running[s] /\ ~is_stopping[s]

InitializedSoFar ==
    \A s \in services_map :
        mpc \in Running \/ (mpc = "init" /\ s < at) => is_initialized[s]

StartedSoFar ==
    \A s \in Service :
        /\ mpc \in Running => ~is_stopping[s]
        /\ mpc = "start" /\ s >= at => ~is_running[s]

StoppedSoFar ==
    \A s \in Service :
        /\ mpc = "stop" /\ s < at => ~is_running[s]
        /\ mpc = "stop" /\ s >= at => ~is_stopping[s]

JoinedSoFar ==
    \A s \in Service :
        /\ mpc = "join" => ~is_running[s]
        /\ mpc = "join" /\ s < at => ~is_stopping[s]

Phases ==
    /\ ActiveServices /\ IdleServices /\ InitializedSoFar
    /\ StartedSoFar /\ StoppedSoFar /\ JoinedSoFar

(* Threads belong to active services, and pointers to running threads.     *)
Threads ==
    \A s \in Service :
        /\ thread[s] = "running" => is_running[s] \/ is_stopping[s]
        /\ ref[s] # {} => thread[s] = "running"
        /\ ref[s] \subseteq services_map

(* Only existing services are initialised, until they are destroyed; then  *)
(* there are none.                                                         *)
Gone == {"unload", "end"}
Known ==
    IF mpc \in Gone THEN services_map = {}
    ELSE \A s \in Service : is_initialized[s] => s \in services_map

(* The code of the services that exist is loaded.                          *)
Loaded == services_map \subseteq Linked \cup loaded_libs

Inv == TypeOK /\ Phases /\ Threads /\ Known /\ Loaded

-----------------------------------------------------------------------------

(* A configuration of bounded length is a sequence of services.            *)
LEMMA ConfigurationType ==
    ASSUME NEW n \in 1 .. MaxNodes, NEW list \in [1 .. n -> Service]
    PROVE  list \in Seq(Service) /\ Len(list) <= MaxNodes
<1>1. n \in Nat /\ n <= MaxNodes
  BY NumAssumption
<1>2. list \in Seq(Service)
  BY <1>1, SeqDef
<1>3. DOMAIN list = 1 .. n /\ DOMAIN list = 1 .. Len(list) /\ Len(list) \in Nat
  BY <1>2, LenProperties
<1>4. Len(list) = n
  BY <1>1, <1>3
<1> QED
  BY <1>1, <1>2, <1>4

LEMMA InitInv == Init => Inv
<1> SUFFICES ASSUME Init PROVE Inv
  OBVIOUS
<1> USE DEF Init
<1>1. TypeOK
  <2>1. ControlOK
    BY NumAssumption DEF ControlOK, Steps
  <2>2. SetupOK
    BY NumAssumption DEF SetupOK
  <2>3. FlagsOK
    BY DEF FlagsOK
  <2>4. ThreadsOK
    BY DEF ThreadsOK
  <2> QED
    BY <2>1, <2>2, <2>3, <2>4 DEF TypeOK
<1>2. Phases
  BY DEF Phases, ActiveServices, IdleServices, InitializedSoFar, StartedSoFar,
     StoppedSoFar, JoinedSoFar, Setup, Teardown, Running
<1>3. Threads
  BY DEF Threads
<1>4. Known
  BY DEF Known, Gone
<1>5. Loaded
  BY DEF Loaded
<1> QED
  BY <1>1, <1>2, <1>3, <1>4, <1>5 DEF Inv

-----------------------------------------------------------------------------
(* Every step keeps the types.                                             *)

LEMMA SetupStep ==
    ASSUME SetupOK, [Next]_vars, at \in Nat \ {0}
    PROVE  SetupOK'
<1> USE DEF SetupOK
<1>1. CASE CallInitialize
  <2>1. nodes' \in Seq(Service) /\ Len(nodes') <= MaxNodes
    BY <1>1, ConfigurationType DEF CallInitialize
  <2>2. calls' \in 0 .. MaxCalls
    BY <1>1, NumAssumption DEF CallInitialize
  <2> QED
    BY <1>1, <2>1, <2>2 DEF CallInitialize
<1>2. at <= Len(nodes) => nodes[at] \in Service
  BY ElementOfSeq
<1>3. CASE LoadLibrary
  BY <1>2, <1>3 DEF LoadLibrary, load_library
<1>4. CASE CreateService
  BY <1>2, <1>4 DEF CreateService
<1>5. CASE ClearServices \/ unload_all_libraries
  BY <1>5 DEF ClearServices, unload_all_libraries
<1>6. CASE UNCHANGED setup
  BY <1>6 DEF setup
<1> QED
  BY <1>1, <1>3, <1>4, <1>5, <1>6 DEF Next, MainStep, vars, initialize_log, Skip, SkipTo,
     InitializeService, StartService, RunWait, RunReturn, StopService, JoinService,
     JoinIf, Wake, shutdown, get_service_pointer, ThreadEnds

LEMMA FlagsStep ==
    ASSUME FlagsOK, [Next]_vars
    PROVE  FlagsOK'
<1> USE DEF FlagsOK
<1>1. CASE InitializeService
  BY <1>1 DEF InitializeService
<1>2. CASE StartService
  BY <1>2 DEF StartService
<1>3. CASE StopService
  BY <1>3 DEF StopService
<1>4. CASE JoinService
  BY <1>4 DEF JoinService, JoinIf
<1>5. CASE UNCHANGED flags /\ app_running' \in {app_running, TRUE, FALSE}
  BY <1>5 DEF flags
<1> QED
  BY <1>1, <1>2, <1>3, <1>4, <1>5 DEF Next, MainStep, vars, initialize_log, CallInitialize,
     LoadLibrary, CreateService, Skip, SkipTo, RunWait, RunReturn, ClearServices,
     unload_all_libraries, Wake, shutdown, get_service_pointer, ThreadEnds

LEMMA ThreadsStep ==
    ASSUME ThreadsOK, SetupOK, [Next]_vars
    PROVE  ThreadsOK'
<1> USE DEF ThreadsOK
<1>1. CASE StartService
  BY <1>1 DEF StartService
<1>2. CASE \E x \in Service \cup {Other} : shutdown(x)
  BY <1>2 DEF shutdown
<1>3. CASE \E s, name \in Service : get_service_pointer(s, name)
  BY <1>3 DEF get_service_pointer
<1>4. CASE \E s \in Service : ThreadEnds(s)
  BY <1>4 DEF ThreadEnds
<1>5. CASE UNCHANGED <<thread, ref, spc>>
  BY <1>5
<1> QED
  BY <1>1, <1>2, <1>3, <1>4, <1>5 DEF Next, MainStep, vars, initialize_log, CallInitialize,
     LoadLibrary, CreateService, Skip, SkipTo, InitializeService, RunWait, RunReturn,
     StopService, JoinService, JoinIf, ClearServices, unload_all_libraries, Wake

LEMMA ControlStep ==
    ASSUME ControlOK, SetupOK, [Next]_vars
    PROVE  ControlOK'
<1> USE NumAssumption DEF ControlOK, GoTo, Steps
<1>1. services_map \subseteq 1 .. NumServices /\ Len(nodes) \in Nat
  BY DEF SetupOK, Service
<1>2. CASE initialize_log \/ RunWait \/ RunReturn \/ Wake \/ ClearServices
           \/ unload_all_libraries
  BY <1>2 DEF initialize_log, RunWait, RunReturn, Wake, ClearServices, unload_all_libraries
<1>3. CASE CallInitialize
  <2>1. nodes' \in Seq(Service)
    BY <1>3, ConfigurationType DEF CallInitialize, SetupOK
  <2>2. Len(nodes') \in Nat
    BY <2>1
  <2> QED
    BY <1>3, <2>2 DEF CallInitialize
<1>4. CASE LoadLibrary \/ CreateService
  BY <1>1, <1>4 DEF LoadLibrary, CreateService, Fail
<1>5. CASE \E step \in {"init", "start", "stop", "join"},
              then \in {"start", "run", "join", "clear"} : Skip(step, then)
  BY <1>1, <1>5 DEF Skip, SkipTo
<1>6. CASE InitializeService
  BY <1>1, <1>6 DEF InitializeService
<1>7. CASE StartService
  BY <1>1, <1>7 DEF StartService
<1>8. CASE StopService
  BY <1>1, <1>8 DEF StopService
<1>9. CASE JoinService
  BY <1>1, <1>9 DEF JoinService, JoinIf
<1>10. CASE \E x \in Service \cup {Other} : shutdown(x)
  BY <1>10 DEF shutdown, Notify, setup
<1>11. CASE UNCHANGED <<mpc, at, nodes>>
  BY <1>11
<1> QED
  BY <1>2, <1>3, <1>4, <1>5, <1>6, <1>7, <1>8, <1>9, <1>10, <1>11
     DEF Next, MainStep, vars, setup, get_service_pointer, ThreadEnds

LEMMA TypeStep ==
    ASSUME TypeOK, [Next]_vars
    PROVE  TypeOK'
<1>1. at \in Nat \ {0}
  BY NumAssumption DEF TypeOK, ControlOK, SetupOK
<1> QED
  BY <1>1, SetupStep, FlagsStep, ThreadsStep, ControlStep DEF TypeOK

-----------------------------------------------------------------------------
(* The flags agree with how far the main thread has got.                   *)

LEMMA PhasesStep ==
    ASSUME TypeOK, Phases, Threads, [Next]_vars
    PROVE  Phases'
<1> USE DEF Phases, ActiveServices, IdleServices, InitializedSoFar, StartedSoFar,
            StoppedSoFar, JoinedSoFar, Setup, Teardown, Running, GoTo
<1>1. /\ services_map \subseteq Service /\ at \in Nat /\ Service \subseteq Nat
      /\ \A s \in Service : 1 <= s /\ s <= NumServices
  BY NumAssumption DEF TypeOK, ControlOK, SetupOK, Service
<1>2. FlagsOK
  BY DEF TypeOK
<1>3. CASE initialize_log
  BY <1>3 DEF initialize_log, setup, flags
<1>4. CASE CallInitialize
  BY <1>4 DEF CallInitialize, flags
<1>5. CASE LoadLibrary
  BY <1>5 DEF LoadLibrary, Fail, flags
<1>6. CASE CreateService
  <2>1. at <= Len(nodes) => nodes[at] \in Service
    BY ElementOfSeq DEF TypeOK, ControlOK, SetupOK
  <2>2. UNCHANGED <<is_initialized, is_running, is_stopping>>
    BY <1>6 DEF CreateService, flags
  <2>3. \A s \in Service : ~is_running[s] /\ ~is_stopping[s]
    BY <1>6 DEF CreateService
  <2>4. mpc' \in {"create", "init", "call", "stop"} /\ (mpc' = "init" => at' = 1)
    BY <1>6 DEF CreateService, Fail
  <2>5. services_map' \subseteq Service
    <3>1. \/ services_map' = services_map
          \/ at <= Len(nodes) /\ services_map' = services_map \cup {nodes[at]}
      BY ONLY <1>6 DEF CreateService
    <3> QED
      BY ONLY <1>1, <2>1, <3>1
  <2>6. ActiveServices' /\ IdleServices'
    BY <2>2, <2>3
  <2>7. InitializedSoFar'
    BY <1>1, <2>4, <2>5
  <2>8. StartedSoFar' /\ StoppedSoFar' /\ JoinedSoFar'
    BY <2>2, <2>3
  <2> QED
    BY <2>6, <2>7, <2>8
<1>7. CASE Skip("init", "start")
  <2>1. UNCHANGED <<services_map, is_initialized, is_running, is_stopping>>
    BY <1>7 DEF Skip, SkipTo, setup, flags
  <2>2. \A s \in Service : ~is_running[s] /\ ~is_stopping[s]
    BY <1>7 DEF Skip, SkipTo
  <2>3. CASE mpc' = "init" /\ at' = at + 1 /\ at \notin services_map
    <3>1. \A s \in services_map : s < at' => is_initialized[s]
      BY <1>1, <1>7, <2>3 DEF Skip, SkipTo
    <3> QED
      BY <2>1, <2>2, <2>3, <3>1
  <2>4. CASE mpc' = "start" /\ at > NumServices
    <3>1. \A s \in services_map : is_initialized[s]
      BY <1>1, <1>7, <2>4, NumAssumption DEF Skip, SkipTo
    <3> QED
      BY <2>1, <2>2, <2>4, <3>1
  <2> QED
    BY <1>7, <2>3, <2>4 DEF Skip, SkipTo
<1>8. CASE Skip("start", "run")
  BY <1>1, <1>8 DEF Skip, SkipTo, setup, flags
<1>9. CASE Skip("stop", "join")
  <2>1. UNCHANGED <<services_map, is_initialized, is_running, is_stopping>>
    BY <1>9 DEF Skip, SkipTo, setup, flags
  <2>2. CASE mpc' = "stop" /\ at' = at + 1 /\ at \notin services_map
    <3>1. \A s \in Service : /\ s < at' => ~is_running[s]
                             /\ s >= at' => ~is_stopping[s]
      BY <1>1, <1>9, <2>2 DEF Skip, SkipTo
    <3> QED
      BY <2>1, <2>2, <3>1
  <2>3. CASE mpc' = "join" /\ at' = 1 /\ at > NumServices
    <3>1. \A s \in Service : ~is_running[s]
      BY <1>1, <1>9, <2>3, NumAssumption DEF Skip, SkipTo
    <3> QED
      BY <1>1, <2>1, <2>3, <3>1
  <2> QED
    BY <1>9, <2>2, <2>3 DEF Skip, SkipTo
<1>10. CASE Skip("join", "clear")
  <2>1. UNCHANGED <<services_map, is_initialized, is_running, is_stopping>>
    BY <1>10 DEF Skip, SkipTo, setup, flags
  <2>2. \A s \in Service : ~is_running[s]
    BY <1>10 DEF Skip, SkipTo
  <2>3. CASE mpc' = "join" /\ at' = at + 1 /\ at \notin services_map
    <3>1. \A s \in Service : s < at' => ~is_stopping[s]
      BY <1>1, <1>10, <2>3 DEF Skip, SkipTo
    <3> QED
      BY <2>1, <2>2, <2>3, <3>1
  <2>4. CASE mpc' = "clear" /\ at > NumServices
    <3>1. \A s \in Service : ~is_stopping[s]
      BY <1>1, <1>10, <2>4, NumAssumption DEF Skip, SkipTo
    <3> QED
      BY <2>1, <2>2, <2>4, <3>1
  <2> QED
    BY <1>10, <2>3, <2>4 DEF Skip, SkipTo
<1>11. CASE InitializeService
  BY <1>1, <1>2, <1>11 DEF InitializeService, setup, FlagsOK
<1>12. CASE StartService
  BY <1>1, <1>2, <1>12 DEF StartService, setup, FlagsOK
<1>13. CASE StopService
  BY <1>1, <1>2, <1>13 DEF StopService, setup, FlagsOK
<1>14. CASE JoinService
  BY <1>1, <1>2, <1>14 DEF JoinService, JoinIf, setup, FlagsOK
<1>15. CASE RunWait \/ RunReturn \/ Wake
  <2>1. UNCHANGED <<services_map, is_initialized, is_running, is_stopping>>
    BY <1>15 DEF RunWait, RunReturn, Wake, setup, flags
  <2>2. mpc \in Running /\ at' = 1 /\ mpc' \in {"wait", "woken", "stop"}
    BY <1>15 DEF RunWait, RunReturn, Wake
  <2> QED
    BY <1>1, <2>1, <2>2
<1>16. CASE ClearServices
  BY <1>16 DEF ClearServices, flags
<1>17. CASE unload_all_libraries
  BY <1>17 DEF unload_all_libraries, flags
<1>18. CASE \E x \in Service \cup {Other} : shutdown(x)
  BY <1>18 DEF shutdown, Notify, setup, flags
<1>19. CASE UNCHANGED <<mpc, at, setup, flags>>
  BY <1>19 DEF setup, flags
<1> QED
  BY <1>3, <1>4, <1>5, <1>6, <1>7, <1>8, <1>9, <1>10, <1>11, <1>12, <1>13, <1>14,
     <1>15, <1>16, <1>17, <1>18, <1>19
     DEF Next, MainStep, vars, get_service_pointer, ThreadEnds

(* A thread runs while its service is active; its pointers are backed.     *)
LEMMA ThreadsInvStep ==
    ASSUME TypeOK, Phases, Threads, [Next]_vars
    PROVE  Threads'
<1> USE DEF Threads
<1>1. /\ services_map \subseteq Service
      /\ thread \in [Service -> {"none", "running", "ended"}]
      /\ ref \in [Service -> SUBSET Service]
      /\ is_running \in [Service -> BOOLEAN] /\ is_stopping \in [Service -> BOOLEAN]
  BY DEF TypeOK, SetupOK, ThreadsOK, FlagsOK
<1>2. CASE CreateService
  BY <1>2 DEF CreateService, flags
<1>3. CASE StartService
  BY <1>1, <1>3 DEF StartService, setup
<1>4. CASE StopService
  BY <1>1, <1>4 DEF StopService, setup
<1>5. CASE JoinService
  BY <1>1, <1>5 DEF JoinService, JoinIf, setup
<1>6. CASE ClearServices
  BY <1>6 DEF ClearServices, flags, Phases, IdleServices, Teardown
<1>7. CASE \E s, name \in Service : get_service_pointer(s, name)
  BY <1>1, <1>7 DEF get_service_pointer, setup, flags
<1>8. CASE \E s \in Service : ThreadEnds(s)
  BY <1>1, <1>8 DEF ThreadEnds, setup, flags
<1>9. CASE UNCHANGED <<services_map, is_running, is_stopping, thread, ref>>
  BY <1>9
<1> QED
  BY <1>2, <1>3, <1>4, <1>5, <1>6, <1>7, <1>8, <1>9
     DEF Next, MainStep, vars, setup, flags, initialize_log, CallInitialize, LoadLibrary,
         Skip, SkipTo, InitializeService, RunWait, RunReturn, unload_all_libraries, Wake,
         shutdown

LEMMA KnownStep ==
    ASSUME TypeOK, Known, [Next]_vars
    PROVE  Known'
<1> USE DEF Known, Gone
<1>1. is_initialized \in [Service -> BOOLEAN]
  BY DEF TypeOK, FlagsOK
<1>2. CASE CreateService
  BY <1>2 DEF CreateService, Fail, GoTo, flags
<1>3. CASE InitializeService
  BY <1>1, <1>3 DEF InitializeService, GoTo, setup
<1>4. CASE ClearServices \/ unload_all_libraries
  BY <1>4 DEF ClearServices, unload_all_libraries, GoTo
<1>5. CASE mpc \notin Gone /\ mpc' \notin Gone /\ UNCHANGED <<services_map, is_initialized>>
  BY <1>5
<1>6. CASE UNCHANGED <<mpc, services_map, is_initialized>>
  BY <1>6
<1>7. CASE \E x \in Service \cup {Other} : shutdown(x)
  BY <1>7 DEF shutdown, Notify, setup, flags
<1> QED
  BY <1>2, <1>3, <1>4, <1>5, <1>6, <1>7
     DEF Next, MainStep, vars, setup, flags, initialize_log, CallInitialize, LoadLibrary,
         Skip, SkipTo, StartService, RunWait, RunReturn, StopService, JoinService, JoinIf,
         Wake, get_service_pointer, ThreadEnds, GoTo, Fail

(* Services are created from loaded code, and unload_all_libraries finds   *)
(* none.                                                                   *)
LEMMA LoadedStep ==
    ASSUME Known, Loaded, [Next]_vars
    PROVE  Loaded'
<1> USE DEF Loaded
<1>1. CASE LoadLibrary
  BY <1>1 DEF LoadLibrary, load_library
<1>2. CASE CreateService
  BY <1>2 DEF CreateService
<1>3. CASE ClearServices
  BY <1>3 DEF ClearServices
<1>4. CASE unload_all_libraries
  BY <1>4 DEF unload_all_libraries, Known, Gone
<1>5. CASE UNCHANGED <<services_map, loaded_libs>>
  BY <1>5
<1> QED
  BY <1>1, <1>2, <1>3, <1>4, <1>5
     DEF Next, MainStep, vars, setup, initialize_log, CallInitialize, Skip, SkipTo,
         InitializeService, StartService, RunWait, RunReturn, StopService, JoinService, JoinIf,
         Wake, shutdown, get_service_pointer, ThreadEnds

LEMMA InvStep == Inv /\ [Next]_vars => Inv'
  BY TypeStep, PhasesStep, ThreadsInvStep, KnownStep, LoadedStep DEF Inv

LEMMA Invariance == Spec => []Inv
  BY InitInv, InvStep, PTL DEF Spec

(* Type correctness of Application: in particular no loop over the         *)
(* configuration or over services_map_ runs past its end.                  *)
THEOREM TypeCorrect == Spec => []TypeOK
<1>1. Inv => TypeOK
  BY DEF Inv
<1> QED
  BY <1>1, Invariance, PTL

(* Clean-up finds no service thread and no service pointer of one, after   *)
(* every start-up, complete or not, and the libraries are unloaded when no *)
(* service is left.                                                        *)
THEOREM Backed == Spec => []PointersBacked
<1>1. Inv => PointersBacked
  BY DEF Inv, Phases, ActiveServices, Threads, Loaded, PointersBacked
<1> QED
  BY <1>1, Invariance, PTL

-----------------------------------------------------------------------------
(* Application implements Lifecycle.                                       *)

States == [s \in Service |-> ServiceState(s)]

(* A step that leaves the services and their flags alone.                  *)
LEMMA StatesKept ==
    ASSUME UNCHANGED <<services_map, flags>>, (mpc \in Gone) <=> (mpc' \in Gone)
    PROVE  UNCHANGED States
  BY DEF States, ServiceState, Gone, flags

(* A step that concerns one service, which lives on.                       *)
LEMMA StatesChanged ==
    ASSUME NEW s \in Service, mpc \notin Gone, mpc' \notin Gone,
           \A t \in Service \ {s} : ServiceState(t)' = ServiceState(t)
    PROVE  States' = [States EXCEPT ![s] = ServiceState(s)']
  BY DEF States

LEMMA RefineStep ==
    ASSUME Inv, [Next]_vars
    PROVE  Abs!Next \/ UNCHANGED States
<1> USE DEF Gone
<1>1. FlagsOK /\ at \in Nat /\ services_map \subseteq Service
  BY NumAssumption DEF Inv, TypeOK, ControlOK, SetupOK
<1>2. \A s \in Service : States[s] = ServiceState(s)
  BY DEF States
<1>3. mpc \in {"create", "init", "clear"} => Abs!None(Abs!Active)
  BY <1>2 DEF Abs!None, Abs!Active, Inv, Phases, IdleServices, Setup, Teardown,
              ServiceState, States
<1>4. CASE CreateService
  <2>1. at <= Len(nodes) => nodes[at] \in Service
    BY ElementOfSeq DEF Inv, TypeOK, ControlOK, SetupOK
  <2>2. CASE UNCHANGED services_map
    BY <1>4, <2>2, StatesKept DEF CreateService, Fail, GoTo
  <2>3. CASE /\ nodes[at] \in Service \ services_map
             /\ services_map' = services_map \cup {nodes[at]} /\ UNCHANGED mpc
    <3>0. PICK s \in Service : s = nodes[at]
      BY <2>3
    <3>1. mpc = "create" /\ UNCHANGED flags
      BY <1>4 DEF CreateService
    <3>2. ServiceState(s) = "absent"
      BY <3>0, <2>3, <3>1 DEF ServiceState
    <3>3. ServiceState(s)' = "created"
      BY <3>0, <2>3, <3>1 DEF ServiceState, flags, Inv, Known, Phases, IdleServices, Setup
    <3>4. \A t \in Service \ {s} : ServiceState(t)' = ServiceState(t)
      BY <3>0, <2>3, <3>1 DEF ServiceState, flags
    <3>5. States' = [States EXCEPT ![s] = "created"]
      BY <3>0, <2>3, <3>1, <3>3, <3>4, StatesChanged
    <3>6. Abs!Create(s)
      BY <3>0, <1>2, <1>3, <2>3, <3>1, <3>2, <3>5 DEF Abs!Create, Abs!Become, States
    <3> QED
      BY <3>6 DEF Abs!Next
  <2> QED
    BY <1>4, <2>1, <2>2, <2>3 DEF CreateService
<1>5. CASE InitializeService
  <2>1. at \in Service /\ mpc = "init" /\ mpc' \notin Gone /\ at \in services_map
    BY <1>1, <1>5 DEF InitializeService, GoTo
  <2>2. UNCHANGED <<services_map, is_running, is_stopping>>
    BY <1>5 DEF InitializeService, setup
  <2>3. CASE UNCHANGED is_initialized
    BY <2>1, <2>2, <2>3, StatesKept DEF flags
  <2>4. ASSUME NEW ok \in BOOLEAN, is_initialized' = [is_initialized EXCEPT ![at] = ok]
        PROVE  Abs!Next
    <3>0. PICK s \in Service : s = at
      BY <2>1
    <3>1. ServiceState(s) \in {"created", "ready"}
      BY <3>0, <2>1 DEF ServiceState, Inv, Phases, IdleServices, Setup
    <3>2. ServiceState(s)' = IF ok THEN "ready" ELSE "created"
      BY <3>0, <1>1, <2>1, <2>2, <2>4 DEF ServiceState, FlagsOK, Inv, Phases, IdleServices, Setup
    <3>3. \A t \in Service \ {s} : ServiceState(t)' = ServiceState(t)
      BY <3>0, <1>1, <2>1, <2>2, <2>4 DEF ServiceState, FlagsOK
    <3>4. States' = [States EXCEPT ![s] = IF ok THEN "ready" ELSE "created"]
      BY <3>0, <2>1, <3>2, <3>3, StatesChanged
    <3>5. Abs!Initialize(s)
      BY <3>0, <1>2, <1>3, <2>1, <3>1, <3>4 DEF Abs!Initialize, Abs!Become, States
    <3> QED
      BY <3>5 DEF Abs!Next
  <2> QED
    BY <1>5, <2>3, <2>4 DEF InitializeService
<1>6. CASE StartService
  <2>1. at \in Service /\ mpc = "start" /\ mpc' \notin Gone /\ at \in services_map
    BY <1>1, <1>6 DEF StartService, GoTo
  <2>2. UNCHANGED <<services_map, is_initialized, is_stopping>>
    BY <1>6 DEF StartService, setup
  <2>3. CASE UNCHANGED is_running
    BY <2>1, <2>2, <2>3, StatesKept DEF flags
  <2>4. CASE is_running' = [is_running EXCEPT ![at] = TRUE] /\ ~is_running[at]
    <3>0. PICK s \in Service : s = at
      BY <2>1
    <3>1. \A t \in Service : ServiceState(t) \notin {"created", "stopping"}
      BY <3>0, <2>1 DEF ServiceState, Inv, Phases, InitializedSoFar, StartedSoFar, Running
    <3>2. ServiceState(s) = "ready"
      BY <3>0, <2>1, <2>4 DEF ServiceState, Inv, Phases, InitializedSoFar, StartedSoFar, Running
    <3>3. ServiceState(s)' = "running"
      BY <3>0, <1>1, <2>1, <2>2, <2>4
         DEF ServiceState, FlagsOK, Inv, Phases, StartedSoFar, Running
    <3>4. \A t \in Service \ {s} : ServiceState(t)' = ServiceState(t)
      BY <3>0, <1>1, <2>1, <2>2, <2>4 DEF ServiceState, FlagsOK
    <3>5. States' = [States EXCEPT ![s] = "running"]
      BY <3>0, <2>1, <3>3, <3>4, StatesChanged
    <3>6. Abs!Start(s)
      BY <3>0, <1>2, <2>1, <3>1, <3>2, <3>5 DEF Abs!Start, Abs!None, Abs!Become, States
    <3> QED
      BY <3>6 DEF Abs!Next
  <2> QED
    BY <1>6, <2>3, <2>4 DEF StartService
<1>7. CASE StopService
  <2>1. at \in Service /\ mpc = "stop" /\ mpc' \notin Gone /\ at \in services_map
    BY <1>1, <1>7 DEF StopService
  <2>2. UNCHANGED <<services_map, is_initialized>>
    BY <1>7 DEF StopService, setup
  <2>3. CASE UNCHANGED <<is_running, is_stopping>>
    BY <2>1, <2>2, <2>3, StatesKept DEF flags
  <2>4. CASE /\ is_running[at] /\ ~is_stopping[at]
             /\ is_running' = [is_running EXCEPT ![at] = FALSE]
             /\ is_stopping' = [is_stopping EXCEPT ![at] = TRUE]
    <3>0. PICK s \in Service : s = at
      BY <2>1
    <3>1. ServiceState(s) = "running"
      BY <3>0, <2>1, <2>4 DEF ServiceState
    <3>2. ServiceState(s)' = "stopping"
      BY <3>0, <1>1, <2>1, <2>2, <2>4 DEF ServiceState, FlagsOK
    <3>3. \A t \in Service \ {s} : ServiceState(t)' = ServiceState(t)
      BY <3>0, <1>1, <2>1, <2>2, <2>4 DEF ServiceState, FlagsOK
    <3>4. States' = [States EXCEPT ![s] = "stopping"]
      BY <3>0, <2>1, <3>2, <3>3, StatesChanged
    <3>5. Abs!Stop(s)
      BY <3>0, <1>2, <2>1, <3>1, <3>4 DEF Abs!Stop, Abs!Become, States
    <3> QED
      BY <3>5 DEF Abs!Next
  <2> QED
    BY <1>7, <2>3, <2>4 DEF StopService
<1>8. CASE JoinService
  <2>1. at \in Service /\ mpc = "join" /\ mpc' \notin Gone /\ at \in services_map
    BY <1>1, <1>8 DEF JoinService, JoinIf
  <2>2. UNCHANGED <<services_map, is_initialized, is_running>>
    BY <1>8 DEF JoinService, JoinIf, setup
  <2>3. CASE UNCHANGED is_stopping
    BY <2>1, <2>2, <2>3, StatesKept DEF flags
  <2>4. CASE ~is_running[at] /\ is_stopping[at] /\ is_stopping' = [is_stopping EXCEPT ![at] = FALSE]
    <3>0. PICK s \in Service : s = at
      BY <2>1
    <3>1. \A t \in Service : ServiceState(t) # "running"
      BY <3>0, <2>1 DEF ServiceState, Inv, Phases, JoinedSoFar
    <3>2. ServiceState(s) = "stopping"
      BY <3>0, <2>1, <2>4 DEF ServiceState
    <3>3. ServiceState(s)' = "ready"
      BY <3>0, <1>1, <2>1, <2>2, <2>4 DEF ServiceState, FlagsOK, Inv, Phases, ActiveServices
    <3>4. \A t \in Service \ {s} : ServiceState(t)' = ServiceState(t)
      BY <3>0, <1>1, <2>1, <2>2, <2>4 DEF ServiceState, FlagsOK
    <3>5. States' = [States EXCEPT ![s] = "ready"]
      BY <3>0, <2>1, <3>3, <3>4, StatesChanged
    <3>6. Abs!Join(s)
      BY <3>0, <1>2, <2>1, <3>1, <3>2, <3>5 DEF Abs!Join, Abs!None, Abs!Become, States
    <3> QED
      BY <3>6 DEF Abs!Next
  <2> QED
    BY <1>8, <2>3, <2>4 DEF JoinService, JoinIf
<1>9. CASE ClearServices
  <2>1. States' = [s \in Service |-> "gone"]
    BY <1>9 DEF ClearServices, GoTo, States, ServiceState
  <2> QED
    BY <1>3, <1>9, <2>1 DEF ClearServices, Abs!Next, Abs!Destroy, States
<1>10. CASE unload_all_libraries
  BY <1>10, StatesKept DEF unload_all_libraries, GoTo, flags
<1>11. CASE initialize_log \/ CallInitialize
  BY <1>11, StatesKept DEF initialize_log, CallInitialize, GoTo, setup, flags
<1>12. CASE LoadLibrary
  BY <1>12, StatesKept DEF LoadLibrary, Fail, GoTo
<1>13. CASE \/ Skip("init", "start") \/ Skip("start", "run")
            \/ Skip("stop", "join") \/ Skip("join", "clear")
  BY <1>13, StatesKept DEF Skip, SkipTo, GoTo, setup
<1>14. CASE RunWait \/ RunReturn \/ Wake
  BY <1>14, StatesKept DEF RunWait, RunReturn, Wake, GoTo, setup
<1>15. CASE \E x \in Service \cup {Other} : shutdown(x)
  BY <1>15, StatesKept DEF shutdown, Notify, setup
<1>16. CASE UNCHANGED <<mpc, setup, flags>>
  BY <1>16, StatesKept DEF setup
<1> QED
  BY <1>4, <1>5, <1>6, <1>7, <1>8, <1>9, <1>10, <1>11, <1>12, <1>13, <1>14, <1>15, <1>16
     DEF Next, MainStep, vars, get_service_pointer, ThreadEnds

(* Application implements Lifecycle: whatever step of a start-up fails or  *)
(* throws, no service starts before all are initialised, joins before all  *)
(* are told to stop, or is destroyed before its join.                      *)
THEOREM Refinement == Spec => ImplementsLifecycle
<1>1. Init => Abs!Init
  BY DEF Init, Abs!Init, ServiceState
<1>2. Inv /\ [Next]_vars => [Abs!Next]_([s \in Service |-> ServiceState(s)])
  BY RefineStep DEF States
<1> QED
  BY Invariance, <1>1, <1>2, PTL DEF Spec, ImplementsLifecycle, Abs!Spec
=============================================================================
