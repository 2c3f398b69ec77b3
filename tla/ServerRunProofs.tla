--------------------------- MODULE ServerRunProofs ---------------------------
(***************************************************************************)
(* What ServerRun keeps for any number of slots, of database connections   *)
(* and of clients: the loops stay inside their arrays, threads find what   *)
(* they use, and a stop after a start is sound.                            *)
(***************************************************************************)
EXTENDS ServerRun, TLAPS

----------------------------------------------------------------------------
(* Types.  What main does before the server runs, what STSV_Stop does, and *)
(* what the threads do.                                                    *)

Starting == \/ MakePool \/ ReadConfig \/ MakeClients \/ MakeBuffers \/ MakeDatabases \/ ConnectDB
            \/ CreateServerFails \/ CreateServer \/ InitGameServer \/ Quit
Disconnecting == DisconnectDB \/ FreeResult \/ ForgetResult \/ CloseDB
StopSteps == \/ SweepCrash \/ Sweep \/ CloseClient \/ StopListening \/ DisconnectCrash
             \/ Disconnecting \/ DestroyMutex \/ DestroyGameServer \/ Exit
Serving == AcceptorNext \/ \E s \in Slot : SlotNext(s)

LEMMA InitType == Init => TypeOK
<1> SUFFICES ASSUME Init PROVE TypeOK
  OBVIOUS
<1> USE LimitAssumption DEF Init
<1>1. MainTypes
  BY DEF MainTypes, MainPC, Closing, Ending
<1>2. FlagTypes
  BY DEF FlagTypes
<1>3. PartTypes
  BY DEF PartTypes
<1>4. AcceptorTypes
  BY DEF AcceptorTypes, None
<1>5. SlotTypes
  BY DEF SlotTypes, None
<1>6. DBTypes
  <2>1. res \in [DB -> 0 .. MaxQuery] /\ nQuery \in 0 .. MaxQuery
    BY DEF None
  <2> QED
    BY <2>1 DEF DBTypes
<1> QED
  BY <1>1, <1>2, <1>3, <1>4, <1>5, <1>6 DEF TypeOK

\* Every step of main keeps its loops within their bounds.
LEMMA MainLoops == ASSUME MainTypes, Starting \/ StopSteps PROVE MainTypes'
<1> USE LimitAssumption DEF MainTypes, MainPC, Closing, Ending, Go, Fail, Stopping, Crash
<1>1. CASE MakePool \/ MakeClients \/ MakeBuffers \/ MakeDatabases
  BY <1>1 DEF MakePool, MakeClients, MakeBuffers, MakeDatabases, Make
<1>2. CASE ReadConfig
  BY <1>2 DEF ReadConfig
<1>3. CASE ConnectDB
  BY <1>3 DEF ConnectDB
<1>4. CASE CreateServerFails \/ CreateServer \/ InitGameServer \/ Quit
  BY <1>4 DEF CreateServerFails, CreateServer, InitGameServer, Quit
<1>5. CASE SweepCrash \/ DisconnectCrash \/ StopListening
  BY <1>5 DEF SweepCrash, DisconnectCrash, StopListening
<1>6. CASE Sweep
  BY <1>6 DEF Sweep, Slot
<1>7. CASE CloseClient
  BY <1>7 DEF CloseClient, Slot
<1>8. CASE DisconnectDB
  BY <1>8 DEF DisconnectDB, DB
<1>9. CASE FreeResult \/ ForgetResult
  BY <1>9 DEF FreeResult, ForgetResult
<1>10. CASE CloseDB
  BY <1>10 DEF CloseDB, DB
<1>11. CASE DestroyMutex \/ DestroyGameServer \/ Exit
  BY <1>11 DEF DestroyMutex, DestroyGameServer, Exit
<1> QED
  BY <1>1, <1>2, <1>3, <1>4, <1>5, <1>6, <1>7, <1>8, <1>9, <1>10, <1>11
     DEF Starting, StopSteps, Disconnecting

LEMMA MainFlags == ASSUME FlagTypes, Starting \/ StopSteps PROVE FlagTypes'
<1> USE DEF FlagTypes, Unstarted, Stopping, Crash, acceptor, slots
<1>1. CASE MakePool \/ MakeClients \/ MakeBuffers \/ MakeDatabases
  BY <1>1 DEF MakePool, MakeClients, MakeBuffers, MakeDatabases, Make
<1>2. CASE ReadConfig \/ ConnectDB
  BY <1>2 DEF ReadConfig, ConnectDB
<1>3. CASE CreateServerFails \/ CreateServer \/ InitGameServer \/ Quit
  BY <1>3 DEF CreateServerFails, CreateServer, InitGameServer, Quit
<1>4. CASE SweepCrash \/ DisconnectCrash \/ Sweep \/ CloseClient \/ Exit
  BY <1>4 DEF SweepCrash, DisconnectCrash, Sweep, CloseClient, Exit
<1>5. CASE StopListening
  BY <1>5 DEF StopListening
<1>6. CASE Disconnecting \/ DestroyMutex \/ DestroyGameServer
  BY <1>6 DEF Disconnecting, DisconnectDB, FreeResult, ForgetResult, CloseDB, DestroyMutex,
              DestroyGameServer
<1> QED
  BY <1>1, <1>2, <1>3, <1>4, <1>5, <1>6 DEF Starting, StopSteps

LEMMA MainParts == ASSUME PartTypes, Starting \/ StopSteps PROVE PartTypes'
<1> USE DEF PartTypes, Stopping, Crash
<1>1. CASE MakePool \/ MakeClients \/ MakeBuffers \/ MakeDatabases
  BY <1>1 DEF MakePool, MakeClients, MakeBuffers, MakeDatabases, Make, Parts
<1>2. CASE ReadConfig \/ ConnectDB
  BY <1>2 DEF ReadConfig, ConnectDB, Parts
<1>3. CASE CreateServerFails \/ CreateServer \/ InitGameServer \/ Quit
  BY <1>3 DEF CreateServerFails, CreateServer, InitGameServer, Quit
<1>4. CASE StopSteps
  BY <1>4 DEF StopSteps, SweepCrash, DisconnectCrash, Sweep, CloseClient, StopListening,
              Disconnecting, DisconnectDB, FreeResult, ForgetResult, CloseDB, DestroyMutex,
              DestroyGameServer, Exit
<1> QED
  BY <1>1, <1>2, <1>3, <1>4 DEF Starting

\* main leaves the acceptor's variables alone, and closes sockets of the slots.
LEMMA MainElsewhere ==
  ASSUME MainTypes, AcceptorTypes, SlotTypes, DBTypes, Starting \/ StopSteps
  PROVE  AcceptorTypes' /\ SlotTypes' /\ DBTypes'
<1> USE DEF Unstarted, Stopping, Crash, acceptor, slots, databases, results, AcceptorTypes
<1>1. CASE MakePool \/ MakeClients \/ MakeBuffers \/ MakeDatabases
  BY <1>1 DEF MakePool, MakeClients, MakeBuffers, MakeDatabases, Make, SlotTypes, DBTypes
<1>2. CASE ReadConfig \/ CreateServerFails \/ CreateServer \/ InitGameServer
  BY <1>2 DEF ReadConfig, CreateServerFails, CreateServer, InitGameServer, SlotTypes, DBTypes
<1>3. CASE ConnectDB
  BY <1>3 DEF ConnectDB, SlotTypes, DBTypes
<1>4. CASE Quit
  BY LimitAssumption, <1>4 DEF Quit, SlotTypes, DBTypes, Result, None
<1>5. CASE SweepCrash \/ DisconnectCrash \/ Sweep \/ CloseClient \/ StopListening \/ Exit
  BY <1>5 DEF SweepCrash, DisconnectCrash, Sweep, CloseClient, StopListening, Exit, SlotTypes,
              DBTypes
<1>6. CASE DisconnectDB \/ CloseDB \/ DestroyMutex \/ DestroyGameServer
  BY <1>6 DEF DisconnectDB, CloseDB, DestroyMutex, DestroyGameServer, SlotTypes, DBTypes
<1>7. CASE FreeResult
  <2>1. mpc = "free" /\ "free" \in Closing \ {"disconnect"}
    BY <1>7 DEF FreeResult, Closing
  <2>2. i \in DB
    BY <2>1 DEF MainTypes
  <2>3. res[i] # None => res[i] \in Result
    BY LimitAssumption, <2>2 DEF DBTypes, Result, None
  <2>4. freed' \subseteq Result
    BY <1>7, <2>3 DEF FreeResult, Free, DBTypes
  <2>5. twice' \in BOOLEAN
    BY <1>7 DEF FreeResult, Free, DBTypes
  <2> QED
    BY <1>7, <2>4, <2>5 DEF FreeResult, SlotTypes, DBTypes
<1>8. CASE ForgetResult
  <2>1. None \in 0 .. MaxQuery
    BY LimitAssumption DEF None
  <2>2. res' \in [DB -> 0 .. MaxQuery]
    BY <1>8, <2>1 DEF ForgetResult, DBTypes
  <2> QED
    BY <1>8, <2>2 DEF ForgetResult, SlotTypes, DBTypes
<1> QED
  BY <1>1, <1>2, <1>3, <1>4, <1>5, <1>6, <1>7, <1>8 DEF Starting, StopSteps, Disconnecting

\* The acceptor stays inside the slots.
LEMMA AcceptorStays == ASSUME AcceptorTypes, SlotTypes, Serving PROVE AcceptorTypes' /\ SlotTypes'
<1> USE LimitAssumption DEF AcceptorTypes, main, slots, databases, acceptor
<1>1. CASE Join \/ FillOnline \/ StartThread \/ ThreadFails
  BY <1>1 DEF Join, FillOnline, StartThread, ThreadFails, SlotTypes
<1>2. CASE FillSocket \/ GiveUp
  BY <1>2 DEF FillSocket, GiveUp, SlotTypes
<1>3. ASSUME NEW s \in Slot, Accept(s) PROVE AcceptorTypes' /\ SlotTypes'
  BY <1>3 DEF Accept, SlotTypes, Connection
<1>4. ASSUME NEW s \in Slot, DBNext(s) PROVE AcceptorTypes' /\ SlotTypes'
  BY <1>4 DEF DBNext, LockDB, UnlockDB, UseDB, FreeOwn, NullOwn, Query, Step, InDB, SlotTypes
<1>5. ASSUME NEW s \in Slot, Kick(s) \/ Drop(s) \/ Leave(s) \/ CloseOwn(s)
      PROVE  AcceptorTypes' /\ SlotTypes'
  BY <1>5 DEF Kick, Drop, Leave, Step, CloseOwn, SlotTypes
<1> QED
  BY <1>1, <1>2, <1>3, <1>4, <1>5 DEF Serving, AcceptorNext, SlotNext

\* A thread in a call with a database connection has one.
InCall == \A s \in Slot : tpc[s] \in InDB => tdb[s] \in DB

LEMMA InitCall == Init => InCall
BY DEF Init, InCall, InDB

LEMMA NextCall == ASSUME TypeOK, InCall, [Next]_vars PROVE InCall'
<1> USE DEF InCall, InDB, TypeOK, SlotTypes, DBTypes, AcceptorTypes
<1>1. CASE Starting \/ StopSteps \/ Accept(aidx) \/ UNCHANGED vars
  <2>1. UNCHANGED <<tpc, tdb>>
    BY <1>1 DEF vars, Starting, StopSteps, Unstarted, Stopping, Crash, slots, databases, MakePool,
                ReadConfig, MakeClients, MakeBuffers, MakeDatabases, Make, ConnectDB,
                CreateServerFails, CreateServer, InitGameServer, Quit, SweepCrash, Sweep,
                CloseClient, StopListening, DisconnectCrash, Disconnecting, DisconnectDB,
                FreeResult, ForgetResult, CloseDB, DestroyMutex, DestroyGameServer, Exit, Accept
  <2> QED
    BY <2>1
<1>2. CASE AcceptorNext
  BY <1>2 DEF AcceptorNext, databases, slots, Join, FillSocket, FillOnline, StartThread,
              ThreadFails, GiveUp
<1>3. ASSUME NEW s \in Slot, Accept(s) \/ Kick(s) \/ Drop(s) \/ Leave(s) \/ CloseOwn(s)
      PROVE  InCall'
  BY <1>3 DEF Accept, Kick, Drop, Leave, Step, CloseOwn, databases
<1>4. ASSUME NEW s \in Slot, DBNext(s) PROVE InCall'
  BY <1>4 DEF DBNext, LockDB, UnlockDB, UseDB, FreeOwn, NullOwn, Query, Step, databases, slots
<1> QED
  BY <1>1, <1>2, <1>3, <1>4 DEF Next, MainNext, Starting, StopSteps, Disconnecting, SlotNext

\* What the threads do to the database connections.
LEMMA ThreadDB == ASSUME TypeOK, InCall, Serving PROVE DBTypes'
<1> USE LimitAssumption DEF TypeOK, DBTypes, main, databases, results
<1>1. CASE AcceptorNext
  BY <1>1 DEF AcceptorNext, Join, FillSocket, FillOnline, StartThread, ThreadFails, GiveUp
<1>2. ASSUME NEW s \in Slot, Accept(s) \/ Kick(s) \/ Drop(s) \/ Leave(s) \/ CloseOwn(s)
      PROVE  DBTypes'
  BY <1>2 DEF Accept, Kick, Drop, Leave, CloseOwn
<1>3. ASSUME NEW s \in Slot, (\E k \in DB : LockDB(s, k)) \/ UnlockDB(s) \/ UseDB(s)
      PROVE  DBTypes'
  BY <1>3 DEF LockDB, UnlockDB, UseDB
<1>4. ASSUME NEW s \in Slot, FreeOwn(s) \/ NullOwn(s) PROVE DBTypes'
  <2>1. tdb[s] \in DB
    BY <1>4 DEF FreeOwn, NullOwn, Step, InCall, InDB
  <2>2. res[tdb[s]] # None => res[tdb[s]] \in Result
    BY <2>1 DEF Result, None
  <2>3. CASE FreeOwn(s)
    <3>1. freed' \subseteq Result
      BY <2>2, <2>3 DEF FreeOwn, Free
    <3>2. twice' \in BOOLEAN
      BY <2>3 DEF FreeOwn, Free
    <3> QED
      BY <2>3, <3>1, <3>2 DEF FreeOwn
  <2>4. CASE NullOwn(s)
    <3>1. None \in 0 .. MaxQuery
      BY DEF None
    <3>2. res' \in [DB -> 0 .. MaxQuery]
      BY <2>4, <3>1 DEF NullOwn
    <3> QED
      BY <2>4, <3>2 DEF NullOwn
  <2> QED
    BY <1>4, <2>3, <2>4
<1>5. ASSUME NEW s \in Slot, Query(s) PROVE DBTypes'
  <2>1. tdb[s] \in DB /\ nQuery' = nQuery + 1 /\ nQuery < MaxQuery
    BY <1>5 DEF Query, Step, InCall, InDB
  <2>2. db' \in [DB -> {"none", "open", "failed", "closed"}]
    BY <1>5, <2>1 DEF Query
  <2>3. res' \in [DB -> 0 .. MaxQuery]
    BY <1>5, <2>1 DEF Query, None
  <2> QED
    BY <1>5, <2>1, <2>2, <2>3 DEF Query
<1> QED
  BY <1>1, <1>2, <1>3, <1>4, <1>5 DEF Serving, SlotNext, DBNext

\* The acceptor and the client threads.
LEMMA ThreadTypes == ASSUME TypeOK, InCall, Serving PROVE TypeOK'
<1> USE DEF main, slots, databases, acceptor
<1>1. UNCHANGED main
  BY DEF Serving, AcceptorNext, SlotNext, DBNext, Join, FillSocket, FillOnline, StartThread,
         ThreadFails, GiveUp, Accept, LockDB, UnlockDB, UseDB, FreeOwn, NullOwn, Query, Kick, Drop,
         Leave, CloseOwn
<1>2. FlagTypes'
  <2> USE DEF TypeOK, FlagTypes
  <2>1. CASE AcceptorNext
    BY <2>1 DEF AcceptorNext, Join, FillSocket, FillOnline, StartThread, ThreadFails, GiveUp
  <2>2. ASSUME NEW s \in Slot, SlotNext(s) PROVE FlagTypes'
    BY <2>2 DEF SlotNext, DBNext, Accept, LockDB, UnlockDB, UseDB, FreeOwn, NullOwn, Query, Kick,
                Drop, Leave, CloseOwn
  <2> QED
    BY <2>1, <2>2 DEF Serving
<1>3. MainTypes' /\ PartTypes'
  BY <1>1 DEF TypeOK, MainTypes, PartTypes
<1> QED
  BY <1>2, <1>3, AcceptorStays, ThreadDB DEF TypeOK

LEMMA NextIsStep == Next => Starting \/ StopSteps \/ Serving
BY DEF Next, MainNext, Starting, StopSteps, Disconnecting, Serving

LEMMA NextType == TypeOK /\ InCall /\ [Next]_vars => TypeOK' /\ InCall'
<1> SUFFICES ASSUME TypeOK, InCall, [Next]_vars PROVE TypeOK'
  BY NextCall
<1>1. CASE UNCHANGED vars
  BY <1>1 DEF TypeOK, MainTypes, FlagTypes, PartTypes, AcceptorTypes, SlotTypes, DBTypes, vars,
              main, acceptor, slots, databases, results
<1>2. CASE Starting \/ StopSteps
  BY <1>2, MainLoops, MainFlags, MainParts, MainElsewhere DEF TypeOK
<1> QED
  BY <1>1, <1>2, ThreadTypes, NextIsStep

\* main's loops index the slots and the database connections inside their
\* arrays, and so does the acceptor.
THEOREM TypeCorrect == Spec => []TypeOK
BY InitType, InitCall, NextType, PTL DEF Spec

----------------------------------------------------------------------------
(* What the threads find.                                                  *)

StartPC == {"pool", "config", "clients", "buffers", "databases", "connect", "server", "game", "run"}

\* Everything is made, and the start has not failed.
Started == made = Parts /\ ret # -1 /\ config /\ listen

\* Behind ServesReady and StopSound: how far main has come tells what is made.
Progress ==
  /\ mpc \in StartPC => ret = 0 /\ ~crashed /\ stdin /\ met = {} /\ stored = {}
  /\ mpc \notin StartPC => ret # 0
  /\ mpc \in StartPC \ {"game", "run"} =>
       ~accepting /\ apc = "accept" /\ \A s \in Slot : tpc[s] = "none"
  /\ mpc = "pool" => made = {}
  /\ mpc = "config" => made = {"pool"}
  /\ mpc = "clients" => made = {"pool"} /\ config
  /\ mpc = "buffers" => made = {"pool", "clients"} /\ config
  /\ mpc = "databases" => made = {"pool", "clients", "buffers"} /\ config
  /\ mpc = "connect" => made = {"pool", "clients", "buffers", "databases"} /\ config
  /\ mpc = "server" => made = Parts /\ config
ThreadsStarted ==
  /\ mpc \in {"game", "run"} \/ ret = -2 => Started
  /\ accepting \/ apc # "accept" \/ met # {} \/ stored # {} => Started
  /\ \A s \in Slot : tpc[s] # "none" => Started
StartInv == Progress /\ ThreadsStarted /\ StopSound

LEMMA InitStart == Init => StartInv
BY DEF Init, StartInv, Progress, ThreadsStarted, StopSound, StartPC, Started

\* The start makes one part after the other, and no thread runs meanwhile.
LEMMA StartingKeeps == ASSUME StartInv, TypeOK, Starting PROVE StartInv'
<1> USE DEF StartInv, Progress, ThreadsStarted, StopSound, StartPC, Started, Go, Fail, Unstarted,
            acceptor, slots
<1>1. CASE MakePool
  BY <1>1 DEF MakePool, Make
<1>2. CASE ReadConfig
  BY <1>2 DEF ReadConfig
<1>3. CASE MakeClients
  BY <1>3 DEF MakeClients, Make
<1>4. CASE MakeBuffers
  BY <1>4 DEF MakeBuffers, Make
<1>5. CASE MakeDatabases
  BY <1>5 DEF MakeDatabases, Make
<1>6. CASE ConnectDB
  BY <1>6 DEF ConnectDB, Parts
<1>7. CASE CreateServerFails
  BY <1>7 DEF CreateServerFails
<1>8. CASE CreateServer
  BY <1>8 DEF CreateServer
<1>9. CASE InitGameServer
  BY <1>9 DEF InitGameServer
<1>10. CASE Quit
  BY <1>10 DEF Quit
<1> QED
  BY <1>1, <1>2, <1>3, <1>4, <1>5, <1>6, <1>7, <1>8, <1>9, <1>10 DEF Starting

\* STSV_Stop takes away nothing that a thread needs of what was made.
LEMMA StoppingKeeps == ASSUME StartInv, TypeOK, StopSteps PROVE StartInv'
<1> USE DEF StartInv, Progress, ThreadsStarted, StopSound, StartPC, Started, Go, Stopping, Crash,
            slots, acceptor
<1>0. mpc \notin StartPC /\ ret \in {-1, -2} /\ (ret = -2 => Started)
  BY DEF TypeOK, MainTypes, StopSteps, SweepCrash, Sweep, CloseClient, StopListening,
         DisconnectCrash, Disconnecting, DisconnectDB, FreeResult, ForgetResult, CloseDB,
         DestroyMutex, DestroyGameServer, Exit
<1>1. CASE SweepCrash \/ DisconnectCrash
  <2>1. config /\ ~({"clients", "databases"} \subseteq made)
    BY <1>1 DEF SweepCrash, DisconnectCrash
  <2>2. ~Started /\ ret = -1
    BY <1>0, <2>1 DEF Parts
  <2>3. /\ mpc' = "end" /\ ret' = ret /\ config' = config /\ made' = made /\ listen' = listen
        /\ UNCHANGED <<met, stored, stdin, apc, tpc>> /\ ~accepting'
    BY <1>1 DEF SweepCrash, DisconnectCrash
  <2>4. Progress' /\ StopSound'
    BY <1>0, <2>1, <2>2, <2>3
  <2>5. ThreadsStarted'
    BY <2>2, <2>3
  <2> QED
    BY <2>4, <2>5
<1>2. CASE Sweep
  BY <1>2 DEF Sweep
<1>3. CASE CloseClient
  BY <1>3 DEF CloseClient
<1>4. CASE StopListening
  <2>1. ret = -1 \/ listen
    BY <1>0
  <2> QED
    BY <1>4, <2>1 DEF StopListening
<1>5. CASE Disconnecting
  BY <1>5 DEF Disconnecting, DisconnectDB, FreeResult, ForgetResult, CloseDB
<1>6. CASE DestroyMutex \/ DestroyGameServer \/ Exit
  BY <1>6 DEF DestroyMutex, DestroyGameServer, Exit
<1> QED
  BY <1>1, <1>2, <1>3, <1>4, <1>5, <1>6 DEF StopSteps

\* Threads are started when everything is made.
LEMMA ServingKeeps == ASSUME StartInv, Serving PROVE StartInv'
<1> USE DEF Running, slots, databases
<1>1. CASE AcceptorNext
  <2>1. apc # "accept" /\ UNCHANGED main
    BY <1>1 DEF AcceptorNext, Join, FillSocket, FillOnline, StartThread, ThreadFails, GiveUp
  <2> QED
    BY <2>1 DEF main, StartInv, Progress, ThreadsStarted, StopSound, Started
<1>2. ASSUME NEW s \in Slot, SlotNext(s) PROVE StartInv'
  <2>1. (accepting \/ tpc[s] # "none") /\ UNCHANGED main
    BY <1>2 DEF SlotNext, DBNext, Accept, Listening, LockDB, UnlockDB, UseDB, FreeOwn, NullOwn, Query,
                Step, Kick, Drop, Leave, CloseOwn
  <2>2. accepting' = accepting /\ (apc' # "accept" => accepting \/ apc # "accept")
    BY <1>2 DEF SlotNext, DBNext, Accept, Listening, LockDB, UnlockDB, UseDB, FreeOwn, NullOwn, Query,
                Kick, Drop, Leave, CloseOwn, acceptor
  <2> QED
    BY <2>1, <2>2 DEF main, StartInv, Progress, ThreadsStarted, StopSound, Started
<1> QED
  BY <1>1, <1>2 DEF Serving

LEMMA NextStart == TypeOK /\ StartInv /\ [Next]_vars => StartInv'
<1>1. StartInv /\ UNCHANGED vars => StartInv'
  BY DEF vars, main, acceptor, slots, StartInv, Progress, ThreadsStarted, StopSound, Started
<1> QED
  BY <1>1, NextIsStep, StartingKeeps, StoppingKeeps, ServingKeeps

LEMMA StartCorrect == Spec => [](TypeOK /\ InCall /\ StartInv)
BY InitType, InitCall, InitStart, NextType, NextStart, PTL DEF Spec

\* A client thread finds everything that STSV_Init makes, and none runs after a
\* start that failed.
THEOREM ThreadsFindAll == Spec => []ServesReady
<1>1. StartInv => ServesReady
  BY DEF StartInv, ThreadsStarted, Started, ServesReady
<1> QED
  BY <1>1, StartCorrect, PTL

\* STSV_Stop uses what is not there only after a start that failed half way, whatever
\* the clients do meanwhile.
THEOREM StopIsSound == Spec => []StopSound
<1>1. StartInv => StopSound
  BY DEF StartInv
<1> QED
  BY <1>1, StartCorrect, PTL

----------------------------------------------------------------------------
(* The clients that STSV_Stop finds on line.                               *)

\* Behind MetClosed: the slots that main has passed, and the acceptor's slot.
ClosedUpTo(n) ==
  \E s \in Slot : /\ socket[s] = n
                  /\ \/ ~online[s] /\ tpc[s] # "none"
                     \/ ~online[s] /\ apc = "giveup" /\ aidx = s
                     \/ mpc \in {"sweep", "close"} /\ online[s] /\ s >= i
Sockets ==
  /\ \A s \in Slot : socket[s] <= nAccept
  /\ asock <= nAccept
  /\ \A n \in met : n <= nAccept
AcceptorSlot ==
  /\ apc \in {"join", "socket", "online"} => ~online[aidx]
  /\ apc \in {"socket", "online", "thread"} => tpc[aidx] = "none"
MetInv ==
  /\ Sockets /\ AcceptorSlot
  /\ ~crashed => \A n \in met : n \in open => ClosedUpTo(n)

LEMMA InitMet == Init => MetInv
BY DEF Init, MetInv, Sockets, AcceptorSlot, None

\* Connections are numbered in the order of their acceptance.
LEMMA SocketsKept == ASSUME TypeOK, StartInv, Sockets, [Next]_vars PROVE Sockets'
<1> USE DEF Sockets, TypeOK, AcceptorTypes, SlotTypes
<1>1. CASE Starting \/ StopSteps
  <2>1. UNCHANGED <<socket, nAccept, asock>>
    BY <1>1 DEF Starting, StopSteps, Unstarted, Stopping, Crash, acceptor, slots, MakePool,
                ReadConfig, MakeClients, MakeBuffers, MakeDatabases, Make, ConnectDB,
                CreateServerFails, CreateServer, InitGameServer, Quit, SweepCrash, Sweep,
                CloseClient, StopListening, DisconnectCrash, Disconnecting, DisconnectDB, FreeResult, ForgetResult,
                CloseDB, DestroyMutex, DestroyGameServer, Exit
  <2>2. met' = met \/ \A n \in met' : \E s \in Slot : n = socket[s]
    BY <1>1 DEF Starting, StopSteps, Unstarted, Stopping, Crash, MakePool, ReadConfig,
                MakeClients, MakeBuffers, MakeDatabases, Make, ConnectDB, CreateServerFails,
                CreateServer, InitGameServer, Quit, SweepCrash, Sweep, CloseClient,
                StopListening, DisconnectCrash, Disconnecting, DisconnectDB, FreeResult, ForgetResult,
                CloseDB, DestroyMutex, DestroyGameServer, Exit
  <2> QED
    BY <2>1, <2>2
<1>2. CASE Join \/ FillSocket \/ FillOnline \/ StartThread \/ ThreadFails \/ GiveUp
  BY <1>2 DEF Join, FillSocket, FillOnline, StartThread, ThreadFails, GiveUp, main, slots
<1>3. ASSUME NEW s \in Slot, Accept(s) PROVE Sockets'
  BY <1>3 DEF Accept, main
<1>4. ASSUME NEW s \in Slot, DBNext(s) \/ Kick(s) \/ Drop(s) \/ Leave(s) \/ CloseOwn(s)
      PROVE  Sockets'
  BY <1>4 DEF DBNext, LockDB, UnlockDB, UseDB, FreeOwn, NullOwn, Query, Step, Kick, Drop, Leave,
              CloseOwn, main, acceptor, slots
<1>5. CASE UNCHANGED vars
  BY <1>5 DEF vars, main, acceptor, slots
<1> QED
  BY <1>1, <1>2, <1>3, <1>4, <1>5, NextIsStep DEF Serving, AcceptorNext, SlotNext

\* The slot that the acceptor fills is off line, and its last thread is gone.
LEMMA AcceptorSlotKept == ASSUME TypeOK, AcceptorSlot, [Next]_vars PROVE AcceptorSlot'
<1> USE DEF AcceptorSlot, TypeOK, AcceptorTypes
<1>1. CASE Starting \/ StopSteps
  <2>1. UNCHANGED <<apc, aidx, online, tpc>>
    BY <1>1 DEF Starting, StopSteps, Unstarted, Stopping, Crash, acceptor, slots, MakePool,
                ReadConfig, MakeClients, MakeBuffers, MakeDatabases, Make, ConnectDB,
                CreateServerFails, CreateServer, InitGameServer, Quit, SweepCrash, Sweep,
                CloseClient, StopListening, DisconnectCrash, Disconnecting, DisconnectDB, FreeResult, ForgetResult,
                CloseDB, DestroyMutex, DestroyGameServer, Exit
  <2> QED
    BY <2>1
<1>2. CASE Join \/ FillSocket
  BY <1>2 DEF Join, FillSocket, slots
<1>3. CASE FillOnline \/ StartThread \/ ThreadFails \/ GiveUp
  BY <1>3 DEF FillOnline, StartThread, ThreadFails, GiveUp
<1>4. ASSUME NEW s \in Slot, Accept(s) PROVE AcceptorSlot'
  BY <1>4 DEF Accept
<1>5. ASSUME NEW s \in Slot, DBNext(s) \/ Kick(s) \/ Drop(s) \/ Leave(s) \/ CloseOwn(s)
      PROVE  AcceptorSlot'
  BY <1>5 DEF DBNext, LockDB, UnlockDB, UseDB, FreeOwn, NullOwn, Query, Step, Kick, Drop, Leave,
              CloseOwn, acceptor, slots, FlagTypes, SlotTypes
<1>6. CASE UNCHANGED vars
  BY <1>6 DEF vars, acceptor, slots
<1> QED
  BY <1>1, <1>2, <1>3, <1>4, <1>5, <1>6, NextIsStep DEF Serving, AcceptorNext, SlotNext

\* main goes past a slot when it is off line or has been closed.
LEMMA MainCloses ==
  ASSUME TypeOK, StartInv, MetInv, Starting \/ StopSteps, ~crashed', NEW n \in met', n \in open'
  PROVE  ClosedUpTo(n)'
<1> USE DEF ClosedUpTo
<1>1. CASE Starting /\ ~Quit
  <2>1. mpc \in StartPC /\ met' = met
    BY <1>1 DEF StartPC, Starting, Unstarted, MakePool, ReadConfig, MakeClients, MakeBuffers,
                MakeDatabases, Make, ConnectDB, CreateServerFails, CreateServer, InitGameServer
  <2> QED
    BY <2>1 DEF StartInv, Progress
<1>2. CASE Quit
  <2>1. PICK s \in Slot : online[s] /\ socket[s] = n
    BY <1>2 DEF Quit
  <2>2. s >= 0
    BY LimitAssumption DEF Slot
  <2> QED
    BY <1>2, <2>1, <2>2 DEF Quit, Go, slots
<1>3. CASE StopSteps
  <2>1. n \in met /\ n \in open /\ ~crashed
    BY <1>3 DEF StopSteps, Stopping, Crash, SweepCrash, Sweep, CloseClient, StopListening,
                DisconnectCrash, Disconnecting, DisconnectDB, FreeResult, ForgetResult, CloseDB,
                DestroyMutex, DestroyGameServer, Exit, slots
  <2>2. PICK s \in Slot : /\ socket[s] = n
                          /\ \/ ~online[s] /\ tpc[s] # "none"
                             \/ ~online[s] /\ apc = "giveup" /\ aidx = s
                             \/ mpc \in {"sweep", "close"} /\ online[s] /\ s >= i
    BY <2>1 DEF MetInv
  <2>3. UNCHANGED <<socket, online, tpc, apc, aidx>>
    BY <1>3 DEF StopSteps, Stopping, Crash, SweepCrash, Sweep, CloseClient, StopListening,
                DisconnectCrash, Disconnecting, DisconnectDB, FreeResult, ForgetResult, CloseDB,
                DestroyMutex, DestroyGameServer, Exit, slots, acceptor
  <2>4. CASE ~online[s] /\ (tpc[s] # "none" \/ (apc = "giveup" /\ aidx = s))
    BY <2>2, <2>3, <2>4
  <2>5. CASE mpc \in {"sweep", "close"} /\ online[s] /\ s >= i
    <3>1. CASE Sweep
      <4>1. config
        BY <2>1 DEF StartInv, ThreadsStarted, Started
      <4>2. s < MaxConnection /\ s \in Int /\ i \in Int
        BY LimitAssumption DEF Slot, TypeOK, MainTypes
      <4>3. i < MaxConnection
        BY <2>5, <4>2, LimitAssumption
      <4>4. \/ online[i] /\ mpc' = "close" /\ i' = i
            \/ ~online[i] /\ mpc' = mpc /\ i' = i + 1
        BY <3>1, <4>1, <4>3 DEF Sweep
      <4>5. mpc' \in {"sweep", "close"}
        BY <3>1, <4>4 DEF Sweep
      <4>6. s >= i'
        <5>1. ~online[i] => s # i
          BY <2>5
        <5> QED
          BY <2>5, <4>2, <4>4, <5>1
      <4> QED
        BY <2>2, <2>3, <2>5, <4>5, <4>6
    <3>2. CASE CloseClient
      <4>1. s # i
        BY <2>2, <3>2 DEF CloseClient
      <4>2. mpc' = "sweep" /\ s >= i'
        BY <2>5, <3>2, <4>1, LimitAssumption DEF CloseClient, Slot, TypeOK, MainTypes
      <4> QED
        BY <2>2, <2>3, <2>5, <4>2
    <3> QED
      BY <1>3, <2>5, <3>1, <3>2 DEF StopSteps, StopListening, DisconnectCrash, Disconnecting,
                                    DisconnectDB, FreeResult, ForgetResult, CloseDB,
                                    DestroyMutex, DestroyGameServer, Exit,
                                    SweepCrash, Crash
  <2> QED
    BY <2>2, <2>4, <2>5
<1> QED
  BY <1>1, <1>2, <1>3

\* A slot on line has a thread until it leaves, or an acceptor that gives it up.
LEMMA ThreadsClose ==
  ASSUME TypeOK, StartInv, MetInv, Serving, ~crashed', NEW n \in met', n \in open'
  PROVE  ClosedUpTo(n)'
<1> USE DEF ClosedUpTo, Running
<1>1. n \in met /\ ~crashed /\ UNCHANGED <<mpc, i>>
  BY DEF Serving, AcceptorNext, SlotNext, main, Join, FillSocket, FillOnline, StartThread,
         ThreadFails, GiveUp, Accept, DBNext, LockDB, UnlockDB, UseDB, FreeOwn, NullOwn, Query, Kick,
         Drop, Leave, CloseOwn
<1>2. n \in open
  <2>1. n # nAccept + 1
    BY <1>1 DEF MetInv, Sockets, TypeOK, AcceptorTypes, SlotTypes
  <2> QED
    BY <2>1 DEF Serving, AcceptorNext, SlotNext, acceptor, slots, Join, FillSocket, FillOnline,
                StartThread, ThreadFails, GiveUp, Accept, DBNext, LockDB, UnlockDB, UseDB, FreeOwn, NullOwn, Query, Kick,
         Drop, Leave, CloseOwn
<1>3. PICK s \in Slot : /\ socket[s] = n
                        /\ \/ ~online[s] /\ tpc[s] # "none"
                           \/ ~online[s] /\ apc = "giveup" /\ aidx = s
                           \/ mpc \in {"sweep", "close"} /\ online[s] /\ s >= i
  BY <1>1, <1>2 DEF MetInv
<1> USE DEF MetInv, AcceptorSlot, TypeOK, AcceptorTypes
<1>4. CASE Join
  BY <1>1, <1>3, <1>4 DEF Join, slots
<1>5. CASE FillSocket
  <2>1. s # aidx \/ (mpc \in {"sweep", "close"} /\ online[s])
    BY <1>3, <1>5 DEF FillSocket
  <2>2. s # aidx
    BY <1>5, <2>1 DEF FillSocket
  <2> QED
    BY <1>1, <1>3, <1>5, <2>2 DEF FillSocket, SlotTypes
<1>6. CASE FillOnline
  BY <1>1, <1>3, <1>6 DEF FillOnline, FlagTypes
<1>7. CASE StartThread
  BY <1>1, <1>3, <1>7 DEF StartThread, SlotTypes
<1>8. CASE ThreadFails
  BY <1>1, <1>3, <1>8 DEF ThreadFails, FlagTypes
<1>9. CASE GiveUp
  <2>1. s # aidx
    BY <1>3, <1>9 DEF GiveUp
  <2> QED
    BY <1>1, <1>3, <1>9, <2>1 DEF GiveUp
<1>10. ASSUME NEW r \in Slot, Accept(r) PROVE ClosedUpTo(n)'
  BY <1>1, <1>3, <1>10 DEF Accept
<1>11. ASSUME NEW r \in Slot, Kick(r) \/ Drop(r) PROVE ClosedUpTo(n)'
  BY <1>1, <1>3, <1>11 DEF Kick, Drop, acceptor, FlagTypes
<1>12. ASSUME NEW r \in Slot, CloseOwn(r) PROVE ClosedUpTo(n)'
  <2>1. s # r
    BY <1>3, <1>12 DEF CloseOwn
  <2> QED
    BY <1>1, <1>3, <1>12, <2>1 DEF CloseOwn, acceptor, SlotTypes
<1>13. ASSUME NEW r \in Slot, DBNext(r) \/ Leave(r) PROVE ClosedUpTo(n)'
  <2>1. UNCHANGED <<socket, online, apc, aidx>> /\ (tpc[s] # "none" => tpc'[s] # "none")
    BY <1>13 DEF DBNext, LockDB, UnlockDB, UseDB, FreeOwn, NullOwn, Query, Step, Leave, acceptor,
                 slots, SlotTypes
  <2> QED
    BY <1>1, <1>3, <2>1
<1> QED
  BY <1>4, <1>5, <1>6, <1>7, <1>8, <1>9, <1>10, <1>11, <1>12, <1>13
     DEF Serving, AcceptorNext, SlotNext

LEMMA NextMet == TypeOK /\ StartInv /\ MetInv /\ [Next]_vars => MetInv'
<1> SUFFICES ASSUME TypeOK, StartInv, MetInv, [Next]_vars PROVE MetInv'
  OBVIOUS
<1>1. Sockets' /\ AcceptorSlot'
  BY SocketsKept, AcceptorSlotKept DEF MetInv
<1>2. ASSUME ~crashed', NEW n \in met', n \in open', UNCHANGED vars PROVE ClosedUpTo(n)'
  BY <1>2 DEF vars, main, acceptor, slots, MetInv, ClosedUpTo
<1>3. ASSUME ~crashed', NEW n \in met', n \in open' PROVE ClosedUpTo(n)'
  BY <1>2, <1>3, MainCloses, ThreadsClose, NextIsStep
<1> QED
  BY <1>1, <1>3 DEF MetInv

\* main closes the socket of every client that it finds on line, whatever the
\* threads do meanwhile: the acceptor may refill the slots it has passed.
THEOREM StopClosesAll == Spec => []MetClosed
<1>1. MetInv => MetClosed
  BY DEF MetInv, MetClosed, ClosedUpTo, Closing, Ending
<1>2. Spec => []MetInv
  BY InitMet, NextMet, StartCorrect, PTL DEF Spec
<1> QED
  BY <1>1, <1>2, PTL
----------------------------------------------------------------------------
(* The results that STSV_Stop finds stored.                                *)

\* No two threads have a database connection.
Exclusive == \A s, t \in Slot : tdb[s] = tdb[t] /\ tdb[s] # NoDB => s = t

\* What a thread drops from the slot of its connection, or writes over, is freed.
OwnFreed == \A s \in Slot : tpc[s] \in {"null", "query"} => res[tdb[s]] \in freed \cup {None}

\* main has not yet looked at connection k.
Ahead(k) == \/ mpc \in {"sweep", "close", "unlisten"}
            \/ mpc \in {"disconnect", "free"} /\ k >= i
            \/ mpc \in {"null", "forget", "dbclose"} /\ k > i
Handled(r) == r \in freed \/ \E k \in DB : res[k] = r /\ Ahead(k)
ReleaseInv == /\ Exclusive /\ OwnFreed
              /\ ~crashed => \A r \in stored : Handled(r)

LEMMA InitRelease == Init => ReleaseInv
BY DEF Init, ReleaseInv, Exclusive, OwnFreed

\* main frees a result before it forgets it, and threads share no connection.
LEMMA MainShares ==
  ASSUME TypeOK, InCall, Exclusive, OwnFreed, Starting \/ StopSteps
  PROVE  Exclusive' /\ OwnFreed'
<1> USE DEF Exclusive, OwnFreed
<1>1. UNCHANGED <<tpc, tdb>>
  BY DEF Starting, StopSteps, Unstarted, Stopping, Crash, slots, databases, MakePool, ReadConfig,
         MakeClients, MakeBuffers, MakeDatabases, Make, ConnectDB, CreateServerFails, CreateServer,
         InitGameServer, Quit, SweepCrash, Sweep, CloseClient, StopListening, DisconnectCrash,
         Disconnecting, DisconnectDB, FreeResult, ForgetResult, CloseDB, DestroyMutex,
         DestroyGameServer, Exit
<1>2. CASE FreeResult
  BY <1>1, <1>2 DEF FreeResult, Free
<1>3. CASE ForgetResult
  <2>1. freed' = freed /\ \A k \in DB : res'[k] \in {res[k], None}
    BY <1>3 DEF ForgetResult, TypeOK, DBTypes
  <2> QED
    BY <1>1, <2>1 DEF InCall, InDB
<1>4. CASE ~FreeResult /\ ~ForgetResult
  <2>1. UNCHANGED <<res, freed>>
    BY <1>4 DEF Starting, StopSteps, Unstarted, Stopping, Crash, databases, results, MakePool,
           ReadConfig, MakeClients, MakeBuffers, MakeDatabases, Make, ConnectDB, CreateServerFails,
           CreateServer, InitGameServer, Quit, SweepCrash, Sweep, CloseClient, StopListening,
           DisconnectCrash, Disconnecting, DisconnectDB, CloseDB, DestroyMutex,
           DestroyGameServer, Exit
  <2> QED
    BY <1>1, <2>1
<1> QED
  BY <1>2, <1>3, <1>4

\* A thread in a call with a connection is the only one that stores there.
LEMMA ThreadsShare ==
  ASSUME TypeOK, InCall, Exclusive, OwnFreed, Serving
  PROVE  /\ Exclusive' /\ OwnFreed'
         /\ \A k \in DB : res'[k] = res[k] \/ res[k] \in freed' \cup {None}
         /\ freed \subseteq freed'
<1> DEFINE Kept == \A k \in DB : res'[k] = res[k] \/ res[k] \in freed' \cup {None}
<1> DEFINE Goal == Exclusive' /\ OwnFreed' /\ Kept /\ freed \subseteq freed'
<1> USE DEF Exclusive, OwnFreed, TypeOK, SlotTypes, DBTypes
<1>1. CASE AcceptorNext
  <2>1. UNCHANGED <<tdb, res, freed>> /\ \A s \in Slot : tpc'[s] \in {tpc[s], "serve"}
    BY <1>1 DEF AcceptorNext, Join, FillSocket, FillOnline, StartThread, ThreadFails, GiveUp, databases,
                results, slots, AcceptorTypes
  <2> QED
    BY <2>1
<1>2. ASSUME NEW s \in Slot, Accept(s) \/ Kick(s) \/ Drop(s) \/ Leave(s) \/ CloseOwn(s)
      PROVE  Goal
  <2>1. UNCHANGED <<tdb, res, freed>> /\ \A t \in Slot : tpc'[t] \in {tpc[t], "leave", "none"}
    BY <1>2 DEF Accept, Kick, Drop, Leave, Step, CloseOwn, databases, results
  <2> QED
    BY <2>1
<1>3. ASSUME NEW s \in Slot, NEW k \in DB, LockDB(s, k) PROVE Goal
  <2>1. UNCHANGED <<tpc, res, freed>> /\ tpc[s] = "serve"
    BY <1>3 DEF LockDB, slots, results
  <2>2. tdb' = [tdb EXCEPT ![s] = k] /\ \A t \in Slot : tdb[t] # k
    BY <1>3 DEF LockDB
  <2>3. Exclusive'
    BY <2>2
  <2>4. OwnFreed'
    BY <2>1, <2>2
  <2> QED
    BY <2>1, <2>3, <2>4
<1>4. ASSUME NEW s \in Slot, UnlockDB(s) PROVE Goal
  <2>1. UNCHANGED <<tpc, res, freed>> /\ tpc[s] = "serve" /\ tdb' = [tdb EXCEPT ![s] = NoDB]
    BY <1>4 DEF UnlockDB, slots, results
  <2> QED
    BY <2>1
<1>5. ASSUME NEW s \in Slot, UseDB(s) PROVE Goal
  <2>1. UNCHANGED <<tdb, res, freed>> /\ \A t \in Slot : t # s => tpc'[t] = tpc[t]
    BY <1>5 DEF UseDB, Step, databases, results
  <2>2. tpc'[s] = "free" \/ res[tdb[s]] = None
    BY <1>5 DEF UseDB, Step
  <2> QED
    BY <2>1, <2>2
<1>6. ASSUME NEW s \in Slot, FreeOwn(s) PROVE Goal
  <2>1. UNCHANGED <<tdb, res>> /\ \A t \in Slot : t # s => tpc'[t] = tpc[t]
    BY <1>6 DEF FreeOwn, Step
  <2>2. res[tdb[s]] \in freed' \cup {None} /\ freed \subseteq freed'
    BY <1>6 DEF FreeOwn, Free
  <2> QED
    BY <2>1, <2>2
<1>7. ASSUME NEW s \in Slot, NullOwn(s) PROVE Goal
  <2>1. tdb[s] \in DB /\ tpc[s] = "null"
    BY <1>7 DEF NullOwn, Step, InCall, InDB
  <2>2. UNCHANGED <<tdb, freed>> /\ \A t \in Slot : t # s => tpc'[t] = tpc[t]
    BY <1>7 DEF NullOwn, Step
  <2>3. res'[tdb[s]] = None /\ \A k \in DB : k # tdb[s] => res'[k] = res[k]
    BY <1>7, <2>1 DEF NullOwn
  <2>4. OwnFreed'
    <3>1. ASSUME NEW t \in Slot, t # s, tpc[t] \in {"null", "query"}
          PROVE  res'[tdb[t]] \in freed \cup {None}
      BY <2>1, <2>3, <3>1 DEF InCall, InDB
    <3> QED
      BY <2>2, <2>3, <3>1
  <2> QED
    BY <2>1, <2>2, <2>3, <2>4
<1>8. ASSUME NEW s \in Slot, Query(s) PROVE Goal
  <2>1. tdb[s] \in DB /\ tdb[s] # NoDB /\ tpc[s] = "query" /\ tpc'[s] = "serve"
    BY <1>8, LimitAssumption DEF Query, Step, InCall, InDB, DB, NoDB
  <2>2. UNCHANGED <<tdb, freed>> /\ \A t \in Slot : t # s => tpc'[t] = tpc[t]
    BY <1>8 DEF Query, Step
  <2>3. \A k \in DB : k # tdb[s] => res'[k] = res[k]
    BY <1>8, <2>1 DEF Query
  <2>4. OwnFreed'
    <3>1. ASSUME NEW t \in Slot, t # s, tpc[t] \in {"null", "query"}
          PROVE  res'[tdb[t]] \in freed \cup {None}
      <4>1. tdb[t] \in DB /\ tdb[t] # tdb[s]
        BY <2>1, <3>1 DEF InCall, InDB
      <4> QED
        BY <2>3, <3>1, <4>1
    <3> QED
      BY <2>1, <2>2, <3>1
  <2> QED
    BY <2>1, <2>2, <2>3, <2>4
<1> QED
  BY <1>1, <1>2, <1>3, <1>4, <1>5, <1>6, <1>7, <1>8 DEF Serving, SlotNext, DBNext

\* main goes past a connection when it has freed the result it found there, or found
\* none: the thread had freed it.
LEMMA MainReleases ==
  ASSUME TypeOK, StartInv, ReleaseInv, Starting \/ StopSteps, ~crashed', NEW r \in stored'
  PROVE  Handled(r)'
<1> USE DEF Handled, Ahead
<1>1. CASE Starting /\ ~Quit
  <2>1. mpc \in StartPC /\ stored' = stored
    BY <1>1 DEF StartPC, Starting, Unstarted, MakePool, ReadConfig, MakeClients, MakeBuffers,
                MakeDatabases, Make, ConnectDB, CreateServerFails, CreateServer, InitGameServer
  <2> QED
    BY <2>1 DEF StartInv, Progress
<1>2. CASE Quit
  BY <1>2 DEF Quit, Go, databases, results
<1>3. CASE StopSteps
  <2>1. r \in stored /\ ~crashed
    BY <1>3 DEF StopSteps, Stopping, Crash, SweepCrash, Sweep, CloseClient, StopListening,
                DisconnectCrash, Disconnecting, DisconnectDB, FreeResult, ForgetResult, CloseDB,
                DestroyMutex, DestroyGameServer, Exit
  <2>2. r # None /\ config /\ i \in Int
    BY <2>1, LimitAssumption DEF TypeOK, DBTypes, MainTypes, Result, None, StartInv, ThreadsStarted,
                                 Started
  <2>3. freed \subseteq freed'
    BY <1>3 DEF StopSteps, Stopping, Crash, SweepCrash, Sweep, CloseClient, StopListening, Free,
                DisconnectCrash, Disconnecting, DisconnectDB, FreeResult, ForgetResult, CloseDB,
                DestroyMutex, DestroyGameServer, Exit, databases, results
  <2>4. CASE r \in freed
    BY <2>3, <2>4
  <2>5. CASE r \notin freed
    <3>1. PICK k \in DB : res[k] = r /\ Ahead(k)
      BY <2>1, <2>5 DEF ReleaseInv
    <3>2. k \in Int /\ k >= 0 /\ k < DBMaxConnect
      BY LimitAssumption DEF DB
    <3>3. CASE Sweep \/ CloseClient \/ StopListening
      BY <3>1, <3>2, <3>3 DEF Sweep, CloseClient, StopListening, Go, results
    <3>4. CASE DisconnectDB
      <4>1. k >= i /\ res' = res /\ mpc = "disconnect"
        BY <3>1, <3>4 DEF DisconnectDB, results
      <4>2. i < DBMaxConnect
        BY <2>2, <3>2, <4>1, LimitAssumption
      <4>3. i' = i /\ mpc' = IF res[i] # None THEN "free" ELSE "dbclose"
        BY <2>2, <3>4, <4>2 DEF DisconnectDB
      <4>4. res[i] = None => k > i
        BY <2>2, <3>1, <3>2, <4>1
      <4> QED
        BY <3>1, <4>1, <4>3, <4>4
    <3>5. CASE FreeResult
      <4>1. k >= i /\ i' = i /\ res' = res
        BY <3>1, <3>5 DEF FreeResult
      <4>2. CASE k = i
        BY <2>2, <3>1, <3>5, <4>2 DEF FreeResult, Free
      <4>3. CASE k # i
        <5>1. k > i /\ mpc' \in {"null", "forget"}
          BY <2>2, <3>2, <3>5, <4>1, <4>3 DEF FreeResult
        <5> QED
          BY <3>1, <4>1, <5>1
      <4> QED
        BY <4>2, <4>3
    <3>6. CASE ForgetResult
      <4>1. k > i /\ i' = i /\ mpc' \in {"forget", "dbclose"}
        BY <3>1, <3>6 DEF ForgetResult
      <4>2. res'[k] = res[k]
        BY <2>2, <3>2, <3>6, <4>1 DEF ForgetResult, TypeOK, DBTypes
      <4> QED
        BY <3>1, <4>1, <4>2
    <3>7. CASE CloseDB
      <4>1. k > i /\ i' = i + 1 /\ mpc' = "disconnect" /\ res' = res
        BY <3>1, <3>7 DEF CloseDB, results
      <4>2. k >= i'
        BY <2>2, <3>2, <4>1
      <4> QED
        BY <3>1, <4>1, <4>2
    <3> QED
      BY <1>3, <3>1, <3>3, <3>4, <3>5, <3>6, <3>7
         DEF StopSteps, Disconnecting, SweepCrash, DisconnectCrash, Crash, DestroyMutex,
             DestroyGameServer, Exit
  <2> QED
    BY <2>4, <2>5
<1> QED
  BY <1>1, <1>2, <1>3

LEMMA NextRelease == TypeOK /\ InCall /\ StartInv /\ ReleaseInv /\ [Next]_vars => ReleaseInv'
<1> SUFFICES ASSUME TypeOK, InCall, StartInv, ReleaseInv, [Next]_vars PROVE ReleaseInv'
  OBVIOUS
<1>1. CASE UNCHANGED vars
  BY <1>1 DEF vars, main, slots, databases, results, ReleaseInv, Exclusive, OwnFreed, Handled, Ahead
<1>2. CASE Starting \/ StopSteps
  BY <1>2, MainShares, MainReleases DEF ReleaseInv
<1>3. CASE Serving
  <2>1. UNCHANGED main
    BY <1>3 DEF Serving, AcceptorNext, SlotNext, DBNext, Join, FillSocket, FillOnline, StartThread,
                ThreadFails, GiveUp, Accept, LockDB, UnlockDB, UseDB, FreeOwn, NullOwn, Query, Kick,
                Drop, Leave, CloseOwn
  <2>2. /\ Exclusive' /\ OwnFreed'
        /\ \A k \in DB : res'[k] = res[k] \/ res[k] \in freed' \cup {None}
        /\ freed \subseteq freed'
    BY <1>3, ThreadsShare DEF ReleaseInv
  <2>3. ASSUME ~crashed, NEW r \in stored PROVE Handled(r)'
    <3>1. r # None /\ Handled(r)
      BY <2>3 DEF ReleaseInv, TypeOK, DBTypes, Result, None
    <3> QED
      BY <2>1, <2>2, <3>1 DEF Handled, Ahead, main
  <2> QED
    BY <2>1, <2>2, <2>3 DEF ReleaseInv, main
<1> QED
  BY <1>1, <1>2, <1>3, NextIsStep

\* Until main begins with the database, the stored results are all different and not
\* freed, but for one that the thread that has freed it is about to forget.
Before == mpc \notin Closing \cup Ending
Fresh ==
  /\ freed \subseteq 1 .. nQuery
  /\ \A k \in DB : res[k] \in 0 .. nQuery
  /\ \A k, l \in DB : res[k] = res[l] /\ res[k] # None => k = l
  /\ \A k \in DB : res[k] \in freed => \E s \in Slot : tdb[s] = k /\ tpc[s] = "null"
  /\ ~twice
FreshInv == Before => Fresh

LEMMA InitFresh == Init => FreshInv
BY DEF Init, FreshInv, Fresh, None

LEMMA MainKeepsFresh == ASSUME FreshInv, Starting \/ StopSteps PROVE FreshInv'
<1> USE DEF FreshInv, Before, Closing, Ending, Go, Crash
<1>1. CASE Starting \/ Sweep \/ CloseClient
  <2>1. UNCHANGED <<tpc, tdb, nQuery, res, freed, twice>>
    BY <1>1 DEF Starting, Unstarted, Stopping, slots, databases, results, MakePool, ReadConfig,
                MakeClients, MakeBuffers, MakeDatabases, Make, ConnectDB, CreateServerFails,
                CreateServer, InitGameServer, Quit, Sweep, CloseClient
  <2>2. Before
    BY <1>1 DEF Starting, MakePool, ReadConfig, MakeClients, MakeBuffers, MakeDatabases, Make,
                ConnectDB, CreateServerFails, CreateServer, InitGameServer, Quit, Sweep, CloseClient
  <2> QED
    BY <2>1, <2>2 DEF Fresh
<1>2. CASE SweepCrash \/ DisconnectCrash \/ StopListening
  BY <1>2 DEF SweepCrash, DisconnectCrash, StopListening
<1>3. CASE Disconnecting
  BY <1>3 DEF Disconnecting, DisconnectDB, FreeResult, ForgetResult, CloseDB
<1>4. CASE DestroyMutex \/ DestroyGameServer \/ Exit
  BY <1>4 DEF DestroyMutex, DestroyGameServer, Exit
<1> QED
  BY <1>1, <1>2, <1>3, <1>4 DEF StopSteps

\* A result is freed by the only thread that has its connection, which has not freed
\* it yet, and a new one is like none before.
LEMMA ThreadsKeepFresh ==
  ASSUME TypeOK, InCall, AcceptorSlot, Exclusive, Fresh, Serving PROVE Fresh'
<1> USE DEF TypeOK, SlotTypes, DBTypes
<1>1. CASE AcceptorNext
  <2>1. UNCHANGED <<tdb, nQuery, res, freed, twice>>
    BY <1>1 DEF AcceptorNext, Join, FillSocket, FillOnline, StartThread, ThreadFails, GiveUp,
                databases, results
  <2>2. \A s \in Slot : tpc[s] = "null" => tpc'[s] = "null"
    BY <1>1 DEF AcceptorNext, Join, FillSocket, FillOnline, StartThread, ThreadFails, GiveUp, slots,
                AcceptorTypes, AcceptorSlot
  <2> QED
    BY <2>1, <2>2 DEF Fresh
<1>2. ASSUME NEW s \in Slot, Accept(s) \/ Kick(s) \/ Drop(s) \/ Leave(s) \/ CloseOwn(s)
      PROVE  Fresh'
  <2>1. UNCHANGED <<tdb, nQuery, res, freed, twice>>
    BY <1>2 DEF Accept, Kick, Drop, Leave, CloseOwn, databases, results
  <2>2. \A t \in Slot : tpc[t] = "null" => tpc'[t] = "null"
    BY <1>2 DEF Accept, Kick, Drop, Leave, Step, CloseOwn
  <2> QED
    BY <2>1, <2>2 DEF Fresh
<1>3. ASSUME NEW s \in Slot, (\E k \in DB : LockDB(s, k)) \/ UnlockDB(s) \/ UseDB(s)
      PROVE  Fresh'
  <2>1. UNCHANGED <<nQuery, res, freed, twice>> /\ tpc[s] = "serve"
    BY <1>3 DEF LockDB, UnlockDB, UseDB, Step, databases, results
  <2>2. \A t \in Slot : t # s => tpc'[t] = tpc[t] /\ tdb'[t] = tdb[t]
    BY <1>3 DEF LockDB, UnlockDB, UseDB, Step, slots, databases
  <2> QED
    BY <2>1, <2>2 DEF Fresh
<1>4. ASSUME NEW s \in Slot, FreeOwn(s) PROVE Fresh'
  <2>1. /\ tdb[s] \in DB /\ tpc[s] = "free" /\ tpc'[s] = "null"
        /\ UNCHANGED <<tdb, nQuery, res>> /\ \A t \in Slot : t # s => tpc'[t] = tpc[t]
    BY <1>4 DEF FreeOwn, Step, InCall, InDB
  <2>2. tdb[s] # NoDB
    BY <2>1, LimitAssumption DEF DB, NoDB
  <2>3. res[tdb[s]] \notin freed
    BY <2>1, <2>2 DEF Fresh, Exclusive
  <2>4. CASE res[tdb[s]] = None
    <3>1. UNCHANGED <<freed, twice>>
      BY <1>4, <2>4 DEF FreeOwn
    <3> QED
      BY <2>1, <3>1 DEF Fresh
  <2>5. CASE res[tdb[s]] # None
    <3>1. freed' = freed \cup {res[tdb[s]]} /\ ~twice'
      BY <1>4, <2>3, <2>5 DEF FreeOwn, Free, Fresh
    <3>2. res[tdb[s]] \in 1 .. nQuery
      BY <2>1, <2>5 DEF Fresh, None
    <3>3. ASSUME NEW k \in DB, res[k] \in freed'
          PROVE  \E t \in Slot : tdb[t] = k /\ tpc'[t] = "null"
      <4>1. CASE res[k] = res[tdb[s]]
        <5>1. k = tdb[s]
          BY <2>1, <2>5, <4>1 DEF Fresh
        <5> QED
          BY <2>1, <5>1
      <4>2. CASE res[k] \in freed
        <5>1. PICK t \in Slot : tdb[t] = k /\ tpc[t] = "null"
          BY <4>2 DEF Fresh
        <5> QED
          BY <2>1, <5>1
      <4> QED
        BY <3>1, <3>3, <4>1, <4>2
    <3>4. freed' \subseteq 1 .. nQuery /\ ~twice'
      BY <3>1, <3>2 DEF Fresh
    <3> QED
      <4> HIDE DEF TypeOK, SlotTypes, DBTypes
      <4>1. \A k \in DB : res[k] \in freed' => \E t \in Slot : tdb[t] = k /\ tpc'[t] = "null"
        BY <3>3
      <4> QED
        BY <2>1, <3>4, <4>1 DEF Fresh
  <2> QED
    BY <2>4, <2>5
<1>5. ASSUME NEW s \in Slot, NullOwn(s) PROVE Fresh'
  <2>1. /\ tdb[s] \in DB
        /\ UNCHANGED <<tdb, nQuery, freed, twice>> /\ \A t \in Slot : t # s => tpc'[t] = tpc[t]
    BY <1>5 DEF NullOwn, Step, InCall, InDB
  <2>2. res'[tdb[s]] = None /\ \A k \in DB : k # tdb[s] => res'[k] = res[k]
    BY <1>5, <2>1 DEF NullOwn
  <2>3. None \notin freed /\ None \in 0 .. nQuery
    BY DEF Fresh, None
  <2>4. ASSUME NEW k \in DB, res'[k] \in freed
        PROVE  \E t \in Slot : tdb[t] = k /\ tpc'[t] = "null"
    BY <2>1, <2>2, <2>3, <2>4 DEF Fresh
  <2>5. \A k \in DB : res'[k] \in 0 .. nQuery
    BY <2>2, <2>3 DEF Fresh
  <2> QED
    BY <2>1, <2>2, <2>4, <2>5 DEF Fresh
<1>6. ASSUME NEW s \in Slot, Query(s) PROVE Fresh'
  <2>1. /\ tdb[s] \in DB /\ tpc[s] = "query" /\ nQuery' = nQuery + 1
        /\ UNCHANGED <<tdb, freed, twice>> /\ \A t \in Slot : t # s => tpc'[t] = tpc[t]
    BY <1>6 DEF Query, Step, InCall, InDB
  <2>2. /\ \A k \in DB : k # tdb[s] => res'[k] = res[k]
        /\ res'[tdb[s]] \in {res[tdb[s]], None, nQuery + 1}
    BY <1>6, <2>1 DEF Query
  <2>3. freed \subseteq 1 .. nQuery + 1 /\ None \notin freed /\ nQuery + 1 \notin freed
    BY DEF Fresh, None
  <2>4. \A k \in DB : res'[k] \in 0 .. nQuery + 1
    BY <2>2 DEF Fresh, None
  <2>5. ASSUME NEW k \in DB, NEW l \in DB, res'[k] = res'[l], res'[k] # None PROVE k = l
    BY <2>1, <2>2, <2>5 DEF Fresh, None
  <2>6. ASSUME NEW k \in DB, res'[k] \in freed
        PROVE  \E t \in Slot : tdb[t] = k /\ tpc'[t] = "null"
    BY <2>1, <2>2, <2>3, <2>6 DEF Fresh
  <2> QED
    BY <2>1, <2>3, <2>4, <2>5, <2>6 DEF Fresh
<1> QED
  BY <1>1, <1>2, <1>3, <1>4, <1>5, <1>6 DEF Serving, SlotNext, DBNext

LEMMA NextFresh ==
  TypeOK /\ InCall /\ MetInv /\ ReleaseInv /\ FreshInv /\ [Next]_vars => FreshInv'
<1> SUFFICES ASSUME TypeOK, InCall, MetInv, ReleaseInv, FreshInv, [Next]_vars PROVE FreshInv'
  OBVIOUS
<1>1. CASE UNCHANGED vars
  BY <1>1 DEF vars, main, slots, databases, results, FreshInv, Before, Fresh
<1>2. CASE Starting \/ StopSteps
  BY <1>2, MainKeepsFresh
<1>3. CASE Serving
  <2>1. mpc' = mpc
    BY <1>3 DEF Serving, AcceptorNext, SlotNext, DBNext, Join, FillSocket, FillOnline, StartThread,
                ThreadFails, GiveUp, Accept, LockDB, UnlockDB, UseDB, FreeOwn, NullOwn, Query, Kick,
                Drop, Leave, CloseOwn, main
  <2> QED
    BY <1>3, <2>1, ThreadsKeepFresh DEF FreshInv, Before, ReleaseInv, MetInv
<1> QED
  BY <1>1, <1>2, <1>3, NextIsStep

\* Every result stored when main begins to stop is freed before the mutexes are
\* destroyed, by main or by the thread that has the connection; until main begins with
\* the database, the threads free no result twice.
THEOREM StopReleases == Spec => []StoredReleased
<1>1. ReleaseInv /\ FreshInv => StoredReleased
  BY DEF ReleaseInv, Handled, Ahead, FreshInv, Before, Fresh, StoredReleased, Ending
<1>2. Spec => [](ReleaseInv /\ FreshInv)
  BY InitMet, NextMet, InitRelease, NextRelease, InitFresh, NextFresh, StartCorrect, PTL
     DEF Spec
<1> QED
  BY <1>1, <1>2, PTL
=============================================================================
