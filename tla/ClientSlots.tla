---------------------------- MODULE ClientSlots ----------------------------
(***************************************************************************)
(* The life of a client slot of the TCP server (StarSocketServer.cpp).     *)
(*                                                                         *)
(* s_Client_t is an array of slots.  One thread, the acceptor              *)
(* (STSV_PollAcceptFunc, AcceptConnection), fills a free slot for every    *)
(* connection it accepts and starts one client thread for it               *)
(* (STSV_ClientThreadFuncAlway).  A slot is free as soon as its flag       *)
(* "online" is false, which is long before the thread that serves it has   *)
(* finished: the acceptor must join that thread before it reuses the slot, *)
(* and learns that there is one to join from the flag "thread", which the  *)
(* client thread itself raises when it first runs.  No lock protects any   *)
(* of this.                                                                *)
(*                                                                         *)
(* A thread is named after the connection it serves, so c stands for a     *)
(* peer, its connection, and its thread.  Every access to a shared flag    *)
(* that another thread may change in between is a step of its own.         *)
(***************************************************************************)
EXTENDS Integers, FiniteSets

CONSTANTS
  MaxConnection,  \* s_nMaxConnection: the number of slots
  Conn,           \* peers, each with at most one connection at a time
  FD,             \* the descriptors the process may have open for clients
  None,           \* no connection, no descriptor
  CountMod        \* s_nCurLoginCount is unsigned: 2^32 in the code

ASSUME MaxConnectionAssumption == MaxConnection \in Nat \ {0}
ASSUME NoneAssumption == None \notin Conn /\ None \notin FD
ASSUME CountModAssumption == CountMod \in Nat \ {0}

Slots == 0 .. MaxConnection - 1

VARIABLES
  wire,      \* wire[c]: what the server would find on c's connection
  file,      \* file[fd]: the connection that fd refers to in the kernel, or None
  socket,    \* s_Client_t[s].socket
  online,    \* s_Client_t[s].online
  thread,    \* s_Client_t[s].thread, "Have Thread Before"
  threadID,  \* s_Client_t[s].thread_ID
  apc,       \* the next step of the acceptor
  asock,     \* connectSock of AcceptConnection
  aidx,      \* freeHostIdx of AcceptConnection
  areg,      \* the count the acceptor has loaded
  tpc,       \* tpc[c]: the next step of the thread that serves c
  tslot,     \* tslot[c]: the slot that thread got as its argument
  tfd,       \* tfd[c]: allset.fd, the descriptor it polls
  treg,      \* treg[c]: the count it has loaded
  known,     \* clients the application was told of and not yet told to forget
  curLogin,  \* s_nCurLoginCount
  torn       \* history: two updates of s_nCurLoginCount have overlapped

slotVars  == <<socket, online, thread, threadID>>
acceptVars == <<apc, asock, aidx, areg>>
threadVars == <<tpc, tslot, tfd, treg>>
countVars == <<curLogin, torn>>
vars == <<wire, file, slotVars, acceptVars, threadVars, known, countVars>>

(***************************************************************************)
(* "silent": connected, nothing to read.  "partial": the first bytes of a  *)
(* message whose rest has not come.  "message": a whole message.  "bad":   *)
(* one that processMessageBuffer answers by dropping the client (a         *)
(* REGISTER whose body is not there or has the wrong size, an impossible   *)
(* sender or size).  "eof": the peer has closed its end.                   *)
(***************************************************************************)
WireState == {"idle", "backlog", "silent", "partial", "message", "bad", "eof"}
AcceptorPC == {"select", "find", "join", "fill", "create", "load", "store"}
\* From its creation to DestroyClientRoom a client thread works on its slot.
Serving == {"start", "begin", "loop", "poll", "handle", "disconnect", "destroy"}
ThreadPC == Serving \cup {"none", "load", "store", "exited", "joined"}

\* Threads that exist and that pthread_join has not disposed of.
Unjoined(c) == tpc[c] \notin {"none", "joined"}
\* Threads that have not yet closed the socket of their slot.
Attached(c) == tpc[c] \in Serving

Init ==
  /\ wire = [c \in Conn |-> "idle"]
  /\ file = [fd \in FD |-> None]
  /\ socket = [s \in Slots |-> None]
  /\ online = [s \in Slots |-> FALSE]
  /\ thread = [s \in Slots |-> FALSE]
  /\ threadID = [s \in Slots |-> None]
  /\ apc = "select" /\ asock = None /\ aidx = 0 /\ areg = 0
  /\ tpc = [c \in Conn |-> "none"]
  /\ tslot = [c \in Conn |-> 0]
  /\ tfd = [c \in Conn |-> None]
  /\ treg = [c \in Conn |-> 0]
  /\ known = {}
  /\ curLogin = 0 /\ torn = FALSE

----------------------------------------------------------------------------
(* The peers.                                                              *)

Peer(c, from, to) == /\ wire[c] \in from
                     /\ wire' = [wire EXCEPT ![c] = to]
                     /\ UNCHANGED <<file, slotVars, acceptVars, threadVars,
                                    known, countVars>>

Connect(c) == ~Unjoined(c) /\ Peer(c, {"idle"}, "backlog")
StartMessage(c) == Peer(c, {"silent"}, "partial")
FinishMessage(c) == Peer(c, {"partial"}, "message")
SpoilMessage(c) == Peer(c, {"partial"}, "bad")
HangUp(c) == Peer(c, {"silent", "partial"}, "eof")

PeerNext(c) == \/ Connect(c)
               \/ StartMessage(c)
               \/ FinishMessage(c)
               \/ SpoilMessage(c)
               \/ HangUp(c)

----------------------------------------------------------------------------
(* Descriptors and the login count.                                        *)

\* DestroySocket: the descriptor is free again, and whoever is behind it is
\* disconnected.  Closing a descriptor that is not open changes nothing.
DestroySocket(fd) ==
  /\ file' = [f \in FD |-> IF f = fd THEN None ELSE file[f]]
  /\ wire' = [c \in Conn |->
                IF fd \in FD /\ file[fd] = c THEN "idle" ELSE wire[c]]

\* Someone has loaded the count and not yet stored it.
Updating == apc = "store" \/ \E c \in Conn : tpc[c] = "store"

\* Wrong: a count that does not wrap.
StoreCountUnbounded(value) == curLogin' = value

\* s_nCurLoginCount++ and -- are a load and a store.
LoadCount == torn' = (torn \/ Updating)
StoreCount(value) == curLogin' = value % CountMod

----------------------------------------------------------------------------
(* The acceptor.                                                           *)

\* AcceptConnection returns and its local variables are gone.
ReturnFromAccept == apc' = "select" /\ asock' = None /\ aidx' = 0 /\ areg' = 0

\* accept(): it is retried until a descriptor can be had.
Accept(c) ==
  /\ apc = "select" /\ wire[c] = "backlog"
  /\ \E fd \in FD : /\ file[fd] = None
                    /\ asock' = fd
                    /\ file' = [file EXCEPT ![fd] = c]
  /\ wire' = [wire EXCEPT ![c] = "silent"]
  /\ apc' = "find"
  /\ UNCHANGED <<slotVars, aidx, areg, threadVars, known, countVars>>

\* Wrong: the slot is reused without a join.
FindFreeNoJoin ==
  /\ apc = "find"
  /\ \E s \in Slots : ~online[s] /\ aidx' = s /\ apc' = "fill"
  /\ UNCHANGED <<wire, file, slotVars, asock, areg, threadVars, known, countVars>>

\* FindFreeIdxHost finds the first slot that is not online.
FindFree ==
  /\ apc = "find"
  /\ \E s \in Slots : /\ ~online[s]
                      /\ \A r \in Slots : r < s => online[r]
                      /\ aidx' = s
                      /\ apc' = IF thread[s] THEN "join" ELSE "fill"
  /\ UNCHANGED <<wire, file, slotVars, asock, areg, threadVars, known, countVars>>

\* Wrong: the refused connection is not closed.
RefuseNoClose ==
  /\ apc = "find" /\ \A s \in Slots : online[s]
  /\ ReturnFromAccept
  /\ UNCHANGED <<wire, file, slotVars, threadVars, known, countVars>>

\* No slot is free: "ERROR MAXIMUM CONNECTION".
Refuse ==
  /\ apc = "find"
  /\ \A s \in Slots : online[s]
  /\ DestroySocket(asock)
  /\ ReturnFromAccept
  /\ UNCHANGED <<slotVars, threadVars, known, countVars>>

\* Wrong: the flag "thread" is not reset after the join.
JoinThreadKeepFlag ==
  /\ apc = "join"
  /\ \E c \in Conn : /\ c = threadID[aidx] /\ tpc[c] = "exited"
                     /\ tpc' = [tpc EXCEPT ![c] = "joined"]
                     /\ tslot' = [tslot EXCEPT ![c] = 0]
  /\ apc' = "fill"
  /\ UNCHANGED <<wire, file, slotVars, asock, aidx, areg, tfd, treg, known, countVars>>

\* pthread_join returns when the thread of the slot has finished.
JoinThread ==
  /\ apc = "join"
  /\ \E c \in Conn : /\ c = threadID[aidx]
                     /\ tpc[c] = "exited"
                     /\ tpc' = [tpc EXCEPT ![c] = "joined"]
                     /\ tslot' = [tslot EXCEPT ![c] = 0]
  /\ thread' = [thread EXCEPT ![aidx] = FALSE]
  /\ apc' = "fill"
  /\ UNCHANGED <<wire, file, socket, online, threadID, asock, aidx, areg,
                 tfd, treg, known, countVars>>

\* The slot is filled for the new connection and GIVEID is sent.
FillSlot ==
  /\ apc = "fill"
  /\ socket' = [socket EXCEPT ![aidx] = asock]
  /\ online' = [online EXCEPT ![aidx] = TRUE]
  /\ apc' = "create"
  /\ UNCHANGED <<wire, file, thread, threadID, asock, aidx, areg, threadVars,
                 known, countVars>>

\* pthread_create starts the thread that serves the accepted connection.
CreateThread ==
  /\ apc = "create"
  /\ \E c \in Conn : /\ file[asock] = c
                     /\ ~Unjoined(c)
                     /\ threadID' = [threadID EXCEPT ![aidx] = c]
                     /\ tpc' = [tpc EXCEPT ![c] = "start"]
                     /\ tslot' = [tslot EXCEPT ![c] = aidx]
  /\ apc' = "load"
  /\ UNCHANGED <<wire, file, socket, online, thread, asock, aidx, areg, tfd,
                 treg, known, countVars>>

\* Wrong: the slot stays online when no thread could be created.
CreateFailsOnline ==
  /\ apc = "create"
  /\ DestroySocket(socket[aidx])
  /\ ReturnFromAccept
  /\ UNCHANGED <<slotVars, threadVars, known, countVars>>

\* pthread_create fails: the slot is given up again.
CreateFails ==
  /\ apc = "create"
  /\ online' = [online EXCEPT ![aidx] = FALSE]
  /\ DestroySocket(socket[aidx])
  /\ ReturnFromAccept
  /\ UNCHANGED <<socket, thread, threadID, threadVars, known, countVars>>

IncrementLoad ==
  /\ apc = "load"
  /\ areg' = curLogin /\ LoadCount
  /\ apc' = "store"
  /\ UNCHANGED <<wire, file, slotVars, asock, aidx, threadVars, known, curLogin>>

IncrementStore ==
  /\ apc = "store"
  /\ StoreCount(areg + 1)
  /\ ReturnFromAccept
  /\ UNCHANGED <<wire, file, slotVars, threadVars, known, torn>>

AcceptorNext == \/ \E c \in Conn : Accept(c)
                \/ FindFree \/ Refuse \/ JoinThread \/ FillSlot
                \/ CreateThread \/ CreateFails
                \/ IncrementLoad \/ IncrementStore

----------------------------------------------------------------------------
(* The client threads.                                                     *)

Goto(c, from, to) == tpc[c] = from /\ tpc' = [tpc EXCEPT ![c] = to]

\* Wrong: the flag "thread" is not raised.
StartSilently(c) ==
  /\ Goto(c, "start", "begin")
  /\ tfd' = [tfd EXCEPT ![c] = socket[tslot[c]]]
  /\ UNCHANGED <<wire, file, slotVars, acceptVars, tslot, treg, known, countVars>>

\* The thread reads the socket of its slot and raises the flag "thread".
Start(c) ==
  /\ Goto(c, "start", "begin")
  /\ tfd' = [tfd EXCEPT ![c] = socket[tslot[c]]]
  /\ thread' = [thread EXCEPT ![tslot[c]] = TRUE]
  /\ UNCHANGED <<wire, file, socket, online, threadID, acceptVars, tslot, treg,
                 known, countVars>>

\* if (client->online) processMSGClientConnect(client);
ConnectCallback(c) ==
  /\ Goto(c, "begin", "loop")
  /\ known' = IF online[tslot[c]] THEN known \cup {c} ELSE known
  /\ UNCHANGED <<wire, file, slotVars, acceptVars, tslot, tfd, treg, countVars>>

\* Wrong: the loop does not look at "online".
EnterPollAlways(c) ==
  /\ Goto(c, "loop", "poll")
  /\ UNCHANGED <<wire, file, slotVars, acceptVars, tslot, tfd, treg, known, countVars>>

\* while (client->online) poll(...)
EnterPoll(c) ==
  /\ online[tslot[c]]
  /\ Goto(c, "loop", "poll")
  /\ UNCHANGED <<wire, file, slotVars, acceptVars, tslot, tfd, treg, known, countVars>>

LeaveLoop(c) ==
  /\ ~online[tslot[c]]
  /\ Goto(c, "loop", "disconnect")
  /\ UNCHANGED <<wire, file, slotVars, acceptVars, tslot, tfd, treg, known, countVars>>

Readable(fd) == fd \in FD /\ file[fd] # None
                /\ wire[file[fd]] \in {"partial", "message", "bad", "eof"}

PollReady(c) ==
  /\ Readable(tfd[c])
  /\ Goto(c, "poll", "handle")
  /\ UNCHANGED <<wire, file, slotVars, acceptVars, tslot, tfd, treg, known, countVars>>

\* Wrong: poll waits for ever.
PollForever(c) == FALSE

\* Wrong: a thread that times out skips the Disconnect callback.
PollTimeoutReturn(c) ==
  /\ ~Readable(tfd[c])
  /\ Goto(c, "poll", "destroy")
  /\ online' = [online EXCEPT ![tslot[c]] = FALSE]
  /\ UNCHANGED <<wire, file, socket, thread, threadID, acceptVars, tslot, tfd,
                 treg, known, countVars>>

\* STSV_IOTIMEOUT seconds without a byte, or poll fails.
PollTimeout(c) ==
  /\ ~Readable(tfd[c])
  /\ Goto(c, "poll", "loop")
  /\ online' = [online EXCEPT ![tslot[c]] = FALSE]
  /\ UNCHANGED <<wire, file, socket, thread, threadID, acceptVars, tslot, tfd,
                 treg, known, countVars>>

\* The peer whose data processMessageBuffer and the callback read.
Sender(c) == file[socket[tslot[c]]]

\* processMessageBuffer consumes a message, the application sees it, and the
\* answer or the confirmation is sent.
HandleMessage(c) ==
  /\ Goto(c, "handle", "loop")
  /\ Sender(c) # None /\ wire[Sender(c)] = "message"
  /\ wire' = [wire EXCEPT ![Sender(c)] = "silent"]
  /\ UNCHANGED <<file, slotVars, acceptVars, tslot, tfd, treg, known, countVars>>

\* The client is dropped for what it sent, or because it has hung up.  On
\* "partial" neither action is enabled: ReadFrom calls recv until the rest
\* of the message comes, and no timeout bounds it.
DropClient(c) ==
  /\ Goto(c, "handle", "loop")
  /\ Sender(c) # None /\ wire[Sender(c)] \in {"bad", "eof"}
  /\ online' = [online EXCEPT ![tslot[c]] = FALSE]
  /\ UNCHANGED <<wire, file, socket, thread, threadID, acceptVars, tslot, tfd,
                 treg, known, countVars>>

DisconnectCallback(c) ==
  /\ Goto(c, "disconnect", "destroy")
  /\ known' = known \ {c}
  /\ UNCHANGED <<wire, file, slotVars, acceptVars, tslot, tfd, treg, countVars>>

\* Wrong: the thread ends without counting itself out.
CloseSocketOnly(c) ==
  /\ Goto(c, "destroy", "exited")
  /\ DestroySocket(socket[tslot[c]])
  /\ UNCHANGED <<slotVars, acceptVars, tslot, tfd, treg, known, countVars>>

CloseSocket(c) ==
  /\ Goto(c, "destroy", "load")
  /\ DestroySocket(socket[tslot[c]])
  /\ UNCHANGED <<slotVars, acceptVars, tslot, tfd, treg, known, countVars>>

DecrementLoad(c) ==
  /\ Goto(c, "load", "store")
  /\ treg' = [treg EXCEPT ![c] = curLogin] /\ LoadCount
  /\ UNCHANGED <<wire, file, slotVars, acceptVars, tslot, tfd, known, curLogin>>

DecrementStore(c) ==
  /\ Goto(c, "store", "exited")
  /\ StoreCount(treg[c] - 1)
  /\ tfd' = [tfd EXCEPT ![c] = None]
  /\ treg' = [treg EXCEPT ![c] = 0]
  /\ UNCHANGED <<wire, file, slotVars, acceptVars, tslot, known, torn>>

ThreadNext(c) == \/ Start(c) \/ ConnectCallback(c)
                 \/ EnterPoll(c) \/ LeaveLoop(c)
                 \/ PollReady(c) \/ PollTimeout(c)
                 \/ HandleMessage(c) \/ DropClient(c)
                 \/ DisconnectCallback(c) \/ CloseSocket(c)
                 \/ DecrementLoad(c) \/ DecrementStore(c)

\* STSV_SendDuplicateLogin and STSV_SendServerFULL: the application, on a
\* thread of its own or in a callback of any client, disconnects a client d
\* that it knows.
Kick(d) ==
  /\ d \in known
  /\ online' = [online EXCEPT ![tslot[d]] = FALSE]
  /\ UNCHANGED <<wire, file, socket, thread, threadID, acceptVars, threadVars,
                 known, countVars>>

Next == \/ AcceptorNext
        \/ \E c \in Conn : PeerNext(c) \/ ThreadNext(c) \/ Kick(c)

Spec == Init /\ [][Next]_vars

\* Every thread of the server runs on; accept() serves the backlog in turn.
FairServer == /\ WF_vars(AcceptorNext)
              /\ \A c \in Conn : WF_vars(ThreadNext(c)) /\ SF_vars(Accept(c))
FairSpec == Spec /\ FairServer

\* Moreover no peer leaves a message unfinished for ever.
FairPeers == \A c \in Conn : WF_vars(wire[c] = "partial" /\ PeerNext(c))
FairPeersSpec == FairSpec /\ FairPeers

----------------------------------------------------------------------------
(* Invariants.                                                             *)

\* Type correctness of the slots, the descriptor table and the threads.
TypeOK ==
  /\ wire \in [Conn -> WireState]
  /\ file \in [FD -> Conn \cup {None}]
  /\ socket \in [Slots -> FD \cup {None}]
  /\ online \in [Slots -> BOOLEAN]
  /\ thread \in [Slots -> BOOLEAN]
  /\ threadID \in [Slots -> Conn \cup {None}]
  /\ apc \in AcceptorPC
  /\ asock \in FD \cup {None}
  /\ aidx \in Slots
  /\ areg \in 0 .. CountMod - 1
  /\ tpc \in [Conn -> ThreadPC]
  /\ tslot \in [Conn -> Slots]
  /\ tfd \in [Conn -> FD \cup {None}]
  /\ treg \in [Conn -> 0 .. CountMod - 1]
  /\ known \in SUBSET Conn
  /\ curLogin \in 0 .. CountMod - 1
  /\ torn \in BOOLEAN

\* Two client threads never share a slot: AcceptConnection has joined the
\* last one, even one that is past its Disconnect callback.
OneThreadPerSlot ==
  \A c, d \in Conn : Unjoined(c) /\ Unjoined(d) /\ tslot[c] = tslot[d] => c = d

\* Until it closes it, a client thread finds in its slot, and polls, the
\* descriptor of its own connection: it never reads from, writes to or
\* closes the connection of another client.
DescriptorOwned ==
  \A c \in Conn : Attached(c) =>
    LET fd == socket[tslot[c]]
    IN  fd \in FD /\ file[fd] = c /\ (tpc[c] # "start" => tfd[c] = fd)

\* Every open descriptor is in the acceptor's hand or will be closed by the
\* one client thread that has it.
NoDescriptorLeak ==
  \A fd \in FD : file[fd] # None =>
    \/ fd = asock /\ apc \in {"find", "join", "fill", "create"}
    \/ \E c \in Conn : Attached(c) /\ socket[tslot[c]] = fd

\* A slot that is online has a thread that will take it off line again, so no
\* slot is lost to FindFreeIdxHost for ever.
NoSlotLeak ==
  \A s \in Slots : online[s] =>
    \/ s = aidx /\ apc = "create"
    \/ \E c \in Conn : /\ tslot[c] = s
                       /\ tpc[c] \in {"start", "begin", "loop", "poll", "handle"}

\* The application gets a Connect callback for exactly the clients it gets a
\* Disconnect callback for, in this order, and the thread of a client it
\* knows is still at work.
CallbacksPaired ==
  \A c \in Conn : c \in known <=> tpc[c] \in {"loop", "poll", "handle", "disconnect"}

\* pthread_join is called for a thread that exists and was not joined before.
JoinsLiveThread ==
  apc = "join" => \E c \in Conn : /\ threadID[aidx] = c
                                  /\ Unjoined(c)
                                  /\ tslot[c] = aidx

\* s_nCurLoginCount, which decides whether a REGISTER is answered "server
\* full", counts the client threads, short of a torn update.
CountExact ==
  ~torn => curLogin = (Cardinality({c \in Conn : Attached(c) \/ tpc[c] \in {"load", "store"}})
                         - (IF apc \in {"load", "store"} THEN 1 ELSE 0)) % CountMod

\* The inductive invariant behind OneThreadPerSlot: what the flags "online"
\* and "thread" tell the acceptor about the threads.
ThreadOfSlot ==
  /\ \A c \in Conn : Unjoined(c) => threadID[tslot[c]] = c
  /\ \A s \in Slots : thread[s] =>
       threadID[s] \in Conn /\ Unjoined(threadID[s]) /\ tslot[threadID[s]] = s
FlagsTell ==
  /\ \A c \in Conn : Unjoined(c) /\ tpc[c] # "start" => thread[tslot[c]]
  /\ \A c \in Conn : tpc[c] \in {"start", "begin"} => online[tslot[c]]
AcceptorSees ==
  /\ apc = "join" => thread[aidx] /\ ~online[aidx]
  /\ apc = "fill" => ~online[aidx]
  /\ apc = "create" => online[aidx]
  /\ apc \in {"fill", "create"} =>
       ~thread[aidx] /\ \A c \in Conn : Unjoined(c) => tslot[c] # aidx
SlotInv == ThreadOfSlot /\ FlagsTell /\ AcceptorSees /\ CallbacksPaired

\* The inductive invariant behind DescriptorOwned: what the descriptor table
\* holds for the peers and for the acceptor.
TableMatchesPeers ==
  /\ \A fd, g \in FD : file[fd] # None /\ file[fd] = file[g] => fd = g
  /\ \A c \in Conn : wire[c] \in {"idle", "backlog"} => \A fd \in FD : file[fd] # c
  /\ \A c \in Conn : wire[c] = "backlog" => ~Unjoined(c)
AcceptorHolds ==
  /\ apc \in {"find", "join", "fill", "create"} =>
       asock \in FD /\ file[asock] \in Conn /\ ~Unjoined(file[asock])
  /\ apc = "create" => socket[aidx] = asock
DescriptorInv == TableMatchesPeers /\ AcceptorHolds /\ DescriptorOwned /\ NoDescriptorLeak

----------------------------------------------------------------------------
(* Liveness.                                                               *)

\* The acceptor comes back to every connection that waits for it, and does not
\* wait in pthread_join for ever: each gets a thread or is closed.
EveryConnectionAnswered ==
  \A c \in Conn : wire[c] = "backlog" ~> wire[c] = "idle" \/ Unjoined(c)

\* A client the application has kicked gets its Disconnect callback.
KickedClientLeaves ==
  \A c \in Conn : (c \in known /\ ~online[tslot[c]]) ~> c \notin known

\* A client that stays silent is disconnected (STSV_IOTIMEOUT).
SilentClientForgotten ==
  \A c \in Conn : []<>~(c \in known /\ wire[c] = "silent")

\* "Discoonet from Server Time out": a client that stops sending, even in the
\* middle of a message, is disconnected.
StalledClientForgotten ==
  \A c \in Conn : []<>~(c \in known /\ wire[c] = "partial")

\* The pool that ClientSlots implements: a slot belongs to the connection
\* whose thread is attached to it.
owner == [s \in Slots |->
            IF \E c \in Conn : Attached(c) /\ tslot[c] = s
            THEN CHOOSE c \in Conn : Attached(c) /\ tslot[c] = s
            ELSE None]

Pool == INSTANCE ResourcePool WITH User <- Conn, Resource <- Slots

\* A slot is given to one connection at a time, and stays with it until its
\* thread has closed the socket.
ImplementsPool == Pool!Spec

=============================================================================
