------------------------------ MODULE ServerRun ------------------------------
(***************************************************************************)
(* The server from its start to its end: main, STSV_Init, STSV_Stop, the   *)
(* database connections, and the acceptor and the client threads that run  *)
(* meanwhile and that nobody stops (ClientSlots has them in detail, and     *)
(* the descriptors; here a connection is a number that is not used again;  *)
(* DbPool has the search for a database connection, so that here a thread  *)
(* just gets one that no other has).                                       *)
(*                                                                         *)
(* main stops the server after a failed start, too.                        *)
(***************************************************************************)
EXTENDS Integers, FiniteSets

CONSTANTS
  MaxConnection,   \* s_nMaxConnection, once the configuration is read
  DBMaxConnect,    \* s_nDBMaxConnect
  MaxAccept,       \* bound: connections accepted
  MaxQuery         \* bound: queries

ASSUME LimitAssumption ==
  /\ MaxConnection \in Nat /\ DBMaxConnect \in Nat
  /\ MaxAccept \in Nat /\ MaxQuery \in Nat

Slot == 0 .. MaxConnection - 1
DB == 0 .. DBMaxConnect - 1
Connection == 1 .. MaxAccept
Result == 1 .. MaxQuery
None == 0
NoDB == -1

VARIABLES
  mpc, ret, i,   \* main: its next step, ret, and the index of its loops
  config,        \* the configuration is read: the limits are not 0
  made,          \* what STSV_Init has allocated and initialised
  game,          \* InitGameServer, DestroyGameServer
  listen,        \* s_ServerDesc.listenSocket is set
  accepting,     \* the acceptor runs
  apc, asock, aidx,  \* AcceptConnection: its next step, connectSock, freeHostIdx
  nAccept,
  socket, online,    \* the slots
  tpc,           \* the slots' threads
  open,          \* the connections whose socket is open
  stdin,         \* descriptor 0 is open
  db, res,       \* pMySql, mMySqlRes
  tdb,           \* tdb[s]: the connection that the slot's thread has locked
  nQuery,
  \* histories
  crashed,       \* main has used memory that is not there
  met, stored,   \* the clients on line and the results when main began to stop
  freed, twice   \* the results that are freed; one was freed again

main == <<mpc, ret, i, config, made, game, listen, stdin, crashed, met, stored>>
acceptor == <<accepting, apc, asock, aidx, nAccept>>
slots == <<socket, online, tpc, open>>
results == <<res, freed, twice>>
databases == <<db, tdb, nQuery, results>>
vars == <<main, acceptor, slots, databases>>

Init ==
  /\ mpc = "pool" /\ ret = 0 /\ i = 0 /\ config = FALSE /\ made = {} /\ game = "none"
  /\ listen = FALSE /\ stdin = TRUE /\ crashed = FALSE /\ met = {} /\ stored = {}
  /\ accepting = FALSE /\ apc = "accept" /\ asock = None /\ aidx = 0 /\ nAccept = 0
  /\ socket = [s \in Slot |-> None] /\ online = [s \in Slot |-> FALSE]
  /\ tpc = [s \in Slot |-> "none"] /\ open = {}
  /\ db = [k \in DB |-> "none"] /\ res = [k \in DB |-> None]
  /\ tdb = [s \in Slot |-> NoDB] /\ nQuery = 0 /\ freed = {} /\ twice = FALSE

----------------------------------------------------------------------------
(* STSV_Init, called by main.                                              *)

Go(label) == mpc' = label /\ i' = 0
Unstarted == UNCHANGED <<acceptor, slots, stdin, crashed, met, stored>>

\* STSV_Init returns an error, and main stops the server.
Fail == ret' = -1 /\ Go("sweep")

Make(label, part, next) ==
  /\ mpc = label
  /\ \/ made' = made \cup {part} /\ Go(next) /\ ret' = ret
     \/ made' = made /\ Fail
  /\ Unstarted /\ UNCHANGED <<config, game, listen, databases>>

\* initBigDataMemory
MakePool == Make("pool", "pool", "config")

\* ReadConfigFile; without s_bUnlimit CheckLimite may refuse the limits.
ReadConfig ==
  /\ mpc = "config"
  /\ config' = TRUE
  /\ \/ Go("clients") /\ ret' = ret
     \/ Fail
  /\ Unstarted /\ UNCHANGED <<made, game, listen, databases>>

\* The slots, their mutexes and their buffers; the database arrays.
MakeClients == Make("clients", "clients", "buffers")
MakeBuffers == Make("buffers", "buffers", "databases")

\* Wrong: the acceptor is started before the database is connected.
MakeDatabasesEarly == Make("databases", "databases", "server")

MakeDatabases == Make("databases", "databases", "connect")

\* STDB_Connect tries every connection.
ConnectDB ==
  /\ mpc = "connect"
  /\ IF i < DBMaxConnect
     THEN /\ \E result \in {"open", "failed"} : db' = [db EXCEPT ![i] = result]
          /\ i' = i + 1 /\ mpc' = mpc /\ made' = made
     ELSE Go("server") /\ made' = made \cup {"connections"} /\ db' = db
  /\ Unstarted /\ UNCHANGED <<ret, config, game, listen, tdb, nQuery, results>>

\* CreateServer fails: the port is in use twice, listen fails, or no thread can
\* be created.
CreateServerFails ==
  /\ mpc = "server"
  /\ listen' \in BOOLEAN
  /\ Fail
  /\ Unstarted /\ UNCHANGED <<config, made, game, databases>>

\* Wrong: the listening socket is not stored.
CreateServerUnset ==
  /\ mpc = "server"
  /\ accepting' = TRUE
  /\ Go("game")
  /\ UNCHANGED <<ret, config, made, game, listen, stdin, crashed, met, stored, apc, asock,
                 aidx, nAccept, slots, databases>>

\* CreateServer starts the acceptor; it goes on when bind fails with an error
\* other than EADDRINUSE.
CreateServer ==
  /\ mpc = "server"
  /\ listen' = TRUE
  /\ accepting' = TRUE
  /\ Go("game")
  /\ UNCHANGED <<ret, config, made, game, stdin, crashed, met, stored, apc, asock, aidx,
                 nAccept, slots, databases>>

\* The acceptor runs already.
InitGameServer ==
  /\ mpc = "game"
  /\ game' = "running"
  /\ Go("run")
  /\ UNCHANGED <<ret, config, made, listen, acceptor, slots, stdin, crashed, met,
                 stored, databases>>

\* main sees the key q.
Quit ==
  /\ mpc = "run"
  /\ ret' = -2 /\ Go("sweep")
  /\ met' = {socket[s] : s \in {t \in Slot : online[t]}}
  /\ stored' = {res[k] : k \in DB} \ {None}
  /\ UNCHANGED <<config, made, game, listen, acceptor, slots, stdin, crashed,
                 databases>>

----------------------------------------------------------------------------
(* STSV_Stop, called by main.                                              *)

Stopping == UNCHANGED <<ret, config, made, listen, acceptor, met, stored, socket,
                        online, tpc, tdb, nQuery>>

\* The process dies of a pointer that is NULL.
Crash ==
  /\ crashed' = TRUE /\ Go("end") /\ accepting' = FALSE
  /\ UNCHANGED <<ret, config, made, game, listen, apc, asock, aidx, nAccept,
                 slots, stdin, met, stored, databases>>

SweepCrash == mpc = "sweep" /\ config /\ MaxConnection > 0 /\ "clients" \notin made /\ Crash

\* Wrong: one slot too many.
SweepTooFar ==
  /\ mpc = "sweep" /\ (~config \/ "clients" \in made \/ MaxConnection = 0)
  /\ IF config /\ i <= MaxConnection
     THEN IF i < MaxConnection /\ online[i] THEN mpc' = "close" /\ i' = i
                                           ELSE mpc' = mpc /\ i' = i + 1
     ELSE Go("unlisten")
  /\ Stopping /\ UNCHANGED <<open, stdin, crashed, game, db, results>>

\* The sockets of the slots on line are closed.
Sweep ==
  /\ mpc = "sweep" /\ (~config \/ "clients" \in made \/ MaxConnection = 0)
  /\ IF config /\ i < MaxConnection
     THEN IF online[i] THEN mpc' = "close" /\ i' = i ELSE mpc' = mpc /\ i' = i + 1
     ELSE Go("unlisten")
  /\ Stopping /\ UNCHANGED <<open, stdin, crashed, game, db, results>>

\* Wrong: the socket of the first slot is closed for each.
CloseFirst ==
  /\ mpc = "close"
  /\ open' = open \ {socket[0]}
  /\ mpc' = "sweep" /\ i' = i + 1
  /\ Stopping /\ UNCHANGED <<stdin, crashed, game, db, results>>

CloseClient ==
  /\ mpc = "close"
  /\ open' = open \ {socket[i]}
  /\ mpc' = "sweep" /\ i' = i + 1
  /\ Stopping /\ UNCHANGED <<stdin, crashed, game, db, results>>

\* Without a listening socket this closes descriptor 0.
StopListening ==
  /\ mpc = "unlisten"
  /\ stdin' = (stdin /\ listen)
  /\ Go("disconnect")
  /\ Stopping /\ UNCHANGED <<open, crashed, game, db, results>>

\* STDB_DisConnect.  Arrays that were not made are NULL, or hold what malloc has left.
DisconnectCrash ==
  mpc = "disconnect" /\ config /\ DBMaxConnect > 0 /\ "databases" \notin made /\ Crash

DisconnectDB ==
  /\ mpc = "disconnect"
  /\ IF config /\ i < DBMaxConnect
     THEN mpc' = (IF res[i] # None THEN "free" ELSE "dbclose") /\ i' = i
     ELSE Go("destroy")
  /\ Stopping /\ UNCHANGED <<open, stdin, crashed, game, db, results>>

\* mysql_free_result
Free(k) == freed' = freed \cup {res[k]} /\ twice' = (twice \/ res[k] \in freed)

\* Wrong: a result that is stored is only forgotten.
FreeResultNever ==
  /\ mpc = "free"
  /\ mpc' = "forget" /\ i' = i
  /\ Stopping /\ UNCHANGED <<open, stdin, crashed, game, db, results>>

\* STSV_DBReleaseResult looks again; its thread may have freed the result meanwhile,
\* or be about to.
FreeResult ==
  /\ mpc = "free"
  /\ IF res[i] # None THEN Free(i) /\ mpc' = "null" ELSE UNCHANGED <<freed, twice>> /\ mpc' = "forget"
  /\ i' = i
  /\ Stopping /\ UNCHANGED <<open, stdin, crashed, game, db, res>>

\* mMySqlRes[i] is set to NULL, and set again by the caller.
ForgetResult ==
  /\ mpc \in {"null", "forget"}
  /\ res' = [res EXCEPT ![i] = None]
  /\ mpc' = (IF mpc = "null" THEN "forget" ELSE "dbclose") /\ i' = i
  /\ Stopping /\ UNCHANGED <<open, stdin, crashed, game, db, freed, twice>>

CloseDB ==
  /\ mpc = "dbclose"
  /\ db' = [db EXCEPT ![i] = IF @ = "open" THEN "closed" ELSE @]
  /\ mpc' = "disconnect" /\ i' = i + 1
  /\ Stopping /\ UNCHANGED <<open, stdin, crashed, game, results>>

\* The slots' mutexes, whoever has them.
DestroyMutex ==
  /\ mpc = "destroy"
  /\ IF config /\ i < MaxConnection THEN mpc' = mpc /\ i' = i + 1 ELSE Go("ungame")
  /\ Stopping /\ UNCHANGED <<open, stdin, crashed, game, db, results>>

DestroyGameServer ==
  /\ mpc = "ungame"
  /\ game' = IF ret = -2 THEN "destroyed" ELSE game
  /\ Go("exit")
  /\ Stopping /\ UNCHANGED <<open, stdin, crashed, db, results>>

\* main returns: the process and its threads end.
Exit ==
  /\ mpc = "exit"
  /\ Go("end")
  /\ accepting' = FALSE
  /\ UNCHANGED <<ret, config, made, game, listen, apc, asock, aidx, nAccept, slots,
                 stdin, crashed, met, stored, databases>>

MainNext == \/ MakePool \/ ReadConfig \/ MakeClients \/ MakeBuffers \/ MakeDatabases \/ ConnectDB
            \/ CreateServerFails \/ CreateServer \/ InitGameServer
            \/ SweepCrash \/ Sweep \/ CloseClient \/ StopListening \/ DisconnectCrash
            \/ DisconnectDB \/ FreeResult \/ ForgetResult \/ CloseDB
            \/ DestroyMutex \/ DestroyGameServer \/ Exit

----------------------------------------------------------------------------
(* The acceptor and the client threads.                                    *)

\* What main does once the listening socket is closed.
Closing == {"disconnect", "free", "null", "forget", "dbclose"}
Ending == {"destroy", "ungame", "exit", "end"}

Listening == accepting /\ mpc \notin Closing \cup Ending
Running == mpc # "end"

\* The first slot that is not on line is taken.  Without one the connection is
\* closed at once, which changes nothing here.
Accept(s) ==
  /\ Listening /\ apc = "accept" /\ nAccept < MaxAccept
  /\ ~online[s] /\ \A r \in Slot : r < s => online[r]
  /\ nAccept' = nAccept + 1 /\ asock' = nAccept + 1 /\ aidx' = s
  /\ open' = open \cup {nAccept + 1}
  /\ apc' = "join"
  /\ UNCHANGED <<main, accepting, socket, online, tpc, databases>>

\* Its last thread is joined.
Join ==
  /\ Running /\ apc = "join" /\ tpc[aidx] = "none"
  /\ apc' = "socket"
  /\ UNCHANGED <<main, accepting, asock, aidx, nAccept, slots, databases>>

\* The slot gets the socket first ...
FillSocket ==
  /\ Running /\ apc = "socket"
  /\ socket' = [socket EXCEPT ![aidx] = asock]
  /\ apc' = "online"
  /\ UNCHANGED <<main, accepting, asock, aidx, nAccept, online, tpc, open, databases>>

\* ... then it is on line, and has a thread.
FillOnline ==
  /\ Running /\ apc = "online"
  /\ online' = [online EXCEPT ![aidx] = TRUE]
  /\ apc' = "thread"
  /\ UNCHANGED <<main, accepting, asock, aidx, nAccept, socket, tpc, open, databases>>

StartThread ==
  /\ Running /\ apc = "thread"
  /\ tpc' = [tpc EXCEPT ![aidx] = "serve"]
  /\ apc' = "accept"
  /\ UNCHANGED <<main, accepting, asock, aidx, nAccept, socket, online, open, databases>>

\* No thread can be created: the slot is off line, then the socket is closed.
ThreadFails ==
  /\ Running /\ apc = "thread"
  /\ online' = [online EXCEPT ![aidx] = FALSE]
  /\ apc' = "giveup"
  /\ UNCHANGED <<main, accepting, asock, aidx, nAccept, socket, tpc, open, databases>>

GiveUp ==
  /\ Running /\ apc = "giveup"
  /\ open' = open \ {socket[aidx]}
  /\ apc' = "accept"
  /\ UNCHANGED <<main, accepting, asock, aidx, nAccept, socket, online, tpc, databases>>

\* The client's callback locks a database connection, and unlocks it.
LockDB(s, k) ==
  /\ Running /\ tpc[s] = "serve" /\ tdb[s] = NoDB
  /\ db[k] # "failed" /\ \A t \in Slot : tdb[t] # k
  /\ tdb' = [tdb EXCEPT ![s] = k]
  /\ UNCHANGED <<main, acceptor, slots, db, nQuery, results>>

UnlockDB(s) ==
  /\ Running /\ tpc[s] = "serve" /\ tdb[s] # NoDB
  /\ tdb' = [tdb EXCEPT ![s] = NoDB]
  /\ UNCHANGED <<main, acceptor, slots, db, nQuery, results>>

Step(s, from, to) == tpc' = [tpc EXCEPT ![s] = to] /\ Running /\ tpc[s] = from

\* A query, or STSV_DBReleaseResult alone, frees the last result, if there is one ...
UseDB(s) ==
  /\ tdb[s] # NoDB
  /\ Step(s, "serve", IF res[tdb[s]] # None THEN "free" ELSE "query")
  /\ UNCHANGED <<main, acceptor, socket, online, open, databases>>

FreeOwn(s) ==
  /\ Step(s, "free", "null")
  /\ IF res[tdb[s]] # None THEN Free(tdb[s]) ELSE UNCHANGED <<freed, twice>>
  /\ UNCHANGED <<main, acceptor, socket, online, open, db, tdb, nQuery, res>>

NullOwn(s) ==
  /\ \E to \in {"serve", "query"} : Step(s, "null", to)
  /\ res' = [res EXCEPT ![tdb[s]] = None]
  /\ UNCHANGED <<main, acceptor, socket, online, open, db, tdb, nQuery, freed, twice>>

\* ... and stores its own, if it has rows; on an error it connects again.
Query(s) ==
  LET k == tdb[s] IN
  /\ Step(s, "query", "serve")
  /\ nQuery < MaxQuery /\ nQuery' = nQuery + 1
  /\ \/ /\ db' = [db EXCEPT ![k] = "open"]
        /\ \E r \in {None, nQuery + 1} : res' = [res EXCEPT ![k] = r]
     \/ /\ \E result \in {db[k], "open", "failed"} : db' = [db EXCEPT ![k] = result]
        /\ res' = res
  /\ UNCHANGED <<main, acceptor, socket, online, open, tdb, freed, twice>>

\* STSV_SendDuplicateLogin, STSV_SendServerFULL, in any thread; m_Mutex is not waited
\* for once it is destroyed.
Kick(s) ==
  /\ Running /\ tpc[s] # "none" /\ online[s]
  /\ online' = [online EXCEPT ![s] = FALSE]
  /\ UNCHANGED <<main, acceptor, socket, tpc, open, databases>>

\* The thread finds the connection closed or spoilt, or poll times out.
Drop(s) ==
  /\ Running /\ tpc[s] = "serve" /\ tdb[s] = NoDB
  /\ online' = [online EXCEPT ![s] = FALSE]
  /\ UNCHANGED <<main, acceptor, socket, tpc, open, databases>>

\* It leaves its loop when the client is off line, whoever has seen to that.
Leave(s) ==
  /\ ~online[s] /\ tdb[s] = NoDB
  /\ Step(s, "serve", "leave")
  /\ UNCHANGED <<main, acceptor, socket, online, open, databases>>

CloseOwn(s) ==
  /\ Running /\ tpc[s] = "leave"
  /\ open' = open \ {socket[s]}
  /\ tpc' = [tpc EXCEPT ![s] = "none"]
  /\ UNCHANGED <<main, acceptor, socket, online, databases>>

DBNext(s) == \/ (\E k \in DB : LockDB(s, k)) \/ UnlockDB(s)
             \/ UseDB(s) \/ FreeOwn(s) \/ NullOwn(s) \/ Query(s)

SlotNext(s) == Accept(s) \/ DBNext(s) \/ Kick(s) \/ Drop(s) \/ Leave(s) \/ CloseOwn(s)

AcceptorNext == Join \/ FillSocket \/ FillOnline \/ StartThread \/ ThreadFails \/ GiveUp

Next == MainNext \/ Quit \/ AcceptorNext
        \/ \E s \in Slot : SlotNext(s)

Spec == Init /\ [][Next]_vars

----------------------------------------------------------------------------

MainPC == {"pool", "config", "clients", "buffers", "databases", "connect", "server", "game", "run",
           "sweep", "close", "unlisten"} \cup Closing \cup Ending
InDB == {"free", "null", "query"}
Parts == {"pool", "clients", "buffers", "databases", "connections"}

\* main, and the bounds of its loops.
MainTypes ==
  /\ mpc \in MainPC /\ i \in Nat
  /\ mpc # "sweep" => i <= DBMaxConnect + MaxConnection
  /\ mpc = "sweep" => i <= MaxConnection
  /\ mpc = "close" => i \in Slot
  /\ mpc \in Closing \ {"disconnect"} => i \in DB
  /\ ret \in {0, -1, -2}
FlagTypes ==
  /\ config \in BOOLEAN
  /\ listen \in BOOLEAN /\ accepting \in BOOLEAN
  /\ stdin \in BOOLEAN /\ crashed \in BOOLEAN
  /\ online \in [Slot -> BOOLEAN]
PartTypes == made \subseteq Parts /\ game \in {"none", "running", "destroyed"}
AcceptorTypes ==
  /\ apc \in {"accept", "join", "socket", "online", "thread", "giveup"}
  /\ nAccept \in 0 .. MaxAccept /\ asock \in 0 .. MaxAccept
  /\ apc # "accept" => aidx \in Slot
SlotTypes ==
  /\ socket \in [Slot -> 0 .. MaxAccept]
  /\ tpc \in [Slot -> {"none", "serve", "leave"} \cup InDB]
  /\ open \subseteq Connection /\ met \subseteq 0 .. MaxAccept
\* A thread in a call with a database connection has one.
DBTypes ==
  /\ db \in [DB -> {"none", "open", "failed", "closed"}]
  /\ res \in [DB -> 0 .. MaxQuery] /\ tdb \in [Slot -> DB \cup {NoDB}]
  /\ nQuery \in 0 .. MaxQuery /\ freed \subseteq Result /\ twice \in BOOLEAN
  /\ stored \subseteq Result

\* Type correctness; the loops of main stay inside their arrays.
TypeOK == MainTypes /\ FlagTypes /\ PartTypes /\ AcceptorTypes /\ SlotTypes /\ DBTypes

\* A client thread finds everything that STSV_Init makes, whatever of the start
\* failed; after a failed start there is none.  InitGameServer is not part of it: the
\* first clients may be served before it, and the last ones after DestroyGameServer.
ServesReady == (\E s \in Slot : tpc[s] # "none") => made = Parts /\ ret # -1

\* STSV_Stop uses a pointer that is NULL only after a start that failed between
\* reading the limits and making the arrays they are the bounds of, and closes
\* descriptor 0 only after one that failed before the listening socket was stored: it is
\* sound after every other, when the acceptor could not be started as after the key q.
StopSound ==
  /\ crashed => ret = -1 /\ config /\ ~({"clients", "databases"} \subseteq made)
  /\ ~stdin => ret = -1 /\ ~listen

\* A client on line when main begins to stop has no open socket when main has
\* closed those of the slots, unless its thread, kicked or not, will leave and close
\* it, or the acceptor is about to.
MetClosed ==
  mpc \in {"unlisten"} \cup Closing \cup Ending /\ ~crashed =>
    \A n \in met : n \in open =>
      \E s \in Slot : /\ socket[s] = n /\ ~online[s]
                      /\ tpc[s] # "none" \/ (apc = "giveup" /\ aidx = s)

\* Every result that was stored when main began to stop is freed when main is through
\* with the database, though the threads free and store results meanwhile; and no
\* result is freed twice, unless main has begun with that: from then on a thread and
\* main may free the same one.
StoredReleased ==
  /\ mpc \in Ending /\ ~crashed => stored \subseteq freed
  /\ twice => mpc \in Closing \cup Ending
=============================================================================
