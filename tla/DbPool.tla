------------------------------- MODULE DbPool -------------------------------
(***************************************************************************)
(* The pool of database connections (STSV_DBFindAndLockResource,           *)
(* STSV_DBUnlockResource, STSV_DBQuery, STDB_ReConnect and their           *)
(* neighbours in StarSocketServer.cpp).                                    *)
(*                                                                         *)
(* A client thread asks for a connection, makes queries with it and gives  *)
(* it back.  The search for a free connection runs under s_MutexFreeDBIdx  *)
(* and spins, holding the mutex, until one is free; giving a connection    *)
(* back takes no lock.  s_nCurDBConnect counts the locked connections: it  *)
(* is incremented under the mutex and decremented without.                 *)
(*                                                                         *)
(* The application is assumed to use the connection it locked and no       *)
(* other, to lock one at a time, and to unlock it once.                    *)
(***************************************************************************)
EXTENDS Integers, FiniteSets

CONSTANTS
  DBMaxConnect,   \* s_nDBMaxConnect: the size of the pool
  Thread,         \* the threads that use it
  None,           \* no thread
  CountHalf,      \* s_nCurDBConnect ranges over -CountHalf .. CountHalf - 1
  MaxDown         \* at most so many connections are without server at a time

ASSUME DBMaxConnectAssumption == DBMaxConnect \in Nat \ {0}
ASSUME NoneAssumption == None \notin Thread
ASSUME CountHalfAssumption == CountHalf \in Nat \ {0}
ASSUME MaxDownAssumption == MaxDown \in Nat

Connections == 0 .. DBMaxConnect - 1

VARIABLES
  up,        \* pMySql[i] # NULL
  sqlLock,   \* sqlLock[i]
  res,       \* mMySqlRes[i]: the thread whose query it answers, or None
  nCur,      \* s_nCurDBConnect
  mutex,     \* the thread that has s_MutexFreeDBIdx, or None
  pc,        \* pc[t]: the next step of thread t
  idx,       \* idx[t]: i while t searches, the connection it has afterwards
  reg,       \* reg[t]: the value of s_nCurDBConnect that t has loaded
  queried    \* t has made a query since it locked its connection

poolVars == <<up, res>>
vars == <<up, sqlLock, res, nCur, mutex, pc, idx, reg, queried>>

Finding == {"scan", "incload", "incstore", "setlock"}
\* From sqlLock[i] = true to sqlLock[i] = false the connection is the thread's.
HoldingPC == {"unlockmutex", "holding", "query",
              "decload", "decstore", "check", "clamp", "free"}
PC == {"idle", "wait"} \cup Finding \cup HoldingPC

Holding(t) == pc[t] \in HoldingPC
Down == {i \in Connections : ~up[i]}

\* STDB_Connect leaves the connections it could not make NULL.
Init ==
  /\ up \in [Connections -> BOOLEAN] /\ Cardinality(Down) <= MaxDown
  /\ sqlLock = [i \in Connections |-> FALSE]
  /\ res = [i \in Connections |-> None]
  /\ nCur = 0
  /\ mutex = None
  /\ pc = [t \in Thread |-> "idle"]
  /\ idx = [t \in Thread |-> 0]
  /\ reg = [t \in Thread |-> 0]
  /\ queried = [t \in Thread |-> FALSE]

Goto(t, from, to) == pc[t] = from /\ pc' = [pc EXCEPT ![t] = to]

\* A signed counter wraps around.
Wrap(n) == ((n + CountHalf) % (2 * CountHalf)) - CountHalf

----------------------------------------------------------------------------
(* STSV_DBFindAndLockResource                                              *)

Call(t) ==
  /\ Goto(t, "idle", "wait")
  /\ UNCHANGED <<poolVars, sqlLock, nCur, mutex, idx, reg, queried>>

\* Wrong: the search does not wait for the mutex.
LockMutexAnyway(t) ==
  /\ Goto(t, "wait", "scan")
  /\ mutex' = t /\ idx' = [idx EXCEPT ![t] = 0]
  /\ UNCHANGED <<poolVars, sqlLock, nCur, reg, queried>>

LockMutex(t) ==
  /\ mutex = None
  /\ Goto(t, "wait", "scan")
  /\ mutex' = t
  /\ idx' = [idx EXCEPT ![t] = 0]
  /\ UNCHANGED <<poolVars, sqlLock, nCur, reg, queried>>

\* Wrong: the lock flag is not looked at.
ScanHitAny(t) ==
  /\ up[idx[t]]
  /\ Goto(t, "scan", "incload")
  /\ UNCHANGED <<poolVars, sqlLock, nCur, mutex, idx, reg, queried>>

ScanHit(t) ==
  /\ ~sqlLock[idx[t]] /\ up[idx[t]]
  /\ Goto(t, "scan", "incload")
  /\ UNCHANGED <<poolVars, sqlLock, nCur, mutex, idx, reg, queried>>

\* Wrong: the search goes one connection too far.
ScanMissTooFar(t) ==
  /\ pc[t] = "scan"
  /\ sqlLock[idx[t]] \/ ~up[idx[t]]
  /\ idx' = [idx EXCEPT ![t] = IF idx[t] + 1 > DBMaxConnect THEN 0 ELSE idx[t] + 1]
  /\ UNCHANGED <<poolVars, sqlLock, nCur, mutex, pc, reg, queried>>

\* The next connection; after the last one, the first again.
ScanMiss(t) ==
  /\ pc[t] = "scan"
  /\ sqlLock[idx[t]] \/ ~up[idx[t]]
  /\ idx' = [idx EXCEPT ![t] = IF idx[t] + 1 >= DBMaxConnect THEN 0 ELSE idx[t] + 1]
  /\ UNCHANGED <<poolVars, sqlLock, nCur, mutex, pc, reg, queried>>

Load(t) == reg' = [reg EXCEPT ![t] = nCur]

IncrementLoad(t) ==
  /\ Goto(t, "incload", "incstore")
  /\ Load(t)
  /\ UNCHANGED <<poolVars, sqlLock, nCur, mutex, idx, queried>>

IncrementStore(t) ==
  /\ Goto(t, "incstore", "setlock")
  /\ nCur' = Wrap(reg[t] + 1)
  /\ reg' = [reg EXCEPT ![t] = 0]
  /\ UNCHANGED <<poolVars, sqlLock, mutex, idx, queried>>

SetLock(t) ==
  /\ Goto(t, "setlock", "unlockmutex")
  /\ sqlLock' = [sqlLock EXCEPT ![idx[t]] = TRUE]
  /\ UNCHANGED <<poolVars, nCur, mutex, idx, reg, queried>>

UnlockMutex(t) ==
  /\ Goto(t, "unlockmutex", "holding")
  /\ mutex' = None
  /\ UNCHANGED <<poolVars, sqlLock, nCur, idx, reg, queried>>

FindNext(t) == \/ LockMutex(t) \/ ScanHit(t) \/ ScanMiss(t)
               \/ IncrementLoad(t) \/ IncrementStore(t)
               \/ SetLock(t) \/ UnlockMutex(t)

----------------------------------------------------------------------------
(* STSV_DBQuery and STSV_RealQuery                                         *)

\* Wrong: the last result is not freed.
StartQueryOver(t) ==
  /\ sqlLock[idx[t]] /\ Goto(t, "holding", "query")
  /\ UNCHANGED <<poolVars, sqlLock, nCur, mutex, idx, reg, queried>>

\* The last result is freed, then the command goes to the server.
StartQuery(t) ==
  /\ sqlLock[idx[t]]
  /\ Goto(t, "holding", "query")
  /\ res' = [res EXCEPT ![idx[t]] = None]
  /\ UNCHANGED <<up, sqlLock, nCur, mutex, idx, reg, queried>>

\* STSV_DBQuery returns: true with the result r of the thread's command, if it
\* has one, or false; b tells whether the connection is up.
ReturnTrue(t, r) ==
  /\ Goto(t, "query", "holding")
  /\ res' = [res EXCEPT ![idx[t]] = r]
  /\ up' = [up EXCEPT ![idx[t]] = TRUE]
  /\ queried' = [queried EXCEPT ![t] = TRUE]
  /\ UNCHANGED <<sqlLock, nCur, mutex, idx, reg>>

ReturnFalse(t, b) ==
  /\ Goto(t, "query", "holding")
  /\ up' = [up EXCEPT ![idx[t]] = b]
  /\ queried' = [queried EXCEPT ![t] = TRUE]
  /\ UNCHANGED <<sqlLock, res, nCur, mutex, idx, reg>>

\* The server answers, with rows or (INSERT, UPDATE, ...) without.
QueryOk(t) == up[idx[t]] /\ \E r \in {t, None} : ReturnTrue(t, r)

\* No such table, bad SQL, duplicate key: no reconnection.
QueryRefused(t) == up[idx[t]] /\ ReturnFalse(t, TRUE)

\* Any other error: STDB_ReConnect succeeds, and the command is sent again.
Reconnect(t) == \/ \E r \in {t, None} : ReturnTrue(t, r)
                \/ ReturnFalse(t, TRUE)

\* STDB_ReConnect fails: the connection stays NULL.
ReconnectFails(t) == /\ Cardinality(Down \cup {idx[t]}) <= MaxDown
                     /\ ReturnFalse(t, FALSE)

\* STSV_DBReleaseResult, also at the head of STSV_DBLastInsert.
ReleaseResult(t) ==
  /\ pc[t] = "holding"
  /\ res[idx[t]] # None
  /\ res' = [res EXCEPT ![idx[t]] = None]
  /\ UNCHANGED <<up, sqlLock, nCur, mutex, pc, idx, reg, queried>>

QueryNext(t) == \/ QueryOk(t) \/ QueryRefused(t)
                \/ Reconnect(t) \/ ReconnectFails(t)

----------------------------------------------------------------------------
(* STSV_DBUnlockResource                                                   *)

Unlock(t) ==
  /\ sqlLock[idx[t]]
  /\ Goto(t, "holding", "decload")
  /\ UNCHANGED <<poolVars, sqlLock, nCur, mutex, idx, reg, queried>>

\* Wrong: giving back waits for the mutex under which the search spins.
DecrementLoadLocked(t) ==
  /\ mutex = None
  /\ Goto(t, "decload", "decstore") /\ Load(t)
  /\ UNCHANGED <<poolVars, sqlLock, nCur, mutex, idx, queried>>

DecrementLoad(t) ==
  /\ Goto(t, "decload", "decstore")
  /\ Load(t)
  /\ UNCHANGED <<poolVars, sqlLock, nCur, mutex, idx, queried>>

DecrementStore(t) ==
  /\ Goto(t, "decstore", "check")
  /\ nCur' = Wrap(reg[t] - 1)
  /\ reg' = [reg EXCEPT ![t] = 0]
  /\ UNCHANGED <<poolVars, sqlLock, mutex, idx, queried>>

\* if (s_nCurDBConnect < 0)
CheckCount(t) ==
  /\ Goto(t, "check", IF nCur < 0 THEN "clamp" ELSE "free")
  /\ UNCHANGED <<poolVars, sqlLock, nCur, mutex, idx, reg, queried>>

ClampCount(t) ==
  /\ Goto(t, "clamp", "free")
  /\ nCur' = 0
  /\ UNCHANGED <<poolVars, sqlLock, mutex, idx, reg, queried>>

Free(t) ==
  /\ Goto(t, "free", "idle")
  /\ sqlLock' = [sqlLock EXCEPT ![idx[t]] = FALSE]
  /\ idx' = [idx EXCEPT ![t] = 0]
  /\ queried' = [queried EXCEPT ![t] = FALSE]
  /\ UNCHANGED <<poolVars, nCur, mutex, reg>>

UnlockNext(t) == \/ DecrementLoad(t) \/ DecrementStore(t)
                 \/ CheckCount(t) \/ ClampCount(t) \/ Free(t)

ThreadNext(t) == \/ Call(t) \/ FindNext(t)
                 \/ StartQuery(t) \/ QueryNext(t) \/ ReleaseResult(t)
                 \/ Unlock(t) \/ UnlockNext(t)

Next == \E t \in Thread : ThreadNext(t)

Spec == Init /\ [][Next]_vars

\* Threads run on, MySQL answers, the mutex is handed round, and a thread
\* does not keep a connection for ever.
Fairness == \A t \in Thread :
  /\ WF_vars(FindNext(t)) /\ SF_vars(LockMutex(t))
  /\ WF_vars(QueryNext(t)) /\ SF_vars(Unlock(t))
  /\ WF_vars(UnlockNext(t))

FairSpec == Spec /\ Fairness

----------------------------------------------------------------------------

\* Type correctness; idx never leaves the pool.
TypeOK ==
  /\ up \in [Connections -> BOOLEAN]
  /\ sqlLock \in [Connections -> BOOLEAN]
  /\ res \in [Connections -> Thread \cup {None}]
  /\ nCur \in (-CountHalf) .. CountHalf - 1
  /\ mutex \in Thread \cup {None}
  /\ pc \in [Thread -> PC]
  /\ idx \in [Thread -> Connections]
  /\ reg \in [Thread -> -CountHalf .. CountHalf - 1]
  /\ queried \in [Thread -> BOOLEAN]

\* No two threads have the same database connection, though a connection is
\* given back without the mutex under which it is looked for.
ExclusiveConnection ==
  \A t, u \in Thread : Holding(t) /\ Holding(u) /\ idx[t] = idx[u] => t = u

\* What sqlLock and the mutex say: the lock flag is set for exactly the
\* connections somebody has, and only the owner of the mutex searches.
LocksTell ==
  /\ \A t \in Thread : pc[t] \in Finding \cup {"unlockmutex"} => mutex = t
  /\ \A t \in Thread : pc[t] \in {"incload", "incstore", "setlock"} => ~sqlLock[idx[t]]
  /\ \A t \in Thread : Holding(t) => sqlLock[idx[t]]
  /\ \A i \in Connections : sqlLock[i] => \E t \in Thread : Holding(t) /\ idx[t] = i

LockInv == ExclusiveConnection /\ LocksTell

\* After its first query, whatever its outcome, a thread finds on its
\* connection its own rows or none, never the rows of the last user, who may
\* have left without STSV_DBReleaseResult.
OwnRows ==
  \A t \in Thread : pc[t] = "holding" /\ queried[t] => res[idx[t]] \in {t, None}

\* A result is freed before another takes its place.
NoResultLost ==
  [][\A i \in Connections : res[i] # None => res'[i] \in {res[i], None}]_vars

\* A thread that asks for a connection gets one (MaxDown < DBMaxConnect).
EveryRequestServed ==
  \A t \in Thread : pc[t] = "wait" ~> pc[t] = "holding"

\* The pool that DbPool implements.
owner == [i \in Connections |->
            IF \E t \in Thread : Holding(t) /\ idx[t] = i
            THEN CHOOSE t \in Thread : Holding(t) /\ idx[t] = i
            ELSE None]

Pool == INSTANCE ResourcePool WITH User <- Thread, Resource <- Connections

\* A connection belongs to one thread at a time, and stays with it until it
\* is unlocked.
ImplementsPool == Pool!Spec
=============================================================================
