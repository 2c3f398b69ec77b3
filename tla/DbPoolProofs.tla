---------------------------- MODULE DbPoolProofs ----------------------------
(***************************************************************************)
(* DbPool gives a connection to one thread at a time, for any number of    *)
(* threads and connections and whatever the server does.                   *)
(***************************************************************************)
EXTENDS DbPool, TLAPS

USE DBMaxConnectAssumption, NoneAssumption, CountHalfAssumption
    DEF DBMaxConnectAssumption, NoneAssumption, CountHalfAssumption

----------------------------------------------------------------------------
(* Type correctness.                                                       *)

Counts == (-CountHalf) .. CountHalf - 1

\* A counter that wraps around stays in its range.
LEMMA WrapRange == \A n \in Int : Wrap(n) \in Counts
<1> TAKE n \in Int
<1> DEFINE m == 2 * CountHalf
<1>1. m \in Nat \ {0}
  OBVIOUS
<1>2. ASSUME NEW k \in Nat \ {0} PROVE (n + CountHalf) % k \in 0 .. k - 1
  OBVIOUS
<1>3. (n + CountHalf) % m \in 0 .. m - 1
  BY <1>1, <1>2
<1> QED
  BY <1>3 DEF Wrap, Counts

LEMMA InitType == Init => TypeOK
<1> SUFFICES ASSUME Init PROVE TypeOK
  OBVIOUS
<1>1. 0 \in Connections /\ 0 \in Counts
  BY DEF Connections, Counts
<1> QED
  BY <1>1 DEF Init, TypeOK, PC, Counts

LEMMA FindType ==
  ASSUME TypeOK, NEW t \in Thread, FindNext(t)
  PROVE  TypeOK'
<1> USE DEF TypeOK, Goto, poolVars, PC, Finding, HoldingPC
<1>1. CASE LockMutex(t)
  <2>1. 0 \in Connections
    BY DEF Connections
  <2> QED
    BY <1>1, <2>1 DEF LockMutex
<1>2. CASE ScanHit(t)
  BY <1>2 DEF ScanHit
<1>3. CASE ScanMiss(t)
  <2>1. idx' \in [Thread -> Connections]
    BY <1>3 DEF ScanMiss, Connections
  <2> QED
    BY <1>3, <2>1 DEF ScanMiss
<1>4. CASE IncrementLoad(t)
  BY <1>4 DEF IncrementLoad, Load
<1>5. CASE IncrementStore(t)
  <2>1. nCur' \in Counts
    BY <1>5, WrapRange DEF IncrementStore
  <2>2. reg' \in [Thread -> Counts]
    BY <1>5 DEF IncrementStore, Counts
  <2> QED
    BY <1>5, <2>1, <2>2 DEF IncrementStore, Counts
<1>6. CASE SetLock(t)
  BY <1>6 DEF SetLock
<1>7. CASE UnlockMutex(t)
  BY <1>7 DEF UnlockMutex
<1> QED
  BY <1>1, <1>2, <1>3, <1>4, <1>5, <1>6, <1>7 DEF FindNext

LEMMA QueryType ==
  ASSUME TypeOK, NEW t \in Thread, StartQuery(t) \/ QueryNext(t) \/ ReleaseResult(t)
  PROVE  TypeOK'
<1> USE DEF TypeOK, Goto, PC, HoldingPC
<1>1. CASE StartQuery(t)
  BY <1>1 DEF StartQuery
<1>2. ASSUME NEW r \in {t, None}, ReturnTrue(t, r) PROVE TypeOK'
  BY <1>2 DEF ReturnTrue
<1>3. ASSUME NEW b \in BOOLEAN, ReturnFalse(t, b) PROVE TypeOK'
  BY <1>3 DEF ReturnFalse
<1>4. CASE ReleaseResult(t)
  BY <1>4 DEF ReleaseResult
<1> QED
  BY <1>1, <1>2, <1>3, <1>4 DEF QueryNext, QueryOk, QueryRefused, Reconnect, ReconnectFails

LEMMA UnlockType ==
  ASSUME TypeOK, NEW t \in Thread, Call(t) \/ Unlock(t) \/ UnlockNext(t)
  PROVE  TypeOK'
<1> USE DEF TypeOK, Goto, poolVars, PC, HoldingPC
<1>1. CASE Call(t) \/ Unlock(t)
  BY <1>1 DEF Call, Unlock
<1>2. CASE DecrementLoad(t)
  BY <1>2 DEF DecrementLoad, Load
<1>3. CASE DecrementStore(t)
  <2>1. nCur' \in Counts
    BY <1>3, WrapRange DEF DecrementStore
  <2>2. reg' \in [Thread -> Counts]
    BY <1>3 DEF DecrementStore, Counts
  <2> QED
    BY <1>3, <2>1, <2>2 DEF DecrementStore, Counts
<1>4. CASE CheckCount(t)
  BY <1>4 DEF CheckCount
<1>5. CASE ClampCount(t)
  BY <1>5 DEF ClampCount
<1>6. CASE Free(t)
  <2>1. 0 \in Connections
    BY DEF Connections
  <2> QED
    BY <1>6, <2>1 DEF Free
<1> QED
  BY <1>1, <1>2, <1>3, <1>4, <1>5, <1>6 DEF UnlockNext

LEMMA NextType == TypeOK /\ [Next]_vars => TypeOK'
<1> SUFFICES ASSUME TypeOK, [Next]_vars PROVE TypeOK'
  OBVIOUS
<1>1. CASE UNCHANGED vars
  BY <1>1 DEF vars, TypeOK
<1> QED
  BY <1>1, FindType, QueryType, UnlockType DEF Next, ThreadNext

\* Type correctness: the search never runs off the end of the pool.
THEOREM TypeCorrect == Spec => []TypeOK
  BY InitType, NextType, PTL DEF Spec

----------------------------------------------------------------------------
(* Exclusion.                                                              *)

LEMMA InitLocks == Init => LockInv
BY DEF Init, LockInv, ExclusiveConnection, LocksTell, Holding, HoldingPC, Finding

LEMMA FindLocks ==
  ASSUME TypeOK, LockInv, NEW t \in Thread, FindNext(t)
  PROVE  LockInv'
<1> USE DEF TypeOK, LockInv, ExclusiveConnection, LocksTell, Holding, HoldingPC,
            Finding, Goto, poolVars
<1>1. CASE LockMutex(t)
  BY <1>1 DEF LockMutex
<1>2. CASE ScanHit(t)
  BY <1>2 DEF ScanHit
<1>3. CASE ScanMiss(t)
  BY <1>3 DEF ScanMiss
<1>4. CASE IncrementLoad(t)
  BY <1>4 DEF IncrementLoad
<1>5. CASE IncrementStore(t)
  BY <1>5 DEF IncrementStore
<1>6. CASE SetLock(t)
  BY <1>6 DEF SetLock
<1>7. CASE UnlockMutex(t)
  BY <1>7 DEF UnlockMutex
<1> QED
  BY <1>1, <1>2, <1>3, <1>4, <1>5, <1>6, <1>7 DEF FindNext

LEMMA QueryLocks ==
  ASSUME TypeOK, LockInv, NEW t \in Thread,
         StartQuery(t) \/ QueryNext(t) \/ ReleaseResult(t)
  PROVE  LockInv'
<1> USE DEF TypeOK, LockInv, ExclusiveConnection, LocksTell, Holding, HoldingPC,
            Finding, Goto
<1>1. CASE StartQuery(t)
  BY <1>1 DEF StartQuery
<1>2. ASSUME NEW r \in {t, None}, ReturnTrue(t, r) PROVE LockInv'
  BY <1>2 DEF ReturnTrue
<1>3. ASSUME NEW b \in BOOLEAN, ReturnFalse(t, b) PROVE LockInv'
  BY <1>3 DEF ReturnFalse
<1>4. CASE ReleaseResult(t)
  BY <1>4 DEF ReleaseResult
<1> QED
  BY <1>1, <1>2, <1>3, <1>4 DEF QueryNext, QueryOk, QueryRefused, Reconnect, ReconnectFails

LEMMA UnlockLocks ==
  ASSUME TypeOK, LockInv, NEW t \in Thread, Call(t) \/ Unlock(t) \/ UnlockNext(t)
  PROVE  LockInv'
<1> USE DEF TypeOK, LockInv, ExclusiveConnection, LocksTell, Holding, HoldingPC,
            Finding, Goto, poolVars
<1>1. CASE Call(t)
  BY <1>1 DEF Call
<1>2. CASE Unlock(t)
  BY <1>2 DEF Unlock
<1>3. CASE DecrementLoad(t)
  BY <1>3 DEF DecrementLoad
<1>4. CASE DecrementStore(t)
  BY <1>4 DEF DecrementStore
<1>5. CASE CheckCount(t) \/ ClampCount(t)
  BY <1>5 DEF CheckCount, ClampCount
<1>6. CASE Free(t)
  BY <1>6 DEF Free
<1> QED
  BY <1>1, <1>2, <1>3, <1>4, <1>5, <1>6 DEF UnlockNext

LEMMA NextLocks == TypeOK /\ LockInv /\ [Next]_vars => LockInv'
<1> SUFFICES ASSUME TypeOK, LockInv, [Next]_vars PROVE LockInv'
  OBVIOUS
<1>1. CASE UNCHANGED vars
  BY <1>1 DEF vars, LockInv, ExclusiveConnection, LocksTell, Holding
<1> QED
  BY <1>1, FindLocks, QueryLocks, UnlockLocks DEF Next, ThreadNext

\* No two threads ever have the same database connection, although it is
\* given back without the mutex.
THEOREM ConnectionsExclusive == Spec => []LockInv
  BY InitLocks, NextLocks, TypeCorrect, PTL DEF Spec

----------------------------------------------------------------------------
(* Rows.                                                                   *)

\* Why OwnRows is kept: a command is sent on a connection without a result of
\* anybody else, and only a holder has made a query.
RowsInv ==
  \A t \in Thread :
    /\ queried[t] => pc[t] \in HoldingPC \ {"unlockmutex"}
    /\ pc[t] = "query" \/ (pc[t] = "holding" /\ queried[t])
         => res[idx[t]] \in {t, None}

LEMMA InitRows == Init => RowsInv
BY DEF Init, RowsInv

LEMMA NextRows == TypeOK /\ LockInv /\ RowsInv /\ [Next]_vars => RowsInv'
<1> SUFFICES ASSUME TypeOK, LockInv, RowsInv, [Next]_vars PROVE RowsInv'
  OBVIOUS
<1> USE DEF TypeOK, LockInv, ExclusiveConnection, RowsInv, Holding, HoldingPC, Goto, poolVars
<1>1. ASSUME NEW t \in Thread, Call(t) PROVE RowsInv'
  BY <1>1 DEF Call
<1>2. ASSUME NEW t \in Thread, FindNext(t) PROVE RowsInv'
  <2>1. CASE LockMutex(t) \/ ScanHit(t) \/ ScanMiss(t)
    BY <2>1 DEF LockMutex, ScanHit, ScanMiss
  <2>2. CASE IncrementLoad(t) \/ IncrementStore(t)
    BY <2>2 DEF IncrementLoad, IncrementStore
  <2>3. CASE SetLock(t) \/ UnlockMutex(t)
    BY <2>3 DEF SetLock, UnlockMutex
  <2> QED
    BY <1>2, <2>1, <2>2, <2>3 DEF FindNext
<1>3. ASSUME NEW t \in Thread, StartQuery(t) PROVE RowsInv'
  BY <1>3 DEF StartQuery
<1>4. ASSUME NEW t \in Thread, NEW r \in {t, None}, ReturnTrue(t, r) PROVE RowsInv'
  BY <1>4 DEF ReturnTrue
<1>5. ASSUME NEW t \in Thread, NEW b \in BOOLEAN, ReturnFalse(t, b) PROVE RowsInv'
  BY <1>5 DEF ReturnFalse
<1>6. ASSUME NEW t \in Thread, ReleaseResult(t) PROVE RowsInv'
  BY <1>6 DEF ReleaseResult
<1>7. ASSUME NEW t \in Thread, Unlock(t) \/ UnlockNext(t) PROVE RowsInv'
  BY <1>7 DEF Unlock, UnlockNext, DecrementLoad, DecrementStore, CheckCount,
              ClampCount, Free
<1>8. CASE UNCHANGED vars
  BY <1>8 DEF vars
<1> QED
  BY <1>1, <1>2, <1>3, <1>4, <1>5, <1>6, <1>7, <1>8
     DEF Next, ThreadNext, QueryNext, QueryOk, QueryRefused, Reconnect, ReconnectFails

\* After a query a thread finds its own rows on its connection, or none.
THEOREM RowsAreOwn == Spec => []OwnRows
<1>1. Spec => []RowsInv
  BY InitRows, NextRows, TypeCorrect, ConnectionsExclusive, PTL DEF Spec
<1>2. RowsInv => OwnRows
  BY DEF RowsInv, OwnRows
<1> QED
  BY <1>1, <1>2, PTL

\* Why no result is lost: a command is sent only on a connection whose last result
\* was freed, and nobody else touches the connection until it returns.
NoneAtQuery == \A t \in Thread : pc[t] = "query" => res[idx[t]] = None

LEMMA InitNoneAtQuery == Init => NoneAtQuery
BY DEF Init, NoneAtQuery

LEMMA NextNoneAtQuery == TypeOK /\ LockInv /\ NoneAtQuery /\ [Next]_vars => NoneAtQuery'
<1> SUFFICES ASSUME TypeOK, LockInv, NoneAtQuery, [Next]_vars PROVE NoneAtQuery'
  OBVIOUS
<1> USE DEF TypeOK, LockInv, ExclusiveConnection, NoneAtQuery, Holding, HoldingPC, Goto, poolVars
<1>1. ASSUME NEW t \in Thread, Call(t) PROVE NoneAtQuery'
  BY <1>1 DEF Call
<1>2. ASSUME NEW t \in Thread, FindNext(t) PROVE NoneAtQuery'
  <2>1. CASE LockMutex(t) \/ ScanHit(t) \/ ScanMiss(t)
    BY <2>1 DEF LockMutex, ScanHit, ScanMiss
  <2>2. CASE IncrementLoad(t) \/ IncrementStore(t)
    BY <2>2 DEF IncrementLoad, IncrementStore
  <2>3. CASE SetLock(t) \/ UnlockMutex(t)
    BY <2>3 DEF SetLock, UnlockMutex
  <2> QED
    BY <1>2, <2>1, <2>2, <2>3 DEF FindNext
<1>3. ASSUME NEW t \in Thread, StartQuery(t) PROVE NoneAtQuery'
  BY <1>3 DEF StartQuery
<1>4. ASSUME NEW t \in Thread, NEW r \in {t, None}, ReturnTrue(t, r) PROVE NoneAtQuery'
  BY <1>4 DEF ReturnTrue
<1>5. ASSUME NEW t \in Thread, NEW b \in BOOLEAN, ReturnFalse(t, b) PROVE NoneAtQuery'
  BY <1>5 DEF ReturnFalse
<1>6. ASSUME NEW t \in Thread, ReleaseResult(t) PROVE NoneAtQuery'
  BY <1>6 DEF ReleaseResult
<1>7. ASSUME NEW t \in Thread, Unlock(t) \/ UnlockNext(t) PROVE NoneAtQuery'
  BY <1>7 DEF Unlock, UnlockNext, DecrementLoad, DecrementStore, CheckCount,
              ClampCount, Free
<1>8. CASE UNCHANGED vars
  BY <1>8 DEF vars
<1>9. ASSUME NEW t \in Thread, ThreadNext(t) PROVE NoneAtQuery'
  <2> HIDE DEF NoneAtQuery
  <2>1. CASE QueryNext(t)
    BY <2>1, <1>4, <1>5 DEF QueryNext, QueryOk, QueryRefused, Reconnect, ReconnectFails
  <2> QED
    BY <1>9, <2>1, <1>1, <1>2, <1>3, <1>6, <1>7 DEF ThreadNext
<1> QED
  BY <1>8, <1>9 DEF Next

\* A result is there until it is freed, whoever queries, reconnects or unlocks
\* meanwhile: STSV_DBQuery never overwrites the pointer to one.
THEOREM ResultsAreFreed == Spec => NoResultLost
<1> DEFINE Keeps == \A i \in Connections : res[i] # None => res'[i] \in {res[i], None}
<1>1. ASSUME TypeOK, NoneAtQuery, [Next]_vars PROVE [Keeps]_vars
  <2> USE <1>1 DEF TypeOK, Goto, poolVars
  <2>1. CASE UNCHANGED vars
    BY <2>1
  <2>2. ASSUME NEW t \in Thread, ThreadNext(t) PROVE Keeps
    <3>1. CASE Call(t) \/ FindNext(t) \/ Unlock(t) \/ UnlockNext(t)
      BY <3>1 DEF Call, FindNext, LockMutex, ScanHit, ScanMiss, IncrementLoad, IncrementStore,
                  SetLock, UnlockMutex, Unlock, UnlockNext, DecrementLoad, DecrementStore,
                  CheckCount, ClampCount, Free
    <3>2. CASE StartQuery(t) \/ ReleaseResult(t)
      BY <3>2 DEF StartQuery, ReleaseResult
    <3>3. ASSUME NEW r \in {t, None}, ReturnTrue(t, r) PROVE Keeps
      BY <3>3 DEF ReturnTrue, NoneAtQuery
    <3>4. ASSUME NEW b \in BOOLEAN, ReturnFalse(t, b) PROVE Keeps
      BY <3>4 DEF ReturnFalse
    <3> QED
      BY <2>2, <3>1, <3>2, <3>3, <3>4
         DEF ThreadNext, QueryNext, QueryOk, QueryRefused, Reconnect, ReconnectFails
  <2> QED
    BY <2>1, <2>2 DEF Next
<1>2. Spec => []NoneAtQuery
  BY InitNoneAtQuery, NextNoneAtQuery, TypeCorrect, ConnectionsExclusive, PTL DEF Spec
<1> QED
  BY <1>1, <1>2, TypeCorrect, PTL DEF Spec, NoResultLost

----------------------------------------------------------------------------
(* DbPool implements ResourcePool.                                         *)

Has(t, i) == Holding(t) /\ idx[t] = i

\* With exclusive connections, the owner of a connection is its holder.
LEMMA OwnerIsHolder ==
  ASSUME ExclusiveConnection
  PROVE  /\ owner = [i \in Connections |-> owner[i]]
         /\ \A i \in Connections, t \in Thread : owner[i] = t <=> Has(t, i)
         /\ \A i \in Connections : owner[i] = None <=> \A t \in Thread : ~Has(t, i)
<1>1. owner = [i \in Connections |-> owner[i]]
  BY DEF owner
<1>2. ASSUME NEW i \in Connections, NEW t \in Thread, Has(t, i) PROVE owner[i] = t
  <2>1. \A u \in Thread : Has(u, i) => u = t
    BY <1>2 DEF Has, ExclusiveConnection
  <2> QED
    BY <1>2, <2>1 DEF owner, Has
<1>3. ASSUME NEW i \in Connections, \A t \in Thread : ~Has(t, i) PROVE owner[i] = None
  BY <1>3 DEF owner, Has
<1> QED
  BY <1>1, <1>2, <1>3

\* The same for the next state.
LEMMA NextOwnerIsHolder ==
  ASSUME ExclusiveConnection'
  PROVE  /\ owner' = [i \in Connections |-> owner'[i]]
         /\ \A i \in Connections, t \in Thread : owner'[i] = t <=> Has(t, i)'
         /\ \A i \in Connections : owner'[i] = None <=> \A t \in Thread : ~Has(t, i)'
<1>1. owner' = [i \in Connections |-> owner'[i]]
  BY DEF owner
<1>2. ASSUME NEW i \in Connections, NEW t \in Thread, Has(t, i)' PROVE owner'[i] = t
  <2>1. \A u \in Thread : Has(u, i)' => u = t
    BY <1>2 DEF Has, ExclusiveConnection
  <2> QED
    BY <1>2, <2>1 DEF owner, Has
<1>3. ASSUME NEW i \in Connections, \A t \in Thread : ~Has(t, i)' PROVE owner'[i] = None
  BY <1>3 DEF owner, Has
<1> QED
  BY <1>1, <1>2, <1>3

\* A connection whose holders do not change keeps its owner.
LEMMA OwnerKept ==
  ASSUME ExclusiveConnection, ExclusiveConnection', NEW i \in Connections,
         \A t \in Thread : Has(t, i)' <=> Has(t, i)
  PROVE  owner'[i] = owner[i]
<1>1. CASE \E t \in Thread : Has(t, i)
  BY <1>1, OwnerIsHolder, NextOwnerIsHolder
<1>2. CASE \A t \in Thread : ~Has(t, i)
  BY <1>2, OwnerIsHolder, NextOwnerIsHolder
<1> QED
  BY <1>1, <1>2

\* Setting the lock flag acquires the connection that was found.
LEMMA SetLockAcquires ==
  ASSUME TypeOK, LockInv, ExclusiveConnection', NEW t \in Thread, SetLock(t)
  PROVE  \E i \in Connections : Pool!Acquire(t, i)
<1> DEFINE i == idx[t]
<1>1. i \in Connections
  BY DEF TypeOK
<1>2. /\ Has(t, i)'
      /\ \A u \in Thread : ~Has(u, i)
      /\ \A j \in Connections : ~Has(t, j)
      /\ \A j \in Connections : j # i => ~Has(t, j)'
      /\ \A u \in Thread, j \in Connections : u # t => (Has(u, j)' <=> Has(u, j))
  BY DEF TypeOK, LockInv, LocksTell, SetLock, Goto, Has, Holding, HoldingPC
<1>3. owner[i] = None /\ \A j \in Connections : owner[j] # t
  BY <1>1, <1>2, OwnerIsHolder DEF LockInv
<1>4. owner'[i] = t
  <2>1. \A j \in Connections : Has(t, j)' => owner'[j] = t
    BY NextOwnerIsHolder
  <2> QED
    BY <1>1, <1>2, <2>1 DEF SetLock
<1>5. ASSUME NEW j \in Connections, j # i PROVE owner'[j] = owner[j]
  BY <1>2, <1>5, OwnerKept DEF LockInv
<1>6. owner' = [owner EXCEPT ![i] = t]
  BY <1>1, <1>4, <1>5, OwnerIsHolder, NextOwnerIsHolder DEF LockInv
<1> QED
  BY <1>1, <1>3, <1>6 DEF Pool!Acquire

\* Clearing the lock flag releases it.
LEMMA FreeReleases ==
  ASSUME TypeOK, LockInv, ExclusiveConnection', NEW t \in Thread, Free(t)
  PROVE  \E i \in Connections : Pool!Release(i)
<1> DEFINE i == idx[t]
<1>1. i \in Connections
  BY DEF TypeOK
<1>2. /\ Has(t, i)
      /\ \A u \in Thread : u # t => ~Has(u, i)
      /\ \A j \in Connections : ~Has(t, j)'
      /\ \A j \in Connections : j # i => ~Has(t, j)
      /\ \A u \in Thread, j \in Connections : u # t => (Has(u, j)' <=> Has(u, j))
  BY DEF TypeOK, LockInv, ExclusiveConnection, Free, Goto, Has, Holding, HoldingPC
<1>3. owner[i] # None
  BY <1>1, <1>2, OwnerIsHolder DEF LockInv
<1>4. owner'[i] = None
  <2>1. \A j \in Connections : (\A u \in Thread : ~Has(u, j)') => owner'[j] = None
    BY NextOwnerIsHolder
  <2> QED
    BY <1>1, <1>2, <2>1
<1>5. ASSUME NEW j \in Connections, j # i PROVE owner'[j] = owner[j]
  BY <1>2, <1>5, OwnerKept DEF LockInv
<1>6. owner' = [owner EXCEPT ![i] = None]
  BY <1>1, <1>4, <1>5, OwnerIsHolder, NextOwnerIsHolder DEF LockInv
<1> QED
  BY <1>1, <1>3, <1>6 DEF Pool!Release

\* A step that changes nobody's connection is a stutter.
LEMMA OwnerUnchanged ==
  ASSUME ExclusiveConnection, ExclusiveConnection',
         \A t \in Thread, i \in Connections : Has(t, i)' <=> Has(t, i)
  PROVE  owner' = owner
<1>1. \A i \in Connections : owner'[i] = owner[i]
  BY OwnerKept
<1> QED
  BY <1>1, OwnerIsHolder, NextOwnerIsHolder

LEMMA StepImplementsPool ==
  ASSUME TypeOK, LockInv, ExclusiveConnection', [Next]_vars
  PROVE  [Pool!Next]_owner
<1> DEFINE Same == \A t \in Thread, i \in Connections : Has(t, i)' <=> Has(t, i)
<1> USE DEF TypeOK, Has, Holding, HoldingPC, Goto
<1>1. ASSUME NEW t \in Thread, SetLock(t) PROVE [Pool!Next]_owner
  BY <1>1, SetLockAcquires DEF Pool!Next
<1>2. ASSUME NEW t \in Thread, Free(t) PROVE [Pool!Next]_owner
  BY <1>2, FreeReleases DEF Pool!Next
<1>3. ASSUME NEW t \in Thread, Call(t) \/ LockMutex(t) \/ ScanHit(t) \/ ScanMiss(t)
      PROVE  Same
  BY <1>3 DEF Call, LockMutex, ScanHit, ScanMiss
<1>4. ASSUME NEW t \in Thread, IncrementLoad(t) \/ IncrementStore(t) \/ UnlockMutex(t)
      PROVE  Same
  BY <1>4 DEF IncrementLoad, IncrementStore, UnlockMutex
<1>5. ASSUME NEW t \in Thread, StartQuery(t) \/ QueryNext(t) \/ ReleaseResult(t)
      PROVE  Same
  BY <1>5 DEF StartQuery, QueryNext, QueryOk, QueryRefused, Reconnect,
              ReconnectFails, ReturnTrue, ReturnFalse, ReleaseResult
<1>6. ASSUME NEW t \in Thread,
             \/ Unlock(t) \/ DecrementLoad(t) \/ DecrementStore(t)
             \/ CheckCount(t) \/ ClampCount(t)
      PROVE  Same
  BY <1>6 DEF Unlock, DecrementLoad, DecrementStore, CheckCount, ClampCount
<1>7. CASE UNCHANGED vars
  <2>1. Same
    BY <1>7 DEF vars
  <2> QED
    BY <2>1, OwnerUnchanged DEF LockInv
<1> QED
  BY <1>1, <1>2, <1>3, <1>4, <1>5, <1>6, <1>7, OwnerUnchanged
     DEF LockInv, Next, ThreadNext, FindNext, UnlockNext

LEMMA InitImplementsPool == Init => Pool!Init
BY DEF Init, Pool!Init, owner, Holding, HoldingPC

\* The pool of database connections is a ResourcePool.
THEOREM ConnectionsArePool == Spec => ImplementsPool
<1>1. TypeOK /\ LockInv /\ LockInv' /\ [Next]_vars => [Pool!Next]_owner
  BY StepImplementsPool DEF LockInv
<1> QED
  BY <1>1, TypeCorrect, ConnectionsExclusive, InitImplementsPool, PTL
     DEF Spec, ImplementsPool, Pool!Spec
=============================================================================
