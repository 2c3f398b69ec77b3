---------------------------- MODULE BigDataProofs ----------------------------
(***************************************************************************)
(* Proofs about BigData, for every number of slots and buffers.            *)
(***************************************************************************)
EXTENDS BigData, SequenceTheorems, TLAPS

----------------------------------------------------------------------------
(* The pool.                                                               *)

\* While no two threads have searched at once, the buffer the application reads
\* is its slot's and has its data.
DataInv ==
  ~raced => \A s \in Slot : got[s] =>
              pc[s] # "forget" /\ buffer[s] # None /\ data[buffer[s]] = s

PoolAll == PoolTypes /\ LockHasSetter /\ PoolInv /\ DataInv

\* At first no buffer is in use.
LEMMA InitPool == Init => PoolAll
<1> SUFFICES ASSUME Init PROVE PoolAll
  OBVIOUS
<1> USE DEF Init
<1>1. PoolTypes
  <2>1. 1 \in 1 .. PoolBlock + 1
    BY PoolAssumption
  <2>2. idx \in [Slot -> 1 .. PoolBlock + 1]
    BY <2>1
  <2>3. /\ use \in [Buffer -> BOOLEAN] /\ data \in [Buffer -> Slot \cup {None}]
        /\ buffer \in [Slot -> Buffer \cup {None}] /\ got \in [Slot -> BOOLEAN]
    OBVIOUS
  <2>4. \A s \in Slot : pc[s] = "idle"
    OBVIOUS
  <2> QED
    BY <2>2, <2>3, <2>4 DEF PoolTypes
<1>2. \A b \in Buffer, s \in Slot : ~Has(s, b)
  BY PoolAssumption DEF Has, Buffer
<1>3. PoolInv
  BY <1>2 DEF PoolInv, Searching
<1>4. LockHasSetter /\ DataInv
  BY DEF LockHasSetter, DataInv
<1> QED
  BY <1>1, <1>3, <1>4 DEF PoolAll

\* A thread that goes on outside the search changes nothing the invariant is about.
LEMMA PoolGoto ==
  ASSUME PoolAll, NEW s \in Slot, NEW label \in {"idle", "callback", "spin", "set"},
         pc[s] \in {"idle", "callback", "spin"}, Goto(s, label),
         UNCHANGED <<pool, idx, buffer, raced, lost>>,
         got' \in [Slot -> BOOLEAN], \A t \in Slot : got'[t] => got[t]
  PROVE  PoolAll'
<1> USE DEF pool, Goto
<1>0. PoolTypes /\ LockHasSetter /\ PoolInv /\ DataInv
  BY DEF PoolAll
<1>1. /\ \A t \in Slot : t # s => pc'[t] = pc[t]
      /\ pc'[s] = label
      /\ pc' \in [Slot -> {"idle", "callback", "spin", "set", "look", "take", "clear", "read",
                           "forget"}]
  BY <1>0 DEF PoolTypes
<1>2. PoolTypes'
  <2>1. \A t \in Slot : pc'[t] \in {"take", "clear", "read"} => idx[t] \in Buffer
    BY <1>0, <1>1 DEF PoolTypes
  <2> QED
    BY <1>0, <1>1, <2>1 DEF PoolTypes
<1>3. LockHasSetter'
  BY <1>0, <1>1 DEF LockHasSetter
<1>4. \A t \in Slot, b \in Buffer : Has(t, b)' <=> Has(t, b)
  BY <1>1 DEF Has
<1>5. \A t \in Slot : Searching(t)' <=> Searching(t)
  BY <1>1 DEF Searching
<1>6. PoolInv'
  <2>1. \A t \in Slot : pc'[t] = "take" => pc[t] = "take"
    BY <1>1
  <2> SUFFICES ASSUME ~raced PROVE PoolInv'
    BY DEF PoolInv
  <2>2. \A b \in Buffer : use[b] <=> (b \in lost \/ \E t \in Slot : Has(t, b)')
    BY <1>0, <1>4 DEF PoolInv
  <2>3. \A b \in Buffer, t, u \in Slot : Has(t, b)' /\ Has(u, b)' => t = u
    BY <1>0, <1>4 DEF PoolInv
  <2>4. \A b \in lost, t \in Slot : ~Has(t, b)'
    BY <1>0, <1>4 DEF PoolInv, PoolTypes
  <2>5. \A t, u \in Slot : Searching(t)' /\ Searching(u)' => t = u
    BY <1>0, <1>5 DEF PoolInv
  <2>6. \A t \in Slot : pc'[t] = "take" => ~use[idx[t]]
    BY <1>0, <2>1 DEF PoolInv
  <2> QED
    BY <2>2, <2>3, <2>4, <2>5, <2>6 DEF PoolInv
<1>7. DataInv'
  BY <1>0, <1>1 DEF DataInv
<1> QED
  BY <1>2, <1>3, <1>6, <1>7 DEF PoolAll

\* The steps outside the pool.
LEMMA OutsidePool ==
  ASSUME PoolAll, NEW s \in Slot,
         \/ \E k \in Kind : ReceiveFirst(s, k) \/ ReceiveFirstFails(s, k) \/ ReceiveNext(s, k)
         \/ ReceiveOther(s) \/ Reuse(s) \/ GetBigData(s) \/ LeaveLoop(s)
         \/ FreeFileData(s) \/ EndCallback(s)
  PROVE  PoolAll'
<1> USE DEF pool, calls, histories
<1>0. /\ pc \in [Slot -> {"idle", "callback", "spin", "set", "look", "take", "clear", "read",
                          "forget"}]
      /\ got \in [Slot -> BOOLEAN]
  BY DEF PoolAll, PoolTypes
<1>1. ASSUME NEW k \in Kind, ReceiveFirst(s, k) PROVE PoolAll'
  BY <1>0, <1>1, PoolGoto DEF ReceiveFirst, Goto
<1>2. ASSUME NEW k \in Kind, ReceiveNext(s, k) PROVE PoolAll'
  BY <1>0, <1>2, PoolGoto DEF ReceiveNext, Goto
<1>3. ASSUME NEW k \in Kind, ReceiveFirstFails(s, k) PROVE PoolAll'
  <2>1. Goto(s, "idle") /\ pc[s] = "idle"
    BY <1>0, <1>3 DEF ReceiveFirstFails, Goto
  <2> QED
    BY <1>0, <1>3, <2>1, PoolGoto DEF ReceiveFirstFails
<1>4. CASE ReceiveOther(s)
  BY <1>0, <1>4, PoolGoto DEF ReceiveOther, Goto
<1>5. CASE Reuse(s)
  <2>1. Goto(s, "idle") /\ pc[s] = "idle"
    BY <1>0, <1>5 DEF Reuse, Goto
  <2>2. got' \in [Slot -> BOOLEAN] /\ \A t \in Slot : got'[t] => got[t]
    BY <1>0, <1>5 DEF Reuse
  <2> QED
    BY <1>5, <2>1, <2>2, PoolGoto DEF Reuse
<1>6. CASE GetBigData(s)
  BY <1>0, <1>6, PoolGoto DEF GetBigData
<1>7. CASE LeaveLoop(s)
  BY <1>0, <1>7, PoolGoto DEF LeaveLoop
<1>8. CASE FreeFileData(s)
  <2>1. Goto(s, "callback") /\ pc[s] = "callback"
    BY <1>0, <1>8 DEF FreeFileData, Goto
  <2> QED
    BY <1>0, <1>8, <2>1, PoolGoto DEF FreeFileData
<1>9. CASE EndCallback(s)
  BY <1>0, <1>9, PoolGoto DEF EndCallback
<1> QED
  BY <1>1, <1>2, <1>3, <1>4, <1>5, <1>6, <1>7, <1>8, <1>9

\* What a step of thread s leaves alone: the other threads.
LEMMA OthersStay ==
  ASSUME PoolTypes, NEW s \in Slot, NEW label, Goto(s, label)
  PROVE  pc'[s] = label /\ \A t \in Slot : t # s => pc'[t] = pc[t]
BY DEF PoolTypes, Goto

\* A thread that begins to search alone, or is not alone.
LEMMA SetLockPool ==
  ASSUME PoolAll, NEW s \in Slot, SetLock(s)
  PROVE  PoolAll'
<1> USE DEF pool
<1>0. PoolTypes /\ LockHasSetter /\ PoolInv /\ DataInv /\ pc[s] = "set"
  BY DEF PoolAll, SetLock
<1>1. pc'[s] = "look" /\ \A t \in Slot : t # s => pc'[t] = pc[t]
  BY <1>0, OthersStay DEF SetLock
<1>2. /\ idx' \in [Slot -> 1 .. PoolBlock + 1]
      /\ \A t \in Slot : t # s => idx'[t] = idx[t]
  BY <1>0, PoolAssumption DEF SetLock, PoolTypes
<1>3. /\ UNCHANGED <<use, data, buffer, got, lost>> /\ lock' = TRUE
      /\ raced' = (raced \/ \E t \in Slot : Searching(t))
      /\ pc' \in [Slot -> {"idle", "callback", "spin", "set", "look", "take", "clear", "read",
                           "forget"}]
  BY <1>0 DEF SetLock, Goto, PoolTypes
<1>4. PoolTypes'
  <2>1. \A t \in Slot : pc'[t] \in {"take", "clear", "read"} => idx'[t] \in Buffer
    BY <1>0, <1>1, <1>2 DEF PoolTypes
  <2>2. raced' \in BOOLEAN
    BY <1>3
  <2> QED
    BY <1>0, <1>2, <1>3, <2>1, <2>2 DEF PoolTypes
<1>5. LockHasSetter'
  BY <1>1 DEF LockHasSetter
<1>6. \A t \in Slot, b \in Buffer : Has(t, b)' <=> Has(t, b)
  BY <1>0, <1>1, <1>2, <1>3 DEF Has
<1>7. PoolInv'
  <2> SUFFICES ASSUME ~raced' PROVE PoolInv'
    BY DEF PoolInv
  <2>1. ~raced /\ \A t \in Slot : ~Searching(t)
    BY <1>3
  <2>2. \A t \in Slot : t # s => ~Searching(t)'
    BY <1>1, <2>1 DEF Searching
  <2>3. \A t \in Slot : pc'[t] # "take"
    BY <1>1, <2>1 DEF Searching
  <2>4. \A b \in Buffer : use[b] <=> (b \in lost \/ \E t \in Slot : Has(t, b)')
    BY <1>0, <1>6, <2>1 DEF PoolInv
  <2>5. \A b \in Buffer, t, u \in Slot : Has(t, b)' /\ Has(u, b)' => t = u
    BY <1>0, <1>6, <2>1 DEF PoolInv
  <2>6. \A b \in lost, t \in Slot : ~Has(t, b)'
    BY <1>0, <1>6, <2>1 DEF PoolInv, PoolTypes
  <2>7. \A t, u \in Slot : Searching(t)' /\ Searching(u)' => t = u
    BY <2>2
  <2> QED
    BY <1>3, <2>3, <2>4, <2>5, <2>6, <2>7 DEF PoolInv
<1>8. DataInv'
  BY <1>0, <1>1, <1>3 DEF DataInv
<1> QED
  BY <1>4, <1>5, <1>7, <1>8 DEF PoolAll

\* The thread looks at one buffer after the other.
LEMMA LookPool ==
  ASSUME PoolAll, NEW s \in Slot, Look(s)
  PROVE  PoolAll'
<1> USE DEF pool
<1>0. PoolTypes /\ LockHasSetter /\ PoolInv /\ DataInv /\ pc[s] = "look" /\ idx[s] \in Buffer
  BY DEF PoolAll, Look, PoolTypes, Buffer
<1>1. /\ pc'[s] \in {"look", "take"} /\ pc' \in [Slot -> {"idle", "callback", "spin", "set",
                                            "look", "take", "clear", "read", "forget"}]
      /\ \A t \in Slot : t # s => pc'[t] = pc[t] /\ idx'[t] = idx[t]
      /\ pc'[s] = "take" => ~use[idx[s]] /\ idx' = idx
  BY <1>0 DEF Look, Goto, PoolTypes
<1>2. idx' \in [Slot -> 1 .. PoolBlock + 1]
  <2>1. idx[s] + 1 \in 1 .. PoolBlock + 1
    BY <1>0, PoolAssumption DEF Buffer
  <2> QED
    BY <1>0, <2>1 DEF Look, PoolTypes
<1>3. UNCHANGED <<lock, use, data, buffer, got, raced, lost>>
  BY DEF Look, histories
<1>4. PoolTypes'
  <2>1. \A t \in Slot : pc'[t] \in {"take", "clear", "read"} => idx'[t] \in Buffer
    BY <1>0, <1>1 DEF PoolTypes
  <2> QED
    BY <1>0, <1>1, <1>2, <1>3, <2>1 DEF PoolTypes
<1>5. LockHasSetter'
  BY <1>0, <1>1, <1>3 DEF LockHasSetter
<1>6. \A t \in Slot, b \in Buffer : Has(t, b)' <=> Has(t, b)
  BY <1>0, <1>1, <1>3 DEF Has
<1>7. \A t \in Slot : Searching(t)' <=> Searching(t)
  BY <1>0, <1>1 DEF Searching
<1>8. PoolInv'
  <2> SUFFICES ASSUME ~raced PROVE PoolInv'
    BY <1>3 DEF PoolInv
  <2>2. \A b \in Buffer : use[b] <=> (b \in lost \/ \E t \in Slot : Has(t, b)')
    BY <1>0, <1>6 DEF PoolInv
  <2>3. \A b \in Buffer, t, u \in Slot : Has(t, b)' /\ Has(u, b)' => t = u
    BY <1>0, <1>6 DEF PoolInv
  <2>4. \A b \in lost, t \in Slot : ~Has(t, b)'
    BY <1>0, <1>6 DEF PoolInv, PoolTypes
  <2>5. \A t, u \in Slot : Searching(t)' /\ Searching(u)' => t = u
    BY <1>0, <1>7 DEF PoolInv
  <2>6. \A t \in Slot : pc'[t] = "take" => ~use[idx'[t]]
    BY <1>0, <1>1 DEF PoolInv
  <2> QED
    BY <1>3, <2>2, <2>3, <2>4, <2>5, <2>6 DEF PoolInv
<1>9. DataInv'
  BY <1>0, <1>1, <1>3 DEF DataInv
<1> QED
  BY <1>4, <1>5, <1>8, <1>9 DEF PoolAll

\* The search ends: no buffer, or the flag is cleared after one was taken.
LEMMA LeavePool ==
  ASSUME PoolAll, NEW s \in Slot, NoneFree(s) \/ ClearLock(s)
  PROVE  PoolAll'
<1> USE DEF pool
<1>0. PoolTypes /\ PoolInv /\ DataInv
  BY DEF PoolAll
<1>1. /\ \A t \in Slot : t # s => pc'[t] = pc[t]
      /\ \/ pc[s] = "look" /\ pc'[s] = "callback"
         \/ pc[s] = "clear" /\ pc'[s] = "read"
      /\ pc' \in [Slot -> {"idle", "callback", "spin", "set", "look", "take", "clear", "read",
                           "forget"}]
  <2>0. pc \in [Slot -> {"idle", "callback", "spin", "set", "look", "take", "clear", "read",
                         "forget"}]
    BY <1>0 DEF PoolTypes
  <2>1. CASE NoneFree(s)
    <3>1. pc[s] = "look" /\ pc' = [pc EXCEPT ![s] = "callback"]
      BY <2>1 DEF NoneFree, Goto
    <3> QED
      BY <2>0, <3>1
  <2>2. CASE ClearLock(s)
    <3>1. pc[s] = "clear" /\ pc' = [pc EXCEPT ![s] = "read"]
      BY <2>2 DEF ClearLock, Goto
    <3> QED
      BY <2>0, <3>1
  <2> QED
    BY <2>1, <2>2
<1>2. UNCHANGED <<use, data, idx, buffer, got, raced, lost>> /\ lock' = FALSE
  BY DEF NoneFree, ClearLock, histories
<1>3. PoolTypes'
  <2>1. \A t \in Slot : pc'[t] \in {"take", "clear", "read"} => idx[t] \in Buffer
    BY <1>0, <1>1 DEF PoolTypes
  <2> QED
    BY <1>0, <1>1, <1>2, <2>1 DEF PoolTypes
<1>4. LockHasSetter'
  BY <1>2 DEF LockHasSetter
<1>5. \A t \in Slot, b \in Buffer : Has(t, b)' <=> Has(t, b)
  BY <1>1, <1>2 DEF Has
<1>6. \A t \in Slot : Searching(t)' => Searching(t)
  BY <1>1 DEF Searching
<1>7. PoolInv'
  <2> SUFFICES ASSUME ~raced PROVE PoolInv'
    BY <1>2 DEF PoolInv
  <2>2. \A b \in Buffer : use[b] <=> (b \in lost \/ \E t \in Slot : Has(t, b)')
    BY <1>0, <1>5 DEF PoolInv
  <2>3. \A b \in Buffer, t, u \in Slot : Has(t, b)' /\ Has(u, b)' => t = u
    BY <1>0, <1>5 DEF PoolInv
  <2>4. \A b \in lost, t \in Slot : ~Has(t, b)'
    BY <1>0, <1>5 DEF PoolInv, PoolTypes
  <2>5. \A t, u \in Slot : Searching(t)' /\ Searching(u)' => t = u
    BY <1>0, <1>6 DEF PoolInv
  <2>6. \A t \in Slot : pc'[t] = "take" => ~use[idx[t]]
    BY <1>0, <1>1 DEF PoolInv
  <2> QED
    BY <1>2, <2>2, <2>3, <2>4, <2>5, <2>6 DEF PoolInv
<1>8. DataInv'
  BY <1>0, <1>1, <1>2 DEF DataInv
<1> QED
  BY <1>3, <1>4, <1>7, <1>8 DEF PoolAll

\* A thread that searches alone takes a buffer nobody has.
LEMMA TakePool ==
  ASSUME PoolAll, NEW s \in Slot, Take(s)
  PROVE  PoolAll'
<1> USE DEF pool
<1>0. PoolTypes /\ LockHasSetter /\ PoolInv /\ DataInv /\ pc[s] = "take" /\ idx[s] \in Buffer
  BY DEF PoolAll, Take, PoolTypes
<1>1. /\ pc'[s] = "clear" /\ \A t \in Slot : t # s => pc'[t] = pc[t]
      /\ pc' \in [Slot -> {"idle", "callback", "spin", "set", "look", "take", "clear", "read",
                           "forget"}]
  BY <1>0 DEF Take, Goto, PoolTypes
<1>2. /\ UNCHANGED <<lock, data, idx, buffer, got, raced, lost>>
      /\ use' \in [Buffer -> BOOLEAN] /\ use'[idx[s]]
      /\ \A b \in Buffer : b # idx[s] => use'[b] = use[b]
  BY <1>0 DEF Take, histories, PoolTypes
<1>3. PoolTypes'
  <2>1. \A t \in Slot : pc'[t] \in {"take", "clear", "read"} => idx[t] \in Buffer
    BY <1>0, <1>1 DEF PoolTypes
  <2> QED
    BY <1>0, <1>1, <1>2, <2>1 DEF PoolTypes
<1>4. LockHasSetter'
  BY <1>1 DEF LockHasSetter
<1>5. \A t \in Slot, b \in Buffer : Has(t, b)' <=> Has(t, b) \/ (t = s /\ b = idx[s])
  BY <1>0, <1>1, <1>2 DEF Has
<1>6. \A t \in Slot : Searching(t)' <=> Searching(t) /\ t # s
  BY <1>0, <1>1 DEF Searching
<1>7. PoolInv'
  <2> SUFFICES ASSUME ~raced PROVE PoolInv'
    BY <1>2 DEF PoolInv
  <2>1. ~use[idx[s]] /\ idx[s] \notin lost /\ \A t \in Slot : ~Has(t, idx[s])
    BY <1>0 DEF PoolInv
  <2>2. \A b \in Buffer : use'[b] <=> (b \in lost \/ \E t \in Slot : Has(t, b)')
    BY <1>0, <1>2, <1>5 DEF PoolInv
  <2>3. \A b \in Buffer, t, u \in Slot : Has(t, b)' /\ Has(u, b)' => t = u
    BY <1>0, <1>5, <2>1 DEF PoolInv
  <2>4. \A b \in lost, t \in Slot : ~Has(t, b)'
    BY <1>0, <1>5, <2>1 DEF PoolInv, PoolTypes
  <2>5. \A t \in Slot : ~Searching(t)'
    BY <1>0, <1>6 DEF PoolInv, Searching
  <2>6. \A t \in Slot : pc'[t] # "take"
    BY <2>5 DEF Searching
  <2> QED
    BY <1>2, <2>2, <2>3, <2>4, <2>5, <2>6 DEF PoolInv
<1>8. DataInv'
  BY <1>0, <1>1, <1>2 DEF DataInv
<1> QED
  BY <1>3, <1>4, <1>7, <1>8 DEF PoolAll

\* The buffer that was taken replaces the one the slot had.
LEMMA ReadPool ==
  ASSUME PoolAll, NEW s \in Slot, ReadTemp(s)
  PROVE  PoolAll'
<1> USE DEF pool
<1>0. PoolTypes /\ LockHasSetter /\ PoolInv /\ DataInv /\ pc[s] = "read" /\ idx[s] \in Buffer
  BY DEF PoolAll, ReadTemp, PoolTypes
<1>1. /\ pc'[s] = "callback" /\ \A t \in Slot : t # s => pc'[t] = pc[t]
      /\ pc' \in [Slot -> {"idle", "callback", "spin", "set", "look", "take", "clear", "read",
                           "forget"}]
  BY <1>0 DEF ReadTemp, Goto, PoolTypes
<1>2. /\ UNCHANGED <<lock, use, idx, raced>>
      /\ lost' = lost \cup ({buffer[s]} \ {None, idx[s]})
      /\ buffer'[s] = idx[s] /\ \A t \in Slot : t # s => buffer'[t] = buffer[t]
      /\ buffer' \in [Slot -> Buffer \cup {None}]
  BY <1>0 DEF ReadTemp, PoolTypes
<1>3. PICK ok \in BOOLEAN : /\ got' = [got EXCEPT ![s] = ok]
                            /\ data' = IF ok THEN [data EXCEPT ![idx[s]] = s] ELSE data
  BY DEF ReadTemp
<1>4. /\ got' \in [Slot -> BOOLEAN] /\ got'[s] = ok /\ \A t \in Slot : t # s => got'[t] = got[t]
      /\ data' \in [Buffer -> Slot \cup {None}] /\ (ok => data'[idx[s]] = s)
      /\ \A b \in Buffer : b # idx[s] => data'[b] = data[b]
  BY <1>0, <1>3 DEF PoolTypes
<1>5. PoolTypes'
  <2>1. \A t \in Slot : pc'[t] \in {"take", "clear", "read"} => idx[t] \in Buffer
    BY <1>0, <1>1 DEF PoolTypes
  <2>2. lost' \subseteq Buffer
    BY <1>0, <1>2 DEF PoolTypes
  <2> QED
    BY <1>0, <1>1, <1>2, <1>4, <2>1, <2>2 DEF PoolTypes
<1>6. LockHasSetter'
  BY <1>0, <1>1, <1>2 DEF LockHasSetter
<1>7. /\ \A t \in Slot, b \in Buffer : t # s => (Has(t, b)' <=> Has(t, b))
      /\ \A b \in Buffer : Has(s, b) <=> b = buffer[s] \/ b = idx[s]
      /\ \A b \in Buffer : Has(s, b)' <=> b = idx[s]
  BY <1>0, <1>1, <1>2 DEF Has
<1>8. \A t \in Slot : Searching(t)' <=> Searching(t)
  BY <1>0, <1>1 DEF Searching
<1>9. \A b \in Buffer : b # None
  BY PoolAssumption DEF Buffer
<1>10. PoolInv'
  <2> SUFFICES ASSUME ~raced PROVE PoolInv'
    BY <1>2 DEF PoolInv
  <2>1. \A b \in Buffer : b \in lost' <=> b \in lost \/ (b = buffer[s] /\ b # idx[s])
    BY <1>2, <1>9
  <2>2. \A b \in Buffer : use[b] <=> (b \in lost' \/ \E t \in Slot : Has(t, b)')
    <3>1. \A b \in Buffer : use[b] <=> b \in lost \/ \E t \in Slot : Has(t, b)
      BY <1>0 DEF PoolInv
    <3> QED
      BY <3>1, <2>1, <1>7
  <2>3. \A b \in Buffer, t, u \in Slot : Has(t, b)' /\ Has(u, b)' => t = u
    BY <1>0, <1>7 DEF PoolInv
  <2>4. \A b \in lost', t \in Slot : ~Has(t, b)'
    <3>1. \A b \in Buffer, t, u \in Slot : Has(t, b) /\ Has(u, b) => t = u
      BY <1>0 DEF PoolInv
    <3>2. \A b \in lost, t \in Slot : b \in Buffer /\ ~Has(t, b)
      BY <1>0 DEF PoolInv, PoolTypes
    <3>3. lost' \subseteq Buffer
      BY <1>5 DEF PoolTypes
    <3> QED
      BY <3>1, <3>2, <3>3, <2>1, <1>7
  <2>5. \A t, u \in Slot : Searching(t)' /\ Searching(u)' => t = u
    BY <1>0, <1>8 DEF PoolInv
  <2>6. \A t \in Slot : pc'[t] = "take" => ~use[idx[t]]
    BY <1>0, <1>1 DEF PoolInv
  <2> QED
    BY <1>2, <2>2, <2>3, <2>4, <2>5, <2>6 DEF PoolInv
<1>11. DataInv'
  <2> SUFFICES ASSUME ~raced, NEW t \in Slot, got'[t]
               PROVE  pc'[t] # "forget" /\ buffer'[t] # None /\ data'[buffer'[t]] = t
    BY <1>2 DEF DataInv
  <2>1. CASE t = s
    BY <2>1, <1>0, <1>1, <1>2, <1>4, <1>9
  <2>2. CASE t # s
    <3>1. pc[t] # "forget" /\ buffer[t] \in Buffer /\ data[buffer[t]] = t
      BY <2>2, <1>0, <1>4 DEF DataInv, PoolTypes
    <3>2. Has(t, buffer[t]) /\ Has(s, idx[s])
      BY <3>1, <1>0 DEF Has
    <3>3. buffer[t] # idx[s]
      BY <3>1, <3>2, <2>2, <1>0 DEF PoolInv
    <3> QED
      BY <3>1, <3>3, <2>2, <1>1, <1>2, <1>4, <1>9
  <2> QED
    BY <2>1, <2>2
<1> QED
  BY <1>5, <1>6, <1>10, <1>11 DEF PoolAll

\* The slot's buffer is given back before the slot forgets it.
LEMMA FreePool ==
  ASSUME PoolAll, NEW s \in Slot, FreeBigData(s)
  PROVE  PoolAll'
<1> USE DEF pool
<1>0. PoolTypes /\ LockHasSetter /\ PoolInv /\ DataInv /\ pc[s] = "callback"
  BY DEF PoolAll, FreeBigData
<1>1. /\ pc'[s] = "forget" /\ \A t \in Slot : t # s => pc'[t] = pc[t]
      /\ pc' \in [Slot -> {"idle", "callback", "spin", "set", "look", "take", "clear", "read",
                           "forget"}]
  BY <1>0 DEF FreeBigData, Goto, PoolTypes
<1>2. /\ UNCHANGED <<lock, data, idx, buffer, raced, lost>>
      /\ use' \in [Buffer -> BOOLEAN]
      /\ \A b \in Buffer : use'[b] <=> use[b] /\ b # buffer[s]
      /\ got' \in [Slot -> BOOLEAN] /\ ~got'[s] /\ \A t \in Slot : t # s => got'[t] = got[t]
  <2>1. buffer[s] \in Buffer \cup {None} /\ \A b \in Buffer : b # None
    BY <1>0, PoolAssumption DEF PoolTypes, Buffer
  <2> QED
    BY <1>0, <2>1 DEF FreeBigData, PoolTypes
<1>3. PoolTypes'
  <2>1. \A t \in Slot : pc'[t] \in {"take", "clear", "read"} => idx[t] \in Buffer
    BY <1>0, <1>1 DEF PoolTypes
  <2> QED
    BY <1>0, <1>1, <1>2, <2>1 DEF PoolTypes
<1>4. LockHasSetter'
  BY <1>0, <1>1, <1>2 DEF LockHasSetter
<1>5. /\ \A t \in Slot, b \in Buffer : Has(t, b)' <=> Has(t, b) /\ t # s
      /\ \A b \in Buffer : Has(s, b) <=> b = buffer[s]
  BY <1>0, <1>1, <1>2 DEF Has
<1>6. \A t \in Slot : Searching(t)' <=> Searching(t)
  BY <1>0, <1>1 DEF Searching
<1>7. PoolInv'
  <2> SUFFICES ASSUME ~raced PROVE PoolInv'
    BY <1>2 DEF PoolInv
  <2>1. /\ \A b \in Buffer : use[b] <=> b \in lost \/ \E t \in Slot : Has(t, b)
        /\ \A b \in Buffer, t, u \in Slot : Has(t, b) /\ Has(u, b) => t = u
        /\ \A b \in lost, t \in Slot : b \in Buffer /\ ~Has(t, b)
        /\ \A t, u \in Slot : Searching(t) /\ Searching(u) => t = u
        /\ \A t \in Slot : pc[t] = "take" => ~use[idx[t]] /\ idx[t] \in Buffer
    BY <1>0 DEF PoolInv, PoolTypes
  <2>2. \A b \in Buffer : use'[b] <=> (b \in lost \/ \E t \in Slot : Has(t, b)')
    BY <2>1, <1>2, <1>5
  <2>3. \A b \in Buffer, t, u \in Slot : Has(t, b)' /\ Has(u, b)' => t = u
    BY <2>1, <1>5
  <2>4. \A b \in lost, t \in Slot : ~Has(t, b)'
    BY <2>1, <1>5
  <2>5. \A t, u \in Slot : Searching(t)' /\ Searching(u)' => t = u
    BY <2>1, <1>6
  <2>6. \A t \in Slot : pc'[t] = "take" => ~use'[idx[t]]
    BY <2>1, <1>1, <1>2
  <2> QED
    BY <1>2, <2>2, <2>3, <2>4, <2>5, <2>6 DEF PoolInv
<1>8. DataInv'
  BY <1>0, <1>1, <1>2 DEF DataInv
<1> QED
  BY <1>3, <1>4, <1>7, <1>8 DEF PoolAll

\* The slot forgets its buffer.
LEMMA ForgetPool ==
  ASSUME PoolAll, NEW s \in Slot, Forget(s)
  PROVE  PoolAll'
<1> USE DEF pool
<1>0. PoolTypes /\ LockHasSetter /\ PoolInv /\ DataInv /\ pc[s] = "forget"
  BY DEF PoolAll, Forget
<1>1. /\ pc'[s] = "callback" /\ \A t \in Slot : t # s => pc'[t] = pc[t]
      /\ pc' \in [Slot -> {"idle", "callback", "spin", "set", "look", "take", "clear", "read",
                           "forget"}]
  BY <1>0 DEF Forget, Goto, PoolTypes
<1>2. /\ UNCHANGED <<lock, use, data, idx, got, raced, lost>>
      /\ buffer' \in [Slot -> Buffer \cup {None}]
      /\ buffer'[s] = None /\ \A t \in Slot : t # s => buffer'[t] = buffer[t]
  BY <1>0 DEF Forget, histories, PoolTypes
<1>3. PoolTypes'
  <2>1. \A t \in Slot : pc'[t] \in {"take", "clear", "read"} => idx[t] \in Buffer
    BY <1>0, <1>1 DEF PoolTypes
  <2> QED
    BY <1>0, <1>1, <1>2, <2>1 DEF PoolTypes
<1>4. LockHasSetter'
  BY <1>0, <1>1, <1>2 DEF LockHasSetter
<1>5. \A t \in Slot, b \in Buffer : Has(t, b)' <=> Has(t, b)
  <2>1. \A b \in Buffer : b # None
    BY PoolAssumption DEF Buffer
  <2> QED
    BY <1>0, <1>1, <1>2, <2>1 DEF Has
<1>6. \A t \in Slot : Searching(t)' <=> Searching(t)
  BY <1>0, <1>1 DEF Searching
<1>7. PoolInv'
  <2> SUFFICES ASSUME ~raced PROVE PoolInv'
    BY <1>2 DEF PoolInv
  <2>2. \A b \in Buffer : use[b] <=> (b \in lost \/ \E t \in Slot : Has(t, b)')
    BY <1>0, <1>5 DEF PoolInv
  <2>3. \A b \in Buffer, t, u \in Slot : Has(t, b)' /\ Has(u, b)' => t = u
    BY <1>0, <1>5 DEF PoolInv
  <2>4. \A b \in lost, t \in Slot : ~Has(t, b)'
    BY <1>0, <1>5 DEF PoolInv, PoolTypes
  <2>5. \A t, u \in Slot : Searching(t)' /\ Searching(u)' => t = u
    BY <1>0, <1>6 DEF PoolInv
  <2>6. \A t \in Slot : pc'[t] = "take" => ~use[idx[t]]
    BY <1>0, <1>1 DEF PoolInv
  <2> QED
    BY <1>2, <2>2, <2>3, <2>4, <2>5, <2>6 DEF PoolInv
<1>8. DataInv'
  BY <1>0, <1>1, <1>2 DEF DataInv
<1> QED
  BY <1>3, <1>4, <1>7, <1>8 DEF PoolAll

\* Every step keeps the invariant.
LEMMA StepPool == PoolAll /\ [Next]_vars => PoolAll'
<1> SUFFICES ASSUME PoolAll, [Next]_vars PROVE PoolAll'
  OBVIOUS
<1>1. ASSUME NEW s \in Slot, SlotNext(s) PROVE PoolAll'
  BY <1>1, OutsidePool, SetLockPool, LookPool, LeavePool, TakePool, ReadPool, FreePool,
     ForgetPool DEF SlotNext, LibraryNext
<1>2. CASE UNCHANGED vars
  BY <1>2 DEF vars, pool, calls, histories, PoolAll, PoolTypes, LockHasSetter, PoolInv, DataInv,
              Has, Searching
<1> QED
  BY <1>1, <1>2 DEF Next

\* While no two threads have searched the pool at once, a buffer in use has one
\* slot or was forgotten by one, for any number of slots and buffers.
THEOREM PoolCorrect == Spec => []PoolInv
<1>1. PoolAll => PoolInv
  BY DEF PoolAll
<1> QED
  BY <1>1, InitPool, StepPool, PTL DEF Spec

\* The application then reads its own client's data.
THEOREM DataIsOwn == Spec => []OwnData
<1>1. PoolAll => OwnData
  BY DEF PoolAll, DataInv, OwnData
<1> QED
  BY <1>1, InitPool, StepPool, PTL DEF Spec

\* s_bBigDataLock is never left set, whatever races there are.
THEOREM LockIsCleared == Spec => []LockHasSetter
<1>1. PoolAll => LockHasSetter
  BY DEF PoolAll
<1> QED
  BY <1>1, InitPool, StepPool, PTL DEF Spec

----------------------------------------------------------------------------
(* The uploads.                                                            *)

\* The first n parts of an upload.
Parts(u, n) == [i \in 1 .. n |-> <<u.id, i>>]

\* Why WholeWhenReady is kept: the temporary file has the parts of the upload that
\* have come, unless one could not be written; only the last part makes data ready,
\* or one of an upload whose first part was not written, and whatever takes the upload
\* away makes big data unready.
UploadInv(s, k) ==
  LET u == up[s][k]
  IN  /\ u.id = 0 => ~InParts(u)
      /\ u.id > 0 => u.parts > 0 /\ u.next \in 2 .. u.parts + 1
      /\ u.id > 0 /\ ~broken[s][k] => temp[s][k] = Parts(u, u.next - 1)
      /\ ready[s][k] => broken[s][k] \/ ~InParts(u)
SizeInv(s) ==
  /\ ready[s]["big"] => up[s]["big"].id > 0
  /\ up[s]["big"].id > 0 /\ ~mixed[s] => readSize[s] = up[s]["big"].parts

FileAll == /\ FileTypes
           /\ \A s \in Slot, k \in Kind : UploadInv(s, k)
           /\ \A s \in Slot : SizeInv(s)

\* One field of one slot is changed, all others are left alone.
LEMMA ChangeOne ==
  ASSUME NEW S, NEW f \in [Slot -> [Kind -> S]], NEW s \in Slot, NEW k \in Kind, NEW v \in S
  PROVE  /\ [f EXCEPT ![s][k] = v] \in [Slot -> [Kind -> S]]
         /\ [f EXCEPT ![s][k] = v][s][k] = v
         /\ \A t \in Slot, l \in Kind : t # s \/ l # k => [f EXCEPT ![s][k] = v][t][l] = f[t][l]
OBVIOUS

\* Only the last part makes data ready.
LEMMA LastIsReady ==
  ASSUME NEW u \in Uploads, InParts(u), NEW flags \in Flags(u), NEW k \in Kind, Ready(k, flags)
  PROVE  u.next = u.parts
<1>1. "END" \in flags
  BY DEF Ready
<1>2. u.next \in Nat /\ u.parts \in Nat /\ u.next <= u.parts
  BY BoundAssumption DEF Uploads, InParts
<1>3. CASE u.next < u.parts
  <2>1. flags \in {{"HEADER"}, {"CONTINUE"}}
    BY <1>3 DEF Flags
  <2> QED
    BY <2>1, <1>1
<1> QED
  BY <1>2, <1>3

\* The parts of an upload are a sequence; one more part is appended to it.
LEMMA PartsAppend ==
  ASSUME NEW u \in Uploads, NEW n \in 0 .. MaxPart, u.id > 0
  PROVE  /\ Parts(u, n) \in Seq((1 .. MaxUpload) \X (1 .. MaxPart))
         /\ n < MaxPart => Append(Parts(u, n), <<u.id, n + 1>>) = Parts(u, n + 1)
<1> DEFINE P == (1 .. MaxUpload) \X (1 .. MaxPart)
<1>1. /\ \A i \in 1 .. MaxPart : <<u.id, i>> \in P
      /\ MaxPart \in Nat /\ n \in Nat
  BY BoundAssumption DEF Uploads
<1>2. \A m \in 0 .. MaxPart : Parts(u, m) \in Seq(P) /\ Len(Parts(u, m)) = m
  BY <1>1 DEF Parts
<1>3. ASSUME n < MaxPart PROVE Append(Parts(u, n), <<u.id, n + 1>>) = Parts(u, n + 1)
  <2> DEFINE s == Append(Parts(u, n), <<u.id, n + 1>>)
             t == Parts(u, n + 1)
  <2>1. <<u.id, n + 1>> \in P /\ n + 1 \in 0 .. MaxPart
    BY <1>1, <1>3
  <2>2. s \in Seq(P) /\ t \in Seq(P) /\ Len(s) = n + 1 /\ Len(t) = n + 1
    BY <1>2, <2>1, AppendProperties
  <2>3. \A i \in 1 .. n + 1 : s[i] = t[i]
    <3>1. s[n + 1] = <<u.id, n + 1>>
      BY <1>2, <2>1, AppendProperties
    <3>2. \A i \in 1 .. n : s[i] = Parts(u, n)[i]
      BY <1>2, <2>1, AppendProperties
    <3>3. /\ \A i \in 1 .. n : Parts(u, n)[i] = <<u.id, i>>
          /\ \A i \in 1 .. n + 1 : t[i] = <<u.id, i>>
      BY DEF Parts
    <3>4. \A i \in 1 .. n + 1 : i = n + 1 \/ i \in 1 .. n
      BY <1>1
    <3> QED
      BY <3>1, <3>2, <3>3, <3>4
  <2> HIDE DEF s, t
  <2>4. s = t
    BY <2>2, <2>3, SeqEqual
  <2> QED
    BY <2>4 DEF s, t
<1> QED
  BY <1>1, <1>2, <1>3

\* At first nothing is uploaded.
LEMMA InitFile == Init => FileAll
<1> SUFFICES ASSUME Init PROVE FileAll
  OBVIOUS
<1>1. MaxPart \in Nat /\ MaxUpload \in Nat
  BY BoundAssumption
<1>2. NoUpload \in Uploads
  BY <1>1 DEF NoUpload, Uploads
<1>3. /\ up \in [Slot -> [Kind -> Uploads]] /\ ready \in [Slot -> [Kind -> BOOLEAN]]
      /\ broken \in [Slot -> [Kind -> BOOLEAN]] /\ mixed \in [Slot -> BOOLEAN]
  BY <1>2 DEF Init
<1>4. /\ temp \in [Slot -> [Kind -> Seq((1 .. MaxUpload) \X (1 .. MaxPart))]]
      /\ readSize \in [Slot -> 0 .. MaxPart] /\ nUpload \in 0 .. MaxUpload
  BY <1>1 DEF Init
<1>5. \A s \in Slot, k \in Kind : up[s][k] = NoUpload /\ ~ready[s][k]
  BY DEF Init
<1>6. \A s \in Slot, k \in Kind : UploadInv(s, k)
  BY <1>5 DEF UploadInv, NoUpload, InParts
<1>7. \A s \in Slot : SizeInv(s)
  BY <1>5 DEF SizeInv, NoUpload, Kind
<1> QED
  BY <1>3, <1>4, <1>6, <1>7 DEF FileAll, FileTypes

\* The first part opens the file anew and announces the size.
LEMMA FirstFile ==
  ASSUME FileAll, NEW s \in Slot, NEW k \in Kind, ReceiveFirst(s, k)
  PROVE  FileAll'
<1>0. MaxPart \in Nat /\ MaxUpload \in Nat /\ nUpload \in Nat /\ FileTypes
  BY BoundAssumption DEF FileAll, FileTypes
<1>1. PICK parts \in 1 .. MaxPart :
        LET u == [id |-> nUpload + 1, parts |-> parts, next |-> 1] IN
        /\ Announce(s, k, parts)
        /\ temp' = [temp EXCEPT ![s][k] = <<Part(u)>>]
        /\ \E flags \in Flags(u) : ready' = [ready EXCEPT ![s][k] = Ready(k, flags)]
        /\ up' = [up EXCEPT ![s][k] = [u EXCEPT !.next = 2]]
  BY DEF ReceiveFirst
<1> DEFINE u == [id |-> nUpload + 1, parts |-> parts, next |-> 1]
           v == [id |-> nUpload + 1, parts |-> parts, next |-> 2]
<1>2. PICK flags \in Flags(u) : ready' = [ready EXCEPT ![s][k] = Ready(k, flags)]
  BY <1>1
<1>3. nUpload' = nUpload + 1 /\ nUpload' \in 0 .. MaxUpload
  BY <1>0 DEF ReceiveFirst
<1>4. u \in Uploads /\ v \in Uploads
  BY <1>0, <1>3 DEF Uploads
<1>5. /\ up' \in [Slot -> [Kind -> Uploads]] /\ up'[s][k] = v
      /\ \A t \in Slot, l \in Kind : t # s \/ l # k => up'[t][l] = up[t][l]
  <2>0. [u EXCEPT !.next = 2] = v
    OBVIOUS
  <2>1. up' = [up EXCEPT ![s][k] = v]
    BY <1>1, <2>0, Zenon
  <2> QED
    BY <2>1, <1>0, <1>4, ChangeOne DEF FileTypes
<1>6. Parts(v, 1) \in Seq((1 .. MaxUpload) \X (1 .. MaxPart)) /\ <<Part(u)>> = Parts(v, 1)
  <2>1. 1 \in 0 .. MaxPart /\ 0 \in 0 .. MaxPart /\ 0 < MaxPart /\ v.id > 0 /\ 0 + 1 = 1
    BY <1>0
  <2>2. /\ Parts(v, 1) \in Seq((1 .. MaxUpload) \X (1 .. MaxPart))
        /\ Append(Parts(v, 0), <<v.id, 0 + 1>>) = Parts(v, 0 + 1)
    BY <2>1, <1>4, PartsAppend
  <2>3. Parts(v, 0) = <<>>
    BY DEF Parts
  <2>4. Part(u) = <<v.id, 0 + 1>> /\ Append(<<>>, Part(u)) = <<Part(u)>>
    BY DEF Part
  <2> QED
    BY <2>1, <2>2, <2>3, <2>4
<1>7. /\ temp' \in [Slot -> [Kind -> Seq((1 .. MaxUpload) \X (1 .. MaxPart))]]
      /\ temp'[s][k] = Parts(v, 1)
      /\ \A t \in Slot, l \in Kind : t # s \/ l # k => temp'[t][l] = temp[t][l]
  <2>1. temp' = [temp EXCEPT ![s][k] = Parts(v, 1)]
    BY <1>1, <1>6
  <2> HIDE DEF v
  <2> QED
    BY <2>1, <1>0, <1>6, ChangeOne DEF FileTypes
<1>8. /\ ready' \in [Slot -> [Kind -> BOOLEAN]] /\ (ready'[s][k] => v.next = v.parts + 1)
      /\ \A t \in Slot, l \in Kind : t # s \/ l # k => ready'[t][l] = ready[t][l]
  <2>1. Ready(k, flags) \in BOOLEAN
    <3>1. CASE k = "big"
      <4>1. Ready(k, flags) = ("END" \in flags)
        BY <3>1, Zenon DEF Ready
      <4>2. ("END" \in flags) \in BOOLEAN
        OBVIOUS
      <4> QED
        BY <4>1, <4>2, Zenon
    <3>2. CASE k # "big"
      BY <3>2, Zenon DEF Ready
    <3> QED
      BY <3>1, <3>2
  <2>2. /\ ready' \in [Slot -> [Kind -> BOOLEAN]] /\ ready'[s][k] = Ready(k, flags)
        /\ \A t \in Slot, l \in Kind : t # s \/ l # k => ready'[t][l] = ready[t][l]
    BY <2>1, <1>0, <1>2, ChangeOne DEF FileTypes
  <2>3. Ready(k, flags) => u.next = u.parts
    <3>1. InParts(u)
      BY <1>0 DEF InParts
    <3> QED
      BY <3>1, <1>4, LastIsReady
  <2> QED
    BY <2>2, <2>3
<1>9. /\ broken' \in [Slot -> [Kind -> BOOLEAN]]
      /\ \A t \in Slot, l \in Kind : t # s \/ l # k => broken'[t][l] = broken[t][l]
  <2>1. broken' = [broken EXCEPT ![s][k] = FALSE]
    BY DEF ReceiveFirst
  <2> QED
    BY <2>1, <1>0 DEF FileTypes
<1>10. /\ readSize' \in [Slot -> 0 .. MaxPart] /\ readSize'[s] = parts
       /\ mixed' \in [Slot -> BOOLEAN] /\ mixed'[s] = (k = "file")
       /\ \A t \in Slot : t # s => readSize'[t] = readSize[t] /\ mixed'[t] = mixed[t]
  BY <1>0, <1>1 DEF Announce, FileTypes
<1>11. FileTypes'
  BY <1>3, <1>5, <1>7, <1>8, <1>9, <1>10 DEF FileTypes, Uploads
<1>12. \A t \in Slot, l \in Kind : UploadInv(t, l)'
  <2>1. ASSUME NEW t \in Slot, NEW l \in Kind, t # s \/ l # k PROVE UploadInv(t, l)'
    <3>1. UploadInv(t, l)
      BY DEF FileAll
    <3>2. up'[t][l] = up[t][l] /\ temp'[t][l] = temp[t][l]
      BY <2>1, <1>5, <1>7
    <3>3. ready'[t][l] = ready[t][l] /\ broken'[t][l] = broken[t][l]
      BY <2>1, <1>8, <1>9
    <3> QED
      BY <3>1, <3>2, <3>3 DEF UploadInv
  <2>2. UploadInv(s, k)'
    <3>1. v.id = nUpload + 1 /\ v.parts = parts /\ v.next = 2
      OBVIOUS
    <3> HIDE DEF v
    <3> QED
      BY <3>1, <1>0, <1>5, <1>7, <1>8 DEF UploadInv, InParts
  <2> QED
    BY <2>1, <2>2
<1>13. \A t \in Slot : SizeInv(t)'
  <2>1. v.id = nUpload + 1 /\ v.parts = parts
    OBVIOUS
  <2> HIDE DEF v
  <2>2. ASSUME NEW t \in Slot, t # s \/ k = "file" PROVE SizeInv(t)'
    <3>1. "big" \in Kind /\ (t # s \/ "big" # k)
      BY <2>2 DEF Kind
    <3>2. up'[t]["big"] = up[t]["big"] /\ ready'[t]["big"] = ready[t]["big"]
      BY <3>1, <1>5, <1>8
    <3> QED
      BY <3>2, <2>2, <1>10 DEF FileAll, SizeInv
  <2>3. CASE k = "big"
    BY <2>1, <2>2, <2>3, <1>0, <1>5, <1>10 DEF SizeInv
  <2> QED
    BY <2>2, <2>3 DEF Kind
<1> QED
  BY <1>11, <1>12, <1>13 DEF FileAll

\* A first part that cannot be written begins a broken upload.
LEMMA FirstFailsFile ==
  ASSUME FileAll, NEW s \in Slot, NEW k \in Kind, ReceiveFirstFails(s, k)
  PROVE  FileAll'
<1>0. MaxPart \in Nat /\ MaxUpload \in Nat /\ nUpload \in Nat /\ FileTypes
  BY BoundAssumption DEF FileAll, FileTypes
<1>1. PICK parts \in 1 .. MaxPart :
        /\ Announce(s, k, parts)
        /\ up' = [up EXCEPT ![s][k] = [id |-> nUpload + 1, parts |-> parts, next |-> 2]]
  BY DEF ReceiveFirstFails
<1> DEFINE v == [id |-> nUpload + 1, parts |-> parts, next |-> 2]
<1>2. nUpload' = nUpload + 1 /\ nUpload' \in 0 .. MaxUpload
  BY <1>0 DEF ReceiveFirstFails
<1>3. v \in Uploads /\ v.id = nUpload + 1 /\ v.parts = parts /\ v.next = 2
  BY <1>0, <1>2 DEF Uploads
<1>4. /\ up' \in [Slot -> [Kind -> Uploads]] /\ up'[s][k] = v
      /\ \A t \in Slot, l \in Kind : t # s \/ l # k => up'[t][l] = up[t][l]
  <2>1. up' = [up EXCEPT ![s][k] = v]
    BY <1>1
  <2> HIDE DEF v
  <2> QED
    BY <2>1, <1>0, <1>3, ChangeOne DEF FileTypes
<1> HIDE DEF v
<1>5. /\ ready' \in [Slot -> [Kind -> BOOLEAN]] /\ ~ready'[s][k]
      /\ \A t \in Slot, l \in Kind : t # s \/ l # k => ready'[t][l] = ready[t][l]
  <2>1. ready' = [ready EXCEPT ![s][k] = FALSE]
    BY DEF ReceiveFirstFails
  <2> QED
    BY <2>1, <1>0 DEF FileTypes
<1>6. /\ broken' \in [Slot -> [Kind -> BOOLEAN]] /\ broken'[s][k]
      /\ \A t \in Slot, l \in Kind : t # s \/ l # k => broken'[t][l] = broken[t][l]
  <2>1. broken' = [broken EXCEPT ![s][k] = TRUE]
    BY DEF ReceiveFirstFails
  <2> QED
    BY <2>1, <1>0 DEF FileTypes
<1>7. /\ readSize' \in [Slot -> 0 .. MaxPart] /\ readSize'[s] = parts
      /\ mixed' \in [Slot -> BOOLEAN] /\ mixed'[s] = (k = "file")
      /\ \A t \in Slot : t # s => readSize'[t] = readSize[t] /\ mixed'[t] = mixed[t]
  BY <1>0, <1>1 DEF Announce, FileTypes
<1>8. temp' = temp
  BY DEF ReceiveFirstFails
<1>9. FileTypes'
  BY <1>0, <1>2, <1>4, <1>5, <1>6, <1>7, <1>8 DEF FileTypes, Uploads
<1>10. \A t \in Slot, l \in Kind : UploadInv(t, l)'
  <2>1. ASSUME NEW t \in Slot, NEW l \in Kind, t # s \/ l # k PROVE UploadInv(t, l)'
    <3>1. UploadInv(t, l)
      BY DEF FileAll
    <3>2. up'[t][l] = up[t][l] /\ ready'[t][l] = ready[t][l] /\ broken'[t][l] = broken[t][l]
      BY <2>1, <1>4, <1>5, <1>6
    <3> QED
      BY <3>1, <3>2, <1>8 DEF UploadInv
  <2>2. UploadInv(s, k)'
    BY <1>0, <1>3, <1>4, <1>5, <1>6 DEF UploadInv
  <2> QED
    BY <2>1, <2>2
<1>11. \A t \in Slot : SizeInv(t)'
  <2>1. ASSUME NEW t \in Slot, t # s \/ k = "file" PROVE SizeInv(t)'
    <3>1. "big" \in Kind /\ (t # s \/ "big" # k)
      BY <2>1 DEF Kind
    <3>2. up'[t]["big"] = up[t]["big"] /\ ready'[t]["big"] = ready[t]["big"]
      BY <3>1, <1>4, <1>5
    <3> QED
      BY <3>2, <2>1, <1>7 DEF FileAll, SizeInv
  <2>2. CASE k = "big"
    BY <2>1, <2>2, <1>0, <1>3, <1>4, <1>7 DEF SizeInv
  <2> QED
    BY <2>1, <2>2 DEF Kind
<1> QED
  BY <1>9, <1>10, <1>11 DEF FileAll

\* The other parts are appended, or leave the file broken.
LEMMA NextFile ==
  ASSUME FileAll, NEW s \in Slot, NEW k \in Kind, ReceiveNext(s, k)
  PROVE  FileAll'
<1> DEFINE u == up[s][k]
           v == [u EXCEPT !.next = @ + 1]
<1>0. MaxPart \in Nat /\ MaxUpload \in Nat /\ FileTypes /\ UploadInv(s, k) /\ InParts(u)
  BY BoundAssumption DEF FileAll, ReceiveNext
<1>1. PICK ok \in BOOLEAN, flags \in Flags(u) :
        /\ temp' = IF ok THEN [temp EXCEPT ![s][k] = Append(@, Part(up[s][k]))] ELSE temp
        /\ broken' = [broken EXCEPT ![s][k] = @ \/ ~ok]
        /\ ready' = [ready EXCEPT ![s][k] = @ \/ Ready(k, flags)]
  BY DEF ReceiveNext
<1>2. /\ u \in Uploads /\ u.id > 0 /\ u.id \in Nat
      /\ u.next \in 2 .. u.parts /\ u.parts \in 1 .. MaxPart
  BY <1>0 DEF FileTypes, Uploads, UploadInv, InParts
<1>3. /\ v \in Uploads /\ v.id = u.id /\ v.parts = u.parts /\ v.next = u.next + 1
  BY <1>0, <1>2 DEF Uploads
<1>4. /\ up' \in [Slot -> [Kind -> Uploads]] /\ up'[s][k] = v
      /\ \A t \in Slot, l \in Kind : t # s \/ l # k => up'[t][l] = up[t][l]
  <2>1. up' = [up EXCEPT ![s][k] = v]
    BY DEF ReceiveNext
  <2> HIDE DEF v
  <2> QED
    BY <2>1, <1>0, <1>3, ChangeOne DEF FileTypes
<1> HIDE DEF v
<1>5. /\ broken' \in [Slot -> [Kind -> BOOLEAN]] /\ (~broken'[s][k] => ok /\ ~broken[s][k])
      /\ \A t \in Slot, l \in Kind : t # s \/ l # k => broken'[t][l] = broken[t][l]
  BY <1>0, <1>1 DEF FileTypes
<1>6. /\ ready' \in [Slot -> [Kind -> BOOLEAN]]
      /\ ready'[s][k] => ready[s][k] \/ u.next = u.parts
      /\ \A t \in Slot, l \in Kind : t # s \/ l # k => ready'[t][l] = ready[t][l]
  <2> DEFINE b == ready[s][k] \/ Ready(k, flags)
  <2>1. b \in BOOLEAN
    OBVIOUS
  <2>2. b => ready[s][k] \/ u.next = u.parts
    BY <1>0, <1>2, LastIsReady
  <2>3. ready' = [ready EXCEPT ![s][k] = b]
    BY <1>1
  <2> HIDE DEF b
  <2>4. /\ ready' \in [Slot -> [Kind -> BOOLEAN]] /\ ready'[s][k] = b
        /\ \A t \in Slot, l \in Kind : t # s \/ l # k => ready'[t][l] = ready[t][l]
    BY <2>1, <2>3, <1>0, ChangeOne DEF FileTypes
  <2> QED
    BY <2>2, <2>4
<1>7. /\ temp' \in [Slot -> [Kind -> Seq((1 .. MaxUpload) \X (1 .. MaxPart))]]
      /\ ~broken'[s][k] => temp'[s][k] = Parts(v, v.next - 1)
      /\ \A t \in Slot, l \in Kind : t # s \/ l # k => temp'[t][l] = temp[t][l]
  <2>1. CASE ~ok
    BY <2>1, <1>0, <1>1, <1>5 DEF FileTypes
  <2>2. CASE ok
    <3> DEFINE file == Append(temp[s][k], Part(u))
    <3>1. Part(u) \in (1 .. MaxUpload) \X (1 .. MaxPart) /\ Part(u) = <<u.id, u.next>>
      BY <1>0, <1>2 DEF Part, Uploads
    <3>2. file \in Seq((1 .. MaxUpload) \X (1 .. MaxPart))
      <4>1. temp[s][k] \in Seq((1 .. MaxUpload) \X (1 .. MaxPart))
        BY <1>0 DEF FileTypes
      <4> QED
        BY <3>1, <4>1, AppendProperties
    <3>3. ~broken'[s][k] => file = Parts(v, v.next - 1)
      <4>1. SUFFICES ASSUME ~broken'[s][k] PROVE file = Parts(v, v.next - 1)
        OBVIOUS
      <4>2. temp[s][k] = Parts(u, u.next - 1)
        BY <4>1, <1>0, <1>2, <1>5 DEF UploadInv
      <4>3. /\ u.next - 1 \in 0 .. MaxPart /\ u.next - 1 < MaxPart
            /\ (u.next - 1) + 1 = u.next /\ v.next - 1 = u.next
        BY <1>0, <1>2, <1>3
      <4>4. Append(Parts(u, u.next - 1), <<u.id, (u.next - 1) + 1>>) = Parts(u, (u.next - 1) + 1)
        BY <4>3, <1>2, PartsAppend
      <4>5. Parts(u, u.next) = Parts(v, u.next)
        BY <1>3 DEF Parts
      <4> QED
        BY <4>2, <4>3, <4>4, <4>5, <3>1
    <3>4. temp' = [temp EXCEPT ![s][k] = file]
      BY <2>2, <1>1
    <3> HIDE DEF file
    <3> QED
      BY <3>2, <3>3, <3>4, <1>0, ChangeOne DEF FileTypes
  <2> QED
    BY <2>1, <2>2
<1>8. UNCHANGED <<readSize, mixed, nUpload>>
  BY DEF ReceiveNext
<1>9. FileTypes'
  BY <1>0, <1>4, <1>5, <1>6, <1>7, <1>8 DEF FileTypes, Uploads
<1>10. \A t \in Slot, l \in Kind : UploadInv(t, l)'
  <2>1. ASSUME NEW t \in Slot, NEW l \in Kind, t # s \/ l # k PROVE UploadInv(t, l)'
    <3>1. UploadInv(t, l)
      BY DEF FileAll
    <3>2. up'[t][l] = up[t][l] /\ temp'[t][l] = temp[t][l]
      BY <2>1, <1>4, <1>7
    <3>3. ready'[t][l] = ready[t][l] /\ broken'[t][l] = broken[t][l]
      BY <2>1, <1>5, <1>6
    <3> QED
      BY <3>1, <3>2, <3>3 DEF UploadInv
  <2>2. UploadInv(s, k)'
    <3>1. v.id > 0 /\ v.parts > 0 /\ v.next \in 2 .. v.parts + 1
      BY <1>2, <1>3
    <3>2. ready'[s][k] => broken'[s][k] \/ ~InParts(v)
      <4>1. ready[s][k] => broken[s][k]
        BY <1>0 DEF UploadInv
      <4>2. u.next = u.parts => ~InParts(v)
        BY <1>2, <1>3 DEF InParts
      <4> QED
        BY <4>1, <4>2, <1>5, <1>6
    <3> QED
      BY <3>1, <3>2, <1>2, <1>3, <1>4, <1>7 DEF UploadInv
  <2> QED
    BY <2>1, <2>2
<1>11. \A t \in Slot : SizeInv(t)'
  <2>1. ASSUME NEW t \in Slot PROVE SizeInv(t)'
    <3>1. SizeInv(t) /\ "big" \in Kind
      BY DEF FileAll, Kind
    <3>2. CASE t # s \/ "big" # k
      <4>1. up'[t]["big"] = up[t]["big"] /\ ready'[t]["big"] = ready[t]["big"]
        BY <3>1, <3>2, <1>4, <1>6
      <4> QED
        BY <3>1, <4>1, <1>8 DEF SizeInv
    <3>3. CASE t = s /\ "big" = k
      <4>1. up'[t]["big"].id > 0 /\ up[t]["big"].id > 0 /\ up'[t]["big"].parts = up[t]["big"].parts
        BY <3>3, <1>2, <1>3, <1>4
      <4> QED
        BY <3>1, <4>1, <1>8 DEF SizeInv
    <3> QED
      BY <3>2, <3>3
  <2> QED
    BY <2>1
<1> QED
  BY <1>9, <1>10, <1>11 DEF FileAll

\* Data that is no longer ready breaks nothing.
LEMMA UnreadyFile ==
  ASSUME FileAll, UNCHANGED <<temp, readSize, up, broken, mixed, nUpload>>,
         ready' \in [Slot -> [Kind -> BOOLEAN]],
         \A s \in Slot, k \in Kind : ready'[s][k] => ready[s][k]
  PROVE  FileAll'
<1>1. FileTypes'
  BY DEF FileAll, FileTypes
<1>2. \A s \in Slot, k \in Kind : UploadInv(s, k)'
  BY DEF FileAll, UploadInv
<1>3. \A s \in Slot : SizeInv(s)'
  BY DEF FileAll, SizeInv, Kind
<1> QED
  BY <1>1, <1>2, <1>3 DEF FileAll

\* The next client has begun no upload: its big data is not ready, though the last
\* client's file may still be.
LEMMA ReuseFile ==
  ASSUME FileAll, NEW s \in Slot, Reuse(s)
  PROVE  FileAll'
<1>0. FileTypes /\ MaxPart \in Nat /\ MaxUpload \in Nat /\ "big" \in Kind /\ "file" \in Kind
  BY BoundAssumption DEF FileAll, Kind
<1>1. NoUpload \in Uploads /\ NoUpload.id = 0 /\ ~InParts(NoUpload)
  BY <1>0 DEF NoUpload, Uploads, InParts
<1>2. /\ up' \in [Slot -> [Kind -> Uploads]] /\ \A k \in Kind : up'[s][k] = NoUpload
      /\ \A t \in Slot : t # s => up'[t] = up[t]
  <2>1. up' = [up EXCEPT ![s] = [k \in Kind |-> NoUpload]]
    BY DEF Reuse
  <2>2. [k \in Kind |-> NoUpload] \in [Kind -> Uploads]
    BY <1>1
  <2> QED
    BY <2>1, <2>2, <1>0 DEF FileTypes
<1>3. /\ ready' \in [Slot -> [Kind -> BOOLEAN]] /\ ~ready'[s]["big"]
      /\ ready'[s]["file"] = ready[s]["file"]
      /\ \A t \in Slot : t # s => ready'[t] = ready[t]
  <2>1. ready' = [ready EXCEPT ![s]["big"] = FALSE]
    BY DEF Reuse
  <2> QED
    BY <2>1, <1>0 DEF FileTypes
<1>4. UNCHANGED <<temp, readSize, broken, mixed, nUpload>>
  BY DEF Reuse
<1>5. FileTypes'
  BY <1>0, <1>2, <1>3, <1>4 DEF FileTypes, Uploads
<1>6. \A t \in Slot, k \in Kind : UploadInv(t, k)'
  <2>1. ASSUME NEW t \in Slot, NEW k \in Kind, t # s PROVE UploadInv(t, k)'
    <3>1. UploadInv(t, k)
      BY DEF FileAll
    <3>2. up'[t] = up[t] /\ ready'[t] = ready[t]
      BY <2>1, <1>2, <1>3
    <3> QED
      BY <3>1, <3>2, <1>4 DEF UploadInv
  <2>2. ASSUME NEW k \in Kind PROVE UploadInv(s, k)'
    BY <1>1, <1>2 DEF UploadInv
  <2> QED
    BY <2>1, <2>2
<1>7. \A t \in Slot : SizeInv(t)'
  BY <1>0, <1>1, <1>2, <1>3, <1>4 DEF FileAll, SizeInv
<1> QED
  BY <1>5, <1>6, <1>7 DEF FileAll

\* Every step keeps the invariant.
LEMMA StepFile == FileAll /\ [Next]_vars => FileAll'
<1> SUFFICES ASSUME FileAll, [Next]_vars PROVE FileAll'
  OBVIOUS
<1>0. FileTypes
  BY DEF FileAll
<1>1. ASSUME UNCHANGED <<files, broken, mixed, nUpload>> PROVE FileAll'
  BY <1>1 DEF files, FileAll, FileTypes, UploadInv, SizeInv
<1>2. ASSUME NEW s \in Slot, Forget(s) PROVE FileAll'
  <2>1. ready' = [ready EXCEPT ![s]["big"] = FALSE]
    BY <1>2 DEF Forget
  <2>2. UNCHANGED <<temp, readSize, up, broken, mixed, nUpload>>
    BY <1>2 DEF Forget, histories, counters
  <2>3. /\ ready' \in [Slot -> [Kind -> BOOLEAN]]
        /\ \A t \in Slot, k \in Kind : ready'[t][k] => ready[t][k]
    BY <2>1, <1>0 DEF FileTypes, Kind
  <2> QED
    BY <2>2, <2>3, UnreadyFile
<1>3. ASSUME NEW s \in Slot, FreeFileData(s) PROVE FileAll'
  <2>1. ready' = [ready EXCEPT ![s]["file"] = FALSE]
    BY <1>3 DEF FreeFileData
  <2>2. UNCHANGED <<temp, readSize, up, broken, mixed, nUpload>>
    BY <1>3 DEF FreeFileData, histories, counters
  <2>3. /\ ready' \in [Slot -> [Kind -> BOOLEAN]]
        /\ \A t \in Slot, k \in Kind : ready'[t][k] => ready[t][k]
    BY <2>1, <1>0 DEF FileTypes, Kind
  <2> QED
    BY <2>2, <2>3, UnreadyFile
<1>4. ASSUME NEW s \in Slot, LibraryNext(s), ~Forget(s) PROVE FileAll'
  BY <1>1, <1>4 DEF LibraryNext, LeaveLoop, SetLock, Look, NoneFree, Take, ClearLock, ReadTemp,
                    histories, counters
<1>5. ASSUME NEW s \in Slot, ReceiveOther(s) \/ GetBigData(s) \/ FreeBigData(s) \/ EndCallback(s)
      PROVE  FileAll'
  BY <1>1, <1>5 DEF ReceiveOther, GetBigData, FreeBigData, EndCallback, histories, counters
<1>6. CASE UNCHANGED vars
  BY <1>1, <1>6 DEF vars, histories, counters
<1>7. ASSUME NEW s \in Slot, SlotNext(s) PROVE FileAll'
  BY <1>7, <1>2, <1>3, <1>4, <1>5, FirstFile, FirstFailsFile, NextFile, ReuseFile DEF SlotNext
<1> QED
  BY <1>6, <1>7 DEF Next

\* Type correctness of the pool and of the uploads: in particular no search
\* takes a buffer outside s_BigDataBuffer.
THEOREM TypeCorrect == Spec => []TypeOK
<1>1. PoolAll /\ FileAll => TypeOK
  BY DEF PoolAll, FileAll, TypeOK
<1> QED
  BY <1>1, InitPool, StepPool, InitFile, StepFile, PTL DEF Spec

\* Data that is said to be ready, and of which every part could be written, is whole
\* and in order, and the last upload of the client in the slot if it has begun one, as
\* it has when big data is ready, however uploads break off, begin over one another and
\* share a slot.  STSV_GetBigData reads all of it, unless a file was announced later.
THEOREM ReadyIsWhole == Spec => []WholeWhenReady
<1>1. ASSUME FileAll, NEW s \in Slot, NEW k \in Kind, ready[s][k], up[s][k].id > 0, ~broken[s][k]
      PROVE  ~InParts(up[s][k]) /\ temp[s][k] = Whole(up[s][k])
  <2>1. up[s][k] \in Uploads /\ MaxPart \in Nat /\ MaxUpload \in Nat
    BY <1>1, BoundAssumption DEF FileAll, FileTypes
  <2>2. /\ ~InParts(up[s][k]) /\ up[s][k].next \in 2 .. up[s][k].parts + 1
        /\ temp[s][k] = Parts(up[s][k], up[s][k].next - 1)
    BY <1>1, <2>1 DEF FileAll, UploadInv
  <2>3. up[s][k].next - 1 = up[s][k].parts
    BY <2>1, <2>2 DEF InParts, Uploads
  <2> QED
    BY <2>2, <2>3 DEF Parts, Whole
<1>2. ASSUME FileAll, NEW s \in Slot, ready[s]["big"]
      PROVE  up[s]["big"].id > 0
  BY <1>2 DEF FileAll, SizeInv
<1>3. ASSUME FileAll, NEW s \in Slot, ready[s]["big"], ~mixed[s]
      PROVE  readSize[s] = Len(Whole(up[s]["big"]))
  <2>1. up[s]["big"] \in Uploads /\ MaxPart \in Nat /\ MaxUpload \in Nat
    BY <1>3, BoundAssumption DEF FileAll, FileTypes, Kind
  <2>2. readSize[s] = up[s]["big"].parts
    BY <1>3 DEF FileAll, SizeInv
  <2>3. Len(Whole(up[s]["big"])) = up[s]["big"].parts
    BY <2>1 DEF Whole, Uploads
  <2> QED
    BY <2>2, <2>3
<1>4. FileAll => WholeWhenReady
  BY <1>1, <1>2, <1>3 DEF WholeWhenReady
<1> QED
  BY <1>4, InitFile, StepFile, PTL DEF Spec
=============================================================================
