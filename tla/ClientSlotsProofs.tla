------------------------- MODULE ClientSlotsProofs -------------------------
(***************************************************************************)
(* The safety of ClientSlots for every number of slots, peers and          *)
(* descriptors.                                                            *)
(***************************************************************************)
EXTENDS ClientSlots, FiniteSetTheorems, TLAPS

USE MaxConnectionAssumption, NoneAssumption, CountModAssumption
    DEF MaxConnectionAssumption, NoneAssumption, CountModAssumption

----------------------------------------------------------------------------
(* Type correctness.                                                       *)

\* A count reduced modulo CountMod is a count.
LEMMA CountRange == \A n \in Int : n % CountMod \in 0 .. CountMod - 1
OBVIOUS

LEMMA InitType == Init => TypeOK
<1> SUFFICES ASSUME Init PROVE TypeOK
  OBVIOUS
<1>1. 0 \in Slots /\ 0 \in 0 .. CountMod - 1
  BY DEF Slots
<1>2. /\ wire \in [Conn -> WireState]
      /\ file \in [FD -> Conn \cup {None}]
      /\ tpc \in [Conn -> ThreadPC]
      /\ tfd \in [Conn -> FD \cup {None}]
  BY DEF Init, WireState, ThreadPC, Serving
<1>3. /\ tslot \in [Conn -> Slots]
      /\ treg \in [Conn -> 0 .. CountMod - 1]
  BY <1>1 DEF Init
<1>4. /\ socket \in [Slots -> FD \cup {None}]
      /\ online \in [Slots -> BOOLEAN]
      /\ thread \in [Slots -> BOOLEAN]
      /\ threadID \in [Slots -> Conn \cup {None}]
  BY DEF Init
<1> QED
  BY <1>1, <1>2, <1>3, <1>4 DEF Init, TypeOK, AcceptorPC

LEMMA PeerType ==
  ASSUME TypeOK, NEW c \in Conn, PeerNext(c)
  PROVE  TypeOK'
BY DEF TypeOK, PeerNext, Connect, StartMessage, FinishMessage, SpoilMessage,
       HangUp, Peer, slotVars, acceptVars, threadVars, countVars, WireState

LEMMA DestroySocketType ==
  ASSUME TypeOK, NEW fd, DestroySocket(fd)
  PROVE  /\ wire' \in [Conn -> WireState]
         /\ file' \in [FD -> Conn \cup {None}]
BY DEF TypeOK, DestroySocket, WireState

LEMMA AcceptorType ==
  ASSUME TypeOK, AcceptorNext
  PROVE  TypeOK'
<1> USE DEF TypeOK, slotVars, acceptVars, threadVars, countVars
<1>1. ASSUME NEW c \in Conn, Accept(c) PROVE TypeOK'
  BY <1>1 DEF Accept, WireState, AcceptorPC
<1>2. CASE FindFree
  BY <1>2 DEF FindFree, AcceptorPC
<1>3. CASE Refuse
  BY <1>3, DestroySocketType DEF Refuse, ReturnFromAccept, AcceptorPC, Slots
<1>4. CASE JoinThread
  BY <1>4 DEF JoinThread, AcceptorPC, ThreadPC, Slots
<1>5. CASE FillSlot
  BY <1>5 DEF FillSlot, AcceptorPC
<1>6. CASE CreateThread
  BY <1>6 DEF CreateThread, AcceptorPC, ThreadPC, Serving
<1>7. CASE CreateFails
  BY <1>7, DestroySocketType DEF CreateFails, ReturnFromAccept, AcceptorPC, Slots
<1>8. CASE IncrementLoad
  BY <1>8 DEF IncrementLoad, LoadCount, Updating, AcceptorPC
<1>9. CASE IncrementStore
  <2>1. curLogin' \in 0 .. CountMod - 1
    BY <1>9, CountRange DEF IncrementStore, StoreCount
  <2> QED
    BY <1>9, <2>1 DEF IncrementStore, ReturnFromAccept, AcceptorPC, Slots
<1> QED
  BY <1>1, <1>2, <1>3, <1>4, <1>5, <1>6, <1>7, <1>8, <1>9 DEF AcceptorNext

LEMMA ThreadType ==
  ASSUME TypeOK, NEW c \in Conn, ThreadNext(c)
  PROVE  TypeOK'
<1> USE DEF TypeOK, slotVars, acceptVars, threadVars, countVars, Goto, ThreadPC, Serving
<1>1. CASE Start(c)
  BY <1>1 DEF Start
<1>2. CASE ConnectCallback(c)
  BY <1>2 DEF ConnectCallback
<1>3. CASE EnterPoll(c) \/ LeaveLoop(c) \/ PollReady(c)
  BY <1>3 DEF EnterPoll, LeaveLoop, PollReady
<1>4. CASE PollTimeout(c)
  BY <1>4 DEF PollTimeout
<1>5. CASE HandleMessage(c)
  BY <1>5 DEF HandleMessage, WireState
<1>6. CASE DropClient(c)
  BY <1>6 DEF DropClient
<1>7. CASE DisconnectCallback(c)
  BY <1>7 DEF DisconnectCallback
<1>8. CASE CloseSocket(c)
  BY <1>8, DestroySocketType DEF CloseSocket
<1>9. CASE DecrementLoad(c)
  BY <1>9 DEF DecrementLoad, LoadCount, Updating
<1>10. CASE DecrementStore(c)
  <2>1. curLogin' \in 0 .. CountMod - 1
    BY <1>10, CountRange DEF DecrementStore, StoreCount
  <2> QED
    BY <1>10, <2>1 DEF DecrementStore
<1> QED
  BY <1>1, <1>2, <1>3, <1>4, <1>5, <1>6, <1>7, <1>8, <1>9, <1>10 DEF ThreadNext

LEMMA NextType == TypeOK /\ [Next]_vars => TypeOK'
<1> SUFFICES ASSUME TypeOK, [Next]_vars PROVE TypeOK'
  OBVIOUS
<1>1. ASSUME NEW c \in Conn, Kick(c) PROVE TypeOK'
  BY <1>1 DEF Kick, TypeOK, acceptVars, threadVars, countVars
<1>2. CASE UNCHANGED vars
  BY <1>2 DEF vars, slotVars, acceptVars, threadVars, countVars, TypeOK
<1> QED
  BY <1>1, <1>2, PeerType, AcceptorType, ThreadType DEF Next

\* Type correctness: in particular the acceptor's and the threads' slot
\* numbers stay inside s_Client_t.
THEOREM TypeCorrect == Spec => []TypeOK
<1> QED
  BY InitType, NextType, PTL DEF Spec

----------------------------------------------------------------------------
(* The slots.                                                              *)

LEMMA InitSlots == Init => SlotInv
BY DEF Init, SlotInv, ThreadOfSlot, FlagsTell, AcceptorSees, CallbacksPaired,
       Unjoined, Slots

\* A thread that is not yet joined is the one its slot names, so it is alone
\* in its slot.
LEMMA AloneInSlot == ThreadOfSlot => OneThreadPerSlot
BY DEF ThreadOfSlot, OneThreadPerSlot

\* What the slot invariant speaks of.
slotState == <<online, thread, threadID, apc, aidx, tpc, tslot, known>>

LEMMA SlotsUnchanged == SlotInv /\ UNCHANGED slotState => SlotInv'
BY DEF SlotInv, ThreadOfSlot, FlagsTell, AcceptorSees, CallbacksPaired,
       Unjoined, slotState

LEMMA AcceptorSlots ==
  ASSUME TypeOK, SlotInv, AcceptorNext
  PROVE  SlotInv'
<1> USE DEF TypeOK, SlotInv, slotVars, acceptVars, threadVars, countVars,
            ThreadOfSlot, FlagsTell, AcceptorSees, CallbacksPaired, Unjoined
<1>1. ASSUME NEW c \in Conn, Accept(c) PROVE SlotInv'
  BY <1>1 DEF Accept
<1>2. CASE FindFree
  BY <1>2 DEF FindFree
<1>3. CASE Refuse
  BY <1>3 DEF Refuse, ReturnFromAccept
<1>4. CASE JoinThread
  BY <1>4 DEF JoinThread
<1>5. CASE FillSlot
  BY <1>5 DEF FillSlot
<1>6. CASE CreateThread
  BY <1>6 DEF CreateThread
<1>7. CASE CreateFails
  BY <1>7 DEF CreateFails, ReturnFromAccept
<1>8. CASE IncrementLoad
  BY <1>8 DEF IncrementLoad
<1>9. CASE IncrementStore
  BY <1>9 DEF IncrementStore, ReturnFromAccept
<1> QED
  BY <1>1, <1>2, <1>3, <1>4, <1>5, <1>6, <1>7, <1>8, <1>9 DEF AcceptorNext

LEMMA ThreadSlots ==
  ASSUME TypeOK, SlotInv, NEW c \in Conn, ThreadNext(c)
  PROVE  SlotInv'
<1> USE DEF TypeOK, SlotInv, slotVars, acceptVars, threadVars, countVars, Goto,
            ThreadOfSlot, FlagsTell, AcceptorSees, CallbacksPaired, Unjoined
<1>1. CASE Start(c)
  BY <1>1 DEF Start
<1>2. CASE ConnectCallback(c)
  BY <1>2 DEF ConnectCallback
<1>3. CASE EnterPoll(c) \/ LeaveLoop(c) \/ PollReady(c)
  BY <1>3 DEF EnterPoll, LeaveLoop, PollReady
<1>4. CASE PollTimeout(c)
  BY <1>4 DEF PollTimeout
<1>5. CASE HandleMessage(c)
  BY <1>5 DEF HandleMessage
<1>6. CASE DropClient(c)
  BY <1>6 DEF DropClient
<1>7. CASE DisconnectCallback(c)
  BY <1>7 DEF DisconnectCallback
<1>8. CASE CloseSocket(c)
  BY <1>8 DEF CloseSocket
<1>9. CASE DecrementLoad(c)
  BY <1>9 DEF DecrementLoad
<1>10. CASE DecrementStore(c)
  BY <1>10 DEF DecrementStore
<1> QED
  BY <1>1, <1>2, <1>3, <1>4, <1>5, <1>6, <1>7, <1>8, <1>9, <1>10 DEF ThreadNext

LEMMA NextSlots == TypeOK /\ SlotInv /\ [Next]_vars => SlotInv'
<1> SUFFICES ASSUME TypeOK, SlotInv, [Next]_vars PROVE SlotInv'
  OBVIOUS
<1>1. ASSUME NEW c \in Conn, Kick(c) PROVE SlotInv'
  BY <1>1 DEF Kick, TypeOK, SlotInv, acceptVars, threadVars, ThreadOfSlot,
              FlagsTell, AcceptorSees, CallbacksPaired, Unjoined
<1>2. ASSUME NEW c \in Conn, PeerNext(c) PROVE SlotInv'
  BY <1>2, SlotsUnchanged
     DEF PeerNext, Connect, StartMessage, FinishMessage, SpoilMessage, HangUp,
         Peer, slotVars, acceptVars, threadVars, slotState
<1>3. CASE UNCHANGED vars
  BY <1>3, SlotsUnchanged DEF vars, slotVars, acceptVars, threadVars, slotState
<1> QED
  BY <1>1, <1>2, <1>3, AcceptorSlots, ThreadSlots DEF Next

\* The flags "online" and "thread" of a slot, and what the acceptor has read of
\* them, tell the truth about the threads: the inductive invariant.
THEOREM SlotsInvariant == Spec => []SlotInv
BY InitSlots, NextSlots, TypeCorrect, PTL DEF Spec

\* Two client threads never share a slot.
THEOREM SlotsCorrect == Spec => []OneThreadPerSlot
<1>1. TypeOK /\ SlotInv => OneThreadPerSlot
  BY AloneInSlot DEF TypeOK, SlotInv, ThreadOfSlot
<1> QED
  BY <1>1, SlotsInvariant, TypeCorrect, PTL

\* The acceptor joins a thread that exists, and joins it once.
THEOREM JoinsAreSound == Spec => []JoinsLiveThread
<1>1. TypeOK /\ SlotInv => JoinsLiveThread
  BY DEF TypeOK, SlotInv, ThreadOfSlot, AcceptorSees, JoinsLiveThread
<1> QED
  BY <1>1, SlotsInvariant, TypeCorrect, PTL

\* The application knows a client from its Connect to its Disconnect callback,
\* and as long as the thread of the client is at work.
THEOREM CallbacksArePaired == Spec => []CallbacksPaired
<1>1. SlotInv => CallbacksPaired
  BY DEF SlotInv
<1> QED
  BY <1>1, SlotsInvariant, PTL

----------------------------------------------------------------------------
(* The descriptors.                                                        *)

LEMMA InitDescriptors == Init => DescriptorInv /\ NoSlotLeak
BY DEF Init, DescriptorInv, TableMatchesPeers, AcceptorHolds, DescriptorOwned,
       NoDescriptorLeak, NoSlotLeak, Attached, Unjoined, Serving, Slots

LEMMA PeerDescriptors ==
  ASSUME TypeOK, DescriptorInv, NEW c \in Conn, PeerNext(c)
  PROVE  DescriptorInv'
<1> USE DEF TypeOK, DescriptorInv, TableMatchesPeers, AcceptorHolds, DescriptorOwned,
            NoDescriptorLeak, Attached, Unjoined, Peer,
            slotVars, acceptVars, threadVars, countVars
<1>1. CASE Connect(c)
  BY <1>1 DEF Connect
<1>2. CASE StartMessage(c) \/ FinishMessage(c) \/ SpoilMessage(c) \/ HangUp(c)
  BY <1>2 DEF StartMessage, FinishMessage, SpoilMessage, HangUp
<1> QED
  BY <1>1, <1>2 DEF PeerNext

LEMMA AcceptorDescriptors ==
  ASSUME TypeOK, SlotInv, DescriptorInv, AcceptorNext
  PROVE  DescriptorInv'
<1> USE DEF TypeOK, DescriptorInv, TableMatchesPeers, AcceptorHolds, DescriptorOwned,
            NoDescriptorLeak, Attached, Unjoined, Serving,
            slotVars, acceptVars, threadVars, countVars
<1>1. ASSUME NEW c \in Conn, Accept(c) PROVE DescriptorInv'
  BY <1>1 DEF Accept
<1>2. CASE FindFree
  BY <1>2 DEF FindFree
<1>3. CASE Refuse
  BY <1>3 DEF Refuse, ReturnFromAccept, DestroySocket
<1>4. CASE JoinThread
  BY <1>4 DEF JoinThread
<1>5. CASE FillSlot
  BY <1>5 DEF FillSlot, SlotInv, AcceptorSees
<1>6. CASE CreateThread
  BY <1>6 DEF CreateThread, SlotInv, AcceptorSees
<1>7. CASE CreateFails
  BY <1>7 DEF CreateFails, ReturnFromAccept, DestroySocket
<1>8. CASE IncrementLoad
  BY <1>8 DEF IncrementLoad
<1>9. CASE IncrementStore
  BY <1>9 DEF IncrementStore, ReturnFromAccept
<1> QED
  BY <1>1, <1>2, <1>3, <1>4, <1>5, <1>6, <1>7, <1>8, <1>9 DEF AcceptorNext

LEMMA ThreadDescriptors ==
  ASSUME TypeOK, SlotInv, DescriptorInv, NEW c \in Conn, ThreadNext(c)
  PROVE  DescriptorInv'
<1> USE DEF TypeOK, DescriptorInv, TableMatchesPeers, AcceptorHolds, DescriptorOwned,
            NoDescriptorLeak, Attached, Unjoined, Serving, Goto,
            slotVars, acceptVars, threadVars, countVars
<1>1. CASE Start(c)
  BY <1>1 DEF Start
<1>2. CASE ConnectCallback(c)
  BY <1>2 DEF ConnectCallback
<1>3. CASE EnterPoll(c) \/ LeaveLoop(c) \/ PollReady(c)
  BY <1>3 DEF EnterPoll, LeaveLoop, PollReady
<1>4. CASE PollTimeout(c)
  BY <1>4 DEF PollTimeout
<1>5. CASE HandleMessage(c)
  BY <1>5 DEF HandleMessage, Sender
<1>6. CASE DropClient(c)
  BY <1>6 DEF DropClient
<1>7. CASE DisconnectCallback(c)
  BY <1>7 DEF DisconnectCallback
<1>8. CASE CloseSocket(c)
  BY <1>8 DEF CloseSocket, DestroySocket
<1>9. CASE DecrementLoad(c)
  BY <1>9 DEF DecrementLoad
<1>10. CASE DecrementStore(c)
  BY <1>10 DEF DecrementStore
<1> QED
  BY <1>1, <1>2, <1>3, <1>4, <1>5, <1>6, <1>7, <1>8, <1>9, <1>10 DEF ThreadNext

LEMMA NextDescriptors ==
  TypeOK /\ SlotInv /\ DescriptorInv /\ [Next]_vars => DescriptorInv'
<1> SUFFICES ASSUME TypeOK, SlotInv, DescriptorInv, [Next]_vars
             PROVE  DescriptorInv'
  OBVIOUS
<1> USE DEF DescriptorInv, TableMatchesPeers, AcceptorHolds, DescriptorOwned,
            NoDescriptorLeak, Attached, Unjoined, slotVars, acceptVars, threadVars
<1>1. ASSUME NEW c \in Conn, Kick(c) PROVE DescriptorInv'
  BY <1>1 DEF Kick
<1>2. CASE UNCHANGED vars
  BY <1>2 DEF vars
<1> QED
  BY <1>1, <1>2, PeerDescriptors, AcceptorDescriptors, ThreadDescriptors DEF Next

\* What the table of descriptors holds, and for whom: the inductive invariant.
THEOREM DescriptorsInvariant == Spec => []DescriptorInv
BY SlotsInvariant, InitDescriptors, NextDescriptors, TypeCorrect, PTL DEF Spec

\* A client thread works on its own connection only.
THEOREM DescriptorsCorrect == Spec => []DescriptorOwned
<1>1. DescriptorInv => DescriptorOwned
  BY DEF DescriptorInv
<1> QED
  BY <1>1, DescriptorsInvariant, PTL

\* Every descriptor is closed by someone.
THEOREM DescriptorsClosed == Spec => []NoDescriptorLeak
<1>1. DescriptorInv => NoDescriptorLeak
  BY DEF DescriptorInv
<1> QED
  BY <1>1, DescriptorsInvariant, PTL

----------------------------------------------------------------------------
(* No slot is lost.                                                        *)

\* The steps of the acceptor keep a thread behind every slot that is online.
LEMMA AcceptorKeepsSlots ==
  ASSUME TypeOK, SlotInv, NoSlotLeak, AcceptorNext
  PROVE  NoSlotLeak'
<1> USE DEF TypeOK, NoSlotLeak, slotVars, acceptVars, threadVars
<1>1. ASSUME NEW c \in Conn, Accept(c) PROVE NoSlotLeak'
  BY <1>1 DEF Accept
<1>2. CASE FindFree
  BY <1>2 DEF FindFree
<1>3. CASE Refuse
  BY <1>3 DEF Refuse, ReturnFromAccept
<1>4. CASE JoinThread
  BY <1>4 DEF JoinThread
<1>5. CASE FillSlot
  BY <1>5 DEF FillSlot
<1>6. CASE CreateThread
  BY <1>6 DEF CreateThread, Unjoined
<1>7. CASE CreateFails
  BY <1>7 DEF CreateFails, ReturnFromAccept
<1>8. CASE IncrementLoad
  BY <1>8 DEF IncrementLoad
<1>9. CASE IncrementStore
  BY <1>9 DEF IncrementStore, ReturnFromAccept
<1> QED
  BY <1>1, <1>2, <1>3, <1>4, <1>5, <1>6, <1>7, <1>8, <1>9 DEF AcceptorNext

LEMMA ThreadKeepsSlots ==
  ASSUME TypeOK, SlotInv, NoSlotLeak, NEW c \in Conn, ThreadNext(c)
  PROVE  NoSlotLeak'
<1> USE DEF TypeOK, NoSlotLeak, slotVars, acceptVars, threadVars, Goto
<1>1. CASE Start(c)
  BY <1>1 DEF Start
<1>2. CASE ConnectCallback(c)
  BY <1>2 DEF ConnectCallback
<1>3. CASE EnterPoll(c) \/ PollReady(c)
  BY <1>3 DEF EnterPoll, PollReady
<1>4. CASE LeaveLoop(c)
  BY <1>4 DEF LeaveLoop
<1>5. CASE PollTimeout(c)
  BY <1>5 DEF PollTimeout
<1>6. CASE HandleMessage(c)
  BY <1>6 DEF HandleMessage
<1>7. CASE DropClient(c)
  BY <1>7 DEF DropClient
<1>8. CASE DisconnectCallback(c) \/ CloseSocket(c) \/ DecrementLoad(c) \/ DecrementStore(c)
  BY <1>8 DEF DisconnectCallback, CloseSocket, DecrementLoad, DecrementStore
<1> QED
  BY <1>1, <1>2, <1>3, <1>4, <1>5, <1>6, <1>7, <1>8 DEF ThreadNext

LEMMA NextKeepsSlots == TypeOK /\ SlotInv /\ NoSlotLeak /\ [Next]_vars => NoSlotLeak'
<1> SUFFICES ASSUME TypeOK, SlotInv, NoSlotLeak, [Next]_vars PROVE NoSlotLeak'
  OBVIOUS
<1> USE DEF NoSlotLeak, slotVars, acceptVars, threadVars
<1>1. ASSUME NEW c \in Conn, Kick(c) PROVE NoSlotLeak'
  BY <1>1 DEF Kick, TypeOK
<1>2. ASSUME NEW c \in Conn, PeerNext(c) PROVE NoSlotLeak'
  BY <1>2 DEF PeerNext, Connect, StartMessage, FinishMessage, SpoilMessage,
              HangUp, Peer
<1>3. CASE UNCHANGED vars
  BY <1>3 DEF vars
<1> QED
  BY <1>1, <1>2, <1>3, AcceptorKeepsSlots, ThreadKeepsSlots DEF Next

\* A slot that is online has a thread that will take it off line.
THEOREM SlotsNotLost == Spec => []NoSlotLeak
<1>1. Spec => []SlotInv
  BY SlotsInvariant
<1> QED
  BY <1>1, InitDescriptors, NextKeepsSlots, TypeCorrect, PTL DEF Spec

----------------------------------------------------------------------------
(* The count of clients.                                                   *)

\* A number with remainder r is r more than a multiple of the modulus.
LEMMA Remainder ==
  ASSUME NEW n \in Int, NEW q \in Int, NEW r \in 0 .. CountMod - 1, n = q * CountMod + r
  PROVE  n % CountMod = r
OBVIOUS

\* Counting one up or down and wrapping around, from a count that has wrapped.
LEMMA CountOneMore == ASSUME NEW n \in Int PROVE ((n % CountMod) + 1) % CountMod = (n + 1) % CountMod
<1> DEFINE q == n \div CountMod
           r == n % CountMod
<1>1. q \in Int /\ r \in 0 .. CountMod - 1 /\ n = q * CountMod + r
  OBVIOUS
<1> HIDE DEF q, r
<1>2. CASE r + 1 < CountMod
  <2>1. (n + 1) = q * CountMod + (r + 1) /\ r + 1 \in 0 .. CountMod - 1
    BY <1>1, <1>2
  <2>2. (n + 1) % CountMod = r + 1
    BY <2>1, <1>1, Remainder
  <2>3. (r + 1) % CountMod = r + 1
    BY <2>1, Remainder
  <2> QED
    BY <2>2, <2>3 DEF r
<1>3. CASE r + 1 = CountMod
  <2>1. (n + 1) = (q + 1) * CountMod + 0
    BY <1>1, <1>3
  <2>2. (n + 1) % CountMod = 0
    BY <2>1, <1>1, Remainder
  <2>3. (r + 1) % CountMod = 0
    BY <1>1, <1>3
  <2> QED
    BY <2>2, <2>3 DEF r
<1> QED
  BY <1>1, <1>2, <1>3

LEMMA CountOneLess == ASSUME NEW n \in Int PROVE ((n % CountMod) - 1) % CountMod = (n - 1) % CountMod
<1> DEFINE q == n \div CountMod
           r == n % CountMod
<1>1. q \in Int /\ r \in 0 .. CountMod - 1 /\ n = q * CountMod + r
  OBVIOUS
<1> HIDE DEF q, r
<1>2. CASE r > 0
  <2>1. (n - 1) = q * CountMod + (r - 1) /\ r - 1 \in 0 .. CountMod - 1
    BY <1>1, <1>2
  <2>2. (n - 1) % CountMod = r - 1
    BY <2>1, <1>1, Remainder
  <2>3. (r - 1) % CountMod = r - 1
    BY <2>1, Remainder
  <2> QED
    BY <2>2, <2>3 DEF r
<1>3. CASE r = 0
  <2>1. (n - 1) = (q - 1) * CountMod + (CountMod - 1) /\ CountMod - 1 \in 0 .. CountMod - 1
    BY <1>1, <1>3
  <2>2. (n - 1) % CountMod = CountMod - 1
    BY <2>1, <1>1, Remainder
  <2>3. -1 = (-1) * CountMod + (CountMod - 1)
    OBVIOUS
  <2>4. (-1) % CountMod = CountMod - 1
    BY <2>1, <2>3, Remainder
  <2> QED
    BY <2>2, <2>4, <1>3 DEF r
<1> QED
  BY <1>1, <1>2, <1>3

\* The threads that are to be counted, and one less while the acceptor has
\* created a thread that it has not counted yet.
Counted == {c \in Conn : Attached(c) \/ tpc[c] \in {"load", "store"}}
Uncounted == IF apc \in {"load", "store"} THEN 1 ELSE 0
Clients == Cardinality(Counted) - Uncounted

\* Why CountExact is kept: without overlap, one thread updates at a time, and
\* what it has loaded is still the count.
CountInv ==
  /\ IsFiniteSet(Counted)
  /\ ~torn =>
       /\ curLogin = Clients % CountMod
       /\ apc = "store" => areg = curLogin /\ \A c \in Conn : tpc[c] # "store"
       /\ \A c \in Conn : tpc[c] = "store" => treg[c] = curLogin
       /\ \A c, d \in Conn : tpc[c] = "store" /\ tpc[d] = "store" => c = d

LEMMA InitCount == Init => CountInv
<1> SUFFICES ASSUME Init PROVE CountInv
  OBVIOUS
<1>1. Counted = {}
  BY DEF Init, Counted, Attached, Serving
<1>2. Clients = 0 /\ 0 % CountMod = 0
  BY <1>1, FS_EmptySet DEF Init, Clients, Uncounted
<1> QED
  BY <1>1, <1>2, FS_EmptySet DEF Init, CountInv

\* Clients is a number.
LEMMA ClientsType == IsFiniteSet(Counted) => Cardinality(Counted) \in Nat /\ Clients \in Int
BY FS_CardinalityType DEF Clients, Uncounted

\* What a step leaves alone when it neither counts nor moves a counted thread.
LEMMA CountKept ==
  ASSUME CountInv, Counted' = Counted, Uncounted' = Uncounted,
         UNCHANGED <<areg, treg, curLogin, torn>>,
         apc' = "store" <=> apc = "store",
         \A c \in Conn : tpc'[c] = "store" <=> tpc[c] = "store"
  PROVE  CountInv'
BY DEF CountInv, Clients

LEMMA AcceptorCount ==
  ASSUME TypeOK, CountInv, AcceptorNext
  PROVE  CountInv'
<1> USE DEF slotVars, acceptVars, threadVars, countVars
<1>1. CASE (\E c \in Conn : Accept(c)) \/ FindFree \/ Refuse \/ FillSlot \/ CreateFails
  <2>1. /\ UNCHANGED <<tpc, treg, curLogin, torn>>
        /\ apc \in {"select", "find", "fill", "create"}
        /\ apc' \in {"select", "find", "join", "fill", "create"}
    BY <1>1 DEF Accept, FindFree, Refuse, FillSlot, CreateFails, ReturnFromAccept
  <2>2. Counted' = Counted
    BY <2>1 DEF Counted, Attached
  <2> QED
    BY <2>1, <2>2 DEF CountInv, Clients, Uncounted
<1>2. CASE JoinThread
  <2>1. PICK c \in Conn : tpc[c] = "exited" /\ tpc' = [tpc EXCEPT ![c] = "joined"]
    BY <1>2 DEF JoinThread
  <2>2. UNCHANGED <<treg, areg, curLogin, torn>> /\ apc = "join" /\ apc' = "fill"
    BY <1>2 DEF JoinThread
  <2>3. tpc'[c] = "joined" /\ \A d \in Conn : d # c => tpc'[d] = tpc[d]
    BY <2>1 DEF TypeOK
  <2>4. Counted' = Counted
    BY <2>1, <2>3 DEF Counted, Attached, Serving
  <2> QED
    BY <2>1, <2>2, <2>3, <2>4, CountKept DEF Uncounted
<1>3. CASE CreateThread
  <2>1. PICK c \in Conn : ~Unjoined(c) /\ tpc' = [tpc EXCEPT ![c] = "start"]
    BY <1>3 DEF CreateThread
  <2>2. UNCHANGED <<treg, areg, curLogin, torn>> /\ apc = "create" /\ apc' = "load"
    BY <1>3 DEF CreateThread
  <2>3. tpc'[c] = "start" /\ \A d \in Conn : d # c => tpc'[d] = tpc[d]
    BY <2>1 DEF TypeOK
  <2>4. c \notin Counted /\ Counted' = Counted \cup {c}
    BY <2>1, <2>3 DEF Counted, Unjoined, Attached, Serving
  <2>5. IsFiniteSet(Counted) /\ Cardinality(Counted) \in Nat
    BY ClientsType DEF CountInv
  <2>6. IsFiniteSet(Counted') /\ Cardinality(Counted') = Cardinality(Counted) + 1
    BY <2>4, <2>5, FS_AddElement
  <2>7. Clients' = Clients
    BY <2>2, <2>5, <2>6 DEF Clients, Uncounted
  <2>8. tpc[c] # "store"
    BY <2>1 DEF Unjoined
  <2> QED
    BY <2>2, <2>3, <2>6, <2>7, <2>8 DEF CountInv
<1>4. CASE IncrementLoad
  <2>1. /\ UNCHANGED <<tpc, treg, curLogin>> /\ apc = "load" /\ apc' = "store" /\ areg' = curLogin
        /\ torn' = (torn \/ Updating)
    BY <1>4 DEF IncrementLoad, LoadCount
  <2>2. Counted' = Counted
    BY <2>1 DEF Counted, Attached
  <2> QED
    BY <2>1, <2>2 DEF CountInv, Clients, Uncounted, Updating
<1>5. CASE IncrementStore
  <2>1. /\ UNCHANGED <<tpc, treg, torn>> /\ apc = "store" /\ apc' = "select"
        /\ curLogin' = (areg + 1) % CountMod
    BY <1>5 DEF IncrementStore, StoreCount, ReturnFromAccept
  <2>2. Counted' = Counted
    BY <2>1 DEF Counted, Attached
  <2>3. Clients \in Int /\ Clients' = Clients + 1
    BY <2>1, <2>2, ClientsType DEF CountInv, Clients, Uncounted
  <2>4. ~torn => curLogin' = Clients' % CountMod
    BY <2>1, <2>3, CountOneMore DEF CountInv
  <2> QED
    BY <2>1, <2>2, <2>4 DEF CountInv
<1> QED
  BY <1>1, <1>2, <1>3, <1>4, <1>5 DEF AcceptorNext

LEMMA ThreadCount ==
  ASSUME TypeOK, CountInv, NEW c \in Conn, ThreadNext(c)
  PROVE  CountInv'
<1> USE DEF slotVars, acceptVars, threadVars, countVars
<1>1. ASSUME NEW to \in Serving \cup {"load"}, UNCHANGED <<apc, areg, treg, curLogin, torn>>,
             tpc[c] \in Serving, tpc' = [tpc EXCEPT ![c] = to]
      PROVE  CountInv'
  <2>1. tpc'[c] = to /\ \A d \in Conn : d # c => tpc'[d] = tpc[d]
    BY <1>1 DEF TypeOK
  <2>2. Counted' = Counted
    BY <1>1, <2>1 DEF Counted, Attached
  <2> QED
    BY <1>1, <2>1, <2>2, CountKept DEF Uncounted, Serving
<1>2. CASE Start(c) \/ ConnectCallback(c) \/ EnterPoll(c) \/ LeaveLoop(c)
  BY <1>1, <1>2 DEF Start, ConnectCallback, EnterPoll, LeaveLoop, Goto, Serving
<1>3. CASE PollReady(c) \/ PollTimeout(c) \/ HandleMessage(c) \/ DropClient(c)
  BY <1>1, <1>3 DEF PollReady, PollTimeout, HandleMessage, DropClient, Goto, Serving
<1>4. CASE DisconnectCallback(c) \/ CloseSocket(c)
  BY <1>1, <1>4 DEF DisconnectCallback, CloseSocket, Goto, Serving
<1>5. CASE DecrementLoad(c)
  <2>1. /\ UNCHANGED <<apc, areg, curLogin>> /\ torn' = (torn \/ Updating)
        /\ tpc[c] = "load" /\ tpc'[c] = "store" /\ treg'[c] = curLogin
        /\ \A d \in Conn : d # c => tpc'[d] = tpc[d] /\ treg'[d] = treg[d]
    BY <1>5 DEF DecrementLoad, LoadCount, Goto, TypeOK
  <2>2. Counted' = Counted
    BY <2>1 DEF Counted, Attached, Serving
  <2> QED
    BY <2>1, <2>2 DEF CountInv, Clients, Uncounted, Updating
<1>6. CASE DecrementStore(c)
  <2>1. /\ UNCHANGED <<apc, areg, torn>> /\ curLogin' = (treg[c] - 1) % CountMod
        /\ tpc[c] = "store" /\ tpc'[c] = "exited"
        /\ \A d \in Conn : d # c => tpc'[d] = tpc[d] /\ treg'[d] = treg[d]
    BY <1>6 DEF DecrementStore, StoreCount, Goto, TypeOK
  <2>2. c \in Counted /\ Counted' = Counted \ {c}
    BY <2>1 DEF Counted, Attached, Serving
  <2>3. IsFiniteSet(Counted) /\ Cardinality(Counted) \in Nat /\ Clients \in Int
    BY ClientsType DEF CountInv
  <2>4. IsFiniteSet(Counted') /\ Cardinality(Counted') = Cardinality(Counted) - 1
    BY <2>2, <2>3, FS_RemoveElement
  <2>5. Clients' = Clients - 1
    BY <2>1, <2>3, <2>4 DEF Clients, Uncounted
  <2>6. ~torn => curLogin' = Clients' % CountMod
    BY <2>1, <2>3, <2>5, CountOneLess DEF CountInv
  <2>7. ~torn => apc # "store" /\ \A d \in Conn : d # c => tpc[d] # "store"
    BY <2>1 DEF CountInv
  <2> QED
    BY <2>1, <2>4, <2>6, <2>7 DEF CountInv
<1> QED
  BY <1>2, <1>3, <1>4, <1>5, <1>6 DEF ThreadNext

LEMMA NextCount == TypeOK /\ CountInv /\ [Next]_vars => CountInv'
<1> SUFFICES ASSUME TypeOK, CountInv, [Next]_vars PROVE CountInv'
  OBVIOUS
<1>1. ASSUME UNCHANGED <<acceptVars, threadVars, countVars>> PROVE CountInv'
  BY <1>1 DEF acceptVars, threadVars, countVars, CountInv, Counted, Attached, Clients, Uncounted
<1>2. ASSUME NEW c \in Conn, PeerNext(c) \/ Kick(c) PROVE CountInv'
  BY <1>1, <1>2 DEF PeerNext, Connect, StartMessage, FinishMessage, SpoilMessage, HangUp, Peer, Kick
<1>3. CASE UNCHANGED vars
  BY <1>1, <1>3 DEF vars
<1> QED
  BY <1>2, <1>3, AcceptorCount, ThreadCount DEF Next

\* s_nCurLoginCount is the number of client threads, whatever their number and
\* the width of the counter, as long as no two updates of it overlap.
THEOREM CountsClients == Spec => []CountExact
<1>1. Spec => []CountInv
  BY InitCount, NextCount, TypeCorrect, PTL DEF Spec
<1>2. CountInv => CountExact
  BY DEF CountInv, CountExact, Clients, Counted, Uncounted
<1> QED
  BY <1>1, <1>2, PTL

----------------------------------------------------------------------------
(* ClientSlots implements ResourcePool.                                    *)

Holds(c, s) == Attached(c) /\ tslot[c] = s

\* With one thread per slot, the owner of a slot is the thread attached to it.
LEMMA OwnerIsThread ==
  ASSUME OneThreadPerSlot
  PROVE  /\ owner = [s \in Slots |-> owner[s]]
         /\ \A s \in Slots, c \in Conn : owner[s] = c <=> Holds(c, s)
         /\ \A s \in Slots : owner[s] = None <=> \A c \in Conn : ~Holds(c, s)
<1>1. owner = [s \in Slots |-> owner[s]]
  BY DEF owner
<1>2. ASSUME NEW s \in Slots, NEW c \in Conn, Holds(c, s) PROVE owner[s] = c
  <2>1. \A d \in Conn : Holds(d, s) => d = c
    BY <1>2 DEF Holds, OneThreadPerSlot, Attached, Unjoined, Serving
  <2> QED
    BY <1>2, <2>1 DEF owner, Holds
<1>3. ASSUME NEW s \in Slots, \A c \in Conn : ~Holds(c, s) PROVE owner[s] = None
  BY <1>3 DEF owner, Holds
<1> QED
  BY <1>1, <1>2, <1>3

\* The same for the next state.
LEMMA NextOwnerIsThread ==
  ASSUME OneThreadPerSlot'
  PROVE  /\ owner' = [s \in Slots |-> owner'[s]]
         /\ \A s \in Slots, c \in Conn : owner'[s] = c <=> Holds(c, s)'
         /\ \A s \in Slots : owner'[s] = None <=> \A c \in Conn : ~Holds(c, s)'
<1>1. owner' = [s \in Slots |-> owner'[s]]
  BY DEF owner
<1>2. ASSUME NEW s \in Slots, NEW c \in Conn, Holds(c, s)' PROVE owner'[s] = c
  <2>1. \A d \in Conn : Holds(d, s)' => d = c
    BY <1>2 DEF Holds, OneThreadPerSlot, Attached, Unjoined, Serving
  <2> QED
    BY <1>2, <2>1 DEF owner, Holds
<1>3. ASSUME NEW s \in Slots, \A c \in Conn : ~Holds(c, s)' PROVE owner'[s] = None
  BY <1>3 DEF owner, Holds
<1> QED
  BY <1>1, <1>2, <1>3

\* A step that neither attaches nor detaches a thread is a stutter.
LEMMA OwnerUnchanged ==
  ASSUME OneThreadPerSlot, OneThreadPerSlot',
         \A c \in Conn, s \in Slots : Holds(c, s)' <=> Holds(c, s)
  PROVE  owner' = owner
<1>1. ASSUME NEW s \in Slots PROVE owner'[s] = owner[s]
  <2>1. CASE \E c \in Conn : Holds(c, s)
    BY <2>1, OwnerIsThread, NextOwnerIsThread
  <2>2. CASE \A c \in Conn : ~Holds(c, s)
    BY <2>2, OwnerIsThread, NextOwnerIsThread
  <2> QED
    BY <2>1, <2>2
<1> QED
  BY <1>1, OwnerIsThread, NextOwnerIsThread

\* pthread_create gives the free slot to the accepted connection.
LEMMA CreateAcquires ==
  ASSUME TypeOK, SlotInv, OneThreadPerSlot, OneThreadPerSlot', CreateThread
  PROVE  \E c \in Conn, s \in Slots : Pool!Acquire(c, s)
<1>1. PICK c \in Conn : /\ ~Unjoined(c)
                        /\ tpc' = [tpc EXCEPT ![c] = "start"]
                        /\ tslot' = [tslot EXCEPT ![c] = aidx]
  BY DEF CreateThread
<1>2. /\ aidx' = aidx /\ Holds(c, aidx)'
      /\ \A d \in Conn, s \in Slots : d # c => (Holds(d, s)' <=> Holds(d, s))
      /\ \A s \in Slots : s # aidx => ~Holds(c, s)'
      /\ \A s \in Slots : ~Holds(c, s)
      /\ \A d \in Conn : ~Holds(d, aidx)
  BY <1>1 DEF TypeOK, Holds, Attached, Unjoined, Serving, SlotInv, AcceptorSees,
              CreateThread
<1>3. owner[aidx] = None /\ \A s \in Slots : owner[s] # c
  BY <1>2, OwnerIsThread DEF TypeOK
<1>4. owner'[aidx] = c
  BY <1>2, NextOwnerIsThread DEF TypeOK
<1>5. ASSUME NEW s \in Slots, s # aidx PROVE owner'[s] = owner[s]
  <2>1. CASE \E d \in Conn : Holds(d, s)
    BY <1>2, <1>5, <2>1, OwnerIsThread, NextOwnerIsThread
  <2>2. CASE \A d \in Conn : ~Holds(d, s)
    BY <1>2, <1>5, <2>2, OwnerIsThread, NextOwnerIsThread
  <2> QED
    BY <2>1, <2>2
<1>6. owner' = [owner EXCEPT ![aidx] = c]
  BY <1>4, <1>5, OwnerIsThread, NextOwnerIsThread DEF TypeOK
<1> QED
  BY <1>3, <1>6 DEF Pool!Acquire, TypeOK

\* A thread that has closed its socket has given its slot back.
LEMMA CloseReleases ==
  ASSUME TypeOK, OneThreadPerSlot, OneThreadPerSlot', NEW c \in Conn, CloseSocket(c)
  PROVE  \E s \in Slots : Pool!Release(s)
<1> DEFINE r == tslot[c]
<1>1. r \in Slots
  BY DEF TypeOK
<1>2. /\ Holds(c, r)
      /\ \A s \in Slots : ~Holds(c, s)'
      /\ \A d \in Conn, s \in Slots : d # c => (Holds(d, s)' <=> Holds(d, s))
  BY DEF TypeOK, CloseSocket, Goto, Holds, Attached, Serving
<1>3. owner[r] # None
  BY <1>1, <1>2, OwnerIsThread
<1>4. owner'[r] = None
  <2>1. \A d \in Conn : d # c => ~Holds(d, r)
    BY <1>2 DEF Holds, OneThreadPerSlot, Attached, Unjoined, Serving
  <2> QED
    BY <1>1, <1>2, <2>1, NextOwnerIsThread
<1>5. ASSUME NEW s \in Slots, s # r PROVE owner'[s] = owner[s]
  <2>1. ~Holds(c, s)
    BY <1>5 DEF Holds
  <2>2. CASE \E d \in Conn : Holds(d, s)
    BY <1>2, <2>1, <2>2, OwnerIsThread, NextOwnerIsThread
  <2>3. CASE \A d \in Conn : ~Holds(d, s)
    BY <1>2, <2>1, <2>3, OwnerIsThread, NextOwnerIsThread
  <2> QED
    BY <2>2, <2>3
<1>6. owner' = [owner EXCEPT ![r] = None]
  BY <1>1, <1>4, <1>5, OwnerIsThread, NextOwnerIsThread
<1> QED
  BY <1>1, <1>3, <1>6 DEF Pool!Release

LEMMA StepImplementsPool ==
  ASSUME TypeOK, SlotInv, OneThreadPerSlot, OneThreadPerSlot', [Next]_vars
  PROVE  [Pool!Next]_owner
<1> DEFINE Same == \A c \in Conn, s \in Slots : Holds(c, s)' <=> Holds(c, s)
<1> USE DEF TypeOK, Holds, Attached, Serving, slotVars, acceptVars, threadVars, Goto
<1>1. CASE CreateThread
  BY <1>1, CreateAcquires DEF Pool!Next
<1>2. ASSUME NEW c \in Conn, CloseSocket(c) PROVE [Pool!Next]_owner
  BY <1>2, CloseReleases DEF Pool!Next
<1>3. ASSUME NEW c \in Conn, Accept(c) \/ PeerNext(c) \/ Kick(c) PROVE Same
  BY <1>3 DEF Accept, PeerNext, Connect, StartMessage, FinishMessage,
              SpoilMessage, HangUp, Peer, Kick
<1>4. CASE FindFree \/ Refuse \/ FillSlot \/ CreateFails \/ IncrementLoad \/ IncrementStore
  <2>1. Same
    BY <1>4 DEF FindFree, Refuse, FillSlot, CreateFails, IncrementLoad, IncrementStore
  <2> QED
    BY <2>1, OwnerUnchanged
<1>5. CASE JoinThread
  <2>1. Same
    BY <1>5 DEF JoinThread
  <2> QED
    BY <2>1, OwnerUnchanged
<1>6. ASSUME NEW c \in Conn,
             \/ Start(c) \/ ConnectCallback(c) \/ EnterPoll(c) \/ LeaveLoop(c)
             \/ PollReady(c) \/ PollTimeout(c)
      PROVE  Same
  BY <1>6 DEF Start, ConnectCallback, EnterPoll, LeaveLoop, PollReady, PollTimeout
<1>7. ASSUME NEW c \in Conn,
             \/ HandleMessage(c) \/ DropClient(c) \/ DisconnectCallback(c)
             \/ DecrementLoad(c) \/ DecrementStore(c)
      PROVE  Same
  BY <1>7 DEF HandleMessage, DropClient, DisconnectCallback, DecrementLoad,
              DecrementStore
<1>8. CASE UNCHANGED vars
  <2>1. Same
    BY <1>8 DEF vars
  <2> QED
    BY <2>1, OwnerUnchanged
<1> QED
  BY <1>1, <1>2, <1>3, <1>4, <1>5, <1>6, <1>7, <1>8, OwnerUnchanged
     DEF Next, AcceptorNext, ThreadNext

LEMMA InitImplementsPool == Init => Pool!Init
BY DEF Init, Pool!Init, owner, Attached, Serving

\* A slot is given to one connection at a time and released by its thread.
THEOREM SlotsArePool == Spec => ImplementsPool
<1>1. Spec => [](TypeOK /\ SlotInv)
  BY InitSlots, NextSlots, TypeCorrect, PTL DEF Spec
<1>2. Spec => []OneThreadPerSlot
  BY SlotsCorrect, PTL
<1>3. TypeOK /\ SlotInv /\ OneThreadPerSlot /\ OneThreadPerSlot' /\ [Next]_vars
        => [Pool!Next]_owner
  BY StepImplementsPool
<1> QED
  BY <1>1, <1>2, <1>3, InitImplementsPool, PTL DEF Spec, ImplementsPool, Pool!Spec
=============================================================================
