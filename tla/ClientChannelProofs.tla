------------------------ MODULE ClientChannelProofs ------------------------
(***************************************************************************)
(* Proofs about ClientChannel, for every number of threads that queue      *)
(* messages and every bound on the conversation.                           *)
(***************************************************************************)
EXTENDS ClientChannel, PacketFormatProofs, SequenceTheorems

----------------------------------------------------------------------------
(* The blocks of the queue and the packet made of them.                    *)

\* The blocks of the queue are those of messages; their numbers are naturals.
LEMMA IdsType ==
  ASSUME NEW q \in Seq(BlockType)
  PROVE  /\ Ids(q) \in Seq(1 .. MaxMessage) /\ Len(Ids(q)) = Len(q)
         /\ Numbers(q) \in Seq(Nat) /\ Len(Numbers(q)) = Len(q)
<1>1. \A i \in 1 .. Len(q) : q[i] \in BlockType
  BY ElementOfSeq
<1>2. ASSUME NEW b \in BlockType
      PROVE  b.id \in 1 .. MaxMessage /\ b.no \in Nat
  <2>1. b.id \in 1 .. MaxMessage /\ b.no \in 0 .. 255
    BY DEF BlockType
  <2>2. \A n \in 0 .. 255 : n \in Nat
    OBVIOUS
  <2> QED
    BY <2>1, <2>2, Zenon
<1>3. Len(q) \in Nat
  BY LenProperties
<1>4. Ids(q) \in Seq(1 .. MaxMessage) /\ Len(Ids(q)) = Len(q)
  BY <1>1, <1>2, <1>3 DEF Ids
<1>5. Numbers(q) \in Seq(Nat) /\ Len(Numbers(q)) = Len(q)
  BY <1>1, <1>2, <1>3 DEF Numbers
<1> QED
  BY <1>4, <1>5

\* A block that is queued goes behind the others.
LEMMA IdsAppend ==
  ASSUME NEW q \in Seq(BlockType), NEW b \in BlockType
  PROVE  Ids(Append(q, b)) = Append(Ids(q), b.id)
<1>1. b.id \in 1 .. MaxMessage
  BY DEF BlockType
<1>2. /\ Append(q, b) \in Seq(BlockType) /\ Len(Append(q, b)) = Len(q) + 1
      /\ \A i \in 1 .. Len(q) : Append(q, b)[i] = q[i]
      /\ Append(q, b)[Len(q) + 1] = b
      /\ Len(q) \in Nat
  BY AppendProperties, LenProperties
<1>3. /\ Append(Ids(q), b.id) \in Seq(1 .. MaxMessage)
      /\ Len(Append(Ids(q), b.id)) = Len(q) + 1
      /\ \A i \in 1 .. Len(q) : Append(Ids(q), b.id)[i] = Ids(q)[i]
      /\ Append(Ids(q), b.id)[Len(q) + 1] = b.id
  BY <1>1, IdsType, AppendProperties
<1>4. Ids(Append(q, b)) \in Seq(1 .. MaxMessage) /\ Len(Ids(Append(q, b))) = Len(q) + 1
  BY <1>2, IdsType
<1>5. \A i \in 1 .. Len(q) + 1 : Ids(Append(q, b))[i] = Append(Ids(q), b.id)[i]
  BY <1>2, <1>3 DEF Ids
<1> QED
  BY <1>3, <1>4, <1>5, SeqEqual

\* Appending to the second of two joined sequences appends to the whole.
LEMMA ConcatAppend ==
  ASSUME NEW S, NEW s \in Seq(S), NEW t \in Seq(S), NEW x \in S
  PROVE  s \o Append(t, x) = Append(s \o t, x)
<1>1. <<x>> \in Seq(S)
  OBVIOUS
<1>2. Append(t, x) = t \o <<x>> /\ Append(s \o t, x) = (s \o t) \o <<x>>
  BY AppendIsConcat, ConcatProperties
<1> QED
  BY <1>1, <1>2, ConcatAssociative

\* The packet of the queue is one, with a bit for each block.
LEMMA PacketType ==
  ASSUME NEW n \in 0 .. MaxRequest, NEW q \in Seq(BlockType)
  PROVE  Packet(n, q) \in AnswerType /\ Packet(n, q).blocks = Ids(q)
<1>1. /\ Ids(q) \in Seq(1 .. MaxMessage) /\ Flags(Numbers(q)) \in Seq({0, 1})
      /\ Len(Flags(Numbers(q))) = Len(Ids(q))
  BY IdsType, FlagsType
<1> QED
  BY <1>1 DEF Packet, AnswerType

\* So are the answers without data.
LEMMA AnswersType ==
  ASSUME NEW n \in 0 .. MaxRequest
  PROVE  /\ NoPacket \in AnswerType /\ Confirm(n) \in AnswerType /\ AskFor(n) \in AnswerType
         /\ Registered \in AnswerType /\ Kicked \in AnswerType
<1>1. <<>> \in Seq(1 .. MaxMessage) /\ <<>> \in Seq({0, 1})
  BY EmptySeq
<1>2. 0 \in 0 .. MaxRequest
  BY BoundAssumption
<1> QED
  BY <1>1, <1>2 DEF NoPacket, Confirm, AskFor, Registered, Kicked, AnswerType

\* The messages a packet is unpacked into.
LEMMA UnpackType ==
  ASSUME NEW S, NEW blocks \in Seq(S), NEW flags \in Seq({0, 1}), Len(flags) = Len(blocks)
  PROVE  Unpack(blocks, flags) \in Seq(Seq(S))
<1> DEFINE Preceding(k) == Cardinality({i \in 1 .. Len(flags) : Places(flags)[i] < k})
           count == CountMessages(flags)
<1>1. count \in Nat
  <2>1. Len(flags) \in Nat /\ (flags # <<>> => Len(flags) \in 1 .. Len(flags))
    BY EmptySeq, LenProperties
  <2>2. CASE flags = <<>>
    BY <2>2 DEF CountMessages
  <2>3. CASE flags # <<>>
    <3>1. count = Cardinality(Changes(flags, 1, Len(flags))) - 1 + 1
      BY <2>1, <2>3 DEF CountMessages, Places
    <3> QED
      BY <3>1, <2>1, ChangesFinite
  <2> QED
    BY <2>2, <2>3
<1>2. ASSUME NEW k \in Int
      PROVE  Preceding(k) \in 0 .. Len(flags)
  <2> DEFINE P == {i \in 1 .. Len(flags) : Places(flags)[i] < k}
  <2>0. Len(flags) \in Nat
    BY LenProperties
  <2>1. IsFiniteSet(1 .. Len(flags)) /\ Cardinality(1 .. Len(flags)) = Len(flags)
    <3> HIDE DEF P, Preceding, count
    <3>1. 0 \in Int /\ 1 \in Int /\ Len(flags) \in Int /\ Len(flags) - 1 + 1 = Len(flags)
      BY <2>0
    <3>2. /\ IsFiniteSet(1 .. Len(flags))
          /\ Cardinality(1 .. Len(flags)) = IF 1 > Len(flags) THEN 0 ELSE Len(flags) - 1 + 1
      BY <3>1, FS_Interval
    <3> QED
      BY <3>1, <3>2, <2>0
  <2>2. P \subseteq 1 .. Len(flags)
    OBVIOUS
  <2>3. IsFiniteSet(P) /\ Cardinality(P) <= Len(flags) /\ Cardinality(P) \in Nat
    <3> HIDE DEF P, Preceding, count
    <3> QED
      BY <2>1, <2>2, FS_Subset, FS_CardinalityType
  <2> QED
    BY <2>0, <2>3
<1>3. ASSUME NEW k \in 1 .. count
      PROVE  SubSeq(blocks, Preceding(k - 1) + 1, Preceding(k)) \in Seq(S)
  <2>1. Preceding(k) \in 0 .. Len(flags) /\ Preceding(k - 1) \in 0 .. Len(flags)
    BY <1>2
  <2> HIDE DEF Preceding
  <2>2. \A i \in Preceding(k - 1) + 1 .. Preceding(k) : blocks[i] \in S
    BY <2>1, ElementOfSeq, LenProperties
  <2> QED
    BY <2>1, <2>2, SubSeqProperties
<1>4. Unpack(blocks, flags) =
        [k \in 1 .. count |-> SubSeq(blocks, Preceding(k - 1) + 1, Preceding(k))]
  BY DEF Unpack
<1> HIDE DEF Preceding, count
<1> QED
  BY <1>1, <1>3, <1>4

----------------------------------------------------------------------------
(* The types.                                                              *)

\* A fresh connection.
LEMMA InitInv == Init => TypeOK /\ QueueInv
<1> SUFFICES ASSUME Init PROVE TypeOK /\ QueueInv
  OBVIOUS
<1>1. NoPacket \in AnswerType /\ 0 \in 0 .. MaxRequest /\ 0 \in 0 .. MaxMessage
  BY AnswersType, BoundAssumption
<1>2. /\ toServer \in Seq(RequestType) /\ toClient \in Seq(AnswerType)
      /\ got \in Seq(Seq(1 .. MaxMessage)) /\ queue \in Seq(BlockType)
      /\ processed \in Seq(0 .. MaxRequest)
      /\ accepted \in Seq(1 .. MaxMessage) /\ sent \in Seq(1 .. MaxMessage)
      /\ Len(queue) = 0
  BY EmptySeq DEF Init
<1>3. TypeOK
  <2>1. Len(queue) <= MaxBlock
    BY <1>2, MaxBlockAssumption
  <2>2. /\ qpc \in [Actors -> {"idle", "lock", "copy", "number"}]
        /\ msg \in [Actors -> 0 .. MaxMessage] /\ left \in [Actors -> Nat]
    BY <1>1 DEF Init
  <2>3. /\ cNo \in 0 .. MaxRequest /\ cWait \in BOOLEAN /\ packRef \in 0 .. MaxRequest
        /\ curPacketNo \in Nat /\ sendBuffer \in AnswerType /\ mutex \in Actors \cup {None}
    BY <1>1 DEF Init
  <2>4. /\ oneTime \in BOOLEAN /\ sendDone \in BOOLEAN /\ online \in BOOLEAN
        /\ spc = "poll" /\ nMessage \in 0 .. MaxMessage /\ nLate \in Nat
        /\ due \in Nat /\ dropped \in 0 .. MaxRequest
    BY <1>1 DEF Init
  <2> QED
    BY <1>2, <2>1, <2>2, <2>3, <2>4, SMTT(30) DEF TypeOK
<1>4. sent \o Ids(queue) = accepted
  BY DEF Init, Ids
<1>5. QueueInv
  BY <1>4 DEF Init, QueueInv, MutexTells, RoomForBlock, PacketIsQueue, NothingLost, Actors
<1> QED
  BY <1>3, <1>5

\* What a client takes off the wire is an answer.
LEMMA ReceiveType ==
  ASSUME TypeOK, NEW a, Receive(a)
  PROVE  a \in AnswerType /\ toClient' \in Seq(AnswerType)
BY HeadTailProperties DEF TypeOK, Receive

\* What its thread reads is a request.
LEMMA ReadType ==
  ASSUME TypeOK, Read
  PROVE  Request \in RequestType /\ toServer' \in Seq(RequestType)
BY HeadTailProperties DEF TypeOK, Read, Request

\* The thread goes back to poll or leaves its loop.
LEMMA BackType ==
  ASSUME TypeOK, NEW on \in BOOLEAN, Back(on)
  PROVE  online' \in BOOLEAN /\ spc' \in {"poll", "closed"} /\ cWait' \in BOOLEAN
BY DEF Back, TypeOK

\* Every step of the client keeps the types.
LEMMA ClientTypes ==
  ASSUME TypeOK, ClientNext
  PROVE  TypeOK'
<1> USE DEF wires, client, server, queueVars, calls, histories, counters
<1>1. CASE SendRequest
  <2>1. PICK type \in {"data", "damaged"} : Submit(type, cNo + 1)
    BY <1>1 DEF SendRequest
  <2>0. cNo < MaxRequest /\ cNo \in 0 .. MaxRequest /\ MaxRequest \in Nat
    BY <1>1, BoundAssumption DEF SendRequest, TypeOK
  <2>2. cNo + 1 \in 0 .. MaxRequest
    BY <2>0
  <2>3. [type |-> type, no |-> cNo + 1] \in RequestType
    BY <2>2 DEF RequestType
  <2>4. toServer' \in Seq(RequestType)
    BY <2>1, <2>3, AppendProperties DEF Submit, TypeOK
  <2> QED
    BY <1>1, <2>2, <2>4 DEF SendRequest, TypeOK
<1>2. CASE SendTwice
  <2>1. [type |-> "data", no |-> cNo] \in RequestType
    BY DEF RequestType, TypeOK
  <2>2. toServer' \in Seq(RequestType)
    BY <1>2, <2>1, AppendProperties DEF SendTwice, Submit, TypeOK
  <2> QED
    BY <1>2, <2>2 DEF SendTwice, TypeOK
<1>3. CASE TakeAnswer
  <2>1. PICK a : /\ Receive(a) /\ got' = got \o Unpack(a.blocks, a.flags)
    BY <1>3 DEF TakeAnswer
  <2>2. a \in AnswerType /\ toClient' \in Seq(AnswerType)
    BY <2>1, ReceiveType
  <2>3. /\ a.blocks \in Seq(1 .. MaxMessage) /\ a.flags \in Seq({0, 1})
        /\ Len(a.flags) = Len(a.blocks)
    BY <2>2 DEF AnswerType
  <2>4. got' \in Seq(Seq(1 .. MaxMessage))
    BY <2>1, <2>3, UnpackType, ConcatProperties DEF TypeOK
  <2> QED
    BY <1>3, <2>2, <2>4 DEF TakeAnswer, TypeOK
<1>4. CASE IgnoreAnswer
  <2>1. toClient' \in Seq(AnswerType)
    BY <1>4, ReceiveType DEF IgnoreAnswer
  <2> QED
    BY <1>4, <2>1 DEF IgnoreAnswer, TypeOK
<1>5. CASE AskAgain
  <2>1. toClient' \in Seq(AnswerType)
    BY <1>5, ReceiveType DEF AskAgain
  <2>2. [type |-> "retransmit", no |-> cNo] \in RequestType
    BY DEF RequestType, TypeOK
  <2>3. toServer' \in Seq(RequestType)
    BY <1>5, <2>2, AppendProperties DEF AskAgain, Submit, TypeOK
  <2> QED
    BY <1>5, <2>1, <2>3 DEF AskAgain, TypeOK
<1>6. CASE RepeatRequest
  <2>1. PICK a : Receive(a) /\ Submit("data", a.no)
    BY <1>6 DEF RepeatRequest
  <2>2. a \in AnswerType /\ toClient' \in Seq(AnswerType)
    BY <2>1, ReceiveType
  <2>3. [type |-> "data", no |-> a.no] \in RequestType
    BY <2>2 DEF RequestType, AnswerType
  <2>4. toServer' \in Seq(RequestType)
    BY <2>1, <2>3, AppendProperties DEF Submit, TypeOK
  <2> QED
    BY <1>6, <2>2, <2>4 DEF RepeatRequest, TypeOK
<1>7. CASE HangUp
  <2>1. online' \in BOOLEAN /\ spc' \in {"poll", "closed"} /\ cWait' \in BOOLEAN
    BY <1>7, BackType DEF HangUp
  <2>2. toClient' \in Seq(AnswerType)
    BY <1>7, EmptySeq DEF HangUp
  <2> QED
    BY <1>7, <2>1, <2>2 DEF HangUp, TypeOK
<1>8. CASE SendOther
  <2>1. PICK type \in {"register", "ping", "bad"} : Submit(type, 0)
    BY <1>8 DEF SendOther
  <2>2. [type |-> type, no |-> 0] \in RequestType
    BY BoundAssumption DEF RequestType
  <2>3. toServer' \in Seq(RequestType)
    BY <2>1, <2>2, AppendProperties DEF Submit, TypeOK
  <2> QED
    BY <1>8, <2>3 DEF SendOther, TypeOK
<1> QED
  BY <1>1, <1>2, <1>3, <1>4, <1>5, <1>6, <1>7, <1>8 DEF ClientNext, ClientReceives

\* Every step of the client's thread keeps the types.
LEMMA ServerTypes ==
  ASSUME TypeOK, ServerNext
  PROVE  TypeOK'
<1> USE DEF wires, client, server, queueVars, calls, histories, counters
<1>a. ASSUME NEW a \in AnswerType, Write(a)
      PROVE  toClient' \in Seq(AnswerType)
  BY <1>a, AppendProperties DEF Write, TypeOK
<1>b. ASSUME Read, NothingShown, UNCHANGED <<queue, curPacketNo, mutex>>,
             toClient' \in Seq(AnswerType), sendBuffer' \in AnswerType,
             \E on \in BOOLEAN : Back(on)
      PROVE  TypeOK'
  <2>1. toServer' \in Seq(RequestType)
    BY <1>b, ReadType
  <2>2. online' \in BOOLEAN /\ spc' \in {"poll", "closed"} /\ cWait' \in BOOLEAN
    BY <1>b, BackType
  <2> QED
    BY <1>b, <2>1, <2>2 DEF NothingShown, TypeOK
<1>c. toClient \in Seq(AnswerType) /\ sendBuffer \in AnswerType /\ online \in BOOLEAN
      /\ FALSE \in BOOLEAN
  BY DEF TypeOK
<1>1. CASE Register
  <2>1. Registered \in AnswerType
    BY AnswersType, BoundAssumption
  <2> QED
    BY <1>1, <1>a, <1>b, <1>c, <2>1 DEF Register
<1>2. CASE Retransmit
  <2>1. CASE sendBuffer = NoPacket
    BY <1>2, <1>b, <1>c, <2>1 DEF Retransmit
  <2>2. CASE sendBuffer # NoPacket
    <3>1. toClient' \in Seq(AnswerType)
      BY <1>2, <1>a, <1>c, <2>2 DEF Retransmit
    <3> QED
      BY <1>2, <1>b, <1>c, <2>2, <3>1 DEF Retransmit
  <2> QED
    BY <2>1, <2>2
<1>3. CASE IgnorePing
  BY <1>3, <1>b, <1>c DEF IgnorePing
<1>4. CASE DropBad
  BY <1>4, <1>b, <1>c DEF DropBad
<1>5. CASE IgnoreOld
  BY <1>5, <1>b, <1>c DEF IgnoreOld
<1>6. CASE EndOneTime
  BY <1>6, <1>b, <1>c DEF EndOneTime
<1>7. CASE RefuseDamaged
  <2>1. Request \in RequestType
    BY <1>7, ReadType DEF RefuseDamaged
  <2>2. AskFor(Request.no) \in AnswerType
    BY <2>1, AnswersType DEF RequestType
  <2>3. toClient' \in Seq(AnswerType)
    BY <1>7, <2>2, <1>a DEF RefuseDamaged
  <2> QED
    BY <1>7, <1>b, <1>c, <2>3 DEF RefuseDamaged
<1>8. CASE AcceptRequest
  <2>1. Request \in RequestType /\ toServer' \in Seq(RequestType)
    BY <1>8, ReadType DEF AcceptRequest
  <2>2. Request.no \in 0 .. MaxRequest
    BY <2>1 DEF RequestType
  <2>3. processed' \in Seq(0 .. MaxRequest)
    BY <1>8, <2>2, AppendProperties DEF AcceptRequest, Show, TypeOK
  <2>4. nLate' \in Nat
    BY <1>8 DEF AcceptRequest, Show, TypeOK
  <2> QED
    BY <1>8, <2>1, <2>2, <2>3, <2>4 DEF AcceptRequest, Show, TypeOK
<1>12. CASE EndCallback
  <2>1. due' \in Nat
    BY <1>12, LenProperties DEF EndCallback, TypeOK
  <2> QED
    BY <1>12, <2>1 DEF EndCallback, TypeOK
<1>15. CASE UploadFails
  <2>1. Request \in RequestType /\ toServer' \in Seq(RequestType)
    BY <1>15, ReadType DEF UploadFails
  <2>2. dropped' \in 0 .. MaxRequest
    BY <1>15, <2>1 DEF UploadFails, RequestType
  <2>3. online' \in BOOLEAN /\ spc' \in {"poll", "closed"} /\ cWait' \in BOOLEAN
    BY <1>15, <1>c, BackType DEF UploadFails
  <2> QED
    BY <1>15, <2>1, <2>2, <2>3 DEF UploadFails, TypeOK
<1>13. CASE SendConfirm
  <2>1. Confirm(packRef) \in AnswerType
    BY AnswersType DEF TypeOK
  <2>2. toClient' \in Seq(AnswerType)
    BY <1>13, <2>1, <1>a DEF SendConfirm
  <2>3. sendDone' \in BOOLEAN
    BY <1>13 DEF SendConfirm
  <2>4. online' \in BOOLEAN /\ spc' \in {"poll", "closed"} /\ cWait' \in BOOLEAN
    BY <1>13, <1>c, BackType DEF SendConfirm
  <2> QED
    BY <1>13, <2>2, <2>3, <2>4 DEF SendConfirm, TypeOK
<1>14. CASE FindQueued \/ FindEmpty
  BY <1>14 DEF FindQueued, FindEmpty, TypeOK
<1>9. CASE Pack
  <2>1. sendBuffer' \in AnswerType
    BY <1>9, PacketType DEF Pack, TypeOK
  <2> QED
    BY <1>9, <2>1 DEF Pack, TypeOK, Actors
<1>10. CASE WritePacket
  <2>1. toClient' \in Seq(AnswerType)
    BY <1>10, <1>a DEF WritePacket, TypeOK
  <2>2. sendBuffer.blocks \in Seq(1 .. MaxMessage)
    BY DEF TypeOK, AnswerType
  <2>3. sent' \in Seq(1 .. MaxMessage)
    BY <1>10, <2>2, ConcatProperties DEF WritePacket, TypeOK
  <2> QED
    BY <1>10, <2>1, <2>3 DEF WritePacket, TypeOK
<1>11. CASE ResetQueue
  <2>1. queue' \in Seq(BlockType) /\ Len(queue') <= MaxBlock
    BY <1>11, EmptySeq, MaxBlockAssumption DEF ResetQueue
  <2>2. online' \in BOOLEAN /\ spc' \in {"poll", "closed"} /\ cWait' \in BOOLEAN
    BY <1>11, <1>c, BackType DEF ResetQueue
  <2> QED
    BY <1>11, <2>1, <2>2 DEF ResetQueue, TypeOK
<1> QED
  BY <1>1, <1>2, <1>3, <1>4, <1>5, <1>6, <1>7, <1>8, <1>9, <1>10, <1>11, <1>12, <1>13, <1>14,
     <1>15 DEF ServerNext

\* Every step of a call of STSV_SendData keeps the types.
LEMMA QueueTypes ==
  ASSUME TypeOK, QueueInv, NEW a \in Actors, CallNext(a)
  PROVE  TypeOK'
<1> USE DEF wires, client, server, queueVars, calls, histories, counters
<1>1. CASE SendData(a)
  <2>1. nMessage + 1 \in 0 .. MaxMessage /\ nMessage' = nMessage + 1
    BY <1>1, BoundAssumption DEF SendData, TypeOK
  <2>2. msg' \in [Actors -> 0 .. MaxMessage]
    BY <1>1, <2>1 DEF SendData, TypeOK
  <2>3. left' \in [Actors -> Nat]
    BY <1>1, SizesAssumption DEF SendData, TypeOK
  <2>4. qpc' \in [Actors -> {"idle", "lock", "copy", "number"}]
    BY <1>1 DEF SendData, TypeOK
  <2> QED
    BY <1>1, <2>1, <2>2, <2>3, <2>4 DEF SendData, TypeOK
<1>2. CASE LockQueue(a)
  <2>1. qpc' \in [Actors -> {"idle", "lock", "copy", "number"}]
    BY <1>2 DEF LockQueue, TypeOK
  <2> QED
    BY <1>2, <2>1 DEF LockQueue, TypeOK
<1>3. CASE RejectMessage(a)
  <2>1. /\ qpc' \in [Actors -> {"idle", "lock", "copy", "number"}]
        /\ msg' \in [Actors -> 0 .. MaxMessage] /\ left' \in [Actors -> Nat]
    BY <1>3, BoundAssumption DEF RejectMessage, TypeOK
  <2> QED
    BY <1>3, <2>1 DEF RejectMessage, TypeOK
<1>4. CASE CopyBlock(a)
  <2>0. /\ qpc[a] = "copy" /\ msg[a] > 0 /\ left[a] > 0 /\ Len(queue) < MaxBlock
        /\ msg[a] \in 0 .. MaxMessage /\ left[a] \in Nat
    BY <1>4 DEF CopyBlock, QueueInv, RoomForBlock, TypeOK
  <2>1. msg[a] \in 1 .. MaxMessage /\ left[a] \in Nat \ {0} /\ Len(queue) < MaxBlock
    BY <2>0, BoundAssumption
  <2>2. [id |-> msg[a], no |-> NumberOf(queue)] \in BlockType
    BY <2>1 DEF BlockType, NumberOf, TypeOK
  <2>3. queue' \in Seq(BlockType) /\ Len(queue') <= MaxBlock
    BY <1>4, <2>1, <2>2, AppendProperties, LenProperties, MaxBlockAssumption DEF CopyBlock, TypeOK
  <2>4. accepted' \in Seq(1 .. MaxMessage)
    BY <1>4, <2>1, AppendProperties DEF CopyBlock, TypeOK
  <2>5. sendBuffer' \in AnswerType
    BY <1>4 DEF CopyBlock, TypeOK, AnswerType
  <2>6. qpc' \in [Actors -> {"idle", "lock", "copy", "number"}]
    BY <1>4 DEF CopyBlock, TypeOK
  <2>9. left' \in [Actors -> Nat]
    <3>1. left[a] - 1 \in Nat /\ left \in [Actors -> Nat]
      BY <2>1 DEF TypeOK
    <3>2. left' = [left EXCEPT ![a] = left[a] - 1]
      BY <1>4 DEF CopyBlock
    <3> QED
      BY <3>1, <3>2
  <2>7. /\ toServer' \in Seq(RequestType) /\ toClient' \in Seq(AnswerType)
        /\ got' \in Seq(Seq(1 .. MaxMessage)) /\ processed' \in Seq(0 .. MaxRequest)
        /\ sent' \in Seq(1 .. MaxMessage)
    BY <1>4 DEF CopyBlock, TypeOK
  <2>8. /\ cNo' \in 0 .. MaxRequest /\ cWait' \in BOOLEAN /\ packRef' \in 0 .. MaxRequest
        /\ curPacketNo' \in Nat /\ mutex' \in Actors \cup {None}
        /\ oneTime' \in BOOLEAN /\ sendDone' \in BOOLEAN /\ online' \in BOOLEAN
        /\ nMessage' \in 0 .. MaxMessage /\ nLate' \in Nat /\ msg' \in [Actors -> 0 .. MaxMessage]
        /\ spc' \in {"poll", "callback", "end", "confirm", "lock", "write", "reset", "closed"}
        /\ due' \in Nat /\ dropped' \in 0 .. MaxRequest
    BY <1>4 DEF CopyBlock, TypeOK
  <2> QED
    BY <2>3, <2>4, <2>5, <2>6, <2>7, <2>8, <2>9, Zenon DEF TypeOK
<1>5. CASE NumberMessage(a)
  <2>0. qpc' \in [Actors -> {"idle", "lock", "copy", "number"}]
    BY <1>5 DEF NumberMessage, TypeOK
  <2>3. 0 \in 0 .. MaxMessage /\ 0 \in Nat
    BY BoundAssumption
  <2>4. msg' \in [Actors -> 0 .. MaxMessage]
    BY <1>5, <2>3 DEF NumberMessage, TypeOK
  <2>5. left' \in [Actors -> Nat]
    BY <1>5, <2>3 DEF NumberMessage, TypeOK
  <2>1. /\ qpc' \in [Actors -> {"idle", "lock", "copy", "number"}]
        /\ msg' \in [Actors -> 0 .. MaxMessage] /\ left' \in [Actors -> Nat]
    BY <2>0, <2>4, <2>5
  <2>2. curPacketNo' \in Nat /\ mutex' \in Actors \cup {None}
    BY <1>5 DEF NumberMessage, TypeOK
  <2> QED
    BY <1>5, <2>1, <2>2, SMTT(30) DEF NumberMessage, TypeOK
<1>6. CASE Kick(a)
  <2>1. Kicked \in AnswerType
    BY AnswersType, BoundAssumption
  <2>2. toClient' \in Seq(AnswerType)
    BY <1>6, <2>1, AppendProperties DEF Kick, TypeOK
  <2> QED
    BY <1>6, <2>2 DEF Kick, TypeOK
<1> QED
  BY <1>1, <1>2, <1>3, <1>4, <1>5, <1>6 DEF CallNext, QueueNext

\* A new connection takes the slot.
LEMMA ReuseTypes ==
  ASSUME TypeOK, Reuse
  PROVE  TypeOK'
<1>1. NoPacket \in AnswerType /\ 0 \in 0 .. MaxRequest
  BY AnswersType, BoundAssumption
<1> QED
  BY <1>1, EmptySeq DEF Reuse, TypeOK, calls

----------------------------------------------------------------------------
(* The queue.                                                              *)

\* The queue, the mutex and the calls are left alone, and the client's thread
\* is neither before nor after the writing of a packet.
LEMMA QueueLeftAlone ==
  ASSUME QueueInv, UNCHANGED <<queue, mutex, calls, accepted, sent>>,
         spc \notin {"write", "reset"}, spc' \notin {"write", "reset"},
         spc' # "callback" => qpc[Server] = "idle"
  PROVE  QueueInv'
BY DEF QueueInv, MutexTells, RoomForBlock, PacketIsQueue, NothingLost, calls, Ids

\* A step that disturbs nothing the invariant is about.
LEMMA QueueUntouched ==
  ASSUME QueueInv, UNCHANGED <<queue, mutex, calls, accepted, sent, sendBuffer, spc>>
  PROVE  QueueInv'
BY DEF QueueInv, MutexTells, RoomForBlock, PacketIsQueue, NothingLost, calls, Ids

\* Steps of the client.
LEMMA ClientQueue ==
  ASSUME QueueInv, ClientNext
  PROVE  QueueInv'
<1> USE DEF wires, client, server, queueVars, histories, counters
<1>1. CASE SendRequest
  BY <1>1, QueueUntouched DEF SendRequest
<1>2. CASE SendTwice
  BY <1>2, QueueUntouched DEF SendTwice
<1>3. CASE TakeAnswer
  BY <1>3, QueueUntouched DEF TakeAnswer
<1>4. CASE IgnoreAnswer
  BY <1>4, QueueUntouched DEF IgnoreAnswer
<1>5. CASE AskAgain
  BY <1>5, QueueUntouched DEF AskAgain
<1>6. CASE RepeatRequest
  BY <1>6, QueueUntouched DEF RepeatRequest
<1>7. CASE HangUp
  <2>1. spc = "poll" /\ qpc[Server] = "idle"
    BY <1>7 DEF HangUp, QueueInv, MutexTells
  <2> QED
    BY <1>7, <2>1, QueueLeftAlone DEF HangUp, Back
<1>8. CASE SendOther
  BY <1>8, QueueUntouched DEF SendOther
<1> QED
  BY <1>1, <1>2, <1>3, <1>4, <1>5, <1>6, <1>7, <1>8 DEF ClientNext, ClientReceives

\* Steps of the client's thread; the last three pack the queue, write the packet
\* and empty the queue.
LEMMA ServerQueue ==
  ASSUME TypeOK, QueueInv, ServerNext
  PROVE  QueueInv'
<1> USE DEF wires, client, server, queueVars, histories, counters
<1>a. ASSUME Read, NothingShown, UNCHANGED <<queue, mutex>>, \E on \in BOOLEAN : Back(on)
      PROVE  QueueInv'
  <2>1. spc = "poll" /\ spc' \in {"poll", "closed"} /\ qpc[Server] = "idle"
    BY <1>a DEF Read, Back, QueueInv, MutexTells
  <2> QED
    BY <1>a, <2>1, QueueLeftAlone DEF NothingShown
<1>b. online \in BOOLEAN /\ FALSE \in BOOLEAN
  BY DEF TypeOK
<1>1. CASE Register
  BY <1>1, <1>a, <1>b DEF Register
<1>2. CASE Retransmit
  BY <1>2, <1>a, <1>b DEF Retransmit
<1>3. CASE IgnorePing \/ DropBad \/ IgnoreOld \/ EndOneTime \/ RefuseDamaged
  BY <1>3, <1>a, <1>b DEF IgnorePing, DropBad, IgnoreOld, EndOneTime, RefuseDamaged
<1>5. CASE AcceptRequest
  BY <1>5, QueueLeftAlone DEF AcceptRequest, Read, Show
<1>6. CASE EndCallback
  BY <1>6, QueueLeftAlone DEF EndCallback
<1>12. CASE UploadFails
  <2>1. spc = "poll" /\ spc' \in {"poll", "closed"} /\ qpc[Server] = "idle"
    BY <1>12 DEF UploadFails, Read, Back, QueueInv, MutexTells
  <2> QED
    BY <1>12, <2>1, QueueLeftAlone DEF UploadFails
<1>7. CASE SendConfirm
  <2>1. spc = "confirm" /\ spc' \in {"poll", "closed"} /\ qpc[Server] = "idle"
    BY <1>7 DEF SendConfirm, Back, QueueInv, MutexTells
  <2> QED
    BY <1>7, <2>1, QueueLeftAlone DEF SendConfirm
<1>8. CASE FindQueued \/ FindEmpty
  <2>1. qpc[Server] = "idle"
    BY <1>8 DEF FindQueued, FindEmpty, QueueInv, MutexTells
  <2> QED
    BY <1>8, <2>1, QueueLeftAlone DEF FindQueued, FindEmpty
<1>9. CASE Pack
  <2>1. /\ \A a \in Actors : qpc[a] \notin {"copy", "number"}
        /\ qpc[Server] = "idle"
    BY <1>9, ThreadAssumption DEF Pack, QueueInv, MutexTells, Actors
  <2>2. MutexTells' /\ RoomForBlock'
    BY <1>9, <2>1 DEF Pack, QueueInv, MutexTells, RoomForBlock, calls
  <2>3. PacketIsQueue'
    <3>1. sendBuffer' = Packet(packRef, queue) /\ queue' = queue
      BY <1>9 DEF Pack
    <3> QED
      BY <3>1 DEF PacketIsQueue, Packet, Ids
  <2>4. NothingLost'
    BY <1>9 DEF Pack, QueueInv, NothingLost, Ids
  <2> QED
    BY <2>2, <2>3, <2>4 DEF QueueInv
<1>10. CASE WritePacket
  <2>1. spc = "write" /\ sent' = sent \o Ids(queue)
    BY <1>10 DEF WritePacket, QueueInv, PacketIsQueue
  <2>2. MutexTells' /\ RoomForBlock' /\ PacketIsQueue'
    BY <1>10 DEF WritePacket, QueueInv, MutexTells, RoomForBlock, PacketIsQueue, calls
  <2>3. NothingLost'
    BY <1>10, <2>1 DEF WritePacket, QueueInv, NothingLost
  <2> QED
    BY <2>2, <2>3 DEF QueueInv
<1>11. CASE ResetQueue
  <2>0. spc' \in {"poll", "closed"}
    BY <1>11 DEF ResetQueue, Back
  <2>1. /\ \A a \in Actors : qpc[a] \notin {"copy", "number"}
        /\ qpc[Server] = "idle" /\ accepted = sent
    BY <1>11, ThreadAssumption DEF ResetQueue, QueueInv, MutexTells, NothingLost, Actors
  <2>2. MutexTells' /\ RoomForBlock' /\ PacketIsQueue'
    BY <1>11, <2>0, <2>1 DEF ResetQueue, QueueInv, MutexTells, RoomForBlock, PacketIsQueue, calls
  <2>3. Ids(queue') = <<>>
    BY <1>11 DEF ResetQueue, Ids
  <2>4. sent \o <<>> = sent
    BY ConcatEmptySeq DEF TypeOK
  <2>5. NothingLost'
    BY <1>11, <2>0, <2>1, <2>3, <2>4 DEF ResetQueue, NothingLost
  <2> QED
    BY <2>2, <2>5 DEF QueueInv
<1> QED
  BY <1>1, <1>2, <1>3, <1>5, <1>6, <1>7, <1>8, <1>9, <1>10, <1>11, <1>12 DEF ServerNext

\* Steps of a call of STSV_SendData.
LEMMA CallQueue ==
  ASSUME TypeOK, QueueInv, NEW a \in Actors, CallNext(a)
  PROVE  QueueInv'
<1> USE DEF wires, client, server, queueVars, histories, counters
<1>a. Server \in Actors /\ None \notin Actors
  BY ThreadAssumption DEF Actors
<1>1. CASE SendData(a)
  <2>1. nMessage + 1 > 0
    BY BoundAssumption DEF TypeOK
  <2>2. MutexTells'
    BY <1>1, <1>a DEF SendData, QueueInv, MutexTells, TypeOK
  <2>3. RoomForBlock'
    BY <1>1, <2>1 DEF SendData, QueueInv, RoomForBlock, TypeOK
  <2>4. PacketIsQueue' /\ NothingLost'
    BY <1>1 DEF SendData, QueueInv, PacketIsQueue, NothingLost, Ids
  <2> QED
    BY <2>2, <2>3, <2>4 DEF QueueInv
<1>2. CASE LockQueue(a)
  <2>1. \A b \in Actors : qpc[b] \notin {"copy", "number"}
    BY <1>2, <1>a DEF LockQueue, QueueInv, MutexTells
  <2>2. spc \notin {"write", "reset"} /\ (spc # "callback" => a # Server)
    BY <1>2, <1>a, ThreadAssumption DEF LockQueue, QueueInv, MutexTells, TypeOK
  <2>3. MutexTells'
    BY <1>2, <1>a, <2>1, <2>2 DEF LockQueue, QueueInv, MutexTells, TypeOK
  <2>4. RoomForBlock'
    BY <1>2, <2>1 DEF LockQueue, QueueInv, RoomForBlock, TypeOK
  <2>5. PacketIsQueue' /\ NothingLost'
    BY <1>2 DEF LockQueue, QueueInv, PacketIsQueue, NothingLost, Ids
  <2> QED
    BY <2>3, <2>4, <2>5 DEF QueueInv
<1>3. CASE RejectMessage(a)
  <2>1. MutexTells'
    BY <1>3, <1>a DEF RejectMessage, QueueInv, MutexTells, TypeOK
  <2>2. RoomForBlock'
    BY <1>3 DEF RejectMessage, QueueInv, RoomForBlock, TypeOK
  <2>3. PacketIsQueue' /\ NothingLost'
    BY <1>3 DEF RejectMessage, QueueInv, PacketIsQueue, NothingLost, Ids
  <2> QED
    BY <2>1, <2>2, <2>3 DEF QueueInv
<1>4. CASE CopyBlock(a)
  <2>0. /\ qpc[a] = "copy" /\ mutex = a /\ msg[a] > 0 /\ left[a] > 0
        /\ msg[a] \in 0 .. MaxMessage /\ left[a] \in Nat
        /\ spc \notin {"write", "reset"}
        /\ \A b \in Actors : b # a => qpc[b] \notin {"copy", "number"}
    BY <1>4, <1>a DEF CopyBlock, QueueInv, MutexTells, RoomForBlock, TypeOK
  <2>1. msg[a] \in 1 .. MaxMessage /\ NumberOf(queue) \in 0 .. 255
    BY <2>0, BoundAssumption DEF NumberOf, TypeOK
  <2> DEFINE b == [id |-> msg[a], no |-> NumberOf(queue)]
  <2>2. b \in BlockType /\ b.id = msg[a] /\ queue' = Append(queue, b) /\ queue \in Seq(BlockType)
    BY <1>4, <2>1 DEF BlockType, CopyBlock, TypeOK
  <2> HIDE DEF b
  <2>3. Len(queue') = Len(queue) + 1 /\ Len(queue) \in Nat
    BY <2>2, AppendProperties, LenProperties
  <2>4. MutexTells'
    BY <1>4, <1>a, <2>0 DEF CopyBlock, QueueInv, MutexTells, TypeOK
  <2>5. RoomForBlock'
    <3>1. qpc'[a] = "copy" => left'[a] > 0 /\ Len(queue') < MaxBlock
      <4>1. /\ left'[a] = left[a] - 1
            /\ qpc'[a] = IF left[a] = 1 \/ Len(queue) + 1 >= MaxBlock THEN "number" ELSE "copy"
        BY <1>4 DEF CopyBlock, TypeOK
      <4> QED
        BY <4>1, <2>0, <2>3, MaxBlockAssumption
    <3>2. \A c \in Actors : c # a => qpc'[c] = qpc[c] /\ left'[c] = left[c]
      BY <1>4 DEF CopyBlock, TypeOK
    <3>3. msg' = msg
      BY <1>4 DEF CopyBlock
    <3> QED
      BY <3>1, <3>2, <3>3, <2>0 DEF QueueInv, RoomForBlock
  <2>6. PacketIsQueue'
    BY <1>4, <2>0 DEF CopyBlock, PacketIsQueue
  <2>7. NothingLost'
    <3>1. accepted = sent \o Ids(queue) /\ accepted' = Append(accepted, msg[a])
      BY <1>4, <2>0 DEF CopyBlock, QueueInv, NothingLost
    <3>2. Ids(queue') = Append(Ids(queue), msg[a])
      BY <2>2, IdsAppend
    <3>3. Append(sent \o Ids(queue), msg[a]) = sent \o Append(Ids(queue), msg[a])
      <4> DEFINE M == 1 .. MaxMessage
      <4>1. Ids(queue) \in Seq(M) /\ sent \in Seq(M) /\ msg[a] \in M
        BY <2>1, <2>2, IdsType DEF TypeOK
      <4> HIDE DEF M
      <4>2. \A s, t \in Seq(M) : \A x \in M : s \o Append(t, x) = Append(s \o t, x)
        BY ConcatAppend
      <4> QED
        BY <4>1, <4>2, Zenon
    <3>4. spc' # "reset" /\ sent' = sent
      BY <1>4, <2>0 DEF CopyBlock
    <3> QED
      BY <3>1, <3>2, <3>3, <3>4 DEF NothingLost
  <2> QED
    BY <2>4, <2>5, <2>6, <2>7 DEF QueueInv
<1>5. CASE NumberMessage(a)
  <2>0. /\ qpc[a] = "number" /\ mutex = a /\ spc \notin {"write", "reset"}
        /\ \A b \in Actors : b # a => qpc[b] \notin {"copy", "number"}
    BY <1>5, <1>a DEF NumberMessage, QueueInv, MutexTells, TypeOK
  <2>1. MutexTells'
    BY <1>5, <1>a, <2>0 DEF NumberMessage, QueueInv, MutexTells, TypeOK
  <2>2. RoomForBlock'
    BY <1>5 DEF NumberMessage, QueueInv, RoomForBlock, TypeOK
  <2>3. PacketIsQueue' /\ NothingLost'
    BY <1>5 DEF NumberMessage, QueueInv, PacketIsQueue, NothingLost, Ids
  <2> QED
    BY <2>1, <2>2, <2>3 DEF QueueInv
<1>6. CASE Kick(a)
  BY <1>6, QueueUntouched DEF Kick
<1> QED
  BY <1>1, <1>2, <1>3, <1>4, <1>5, <1>6 DEF CallNext, QueueNext

\* The types and the queue invariant are kept by every step.
LEMMA StepInv ==
  ASSUME TypeOK /\ QueueInv, [Next]_vars
  PROVE  TypeOK' /\ QueueInv'
<1>1. CASE ServerNext
  BY <1>1, ServerTypes, ServerQueue
<1>2. CASE ClientNext
  BY <1>2, ClientTypes, ClientQueue
<1>3. CASE Reuse
  <2>1. UNCHANGED <<queue, mutex, calls, accepted, sent>> /\ spc = "closed" /\ spc' = "poll"
        /\ qpc[Server] = "idle"
    BY <1>3 DEF Reuse
  <2> QED
    BY <1>3, <2>1, ReuseTypes, QueueLeftAlone
<1>4. ASSUME NEW a \in Actors, CallNext(a)
      PROVE  TypeOK' /\ QueueInv'
  BY <1>4, QueueTypes, CallQueue
<1>5. CASE UNCHANGED vars
  <2> USE <1>5 DEF vars, wires, client, server, queueVars, histories, counters
  <2>1. TypeOK'
    BY DEF TypeOK, calls
  <2>2. QueueInv'
    BY QueueUntouched
  <2> QED
    BY <2>1, <2>2
<1> QED
  BY <1>1, <1>2, <1>3, <1>4, <1>5 DEF Next

LEMMA Invariants == Spec => [](TypeOK /\ QueueInv)
<1>1. Init => TypeOK /\ QueueInv
  BY InitInv
<1>2. TypeOK /\ QueueInv /\ [Next]_vars => (TypeOK /\ QueueInv)'
  BY StepInv
<1> QED
  BY <1>1, <1>2, PTL DEF Spec

\* The types: the queue never has more blocks than the size table of a packet
\* has entries, and a packet has one bit per block.
THEOREM TypeCorrect == Spec => []TypeOK
BY Invariants, PTL

\* Who fills, packs or clears the queue has m_Mutex: the inductive invariant.
THEOREM QueueIsGuarded == Spec => []QueueInv
BY Invariants, PTL

\* Whatever threads queue messages, and whenever: each block that was queued is
\* written once, in the order of queueing, or is still queued.
THEOREM NothingIsLost == Spec => []NothingLost
<1>1. QueueInv => NothingLost
  BY DEF QueueInv
<1> QED
  BY <1>1, QueueIsGuarded, PTL

----------------------------------------------------------------------------
(* The end of a connection.                                                *)

\* Once a one-time connection was answered without data, its thread handles no
\* request any more that is not an upload.
THEOREM OneTimeConnectionEnds == Spec => []OneTimeEnds
<1>1. Init => OneTimeEnds
  BY DEF Init, OneTimeEnds
<1>2. OneTimeEnds /\ [Next]_vars => OneTimeEnds'
  <2> USE DEF wires, client, server, queueVars, histories, counters
  <2> SUFFICES ASSUME OneTimeEnds, [Next]_vars
               PROVE  oneTime' /\ sendDone' => spc' \in {"poll", "closed"} \/ packRef' \in Uploads
    BY DEF OneTimeEnds
  <2>a. ASSUME UNCHANGED <<oneTime, sendDone, spc, packRef>>
        PROVE  oneTime' /\ sendDone' => spc' \in {"poll", "closed"} \/ packRef' \in Uploads
    BY <2>a DEF OneTimeEnds
  <2>1. CASE ServerNext
    <3>1. CASE Register \/ Retransmit \/ IgnorePing \/ DropBad \/ IgnoreOld \/ EndOneTime
               \/ RefuseDamaged \/ UploadFails \/ SendConfirm \/ ResetQueue
      BY <3>1 DEF Register, Retransmit, IgnorePing, DropBad, IgnoreOld, EndOneTime,
                  RefuseDamaged, UploadFails, SendConfirm, ResetQueue, Back
    <3>2. CASE AcceptRequest
      BY <3>2 DEF AcceptRequest, Show, Ended
    <3>3. CASE EndCallback \/ FindEmpty \/ FindQueued \/ Pack \/ WritePacket
      BY <3>3 DEF EndCallback, FindEmpty, FindQueued, Pack, WritePacket, OneTimeEnds
    <3> QED
      BY <2>1, <3>1, <3>2, <3>3 DEF ServerNext
  <2>2. CASE ClientNext
    <3>1. CASE HangUp
      BY <3>1 DEF HangUp, Back
    <3> QED
      BY <2>2, <3>1, <2>a DEF ClientNext, ClientReceives, SendRequest, SendTwice, SendOther,
                              TakeAnswer, IgnoreAnswer, AskAgain, RepeatRequest
  <2>3. CASE Reuse
    BY <2>3 DEF Reuse
  <2>4. ASSUME NEW a \in Actors, CallNext(a)
        PROVE  UNCHANGED <<oneTime, sendDone, spc, packRef>>
    BY <2>4 DEF CallNext, Kick, SendData, QueueNext, LockQueue, RejectMessage, CopyBlock,
                NumberMessage
  <2>5. CASE UNCHANGED vars
    BY <2>5, <2>a DEF vars
  <2> QED
    BY <2>1, <2>2, <2>3, <2>4, <2>5, <2>a DEF Next
<1> QED
  BY <1>1, <1>2, PTL DEF Spec

\* A request the application saw after online was cleared is the last one: its
\* thread has not come back to poll since.
LastRequest ==
  /\ LeavesSoon
  /\ online => nLate = 0
  /\ spc = "poll" => nLate = 0

\* Every step keeps it.
LEMMA StepLast ==
  ASSUME TypeOK, LastRequest, [Next]_vars
  PROVE  LastRequest'
<1> USE DEF wires, client, server, queueVars, histories, counters
<1>0. nLate \in Nat /\ online \in BOOLEAN
  BY DEF TypeOK
<1>a. ASSUME UNCHANGED <<online, spc, nLate>>
      PROVE  LastRequest'
  BY <1>a DEF LastRequest, LeavesSoon
<1>b. ASSUME NEW on \in BOOLEAN, Back(on), on => online, UNCHANGED nLate
      PROVE  LastRequest'
  BY <1>b, <1>0 DEF Back, LastRequest, LeavesSoon
<1>1. CASE ServerNext
  <2>1. CASE Register \/ Retransmit \/ IgnorePing \/ DropBad \/ IgnoreOld \/ EndOneTime
             \/ RefuseDamaged \/ UploadFails
    <3>1. UNCHANGED nLate /\ (Back(online) \/ Back(FALSE))
      BY <2>1 DEF Register, Retransmit, IgnorePing, DropBad, IgnoreOld, EndOneTime,
                  RefuseDamaged, UploadFails, NothingShown
    <3> QED
      BY <3>1, <1>b, <1>0
  <2>2. CASE AcceptRequest
    <3>1. spc = "poll" /\ spc' = "callback" /\ UNCHANGED online
          /\ nLate' = nLate + (IF online THEN 0 ELSE 1)
      BY <2>2 DEF AcceptRequest, Show, Read
    <3> QED
      BY <3>1, <1>0 DEF LastRequest, LeavesSoon
  <2>3. CASE SendConfirm \/ ResetQueue
    <3>1. UNCHANGED nLate /\ Back(online)
      BY <2>3 DEF SendConfirm, ResetQueue
    <3> QED
      BY <3>1, <1>b, <1>0
  <2>4. CASE EndCallback \/ FindEmpty \/ FindQueued \/ Pack \/ WritePacket
    BY <2>4 DEF EndCallback, FindEmpty, FindQueued, Pack, WritePacket, LastRequest, LeavesSoon
  <2> QED
    BY <1>1, <2>1, <2>2, <2>3, <2>4 DEF ServerNext
<1>2. CASE ClientNext
  <2>1. CASE HangUp
    BY <2>1, <1>b, <1>0 DEF HangUp
  <2> QED
    BY <1>2, <2>1, <1>a DEF ClientNext, ClientReceives, SendRequest, SendTwice, SendOther,
                            TakeAnswer, IgnoreAnswer, AskAgain, RepeatRequest
<1>3. CASE Reuse
  BY <1>3 DEF Reuse, LastRequest, LeavesSoon
<1>4. ASSUME NEW a \in Actors, CallNext(a)
      PROVE  LastRequest'
  <2>1. CASE Kick(a)
    BY <2>1 DEF Kick, LastRequest, LeavesSoon
  <2> QED
    BY <1>4, <2>1, <1>a DEF CallNext, SendData, QueueNext, LockQueue, RejectMessage, CopyBlock,
                            NumberMessage
<1>5. CASE UNCHANGED vars
  BY <1>5, <1>a DEF vars
<1> QED
  BY <1>1, <1>2, <1>3, <1>4, <1>5 DEF Next

\* The application sees at most one more request of a client it disconnected.
THEOREM DisconnectedLeaves == Spec => []LeavesSoon
<1>1. Init => LastRequest
  BY DEF Init, LastRequest, LeavesSoon
<1>2. TypeOK /\ LastRequest /\ [Next]_vars => LastRequest'
  BY StepLast
<1>3. LastRequest => LeavesSoon
  BY DEF LastRequest
<1>4. TypeOK /\ QueueInv => TypeOK
  OBVIOUS
<1> QED
  BY <1>1, <1>2, <1>3, <1>4, TypeCorrect, PTL DEF Spec
----------------------------------------------------------------------------
(* The requests, their answers and what the client unpacks.                *)
(*                                                                         *)
(* The proofs of the latter are about the first client of the slot, and    *)
(* about messages that have a block: one of size 0 takes a number without  *)
(* one, and if it is the first of a packet the first bit is 1.             *)

\* a has queued a block of its message and not yet counted the message.
Open(a) ==
  /\ queue # <<>>
  /\ queue[Len(queue)].id = msg[a] /\ queue[Len(queue)].no = curPacketNo % 256

\* The next message has another number than the last block of the queue.
Fresh ==
  /\ queue = <<>> => curPacketNo = 0
  /\ queue # <<>> => curPacketNo > 0 /\ queue[Len(queue)].no = (curPacketNo - 1) % 256

\* No block of message m was queued yet.
New(m) == \A i \in 1 .. Len(accepted) : accepted[i] # m

\* The numbers tell the messages of the queue apart.
QueueNumbers ==
  /\ Numbered(Numbers(queue), Ids(queue))
  /\ \A a \in Actors : qpc[a] = "copy" => Open(a) \/ (Fresh /\ New(msg[a]))
  /\ \A a \in Actors : qpc[a] = "number" => Open(a)
  /\ (\A a \in Actors : qpc[a] \notin {"copy", "number"}) => Fresh

\* The calls of STSV_SendData have messages of their own, which are new until the
\* mutex is taken, and a packet has all the blocks of the messages in it.
MessageIds ==
  /\ \A i \in 1 .. Len(accepted) : accepted[i] <= nMessage
  /\ \A a \in Actors : qpc[a] # "idle" => msg[a] <= nMessage
  /\ \A a, b \in Actors : a # b /\ qpc[a] # "idle" /\ qpc[b] # "idle" => msg[a] # msg[b]
  /\ \A a \in Actors : qpc[a] = "lock" => left[a] > 0 /\ New(msg[a])
  /\ \A i \in 1 .. Len(sent), j \in Len(sent) + 1 .. Len(accepted) : accepted[i] # accepted[j]

\* What answers a request.
IsAnswer(x) == x.type \in {"packet", "confirm"}

\* What the client has been sent, or may be sent when it asks for a packet again.
Pending == Range(toClient) \cup (IF spc = "write" THEN {} ELSE {sendBuffer})

\* The client has one request at most that is not answered, the last one, and
\* waits for it; what answers it has its number.
Protocol ==
  /\ packRef \in {cNo, cNo - 1}
  /\ \A x \in Range(toServer) : x.no <= cNo
  /\ \A x \in Pending : /\ x.no <= cNo
                        /\ IsAnswer(x) => x.no <= packRef /\ (Answering => x.no < cNo)
  /\ spc = "write" => IsAnswer(sendBuffer) /\ sendBuffer.no = packRef
  /\ Answering => cWait /\ packRef = cNo
  /\ ~cWait /\ spc # "closed" => packRef = cNo
  /\ spc = "closed" => ~cWait

\* The packet is unpacked into the messages its blocks belong to.
Proper(x) == MessagesIn(Unpack(x.blocks, x.flags), x.blocks, Len(x.blocks))

\* The packet has all the blocks that were sent after the first n.
Rest(x, n) ==
  /\ Len(x.blocks) = Len(sent) - n
  /\ \A i \in 1 .. Len(x.blocks) : x.blocks[i] = accepted[n + i]
  /\ Proper(x)

\* The client has unpacked the first n blocks, and is sent the others with the
\* answer to its last request.
Has(n) ==
  /\ MessagesIn(got, accepted, n)
  /\ ~cWait /\ spc # "closed" => n = Len(sent)
  /\ packRef # cNo \/ Answering => n = Len(sent)
  /\ cWait => \A x \in Pending : IsAnswer(x) /\ x.no = cNo => Rest(x, n)

Received ==
  /\ \E n \in 0 .. Len(sent) : Has(n)
  /\ spc = "write" => Proper(sendBuffer)

\* The inductive invariants behind RequestsOnce and ClientHasAll.
SeenInv == Protocol /\ processed = [i \in 1 .. packRef |-> i]
ReceivedInv ==
  /\ nConnection \in Nat \ {0}
  /\ nConnection = 1 => QueueNumbers /\ MessageIds /\ Received

\* An empty queue.
LEMMA NoneNumbered == Numbered(<<>>, <<>>)
<1>1. <<>> \in Seq(Nat) /\ Len(<<>>) = 0
  OBVIOUS
<1> QED
  BY <1>1 DEF Numbered

\* The number of a block that is queued goes behind the others.
LEMMA NumbersAppend ==
  ASSUME NEW q \in Seq(BlockType), NEW b \in BlockType
  PROVE  Numbers(Append(q, b)) = Append(Numbers(q), b.no)
<1>1. b.no \in Nat
  <2>1. b.no \in 0 .. 255
    BY DEF BlockType
  <2>2. \A n \in 0 .. 255 : n \in Nat
    OBVIOUS
  <2> QED
    BY <2>1, <2>2, Zenon
<1>2. /\ Append(q, b) \in Seq(BlockType) /\ Len(Append(q, b)) = Len(q) + 1
      /\ \A i \in 1 .. Len(q) : Append(q, b)[i] = q[i]
      /\ Append(q, b)[Len(q) + 1] = b
      /\ Len(q) \in Nat
  BY AppendProperties, LenProperties
<1>3. /\ Append(Numbers(q), b.no) \in Seq(Nat)
      /\ Len(Append(Numbers(q), b.no)) = Len(q) + 1
      /\ \A i \in 1 .. Len(q) : Append(Numbers(q), b.no)[i] = Numbers(q)[i]
      /\ Append(Numbers(q), b.no)[Len(q) + 1] = b.no
  BY <1>1, IdsType, AppendProperties
<1>4. Numbers(Append(q, b)) \in Seq(Nat) /\ Len(Numbers(Append(q, b))) = Len(q) + 1
  BY <1>2, IdsType
<1>5. \A i \in 1 .. Len(q) + 1 : Numbers(Append(q, b))[i] = Append(Numbers(q), b.no)[i]
  BY <1>2, <1>3 DEF Numbers
<1> QED
  BY <1>3, <1>4, <1>5, SeqEqual

\* The elements of two joined sequences.
LEMMA ConcatElements ==
  ASSUME NEW S, NEW s \in Seq(S), NEW t \in Seq(S)
  PROVE  /\ Len(s \o t) = Len(s) + Len(t)
         /\ \A i \in 1 .. Len(s) : (s \o t)[i] = s[i]
         /\ \A i \in 1 .. Len(t) : (s \o t)[Len(s) + i] = t[i]
BY ConcatProperties, LenProperties

\* What is queued was accepted after what was sent.
LEMMA QueuedIsAccepted ==
  ASSUME TypeOK, QueueInv, spc # "reset"
  PROVE  /\ Len(accepted) = Len(sent) + Len(queue) /\ Len(sent) \in Nat /\ Len(queue) \in Nat
         /\ \A i \in 1 .. Len(queue) : Ids(queue)[i] = accepted[Len(sent) + i]
         /\ \A i \in 1 .. Len(sent) : sent[i] = accepted[i]
<1>1. accepted = sent \o Ids(queue)
  BY DEF QueueInv, NothingLost
<1>2. Ids(queue) \in Seq(1 .. MaxMessage) /\ Len(Ids(queue)) = Len(queue)
      /\ sent \in Seq(1 .. MaxMessage) /\ queue \in Seq(BlockType)
  BY IdsType DEF TypeOK
<1> DEFINE M == 1 .. MaxMessage
           q == Ids(queue)
<1>3. q \in Seq(M) /\ sent \in Seq(M) /\ accepted = sent \o q /\ Len(q) = Len(queue)
  BY <1>1, <1>2
<1> HIDE DEF M, q
<1>4. /\ Len(sent \o q) = Len(sent) + Len(q)
      /\ \A i \in 1 .. Len(sent) : (sent \o q)[i] = sent[i]
      /\ \A i \in 1 .. Len(q) : (sent \o q)[Len(sent) + i] = q[i]
  <2>1. \A s, t \in Seq(M) : /\ Len(s \o t) = Len(s) + Len(t)
                             /\ \A i \in 1 .. Len(s) : (s \o t)[i] = s[i]
                             /\ \A i \in 1 .. Len(t) : (s \o t)[Len(s) + i] = t[i]
    BY ConcatElements
  <2> QED
    BY <1>3, <2>1, Zenon
<1>5. Len(sent) \in Nat /\ Len(q) \in Nat
  BY <1>3, LenProperties
<1> QED
  BY <1>3, <1>4, <1>5 DEF q

\* The message whose block is copied is not in what was sent.
LEMMA CopiedIsNotSent ==
  ASSUME TypeOK, QueueInv, QueueNumbers, MessageIds, NEW a \in Actors, qpc[a] = "copy"
  PROVE  /\ spc \notin {"write", "reset"} /\ mutex = a
         /\ \A b \in Actors : b # a => qpc[b] \notin {"copy", "number"}
         /\ \A i \in 1 .. Len(sent) : accepted[i] # msg[a]
<1>1. /\ spc \notin {"write", "reset"} /\ mutex = a
      /\ \A b \in Actors : b # a => qpc[b] \notin {"copy", "number"}
  BY DEF QueueInv, MutexTells
<1>2. /\ Len(accepted) = Len(sent) + Len(queue) /\ Len(sent) \in Nat /\ Len(queue) \in Nat
      /\ \A i \in 1 .. Len(queue) : Ids(queue)[i] = accepted[Len(sent) + i]
  BY <1>1, QueuedIsAccepted
<1>3. CASE Open(a)
  <2>1. Len(queue) > 0
    BY <1>2, <1>3, EmptySeq DEF Open, TypeOK
  <2>2. accepted[Len(accepted)] = msg[a] /\ Len(accepted) \in Len(sent) + 1 .. Len(accepted)
    BY <1>2, <1>3, <2>1 DEF Open, Ids
  <2> QED
    BY <1>1, <2>2 DEF MessageIds
<1>4. CASE New(msg[a])
  BY <1>1, <1>2, <1>4 DEF New
<1> QED
  BY <1>3, <1>4 DEF QueueNumbers

\* Steps that leave alone what QueueNumbers is about.
LEMMA NumbersLeftAlone ==
  ASSUME QueueNumbers, UNCHANGED <<queue, curPacketNo, calls, accepted>>
  PROVE  QueueNumbers'
BY DEF QueueNumbers, Open, Fresh, New, calls, Numbers, Ids

\* The calls of STSV_SendData number their blocks.
LEMMA CallNumbers ==
  ASSUME TypeOK, QueueInv, QueueNumbers, MessageIds, 0 \notin Sizes,
         NEW a \in Actors, CallNext(a)
  PROVE  QueueNumbers'
<1> USE DEF wires, client, server, queueVars, histories, counters
<1>a. Server \in Actors /\ None \notin Actors
  BY ThreadAssumption DEF Actors
<1>b. ASSUME UNCHANGED <<queue, curPacketNo, accepted>>
      PROVE  /\ Numbers(queue') = Numbers(queue) /\ Ids(queue') = Ids(queue)
             /\ Fresh' = Fresh /\ \A m : New(m)' = New(m)
             /\ \A b \in Actors : msg'[b] = msg[b] => Open(b)' = Open(b)
  BY <1>b DEF Fresh, New, Open
<1>1. CASE SendData(a)
  <2>1. \A b \in Actors : /\ qpc'[b] \in {"copy", "number"} => qpc'[b] = qpc[b] /\ msg'[b] = msg[b]
                          /\ qpc[b] \in {"copy", "number"} => qpc'[b] = qpc[b]
    BY <1>1 DEF SendData, TypeOK
  <2>2. UNCHANGED <<queue, curPacketNo, accepted>>
    BY <1>1 DEF SendData
  <2> QED
    BY <1>b, <2>1, <2>2 DEF QueueNumbers
<1>2. CASE LockQueue(a)
  <2>1. \A b \in Actors : qpc[b] \notin {"copy", "number"}
    BY <1>2, <1>a DEF LockQueue, QueueInv, MutexTells
  <2>2. /\ qpc'[a] = "copy" /\ New(msg[a]) /\ msg' = msg
        /\ \A b \in Actors : b # a => qpc'[b] = qpc[b]
    BY <1>2 DEF LockQueue, MessageIds, TypeOK
  <2>3. UNCHANGED <<queue, curPacketNo, accepted>>
    BY <1>2 DEF LockQueue
  <2> QED
    BY <1>b, <2>1, <2>2, <2>3 DEF QueueNumbers
<1>3. CASE RejectMessage(a)
  <2>1. \A b \in Actors : /\ qpc'[b] \in {"copy", "number"} => qpc'[b] = qpc[b] /\ msg'[b] = msg[b]
                          /\ qpc[b] \in {"copy", "number"} => qpc'[b] = qpc[b]
    BY <1>3 DEF RejectMessage, TypeOK
  <2>2. UNCHANGED <<queue, curPacketNo, accepted>>
    BY <1>3 DEF RejectMessage
  <2> QED
    BY <1>b, <2>1, <2>2 DEF QueueNumbers
<1>4. CASE CopyBlock(a)
  <2>0. /\ qpc[a] = "copy" /\ spc \notin {"write", "reset"}
        /\ \A b \in Actors : b # a => qpc[b] \notin {"copy", "number"}
        /\ msg[a] \in 1 .. MaxMessage /\ curPacketNo \in Nat
    <3>1. qpc[a] = "copy" /\ msg[a] > 0 /\ msg[a] \in 0 .. MaxMessage /\ curPacketNo \in Nat
      BY <1>4 DEF CopyBlock, QueueInv, RoomForBlock, TypeOK
    <3>2. msg[a] \in 1 .. MaxMessage
      BY <3>1, BoundAssumption
    <3> QED
      BY <3>1, <3>2, CopiedIsNotSent
  <2> DEFINE b == [id |-> msg[a], no |-> NumberOf(queue)]
             nos == Numbers(queue)
             N == Len(queue)
  <2>1. /\ b \in BlockType /\ b.id = msg[a] /\ b.no = curPacketNo % 256 /\ b.no \in Nat
        /\ queue' = Append(queue, b) /\ queue \in Seq(BlockType)
        /\ accepted' = Append(accepted, msg[a])
        /\ UNCHANGED <<curPacketNo, msg>>
    <3>1. NumberOf(queue) = curPacketNo % 256 /\ curPacketNo % 256 \in 0 .. 255
      BY <2>0 DEF NumberOf
    <3>2. curPacketNo % 256 \in Nat
      BY <2>0
    <3>3. b \in BlockType
      BY <3>1, <2>0 DEF BlockType
    <3> QED
      BY <1>4, <3>1, <3>2, <3>3 DEF CopyBlock, TypeOK
  <2> HIDE DEF b
  <2>2. /\ Len(queue') = N + 1 /\ N \in Nat /\ queue'[N + 1] = b
        /\ nos \in Seq(Nat) /\ Len(nos) = N /\ Ids(queue) \in Seq(1 .. MaxMessage)
        /\ Len(Ids(queue)) = N
        /\ \A i \in 1 .. N : nos[i] = queue[i].no /\ Ids(queue)[i] = queue[i].id
    <3>1. Len(queue') = N + 1 /\ N \in Nat /\ queue'[N + 1] = b
      BY <2>1, AppendProperties, LenProperties
    <3>2. /\ nos \in Seq(Nat) /\ Len(nos) = N /\ Ids(queue) \in Seq(1 .. MaxMessage)
          /\ Len(Ids(queue)) = N
      BY <2>1, IdsType
    <3>3. \A i \in 1 .. N : nos[i] = queue[i].no /\ Ids(queue)[i] = queue[i].id
      BY DEF Numbers, Ids
    <3> QED
      BY <3>1, <3>2, <3>3
  <2>3. queue' # <<>> /\ Open(a)'
    <3>1. queue' # <<>>
      BY <2>2
    <3> QED
      BY <3>1, <2>1, <2>2 DEF Open
  <2>4. Open(a) \/ (Fresh /\ New(msg[a]))
    BY <2>0 DEF QueueNumbers
  <2>5. N = 0 => b.no = 0
    <3> SUFFICES ASSUME N = 0 PROVE b.no = 0
      OBVIOUS
    <3>1. queue = <<>>
      BY <2>1, EmptySeq
    <3> QED
      BY <3>1, <2>1, <2>4 DEF Open, Fresh
  <2>6. N > 0 => \/ b.no = nos[N] /\ b.id = Ids(queue)[N]
                 \/ b.no # nos[N] /\ \A i \in 1 .. N : Ids(queue)[i] # b.id
    <3> SUFFICES ASSUME N > 0
                 PROVE  \/ b.no = nos[N] /\ b.id = Ids(queue)[N]
                        \/ b.no # nos[N] /\ \A i \in 1 .. N : Ids(queue)[i] # b.id
      OBVIOUS
    <3>1. CASE Open(a)
      BY <3>1, <2>1, <2>2 DEF Open
    <3>2. CASE Fresh /\ New(msg[a])
      <4>1. queue # <<>>
        BY <2>1, EmptySeq
      <4>2. queue[N].no = (curPacketNo - 1) % 256 /\ curPacketNo > 0
        BY <3>2, <4>1 DEF Fresh
      <4>3. (curPacketNo - 1) % 256 # curPacketNo % 256
        BY <2>0, <4>2
      <4>4. b.no # nos[N]
        BY <4>2, <4>3, <2>1, <2>2
      <4>5. \A i \in 1 .. N : Ids(queue)[i] # msg[a]
        <5>1. Len(accepted) = Len(sent) + N /\ Len(sent) \in Nat /\ N \in Nat
              /\ \A i \in 1 .. N : Ids(queue)[i] = accepted[Len(sent) + i]
          BY <2>0, QueuedIsAccepted
        <5> QED
          BY <5>1, <3>2 DEF New
      <4> QED
        BY <4>4, <4>5, <2>1
    <3> QED
      BY <3>1, <3>2, <2>4
  <2>7. Numbered(Numbers(queue'), Ids(queue'))
    <3>1. Numbers(queue') = Append(nos, b.no) /\ Ids(queue') = Append(Ids(queue), b.id)
      BY <2>1, NumbersAppend, IdsAppend
    <3>2. Numbered(nos, Ids(queue))
      BY DEF QueueNumbers
    <3> DEFINE M == 1 .. MaxMessage
               ids == Ids(queue)
    <3>3. ids \in Seq(M) /\ b.id \in M /\ nos \in Seq(Nat) /\ b.no \in Nat /\ Len(nos) = N
      BY <2>0, <2>1, <2>2
    <3> HIDE DEF M, nos, N, ids
    <3>4. Numbered(Append(nos, b.no), Append(ids, b.id))
      BY <3>2, <3>3, <2>5, <2>6, NumberedAppend DEF ids
    <3> QED
      BY <3>1, <3>4 DEF nos, ids
  <2>8. /\ qpc'[a] \in {"copy", "number"}
        /\ \A c \in Actors : c # a => qpc'[c] = qpc[c]
    BY <1>4 DEF CopyBlock, TypeOK
  <2> QED
    BY <2>0, <2>3, <2>7, <2>8 DEF QueueNumbers
<1>5. CASE NumberMessage(a)
  <2>0. /\ qpc[a] = "number" /\ curPacketNo \in Nat
        /\ \A b \in Actors : b # a => qpc[b] \notin {"copy", "number"}
    BY <1>5, <1>a DEF NumberMessage, QueueInv, MutexTells, TypeOK
  <2>1. /\ UNCHANGED <<queue, accepted>> /\ curPacketNo' = curPacketNo + 1
        /\ \A b \in Actors : qpc'[b] \notin {"copy", "number"}
    BY <1>5, <2>0 DEF NumberMessage, TypeOK
  <2>2. queue # <<>> /\ queue[Len(queue)].no = curPacketNo % 256
    BY <2>0 DEF QueueNumbers, Open
  <2>3. curPacketNo' > 0 /\ curPacketNo' - 1 = curPacketNo
    BY <2>0, <2>1
  <2>4. Fresh'
    BY <2>1, <2>2, <2>3 DEF Fresh
  <2> QED
    BY <2>1, <2>4 DEF QueueNumbers
<1>6. CASE Kick(a)
  BY <1>6, NumbersLeftAlone DEF Kick
<1> QED
  BY <1>1, <1>2, <1>3, <1>4, <1>5, <1>6 DEF CallNext, QueueNext

\* Steps that leave alone what MessageIds is about.
LEMMA MessagesLeftAlone ==
  ASSUME MessageIds, UNCHANGED <<calls, accepted, sent, nMessage>>
  PROVE  MessageIds'
BY DEF MessageIds, New, calls

\* The calls of STSV_SendData queue messages of their own.
LEMMA CallMessages ==
  ASSUME TypeOK, QueueInv, QueueNumbers, MessageIds, 0 \notin Sizes,
         NEW a \in Actors, CallNext(a)
  PROVE  MessageIds'
<1> USE DEF wires, client, server, queueVars, histories, counters
<1>0. nMessage \in Nat /\ \A b \in Actors : msg[b] \in Int
  <2>1. \A n \in 0 .. MaxMessage : n \in Nat /\ n \in Int
    BY BoundAssumption
  <2> QED
    BY <2>1 DEF TypeOK
<1>1. CASE SendData(a)
  <2>1. PICK size \in Sizes : left' = [left EXCEPT ![a] = size]
    BY <1>1 DEF SendData
  <2>2. left'[a] > 0
    BY <2>1, SizesAssumption DEF TypeOK
  <2>3. /\ msg'[a] = nMessage + 1 /\ nMessage' = nMessage + 1 /\ qpc'[a] = "lock"
        /\ \A b \in Actors : b # a => msg'[b] = msg[b] /\ qpc'[b] = qpc[b] /\ left'[b] = left[b]
        /\ UNCHANGED <<accepted, sent>>
    BY <1>1, <2>1 DEF SendData, TypeOK
  <2>4. \A i \in 1 .. Len(accepted) : accepted[i] \in Int /\ accepted[i] <= nMessage
    <3>1. \A n \in 1 .. MaxMessage : n \in Int
      OBVIOUS
    <3>2. \A i \in 1 .. Len(accepted) : accepted[i] \in 1 .. MaxMessage
      BY ElementOfSeq DEF TypeOK
    <3> QED
      BY <3>1, <3>2 DEF MessageIds
  <2>5. \A i \in 1 .. Len(accepted) : accepted'[i] <= nMessage' /\ accepted[i] # nMessage + 1
    BY <2>3, <2>4, <1>0
  <2>6. \A b \in Actors : qpc[b] # "idle" => msg[b] <= nMessage' /\ msg[b] # nMessage + 1
    BY <2>3, <1>0 DEF MessageIds
  <2>7. \A b \in Actors : qpc'[b] # "idle" => msg'[b] <= nMessage'
    BY <2>3, <2>6, <1>0
  <2>8. \A b, c \in Actors : b # c /\ qpc'[b] # "idle" /\ qpc'[c] # "idle" => msg'[b] # msg'[c]
    BY <2>3, <2>6 DEF MessageIds
  <2>9. \A b \in Actors : qpc'[b] = "lock" => left'[b] > 0 /\ New(msg[b])' 
    BY <2>2, <2>3, <2>5 DEF MessageIds, New
  <2> QED
    BY <2>3, <2>5, <2>7, <2>8, <2>9 DEF MessageIds
<1>2. CASE LockQueue(a)
  <2>1. /\ UNCHANGED <<msg, left, accepted, sent, nMessage>>
        /\ qpc[a] = "lock" /\ qpc'[a] # "lock" /\ \A b \in Actors : b # a => qpc'[b] = qpc[b]
    BY <1>2 DEF LockQueue, TypeOK
  <2> QED
    BY <2>1 DEF MessageIds, New
<1>3. CASE RejectMessage(a) \/ NumberMessage(a)
  <2>1. /\ UNCHANGED <<accepted, sent, nMessage>>
        /\ qpc'[a] = "idle"
        /\ \A b \in Actors : b # a => qpc'[b] = qpc[b] /\ msg'[b] = msg[b] /\ left'[b] = left[b]
    BY <1>3 DEF RejectMessage, NumberMessage, TypeOK
  <2> QED
    BY <2>1 DEF MessageIds, New
<1>4. CASE CopyBlock(a)
  <2> DEFINE N == Len(accepted)
  <2>1. /\ qpc[a] = "copy" /\ qpc'[a] \in {"copy", "number"} /\ msg[a] \in 1 .. MaxMessage
        /\ UNCHANGED <<msg, sent, nMessage>>
        /\ \A b \in Actors : b # a => qpc'[b] = qpc[b] /\ left'[b] = left[b]
    <3>1. qpc[a] = "copy" /\ msg[a] > 0 /\ msg[a] \in 0 .. MaxMessage
      BY <1>4 DEF CopyBlock, QueueInv, RoomForBlock, TypeOK
    <3>2. msg[a] \in 1 .. MaxMessage
      BY <3>1, BoundAssumption
    <3> QED
      BY <1>4, <3>1, <3>2 DEF CopyBlock, TypeOK
  <2>2. /\ N \in Nat /\ Len(accepted') = N + 1 /\ accepted'[N + 1] = msg[a]
        /\ \A i \in 1 .. N : accepted'[i] = accepted[i]
    <3>1. accepted \in Seq(1 .. MaxMessage) /\ accepted' = Append(accepted, msg[a])
      BY <1>4 DEF CopyBlock, TypeOK
    <3> QED
      BY <2>1, <3>1, AppendProperties, LenProperties
  <2>3. spc # "reset" /\ \A i \in 1 .. Len(sent) : accepted[i] # msg[a]
    BY <2>1, CopiedIsNotSent
  <2>4. Len(sent) \in Nat /\ Len(sent) <= N
    BY <2>3, QueuedIsAccepted
  <2> HIDE DEF N
  <2>5. \A i \in 1 .. N + 1 : accepted'[i] <= nMessage'
    BY <2>1, <2>2 DEF MessageIds, N
  <2>6. \A b \in Actors : qpc'[b] = "lock" => left'[b] > 0 /\ New(msg[b])'
    <3> SUFFICES ASSUME NEW b \in Actors, qpc'[b] = "lock"
                 PROVE  left'[b] > 0 /\ New(msg[b])'
      OBVIOUS
    <3>1. b # a /\ qpc[b] = "lock" /\ left'[b] = left[b] /\ msg[b] # msg[a]
      BY <2>1 DEF MessageIds
    <3> QED
      BY <3>1, <2>1, <2>2 DEF MessageIds, New, N
  <2>7. \A i \in 1 .. Len(sent), j \in Len(sent) + 1 .. N + 1 : accepted'[i] # accepted'[j]
    BY <2>2, <2>3, <2>4 DEF MessageIds, N
  <2>8. \A b \in Actors : /\ qpc'[b] # "idle" <=> qpc[b] # "idle"
                          /\ msg'[b] = msg[b]
    BY <2>1
  <2> QED
    BY <2>1, <2>2, <2>5, <2>6, <2>7, <2>8 DEF MessageIds
<1>6. CASE Kick(a)
  BY <1>6, MessagesLeftAlone DEF Kick
<1> QED
  BY <1>1, <1>2, <1>3, <1>4, <1>6 DEF CallNext, QueueNext

\* The steps of the client and its thread keep the numbers and the messages; the
\* packet that is written has all that was queued.
LEMMA ThreadMessages ==
  ASSUME TypeOK, QueueInv, QueueInv', QueueNumbers, MessageIds, ServerNext \/ ClientNext
  PROVE  QueueNumbers' /\ MessageIds'
<1> USE DEF wires, client, server, queueVars, histories, counters
<1>1. CASE WritePacket
  <2>1. QueueNumbers'
    BY <1>1, NumbersLeftAlone DEF WritePacket
  <2>2. accepted' = sent' /\ accepted' = accepted /\ nMessage' = nMessage /\ UNCHANGED calls
    BY <1>1 DEF WritePacket, QueueInv, NothingLost
  <2>3. Len(accepted) \in Nat
    BY LenProperties DEF TypeOK
  <2>4. \A i \in 1 .. Len(sent'), j \in Len(sent') + 1 .. Len(accepted') :
          accepted'[i] # accepted'[j]
    BY <2>2, <2>3
  <2>5. MessageIds'
    BY <2>2, <2>4 DEF MessageIds, New, calls
  <2> QED
    BY <2>1, <2>5
<1>2. CASE ResetQueue
  <2>1. /\ queue' = <<>> /\ curPacketNo' = 0 /\ UNCHANGED <<calls, accepted, sent, nMessage>>
    BY <1>2 DEF ResetQueue
  <2>2. \A a \in Actors : qpc[a] \notin {"copy", "number"}
    BY <1>2 DEF ResetQueue, QueueInv, MutexTells
  <2>3. Numbered(Numbers(queue'), Ids(queue'))
    <3>1. Numbers(queue') = <<>> /\ Ids(queue') = <<>>
      BY <2>1 DEF Numbers, Ids
    <3> QED
      BY <3>1, NoneNumbered
  <2>4. Fresh'
    BY <2>1 DEF Fresh
  <2>5. QueueNumbers'
    BY <2>1, <2>2, <2>3, <2>4 DEF QueueNumbers, calls
  <2> QED
    BY <2>1, <2>5, MessagesLeftAlone
<1>3. CASE ServerNext /\ ~WritePacket /\ ~ResetQueue
  <2>1. UNCHANGED <<queue, curPacketNo, calls, accepted, sent, nMessage>>
    BY <1>3 DEF ServerNext, Register, Retransmit, IgnorePing, DropBad, NothingShown,
                IgnoreOld, EndOneTime, RefuseDamaged, AcceptRequest, Show, EndCallback,
                UploadFails, FindEmpty, SendConfirm, FindQueued, Pack
  <2> QED
    BY <2>1, NumbersLeftAlone, MessagesLeftAlone
<1>4. CASE ClientNext
  <2>1. UNCHANGED <<queue, curPacketNo, calls, accepted, sent, nMessage>>
    BY <1>4 DEF ClientNext, ClientReceives, SendRequest, SendTwice, SendOther, TakeAnswer,
                IgnoreAnswer, AskAgain, RepeatRequest, HangUp
  <2> QED
    BY <2>1, NumbersLeftAlone, MessagesLeftAlone
<1> QED
  BY <1>1, <1>2, <1>3, <1>4

\* What is on a wire after something was put on it or taken off.
LEMMA RangeOfWire ==
  ASSUME NEW S, NEW s \in Seq(S)
  PROVE  /\ \A x \in S : Range(Append(s, x)) = Range(s) \cup {x}
         /\ s # <<>> => Head(s) \in Range(s) /\ Range(Tail(s)) \subseteq Range(s)
         /\ Range(<<>>) = {}
<1>1. ASSUME NEW x \in S
      PROVE  Range(Append(s, x)) = Range(s) \cup {x}
  <2>1. /\ Append(s, x) \in Seq(S) /\ Len(Append(s, x)) = Len(s) + 1 /\ Len(s) \in Nat
        /\ Append(s, x)[Len(s) + 1] = x
        /\ \A i \in 1 .. Len(s) : Append(s, x)[i] = s[i]
    BY AppendProperties, LenProperties
  <2> DEFINE t == Append(s, x)
             N == Len(s)
  <2>2. Range(t) = {t[i] : i \in 1 .. N + 1} /\ Range(s) = {s[i] : i \in 1 .. N}
    BY <2>1, RangeEquality
  <2>3. 1 .. N + 1 = (1 .. N) \cup {N + 1}
    BY <2>1
  <2>4. t[N + 1] = x /\ \A i \in 1 .. N : t[i] = s[i]
    BY <2>1
  <2> HIDE DEF t, N
  <2>5. Range(t) = Range(s) \cup {x}
    BY <2>2, <2>3, <2>4
  <2> QED
    BY <2>5 DEF t
<1>2. ASSUME s # <<>>
      PROVE  Head(s) \in Range(s) /\ Range(Tail(s)) \subseteq Range(s)
  <2>1. /\ Len(s) \in Nat /\ Len(s) > 0 /\ Head(s) = s[1]
        /\ Tail(s) \in Seq(S) /\ Len(Tail(s)) = Len(s) - 1
        /\ \A i \in 1 .. Len(s) - 1 : Tail(s)[i] = s[i + 1]
    BY <1>2, HeadTailProperties, EmptySeq, LenProperties
  <2>2. Range(s) = {s[i] : i \in 1 .. Len(s)}
        /\ Range(Tail(s)) = {Tail(s)[i] : i \in 1 .. Len(s) - 1}
    BY <2>1, RangeEquality
  <2>3. 1 \in 1 .. Len(s) /\ \A i \in 1 .. Len(s) - 1 : i + 1 \in 1 .. Len(s)
    BY <2>1
  <2> QED
    BY <2>1, <2>2, <2>3
<1>3. Range(<<>>) = {}
  BY DEF Range
<1> QED
  BY <1>1, <1>2, <1>3

\* The same for the two wires of the client.
LEMMA Wires ==
  ASSUME TypeOK
  PROVE  /\ \A a \in AnswerType : Write(a) => Range(toClient') = Range(toClient) \cup {a}
         /\ \A a : toClient # <<>> /\ Receive(a) =>
                     a \in Range(toClient) /\ Range(toClient') \subseteq Range(toClient)
         /\ Read => Request \in Range(toServer) /\ Range(toServer') \subseteq Range(toServer)
         /\ \A type, n : [type |-> type, no |-> n] \in RequestType /\ Submit(type, n) =>
              Range(toServer') = Range(toServer) \cup {[type |-> type, no |-> n]}
<1>1. toServer \in Seq(RequestType) /\ toClient \in Seq(AnswerType)
  BY DEF TypeOK
<1>2. ASSUME NEW a \in AnswerType, Write(a)
      PROVE  Range(toClient') = Range(toClient) \cup {a}
  BY <1>1, <1>2, RangeOfWire DEF Write
<1>3. ASSUME NEW a, toClient # <<>>, Receive(a)
      PROVE  a \in Range(toClient) /\ Range(toClient') \subseteq Range(toClient)
  BY <1>1, <1>3, RangeOfWire DEF Receive
<1>4. ASSUME Read
      PROVE  Request \in Range(toServer) /\ Range(toServer') \subseteq Range(toServer)
  BY <1>1, <1>4, RangeOfWire DEF Read, Request
<1>5. ASSUME NEW type, NEW n, [type |-> type, no |-> n] \in RequestType, Submit(type, n)
      PROVE  Range(toServer') = Range(toServer) \cup {[type |-> type, no |-> n]}
  BY <1>1, <1>5, RangeOfWire DEF Submit
<1> QED
  BY <1>2, <1>3, <1>4, <1>5

\* The numbers are integers.
LEMMA NumbersAreIntegers ==
  ASSUME TypeOK
  PROVE  /\ cNo \in Nat /\ packRef \in Nat /\ sendBuffer.no \in Nat
         /\ \A x \in Range(toServer) \cup Pending : x.no \in Nat
         /\ Range(toServer) \subseteq RequestType /\ Pending \subseteq AnswerType
<1>1. /\ Range(toServer) \subseteq RequestType /\ Range(toClient) \subseteq AnswerType
      /\ sendBuffer \in AnswerType
  BY RangeOfSeq DEF TypeOK
<1>2. Range(toServer) \subseteq RequestType /\ Pending \subseteq AnswerType
  BY <1>1 DEF Pending
<1>3. \A n \in 0 .. MaxRequest : n \in Nat
  BY BoundAssumption
<1>4. \A x \in RequestType \cup AnswerType : x.no \in 0 .. MaxRequest
  BY DEF RequestType, AnswerType
<1> QED
  BY <1>1, <1>2, <1>3, <1>4 DEF TypeOK

\* The same answer, whether or not it was damaged since.
Like(x, y) == x.type = y.type /\ x.no = y.no /\ x.blocks = y.blocks /\ x.flags = y.flags

\* A step that begins no request, and sends no answer that was not sent before.
Quietly ==
  /\ UNCHANGED <<cNo, packRef>>
  /\ Answering' => Answering
  /\ cWait' => cWait
  /\ ~cWait' /\ spc' # "closed" => ~cWait /\ spc # "closed"
  /\ spc' = "closed" => ~cWait'
  /\ \A x \in Pending' : x.no <= cNo /\ (IsAnswer(x) => \E y \in Pending : Like(x, y))

LEMMA QuietProtocol ==
  ASSUME TypeOK, Protocol, Quietly, \A x \in Range(toServer') : x.no <= cNo,
         spc' = "write" => IsAnswer(sendBuffer') /\ sendBuffer'.no = packRef
  PROVE  Protocol'
<1>1. Answering' => cWait' /\ packRef = cNo
  BY DEF Protocol, Quietly, Answering
<1>2. \A x \in Pending' : /\ x.no <= cNo
                          /\ IsAnswer(x) => x.no <= packRef /\ (Answering' => x.no < cNo)
  <2> SUFFICES ASSUME NEW x \in Pending'
               PROVE  /\ x.no <= cNo
                      /\ IsAnswer(x) => x.no <= packRef /\ (Answering' => x.no < cNo)
    OBVIOUS
  <2>1. CASE IsAnswer(x)
    <3>1. PICK y \in Pending : Like(x, y)
      BY <2>1 DEF Quietly
    <3> QED
      BY <2>1, <3>1 DEF Quietly, Protocol, Like, IsAnswer
  <2>2. CASE ~IsAnswer(x)
    BY <2>2 DEF Quietly
  <2> QED
    BY <2>1, <2>2
<1>3. cNo' = cNo /\ packRef' = packRef /\ packRef \in {cNo, cNo - 1}
  BY DEF Quietly, Protocol
<1>4. ~cWait' /\ spc' # "closed" => packRef = cNo
  BY DEF Quietly, Protocol
<1>5. spc' = "closed" => ~cWait'
  BY DEF Quietly
<1> QED
  BY <1>1, <1>2, <1>3, <1>4, <1>5 DEF Protocol

LEMMA QuietReceived ==
  ASSUME Received, Quietly, UNCHANGED <<got, accepted, sent>>,
         spc' = "write" => Proper(sendBuffer')
  PROVE  Received'
<1>1. PICK n \in 0 .. Len(sent) : Has(n)
  BY DEF Received
<1>2. ~cWait' /\ spc' # "closed" => n = Len(sent)
  BY <1>1 DEF Has, Quietly
<1>3. packRef' # cNo' \/ Answering' => n = Len(sent)
  BY <1>1 DEF Has, Quietly
<1>4. ASSUME cWait', NEW x \in Pending', IsAnswer(x), x.no = cNo
      PROVE  Rest(x, n)'
  <2>1. PICK y \in Pending : Like(x, y)
    BY <1>4 DEF Quietly
  <2>2. Rest(y, n)
    BY <1>1, <1>4, <2>1 DEF Has, Quietly, Like, IsAnswer
  <2> QED
    BY <2>1, <2>2 DEF Like, Rest, Proper
<1>5. Has(n)'
  BY <1>1, <1>2, <1>3, <1>4 DEF Has, Quietly
<1> QED
  BY <1>5 DEF Received

\* Going back to poll, or leaving the loop.
LEMMA BackEffect ==
  ASSUME NEW on \in BOOLEAN, Back(on), spc # "closed", cWait \in BOOLEAN
  PROVE  /\ spc' \in {"poll", "closed"} /\ ~Answering'
         /\ cWait' => cWait
         /\ ~cWait' /\ spc' # "closed" => ~cWait
         /\ spc' = "closed" => ~cWait'
BY DEF Back, Answering

\* Messages that the application is not shown: nothing new is answered.
LEMMA NothingShownKeeps ==
  ASSUME TypeOK, Protocol, Read, UNCHANGED <<cNo, got, packRef, accepted, sent>>,
         NEW on \in BOOLEAN, Back(on),
         sendBuffer' \in {sendBuffer, Registered},
         \A x \in Range(toClient') : \/ x \in Range(toClient) \cup {sendBuffer}
                                     \/ ~IsAnswer(x) /\ x.no <= cNo
  PROVE  Protocol' /\ (Received => Received')
<1>1. spc = "poll" /\ Pending = Range(toClient) \cup {sendBuffer}
  BY DEF Read, Pending
<1>2. /\ spc' \in {"poll", "closed"} /\ ~Answering' /\ (cWait' => cWait)
      /\ ~cWait' /\ spc' # "closed" => ~cWait
      /\ spc' = "closed" => ~cWait'
  BY <1>1, BackEffect DEF TypeOK
<1>3. UNCHANGED <<cNo, got, packRef, accepted, sent>>
  OBVIOUS
<1>4. ~IsAnswer(Registered) /\ Registered.no = 0 /\ 0 <= cNo
  BY NumbersAreIntegers DEF IsAnswer, Registered, NoPacket
<1>5. ASSUME NEW x \in Pending'
      PROVE  x.no <= cNo /\ (IsAnswer(x) => \E y \in Pending : Like(x, y))
  <2>1. x \in Pending \/ (~IsAnswer(x) /\ x.no <= cNo)
    BY <1>1, <1>4, <1>5 DEF Pending
  <2> QED
    BY <2>1 DEF Protocol, Like
<1>6. Quietly
  BY <1>1, <1>2, <1>3, <1>5 DEF Quietly
<1>7. \A x \in Range(toServer') : x.no <= cNo
  BY Wires DEF Protocol
<1> QED
  BY <1>2, <1>3, <1>6, <1>7, QuietProtocol, QuietReceived

\* What the client's thread reads, but for a new request.
LEMMA ReadKeeps ==
  ASSUME TypeOK, Protocol,
         Register \/ Retransmit \/ IgnorePing \/ DropBad \/ IgnoreOld \/ EndOneTime \/ RefuseDamaged
           \/ UploadFails
  PROVE  Protocol' /\ (Received => Received')
<1> USE DEF queueVars
<1>0. online \in BOOLEAN /\ FALSE \in BOOLEAN
  BY DEF TypeOK
<1>n. NothingShown => UNCHANGED <<cNo, got, packRef, accepted, sent>>
  BY DEF NothingShown, histories
<1>1. CASE Register
  <2>1. Registered \in AnswerType /\ ~IsAnswer(Registered) /\ Registered.no = 0 /\ 0 <= cNo
    BY AnswersType, NumbersAreIntegers, BoundAssumption DEF IsAnswer, Registered, NoPacket
  <2>2. Range(toClient') = Range(toClient) \cup {Registered}
    BY <1>1, <2>1, Wires DEF Register
  <2> QED
    BY <1>0, <1>n, <1>1, <2>1, <2>2, NothingShownKeeps DEF Register
<1>2. CASE Retransmit
  <2>1. CASE sendBuffer = NoPacket
    <3>1. toClient' = toClient /\ Back(FALSE) /\ sendBuffer' = sendBuffer
      BY <1>2, <2>1 DEF Retransmit
    <3> QED
      BY <1>0, <1>n, <1>2, <3>1, NothingShownKeeps DEF Retransmit
  <2>2. CASE sendBuffer # NoPacket
    <3>1. Write(sendBuffer) /\ Back(online) /\ sendBuffer' = sendBuffer
      BY <1>2, <2>2 DEF Retransmit
    <3>2. Range(toClient') = Range(toClient) \cup {sendBuffer}
      BY <3>1, Wires DEF TypeOK
    <3> QED
      BY <1>0, <1>n, <1>2, <3>1, <3>2, NothingShownKeeps DEF Retransmit
  <2> QED
    BY <2>1, <2>2
<1>3. CASE IgnorePing \/ IgnoreOld
  BY <1>0, <1>n, <1>3, NothingShownKeeps DEF IgnorePing, IgnoreOld
<1>4. CASE DropBad \/ EndOneTime
  BY <1>0, <1>n, <1>4, NothingShownKeeps DEF DropBad, EndOneTime
<1>5. CASE RefuseDamaged
  <2>1. Request \in Range(toServer) /\ Request \in RequestType
    BY <1>5, Wires, ReadType DEF RefuseDamaged
  <2>2. Request.no <= cNo /\ AskFor(Request.no) \in AnswerType
    BY <2>1, AnswersType DEF Protocol, RequestType
  <2>3. ~IsAnswer(AskFor(Request.no)) /\ AskFor(Request.no).no = Request.no
    BY DEF IsAnswer, AskFor, NoPacket
  <2>4. Range(toClient') = Range(toClient) \cup {AskFor(Request.no)}
    BY <1>5, <2>2, Wires DEF RefuseDamaged
  <2> QED
    BY <1>0, <1>n, <1>5, <2>2, <2>3, <2>4, NothingShownKeeps DEF RefuseDamaged
<1>6. CASE UploadFails
  BY <1>0, <1>6, NothingShownKeeps DEF UploadFails
<1> QED
  BY <1>1, <1>2, <1>3, <1>4, <1>5, <1>6

\* The request that is accepted is the last one, and the next after the last that
\* was accepted.
LEMMA NextAccepted ==
  ASSUME TypeOK, Protocol, AcceptRequest
  PROVE  Request.no = cNo /\ packRef = cNo - 1 /\ packRef # cNo /\ Request.no = packRef + 1
<1>1. Request \in Range(toServer) /\ ~(Request.no <= packRef)
  BY Wires DEF AcceptRequest, NewRequest, OldPacket
<1>2. Request.no <= cNo /\ Request.no \in Nat /\ cNo \in Nat /\ packRef \in Nat
  BY <1>1, NumbersAreIntegers DEF Protocol
<1> QED
  BY <1>1, <1>2 DEF Protocol

\* A request is accepted: the client waits for its answer, and has had all others.
LEMMA AcceptKeeps ==
  ASSUME TypeOK, Protocol, AcceptRequest
  PROVE  Protocol' /\ (Received => Received')
<1> USE DEF client, queueVars, calls
<1>0. /\ UNCHANGED <<toClient, sendBuffer, cNo, cWait, got, accepted, sent>>
      /\ spc = "poll" /\ spc' = "callback" /\ packRef' = Request.no
      /\ ~(Request.no <= packRef) /\ Read
  BY DEF AcceptRequest, Show, Read, NewRequest, OldPacket
<1>1. Request \in Range(toServer) /\ Range(toServer') \subseteq Range(toServer)
  BY <1>0, Wires
<1>2. Request.no = cNo /\ packRef = cNo - 1 /\ packRef # cNo
  BY NextAccepted
<1>3. cWait /\ Answering'
  BY <1>0, <1>2 DEF Protocol, Answering, TypeOK
<1>4. Pending' = Pending /\ \A x \in Pending : IsAnswer(x) => x.no < cNo
  <2>1. Pending' = Pending
    BY <1>0 DEF Pending
  <2>2. \A x \in Pending : x.no \in Nat /\ cNo \in Nat
    BY NumbersAreIntegers
  <2> QED
    BY <1>2, <2>1, <2>2 DEF Protocol
<1>5. Protocol'
  <2>1. \A x \in Pending' : /\ x.no <= cNo'
                            /\ IsAnswer(x) => x.no <= packRef' /\ x.no < cNo'
    BY <1>0, <1>2, <1>4 DEF Protocol
  <2>2. \A x \in Range(toServer') : x.no <= cNo'
    BY <1>0, <1>1 DEF Protocol
  <2> QED
    BY <1>0, <1>2, <1>3, <2>1, <2>2 DEF Protocol
<1>6. ASSUME Received PROVE Received'
  <2>1. PICK n \in 0 .. Len(sent) : Has(n)
    BY <1>6 DEF Received
  <2>2. n = Len(sent)
    BY <1>2, <2>1 DEF Has
  <2>3. \A x \in Pending' : ~(IsAnswer(x) /\ x.no = cNo)
    <3>1. \A x \in Pending : x.no \in Nat /\ cNo \in Nat
      BY NumbersAreIntegers
    <3> QED
      BY <1>4, <3>1
  <2>4. Has(n)'
    BY <1>0, <2>1, <2>2, <2>3 DEF Has
  <2> QED
    BY <1>0, <2>4 DEF Received
<1> QED
  BY <1>5, <1>6

\* A confirmation has no blocks.
LEMMA ConfirmIsProper == \A n : Proper(Confirm(n)) /\ Confirm(n).blocks = <<>>
<1> SUFFICES ASSUME NEW n PROVE Proper(Confirm(n)) /\ Confirm(n).blocks = <<>>
  OBVIOUS
<1>1. Confirm(n).blocks = <<>> /\ Confirm(n).flags = <<>>
  BY DEF Confirm, NoPacket
<1>2. Unpack(<<>>, <<>>) = <<>>
  BY DEF Unpack, CountMessages
<1> QED
  BY <1>1, <1>2, NoMessages DEF Proper

\* Nothing is queued: all that was sent has been unpacked, and nothing is sent.
LEMMA ConfirmKeeps ==
  ASSUME TypeOK, Protocol, SendConfirm
  PROVE  Protocol' /\ (Received => Received')
<1> USE DEF queueVars, histories
<1>0. /\ UNCHANGED <<toServer, sendBuffer, cNo, got, packRef, accepted, sent>>
      /\ spc = "confirm" /\ Write(Confirm(packRef)) /\ Back(online) /\ online \in BOOLEAN
  BY DEF SendConfirm, TypeOK
<1>1. Answering /\ cWait /\ packRef = cNo
  BY <1>0 DEF Answering, Protocol
<1>2. /\ spc' \in {"poll", "closed"} /\ ~Answering' /\ (cWait' => cWait)
      /\ ~cWait' /\ spc' # "closed" => ~cWait
      /\ spc' = "closed" => ~cWait'
  BY <1>0, BackEffect DEF TypeOK
<1>b. PICK c : c = Confirm(packRef)
  OBVIOUS
<1>3. c \in AnswerType /\ c.no = cNo /\ c.blocks = <<>> /\ Proper(c)
  BY <1>1, <1>b, AnswersType, ConfirmIsProper DEF Confirm, NoPacket, TypeOK
<1>4. Pending' = Pending \cup {c} /\ \A x \in Pending : IsAnswer(x) => x.no < cNo
  <2>1. Range(toClient') = Range(toClient) \cup {c}
    BY <1>0, <1>3, <1>b, Wires
  <2>2. Pending' = Pending \cup {c}
    BY <1>0, <1>2, <2>1 DEF Pending
  <2> QED
    BY <1>1, <2>2 DEF Protocol
<1>a. cNo \in Nat /\ \A x \in Pending : x.no \in Nat
  BY NumbersAreIntegers
<1>5. Protocol'
  <2>1. \A x \in Pending' : x.no <= cNo' /\ (IsAnswer(x) => x.no <= packRef')
    <3>1. \A x \in Pending : x.no <= cNo /\ (IsAnswer(x) => x.no <= packRef)
      BY DEF Protocol
    <3> QED
      BY <1>0, <1>1, <1>3, <1>4, <1>a, <3>1
  <2> QED
    BY <1>0, <1>1, <1>2, <2>1 DEF Protocol
<1>6. ASSUME Received PROVE Received'
  <2>1. PICK n \in 0 .. Len(sent) : Has(n)
    BY <1>6 DEF Received
  <2>2. n = Len(sent) /\ Len(sent) \in Nat
    BY <1>1, <2>1, LenProperties DEF Has, TypeOK
  <2>3. \A x \in Pending' : IsAnswer(x) /\ x.no = cNo => x = c
    BY <1>4, <1>a
  <2>4. Len(<<>>) = 0 /\ Len(sent) - n = 0
    BY <2>2
  <2>5. Rest(c, n)'
    BY <1>0, <1>3, <2>4 DEF Rest
  <2>6. Has(n)'
    BY <1>0, <1>1, <1>2, <2>1, <2>2, <2>3, <2>5 DEF Has
  <2> QED
    BY <1>0, <1>2, <2>6 DEF Received
<1> QED
  BY <1>5, <1>6

\* The blocks of the packet are those of the queue, and so are its messages.
LEMMA PackKeeps ==
  ASSUME TypeOK, Protocol, Pack
  PROVE  Protocol' /\ (QueueNumbers /\ Received => Received')
<1> USE DEF wires, client, histories
<1>0. /\ UNCHANGED <<toServer, toClient, cNo, cWait, got, packRef, accepted, sent>>
      /\ spc = "lock" /\ spc' = "write" /\ sendBuffer' = Packet(packRef, queue)
  BY DEF Pack
<1>1. Pending' \subseteq Pending
  BY <1>0 DEF Pending
<1>2. Quietly
  BY <1>0, <1>1 DEF Quietly, Answering, Protocol, Like
<1>3. IsAnswer(sendBuffer') /\ sendBuffer'.no = packRef
  BY <1>0 DEF IsAnswer, Packet
<1>4. QueueNumbers => Proper(sendBuffer')
  <2> SUFFICES ASSUME QueueNumbers PROVE Proper(sendBuffer')
    OBVIOUS
  <2>1. sendBuffer'.blocks = Ids(queue) /\ sendBuffer'.flags = Flags(Numbers(queue))
    BY <1>0 DEF Packet
  <2>2. Numbered(Numbers(queue), Ids(queue)) /\ Ids(queue) \in Seq(1 .. MaxMessage)
    BY IdsType DEF QueueNumbers, TypeOK
  <2>3. MessagesIn(Unpack(Ids(queue), Flags(Numbers(queue))), Ids(queue), Len(Ids(queue)))
    BY <2>2, UnpackedAsPacked
  <2> QED
    BY <2>1, <2>3 DEF Proper
<1>5. \A x \in Range(toServer') : x.no <= cNo
  BY <1>0 DEF Protocol
<1> QED
  BY <1>0, <1>2, <1>3, <1>4, <1>5, QuietProtocol, QuietReceived

\* The packet has all that was queued since the last one.
LEMMA WriteKeeps ==
  ASSUME TypeOK, QueueInv, QueueInv', Protocol, WritePacket
  PROVE  Protocol' /\ (Received => Received')
<1> USE DEF client, queueVars
<1>0. /\ UNCHANGED <<toServer, sendBuffer, cNo, cWait, got, packRef, accepted>>
      /\ spc = "write" /\ spc' = "reset" /\ Write(sendBuffer) /\ sent' = sent \o sendBuffer.blocks
  BY DEF WritePacket
<1>1. Answering /\ cWait /\ packRef = cNo /\ ~Answering'
  BY <1>0 DEF Answering, Protocol
<1>2. Pending' = Pending \cup {sendBuffer} /\ sendBuffer.no = cNo
  <2>1. Range(toClient') = Range(toClient) \cup {sendBuffer}
    BY <1>0, Wires DEF TypeOK
  <2> QED
    BY <1>0, <1>1, <2>1 DEF Pending, Protocol
<1>3. \A x \in Pending : x.no <= cNo /\ (IsAnswer(x) => x.no < cNo)
  BY <1>1 DEF Protocol
<1>a. cNo \in Nat /\ \A x \in Pending : x.no \in Nat
  BY NumbersAreIntegers
<1>5. Protocol'
  <2>1. \A x \in Pending' : x.no <= cNo' /\ (IsAnswer(x) => x.no <= packRef')
    BY <1>0, <1>1, <1>2, <1>3, <1>a
  <2> QED
    BY <1>0, <1>1, <2>1 DEF Protocol
<1>6. ASSUME Received PROVE Received'
  <2>1. PICK n \in 0 .. Len(sent) : Has(n)
    BY <1>6 DEF Received
  <2>2. n = Len(sent)
    BY <1>1, <2>1 DEF Has
  <2>3. \A x \in Pending' : IsAnswer(x) /\ x.no = cNo => x = sendBuffer
    BY <1>2, <1>3, <1>a
  <2> DEFINE M == 1 .. MaxMessage
             q == sendBuffer.blocks
  <2>4. /\ Len(sent \o q) = Len(sent) + Len(q)
        /\ \A i \in 1 .. Len(q) : (sent \o q)[Len(sent) + i] = q[i]
        /\ Len(sent) \in Nat /\ Len(q) \in Nat
    <3>1. sent \in Seq(M) /\ q \in Seq(M)
      BY DEF TypeOK, AnswerType
    <3> HIDE DEF M, q
    <3>2. \A s, t \in Seq(M) : /\ Len(s \o t) = Len(s) + Len(t)
                               /\ \A i \in 1 .. Len(t) : (s \o t)[Len(s) + i] = t[i]
      BY ConcatElements
    <3>3. Len(sent) \in Nat /\ Len(q) \in Nat
      BY <3>1, LenProperties
    <3> QED
      BY <3>1, <3>2, <3>3, Zenon
  <2>5. accepted' = sent \o q
    BY <1>0 DEF QueueInv, NothingLost
  <2>6. Len(sent') - n = Len(q) /\ n \in 0 .. Len(sent')
    BY <1>0, <2>2, <2>4
  <2>7. \A i \in 1 .. Len(q) : q[i] = accepted'[n + i]
    BY <2>2, <2>4, <2>5
  <2>8. Rest(sendBuffer, n)'
    BY <1>0, <1>6, <2>6, <2>7 DEF Rest, Received, Proper
  <2>9. Has(n)'
    BY <1>0, <1>1, <2>1, <2>3, <2>8 DEF Has
  <2> QED
    BY <1>0, <2>6, <2>9 DEF Received
<1> QED
  BY <1>5, <1>6

\* The steps of the client's thread.
LEMMA ThreadKeeps ==
  ASSUME TypeOK, QueueInv, QueueInv', Protocol, ServerNext
  PROVE  Protocol' /\ (QueueNumbers /\ Received => Received')
<1>1. CASE EndCallback \/ FindEmpty \/ FindQueued
  <2>1. /\ UNCHANGED <<toServer, toClient, sendBuffer, cNo, cWait, got, packRef, accepted, sent>>
        /\ spc \in {"callback", "end"} /\ spc' \in {"end", "confirm", "lock"}
    BY <1>1 DEF EndCallback, FindEmpty, FindQueued, wires, client, queueVars, histories
  <2>2. Pending' = Pending
    BY <2>1 DEF Pending
  <2>3. Quietly
    BY <2>1, <2>2 DEF Quietly, Answering, Protocol, Like
  <2>4. \A x \in Range(toServer') : x.no <= cNo
    BY <2>1 DEF Protocol
  <2> QED
    BY <2>1, <2>3, <2>4, QuietProtocol, QuietReceived
<1>2. CASE ResetQueue
  <2>1. /\ UNCHANGED <<toServer, toClient, sendBuffer, cNo, got, packRef, accepted, sent>>
        /\ spc = "reset" /\ Back(online) /\ online \in BOOLEAN
    BY <1>2 DEF ResetQueue, wires, histories, TypeOK
  <2>2. /\ spc' \in {"poll", "closed"} /\ ~Answering' /\ (cWait' => cWait)
        /\ ~cWait' /\ spc' # "closed" => ~cWait
        /\ spc' = "closed" => ~cWait'
    BY <2>1, BackEffect DEF TypeOK
  <2>3. Pending' = Pending
    BY <2>1, <2>2 DEF Pending
  <2>4. Quietly
    BY <2>1, <2>2, <2>3 DEF Quietly, Protocol, Like
  <2>5. \A x \in Range(toServer') : x.no <= cNo
    BY <2>1 DEF Protocol
  <2> QED
    BY <2>1, <2>2, <2>4, <2>5, QuietProtocol, QuietReceived
<1> QED
  BY <1>1, <1>2, ReadKeeps, AcceptKeeps, ConfirmKeeps, PackKeeps, WriteKeeps DEF ServerNext

\* The next request: all that was sent has been unpacked, and no answer to it is
\* under way.
LEMMA RequestKeeps ==
  ASSUME TypeOK, Protocol, SendRequest
  PROVE  Protocol' /\ (Received => Received')
<1> USE DEF server, queueVars, histories
<1>0. /\ UNCHANGED <<toClient, sendBuffer, spc, got, packRef, accepted, sent>>
      /\ spc # "closed" /\ ~cWait /\ cNo' = cNo + 1 /\ cWait'
  BY DEF SendRequest
<1>1. packRef = cNo /\ ~Answering
  BY <1>0 DEF Protocol
<1>2. Pending' = Pending /\ Answering' = Answering
  BY <1>0 DEF Pending, Answering
<1>a. /\ cNo \in Nat /\ \A x \in Pending : x.no \in Nat
      /\ \A x \in Range(toServer) : x.no \in Nat
  BY NumbersAreIntegers
<1>3. \A x \in Range(toServer') : x.no <= cNo'
  <2>1. PICK type \in {"data", "damaged"} : Submit(type, cNo + 1)
    BY DEF SendRequest
  <2>2. cNo + 1 \in 0 .. MaxRequest
    <3>1. cNo < MaxRequest /\ MaxRequest \in Nat
      BY BoundAssumption DEF SendRequest
    <3> QED
      BY <3>1, <1>a
  <2>3. [type |-> type, no |-> cNo + 1] \in RequestType
    BY <2>2 DEF RequestType
  <2>4. Range(toServer') = Range(toServer) \cup {[type |-> type, no |-> cNo + 1]}
    BY <2>1, <2>3, Wires
  <2> QED
    BY <1>0, <1>a, <2>4 DEF Protocol
<1>4. \A x \in Pending : x.no <= cNo /\ (IsAnswer(x) => x.no <= packRef)
  BY DEF Protocol
<1>5. Protocol'
  <2>1. \A x \in Pending' : x.no <= cNo' /\ (IsAnswer(x) => x.no <= packRef')
    BY <1>0, <1>2, <1>4, <1>a
  <2>2. packRef' \in {cNo', cNo' - 1}
    BY <1>0, <1>1, <1>a
  <2>3. spc = "write" => Answering
    BY DEF Answering
  <2> QED
    BY <1>0, <1>1, <1>2, <1>3, <2>1, <2>2, <2>3 DEF Protocol
<1>6. ASSUME Received PROVE Received'
  <2>1. PICK n \in 0 .. Len(sent) : Has(n)
    BY <1>6 DEF Received
  <2>2. n = Len(sent)
    BY <1>0, <2>1 DEF Has
  <2>3. \A x \in Pending' : ~(IsAnswer(x) /\ x.no = cNo')
    BY <1>0, <1>1, <1>2, <1>4, <1>a
  <2>4. Has(n)'
    BY <1>0, <2>1, <2>2, <2>3 DEF Has
  <2>5. spc' # "write"
    BY <1>0, <1>1 DEF Answering
  <2> QED
    BY <1>0, <2>4, <2>5 DEF Received
<1> QED
  BY <1>5, <1>6

\* The answer has the messages that were sent since the last one.
LEMMA AnswerKeeps ==
  ASSUME TypeOK, QueueInv, Protocol, toClient # <<>>, TakeAnswer
  PROVE  Protocol' /\ (MessageIds /\ Received => Received')
<1> USE DEF server, queueVars, histories
<1>0. PICK a : /\ Receive(a) /\ Answers(a) /\ got' = got \o Unpack(a.blocks, a.flags)
               /\ ~cWait' /\ cWait' = FALSE
               /\ UNCHANGED <<toServer, sendBuffer, spc, cNo, packRef, accepted, sent>>
  BY DEF TakeAnswer
<1>1. a \in Range(toClient) /\ Range(toClient') \subseteq Range(toClient)
  BY <1>0, Wires
<1>2. /\ a \in Pending /\ IsAnswer(a) /\ a.no = cNo /\ cWait
      /\ Pending' \subseteq Pending /\ Answering' = Answering
  BY <1>0, <1>1 DEF Pending, Answers, IsAnswer, Answering
<1>3. packRef = cNo /\ ~Answering
  <2>1. cNo \in Nat /\ packRef \in Nat
    BY NumbersAreIntegers
  <2> QED
    BY <1>2, <2>1 DEF Protocol
<1>4. spc # "write" /\ spc' # "write"
  BY <1>0, <1>3 DEF Answering
<1>5. Protocol'
  BY <1>0, <1>2, <1>3, <1>4 DEF Protocol
<1>6. ASSUME MessageIds, Received PROVE Received'
  <2>1. PICK n \in 0 .. Len(sent) : Has(n)
    BY <1>6 DEF Received
  <2>2. Rest(a, n) /\ MessagesIn(got, accepted, n)
    BY <1>2, <2>1 DEF Has
  <2> DEFINE M == 1 .. MaxMessage
             S == Len(sent)
  <2>3. /\ a.blocks \in Seq(M) /\ a.flags \in Seq({0, 1}) /\ Len(a.flags) = Len(a.blocks)
        /\ accepted \in Seq(M) /\ sent \in Seq(M) /\ got \in Seq(Seq(M))
    BY <1>2, NumbersAreIntegers DEF TypeOK, AnswerType
  <2>4. S \in Nat /\ S <= Len(accepted) /\ Len(accepted) \in Nat
    <3> DEFINE N == Len(accepted)
    <3>1. S \in Nat /\ N \in Nat
      BY <2>3, LenProperties
    <3>2. spc = "reset" => accepted = sent
      BY DEF QueueInv, NothingLost
    <3>3. spc # "reset" => N = S + Len(queue) /\ Len(queue) \in Nat
      BY QueuedIsAccepted
    <3>4. S <= N
      <4> HIDE DEF S, N
      <4>1. CASE spc = "reset"
        <5>1. N = S
          BY <3>2, <4>1 DEF N, S
        <5> QED
          BY <5>1, <3>1
      <4>2. CASE spc # "reset"
        BY <3>1, <3>3, <4>2
      <4> QED
        BY <4>1, <4>2
    <3> QED
      BY <3>1, <3>4
  <2>5. \A i \in 1 .. S, j \in S + 1 .. Len(accepted) : accepted[i] # accepted[j]
    BY <1>6 DEF MessageIds
  <2>6. Len(a.blocks) = S - n /\ Len(a.blocks) \in Nat
    BY <2>2, <2>3, LenProperties DEF Rest
  <2> HIDE DEF M, S
  <2>7. MessagesIn(got \o Unpack(a.blocks, a.flags), accepted, S)
    <3> DEFINE u == Unpack(a.blocks, a.flags)
               t == a.blocks
    <3>1. u \in Seq(Seq(M))
      BY <2>3, UnpackType
    <3>2. MessagesIn(u, t, Len(t)) /\ \A i \in 1 .. Len(t) : t[i] = accepted[n + i]
      BY <2>2 DEF Rest, Proper
    <3>3. n \in Nat /\ n + Len(t) = S
      BY <2>1, <2>4, <2>6 DEF S
    <3>4. n + Len(t) <= Len(accepted)
      BY <3>3, <2>4
    <3>5. \A i \in 1 .. n + Len(t), j \in n + Len(t) + 1 .. Len(accepted) :
            accepted[i] # accepted[j]
      BY <3>3, <2>5
    <3>6. t \in Seq(M) /\ accepted \in Seq(M) /\ got \in Seq(Seq(M)) /\ MessagesIn(got, accepted, n)
      BY <2>2, <2>3
    <3> HIDE DEF u, t
    <3>7. MessagesIn(got \o u, accepted, n + Len(t))
      BY <3>1, <3>2, <3>3, <3>4, <3>5, <3>6, MessagesJoin
    <3> QED
      BY <3>3, <3>7 DEF u
  <2>8. Received'
    <3>1. got' = got \o Unpack(a.blocks, a.flags) /\ S = Len(sent)
      BY <1>0 DEF S
    <3>2. MessagesIn(got, accepted, S)'
      BY <1>0, <2>7, <3>1 DEF S
    <3>3. Has(S)'
      BY <1>0, <3>1, <3>2 DEF Has, S
    <3>4. S' = S /\ S \in 0 .. S
      BY <1>0, <2>4 DEF S
    <3> QED
      BY <1>0, <1>4, <3>3, <3>4 DEF Received, S
  <2> QED
    BY <2>8
<1> QED
  BY <1>5, <1>6

\* The steps of the client.
LEMMA ClientKeeps ==
  ASSUME TypeOK, QueueInv, Protocol, ClientNext
  PROVE  Protocol' /\ (MessageIds /\ Received => Received')
<1> USE DEF client, server, queueVars, histories
<1>a. ASSUME UNCHANGED <<sendBuffer, cNo, cWait, got, packRef, spc, accepted, sent>>,
             Range(toClient') \subseteq Range(toClient),
             \A x \in Range(toServer') : x.no <= cNo
      PROVE  Protocol' /\ (Received => Received')
  <2>1. Pending' \subseteq Pending
    BY <1>a DEF Pending
  <2>2. Quietly
    BY <1>a, <2>1 DEF Quietly, Answering, Protocol, Like
  <2>3. spc' = "write" => /\ IsAnswer(sendBuffer') /\ sendBuffer'.no = packRef
                          /\ Received => Proper(sendBuffer')
    BY <1>a DEF Protocol, Received
  <2> QED
    BY <1>a, <2>2, <2>3, QuietProtocol, QuietReceived
<1>b. ASSUME NEW type \in {"data", "damaged", "retransmit", "register", "ping", "bad"},
             NEW n \in 0 .. MaxRequest, n <= cNo, Submit(type, n)
      PROVE  \A x \in Range(toServer') : x.no <= cNo
  <2>1. [type |-> type, no |-> n] \in RequestType
    BY DEF RequestType
  <2>2. Range(toServer') = Range(toServer) \cup {[type |-> type, no |-> n]}
    BY <1>b, <2>1, Wires
  <2> QED
    BY <1>b, <2>2 DEF Protocol
<1>c. /\ cNo \in 0 .. MaxRequest /\ cNo <= cNo /\ 0 \in 0 .. MaxRequest /\ 0 <= cNo
      /\ \A x \in Range(toServer) : x.no <= cNo
  BY NumbersAreIntegers, BoundAssumption DEF TypeOK, Protocol
<1>d. ASSUME toClient # <<>>, NEW a, Receive(a)
      PROVE  /\ Range(toClient') \subseteq Range(toClient)
             /\ a.no \in 0 .. MaxRequest /\ a.no <= cNo
  <2>1. a \in Range(toClient) /\ Range(toClient') \subseteq Range(toClient)
    BY <1>d, Wires
  <2>2. a \in AnswerType
    BY <1>d, ReceiveType
  <2>3. a \in Pending
    BY <2>1 DEF Pending
  <2> QED
    BY <2>1, <2>2, <2>3 DEF Protocol, AnswerType
<1>1. CASE SendTwice
  <2>1. Submit("data", cNo)
    BY <1>1 DEF SendTwice
  <2>2. \A x \in Range(toServer') : x.no <= cNo
    BY <2>1, <1>b, <1>c
  <2> QED
    BY <1>1, <1>a, <2>2 DEF SendTwice
<1>2. CASE SendOther
  <2>1. PICK type \in {"register", "ping", "bad"} : Submit(type, 0)
    BY <1>2 DEF SendOther
  <2>2. \A x \in Range(toServer') : x.no <= cNo
    BY <2>1, <1>b, <1>c
  <2> QED
    BY <1>2, <1>a, <2>2 DEF SendOther
<1>3. CASE toClient # <<>> /\ IgnoreAnswer
  <2>1. Range(toClient') \subseteq Range(toClient)
    BY <1>3, <1>d DEF IgnoreAnswer
  <2> QED
    BY <1>3, <1>a, <1>c, <2>1 DEF IgnoreAnswer
<1>4. CASE toClient # <<>> /\ AskAgain
  <2>1. Range(toClient') \subseteq Range(toClient)
    BY <1>4, <1>d DEF AskAgain
  <2>2. Submit("retransmit", cNo)
    BY <1>4 DEF AskAgain
  <2>3. \A x \in Range(toServer') : x.no <= cNo
    BY <2>2, <1>b, <1>c
  <2> QED
    BY <1>4, <1>a, <2>1, <2>3 DEF AskAgain
<1>5. CASE toClient # <<>> /\ RepeatRequest
  <2>1. PICK a : Receive(a) /\ Submit("data", a.no)
    BY <1>5 DEF RepeatRequest
  <2>2. Range(toClient') \subseteq Range(toClient)
    BY <1>5, <2>1, <1>d
  <2>3. a.no \in 0 .. MaxRequest /\ a.no <= cNo
    BY <1>5, <2>1, <1>d
  <2>4. \A x \in Range(toServer') : x.no <= cNo
    BY <2>1, <2>3, <1>b
  <2> QED
    BY <1>5, <1>a, <2>2, <2>4 DEF RepeatRequest
<1>6. CASE HangUp
  <2>1. /\ UNCHANGED <<toServer, sendBuffer, cNo, got, packRef, accepted, sent>>
        /\ spc = "poll" /\ Back(FALSE) /\ toClient' = <<>>
    BY <1>6 DEF HangUp
  <2>2. /\ spc' \in {"poll", "closed"} /\ ~Answering' /\ (cWait' => cWait)
        /\ ~cWait' /\ spc' # "closed" => ~cWait
        /\ spc' = "closed" => ~cWait'
    BY <2>1, BackEffect DEF TypeOK
  <2>3. Pending' \subseteq Pending
    BY <2>1, <2>2, RangeOfWire, EmptySeq DEF Pending
  <2>4. Quietly
    BY <2>1, <2>2, <2>3 DEF Quietly, Protocol, Like
  <2> QED
    BY <1>c, <2>1, <2>2, <2>4, QuietProtocol, QuietReceived
<1> QED
  BY <1>1, <1>2, <1>3, <1>4, <1>5, <1>6, RequestKeeps, AnswerKeeps DEF ClientNext, ClientReceives

\* The calls of STSV_SendData, and a thread that disconnects the client.
LEMMA CallKeeps ==
  ASSUME TypeOK, QueueInv, Protocol, NEW a \in Actors, CallNext(a)
  PROVE  Protocol' /\ (QueueNumbers /\ MessageIds /\ Received => Received')
<1> USE DEF wires, client, server, queueVars, histories
<1>a. ASSUME UNCHANGED <<toServer, cNo, packRef, cWait, spc>>,
             \A x \in Range(toClient') : x \in Range(toClient) \/ (~IsAnswer(x) /\ x.no <= cNo),
             Like(sendBuffer', sendBuffer)
      PROVE  Protocol' /\ Quietly
  <2>1. ASSUME NEW x \in Pending'
        PROVE  x.no <= cNo /\ (IsAnswer(x) => \E y \in Pending : Like(x, y))
    <3>1. CASE x \in Range(toClient)
      BY <3>1 DEF Protocol, Pending, Like
    <3>2. CASE x = sendBuffer' /\ spc # "write"
      BY <1>a, <3>2 DEF Protocol, Pending, Like
    <3>3. CASE ~IsAnswer(x) /\ x.no <= cNo
      BY <3>3
    <3> QED
      BY <2>1, <1>a, <3>1, <3>2, <3>3 DEF Pending
  <2>2. Quietly
    BY <1>a, <2>1 DEF Quietly, Answering, Protocol
  <2>3. spc' = "write" => IsAnswer(sendBuffer') /\ sendBuffer'.no = packRef
    BY <1>a DEF Protocol, IsAnswer, Like
  <2>4. \A x \in Range(toServer') : x.no <= cNo
    BY <1>a DEF Protocol
  <2> QED
    BY <2>2, <2>3, <2>4, QuietProtocol
<1>1. CASE SendData(a) \/ LockQueue(a) \/ RejectMessage(a) \/ NumberMessage(a)
  <2>1. UNCHANGED <<toServer, toClient, sendBuffer, cNo, packRef, cWait, spc, got, accepted, sent>>
    BY <1>1 DEF SendData, LockQueue, RejectMessage, NumberMessage
  <2>2. Protocol' /\ Quietly
    BY <1>a, <2>1 DEF Like
  <2>3. Received /\ spc' = "write" => Proper(sendBuffer')
    BY <2>1 DEF Received
  <2> QED
    BY <2>1, <2>2, <2>3, QuietReceived
<1>2. CASE Kick(a)
  <2>1. Kicked \in AnswerType /\ ~IsAnswer(Kicked) /\ Kicked.no = 0 /\ 0 <= cNo
    BY AnswersType, NumbersAreIntegers, BoundAssumption DEF IsAnswer, Kicked, NoPacket
  <2>2. /\ Write(Kicked)
        /\ UNCHANGED <<toServer, sendBuffer, cNo, packRef, cWait, spc, got, accepted, sent>>
    BY <1>2 DEF Kick, Write
  <2>3. Range(toClient') = Range(toClient) \cup {Kicked}
    BY <2>1, <2>2, Wires
  <2>4. Protocol' /\ Quietly
    BY <1>a, <2>1, <2>2, <2>3 DEF Like
  <2>5. Received /\ spc' = "write" => Proper(sendBuffer')
    BY <2>2 DEF Received
  <2> QED
    BY <2>2, <2>4, <2>5, QuietReceived
<1>3. CASE CopyBlock(a)
  <2>1. /\ UNCHANGED <<toServer, toClient, cNo, packRef, cWait, spc, got, sent>>
        /\ accepted' = Append(accepted, msg[a])
    BY <1>3 DEF CopyBlock
  <2>2. Like(sendBuffer', sendBuffer)
    BY <1>3 DEF CopyBlock, Like, TypeOK, AnswerType
  <2>3. Protocol'
    BY <1>a, <2>1, <2>2
  <2>4. ASSUME QueueNumbers, MessageIds, Received PROVE Received'
    <3>1. /\ spc \notin {"write", "reset"} /\ \A i \in 1 .. Len(sent) : accepted[i] # msg[a]
      BY <1>3, <2>4, CopiedIsNotSent DEF CopyBlock
    <3> DEFINE M == 1 .. MaxMessage
    <3>2. msg[a] \in M /\ accepted \in Seq(M)
      <4>1. msg[a] > 0 /\ msg[a] \in 0 .. MaxMessage
        BY <1>3 DEF CopyBlock, QueueInv, RoomForBlock, TypeOK
      <4> QED
        BY <4>1, BoundAssumption DEF TypeOK
    <3>3. Len(sent) \in Nat /\ Len(sent) <= Len(accepted) /\ Len(accepted) \in Nat
      BY <3>1, QueuedIsAccepted
    <3>4. PICK n \in 0 .. Len(sent) : Has(n)
      BY <2>4 DEF Received
    <3>5. /\ n \in Nat /\ n <= Len(sent) /\ n <= Len(accepted)
          /\ \A i \in 1 .. n : accepted[i] # msg[a]
      BY <3>1, <3>3, <3>4
    <3> HIDE DEF M
    <3>6. MessagesIn(got, Append(accepted, msg[a]), n)
      BY <3>2, <3>4, <3>5, MessagesStay DEF Has
    <3>7. \A i \in 1 .. Len(accepted) : accepted'[i] = accepted[i]
      BY <2>1, <3>2, AppendProperties
    <3>8. ASSUME NEW x, NEW y, Like(x, y), Rest(x, n)
          PROVE  Rest(y, n)'
      <4>1. /\ Len(x.blocks) = Len(sent) - n
            /\ \A i \in 1 .. Len(x.blocks) : x.blocks[i] = accepted[n + i]
        BY <3>8 DEF Rest
      <4>2. \A i \in 1 .. Len(x.blocks) : x.blocks[i] = accepted'[n + i]
        <5> DEFINE L == Len(x.blocks)
        <5>1. L = Len(sent) - n /\ \A i \in 1 .. L : x.blocks[i] = accepted[n + i]
          BY <4>1
        <5> HIDE DEF L
        <5>2. \A i \in 1 .. L : n + i \in 1 .. Len(accepted)
          BY <3>3, <3>5, <5>1
        <5> QED
          BY <3>7, <5>1, <5>2 DEF L
      <4>3. Proper(y)
        BY <3>8 DEF Rest, Like, Proper
      <4> QED
        BY <2>1, <3>8, <4>1, <4>2, <4>3 DEF Rest, Like
    <3>9. ASSUME cWait, NEW y \in Pending', IsAnswer(y), y.no = cNo
          PROVE  Rest(y, n)'
      <4>1. PICK x \in Pending : Like(x, y)
        BY <2>1, <2>2, <3>9 DEF Pending, Like
      <4>2. Rest(x, n)
        BY <3>4, <3>9, <4>1 DEF Has, Like, IsAnswer
      <4> QED
        BY <4>1, <4>2, <3>8
    <3>10. Has(n)'
      BY <2>1, <3>4, <3>6, <3>9 DEF Has, Answering
    <3>11. Received'
      BY <2>1, <3>1, <3>4, <3>10 DEF Received
    <3> QED
      BY <3>11
  <2> QED
    BY <2>3, <2>4
<1> QED
  BY <1>1, <1>2, <1>3 DEF CallNext, QueueNext

----------------------------------------------------------------------------
(* The two theorems.                                                       *)

\* One more number.
LEMMA OneMoreNumber ==
  ASSUME NEW n \in Nat
  PROVE  Append([i \in 1 .. n |-> i], n + 1) = [i \in 1 .. n + 1 |-> i]
OBVIOUS

\* The application has seen the requests up to packRef.
LEMMA StepSeen ==
  ASSUME TypeOK, QueueInv, QueueInv', SeenInv, [Next]_vars
  PROVE  SeenInv'
<1> USE DEF wires, client, server, queueVars, histories, counters
<1>a. ASSUME UNCHANGED <<processed, packRef>>, Protocol'
      PROVE  SeenInv'
  BY <1>a DEF SeenInv
<1>b. Protocol
  BY DEF SeenInv
<1>1. CASE AcceptRequest
  <2>1. Protocol'
    BY <1>1, <1>b, AcceptKeeps
  <2>2. processed' = Append(processed, Request.no) /\ packRef' = Request.no
    BY <1>1 DEF AcceptRequest, Show
  <2>3. Request.no = packRef + 1 /\ packRef \in Nat
    BY <1>1, <1>b, NextAccepted, NumbersAreIntegers
  <2> QED
    BY <2>1, <2>2, <2>3, OneMoreNumber DEF SeenInv
<1>2. CASE ServerNext /\ ~AcceptRequest
  <2>1. Protocol'
    BY <1>2, <1>b, ThreadKeeps
  <2>2. UNCHANGED <<processed, packRef>>
    BY <1>2 DEF ServerNext, Register, Retransmit, IgnorePing, DropBad, NothingShown, IgnoreOld,
                EndOneTime, RefuseDamaged, UploadFails, EndCallback, FindEmpty, SendConfirm,
                FindQueued, Pack, WritePacket, ResetQueue
  <2> QED
    BY <1>a, <2>1, <2>2
<1>3. CASE ClientNext
  <2>1. Protocol'
    BY <1>3, <1>b, ClientKeeps
  <2>2. UNCHANGED <<processed, packRef>>
    BY <1>3 DEF ClientNext, ClientReceives, SendRequest, SendTwice, SendOther, TakeAnswer,
                IgnoreAnswer, AskAgain, RepeatRequest, HangUp
  <2> QED
    BY <1>a, <2>1, <2>2
<1>4. CASE Reuse
  <2>1. /\ toServer' = <<>> /\ toClient' = <<>> /\ cNo' = 0 /\ packRef' = 0 /\ processed' = <<>>
        /\ sendBuffer' = NoPacket /\ spc' = "poll" /\ spc = "closed" /\ cWait' = cWait
    BY <1>4 DEF Reuse
  <2>2. Range(toServer') = {} /\ Pending' = {NoPacket}
    BY <2>1 DEF Pending, Range
  <2>3. NoPacket.no = 0 /\ ~IsAnswer(NoPacket)
    BY DEF NoPacket, IsAnswer
  <2>4. Protocol'
    BY <1>b, <2>1, <2>2, <2>3 DEF Protocol, Answering
  <2>5. <<>> = [i \in 1 .. 0 |-> i]
    OBVIOUS
  <2> QED
    BY <2>1, <2>4, <2>5 DEF SeenInv
<1>5. ASSUME NEW a \in Actors, CallNext(a)
      PROVE  SeenInv'
  <2>1. Protocol'
    BY <1>5, <1>b, CallKeeps
  <2>2. UNCHANGED <<processed, packRef>>
    BY <1>5 DEF CallNext, Kick, SendData, QueueNext, LockQueue, RejectMessage, CopyBlock,
                NumberMessage
  <2> QED
    BY <1>a, <2>1, <2>2
<1>6. CASE UNCHANGED vars
  BY <1>6 DEF vars, SeenInv, Protocol, Pending, Answering
<1> QED
  BY <1>1, <1>2, <1>3, <1>4, <1>5, <1>6 DEF Next

\* The client has, or is sent, all that was sent.  With Reuse the next client takes
\* the slot.
LEMMA StepReceived ==
  ASSUME TypeOK, QueueInv, QueueInv', SeenInv, ReceivedInv, 0 \notin Sizes, [Next]_vars
  PROVE  ReceivedInv'
<1> DEFINE Inv == QueueNumbers /\ MessageIds /\ Received
<1>a. Protocol
  BY DEF SeenInv
<1>1. CASE Reuse
  <2>1. nConnection' \in Nat \ {0} /\ nConnection' # 1
    BY <1>1 DEF Reuse, ReceivedInv
  <2> QED
    BY <2>1 DEF ReceivedInv
<1>2. ASSUME UNCHANGED nConnection, Inv => Inv'
      PROVE  ReceivedInv'
  BY <1>2 DEF ReceivedInv
<1>3. CASE ServerNext
  <2>1. UNCHANGED nConnection
    BY <1>3 DEF ServerNext, Register, Retransmit, IgnorePing, DropBad, NothingShown, IgnoreOld,
                EndOneTime, RefuseDamaged, AcceptRequest, Show, UploadFails, EndCallback,
                FindEmpty, SendConfirm, FindQueued, Pack, WritePacket, ResetQueue, counters
  <2> QED
    BY <1>a, <1>2, <1>3, <2>1, ThreadMessages, ThreadKeeps
<1>4. CASE ClientNext
  <2>1. UNCHANGED nConnection
    BY <1>4 DEF ClientNext, ClientReceives, SendRequest, SendTwice, SendOther, TakeAnswer,
                IgnoreAnswer, AskAgain, RepeatRequest, HangUp, counters
  <2> QED
    BY <1>a, <1>2, <1>4, <2>1, ThreadMessages, ClientKeeps
<1>5. ASSUME NEW a \in Actors, CallNext(a)
      PROVE  ReceivedInv'
  <2>1. UNCHANGED nConnection
    BY <1>5 DEF CallNext, SendData, QueueNext, LockQueue, RejectMessage, CopyBlock, NumberMessage,
                Kick, counters
  <2> QED
    BY <1>a, <1>2, <1>5, <2>1, CallNumbers, CallMessages, CallKeeps
<1>6. CASE UNCHANGED vars
  <2> USE <1>6 DEF vars, wires, client, server, queueVars, histories, counters
  <2>1. UNCHANGED nConnection
    OBVIOUS
  <2>2. Inv => QueueNumbers' /\ MessageIds'
    BY NumbersLeftAlone, MessagesLeftAlone
  <2>3. Inv => Received'
    BY DEF Received, Has, Rest, Pending, Answering
  <2> QED
    BY <1>2, <2>1, <2>2, <2>3
<1> QED
  BY <1>1, <1>3, <1>4, <1>5, <1>6 DEF Next

\* A fresh connection.
LEMMA InitReceived == Init => SeenInv /\ ReceivedInv
<1> SUFFICES ASSUME Init PROVE SeenInv /\ ReceivedInv
  OBVIOUS
<1> USE DEF Init
<1>0. Len(<<>>) = 0 /\ <<>> = [i \in 1 .. 0 |-> i]
  OBVIOUS
<1>1. Numbers(queue) = <<>> /\ Ids(queue) = <<>>
  BY DEF Numbers, Ids
<1>2. QueueNumbers
  <2>1. Numbered(Numbers(queue), Ids(queue))
    BY <1>1, NoneNumbered
  <2>2. Fresh
    BY DEF Fresh
  <2> QED
    BY <2>1, <2>2 DEF QueueNumbers
<1>3. MessageIds
  BY <1>0 DEF MessageIds
<1>4. Range(toServer) = {} /\ Pending = {NoPacket}
  BY DEF Pending, Range
<1>5. NoPacket.no = 0 /\ ~IsAnswer(NoPacket)
  BY DEF NoPacket, IsAnswer
<1>6. Protocol
  BY <1>4, <1>5 DEF Protocol, Answering
<1>7. Has(0)
  BY <1>0, <1>4, <1>5, NoMessages DEF Has, Answering
<1>8. Received
  BY <1>0, <1>7 DEF Received
<1>9. SeenInv
  BY <1>0, <1>6 DEF SeenInv
<1> QED
  BY <1>2, <1>3, <1>8, <1>9 DEF ReceivedInv

LEMMA Seen == Spec => []SeenInv
<1>1. Init => SeenInv
  BY InitReceived
<1>2. TypeOK /\ QueueInv /\ QueueInv' /\ SeenInv /\ [Next]_vars => SeenInv'
  BY StepSeen
<1> QED
  BY <1>1, <1>2, TypeCorrect, QueueIsGuarded, PTL DEF Spec

\* The application sees the requests of a connection once each, in order and with
\* none left out, however often the client sends them and whatever it asks for
\* again, and no request is answered that it has not seen.
THEOREM RequestsSeenOnce == Spec => []RequestsOnce
<1>1. SeenInv => RequestsOnce
  BY DEF SeenInv, Protocol, RequestsOnce
<1> QED
  BY <1>1, Seen, PTL

\* The messages the client has unpacked are those that were queued for it: none is
\* split, none is run together with another, and none is missing once its last
\* request was answered, whoever queues them, however often the client asks for a
\* packet again, and whatever requests are damaged or sent twice.
THEOREM ClientGetsAll == 0 \notin Sizes => (Spec => []ClientHasAll)
<1> SUFFICES ASSUME 0 \notin Sizes
             PROVE  Spec => []ClientHasAll
  OBVIOUS
<1>1. Init => ReceivedInv
  BY InitReceived
<1>2. TypeOK /\ QueueInv /\ QueueInv' /\ SeenInv /\ ReceivedInv /\ [Next]_vars => ReceivedInv'
  BY StepReceived
<1>3. ReceivedInv => ClientHasAll
  BY DEF ReceivedInv, ClientHasAll, Received, Has
<1> QED
  BY <1>1, <1>2, <1>3, Seen, TypeCorrect, QueueIsGuarded, PTL DEF Spec

----------------------------------------------------------------------------
(* ClientChannel implements RequestReply.                                  *)

\* What was queued when a callback ended is queued or sent, and sent when its request
\* is merely confirmed.
DueInv ==
  /\ due <= Len(accepted)
  /\ spc = "confirm" => due <= Len(sent)

\* Every step keeps it.
LEMMA StepDue ==
  ASSUME TypeOK, QueueInv, DueInv, [Next]_vars
  PROVE  DueInv'
<1> USE DEF wires, client, server, queueVars, histories, counters
<1>0. Len(accepted) \in Nat /\ due \in Nat
  BY LenProperties DEF TypeOK
<1>a. ASSUME UNCHANGED <<due, accepted, sent>>, spc' # "confirm" \/ spc' = spc
      PROVE  DueInv'
  BY <1>a DEF DueInv
<1>1. CASE ServerNext
  <2>1. CASE EndCallback
    BY <2>1, <1>0 DEF EndCallback, DueInv
  <2>2. CASE FindEmpty
    <3>1. spc = "end" /\ Ids(queue) = <<>> /\ sent \o <<>> = sent
      BY <2>2 DEF FindEmpty, Ids, TypeOK
    <3>2. accepted = sent
      BY <3>1 DEF QueueInv, NothingLost
    <3> QED
      BY <2>2, <3>2 DEF FindEmpty, DueInv
  <2>3. CASE WritePacket
    BY <2>3 DEF WritePacket, DueInv
  <2>4. CASE AcceptRequest \/ FindQueued \/ Pack
    BY <2>4, <1>a DEF AcceptRequest, Show, FindQueued, Pack
  <2>5. CASE ServerNext /\ ~(EndCallback \/ FindEmpty \/ WritePacket \/ AcceptRequest
                            \/ FindQueued \/ Pack)
    <3>1. UNCHANGED <<due, accepted, sent>> /\ (Back(online) \/ Back(FALSE))
      BY <2>5 DEF ServerNext, Register, Retransmit, IgnorePing, DropBad, IgnoreOld, EndOneTime,
                  RefuseDamaged, UploadFails, SendConfirm, ResetQueue, NothingShown
    <3>2. spc' # "confirm"
      BY <3>1 DEF Back
    <3> QED
      BY <3>1, <3>2, <1>a
  <2> QED
    BY <1>1, <2>1, <2>2, <2>3, <2>4, <2>5
<1>2. CASE ClientNext
  <2>1. CASE HangUp
    BY <2>1, <1>a DEF HangUp, Back
  <2> QED
    BY <1>2, <2>1, <1>a DEF ClientNext, ClientReceives, SendRequest, SendTwice, SendOther,
                            TakeAnswer, IgnoreAnswer, AskAgain, RepeatRequest
<1>3. CASE Reuse
  BY <1>3, <1>a DEF Reuse
<1>4. ASSUME NEW a \in Actors, CallNext(a)
      PROVE  DueInv'
  <2>1. CASE CopyBlock(a)
    <3>1. accepted' = Append(accepted, msg[a]) /\ UNCHANGED <<due, sent, spc>>
      BY <2>1 DEF CopyBlock
    <3>2. Len(accepted') = Len(accepted) + 1
      BY <3>1 DEF TypeOK
    <3> QED
      BY <1>0, <3>1, <3>2 DEF DueInv
  <2> QED
    BY <1>4, <2>1, <1>a DEF CallNext, SendData, Kick, QueueNext, LockQueue, RejectMessage,
                            NumberMessage
<1>5. CASE UNCHANGED vars
  BY <1>5, <1>a DEF vars
<1> QED
  BY <1>1, <1>2, <1>3, <1>4, <1>5 DEF Next

LEMMA Due == Spec => []DueInv
<1>1. Init => DueInv
  BY DEF Init, DueInv
<1>2. TypeOK /\ QueueInv /\ DueInv /\ [Next]_vars => DueInv'
  BY StepDue
<1> QED
  BY <1>1, <1>2, TypeCorrect, QueueIsGuarded, PTL DEF Spec

\* A step that the dialogue does not show.
LEMMA HiddenStep ==
  ASSUME UNCHANGED <<cNo, cWait, packRef, spc, accepted, sent, due>>
  PROVE  UNCHANGED Dialogue!vars
BY DEF Dialogue!vars, Answering

\* The client's thread goes back to poll, and to the loop's test of online: the client
\* stays, or leaves with no request in hand.
LEMMA BackLeaves ==
  ASSUME spc \in {"poll", "reset"}, NEW on \in BOOLEAN, Back(on), cWait \in BOOLEAN,
         UNCHANGED <<cNo, packRef, accepted, sent, due>>
  PROVE  [Dialogue!Next]_(Dialogue!vars)
<1>1. /\ ~Answering /\ ~Answering' /\ spc \notin {"closed", "callback"}
      /\ spc' # "callback"
  BY DEF Answering, Back
<1>2. CASE on
  <2>1. cWait' = cWait /\ spc' # "closed"
    BY <1>2 DEF Back
  <2> QED
    BY <1>1, <2>1 DEF Dialogue!vars
<1>3. CASE ~on
  <2>1. cWait' = FALSE /\ spc' = "closed"
    BY <1>3 DEF Back
  <2>2. Dialogue!Leave
    BY <1>1, <2>1 DEF Dialogue!Leave
  <2> QED
    BY <2>2 DEF Dialogue!Next
<1> QED
  BY <1>2, <1>3

\* The only request the application can be shown is the one the client waits with.
LEMMA AcceptHandles ==
  ASSUME TypeOK, Protocol, AcceptRequest
  PROVE  Dialogue!Handle
<1>1. /\ UNCHANGED <<cNo, cWait, accepted, sent, due>>
      /\ spc = "poll" /\ spc' = "callback" /\ packRef' = Request.no
  BY DEF AcceptRequest, Show, Read, client
<1>2. packRef' = cNo /\ packRef = cNo - 1 /\ packRef # cNo /\ cNo \in Nat /\ cWait
  BY <1>1, NextAccepted, NumbersAreIntegers DEF Protocol, TypeOK
<1>3. ~Answering /\ Answering' /\ packRef' - 1 = packRef
  BY <1>1, <1>2 DEF Answering
<1> QED
  BY <1>1, <1>2, <1>3 DEF Dialogue!Handle

\* What was posted when the callback ended was handed over before.
LEMMA ConfirmReplies ==
  ASSUME TypeOK, DueInv, Protocol, SendConfirm
  PROVE  Dialogue!Reply
<1>1. /\ UNCHANGED <<cNo, packRef, accepted, sent, due>>
      /\ spc = "confirm" /\ Back(online) /\ online \in BOOLEAN
  BY DEF SendConfirm, histories, TypeOK
<1>2. Answering /\ ~Answering' /\ cWait /\ packRef = cNo /\ spc' \in {"poll", "closed"}
  BY <1>1 DEF Answering, Back, Protocol
<1>3. cNo \in Nat /\ packRef - 1 # cNo
  BY <1>2, NumbersAreIntegers
<1>4. Len(sent) >= due /\ Len(sent') = Len(sent)
  <2>1. Len(sent) \in Nat /\ due \in Nat
    BY LenProperties DEF TypeOK
  <2> QED
    BY <1>1, <2>1 DEF DueInv
<1>5. cWait' = (spc' # "closed")
  BY <1>1, <1>2 DEF Back
<1> QED
  BY <1>1, <1>2, <1>3, <1>4, <1>5 DEF Dialogue!Reply

\* The packet has the whole queue.
LEMMA WriteReplies ==
  ASSUME TypeOK, QueueInv', DueInv, Protocol, WritePacket
  PROVE  Dialogue!Reply
<1>1. UNCHANGED <<cNo, cWait, packRef, accepted, due>> /\ spc = "write" /\ spc' = "reset"
  BY DEF WritePacket, client
<1>2. Answering /\ ~Answering' /\ cWait /\ packRef = cNo
  BY <1>1 DEF Answering, Protocol
<1>3. cNo \in Nat /\ packRef - 1 # cNo
  BY <1>2, NumbersAreIntegers
<1>4. Len(sent') = Len(accepted) /\ Len(sent') >= due
  <2>1. accepted = sent'
    BY <1>1 DEF QueueInv, NothingLost
  <2>2. Len(accepted) \in Nat /\ due \in Nat
    BY LenProperties DEF TypeOK
  <2> QED
    BY <2>1, <2>2 DEF DueInv
<1>5. cWait \in BOOLEAN
  BY DEF TypeOK
<1> QED
  BY <1>1, <1>2, <1>3, <1>4, <1>5 DEF Dialogue!Reply

\* The steps of the client's thread.
LEMMA ThreadImplements ==
  ASSUME TypeOK, QueueInv', DueInv, Protocol, ServerNext
  PROVE  [Dialogue!Next]_(Dialogue!vars)
<1> USE DEF client, histories
<1>0. online \in BOOLEAN /\ FALSE \in BOOLEAN /\ cWait \in BOOLEAN
  BY DEF TypeOK
<1>1. CASE Register \/ IgnorePing \/ IgnoreOld \/ RefuseDamaged \/ UploadFails
  <2>1. /\ spc = "poll" /\ Back(online) /\ UNCHANGED <<cNo, packRef, accepted, sent, due>>
    BY <1>1 DEF Register, IgnorePing, IgnoreOld, RefuseDamaged, UploadFails, Read,
                NothingShown
  <2> QED
    BY <1>0, <2>1, BackLeaves
<1>2. CASE DropBad \/ EndOneTime
  <2>1. /\ spc = "poll" /\ Back(FALSE) /\ UNCHANGED <<cNo, packRef, accepted, sent, due>>
    BY <1>2 DEF DropBad, EndOneTime, Read, NothingShown
  <2> QED
    BY <1>0, <2>1, BackLeaves
<1>3. CASE Retransmit
  <2>1. /\ spc = "poll" /\ (Back(FALSE) \/ Back(online))
        /\ UNCHANGED <<cNo, packRef, accepted, sent, due>>
    BY <1>3 DEF Retransmit, Read, NothingShown
  <2> QED
    BY <1>0, <2>1, BackLeaves
<1>4. CASE ResetQueue
  <2>1. /\ spc = "reset" /\ Back(online) /\ UNCHANGED <<cNo, packRef, accepted, sent, due>>
    BY <1>4 DEF ResetQueue
  <2> QED
    BY <1>0, <2>1, BackLeaves
<1>9. CASE EndCallback
  <2>1. /\ UNCHANGED <<cNo, cWait, packRef, accepted, sent>>
        /\ spc = "callback" /\ spc' = "end" /\ due' = Len(accepted) /\ Answering /\ Answering'
    BY <1>9 DEF EndCallback, Answering
  <2>2. Dialogue!Finish
    BY <2>1 DEF Dialogue!Finish
  <2> QED
    BY <2>2 DEF Dialogue!Next
<1>5. CASE FindEmpty \/ FindQueued \/ Pack
  <2>1. /\ UNCHANGED <<cNo, cWait, packRef, accepted, sent, due>>
        /\ spc \notin {"closed", "callback"} /\ spc' \notin {"closed", "callback"}
        /\ Answering /\ Answering'
    BY <1>5 DEF FindEmpty, FindQueued, Pack, Answering
  <2> QED
    BY <2>1 DEF Dialogue!vars
<1>6. CASE AcceptRequest
  BY <1>6, AcceptHandles DEF Dialogue!Next
<1>7. CASE SendConfirm
  BY <1>7, ConfirmReplies DEF Dialogue!Next
<1>8. CASE WritePacket
  BY <1>8, WriteReplies DEF Dialogue!Next
<1> QED
  BY <1>1, <1>2, <1>3, <1>4, <1>5, <1>6, <1>7, <1>8, <1>9 DEF ServerNext

\* The client's steps.
LEMMA ClientImplements ==
  ASSUME TypeOK, Protocol, ClientNext
  PROVE  [Dialogue!Next]_(Dialogue!vars)
<1> USE DEF server, histories
<1>1. CASE SendRequest
  <2>1. /\ spc # "closed" /\ ~cWait /\ cNo' = cNo + 1 /\ cWait' = TRUE
        /\ UNCHANGED <<packRef, spc, accepted, sent, due>>
    BY <1>1 DEF SendRequest
  <2>2. Dialogue!Ask
    BY <2>1 DEF Dialogue!Ask, Answering
  <2> QED
    BY <2>2 DEF Dialogue!Next
<1>2. CASE toClient # <<>> /\ TakeAnswer
  <2>1. PICK a : /\ Receive(a) /\ Answers(a)
                 /\ cWait' = FALSE /\ UNCHANGED <<cNo, packRef, spc, accepted, sent, due>>
    BY <1>2 DEF TakeAnswer
  <2>2. a \in Pending /\ IsAnswer(a) /\ a.no = cNo /\ cWait
    BY <1>2, <2>1, Wires DEF Pending, Answers, IsAnswer
  <2>3. packRef = cNo /\ ~Answering
    <3>1. cNo \in Nat /\ packRef \in Nat
      BY NumbersAreIntegers
    <3> QED
      BY <2>2, <3>1 DEF Protocol
  <2>4. Dialogue!Answer
    BY <2>1, <2>2, <2>3 DEF Dialogue!Answer, Answering
  <2> QED
    BY <2>4 DEF Dialogue!Next
<1>3. CASE HangUp
  <2>1. spc = "poll" /\ Back(FALSE) /\ UNCHANGED <<cNo, packRef, accepted, sent, due>>
    BY <1>3 DEF HangUp
  <2> QED
    BY <2>1, BackLeaves DEF TypeOK
<1>4. CASE SendTwice \/ SendOther \/ IgnoreAnswer \/ AskAgain \/ RepeatRequest
  <2>1. UNCHANGED <<cNo, cWait, packRef, spc, accepted, sent, due>>
    BY <1>4 DEF SendTwice, SendOther, IgnoreAnswer, AskAgain, RepeatRequest, client
  <2> QED
    BY <2>1, HiddenStep
<1> QED
  BY <1>1, <1>2, <1>3, <1>4 DEF ClientNext, ClientReceives

\* Each block that is queued is posted.
LEMMA CallImplements ==
  ASSUME TypeOK, RoomForBlock, NEW a \in Actors, CallNext(a)
  PROVE  [Dialogue!Next]_(Dialogue!vars)
<1> USE DEF client, server, histories
<1>1. CASE CopyBlock(a)
  <2>1. /\ accepted' = Append(accepted, msg[a])
        /\ UNCHANGED <<cNo, cWait, packRef, spc, sent, due>>
    BY <1>1 DEF CopyBlock
  <2>2. msg[a] \in 1 .. MaxMessage
    <3>1. qpc[a] # "idle" /\ msg[a] \in 0 .. MaxMessage /\ MaxMessage \in Nat
      BY <1>1, BoundAssumption DEF CopyBlock, TypeOK
    <3> QED
      BY <3>1 DEF RoomForBlock
  <2>3. Dialogue!Post
    BY <2>1, <2>2 DEF Dialogue!Post, Answering
  <2> QED
    BY <2>3 DEF Dialogue!Next
<1>2. CASE Kick(a) \/ SendData(a) \/ LockQueue(a) \/ RejectMessage(a) \/ NumberMessage(a)
  <2>1. UNCHANGED <<cNo, cWait, packRef, spc, accepted, sent, due>>
    BY <1>2 DEF Kick, SendData, LockQueue, RejectMessage, NumberMessage
  <2> QED
    BY <2>1, HiddenStep
<1> QED
  BY <1>1, <1>2 DEF CallNext, QueueNext

LEMMA StepImplementsDialogue ==
  ASSUME TypeOK, QueueInv, QueueInv', SeenInv, DueInv, [Next]_vars
  PROVE  [Dialogue!Next]_(Dialogue!vars)
<1>0. Protocol /\ RoomForBlock
  BY DEF SeenInv, QueueInv
<1>1. CASE Reuse
  <2>1. /\ spc = "closed" /\ spc' = "poll" /\ packRef' = 0 /\ cNo' = 0
        /\ UNCHANGED <<cWait, accepted, sent, due>>
    BY <1>1 DEF Reuse
  <2>2. Dialogue!Enter
    BY <2>1 DEF Dialogue!Enter, Answering
  <2> QED
    BY <2>2 DEF Dialogue!Next
<1>2. CASE UNCHANGED vars
  BY <1>2, HiddenStep DEF vars, client, server, histories
<1> QED
  BY <1>0, <1>1, <1>2, ThreadImplements, ClientImplements, CallImplements DEF Next

LEMMA InitImplementsDialogue == Init => Dialogue!Init
BY DEF Init, Dialogue!Init, Answering

\* Whatever is damaged, repeated, asked for again or queued meanwhile, for every
\* connection of the slot, the client goes on with the answer to its last request
\* only, after the application has seen that request and with all the blocks queued
\* until the callback ended, and no connection ends between a callback and its answer.
THEOREM DialogueIsKept == Spec => ImplementsDialogue
<1>1. TypeOK /\ QueueInv /\ QueueInv' /\ SeenInv /\ DueInv /\ [Next]_vars
        => [Dialogue!Next]_(Dialogue!vars)
  BY StepImplementsDialogue
<1> QED
  BY <1>1, InitImplementsDialogue, Seen, Due, TypeCorrect, QueueIsGuarded, PTL
     DEF Spec, ImplementsDialogue, Dialogue!Spec
=============================================================================
