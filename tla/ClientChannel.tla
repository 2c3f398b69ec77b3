---------------------------- MODULE ClientChannel ----------------------------
(***************************************************************************)
(* The conversation with one connected client: the requests it sends, the  *)
(* messages the server queues for it, and the packets in which they        *)
(* travel (processMessageBuffer, STSV_SendData, EndPackSendData).          *)
(*                                                                         *)
(* The client registers and sends numbered requests.  Its thread drops a   *)
(* request whose number is not above packRef, asks for a damaged one again *)
(* (RETRASMIT), and shows any other to the application.  The answer        *)
(* carries everything queued for the client, or is a mere CONFIRM.  Any    *)
(* thread may queue a message at any time, or disconnect the client: its   *)
(* m_Mutex protects the queue, but not the first look at sendCount, nor a  *)
(* retransmission asked for by the client, which sends whatever the send   *)
(* buffer holds, nor the answer to REGISTER, which is put there too.  A    *)
(* request that uploads data or a file and fails at it is not answered.    *)
(*                                                                         *)
(* The blocks of the queue lie in the send buffer behind its first 2048    *)
(* bytes, and packing moves them to the front: block j, queued after a     *)
(* packet of n full blocks was sent, overwrites its end if n >= j + 2.     *)
(*                                                                         *)
(* What is uploaded and the files sent (fileDataSending) are not part of   *)
(* this module.                                                            *)
(***************************************************************************)
EXTENDS Integers, Sequences, FiniteSets, PacketFormat

CONSTANTS
  MaxBlock,      \* STAR_CLIENT_DEFAULT_MAX_BLOCK - 2, the room in the queue
  Sizes,         \* the sizes of messages, in blocks
  Uploads,       \* the numbers of the requests that carry BIGDATA or FILEDATA
  Sender,        \* other threads that queue messages for this client
  Server,        \* the thread of this client
  None,          \* no thread
  MaxRequest,    \* bound: requests of one connection
  MaxMessage,    \* bound: calls of STSV_SendData
  MaxFault,      \* bound: requests damaged, sent twice or of other types, kicks,
                 \* and uploads that fail
  MaxAsk,        \* bound: sound packets the client asks for again
  MaxConnection  \* bound: connections that use the slot, one after the other

ASSUME MaxBlockAssumption == MaxBlock \in Nat \ {0}
ASSUME SizesAssumption == Sizes \subseteq Nat
ASSUME ThreadAssumption == None \notin Sender \cup {Server} /\ Server \notin Sender
ASSUME BoundAssumption == {MaxRequest, MaxMessage, MaxFault, MaxAsk, MaxConnection} \subseteq Nat

Actors == Sender \cup {Server}

VARIABLES
  oneTime,       \* s_nServerType = STSV_ONETIME_CONNECTION, from the configuration
  toServer,      \* the bytes from the client, as requests
  toClient,      \* the bytes to the client, as answers
  cNo, cWait,    \* client: the number of its last request, and whether it waits
  got,           \* client: the messages it has unpacked
  packRef,       \* the number of the last request that was accepted
  queue,         \* sendBufferMSG and sendPacketNo of the blocks 0 .. sendCount - 1
  curPacketNo,   \* the number of the next message in the queue
  sendBuffer,    \* the packet last packed
  mutex,         \* the thread that has m_Mutex
  sendDone,
  online,
  spc,           \* the next step of the client's thread
  qpc,           \* qpc[a]: the next step of a's call of STSV_SendData
  msg, left,     \* the message a queues, and how many blocks of it are left
  \* histories
  processed,     \* the requests the application has seen
  accepted,      \* the blocks that were queued
  sent,          \* the blocks that were packed and written to the socket
  nLate,         \* how many requests the application has seen after online was cleared
  due,           \* how many blocks had been queued when the last callback ended
  dropped,       \* the number of the last upload that failed
  nMessage, nFault, nAsk, nConnection

wires == <<toServer, toClient>>
client == <<cNo, cWait, got>>
server == <<oneTime, packRef, sendDone, online, spc>>
queueVars == <<queue, curPacketNo, sendBuffer, mutex>>
calls == <<qpc, msg, left>>
histories == <<processed, accepted, sent, nLate, due, dropped>>
counters == <<nMessage, nFault, nAsk, nConnection>>
vars == <<wires, client, server, queueVars, calls, histories, counters>>

NoPacket == [type |-> "nothing", no |-> 0, blocks |-> <<>>, flags |-> <<>>, intact |-> TRUE]
Confirm(n) == [NoPacket EXCEPT !.type = "confirm", !.no = n]
AskFor(n) == [NoPacket EXCEPT !.type = "retransmit", !.no = n]
Registered == [NoPacket EXCEPT !.type = "register"]
Kicked == [NoPacket EXCEPT !.type = "kicked"]
Ids(q) == [i \in 1 .. Len(q) |-> q[i].id]
Numbers(q) == [i \in 1 .. Len(q) |-> q[i].no]
Packet(n, q) == [type |-> "packet", no |-> n,
                 blocks |-> Ids(q), flags |-> Flags(Numbers(q)), intact |-> TRUE]

Init ==
  /\ oneTime \in BOOLEAN
  /\ toServer = <<>> /\ toClient = <<>>
  /\ cNo = 0 /\ cWait = FALSE /\ got = <<>>
  /\ packRef = 0 /\ sendDone = FALSE /\ online = TRUE /\ spc = "poll"
  /\ queue = <<>> /\ curPacketNo = 0 /\ sendBuffer = NoPacket /\ mutex = None
  /\ qpc = [a \in Actors |-> "idle"]
  /\ msg = [a \in Actors |-> 0] /\ left = [a \in Actors |-> 0]
  /\ processed = <<>> /\ accepted = <<>> /\ sent = <<>> /\ nLate = 0
  /\ due = 0 /\ dropped = 0
  /\ nMessage = 0 /\ nFault = 0 /\ nAsk = 0 /\ nConnection = 1

----------------------------------------------------------------------------
(* The client.                                                             *)

Submit(type, n) == toServer' = Append(toServer, [type |-> type, no |-> n])

Fault(type) == nFault' = nFault + (IF type = "damaged" THEN 1 ELSE 0) /\ nFault' <= MaxFault

\* The next request, whole or with a wrong size or CRC.
SendRequest ==
  /\ spc # "closed" /\ ~cWait /\ cNo < MaxRequest
  /\ \E type \in {"data", "damaged"} : Submit(type, cNo + 1) /\ Fault(type)
  /\ cNo' = cNo + 1 /\ cWait' = TRUE
  /\ UNCHANGED <<toClient, got, server, queueVars, calls, histories,
                 nMessage, nAsk, nConnection>>

\* An impatient client sends its request again.
SendTwice ==
  /\ spc # "closed" /\ cWait /\ nFault < MaxFault
  /\ Submit("data", cNo)
  /\ nFault' = nFault + 1
  /\ UNCHANGED <<toClient, client, server, queueVars, calls, histories,
                 nMessage, nAsk, nConnection>>

\* A message without number: REGISTER, PING (or an unknown type, likewise
\* ignored), or one the server takes for an attack (a size or a sender out of
\* range).
SendOther ==
  /\ spc # "closed" /\ nFault < MaxFault
  /\ \E type \in {"register", "ping", "bad"} : Submit(type, 0)
  /\ nFault' = nFault + 1
  /\ UNCHANGED <<toClient, client, server, queueVars, calls, histories,
                 nMessage, nAsk, nConnection>>

Answers(a) == cWait /\ a.type \in {"packet", "confirm"} /\ a.no = cNo

Receive(a) == toClient # <<>> /\ a = Head(toClient) /\ toClient' = Tail(toClient)

\* The answer to the last request: the client unpacks the messages in it.
TakeAnswer ==
  \E a \in {Head(toClient)} :
    /\ Receive(a)
    /\ Answers(a) /\ a.intact
    /\ got' = got \o Unpack(a.blocks, a.flags)
    /\ cWait' = FALSE
    /\ UNCHANGED <<toServer, cNo, server, queueVars, calls, histories, counters>>

\* An answer to something else, or nothing at all.
IgnoreAnswer ==
  \E a \in {Head(toClient)} :
    /\ Receive(a)
    /\ a.type # "retransmit" /\ ~Answers(a)
    /\ UNCHANGED <<toServer, client, server, queueVars, calls, histories, counters>>

\* The packet does not stand the CRC check: the client asks for it again.
AskAgain ==
  \E a \in {Head(toClient)} :
    /\ Receive(a)
    /\ a.type = "packet" /\ Answers(a)
    /\ nAsk' = nAsk + (IF a.intact THEN 1 ELSE 0) /\ nAsk' <= MaxAsk
    /\ Submit("retransmit", cNo)
    /\ UNCHANGED <<client, server, queueVars, calls, histories,
                   nMessage, nFault, nConnection>>

\* The server asks for a request again.
RepeatRequest ==
  \E a \in {Head(toClient)} :
    /\ Receive(a)
    /\ a.type = "retransmit"
    /\ Submit("data", a.no)
    /\ UNCHANGED <<client, server, queueVars, calls, histories, counters>>

ClientReceives == toClient # <<>> /\ (TakeAnswer \/ IgnoreAnswer \/ AskAgain \/ RepeatRequest)

----------------------------------------------------------------------------
(* The end of the connection.                                              *)

\* Wrong: the loop goes on with a client that was disconnected.
BackAlways(on) == online' = on /\ spc' = "poll" /\ cWait' = cWait

\* The loop of the client's thread tests online after every message.
Back(on) ==
  /\ online' = on
  /\ spc' = IF on THEN "poll" ELSE "closed"
  /\ cWait' = (cWait /\ on)

\* The client hangs up, or poll waits for 15 seconds in vain.
HangUp ==
  /\ spc = "poll" /\ toServer = <<>>
  /\ Back(FALSE)
  /\ toClient' = <<>>
  /\ UNCHANGED <<toServer, cNo, got, oneTime, packRef, sendDone, queueVars, calls, histories,
                 counters>>

\* STSV_SendDuplicateLogin, STSV_SendServerFULL: a thread disconnects the
\* client, whose thread may be waiting for its next request.
Kick(a) ==
  /\ qpc[a] = "idle" /\ spc # "closed" /\ (a = Server => spc = "callback")
  /\ mutex = None
  /\ nFault < MaxFault /\ nFault' = nFault + 1
  /\ toClient' = Append(toClient, Kicked)
  /\ online' = FALSE
  /\ UNCHANGED <<toServer, client, oneTime, packRef, sendDone, spc, queueVars, calls, histories,
                 nMessage, nAsk, nConnection>>

\* AcceptConnection and the new thread prepare the slot for another client.
\* They set packRef, curPacketNo, online and sendDone, and sendDataSize, so that
\* there is nothing to retransmit; sendCount and the queued blocks stay.
Reuse ==
  /\ spc = "closed" /\ qpc[Server] = "idle"
  /\ nConnection < MaxConnection /\ nConnection' = nConnection + 1
  /\ spc' = "poll" /\ packRef' = 0 /\ sendDone' = FALSE /\ online' = TRUE
  /\ curPacketNo' = 0 /\ sendBuffer' = NoPacket
  /\ toServer' = <<>> /\ toClient' = <<>> /\ cNo' = 0 /\ got' = <<>>
  /\ processed' = <<>> /\ nLate' = 0 /\ dropped' = 0
  /\ UNCHANGED <<oneTime, cWait, queue, mutex, calls, accepted, sent, due,
                 nMessage, nFault, nAsk>>

----------------------------------------------------------------------------
(* STSV_SendData: a thread queues a message for the client.                *)

\* The client's own thread does so in the Request callback.
SendData(a) ==
  /\ qpc[a] = "idle" /\ spc # "closed" /\ (a = Server => spc = "callback")
  /\ nMessage < MaxMessage /\ nMessage' = nMessage + 1
  /\ \E size \in Sizes : left' = [left EXCEPT ![a] = size]
  /\ msg' = [msg EXCEPT ![a] = nMessage + 1]
  /\ qpc' = [qpc EXCEPT ![a] = "lock"]
  /\ UNCHANGED <<wires, client, server, queueVars, histories, nFault, nAsk, nConnection>>

\* Wrong: messages are queued though the queue is full.
LockQueueFull(a) ==
  /\ qpc[a] = "lock" /\ mutex = None
  /\ mutex' = a
  /\ qpc' = [qpc EXCEPT ![a] = IF left[a] = 0 THEN "number" ELSE "copy"]
  /\ UNCHANGED <<wires, client, server, queue, curPacketNo, sendBuffer, msg, left,
                 histories, counters>>

LockQueue(a) ==
  /\ qpc[a] = "lock" /\ mutex = None /\ Len(queue) < MaxBlock
  /\ mutex' = a
  /\ qpc' = [qpc EXCEPT ![a] = IF left[a] = 0 THEN "number" ELSE "copy"]
  /\ UNCHANGED <<wires, client, server, queue, curPacketNo, sendBuffer, msg, left,
                 histories, counters>>

\* "STSV_SendData Error:MAXIMUM": the message is not queued.
RejectMessage(a) ==
  /\ qpc[a] = "lock" /\ mutex = None /\ Len(queue) >= MaxBlock
  /\ qpc' = [qpc EXCEPT ![a] = "idle"]
  /\ msg' = [msg EXCEPT ![a] = 0] /\ left' = [left EXCEPT ![a] = 0]
  /\ UNCHANGED <<wires, client, server, queueVars, histories, counters>>

\* sendPacketNo is a byte.
NumberOf(q) == curPacketNo % 256

\* One block of the message; when the queue is full the rest is dropped.
CopyBlock(a) ==
  /\ qpc[a] = "copy"
  /\ queue' = Append(queue, [id |-> msg[a], no |-> NumberOf(queue)])
  /\ accepted' = Append(accepted, msg[a])
  /\ left' = [left EXCEPT ![a] = left[a] - 1]
  /\ sendBuffer' = [sendBuffer EXCEPT !.intact = @ /\ Len(sendBuffer.blocks) < Len(queue) + 2]
  /\ qpc' = [qpc EXCEPT ![a] =
               IF left[a] = 1 \/ Len(queue) + 1 >= MaxBlock THEN "number" ELSE "copy"]
  /\ UNCHANGED <<wires, client, server, curPacketNo, mutex, msg, processed, sent, nLate,
                 due, dropped, counters>>

NumberMessage(a) ==
  /\ qpc[a] = "number"
  /\ curPacketNo' = curPacketNo + 1
  /\ mutex' = None
  /\ qpc' = [qpc EXCEPT ![a] = "idle"]
  /\ msg' = [msg EXCEPT ![a] = 0] /\ left' = [left EXCEPT ![a] = 0]
  /\ UNCHANGED <<wires, client, server, queue, sendBuffer, histories, counters>>

QueueNext(a) == LockQueue(a) \/ RejectMessage(a) \/ CopyBlock(a) \/ NumberMessage(a)

----------------------------------------------------------------------------
(* processMessageBuffer: the thread of the client reads a request.         *)

Request == Head(toServer)
Read == spc = "poll" /\ toServer # <<>> /\ toServer' = Tail(toServer)
Write(a) == toClient' = Append(toClient, a)

\* What a handler that shows the application nothing leaves alone.
NothingShown == UNCHANGED <<cNo, got, oneTime, packRef, sendDone, calls, histories, counters>>

\* REGISTER: the verdict overwrites the head of the send buffer.
Register ==
  /\ Read /\ Request.type = "register"
  /\ sendBuffer' = Registered
  /\ Write(Registered)
  /\ Back(online)
  /\ UNCHANGED <<queue, curPacketNo, mutex>> /\ NothingShown

\* RETRASMIT: the first sendDataSize bytes of the send buffer are sent.  When
\* there are none, WriteTo returns 0, which counts as a broken connection.
Retransmit ==
  /\ Read /\ Request.type = "retransmit"
  /\ IF sendBuffer = NoPacket THEN toClient' = toClient /\ Back(FALSE)
                               ELSE Write(sendBuffer) /\ Back(online)
  /\ UNCHANGED queueVars /\ NothingShown

\* PING, or a type the server does not know.
IgnorePing ==
  /\ Read /\ Request.type = "ping"
  /\ Back(online)
  /\ UNCHANGED <<toClient, queueVars>> /\ NothingShown

\* "Hack System"
DropBad ==
  /\ Read /\ Request.type = "bad"
  /\ Back(FALSE)
  /\ UNCHANGED <<toClient, queueVars>> /\ NothingShown

\* Wrong: the request just handled does not count as old.
OldPacketBefore(n) == n < packRef

OldPacket(n) == n <= packRef

\* "Old Packet": it was handled, nothing is answered.
IgnoreOld ==
  /\ Read /\ Request.type \in {"data", "damaged"} /\ OldPacket(Request.no)
  /\ Back(online)
  /\ UNCHANGED <<toClient, queueVars>> /\ NothingShown

NewRequest == Request.type \in {"data", "damaged"} /\ ~OldPacket(Request.no)

\* A one-time connection that has had its last answer goes on for uploads only.
Ended(n) == oneTime /\ sendDone /\ n \notin Uploads

\* It ends with the first request after that answer which is none.
EndOneTime ==
  /\ Read /\ NewRequest /\ Ended(Request.no)
  /\ Back(FALSE)
  /\ UNCHANGED <<toClient, queueVars>> /\ NothingShown

\* Wrong: a damaged request is dropped.
RefuseDamagedSilently ==
  /\ Read /\ NewRequest /\ ~Ended(Request.no) /\ Request.type = "damaged"
  /\ Back(online)
  /\ UNCHANGED <<toClient, queueVars>> /\ NothingShown

\* The size or the CRC is wrong.
RefuseDamaged ==
  /\ Read /\ NewRequest /\ ~Ended(Request.no) /\ Request.type = "damaged"
  /\ Write(AskFor(Request.no))
  /\ Back(online)
  /\ UNCHANGED queueVars /\ NothingShown

Show(n) ==
  /\ packRef' = n
  /\ processed' = Append(processed, n)
  /\ nLate' = nLate + (IF online THEN 0 ELSE 1)
  /\ spc' = "callback"
  /\ UNCHANGED <<toClient, client, oneTime, sendDone, online, queueVars, calls, accepted, sent,
                 due, dropped, counters>>

\* Wrong: a one-time connection goes on.
AcceptRequestAlways ==
  Read /\ NewRequest /\ Request.type = "data" /\ Show(Request.no)

\* The request is unpacked and shown to the application.
AcceptRequest ==
  /\ Read /\ NewRequest /\ ~Ended(Request.no) /\ Request.type = "data"
  /\ Show(Request.no)

\* The file for what is uploaded cannot be opened: the request is neither shown
\* nor answered, and packRef stays.
UploadFails ==
  /\ Read /\ NewRequest /\ ~Ended(Request.no) /\ Request.type = "data"
  /\ Request.no \in Uploads
  /\ nFault < MaxFault /\ nFault' = nFault + 1
  /\ dropped' = Request.no
  /\ Back(online)
  /\ UNCHANGED <<toClient, cNo, got, oneTime, packRef, sendDone, queueVars, calls, processed,
                 accepted, sent, nLate, due, nMessage, nAsk, nConnection>>

EndCallback ==
  /\ spc = "callback" /\ qpc[Server] = "idle"
  /\ spc' = "end"
  /\ due' = Len(accepted)
  /\ UNCHANGED <<wires, client, oneTime, packRef, sendDone, online, queueVars, calls,
                 processed, accepted, sent, nLate, dropped, counters>>

----------------------------------------------------------------------------
(* EndPackSendData: the answer.                                            *)

\* Wrong: sendCount is not looked at.
FindEmptyAlways ==
  /\ spc = "end"
  /\ spc' = "confirm"
  /\ UNCHANGED <<wires, client, oneTime, packRef, sendDone, online, queueVars, calls,
                 histories, counters>>

\* Nothing is queued: sendCount is read without m_Mutex.
FindEmpty ==
  /\ spc = "end" /\ queue = <<>>
  /\ spc' = "confirm"
  /\ UNCHANGED <<wires, client, oneTime, packRef, sendDone, online, queueVars, calls,
                 histories, counters>>

\* The request is confirmed, though something may have been queued meanwhile.
SendConfirm ==
  /\ spc = "confirm"
  /\ Write(Confirm(packRef))
  /\ sendDone' = (sendDone \/ oneTime)
  /\ Back(online)
  /\ UNCHANGED <<toServer, cNo, got, oneTime, packRef, queueVars, calls, histories, counters>>

FindQueued ==
  /\ spc = "end" /\ queue # <<>>
  /\ spc' = "lock"
  /\ UNCHANGED <<wires, client, oneTime, packRef, sendDone, online, queueVars, calls,
                 histories, counters>>

Pack ==
  /\ spc = "lock" /\ mutex = None
  /\ mutex' = Server
  /\ sendBuffer' = Packet(packRef, queue)
  /\ spc' = "write"
  /\ UNCHANGED <<wires, client, oneTime, packRef, sendDone, online, queue, curPacketNo, calls,
                 histories, counters>>

\* Wrong: the packet is written after the mutex is given back.
WritePacketUnlocked ==
  /\ spc = "write"
  /\ Write(sendBuffer)
  /\ sent' = sent \o sendBuffer.blocks
  /\ mutex' = None
  /\ spc' = "reset"
  /\ UNCHANGED <<toServer, client, oneTime, packRef, sendDone, online, queue, curPacketNo,
                 sendBuffer, calls, processed, accepted, nLate, due, dropped, counters>>

WritePacket ==
  /\ spc = "write"
  /\ Write(sendBuffer)
  /\ sent' = sent \o sendBuffer.blocks
  /\ spc' = "reset"
  /\ UNCHANGED <<toServer, client, oneTime, packRef, sendDone, online, queueVars, calls,
                 processed, accepted, nLate, due, dropped, counters>>

\* sendCount and curPacketNo start from 0 again.
ResetQueue ==
  /\ spc = "reset"
  /\ queue' = <<>> /\ curPacketNo' = 0 /\ mutex' = None
  /\ Back(online)
  /\ UNCHANGED <<wires, cNo, got, oneTime, packRef, sendDone, sendBuffer, calls, histories,
                 counters>>

ServerNext == \/ Register \/ Retransmit \/ IgnorePing \/ DropBad
              \/ IgnoreOld \/ EndOneTime \/ RefuseDamaged \/ AcceptRequest
              \/ UploadFails \/ EndCallback \/ FindEmpty \/ SendConfirm \/ FindQueued \/ Pack \/ WritePacket \/ ResetQueue

ClientNext == SendRequest \/ SendTwice \/ SendOther \/ ClientReceives \/ HangUp

CallNext(a) == SendData(a) \/ QueueNext(a) \/ Kick(a)

Next == \/ ServerNext \/ ClientNext \/ Reuse
        \/ \E a \in Actors : CallNext(a)

Spec == Init /\ [][Next]_vars

\* The threads run on, m_Mutex is handed round, and the client reads what it
\* is sent.
Fairness == /\ WF_vars(ServerNext) /\ SF_vars(Pack)
            /\ \A a \in Actors : SF_vars(QueueNext(a))
            /\ WF_vars(ClientReceives)
FairSpec == Spec /\ Fairness

----------------------------------------------------------------------------

RequestType == [type : {"data", "damaged", "retransmit", "register", "ping", "bad"},
                no : 0 .. MaxRequest]
BlockType == [id : 1 .. MaxMessage, no : 0 .. 255]
AnswerType == {a \in [type : {"nothing", "packet", "confirm", "retransmit", "register",
                              "kicked"},
                      no : 0 .. MaxRequest,
                      blocks : Seq(1 .. MaxMessage), flags : Seq({0, 1}), intact : BOOLEAN] :
                 Len(a.flags) = Len(a.blocks)}

\* Type correctness; a packet never has more blocks than the size table.
TypeOK ==
  /\ toServer \in Seq(RequestType)
  /\ toClient \in Seq(AnswerType)
  /\ cNo \in 0 .. MaxRequest /\ cWait \in BOOLEAN
  /\ got \in Seq(Seq(1 .. MaxMessage))
  /\ packRef \in 0 .. MaxRequest
  /\ queue \in Seq(BlockType) /\ Len(queue) <= MaxBlock
  /\ curPacketNo \in Nat
  /\ sendBuffer \in AnswerType
  /\ mutex \in Actors \cup {None}
  /\ oneTime \in BOOLEAN /\ sendDone \in BOOLEAN /\ online \in BOOLEAN
  /\ spc \in {"poll", "callback", "end", "confirm", "lock", "write", "reset", "closed"}
  /\ qpc \in [Actors -> {"idle", "lock", "copy", "number"}]
  /\ msg \in [Actors -> 0 .. MaxMessage]
  /\ left \in [Actors -> Nat]
  /\ processed \in Seq(0 .. MaxRequest)
  /\ accepted \in Seq(1 .. MaxMessage) /\ sent \in Seq(1 .. MaxMessage)
  /\ nMessage \in 0 .. MaxMessage /\ nLate \in Nat
  /\ due \in Nat /\ dropped \in 0 .. MaxRequest

\* The application sees every request once, in order and with none left out, though
\* requests are damaged, asked for again and sent twice; and the client takes no
\* request as answered that the application has not seen.
RequestsOnce ==
  /\ processed = [i \in 1 .. packRef |-> i]
  /\ ~cWait /\ spc # "closed" => packRef = cNo

\* "Add Mutex check" (2.4.2): every block that was queued is sent once, in the
\* order of queueing, or is still in the queue, whoever queues it and whenever.
NothingLost ==
  accepted = IF spc = "reset" THEN sent ELSE sent \o Ids(queue)

\* The inductive invariant behind NothingLost.  Who fills the queue or sends it
\* has m_Mutex, and the client's thread does not do both at once.
MutexTells ==
  /\ \A a \in Actors : qpc[a] \in {"copy", "number"} => mutex = a
  /\ spc \in {"write", "reset"} => mutex = Server
  /\ spc # "callback" => qpc[Server] = "idle"
\* There is room in the queue for the next block.
RoomForBlock ==
  /\ \A a \in Actors : qpc[a] # "idle" => msg[a] > 0
  /\ \A a \in Actors : qpc[a] = "copy" => left[a] > 0 /\ Len(queue) < MaxBlock
\* The packet that is written has the blocks that will be taken off the queue.
PacketIsQueue == spc = "write" => sendBuffer.blocks = Ids(queue)
QueueInv == MutexTells /\ RoomForBlock /\ PacketIsQueue /\ NothingLost

\* The client unpacks the messages that were queued, no two run together and
\* none split: those in the first n blocks that were queued for it, and when it
\* waits for no answer, all that was sent.  (The first client of the slot: what the
\* next one finds in the queue is the matter of NumbersTellMessages.)
ClientHasAll ==
  nConnection = 1 =>
    \E n \in 0 .. Len(sent) : /\ MessagesIn(got, accepted, n)
                              /\ ~cWait /\ spc # "closed" => n = Len(sent)

\* The client's thread handles a request it has not answered yet.
Answering == spc \in {"callback", "end", "confirm", "lock", "write"}

Dialogue == INSTANCE RequestReply
              WITH Message <- 1 .. MaxMessage,
                   asked <- cNo, waiting <- cWait, seen <- packRef,
                   replied <- IF Answering THEN packRef - 1 ELSE packRef,
                   open <- spc # "closed", posted <- accepted, given <- Len(sent),
                   busy <- spc = "callback"

\* The conversation keeps the promise of RequestReply: whatever is damaged, repeated,
\* asked for again or queued meanwhile, the client goes on with the answer to its last
\* request only, after the application has seen that request and with all the blocks
\* queued until the callback ended, and no connection ends between a callback and its
\* answer.
ImplementsDialogue == Dialogue!Spec

\* A one-time connection ends with its first answer without data: after it the
\* client's thread neither shows the application a request nor answers one, but for
\* the uploads that may still be on their way.
OneTimeEnds == oneTime /\ sendDone => spc \in {"poll", "closed"} \/ packRef \in Uploads

\* A client that was disconnected by the application (STSV_SendDuplicateLogin)
\* shows up there once more at most: with the request its thread waited for in
\* poll, or was handling, when online was cleared.
LeavesSoon == nLate <= 1

\* A client that waits gets its answer, unless it is disconnected, asks for a packet
\* again (it may have been overwritten then, see RetransmittedIntact), or waits for an
\* upload that failed, of which it is told nothing.
RequestAnswered == cWait ~> ~cWait \/ nAsk > 0 \/ dropped = cNo

\* "Add Mutex check so that packages do not get lost" (2.4.2): what the client
\* asks for again is sent again as it was.
RetransmittedIntact == \A i \in 1 .. Len(toClient) : toClient[i].intact

\* curPacketNo: "which packet of the pack it is, from 0 again after sending":
\* in the queue, two blocks have the same number only if they are of the same
\* message.
NumbersTellMessages ==
  \A i, j \in 1 .. Len(queue) : queue[i].no = queue[j].no => queue[i].id = queue[j].id
=============================================================================
