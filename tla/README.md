# StarServer in TLA+

A verification project for StarServer, the multi-threaded socket server library
for games in `src/StarServer` (`StarSocketServer.cpp`, 3333 lines, and its
header; the example application in `GameServer.cpp` and `main.cpp` is a
skeleton, and `src/MySQL` is the vendored MySQL Connector/C). The modules here
are translated from the code, TLC checks them on small instances, and TLAPS
proves the properties that matter most for every value of the constants.

Line numbers below are those of `StarSocketServer.cpp` unless a file is named.

## 1. Inventory

### The parts and their state

| part | state | operations | who runs them |
|---|---|---|---|
| acceptor (1322-1403, 1852-1882) | the listening socket, local `connectSock`, `freeHostIdx` | accept, find a slot, join the old thread, fill the slot, create a thread | one thread |
| client slots | `s_Client_t[i]`: `socket`, `online`, `thread`, `thread_ID`; `s_nCurLoginCount` | see acceptor and client thread | acceptor, client threads, application |
| client thread (1764-1824) | its slot, `allset.fd` | callbacks, poll with a 15 s timeout, handle a request, end | one per client |
| conversation (2401-2761) | `packRef`, `recvBuffer`, `sendBuffer`, `sendBufferMSG`, `sendCount`, `curPacketNo`, `sendDone`, `m_Mutex` | process a request, queue a message, pack and send, retransmit | client thread; any thread queues |
| big data (389-424, 2118-2183, 2795-2844) | `s_BigDataUse`, `s_bBigDataLock`, a temporary file per slot | receive in parts, get and free the buffer | client threads |
| files (2184-2255, 2310-2391, 2762-2785, 2846-2854) | `fileDataSending`, `bigDataSendSizeDone`, `fileDataReady`, `bigDataReadSize` | start, pack a part, receive a part | client threads |
| rooms (1884-2038, 1242-1260) | `s_Room_t`, `roomIdx`, `s_nRoomCount` | create, join, exit (only with `USE_LOBBY`) | client threads |
| database pool (2871-3183) | `pMySql`, `sqlLock`, `mMySqlRes`, `s_nCurDBConnect`, `s_MutexFreeDBIdx` | lock, query, reconnect, fetch, release, unlock | client threads |
| start and limits (515-1092, 1101-1204) | configuration, memory sums | read configuration, check limits, allocate, bind, start | main |
| shutdown (1281-1305, 2893-2904) | everything above | close sockets and connections, destroy mutexes | main |
| UDP (1404-1505, 1825-1851) | slots | knock | one thread |
| CRC (3191-3301), log (358-384) | tables, `s_bWriteLog` | compute, write | all |

### How they interact

The acceptor hands a connection to a client thread through the slot: it writes
`socket` and `online`, and the thread reads them. `online` also goes the other
way: the client thread, and the application through
`STSV_SendDuplicateLogin` / `STSV_SendServerFULL`, clear it to end the client,
and the acceptor reads it to find a free slot. No lock protects the slots. A
client thread calls the application back (Connect, Request, Disconnect), and the
application, in a callback of any client, queues messages for any client under
that client's `m_Mutex` and borrows database connections. The client's thread
sends what is queued when it answers the client's next request.

### What is hard, and what makes each part correct

- **Slots.** A slot looks free while its old thread still runs (the Disconnect
  callback, the close of the socket, the decrement of the count). Correct if a
  slot has one thread at a time, a thread touches only its own connection's
  descriptor, no slot or descriptor is lost whatever fails, callbacks are
  paired, the acceptor comes back to every connection.
- **Conversation.** Requests come damaged, twice, or late; other threads queue
  while the client's thread packs; the queue and the packet share one buffer;
  messages are told apart by one alternating bit. Correct if a request is seen
  once and in order, what is queued is sent once and in order, and the client
  unpacks what was queued.
- **Database pool.** The search spins with the mutex held, the return takes no
  mutex, errors reconnect in place, results outlive their user. Correct if a
  connection has one user, a user sees its own rows, and everyone is served.
- **Big data.** Parts go to a temporary file per slot, which outlives its
  client; two kinds of data share one size; the pool is searched behind a flag
  tested in one step and set in another. Correct if data that is said to be
  ready is whole and this client's, a buffer has one user, the flag is never left
  set, and a thread that wants a buffer comes back.
- **Files to a client.** `STSV_SendDBFile` sets four fields without `m_Mutex`
  while the client's thread packs what they name; sizes are 32-bit and the room
  left in a packet may be negative. Correct if the client gets the named file
  whole, begun by a HEADER and nothing of the last client's, and every file is
  sent in the end.
- **Start and stop.** Any step of `STSV_Init` may fail and `main` stops the
  server all the same; `STSV_Stop` stops no thread. Correct if threads find
  everything they use, a stop is sound after every start but those that leave it arrays
  that are not there, every client on line is closed and every stored result freed.

## 2. Plan

The order in which the modules were written, the most important behaviour first;
all are done but the last.

1. `ClientSlots` (acceptor, client threads, kicks, descriptors, login count),
   implementing the abstract `ResourcePool`; `ClientSlotsProofs`.
2. `DbPool`, implementing the same `ResourcePool`; `DbPoolProofs`.
3. `PacketFormat` and `ClientChannel` (requests of every type, queue, packets,
   kicks, the next client in the slot); `PacketFormatProofs`,
   `ClientChannelProofs`. `ClientChannel` implements the abstract `RequestReply`.
   `Crc` and `Handshake`, the algorithms that `ClientChannel` leaves out.
4. `BigData`: uploads in parts and the buffer pool; `BigDataProofs`. It
   implements no `ResourcePool`: two threads can have the same buffer
   (`bigdata_exclusive`).
5. `FileSend`: a file cut into parts; `FileSendProofs`.
6. `ServerRun`: `main`, `STSV_Init` and `STSV_Stop` next to the threads;
   `ServerRunProofs`.
7. Not done: the memory plan of `InitServerUnlimit` and `CheckLimite` with the
   widths of its products; the socket's send buffer, in which `WriteTo` can wait
   for ever with `m_Mutex` held.

## 3. Modules

### ResourcePool

The promise behind every pool: `owner[r]` is the one user of `r`; a user
acquires a free resource, has at most one, and gives it back.

### ClientSlots

| TLA+ | code |
|---|---|
| `socket`, `online`, `thread`, `threadID` | the fields of `s_Client_t[s]` |
| `file` | the process's descriptor table: which connection a descriptor refers to, so that a close through a stale number can hit somebody else |
| `wire` | what `poll` and `recv` find on a connection |
| `apc`, `asock`, `aidx`, `areg` | the acceptor's position and locals in `AcceptConnection` |
| `tpc`, `tslot`, `tfd`, `treg` | a client thread's position, argument, `allset.fd`, and loaded count |
| `known` | clients between their Connect and Disconnect callbacks |
| `curLogin`, `torn` | `s_nCurLoginCount`; a history of overlapping updates |

The acceptor is `Accept`, `FindFree` or `Refuse`, `JoinThread`, `FillSlot`,
`CreateThread` or `CreateFails`, `IncrementLoad`, `IncrementStore`; a client
thread is `Start` ... `DecrementStore`, in the order of the source. A step ends
wherever another thread can see or change what it reads next. A thread is named
after its connection (`Conn`), which is why there must be more of them than
slots. A message is only whole, partial or bad here; REGISTER with a missing or
short body is "bad". The application kicks only clients it knows, the discipline
that its callbacks allow it.

### DbPool

| TLA+ | code |
|---|---|
| `up` | `pMySql[i] != NULL` |
| `sqlLock`, `nCur`, `mutex` | `sqlLock`, `s_nCurDBConnect`, `s_MutexFreeDBIdx` |
| `res` | `mMySqlRes[i]`, as the thread whose rows it holds |
| `pc`, `idx`, `reg` | a thread's position, its `i` and then its connection, the loaded count |

The increments and decrements are a load and a store. That of line 2922 is not under
the mutex, so `nCur` drifts, as in the code (against the note "Fix UnlockDB use
mutex" of 2.4.7, `StarSocketServer.h:61`); the count is logged
and reported (317, 2868), decides nothing, and no property is about it.
`mysql_query` returns 0 or 1, so the branches that compare its result with
`CR_SERVER_GONE_ERROR` and `CR_OUT_OF_MEMORY` are never taken and are not
modelled. The application uses only the connection it has locked, locks one at a
time and unlocks it once.

### PacketFormat and ClientChannel

`PacketFormat` has the two ends of the size table: `Flags`, the bit the packer
puts on each block, and `Unpack`, what the other side makes of the bits. Both
loops of the code count changes as they go along the blocks; the module counts
the changes up to a block (`Changes`) instead of looping. The client's end is
the unpacker of the server, the protocol being symmetric. What both are for is
`MessagesIn(ms, q, n)`: `ms` are the first `n` blocks of `q`, cut into their
messages (`Run`), which is stated without flags or counts.

`RequestReply` is the promise of the conversation, without wires, buffers and
locks: a client asks (`asked`, `waiting`), the application sees the request
(`seen`), it is answered (`replied`), and what was `posted` for the client until
the application's callback ended (`Finish`) is `given` with the answer, and
perhaps more. `ClientChannel` maps to it with `cNo`, `cWait`,
`packRef` (one less for `replied` while the request is handled), `accepted` and
the length of `sent`. What is posted after the callback may miss the answer:
`EndPackSendData` looks at `sendCount` in one step (`FindEmpty`, `FindQueued`) and
writes the CONFIRM in another (`SendConfirm`); a one-time server, which sets
`sendDone` with it, then never sends what was queued in between.

| TLA+ | code |
|---|---|
| `toServer`, `toClient` | the two directions of the connection |
| `packRef`, `sendDone`, `curPacketNo` | the fields |
| `queue` | `sendBufferMSG` and `sendPacketNo` of the first `sendCount` blocks |
| `sendBuffer` | the packet last packed, with `intact` false once a queued block has overwritten part of it (the blocks lie in the same buffer from byte 2048) |
| `mutex`, `qpc`, `msg`, `left` | `m_Mutex` and the position in `STSV_SendData` of each thread that queues |
| `spc` | the client thread's position in `processMessageBuffer` / `EndPackSendData` |
| `online`, `oneTime` | the flag, and `s_nServerType` |
| `Uploads` | the numbers of the requests with BIGDATA or FILEDATA |
| `processed`, `accepted`, `sent`, `nLate`, `due`, `dropped` | histories |

A block is the number of its message; a packet is its blocks, their bits and a
request number. Each branch of `processMessageBuffer` is an action: `Register`,
`Retransmit`, `IgnorePing` (also an unknown type, 2621-2625), `DropBad` ("Hack
System"), `IgnoreOld`, `EndOneTime` (uploads excepted, 2554-2555),
`RefuseDamaged`, `AcceptRequest`, `UploadFails` (the error returns 2603-2606 and
2611-2613: `packRef` stays and nothing is answered). `Kick` is
`STSV_SendDuplicateLogin` and `STSV_SendServerFULL` from any thread, and `HangUp`
the end of the connection or 15 seconds without a request. The client, outside
`src/`, is modelled from what the server expects of it: it numbers its requests,
waits for the answer, may send a request twice, sends a damaged one, answers
RETRASMIT with the request and asks for a packet it cannot read again. `Reuse` is
the next client in the same slot, with the fields that the code resets and those
it leaves.

`Crc` has the tables and sums of CRC8 and CRC16 as the code computes them. No
property of `ClientChannel` depends on their values; what it takes for granted,
that a request with damaged bytes is told from a sound one (`RefuseDamaged`), is
what the assumptions about them check.
`Handshake` has the verdict on REGISTER, a function of versions and counts, with
its theorems. Both have assumptions that TLC evaluates before the run `channel`.

### BigData

| TLA+ | code |
|---|---|
| `lock`, `use`, `data` | `s_bBigDataLock`, `s_BigDataUse`, whose data was last read into `s_BigDataBuffer[b]` |
| `pc`, `idx` | the thread's position in `STSV_GetBigData` / `GetBigDataBufferIdx` / `STSV_FreeBigData`, its index into the pool |
| `buffer`, `ready`, `readSize` | `bigDataBuffer`, `bigDataReady` and `fileDataReady`, `bigDataReadSize` |
| `temp[s][k]` | the temporary file of slot `s` for big data or for a file |
| `up` | the client: the upload it is sending, and the next part |
| `got`, `raced`, `lost`, `broken`, `mixed` | histories |

`ReceiveFirst`, `ReceiveFirstFails` (`fopen`) and `ReceiveNext` are the two
`_ProessMessage...Data`; after a first part that failed the client may begin anew
or go on with parts that are appended to the old file. `Reuse` leaves
`fileDataReady` and the files as the code does. A part whose header is HEADER, END or both is told apart
as the code does, which is by a bit for big data and by equality for files.
`GetBigData`, `LeaveLoop`, `SetLock`, `Look`, `NoneFree`, `Take`, `ClearLock`,
`ReadTemp` are the search, one shared access each. The data a client may rely on
is stated with its own premises: not when two searches met (`raced`), not when a
part could not be written (`broken`), not for a file that the slot's last client
left (`bigdata_stale` shows what happens in both cases), no size when both
kinds were announced (`mixed`).

### FileSend

| TLA+ | code |
|---|---|
| `sending`, `name`, `size`, `done` | `fileDataSending`, `fileSendName` (a file, and whether the prefix DBFILE/ is still on it), `bigDataSendSize`, `bigDataSendSizeDone` |
| `cpc`, `arg` | the position of each caller in `STSV_SendDBFile` |
| `pc`, `queue`, `opened`, `pkt` | the client thread's position in `EndPackSendData` / `_PackDataWithBigData`, the size of the messages it has packed, the open file, the part in the packet |
| `present` | the files that can be opened |
| `rx` | the client: what it has of the file |
| `owed`, `orphan`, `raced`, `resized`, `overrun` | histories |

`STSV_SendDBFile` is one action per field it writes (`FindFile` ... `SetName`),
since it takes no mutex. `Part` computes as the code does: the room left is an
`int` that may be negative, compared as unsigned (`Fits`), and sizes wrap at
`Word`. The properties are stated for calls that do not overlap (`~raced`);
`FileWhole` also leaves out a packet whose rest of the file did not fit
(`overrun`: messages of more than 60K before it, so that what the code writes
lies outside the buffer).

### ServerRun

| TLA+ | code |
|---|---|
| `mpc`, `ret`, `i` | the position of `main` in `main`, `STSV_Init`, `STSV_Stop`; `ret`; the loop index |
| `config`, `made`, `listen`, `game` | what of the start has been done; `s_ServerDesc.listenSocket` set; InitGameServer and DestroyGameServer |
| `accepting`, `apc`, `asock`, `aidx` | the acceptor |
| `socket`, `online`, `tpc`, `open` | the slots, their threads, the open connections |
| `tdb` | the database connection that a slot's thread has locked |
| `db`, `res`, `stdin` | `pMySql`, `mMySqlRes`; whether descriptor 0 is open |
| `crashed`, `met`, `stored`, `freed`, `twice` | histories: a NULL pointer was used; the clients on line and the results stored at the key q; the results freed, and freed again |

The acceptor and the client threads are those of `ClientSlots` with fewer steps:
what `STSV_Stop` can meet is kept (the socket is stored before `online`, the
thread, a kick in any thread (`Kick`) or `Drop` clears `online` before the thread
leaves (`Leave`) and closes (`CloseOwn`)). A thread that has a database connection
(`LockDB`) tests for a stored result, frees it, sets it to NULL and stores the
next one in four steps (`UseDB`, `FreeOwn`, `NullOwn`, `Query`), and so does
`STDB_DisConnect` in `main` without asking who has the connection
(`DisconnectDB`, `FreeResult`, `ForgetResult`, `CloseDB`). The mutexes, the
application and the process end in steps of their own (`DestroyMutex`,
`DestroyGameServer`, `Exit`), and the threads run on until the last.
`s_nMaxConnection` is a constant here; in the code it comes from the configuration
or from the memory to use. Database arrays that were not made are NULL, or, after a failure in
the middle, hold what `malloc` has left, which may be zero: `DisconnectDB` goes on
where `DisconnectCrash` does not.

## 4. Runs

| run | question | result |
|---|---|---|
| `slots_safety` | slots, descriptors, callbacks, count; do slots implement `ResourcePool`? | holds, yes |
| `slots_liveness` | is every connection answered, does every kicked or silent client leave? | yes |
| `slots_stall` | is a client that stops within a message timed out? | **no**: `ReadFrom` has no time limit |
| `db_pool` | one user per connection, own rows, `ResourcePool`, is every thread served? | holds, yes |
| `channel` | requests once, in order and none left out, nothing lost, the client has all messages whole and apart, `RequestReply`; does a one-time or kicked client leave, is a waiting client answered? | holds, yes |
| `channel_retransmit` | is a packet sent again as it was? | **no**: the queue overwrites it |
| `channel_reuse` | do numbers tell messages apart in the next client's queue? | **no**: `sendCount` is not reset |
| `bigdata` | data that is ready, if it could be written, is whole, the application reads its own client's; does every search for a buffer end? | holds, yes |
| `bigdata_exclusive` | does a buffer have one user? | **no**: test and set of the flag are two steps |
| `bigdata_stale` | is a file that was not received completely gone for the next client? | **no**: `fileDataReady` is not reset |
| `file_send` | is a file whole at the client and begun by a HEADER, is a one-time connection marked done too early, is every file sent? | holds; no, yes |
| `server_run` | do threads find what they use, is a stop sound, does it close every client and free every result, and none twice before it? | holds, yes |

Each violation is a finding in `PROJECT.json` with the line of the repository
it contradicts. Each property of a passing run has a mutant of the code that
breaks it (operators commented "Wrong: ...", next to the definition they
mutate). Before `channel`, TLC evaluates the assumptions of `Crc` (the sums by
table are remainders of polynomials; one damaged byte, or two next to each other,
are noticed) and of `Handshake` (a newer version is refused, too).

`ClientHasAll` is about the first connection of a slot; `channel_reuse` shows why
it would not survive the next one.
`RequestAnswered` leaves out a client that asks for a packet again, which may
have been overwritten (`channel_retransmit`), and one whose upload failed, which the
code does not answer. `StopSound` names the starts after which a stop is not
sound: one that failed between reading the limits and making the arrays of the
slots and of the database connections (`STSV_Stop` uses them with the limits as
bounds), and one that failed before the listening socket was stored (descriptor 0
is closed in its place). After every other start, failed or not, and whatever the
threads do, it is. `bigdata_stale` reads the note of 2.3.3 as it stands, for files in
either direction; the reset of `fileDataSending` (1371) keeps it for files to the
client.

### Bounds

- Slots: two slots, three connections, three descriptors (`slots_safety`): a slot
  is reused while its old thread ends and the other slot is full, a connection is
  refused with both slots full, and a descriptor is reused by another connection
  while an old thread still has its number. One slot and two connections for
  liveness, where every reuse waits for a join. `CountMod = 4` and `CountHalf`
  stand for the widths of the two counters: more than the threads that are
  counted, small enough to see a count below 0.
- Database: two connections, one of which may be down (`MaxDown`), and two
  threads: they wait, meet and inherit each other's results. Threads make queries
  without bound.
- Conversation: `MaxBlock = 3` stands for 62, with messages of one and three
  blocks: the queue fills, a message is cut off, a message is refused.
  `MaxRequest = 3`, `MaxMessage = 2`, `MaxFault = 1`, `MaxAsk = 1` and
  `MaxConnection = 2` let a message be queued before, during and after an answer,
  a request be damaged, repeated or of another type after others were handled,
  and a second client follow. The second request is an upload (`Uploads`), so that a
  one-time client has requests of both sorts after its confirmation.
  `sendPacketNo` is taken modulo 256, which no run reaches, and which the code
  does not either: a queue holds 62 messages and numbering restarts with each
  packet, except for messages of size 0.
- Big data: two slots, two buffers, two uploads of at most two parts
  (`MaxUpload`, `MaxPart`), three calls of the application (`MaxCall`), one
  failing `fopen` (`MaxFail`), one next client (`MaxReuse`): an upload is begun
  over another, a buffer is fetched twice, a search finds none free. One buffer
  for `bigdata_exclusive`, as the code has; one slot and up to
  three parts for `bigdata_stale`, where a part in the middle can fail.
- Files: one of three units and an empty one, packets of two (`Room`), messages
  of up to three units before the file (`MaxQueue`), so that the room is full and
  negative, sizes modulo 8 (`Word`), two calls (`MaxCall`) from the callback or
  another thread, one file removed (`MaxVanish`), one next client (`MaxReuse`).
- Start and stop: two slots, three connections (`MaxAccept`), one database
  connection, two queries (`MaxQuery`): a result is stored before the key q and
  another while `main` releases the first.

Deadlock is checked in the slot and database runs. The others end when their
bounded clients, calls or the process itself have come to their end, and say
`CHECK_DEADLOCK FALSE`.

### Fairness

- The acceptor and every client thread run on: weak fairness, as the operating
  system schedules threads. `accept` serves the kernel's queue in order: strong
  fairness per connection. Peers that finish a message they have begun
  (`FairPeers`) are an assumption that `slots_liveness` needs and `slots_stall`
  drops.
- `pthread_mutex_lock` lets a waiting thread in eventually: strong fairness of
  `LockMutex`, `Pack` and the queueing threads. MySQL answers: weak fairness of
  `QueryNext`. The application gives its connection back: strong fairness of
  `Unlock`, since queries may alternate with it. At least one database
  connection stays up: `MaxDown < DBMaxConnect`.
- The client of `ClientChannel` reads what it is sent; it need not send.
- `BigData`: weak fairness of each thread inside the library. The loop on the
  flag needs no more: the flag is cleared by a thread that runs on, and the
  calls are bounded.
- `FileSend`: callers and the client's thread run on. Strong fairness of a
  callback that leaves messages of another size than the room: an application
  that fills the room exactly at every request sends no byte of the file.

## 5. Proofs

Eight modules hold theorems; each is for every value of the constants and any
length of the run. The bounds of the models are constants like the others, any
natural number.

`ClientSlotsProofs`, for every number of slots, connections and descriptors:

- `TypeCorrect`: `TypeOK`.
- `SlotsInvariant` (`SlotInv`) and from it `SlotsCorrect` (`OneThreadPerSlot`),
  `JoinsAreSound` (`JoinsLiveThread`), `CallbacksArePaired` (`CallbacksPaired`).
  The inductive invariant says what the two flags tell the acceptor: `thread[s]`
  holds only if `threadID[s]` is an unjoined thread of `s` (`ThreadOfSlot`); a
  thread past its first step has raised the flag, one before its Connect callback
  has its slot on line (`FlagsTell`), so a free slot with `thread` false has no
  thread at all; the acceptor's position keeps what it has read true
  (`AcceptorSees`). `OneThreadPerSlot` alone is not inductive: nothing would link
  the flags to the threads.
- `DescriptorsInvariant` (`DescriptorInv`: the descriptor table is injective on
  connections, the acceptor holds the descriptor of a connection without thread,
  every attached thread finds its own descriptor in its slot), and from it
  `DescriptorsCorrect` (`DescriptorOwned`) and `DescriptorsClosed`
  (`NoDescriptorLeak`).
- `SlotsNotLost`: `NoSlotLeak`.
- `CountsClients`: `CountExact`, for every width `CountMod` of the counter: while
  no two updates have overlapped, one thread updates at a time, what it has loaded
  is still the count, and the count is the number of clients modulo `CountMod`
  (`CountInv`; the number is a cardinality, which each step changes by one client
  at most).
- `SlotsArePool`: `ClientSlots` implements `ResourcePool` (refinement by
  `owner`, the connection attached to a slot).

`DbPoolProofs`, for every number of threads and connections: `TypeCorrect`;
`ConnectionsExclusive` (`LockInv`: the lock flag is set for exactly the
connections that have a holder, the holder of the mutex is the only one who
searches, and between the hit and the set flag the connection stays free because
only the owner of the mutex sets flags); `RowsAreOwn` (`OwnRows`);
`ResultsAreFreed` (`NoResultLost`, an action property: a command is sent only on a
connection whose last rows were freed, `NoneAtQuery`, and nobody else touches the
connection until it returns); `ConnectionsArePool` (`ImplementsPool`).

`ClientChannelProofs`, for any number of threads that queue messages, any size of
the queue and of the messages:

- `TypeCorrect` (`TypeOK`) and `QueueIsGuarded` (`QueueInv`). The two are
  inductive only together: the queue stays within the size table because a thread
  in `"copy"` has room (`RoomForBlock`), which stays true because nobody else
  fills the queue meanwhile (`MutexTells`).
- `NothingIsLost`: `NothingLost`. Between the packing and the reset the packet
  has the blocks of the queue (`PacketIsQueue`), because whoever could queue
  another needs `m_Mutex`. The look at `sendCount` without the mutex loses
  nothing, since only the client's own thread takes blocks off; what it misses stays
  queued behind the CONFIRM.
- `RequestsSeenOnce`: `RequestsOnce`, from `SeenInv`: what makes `packRef` enough
  is that a client has one request at most that is not answered, its last, and
  waits for it, and that nothing that could be taken for the answer (on the wire,
  or in the send buffer, from where the client may ask for it again) has a later
  number than the thread has accepted (`Protocol`). This is for every client of
  the slot.
- `ClientGetsAll`: `ClientHasAll`, from `ReceivedInv`. Three things meet: the
  numbers of the queue tell its messages apart, the last block being that of the
  message a thread is copying (`QueueNumbers`); a call has a message of its own,
  none of whose blocks were sent before (`MessageIds`), since whoever copies keeps
  `m_Mutex` until the message is whole; and the client has unpacked the first `n`
  blocks, while every answer to its last request that is or may come under way
  has exactly the rest (`Received`). `UnpackedAsPacked` turns numbers into messages
  when a packet is packed, `MessagesJoin` adds them to those the client has. The
  theorem is about the first client of the slot, as the property is, and assumes
  that no message has size 0 (`0 \notin Sizes`): such a message takes a number
  without a block, see the hazard at line 2726. The run has `Sizes = {1, 3}`.
- `DialogueIsKept`: `ClientChannel` implements `RequestReply`, for every client of
  the slot and without the assumption on sizes. `Protocol` says that the request
  that is shown is the one the client waits with, `NothingLost` that a packet takes
  all that is queued, and `DueInv` that what was queued by the end of the callback
  is sent before the CONFIRM: what that leaves behind came later.
- `OneTimeConnectionEnds`: `OneTimeEnds`, inductive as it stands; uploads are
  excepted, as in the code.
- `DisconnectedLeaves`: `LeavesSoon`, strengthened by where the thread of a
  client that is off line can still be (`LastRequest`).

`PacketFormatProofs` proves `UnpackedAsPacked`: a queue of any length whose
numbers tell its messages apart is unpacked into exactly those messages. Both
loops count changes, so the argument is about counts (`Changes` grows by one at
each boundary and nowhere else, and the blocks with the same count are a `Run`).
It would be an induction over the blocks; instead a lemma takes the first block
where the claim would fail (`LeastNumber`). `MessagesStay` and `MessagesJoin` say
what becomes of a list of messages when blocks are queued after it or the messages
of the next packet follow. `BoundariesKept` is for a queue with any numbers:
packed and unpacked again, the receiver starts a new message at exactly the
blocks whose number differs from the one before, and the first block is in the
first message if its number is 0 (the case left out is that of a message of
size 0 before it, or of blocks left from the last client).

`BigDataProofs`, for any number of slots and buffers: `PoolCorrect` (`PoolInv`),
`DataIsOwn` (`OwnData`), `LockIsCleared` (`LockHasSetter`). The three are one
inductive invariant with the types of the pool and `DataInv`: a buffer is marked
if and only if a slot has it, is about to have it, or has forgotten it; the
searching thread has seen its buffer free, and no other takes it, because there
is no other.

The other theorems are about the uploads, for any number of slots, uploads and
parts: `TypeCorrect` (`TypeOK`) and `ReadyIsWhole` (`WholeWhenReady`), from one
inductive invariant (`FileAll`): the temporary file has
the parts of the upload that have come, from the first and in order (`Parts`),
unless one could not be written; only the last
part makes data ready, and whatever takes the upload away makes it unready
(`UploadInv`); the size read is that of the upload (`SizeInv`).

`FileSendProofs`, for files, rooms and queues of any size and any number of
callers, while calls do not overlap:

- `TypeCorrect` (`TypeOK`), `FilesAreWhole` (`FileWhole`), `PartsHaveHeader`
  (`FirstIsHeader`), `ConfirmedLast` (`DoneMeansSent`), from one inductive
  invariant (`Types` and `Quiet`): what a call has done of its steps (`CallInv`);
  while a file is sent the client has exactly its first `done` units (`SendInv`);
  the part in the packet goes on there (`PartInv`), and the last one completes
  the file (`LastInv`). `AmountWithinRest` is the arithmetic: a negative room,
  taken as unsigned, is more than any rest. It needs that no file comes within
  `MaxQueue` of 4 GB (`SizeAssumption`); the invariant also shows that the units
  of a file are in order whether or not a part overran the packet.

`ServerRunProofs`, for any number of slots, connections, clients and queries:
`TypeCorrect` (`TypeOK`: the loops stay inside their arrays, and a thread in a
call with a database connection has one, `InCall`), `ThreadsFindAll`
(`ServesReady`) and `StopIsSound` (`StopSound`) from `StartInv` (how far `main`
has come tells what is made, and any thread tells that the start is complete),
`StopClosesAll` (`MetClosed`) from `MetInv`: a client that was on line and whose
socket is open is in a slot that the sweep has not passed and that is on line, or
in one whose thread is leaving, and the acceptor stores a socket only in a slot
that is off line and without thread, so it never covers up an open one.
`StopReleases` (`StoredReleased`) from `ReleaseInv`: a result stored at the key q is
freed, or still stored in a connection that `main` has not passed (`Ahead`), since a
thread drops from its connection only what it has found freed (`OwnFreed`), and no
two threads share one (`Exclusive`). Until main begins with that, the results
stored are all different and not freed, but for one that a thread is about to
forget (`FreshInv`), and so none is freed twice; afterwards `main` and a thread that
test the same result before either has set it to NULL do free it twice.

`Handshake`: `OldIsRefused` and `FullIsTold`, about the verdict on REGISTER.

The inductive invariants of the models (`SlotInv`, `DescriptorInv`, `QueueInv`,
`LockHasSetter`) and of the proof modules are no properties of a run: TLC checks
what they are for. `NoResultLost` is proved only.

The assumptions are the named ASSUMEs of the modules: sizes and limits are
natural numbers, positive where the code divides or indexes by them, `None` is no
member of the other sets, and the bound on file sizes. TLC evaluates them in
every run.

Every invariant and every action property of a passing run is a theorem. Only
model-checked, because it is out of the prover's reach: liveness under fairness
(`EveryConnectionAnswered`, `KickedClientLeaves`, `SilentClientForgotten`,
`EveryRequestServed`, `RequestAnswered`, `GetReturns`, `FileSent`), and what the
folds of `Crc` compute (`Crc` uses bitwise operators).

## 6. Not modelled

- Sending: `WriteTo` returns. In the code it spins while the peer does not read,
  and a reset raises SIGPIPE; see the hazard at line 1615.
- Memory and text: buffers that a header's size overruns, file names, SQL text,
  the configuration parser, the log, the sums of memory of `CheckLimite` and
  `InitServerUnlimit`.
- What the MySQL library does with a connection that is closed under a query, and
  pthreads with a mutex destroyed under a waiting thread: `ServerRun` has the
  steps that lead there, the outcome is undefined.
- Rooms: compiled only with `USE_LOBBY`, which nothing defines
  (`StarSocketServer.h:366`). Without it `roomIdx` is always -1.
- UDP: unfinished in the code (`WriteTo` sends nothing over UDP).
- CRC32: the server does not call it, and its 32-bit register is wider than the
  integers TLC computes with.
- `Read` and `WriteAll`: called by nothing. The accessors of one database row
  and `STSV_DBLastInsert` keep no state but the current row.
- Messages of size 0: `ClientChannel` has the step, the runs and `ClientGetsAll`
  leave them out. Their effect is in `BoundariesKept`.
- `src/MySQL` is a vendored library's headers; `DbPool` has its effect on a
  connection.
