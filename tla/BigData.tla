------------------------------- MODULE BigData -------------------------------
(***************************************************************************)
(* Big data and files that the clients send in parts, and the pool of      *)
(* buffers through which the application reads big data                    *)
(* (_ProessMessageBigData, _ProessMessageFileData, STSV_GetBigData,        *)
(* STSV_FreeBigData, GetBigDataBufferIdx).                                 *)
(*                                                                         *)
(* Each client's thread appends the parts to a temporary file of its slot  *)
(* and calls the application back, which may fetch the data into a buffer  *)
(* of the pool and free it again.  The pool is searched behind a flag that *)
(* is tested in one step and set in another, and a buffer is freed without *)
(* it.  The two kinds of data have files and ready flags of their own, but *)
(* share the announced size.                                               *)
(***************************************************************************)
EXTENDS Integers, Sequences, FiniteSets

CONSTANTS
  Slot,          \* the slots, and the threads of their clients
  PoolBlock,     \* STSV_BIGDATA_POOL_BLOCK
  None,          \* NULL
  MaxPart,       \* bound: parts of one upload
  MaxUpload,     \* bound: uploads
  MaxCall,       \* bound: calls of STSV_GetBigData and STSV_FreeBigData
  MaxFail,       \* bound: calls of fopen that fail
  MaxReuse       \* bound: clients that follow another in a slot

ASSUME PoolAssumption == PoolBlock \in Nat \ {0} /\ None \notin Nat
ASSUME BoundAssumption == {MaxPart, MaxUpload, MaxCall, MaxFail, MaxReuse} \subseteq Nat

Buffer == 1 .. PoolBlock
Kind == {"big", "file"}

VARIABLES
  lock,          \* s_bBigDataLock
  use,           \* s_BigDataUse
  data,          \* data[b]: the slot whose data was last read into the buffer
  pc,            \* the next step of the slot's thread
  idx,           \* idx[s]: its index into the pool
  buffer,        \* bigDataBuffer
  temp,          \* temp[s][k]: the parts in the temporary file
  ready,         \* bigDataReady, fileDataReady
  readSize,      \* bigDataReadSize, in parts
  up,            \* up[s][k]: the upload whose parts come, and the next one
  \* histories
  got,           \* got[s]: the application reads the buffer it was given
  raced,         \* two threads have searched the pool at once
  lost,          \* buffers that a slot forgot when it took another
  broken,        \* broken[s][k]: a part of the last upload could not be written
  mixed,         \* mixed[s]: both kinds were announced since the big data was
  nUpload, nCall, nFail, nReuse

pool == <<lock, use, data>>
calls == <<pc, idx, buffer>>
files == <<temp, ready, readSize, up>>
histories == <<got, raced, lost, broken, mixed>>
counters == <<nUpload, nCall, nFail, nReuse>>
vars == <<pool, calls, files, histories, counters>>

NoUpload == [id |-> 0, parts |-> 0, next |-> 1]

Init ==
  /\ lock = FALSE /\ use = [b \in Buffer |-> FALSE] /\ data = [b \in Buffer |-> None]
  /\ pc = [s \in Slot |-> "idle"] /\ idx = [s \in Slot |-> 1]
  /\ buffer = [s \in Slot |-> None]
  /\ temp = [s \in Slot |-> [k \in Kind |-> <<>>]]
  /\ ready = [s \in Slot |-> [k \in Kind |-> FALSE]]
  /\ readSize = [s \in Slot |-> 0]
  /\ up = [s \in Slot |-> [k \in Kind |-> NoUpload]]
  /\ got = [s \in Slot |-> FALSE] /\ raced = FALSE /\ lost = {}
  /\ broken = [s \in Slot |-> [k \in Kind |-> FALSE]] /\ mixed = [s \in Slot |-> FALSE]
  /\ nUpload = 0 /\ nCall = 0 /\ nFail = 0 /\ nReuse = 0

----------------------------------------------------------------------------
(* The client sends its data in parts.                                     *)

Part(u) == <<u.id, u.next>>
Whole(u) == [i \in 1 .. u.parts |-> <<u.id, i>>]

\* The first part is marked HEADER, the others CONTINUE; the last one is
\* marked END too, or, if it is not the first, END alone.
Flags(u) ==
  LET first == IF u.next = 1 THEN {"HEADER"} ELSE {"CONTINUE"}
  IN  IF u.next < u.parts THEN {first}
      ELSE {first \cup {"END"}} \cup (IF u.next > 1 THEN {{"END"}} ELSE {})

\* Big data is ready at every part marked END, a file only at END alone.
Ready(k, flags) == IF k = "big" THEN "END" \in flags ELSE flags = {"END"}

\* What fopen returns.
Opens(ok) == nFail' = nFail + (IF ok THEN 0 ELSE 1) /\ nFail' <= MaxFail

\* Wrong: the sizes of all uploads add up.
AnnounceMore(s, k, parts) ==
  /\ readSize' = [readSize EXCEPT ![s] = IF mixed[s] THEN parts ELSE @ + parts]
  /\ mixed' = [mixed EXCEPT ![s] = (k = "file")]

\* The first part announces the size.
Announce(s, k, parts) ==
  /\ readSize' = [readSize EXCEPT ![s] = parts]
  /\ mixed' = [mixed EXCEPT ![s] = (k = "file")]

\* The client begins an upload, perhaps in the middle of another.  The first
\* part opens the temporary file anew.
ReceiveFirst(s, k) ==
  /\ pc[s] = "idle"
  /\ nUpload < MaxUpload /\ nUpload' = nUpload + 1
  /\ \E parts \in 1 .. MaxPart :
       LET u == [id |-> nUpload + 1, parts |-> parts, next |-> 1] IN
       /\ Announce(s, k, parts)
       /\ temp' = [temp EXCEPT ![s][k] = <<Part(u)>>]
       /\ \E flags \in Flags(u) : ready' = [ready EXCEPT ![s][k] = Ready(k, flags)]
       /\ up' = [up EXCEPT ![s][k] = [u EXCEPT !.next = 2]]
  /\ broken' = [broken EXCEPT ![s][k] = FALSE]
  /\ pc' = [pc EXCEPT ![s] = "callback"]
  /\ UNCHANGED <<pool, idx, buffer, got, raced, lost, nCall, nFail, nReuse>>

\* If the file cannot be opened nothing is written and nothing is answered; the old
\* file stays.  The client may begin anew, or go on with the other parts.
ReceiveFirstFails(s, k) ==
  /\ pc[s] = "idle"
  /\ nUpload < MaxUpload /\ nUpload' = nUpload + 1
  /\ Opens(FALSE)
  /\ \E parts \in 1 .. MaxPart :
       /\ Announce(s, k, parts)
       /\ up' = [up EXCEPT ![s][k] = [id |-> nUpload + 1, parts |-> parts, next |-> 2]]
  /\ ready' = [ready EXCEPT ![s][k] = FALSE]
  /\ broken' = [broken EXCEPT ![s][k] = TRUE]
  /\ UNCHANGED <<pool, calls, temp, got, raced, lost, nCall, nReuse>>

InParts(u) == u.next <= u.parts

\* The other parts are appended to whatever the file has, if it can be opened; the
\* last one makes it ready either way.
ReceiveNext(s, k) ==
  /\ pc[s] = "idle" /\ InParts(up[s][k])
  /\ \E ok \in BOOLEAN, flags \in Flags(up[s][k]) :
       /\ Opens(ok)
       /\ temp' = IF ok THEN [temp EXCEPT ![s][k] = Append(@, Part(up[s][k]))] ELSE temp
       /\ broken' = [broken EXCEPT ![s][k] = @ \/ ~ok]
       /\ ready' = [ready EXCEPT ![s][k] = @ \/ Ready(k, flags)]
  /\ up' = [up EXCEPT ![s][k].next = @ + 1]
  /\ pc' = [pc EXCEPT ![s] = "callback"]
  /\ UNCHANGED <<pool, idx, buffer, readSize, got, raced, lost, mixed, nUpload, nCall, nReuse>>

\* Any other request is shown to the application, too.
ReceiveOther(s) ==
  /\ pc[s] = "idle"
  /\ pc' = [pc EXCEPT ![s] = "callback"]
  /\ UNCHANGED <<pool, idx, buffer, files, histories, counters>>

\* Wrong: big data of the last client is offered to the next one.
ReuseReady(s) ==
  /\ pc[s] = "idle"
  /\ nReuse < MaxReuse /\ nReuse' = nReuse + 1
  /\ up' = [up EXCEPT ![s] = [k \in Kind |-> NoUpload]]
  /\ got' = [got EXCEPT ![s] = FALSE]
  /\ UNCHANGED <<pool, calls, temp, ready, readSize, raced, lost, broken, mixed,
                 nUpload, nCall, nFail>>

\* AcceptConnection: the next client of the slot.  fileDataReady and
\* bigDataBuffer stay as they are, and so do the temporary files.
Reuse(s) ==
  /\ pc[s] = "idle"
  /\ nReuse < MaxReuse /\ nReuse' = nReuse + 1
  /\ ready' = [ready EXCEPT ![s]["big"] = FALSE]
  /\ up' = [up EXCEPT ![s] = [k \in Kind |-> NoUpload]]
  /\ got' = [got EXCEPT ![s] = FALSE]
  /\ UNCHANGED <<pool, calls, temp, readSize, raced, lost, broken, mixed, nUpload, nCall, nFail>>

----------------------------------------------------------------------------
(* The application, in the callback of the client's thread.                *)

Goto(s, label) == pc' = [pc EXCEPT ![s] = label]

\* STSV_GetBigData; it does nothing when no data is ready.
GetBigData(s) ==
  /\ pc[s] = "callback" /\ ready[s]["big"]
  /\ nCall < MaxCall /\ nCall' = nCall + 1
  /\ Goto(s, "spin")
  /\ UNCHANGED <<pool, idx, buffer, files, histories, nUpload, nFail, nReuse>>

\* The thread finds the flag clear ...
LeaveLoop(s) ==
  /\ pc[s] = "spin" /\ ~lock
  /\ Goto(s, "set")
  /\ UNCHANGED <<pool, idx, buffer, files, histories, counters>>

Searching(s) == pc[s] \in {"look", "take"}

\* ... and sets it, whoever has set it meanwhile.
SetLock(s) ==
  /\ pc[s] = "set"
  /\ lock' = TRUE
  /\ idx' = [idx EXCEPT ![s] = 1]
  /\ raced' = (raced \/ \E t \in Slot : Searching(t))
  /\ Goto(s, "look")
  /\ UNCHANGED <<use, data, buffer, files, got, lost, broken, mixed, counters>>

Look(s) ==
  /\ pc[s] = "look" /\ idx[s] <= PoolBlock
  /\ IF use[idx[s]] THEN idx' = [idx EXCEPT ![s] = @ + 1] /\ pc' = pc
                     ELSE idx' = idx /\ Goto(s, "take")
  /\ UNCHANGED <<pool, buffer, files, histories, counters>>

\* Wrong: the index is not checked.
NoneFreeUnchecked(s) ==
  /\ pc[s] = "look" /\ idx[s] > PoolBlock
  /\ lock' = FALSE
  /\ Goto(s, "read")
  /\ UNCHANGED <<use, data, idx, buffer, files, histories, counters>>

\* "STSV_GetBigData Outoff Memory"
NoneFree(s) ==
  /\ pc[s] = "look" /\ idx[s] > PoolBlock
  /\ lock' = FALSE
  /\ Goto(s, "callback")
  /\ UNCHANGED <<use, data, idx, buffer, files, histories, counters>>

\* Wrong: the buffer is not marked.
TakeUnmarked(s) ==
  /\ pc[s] = "take"
  /\ Goto(s, "clear")
  /\ UNCHANGED <<pool, idx, buffer, files, histories, counters>>

Take(s) ==
  /\ pc[s] = "take"
  /\ use' = [use EXCEPT ![idx[s]] = TRUE]
  /\ Goto(s, "clear")
  /\ UNCHANGED <<lock, data, idx, buffer, files, histories, counters>>

\* Wrong: the flag stays set.
ClearLockNever(s) ==
  /\ pc[s] = "clear"
  /\ Goto(s, "read")
  /\ UNCHANGED <<pool, idx, buffer, files, histories, counters>>

ClearLock(s) ==
  /\ pc[s] = "clear"
  /\ lock' = FALSE
  /\ Goto(s, "read")
  /\ UNCHANGED <<use, data, idx, buffer, files, histories, counters>>

\* The slot gets the buffer, and forgets the one it had; if the temporary file
\* can be opened the data is read and handed to the application.
ReadTemp(s) ==
  /\ pc[s] = "read"
  /\ lost' = lost \cup ({buffer[s]} \ {None, idx[s]})
  /\ buffer' = [buffer EXCEPT ![s] = idx[s]]
  /\ \E ok \in BOOLEAN :
       /\ Opens(ok)
       /\ got' = [got EXCEPT ![s] = ok]
       /\ data' = IF ok THEN [data EXCEPT ![idx[s]] = s] ELSE data
  /\ Goto(s, "callback")
  /\ UNCHANGED <<lock, use, idx, files, raced, broken, mixed, nUpload, nCall, nReuse>>

\* Wrong: the buffer is not given back.
FreeBigDataFlag(s) ==
  /\ pc[s] = "callback"
  /\ nCall < MaxCall /\ nCall' = nCall + 1
  /\ got' = [got EXCEPT ![s] = FALSE]
  /\ Goto(s, "forget")
  /\ UNCHANGED <<pool, idx, buffer, files, raced, lost, broken, mixed, nUpload, nFail, nReuse>>

\* STSV_FreeBigData gives the buffer back, without the flag ...
FreeBigData(s) ==
  /\ pc[s] = "callback"
  /\ nCall < MaxCall /\ nCall' = nCall + 1
  /\ use' = IF buffer[s] = None THEN use ELSE [use EXCEPT ![buffer[s]] = FALSE]
  /\ got' = [got EXCEPT ![s] = FALSE]
  /\ Goto(s, "forget")
  /\ UNCHANGED <<lock, data, idx, buffer, files, raced, lost, broken, mixed,
                 nUpload, nFail, nReuse>>

\* ... and forgets it and the data.
Forget(s) ==
  /\ pc[s] = "forget"
  /\ buffer' = [buffer EXCEPT ![s] = None]
  /\ ready' = [ready EXCEPT ![s]["big"] = FALSE]
  /\ Goto(s, "callback")
  /\ UNCHANGED <<pool, idx, temp, readSize, up, histories, counters>>

\* STSV_FreeFileData
FreeFileData(s) ==
  /\ pc[s] = "callback" /\ ready[s]["file"]
  /\ ready' = [ready EXCEPT ![s]["file"] = FALSE]
  /\ UNCHANGED <<pool, calls, temp, readSize, up, histories, counters>>

EndCallback(s) ==
  /\ pc[s] = "callback"
  /\ Goto(s, "idle")
  /\ UNCHANGED <<pool, idx, buffer, files, histories, counters>>

\* The steps of the thread inside the library.
LibraryNext(s) == \/ LeaveLoop(s) \/ SetLock(s) \/ Look(s) \/ NoneFree(s) \/ Take(s)
                  \/ ClearLock(s) \/ ReadTemp(s) \/ Forget(s)

SlotNext(s) == \/ \E k \in Kind : ReceiveFirst(s, k) \/ ReceiveFirstFails(s, k) \/ ReceiveNext(s, k)
               \/ ReceiveOther(s) \/ Reuse(s) \/ GetBigData(s) \/ LibraryNext(s) \/ FreeBigData(s)
               \/ FreeFileData(s) \/ EndCallback(s)

Next == \E s \in Slot : SlotNext(s)

Spec == Init /\ [][Next]_vars

\* The threads run on.
FairSpec == Spec /\ \A s \in Slot : WF_vars(LibraryNext(s))

----------------------------------------------------------------------------

Uploads == [id : 0 .. MaxUpload, parts : 0 .. MaxPart, next : 1 .. MaxPart + 1]

PoolTypes ==
  /\ lock \in BOOLEAN /\ use \in [Buffer -> BOOLEAN] /\ data \in [Buffer -> Slot \cup {None}]
  /\ pc \in [Slot -> {"idle", "callback", "spin", "set", "look", "take", "clear", "read",
                      "forget"}]
  /\ idx \in [Slot -> 1 .. PoolBlock + 1]
  /\ \A s \in Slot : pc[s] \in {"take", "clear", "read"} => idx[s] \in Buffer
  /\ buffer \in [Slot -> Buffer \cup {None}]
  /\ got \in [Slot -> BOOLEAN] /\ raced \in BOOLEAN /\ lost \subseteq Buffer

FileTypes ==
  /\ temp \in [Slot -> [Kind -> Seq((1 .. MaxUpload) \X (1 .. MaxPart))]]
  /\ ready \in [Slot -> [Kind -> BOOLEAN]]
  /\ readSize \in [Slot -> 0 .. MaxPart]
  /\ up \in [Slot -> [Kind -> Uploads]]
  /\ broken \in [Slot -> [Kind -> BOOLEAN]] /\ mixed \in [Slot -> BOOLEAN]
  /\ nUpload \in 0 .. MaxUpload

\* Type correctness; a thread that takes a buffer has an index of the pool.
TypeOK == PoolTypes /\ FileTypes

\* s_bBigDataLock is set only while a thread that set it is inside, though
\* another may have cleared it before: it is never left set for good.
LockHasSetter == lock => \E s \in Slot : pc[s] \in {"look", "take", "clear"}

\* The buffers a slot has, or is about to have.
Has(s, b) == \/ buffer[s] = b /\ pc[s] # "forget"
             \/ pc[s] \in {"clear", "read"} /\ idx[s] = b

\* While no two threads have searched the pool at once, a buffer in use has one
\* slot, or was forgotten by one, and a buffer that a slot has is in use.
PoolInv ==
  ~raced =>
    /\ \A b \in Buffer : use[b] <=> (b \in lost \/ \E s \in Slot : Has(s, b))
    /\ \A b \in Buffer, s, t \in Slot : Has(s, b) /\ Has(t, b) => s = t
    /\ \A b \in lost, s \in Slot : ~Has(s, b)
    /\ \A s, t \in Slot : Searching(s) /\ Searching(t) => s = t
    /\ \A s \in Slot : pc[s] = "take" => ~use[idx[s]]

\* Then the application reads its own client's data, however the other threads
\* get and free buffers meanwhile.
OwnData == ~raced => \A s \in Slot : got[s] => buffer[s] # None /\ data[buffer[s]] = s

\* Data that is ready, if its parts could be written, is whole
\* and in order, with nothing left of data begun before, and the upload of the client
\* in the slot: big data always, a file if that client has begun one (see
\* BrokenFileGone).  And STSV_GetBigData reads all of it, unless a file was announced
\* since (the two share bigDataReadSize).
WholeWhenReady ==
  \A s \in Slot :
    /\ ready[s]["big"] => up[s]["big"].id > 0
    /\ \A k \in Kind : ready[s][k] /\ up[s][k].id > 0 /\ ~broken[s][k] =>
         ~InParts(up[s][k]) /\ temp[s][k] = Whole(up[s][k])
    /\ ready[s]["big"] /\ ~mixed[s] => readSize[s] = Len(Whole(up[s]["big"]))

\* The flag is cleared again, and every call of STSV_GetBigData returns.
GetReturns == \A s \in Slot : pc[s] = "spin" ~> pc[s] = "callback"

\* "Mutex for everything that a while waits for" (2.4.0): two clients never have
\* one buffer.
BufferExclusive ==
  \A s, t \in Slot : s # t /\ got[s] /\ got[t] => buffer[s] # buffer[t]

\* "Fix: if a file was sent and not received completely, the new connection breaks at
\* once" (2.3.3): the next client of the slot, who has sent no file, is not said to have
\* one that lacks a part.
BrokenFileGone == \A s \in Slot : ready[s]["file"] /\ broken[s]["file"] => up[s]["file"].id > 0
=============================================================================
