------------------------------ MODULE FileSend ------------------------------
(***************************************************************************)
(* A file of DBFILE sent to one client in parts (STSV_SendDBFile,          *)
(* _PackDataWithBigData, EndPackSendData).                                 *)
(*                                                                         *)
(* STSV_SendDBFile only sets fields of the client; the client's thread     *)
(* adds one part to the answer of each request until the file is sent.     *)
(* The thread holds m_Mutex while it packs, but STSV_SendDBFile does not   *)
(* take it: other threads set the fields between any two of its steps.     *)
(* Packets reach the client once and in order (ClientChannel), and a part  *)
(* is delivered when it is packed.  Sizes are counted in units.            *)
(***************************************************************************)
EXTENDS Integers, Sequences

CONSTANTS
  File, Size,    \* the files of DBFILE and their sizes
  Room,          \* the 60K that a packet may hold
  Word,          \* 2^32: sizes wrap around
  Own, Other,    \* the client's thread, in its callback, and the other callers
  None,
  MaxQueue,      \* bound: size of the messages packed before the file
  MaxCall,       \* bound: calls of STSV_SendDBFile
  MaxVanish,     \* bound: files removed
  MaxReuse       \* bound: clients that follow in the slot

\* No file comes near 4 GB: with what is too much in the queue it stays below.
ASSUME SizeAssumption ==
  /\ Word \in Nat /\ Room \in Nat \ {0} /\ Room < Word /\ MaxQueue \in Nat
  /\ Size \in [File -> Nat] /\ \A f \in File : Size[f] + MaxQueue < Word
ASSUME NameAssumption == None \notin File /\ Own \notin Other
ASSUME BoundAssumption == MaxCall \in Nat /\ MaxVanish \in Nat /\ MaxReuse \in Nat

Caller == {Own} \cup Other

VARIABLES
  oneTime,       \* s_nServerType = STSV_ONETIME_CONNECTION
  sending,       \* fileDataSending
  name,          \* fileSendName: a file, and if it has the prefix DBFILE/
  size, done,    \* bigDataSendSize, bigDataSendSizeDone
  sendDone,
  cpc, arg,      \* the callers: the next step, and the file to send
  pc,            \* the client's thread: its next step
  queue,         \* the size of the messages that it has packed
  opened,        \* the file that it has opened
  pkt,           \* the part of the file in the packet
  present,       \* the files that can be opened
  rx,            \* the client: the file it receives
  \* histories
  owed,          \* the callback has a file sent, and the client not all of it
  orphan,        \* the client got a part of a file that has not begun
  raced,         \* two calls of STSV_SendDBFile overlapped
  resized,       \* a call set the size between the two marks of the end
  overrun,       \* a part did not fit into the room
  nCall, nVanish, nReuse

fields == <<sending, name, size, done>>
callers == <<cpc, arg>>
thread == <<oneTime, sendDone, pc, queue, opened, pkt>>
histories == <<owed, orphan, raced, resized, overrun>>
counters == <<nCall, nVanish, nReuse>>
vars == <<fields, callers, thread, present, rx, histories, counters>>

Name(f, prefixed) == [file |-> f, prefixed |-> prefixed]
NoPart == [flags |-> {}, typed |-> FALSE, name |-> None, size |-> 0, data |-> <<>>]
NoFileYet == [file |-> None, size |-> 0, data |-> <<>>, ended |-> FALSE]

Init ==
  /\ oneTime \in BOOLEAN
  /\ sending = FALSE /\ name = Name(None, FALSE) /\ size = 0 /\ done = 0
  /\ sendDone = FALSE
  /\ cpc = [c \in Caller |-> "idle"] /\ arg = [c \in Caller |-> None]
  /\ pc = "poll" /\ queue = 0 /\ opened = None /\ pkt = NoPart
  /\ present = File /\ rx = NoFileYet
  /\ owed = FALSE /\ orphan = FALSE /\ raced = FALSE /\ resized = FALSE /\ overrun = FALSE
  /\ nCall = 0 /\ nVanish = 0 /\ nReuse = 0

----------------------------------------------------------------------------
(* STSV_SendDBFile, called by c.                                           *)

Goto(c, label) == cpc' = [cpc EXCEPT ![c] = label]
Calling(c) == cpc[c] # "idle"

\* The client's thread calls in the callback, the others at any time.
MayCall(c) == ~Calling(c) /\ nCall < MaxCall /\ (c = Own => pc = "callback")

\* Wrong: a file is begun in the middle of another.
CallAnyway(c, f) ==
  /\ MayCall(c) /\ nCall' = nCall + 1
  /\ Goto(c, "name") /\ arg' = [arg EXCEPT ![c] = f]
  /\ raced' = (raced \/ \E d \in Caller : Calling(d))
  /\ UNCHANGED <<fields, thread, present, rx, owed, orphan, resized, overrun, nVanish, nReuse>>

\* Ignored while a file is sent: "File Data Sending ignore it".
Call(c, f) ==
  /\ MayCall(c) /\ nCall' = nCall + 1
  /\ ~sending
  /\ Goto(c, "name") /\ arg' = [arg EXCEPT ![c] = f]
  /\ raced' = (raced \/ \E d \in Caller : Calling(d))
  /\ UNCHANGED <<fields, thread, present, rx, owed, orphan, resized, overrun, nVanish, nReuse>>

\* The path is built in fileSendName, and the file looked up there.
FindFile(c) ==
  /\ cpc[c] = "name"
  /\ name' = Name(arg[c], TRUE)
  /\ Goto(c, IF arg[c] \in present THEN "size" ELSE "absent")
  /\ UNCHANGED <<sending, size, done, arg, thread, present, rx, histories, counters>>

NoFile(c) ==
  /\ cpc[c] = "absent"
  /\ sending' = FALSE
  /\ Goto(c, "idle")
  /\ UNCHANGED <<name, size, done, arg, thread, present, rx, histories, counters>>

SetSize(c) ==
  /\ cpc[c] = "size"
  /\ size' = Size[arg[c]]
  /\ resized' = (resized \/ pc = "end")
  /\ Goto(c, "done")
  /\ UNCHANGED <<sending, name, done, arg, thread, present, rx, owed, orphan, raced, overrun,
                 counters>>

SetDone(c) ==
  /\ cpc[c] = "done"
  /\ done' = 0
  /\ Goto(c, "sending")
  /\ UNCHANGED <<sending, name, size, arg, thread, present, rx, histories, counters>>

SetSending(c) ==
  /\ cpc[c] = "sending"
  /\ sending' = TRUE
  /\ owed' = (owed \/ (c = Own /\ ~sendDone))
  /\ Goto(c, "plain")
  /\ UNCHANGED <<name, size, done, arg, thread, present, rx, orphan, raced, resized, overrun,
                 counters>>

\* Only now has the name no prefix.
SetName(c) ==
  /\ cpc[c] = "plain"
  /\ name' = Name(arg[c], FALSE)
  /\ Goto(c, "idle")
  /\ UNCHANGED <<sending, size, done, arg, thread, present, rx, histories, counters>>

CallStep(c) == \/ FindFile(c) \/ NoFile(c) \/ SetSize(c) \/ SetDone(c) \/ SetSending(c)
               \/ SetName(c)

----------------------------------------------------------------------------
(* The client.                                                             *)

\* A part marked HEADER begins a file, the others continue it.
Deliver(p) ==
  LET begins == p.typed /\ "HEADER" \in p.flags
      ended == "END" \in p.flags
  IN  /\ rx' = IF begins
               THEN [file |-> p.name, size |-> p.size, data |-> p.data, ended |-> ended]
               ELSE IF ~p.typed \/ rx.file = None THEN rx
               ELSE [rx EXCEPT !.data = @ \o p.data, !.ended = ended,
                               !.size = IF ended THEN p.size ELSE @]
      /\ orphan' = (orphan \/ (p.typed /\ ~begins /\ rx.file = None))
      /\ resized' = (resized /\ (ended \/ ~begins))

----------------------------------------------------------------------------
(* The client's thread: STSV_ClientThreadFuncAlway, EndPackSendData.       *)

Step(label) == pc' = label
ThreadOnly == UNCHANGED <<fields, callers, present, counters>>

\* A request; after sendDone it must bring big data or a file, or the server
\* of one-time connections hangs up.
Request ==
  /\ pc = "poll"
  /\ \/ Step("callback")
     \/ oneTime /\ sendDone /\ Step("ended")
  /\ ThreadOnly /\ UNCHANGED <<oneTime, sendDone, queue, opened, pkt, rx, histories>>

\* The client leaves, or sends nothing for STSV_IOTIMEOUT seconds.
Leave ==
  /\ pc = "poll" /\ Step("ended")
  /\ owed' = FALSE
  /\ ThreadOnly
  /\ UNCHANGED <<oneTime, sendDone, queue, opened, pkt, rx, orphan, raced, resized, overrun>>

\* Wrong: only messages hold back the confirmation.
TestQueue(q) ==
  /\ pc = "callback" /\ ~Calling(Own)
  /\ queue' = q
  /\ Step(IF q > 0 THEN "queue" ELSE "confirm")
  /\ ThreadOnly /\ UNCHANGED <<oneTime, sendDone, opened, pkt, rx, histories>>

\* The callback has returned and left messages of size q.
Test(q) ==
  /\ pc = "callback" /\ ~Calling(Own)
  /\ queue' = q
  /\ Step(IF q > 0 \/ sending THEN "queue" ELSE "confirm")
  /\ ThreadOnly /\ UNCHANGED <<oneTime, sendDone, opened, pkt, rx, histories>>

Confirm ==
  /\ pc = "confirm"
  /\ sendDone' = (sendDone \/ oneTime)
  /\ Step("poll")
  /\ ThreadOnly /\ UNCHANGED <<oneTime, queue, opened, pkt, rx, histories>>

\* m_Mutex is taken, the messages are packed, and fileDataSending read again.
PackQueue ==
  /\ pc = "queue"
  /\ Step(IF sending THEN "open" ELSE "poll")
  /\ ThreadOnly /\ UNCHANGED <<oneTime, sendDone, queue, opened, pkt, rx, histories>>

\* If the file cannot be opened the packet is sent without it.
Open ==
  /\ pc = "open"
  /\ IF name.file \in present /\ ~name.prefixed
     THEN Step("header") /\ opened' = name.file
     ELSE Step("poll") /\ opened' = opened
  /\ ThreadOnly /\ UNCHANGED <<oneTime, sendDone, queue, pkt, rx, histories>>

Header ==
  /\ pc = "header"
  /\ pkt' = [flags |-> IF done = 0 THEN {"HEADER"} ELSE {"CONTINUE"}, typed |-> sending,
             name |-> IF done = 0 /\ sending THEN name.file ELSE None,
             size |-> size, data |-> <<>>]
  /\ Step("part")
  /\ ThreadOnly /\ UNCHANGED <<oneTime, sendDone, queue, opened, rx, histories>>

\* The room is an int and may be negative; it is compared as unsigned.
RoomLeft == Room - queue
Rest == (size - done) % Word

\* Wrong: the room is compared as signed, a negative one is less than the rest.
FitsSigned == RoomLeft > Rest

Fits == RoomLeft % Word > Rest
Amount == IF Fits THEN Rest ELSE RoomLeft

\* The units of the file after the first n, at most k.
Units(f, n, k) ==
  LET m == IF n + k <= Size[f] THEN k ELSE Size[f] - n
  IN  [i \in 1 .. m |-> <<f, n + i>>]

\* Wrong: what is sent is not counted.
PartAgain ==
  /\ pc = "part"
  /\ LET p == [pkt EXCEPT !.data = Units(opened, done, Amount)] IN
     /\ pkt' = p
     /\ IF Amount = Rest THEN Step("clear") /\ UNCHANGED <<rx, orphan, resized>>
                         ELSE Step("poll") /\ Deliver(p)
  /\ done' = done
  /\ overrun' = (overrun \/ (RoomLeft < 0 /\ Amount > 0))
  /\ UNCHANGED <<sending, name, size, callers, oneTime, sendDone, queue, opened, present, owed,
                 raced, counters>>

Part ==
  /\ pc = "part"
  /\ done' = (done + Amount) % Word
  /\ LET p == [pkt EXCEPT !.data = Units(opened, done, Amount)] IN
     /\ pkt' = p
     /\ IF done' = size THEN Step("clear") /\ UNCHANGED <<rx, orphan, resized>>
                        ELSE Step("poll") /\ Deliver(p)
  /\ overrun' = (overrun \/ (RoomLeft < 0 /\ Amount > 0))
  /\ UNCHANGED <<sending, name, size, callers, oneTime, sendDone, queue, opened, present, owed,
                 raced, counters>>

\* The last part: the next call is let in ...
Clear ==
  /\ pc = "clear"
  /\ sending' = FALSE
  /\ Step("end")
  /\ UNCHANGED <<name, size, done, callers, oneTime, sendDone, queue, opened, pkt, present, rx,
                 histories, counters>>

\* ... and the size read again.
End ==
  /\ pc = "end"
  /\ Deliver([pkt EXCEPT !.flags = @ \cup {"END"}, !.size = size])
  /\ owed' = FALSE
  /\ Step("poll")
  /\ ThreadOnly /\ UNCHANGED <<oneTime, sendDone, queue, opened, pkt, raced, overrun>>

ThreadNext == \/ Request \/ Leave \/ (\E q \in 0 .. MaxQueue : Test(q)) \/ Confirm
              \/ PackQueue \/ Open \/ Header \/ Part \/ Clear \/ End

\* Wrong: the file goes on with the next client.
ReuseSending ==
  /\ pc = "ended" /\ nReuse < MaxReuse /\ nReuse' = nReuse + 1
  /\ Step("poll")
  /\ sendDone' = FALSE /\ rx' = NoFileYet /\ owed' = FALSE
  /\ UNCHANGED <<fields, callers, oneTime, queue, opened, pkt, present, orphan, raced, resized,
                 overrun, nCall, nVanish>>

\* AcceptConnection: the next client of the slot.
Reuse ==
  /\ pc = "ended" /\ nReuse < MaxReuse /\ nReuse' = nReuse + 1
  /\ Step("poll")
  /\ sending' = FALSE
  /\ sendDone' = FALSE /\ rx' = NoFileYet /\ owed' = FALSE
  /\ UNCHANGED <<name, size, done, callers, oneTime, queue, opened, pkt, present, orphan,
                 raced, resized, overrun, nCall, nVanish>>

\* A file of DBFILE is removed.
Vanish(f) ==
  /\ f \in present /\ nVanish < MaxVanish /\ nVanish' = nVanish + 1
  /\ present' = present \ {f}
  /\ UNCHANGED <<fields, callers, thread, rx, histories, nCall, nReuse>>

Next == \/ \E c \in Caller : (\E f \in File : Call(c, f)) \/ CallStep(c)
        \/ ThreadNext \/ Reuse
        \/ \E f \in File : Vanish(f)

Spec == Init /\ [][Next]_vars

\* The callers and the thread run on, the callback returns, and the client sends
\* requests or is disconnected.  The application does not fill the room with
\* messages each time.
FairSpec ==
  /\ Spec
  /\ \A c \in Caller : WF_vars(CallStep(c))
  /\ WF_vars(ThreadNext)
  /\ SF_vars(\E q \in 0 .. MaxQueue \ {Room} : Test(q))

----------------------------------------------------------------------------

Parts == [flags : SUBSET {"HEADER", "CONTINUE", "END"}, typed : BOOLEAN,
          name : File \cup {None}, size : 0 .. Word - 1, data : Seq(File \X Nat)]
Received == [file : File \cup {None}, size : 0 .. Word - 1, data : Seq(File \X Nat), ended : BOOLEAN]

FlagTypes ==
  /\ oneTime \in BOOLEAN /\ sending \in BOOLEAN /\ sendDone \in BOOLEAN
  /\ owed \in BOOLEAN /\ orphan \in BOOLEAN
  /\ raced \in BOOLEAN /\ resized \in BOOLEAN /\ overrun \in BOOLEAN
FieldTypes ==
  /\ name \in [file : File \cup {None}, prefixed : BOOLEAN]
  /\ size \in 0 .. Word - 1 /\ done \in 0 .. Word - 1
CallerTypes ==
  /\ cpc \in [Caller -> {"idle", "name", "absent", "size", "done", "sending", "plain"}]
  /\ arg \in [Caller -> File \cup {None}]
ThreadTypes ==
  /\ pc \in {"poll", "callback", "confirm", "queue", "open", "header", "part", "clear", "end",
             "ended"}
  /\ queue \in 0 .. MaxQueue /\ opened \in File \cup {None} /\ present \subseteq File
PacketTypes == pkt \in Parts /\ rx \in Received

\* Type correctness; and the part that is sent is within the size.
TypeOK ==
  /\ FlagTypes /\ FieldTypes /\ CallerTypes /\ ThreadTypes /\ PacketTypes
  /\ ~raced /\ sending => done <= size

\* What the client has of a file is a beginning of the file that was named, and
\* all of it when the last part says END; the size is right unless a call of
\* another thread comes in before END is written.
FileWhole ==
  ~raced /\ ~overrun /\ rx.file # None =>
    /\ rx.file \in File /\ rx.data = Units(rx.file, 0, Len(rx.data))
    /\ rx.ended => Len(rx.data) = Size[rx.file]
    /\ ~resized => rx.size = Size[rx.file]

\* "Fix: when a file was sent and not received whole, a new connection breaks at
\* once" (2.3.3): the first part of a file that a client gets begins a file.
FirstIsHeader == ~raced => ~orphan

\* A one-time connection is not marked done before the client has all of a file
\* that its callback had sent.
DoneMeansSent == ~raced /\ sendDone => ~owed

\* A file is sent to the end, unless the client leaves or the file is removed.
FileSent == sending ~> ~sending \/ pc = "ended" \/ present # File \/ raced
=============================================================================
