---------------------------- MODULE FileSendProofs ----------------------------
(***************************************************************************)
(* What FileSend keeps for files of any size, any number of callers and    *)
(* any room, while the calls of STSV_SendDBFile do not overlap: the client *)
(* gets each file whole, and its parts begin with a header.                *)
(***************************************************************************)
EXTENDS FileSend, SequenceTheorems, TLAPS

----------------------------------------------------------------------------
(* The invariant.                                                          *)

Busy == {"header", "part", "clear"}

\* The first k units of f.
Begun(f, k) == Units(f, 0, k)

Alone == \A c, d \in Caller : Calling(c) /\ Calling(d) => c = d

\* What a call has done of its steps.
CallInv ==
  \A c \in Caller :
    /\ Calling(c) => arg[c] \in File /\ pc \notin Busy
    /\ cpc[c] \notin {"idle", "plain"} => ~sending
    /\ cpc[c] \notin {"idle", "name"} => name = Name(arg[c], TRUE)
    /\ cpc[c] \in {"done", "sending", "plain"} => size = Size[arg[c]]
    /\ cpc[c] \in {"sending", "plain"} => done = 0
    /\ c = Own /\ Calling(c) => pc = "callback"

\* The fields of a file that is sent, and what the client has of it.
SendInv ==
  /\ pc \in {"open"} \cup Busy => sending
  /\ pc \in Busy => name = Name(opened, FALSE)
  /\ sending => /\ name.file \in File /\ size = Size[name.file] /\ done <= size
                /\ done # 0 /\ pc # "clear" =>
                     rx.file # None /\ rx.file = name.file /\ rx.data = Begun(name.file, done)
  /\ pc = "end" /\ sending => done = 0

\* The packet before it is sent; its last part completes the file.
PartInv ==
  pc = "part" => /\ pkt.typed /\ pkt.size = size
                 /\ done = 0 => pkt.flags = {"HEADER"} /\ pkt.name = opened
                 /\ done # 0 => pkt.flags = {"CONTINUE"}
LastInv ==
  pc \in {"clear", "end"} =>
    /\ pkt.typed /\ (~resized => size = Size[opened])
    /\ \/ /\ "HEADER" \in pkt.flags /\ pkt.name = opened
          /\ pkt.data = Begun(opened, Size[opened])
       \/ /\ "HEADER" \notin pkt.flags /\ rx.file # None /\ rx.file = opened
          /\ \E k \in 0 .. Size[opened] : /\ rx.data = Begun(opened, k)
                                          /\ pkt.data = Units(opened, k, Size[opened] - k)

ClientInv ==
  rx.file # None =>
    /\ rx.file \in File
    /\ \E k \in 0 .. Size[rx.file] : /\ rx.data = Begun(rx.file, k)
                                     /\ rx.ended => k = Size[rx.file]
    /\ ~resized => rx.size = Size[rx.file]

OwedInv == owed => (sending \/ pc = "end") /\ ~sendDone /\ pc # "confirm"

Quiet == /\ Alone /\ CallInv /\ SendInv /\ PartInv /\ LastInv /\ ClientInv /\ OwedInv
         /\ ~orphan

OpenInv == pc \in Busy \cup {"end"} => opened \in File

FileInv == OpenInv /\ (~raced => Quiet)

----------------------------------------------------------------------------
(* Sizes and units.                                                        *)

LEMMA Unwrapped == ASSUME NEW x \in 0 .. Word - 1 PROVE x % Word = x
BY SizeAssumption

LEMMA Wrapped == ASSUME NEW x \in Int, x < 0, x + Word > 0 PROVE x % Word = x + Word
BY SizeAssumption

\* A negative room is more than any rest, a room that is not negative no more
\* than a rest that does not fit.
LEMMA AmountWithinRest ==
  ASSUME NEW f \in File, size = Size[f], done \in 0 .. size, queue \in 0 .. MaxQueue
  PROVE  Rest = size - done /\ Amount \in 0 .. Rest
<1> USE SizeAssumption
<1>1. Size[f] \in Nat /\ Size[f] + MaxQueue < Word
  OBVIOUS
<1>2. size - done \in 0 .. Word - 1
  BY <1>1
<1>3. Rest = size - done
  BY <1>2, Unwrapped DEF Rest
<1>4. RoomLeft \in Int /\ RoomLeft + Word > size - done /\ RoomLeft < Word
  BY <1>1 DEF RoomLeft
<1>5. CASE RoomLeft < 0
  <2>0. RoomLeft + Word > 0
    BY <1>2, <1>4
  <2>1. RoomLeft % Word = RoomLeft + Word
    BY <1>4, <1>5, <2>0, Wrapped
  <2> QED
    BY <1>2, <1>3, <1>4, <2>1 DEF Amount, Fits
<1>6. CASE RoomLeft >= 0
  <2>1. RoomLeft % Word = RoomLeft
    BY <1>4, <1>6, Unwrapped
  <2> QED
    BY <1>2, <1>3, <1>4, <1>6, <2>1 DEF Amount, Fits
<1> QED
  BY <1>4, <1>5, <1>6

LEMMA UnitsAreData ==
  ASSUME NEW f \in File, NEW n \in Nat, NEW k \in Int
  PROVE  Units(f, n, k) \in Seq(File \X Nat)
<1> DEFINE m == IF n + k <= Size[f] THEN k ELSE Size[f] - n
<1>1. m \in Int
  BY SizeAssumption
<1>2. Units(f, n, k) = [i \in 1 .. m |-> <<f, n + i>>]
  BY DEF Units
<1> HIDE DEF m
<1>3. PICK l \in Nat : 1 .. m = 1 .. l
  <2>1. CASE m \in Nat
    BY <2>1
  <2>2. CASE m < 0
    <3>1. 1 .. m = 1 .. 0
      BY <1>1, <2>2
    <3> QED
      BY <3>1
  <2> QED
    BY <1>1, <2>1, <2>2
<1>4. [i \in 1 .. l |-> <<f, n + i>>] \in [1 .. l -> File \X Nat]
  OBVIOUS
<1>5. [i \in 1 .. l |-> <<f, n + i>>] \in Seq(File \X Nat)
  BY <1>4
<1> QED
  BY <1>2, <1>3, <1>5

LEMMA UnitsWithin ==
  ASSUME NEW f \in File, NEW n \in 0 .. Size[f], NEW k \in 0 .. Size[f] - n
  PROVE  /\ Units(f, n, k) = [i \in 1 .. k |-> <<f, n + i>>]
         /\ Units(f, n, k) \in Seq(File \X Nat) /\ Len(Units(f, n, k)) = k
<1>1. Size[f] \in Nat /\ n \in Nat /\ k \in Nat /\ n + k <= Size[f]
  BY SizeAssumption
<1>2. Units(f, n, k) = [i \in 1 .. k |-> <<f, n + i>>]
  BY <1>1 DEF Units
<1>3. Units(f, n, k) \in Seq(File \X Nat)
  BY <1>1, UnitsAreData
<1> QED
  BY <1>1, <1>2, <1>3

\* A part continues what was sent.
LEMMA PartContinues ==
  ASSUME NEW f \in File, NEW n \in 0 .. Size[f], NEW k \in 0 .. Size[f] - n
  PROVE  Begun(f, n) \o Units(f, n, k) = Begun(f, n + k)
<1>1. Size[f] \in Nat /\ n \in Nat /\ k \in Nat /\ n + k \in 0 .. Size[f]
  BY SizeAssumption
<1>8. 0 \in 0 .. Size[f] /\ n \in 0 .. Size[f] - 0 /\ n + k \in 0 .. Size[f] - 0
  BY <1>1
<1> DEFINE b == Begun(f, n)
           u == Units(f, n, k)
           w == Begun(f, n + k)
<1>2. b = [i \in 1 .. n |-> <<f, 0 + i>>] /\ b \in Seq(File \X Nat) /\ Len(b) = n
  BY <1>8, UnitsWithin DEF Begun
<1>3. u = [i \in 1 .. k |-> <<f, n + i>>] /\ u \in Seq(File \X Nat) /\ Len(u) = k
  BY <1>1, UnitsWithin
<1>4. w = [i \in 1 .. n + k |-> <<f, 0 + i>>] /\ w \in Seq(File \X Nat) /\ Len(w) = n + k
  BY <1>8, UnitsWithin DEF Begun
<1> HIDE DEF b, u, w
<1>5. b \o u \in Seq(File \X Nat) /\ Len(b \o u) = Len(w)
  BY <1>1, <1>2, <1>3, <1>4
<1>6. ASSUME NEW i \in 1 .. Len(w) PROVE (b \o u)[i] = w[i]
  <2>1. CASE i <= n
    BY <1>1, <1>2, <1>3, <1>4, <2>1
  <2>2. CASE i > n
    <3>1. (b \o u)[i] = u[i - n] /\ i - n \in 1 .. k
      BY <1>1, <1>2, <1>3, <1>4, <2>2
    <3>2. u[i - n] = <<f, n + (i - n)>>
      BY <1>3, <3>1
    <3>3. n + (i - n) = 0 + i /\ i \in 1 .. n + k
      BY <1>1, <1>4
    <3> QED
      BY <1>4, <3>1, <3>2, <3>3
  <2>3. i \in Int
    OBVIOUS
  <2>4. i <= n \/ i > n
    BY <1>1, <2>3
  <2> QED
    BY <2>1, <2>2, <2>4
<1>7. b \o u = w
  BY <1>4, <1>5, <1>6, SeqEqual
<1> QED
  BY <1>7 DEF b, u, w

LEMMA NothingBegun == ASSUME NEW f \in File PROVE Begun(f, 0) = <<>>
BY SizeAssumption, UnitsWithin DEF Begun

----------------------------------------------------------------------------
(* Types.                                                                  *)

Types == /\ FlagTypes /\ FieldTypes /\ CallerTypes /\ ThreadTypes /\ PacketTypes
         /\ OpenInv /\ \A c \in Caller : Calling(c) => arg[c] \in File

Calls == \E c \in Caller : (\E f \in File : Call(c, f)) \/ CallStep(c)
Tests == \E q \in 0 .. MaxQueue : Test(q)
Quick == Request \/ Leave \/ Confirm \/ PackQueue \/ Open
Others == Reuse \/ \E f \in File : Vanish(f)

LEMMA NextIsStep == Next => Calls \/ Tests \/ Quick \/ Header \/ Part \/ Clear \/ End \/ Others
BY DEF Next, ThreadNext, Calls, Tests, Quick, Others

LEMMA NoFileTypes == NoFileYet \in Received
BY SizeAssumption DEF NoFileYet, Received

LEMMA InitTypes == Init => Types
<1> SUFFICES ASSUME Init PROVE Types
  OBVIOUS
<1> USE SizeAssumption DEF Init
<1>1. FlagTypes
  BY DEF FlagTypes
<1>2. FieldTypes
  <2>1. size \in 0 .. Word - 1 /\ done \in 0 .. Word - 1
    OBVIOUS
  <2>2. name \in [file : File \cup {None}, prefixed : BOOLEAN]
    BY DEF Name
  <2> QED
    BY <2>1, <2>2 DEF FieldTypes
<1>3. CallerTypes /\ \A c \in Caller : ~Calling(c)
  BY DEF CallerTypes, Calling
<1>4. ThreadTypes /\ OpenInv
  BY DEF ThreadTypes, OpenInv, Busy
<1>5. PacketTypes
  BY DEF PacketTypes, Parts, NoPart, Received, NoFileYet
<1> QED
  BY <1>1, <1>2, <1>3, <1>4, <1>5 DEF Types

LEMMA NameTypes ==
  ASSUME NEW f \in File \cup {None}, NEW b \in BOOLEAN
  PROVE  Name(f, b) \in [file : File \cup {None}, prefixed : BOOLEAN]
BY DEF Name

LEMMA CallsTypes == ASSUME Types, Calls PROVE Types'
<1> USE SizeAssumption DEF Types
<1>1. FlagTypes'
  BY DEF FlagTypes, Calls, Call, CallStep, FindFile, NoFile, SetSize, SetDone, SetSending, SetName,
         fields, thread, histories
<1>2. FieldTypes'
  <2>1. ASSUME NEW c \in Caller, SetSize(c) PROVE FieldTypes'
    <3>1. arg[c] \in File
      BY <2>1 DEF SetSize, Calling
    <3>2. size' \in 0 .. Word - 1
      BY <2>1, <3>1 DEF SetSize
    <3> QED
      BY <2>1, <3>2 DEF SetSize, FieldTypes
  <2>2. ASSUME NEW c \in Caller, SetDone(c) PROVE FieldTypes'
    BY <2>2 DEF SetDone, FieldTypes
  <2>3. ASSUME NEW c \in Caller, FindFile(c) \/ SetName(c) PROVE FieldTypes'
    <3>2. arg[c] \in File \cup {None}
      BY DEF CallerTypes
    <3>1. name' \in [file : File \cup {None}, prefixed : BOOLEAN]
      <4>1. PICK b \in BOOLEAN : name' = Name(arg[c], b)
        BY <2>3 DEF FindFile, SetName
      <4> QED
        BY <3>2, <4>1, NameTypes
    <3> QED
      BY <2>3, <3>1 DEF FindFile, SetName, FieldTypes
  <2>4. ASSUME NEW c \in Caller, (\E f \in File : Call(c, f)) \/ NoFile(c) \/ SetSending(c)
        PROVE  FieldTypes'
    BY <2>4 DEF Call, NoFile, SetSending, FieldTypes, fields
  <2> QED
    BY <2>1, <2>2, <2>3, <2>4 DEF Calls, CallStep
<1>3. CallerTypes' /\ \A c \in Caller : Calling(c)' => arg'[c] \in File
  <2> USE DEF CallerTypes, Calling, Goto
  <2>1. ASSUME NEW c \in Caller, NEW f \in File, Call(c, f)
        PROVE  CallerTypes' /\ \A d \in Caller : Calling(d)' => arg'[d] \in File
    BY <2>1 DEF Call
  <2>2. ASSUME NEW c \in Caller, CallStep(c)
        PROVE  CallerTypes' /\ \A d \in Caller : Calling(d)' => arg'[d] \in File
    <3>1. arg' = arg /\ cpc[c] # "idle"
      BY <2>2 DEF CallStep, FindFile, NoFile, SetSize, SetDone, SetSending, SetName
    <3>2. PICK label \in {"idle", "absent", "size", "done", "sending", "plain"} :
            cpc' = [cpc EXCEPT ![c] = label]
      BY <2>2 DEF CallStep, FindFile, NoFile, SetSize, SetDone, SetSending, SetName
    <3> QED
      BY <3>1, <3>2
  <2> QED
    BY <2>1, <2>2 DEF Calls
<1>4. ThreadTypes' /\ OpenInv' /\ PacketTypes'
  BY DEF ThreadTypes, OpenInv, PacketTypes, Calls, Call, CallStep, FindFile, NoFile, SetSize,
         SetDone, SetSending, SetName, thread
<1> QED
  BY <1>1, <1>2, <1>3, <1>4

LEMMA QuickTypes == ASSUME Types, Tests \/ Quick \/ Others PROVE Types'
<1> USE DEF Types, ThreadOnly, fields, callers, thread, histories
<1>1. FlagTypes'
  <2>1. CASE Tests \/ Request \/ Leave \/ Confirm
    BY <2>1 DEF FlagTypes, Tests, Test, Request, Leave, Confirm
  <2>2. CASE PackQueue \/ Open
    BY <2>2 DEF FlagTypes, PackQueue, Open
  <2>3. CASE Others
    BY <2>3 DEF FlagTypes, Others, Reuse, Vanish
  <2> QED
    BY <2>1, <2>2, <2>3 DEF Quick
<1>2. FieldTypes' /\ CallerTypes' /\ \A c \in Caller : Calling(c)' => arg'[c] \in File
  BY DEF FieldTypes, CallerTypes, Calling, Tests, Test, Quick, Request, Leave, Confirm, PackQueue,
         Open, Others, Reuse, Vanish
<1>3. ThreadTypes' /\ OpenInv'
  BY DEF ThreadTypes, OpenInv, Busy, Step, Tests, Test, Quick, Request, Leave, Confirm, PackQueue,
         Open, Others, Reuse, Vanish
<1>4. PacketTypes'
  BY NoFileTypes
     DEF PacketTypes, Tests, Test, Quick, Request, Leave, Confirm, PackQueue, Open, Others, Reuse,
         Vanish
<1> QED
  BY <1>1, <1>2, <1>3, <1>4

LEMMA ReceivedTypes ==
  ASSUME NEW q \in Received, NEW d \in Seq(File \X Nat), NEW z \in 0 .. Word - 1,
         NEW b \in BOOLEAN
  PROVE  [q EXCEPT !.data = d, !.ended = b, !.size = z] \in Received
BY DEF Received

\* What is delivered is a part.
LEMMA DeliverTypes ==
  ASSUME rx \in Received, NEW p \in Parts, Deliver(p),
         orphan \in BOOLEAN, resized \in BOOLEAN
  PROVE  rx' \in Received /\ orphan' \in BOOLEAN /\ resized' \in BOOLEAN
<1>1. orphan' \in BOOLEAN /\ resized' \in BOOLEAN
  BY DEF Deliver
<1>2. CASE p.typed /\ "HEADER" \in p.flags
  BY <1>2 DEF Deliver, Received, Parts
<1>3. CASE ~(p.typed /\ "HEADER" \in p.flags) /\ (~p.typed \/ rx.file = None)
  BY <1>3 DEF Deliver
<1>4. CASE ~(p.typed /\ "HEADER" \in p.flags) /\ p.typed /\ rx.file # None
  <2> DEFINE z == IF "END" \in p.flags THEN p.size ELSE rx.size
             d == rx.data \o p.data
             b == "END" \in p.flags
  <2>1. rx' = [rx EXCEPT !.data = d, !.ended = b, !.size = z]
    BY <1>4 DEF Deliver
  <2>2. rx \in Received
    OBVIOUS
  <2>3. d \in Seq(File \X Nat) /\ z \in 0 .. Word - 1
    BY <2>2 DEF Received, Parts
  <2>5. b \in BOOLEAN
    OBVIOUS
  <2> HIDE DEF z, d, b
  <2>4. rx' \in Received
    BY <2>1, <2>2, <2>3, <2>5, ReceivedTypes
  <2> QED
    BY <1>1, <2>4
<1> QED
  BY <1>1, <1>2, <1>3, <1>4

LEMMA PartTypes ==
  ASSUME NEW fl \in SUBSET {"HEADER", "CONTINUE", "END"}, NEW b \in BOOLEAN,
         NEW f \in File \cup {None}, NEW z \in 0 .. Word - 1, NEW d \in Seq(File \X Nat)
  PROVE  [flags |-> fl, typed |-> b, name |-> f, size |-> z, data |-> d] \in Parts
BY DEF Parts

LEMMA HeaderTypes == ASSUME Types, Header PROVE Types'
<1> USE DEF Types, ThreadOnly, fields, callers, thread, histories
<1>1. FlagTypes' /\ FieldTypes' /\ CallerTypes' /\ \A c \in Caller : Calling(c)' => arg'[c] \in File
  BY DEF FlagTypes, FieldTypes, CallerTypes, Calling, Header
<1>2. ThreadTypes' /\ OpenInv'
  BY DEF ThreadTypes, OpenInv, Busy, Step, Header
<1>3. pkt' \in Parts
  <2>1. name.file \in File \cup {None} /\ size \in 0 .. Word - 1 /\ sending \in BOOLEAN
    BY DEF FieldTypes, FlagTypes
  <2>2. PICK fl \in SUBSET {"HEADER", "CONTINUE", "END"}, f \in File \cup {None} :
          pkt' = [flags |-> fl, typed |-> sending, name |-> f, size |-> size, data |-> <<>>]
    BY <2>1 DEF Header
  <2>3. <<>> \in Seq(File \X Nat)
    OBVIOUS
  <2> QED
    BY <2>1, <2>2, <2>3, PartTypes
<1> QED
  BY <1>1, <1>2, <1>3 DEF PacketTypes, Header

\* The packet gets other data, or another mark and size.
LEMMA PktTypes ==
  ASSUME NEW q \in Parts, NEW d \in Seq(File \X Nat), NEW z \in 0 .. Word - 1
  PROVE  /\ [q EXCEPT !.data = d] \in Parts
         /\ [q EXCEPT !.flags = @ \cup {"END"}, !.size = z] \in Parts
BY DEF Parts

LEMMA PartStepTypes == ASSUME Types, Part PROVE Types'
<1> USE SizeAssumption DEF Types
<1> DEFINE p == [pkt EXCEPT !.data = Units(opened, done, Amount)]
<1>1. CallerTypes' /\ \A c \in Caller : Calling(c)' => arg'[c] \in File
  BY DEF CallerTypes, Calling, Part, callers
<1>2. ThreadTypes' /\ OpenInv'
  BY DEF ThreadTypes, OpenInv, Busy, Step, Part
<1>3. opened \in File /\ done \in Nat
  BY DEF OpenInv, Busy, Part, FieldTypes
<1>4. Rest \in Int /\ RoomLeft \in Int /\ Amount \in Int
  BY DEF Rest, RoomLeft, Amount, FieldTypes, ThreadTypes
<1>5. FieldTypes'
  <2>1. done' \in 0 .. Word - 1
    BY <1>3, <1>4 DEF Part
  <2> QED
    BY <2>1 DEF FieldTypes, Part
<1>6. p \in Parts /\ pkt' = p
  BY <1>3, <1>4, UnitsAreData, PktTypes DEF Part, FieldTypes, PacketTypes
<1>7. (rx' = rx /\ orphan' = orphan /\ resized' = resized) \/ Deliver(p)
  BY DEF Part
<1>8. rx' \in Received /\ orphan' \in BOOLEAN /\ resized' \in BOOLEAN
  BY <1>6, <1>7, DeliverTypes DEF PacketTypes, FlagTypes
<1>9. FlagTypes'
  BY <1>8 DEF FlagTypes, Part
<1> QED
  BY <1>1, <1>2, <1>5, <1>6, <1>8, <1>9 DEF PacketTypes

LEMMA EndTypes == ASSUME Types, Clear \/ End PROVE Types'
<1> USE DEF Types, ThreadOnly, fields, callers
<1>1. FieldTypes' /\ CallerTypes' /\ \A c \in Caller : Calling(c)' => arg'[c] \in File
  BY DEF FieldTypes, CallerTypes, Calling, Clear, End
<1>2. ThreadTypes' /\ OpenInv'
  BY DEF ThreadTypes, OpenInv, Busy, Step, Clear, End
<1>3. CASE Clear
  BY <1>1, <1>2, <1>3 DEF Clear, FlagTypes, PacketTypes, histories
<1>4. CASE End
  <2>1. [pkt EXCEPT !.flags = @ \cup {"END"}, !.size = size] \in Parts
    BY PktTypes DEF PacketTypes, FieldTypes, Parts
  <2>2. rx' \in Received /\ orphan' \in BOOLEAN /\ resized' \in BOOLEAN
    BY <1>4, <2>1, DeliverTypes DEF PacketTypes, FlagTypes, End
  <2> QED
    BY <1>1, <1>2, <1>4, <2>2 DEF End, FlagTypes, PacketTypes
<1> QED
  BY <1>3, <1>4

LEMMA NextTypes == Types /\ [Next]_vars => Types'
<1>1. Types /\ UNCHANGED vars => Types'
  BY DEF vars, fields, callers, thread, histories, Types, FlagTypes, FieldTypes, CallerTypes,
         ThreadTypes, PacketTypes, OpenInv, Calling
<1> QED
  BY <1>1, NextIsStep, CallsTypes, QuickTypes, HeaderTypes, PartStepTypes, EndTypes

LEMMA TypesCorrect == Spec => []Types
BY InitTypes, NextTypes, PTL DEF Spec

----------------------------------------------------------------------------
(* The calls.                                                              *)

LEMMA InitQuiet == Init => Quiet
<1> SUFFICES ASSUME Init PROVE Quiet
  OBVIOUS
<1>1. \A c \in Caller : cpc[c] = "idle" /\ ~Calling(c)
  BY DEF Init, Calling
<1>2. Alone /\ CallInv
  BY <1>1 DEF Init, Alone, CallInv, Calling
<1>3. SendInv /\ PartInv /\ LastInv
  BY DEF Init, SendInv, PartInv, LastInv, Busy
<1>4. ClientInv /\ OwedInv /\ ~orphan
  BY DEF Init, ClientInv, OwedInv, NoFileYet
<1> QED
  BY <1>2, <1>3, <1>4 DEF Quiet

\* Two calls do not overlap.
LEMMA AloneKept == ASSUME Types, Alone, Next, ~raced' PROVE Alone'
<1> USE DEF Alone, Calling, Types, CallerTypes
<1>1. ASSUME NEW c \in Caller, NEW f \in File, Call(c, f) PROVE Alone'
  BY <1>1 DEF Call, Goto
<1>2. ASSUME NEW c \in Caller, CallStep(c) PROVE Alone'
  BY <1>2 DEF CallStep, FindFile, NoFile, SetSize, SetDone, SetSending, SetName, Goto
<1>3. CASE cpc' = cpc
  BY <1>3
<1>4. CASE ~Calls
  BY <1>3, <1>4, NextIsStep
     DEF Calls, Tests, Test, Quick, Request, Leave, Confirm, PackQueue, Open, Header, Part, Clear,
         End, Others, Reuse, Vanish, ThreadOnly, callers
<1> QED
  BY <1>1, <1>2, <1>4 DEF Calls

\* A call that begins, and each of its steps, while no other is under way.
LEMMA CallKeepsCalls ==
  ASSUME Types, Quiet, ~raced', NEW c \in Caller, (\E f \in File : Call(c, f)) \/ CallStep(c)
  PROVE  CallInv'
<1> USE DEF Types, CallerTypes, Goto
<1>1. \A d \in Caller \ {c} : cpc[d] = "idle" /\ cpc'[d] = "idle"
  BY DEF Quiet, Alone, Calling, Call, CallStep, FindFile, NoFile, SetSize, SetDone, SetSending,
         SetName
<1>2. ASSUME NEW f \in File, Call(c, f) PROVE CallInv'
  <2>1. pc \notin Busy /\ (c = Own => pc = "callback")
    BY <1>2 DEF Call, MayCall, Quiet, SendInv
  <2> QED
    BY <1>1, <1>2, <2>1 DEF Call, CallInv, Calling, fields, thread
<1>3. CASE FindFile(c)
  BY <1>1, <1>3 DEF FindFile, Quiet, CallInv, Calling, thread
<1>4. CASE NoFile(c)
  <2>1. \A d \in Caller : cpc'[d] = "idle"
    BY <1>1, <1>4 DEF NoFile
  <2> QED
    BY <2>1 DEF CallInv, Calling
<1>5. CASE SetSize(c)
  BY <1>1, <1>5 DEF SetSize, Quiet, CallInv, Calling, thread
<1>6. CASE SetDone(c)
  BY <1>1, <1>6 DEF SetDone, Quiet, CallInv, Calling, thread
<1>7. CASE SetSending(c)
  BY <1>1, <1>7 DEF SetSending, Quiet, CallInv, Calling, thread
<1>8. CASE SetName(c)
  <2>1. \A d \in Caller : cpc'[d] = "idle"
    BY <1>1, <1>8 DEF SetName
  <2> QED
    BY <2>1 DEF CallInv, Calling
<1> QED
  BY <1>2, <1>3, <1>4, <1>5, <1>6, <1>7, <1>8 DEF CallStep

\* While the thread packs the file nobody is calling.
LEMMA NobodyCalls ==
  ASSUME Types, Quiet, pc \in Busy \/ (Open /\ pc' = "header")
  PROVE  \A c \in Caller : cpc[c] = "idle"
<1>1. CASE pc \in Busy
  BY <1>1 DEF Quiet, CallInv, Calling
<1>2. CASE Open /\ pc' = "header"
  <2>1. sending /\ ~name.prefixed
    BY <1>2 DEF Open, Step, Quiet, SendInv
  <2>2. ASSUME NEW c \in Caller PROVE cpc[c] = "idle"
    <3>1. name # Name(arg[c], TRUE)
      BY <2>1 DEF Name
    <3> QED
      BY <2>1, <3>1 DEF Quiet, CallInv
  <2> QED
    BY <2>2
<1> QED
  BY <1>1, <1>2

LEMMA ThreadKeepsCalls ==
  ASSUME Types, Quiet, Tests \/ Quick \/ Header \/ Part \/ Clear \/ End \/ Others
  PROVE  CallInv'
<1> USE DEF Quiet, CallInv, Calling, ThreadOnly, fields, callers, Step, Busy
<1>1. CASE Tests
  <2>1. /\ cpc[Own] = "idle" /\ pc' \in {"queue", "confirm"}
        /\ UNCHANGED <<cpc, arg, name, size, done, sending>>
    BY <1>1 DEF Tests, Test
  <2> QED
    BY <2>1
<1>2. CASE Request \/ Leave \/ Confirm \/ PackQueue
  BY <1>2 DEF Request, Leave, Confirm, PackQueue
<1>3. CASE Open /\ pc' # "header"
  BY <1>3 DEF Open
<1>4. CASE (Open /\ pc' = "header") \/ Header \/ Part \/ Clear
  <2>1. \A c \in Caller : cpc[c] = "idle" /\ cpc'[c] = "idle"
    BY <1>4, NobodyCalls DEF Open, Header, Part, Clear
  <2> QED
    BY <2>1
<1>5. CASE End
  BY <1>5 DEF End
<1>6. CASE Others
  BY <1>6 DEF Others, Reuse, Vanish, thread
<1> QED
  BY <1>1, <1>2, <1>3, <1>4, <1>5, <1>6 DEF Quick

LEMMA CallInvKept == ASSUME Types, Quiet, ~raced', Next PROVE CallInv'
BY NextIsStep, CallKeepsCalls, ThreadKeepsCalls DEF Calls

----------------------------------------------------------------------------
(* The parts.                                                              *)

\* The calls change the fields while nothing is sent.
LEMMA CallsKeepSend ==
  ASSUME Types, Quiet, NEW c \in Caller, (\E f \in File : Call(c, f)) \/ CallStep(c)
  PROVE  SendInv'
<1> USE DEF Quiet, CallInv, Calling, SendInv, Busy, thread, fields
<1>1. ASSUME NEW f \in File, Call(c, f) PROVE SendInv'
  BY <1>1 DEF Call
<1>2. CASE FindFile(c)
  BY <1>2 DEF FindFile
<1>3. CASE NoFile(c)
  BY <1>3 DEF NoFile
<1>4. CASE SetSize(c)
  BY <1>4 DEF SetSize
<1>5. CASE SetDone(c)
  BY <1>5 DEF SetDone
<1>6. CASE SetSending(c)
  <2>1. /\ arg[c] \in File /\ name = Name(arg[c], TRUE) /\ size = Size[arg[c]] /\ done = 0
        /\ pc \notin Busy \cup {"open"}
    BY <1>6 DEF SetSending
  <2>2. name.file \in File /\ size = Size[name.file] /\ done <= size
    BY <2>1, SizeAssumption DEF Name
  <2> QED
    BY <1>6, <2>1, <2>2 DEF SetSending
<1>7. CASE SetName(c)
  <2>1. name.file = arg[c] /\ name'.file = arg[c] /\ pc \notin Busy
    BY <1>7 DEF SetName, Name
  <2> QED
    BY <1>7, <2>1 DEF SetName
<1> QED
  BY <1>1, <1>2, <1>3, <1>4, <1>5, <1>6, <1>7 DEF CallStep

\* What the client has after a part.
LEMMA PartDelivers ==
  ASSUME Types, Quiet, Part
  PROVE  /\ opened \in File /\ opened = name.file /\ size = Size[opened]
         /\ done \in 0 .. size /\ Amount \in 0 .. size - done /\ done' = done + Amount
         /\ pkt.typed /\ pkt.size = size
         /\ done = 0 => pkt.flags = {"HEADER"} /\ pkt.name = opened
         /\ done # 0 => /\ pkt.flags = {"CONTINUE"} /\ rx.file # None /\ rx.file = opened
                        /\ rx.data = Begun(opened, done)
         /\ pkt' = [pkt EXCEPT !.data = Units(opened, done, Amount)]
<1>1. pc = "part"
  BY DEF Part
<1>2. opened \in File /\ sending /\ name = Name(opened, FALSE)
  BY <1>1 DEF Types, OpenInv, Quiet, SendInv, Busy
<1>3. opened = name.file
  BY <1>2 DEF Name
<1>4. size = Size[opened] /\ done <= size
  BY <1>2, <1>3 DEF Quiet, SendInv
<1>5. done \in 0 .. size
  BY <1>2, <1>4, SizeAssumption DEF Types, FieldTypes
<1>6. Rest = size - done /\ Amount \in 0 .. Rest
  BY <1>2, <1>4, <1>5, AmountWithinRest DEF Types, ThreadTypes
<1>7. done + Amount \in 0 .. Word - 1
  BY <1>2, <1>4, <1>5, <1>6, SizeAssumption
<1>8. done' = done + Amount
  BY <1>7, Unwrapped DEF Part
<1>9. done # 0 => rx.file # None /\ rx.file = opened /\ rx.data = Begun(opened, done)
  BY <1>1, <1>2, <1>3 DEF Quiet, SendInv
<1>10. pkt.typed /\ pkt.size = size
       /\ (done = 0 => pkt.flags = {"HEADER"} /\ pkt.name = opened)
       /\ (done # 0 => pkt.flags = {"CONTINUE"})
  BY <1>1 DEF Quiet, PartInv
<1>11. pkt' = [pkt EXCEPT !.data = Units(opened, done, Amount)]
  BY DEF Part
<1> QED
  BY <1>2, <1>3, <1>4, <1>5, <1>6, <1>8, <1>9, <1>10, <1>11

\* What the client makes of a part that begins a file, and of one that does not.
LEMMA DeliverBegins ==
  ASSUME NEW p, Deliver(p), p.typed, "HEADER" \in p.flags, Types
  PROVE  /\ rx'.file = p.name /\ rx'.size = p.size /\ rx'.data = p.data
         /\ rx'.ended <=> "END" \in p.flags
         /\ orphan' <=> orphan
         /\ resized' <=> resized /\ "END" \in p.flags
<1> DEFINE b == "END" \in p.flags
<1>1. rx' = [file |-> p.name, size |-> p.size, data |-> p.data, ended |-> b]
  BY DEF Deliver
<1>2. (orphan' <=> orphan) /\ (resized' <=> resized /\ "END" \in p.flags)
  BY DEF Deliver, Types, FlagTypes
<1>3. rx'.ended = b
  BY <1>1
<1> HIDE DEF b
<1>4. rx'.file = p.name /\ rx'.size = p.size /\ rx'.data = p.data
  BY <1>1
<1> QED
  BY <1>2, <1>3, <1>4 DEF b

LEMMA DeliverContinues ==
  ASSUME NEW p, Deliver(p), p.typed, "HEADER" \notin p.flags, Types, rx.file # None
  PROVE  /\ rx'.file = rx.file /\ rx'.data = rx.data \o p.data
         /\ rx'.size = IF "END" \in p.flags THEN p.size ELSE rx.size
         /\ rx'.ended <=> "END" \in p.flags
         /\ orphan' <=> orphan
         /\ resized' <=> resized
<1> DEFINE b == "END" \in p.flags
           d == rx.data \o p.data
           z == IF "END" \in p.flags THEN p.size ELSE rx.size
<1>1. rx' = [rx EXCEPT !.data = d, !.ended = b, !.size = z]
  BY DEF Deliver
<1>2. (orphan' <=> orphan) /\ (resized' <=> resized)
  BY DEF Deliver, Types, FlagTypes
<1>3. rx \in Received
  BY DEF Types, PacketTypes
<1> HIDE DEF b, d, z
<1>4. rx'.ended = b
  BY <1>1, <1>3 DEF Received
<1>5. rx'.file = rx.file /\ rx'.size = z /\ rx'.data = d
  BY <1>1, <1>3 DEF Received
<1> QED
  BY <1>2, <1>4, <1>5 DEF b, d, z

\* A part that is not the last.
LEMMA PartSends ==
  ASSUME Types, Quiet, Part, done' # size
  PROVE  /\ rx'.file # None /\ rx'.file = opened /\ rx'.data = Begun(opened, done')
         /\ ~rx'.ended /\ (~resized' => rx'.size = Size[opened]) /\ (orphan' <=> orphan)
<1> DEFINE p == [pkt EXCEPT !.data = Units(opened, done, Amount)]
<1>1. Deliver(p)
  BY DEF Part
<1>2. p.typed = pkt.typed /\ p.flags = pkt.flags /\ p.name = pkt.name /\ p.size = pkt.size
  BY DEF Types, PacketTypes, Parts
<1>3. p.data = Units(opened, done, Amount)
  BY DEF Types, PacketTypes, Parts
<1> HIDE DEF p
<1>4. p.typed /\ "END" \notin p.flags
  BY <1>2, PartDelivers
<1>5. opened # None
  BY PartDelivers, NameAssumption
<1>6. CASE done = 0
  <2>1. "HEADER" \in p.flags /\ p.name = opened /\ p.size = Size[opened]
    BY <1>2, <1>6, PartDelivers
  <2>2. p.data = Begun(opened, done')
    BY <1>3, <1>6, PartDelivers DEF Begun
  <2> QED
    BY <1>1, <1>4, <1>5, <2>1, <2>2, DeliverBegins
<1>7. CASE done # 0
  <2>1. "HEADER" \notin p.flags /\ rx.file # None /\ rx.file = opened
    BY <1>2, <1>7, PartDelivers
  <2>2. rx.data \o p.data = Begun(opened, done')
    <3>1. rx.data = Begun(opened, done) /\ opened \in File /\ done' = done + Amount
      BY <1>7, PartDelivers
    <3>2. done \in 0 .. Size[opened] /\ Amount \in 0 .. Size[opened] - done
      BY PartDelivers
    <3> QED
      BY <1>3, <3>1, <3>2, PartContinues
  <2>3. ~resized => rx.size = Size[opened]
    BY <2>1 DEF Quiet, ClientInv
  <2> QED
    BY <1>1, <1>4, <1>5, <2>1, <2>2, <2>3, DeliverContinues
<1> QED
  BY <1>6, <1>7

\* The last part, before END is added to it.
LEMMA PartEnds ==
  ASSUME Types, Quiet, Part, done' = size
  PROVE  LastInv'
<1> DEFINE p == [pkt EXCEPT !.data = Units(opened, done, Amount)]
<1>1. pkt' = p /\ rx' = rx /\ resized' = resized /\ opened' = opened /\ size' = size
  BY DEF Part
<1>2. p.typed = pkt.typed /\ p.flags = pkt.flags /\ p.name = pkt.name
  BY DEF Types, PacketTypes, Parts
<1>3. p.data = Units(opened, done, Amount)
  BY DEF Types, PacketTypes, Parts
<1> HIDE DEF p
<1>4. p.typed /\ size = Size[opened] /\ Amount = Size[opened] - done /\ done \in 0 .. Size[opened]
  BY <1>2, PartDelivers, SizeAssumption
<1>5. CASE done = 0
  <2>1. p.flags = {"HEADER"} /\ p.name = opened /\ p.data = Begun(opened, Size[opened])
    BY <1>2, <1>3, <1>4, <1>5, PartDelivers, SizeAssumption DEF Begun
  <2> QED
    BY <1>1, <1>4, <2>1 DEF LastInv
<1>6. CASE done # 0
  <2>1. p.flags = {"CONTINUE"} /\ rx.file # None /\ rx.file = opened /\ rx.data = Begun(opened, done)
    BY <1>2, <1>6, PartDelivers
  <2>2. p.data = Units(opened, done, Size[opened] - done)
    BY <1>3, <1>4
  <2> QED
    BY <1>1, <1>4, <2>1, <2>2 DEF LastInv
<1> QED
  BY <1>5, <1>6

LEMMA ThreadKeepsSend ==
  ASSUME Types, Quiet, Tests \/ Quick \/ Header \/ Part \/ Clear \/ End \/ Others
  PROVE  SendInv'
<1> USE DEF ThreadOnly, fields, Step
<1>1. CASE Tests \/ Request \/ Leave \/ Confirm \/ PackQueue
  <2>1. UNCHANGED <<sending, name, size, done, rx>> /\ pc # "clear"
    BY <1>1 DEF Tests, Test, Request, Leave, Confirm, PackQueue
  <2>2. pc' \notin Busy \cup {"end"} /\ (pc' = "open" => sending)
    BY <1>1 DEF Tests, Test, Request, Leave, Confirm, PackQueue, Busy
  <2> QED
    BY <2>1, <2>2 DEF Quiet, SendInv, Busy
<1>2. CASE Open
  <2>1. UNCHANGED <<sending, name, size, done, rx>> /\ pc = "open" /\ pc' \in {"header", "poll"}
    BY <1>2 DEF Open
  <2>2. pc' = "header" => ~name.prefixed /\ opened' = name.file
    BY <1>2 DEF Open
  <2>3. pc' = "header" => name = Name(opened', FALSE)
    BY <2>2 DEF Types, FieldTypes, Name
  <2> QED
    BY <2>1, <2>3 DEF Quiet, SendInv, Busy
<1>3. CASE Header
  BY <1>3 DEF Header, Quiet, SendInv, Busy
<1>4. CASE Part
  <2>1. UNCHANGED <<sending, name, size, opened>> /\ sending /\ name = Name(opened, FALSE)
    BY <1>4 DEF Part, Quiet, SendInv, Busy
  <2>2. name.file \in File /\ size = Size[name.file] /\ opened = name.file
    BY <1>4, PartDelivers
  <2>3. done' <= size
    BY <1>4, <2>2, PartDelivers, SizeAssumption
  <2>4. CASE done' = size
    <3>1. pc' = "clear"
      BY <1>4, <2>4 DEF Part
    <3> QED
      BY <2>1, <2>2, <2>3, <3>1 DEF SendInv
  <2>5. CASE done' # size
    <3>1. pc' = "poll"
      BY <1>4, <2>5 DEF Part
    <3>2. rx'.file # None /\ rx'.file = opened /\ rx'.data = Begun(opened, done')
      BY <1>4, <2>5, PartSends
    <3> QED
      BY <2>1, <2>2, <2>3, <3>1, <3>2 DEF SendInv, Busy
  <2> QED
    BY <2>4, <2>5
<1>5. CASE Clear
  BY <1>5 DEF Clear, SendInv, Busy
<1>6. CASE End
  <2>1. UNCHANGED <<sending, name, size, done>> /\ pc = "end" /\ pc' = "poll"
    BY <1>6 DEF End
  <2> QED
    BY <2>1 DEF Quiet, SendInv, Busy
<1>7. CASE Reuse
  <2>1. ~sending' /\ pc' = "poll"
    BY <1>7 DEF Reuse
  <2> QED
    BY <2>1 DEF SendInv, Busy
<1>8. ASSUME NEW f \in File, Vanish(f) PROVE SendInv'
  <2>1. UNCHANGED <<sending, name, size, done, pc, opened, rx>>
    BY <1>8 DEF Vanish, thread
  <2> QED
    BY <2>1 DEF Quiet, SendInv, Busy
<1> QED
  BY <1>1, <1>2, <1>3, <1>4, <1>5, <1>6, <1>7, <1>8 DEF Quick, Others

LEMMA SendInvKept == ASSUME Types, Quiet, Next PROVE SendInv'
BY NextIsStep, CallsKeepSend, ThreadKeepsSend DEF Calls

\* Only the thread touches the packet; the calls let the size alone until the
\* last part is marked.
LEMMA CallsKeepParts ==
  ASSUME Types, Quiet, NEW c \in Caller, (\E f \in File : Call(c, f)) \/ CallStep(c)
  PROVE  PartInv' /\ LastInv' /\ ClientInv'
<1>1. UNCHANGED <<pkt, rx, pc, opened>>
  BY DEF Call, CallStep, FindFile, NoFile, SetSize, SetDone, SetSending, SetName, thread
<1>2. pc = "part" => UNCHANGED <<size, done>>
  BY DEF Quiet, CallInv, Calling, Busy, fields, Call, CallStep, FindFile, NoFile, SetSize, SetDone,
         SetSending, SetName
<1>3. \/ size' = size /\ resized' = resized
      \/ resized' /\ pc = "end"
      \/ pc \notin {"clear", "end"} /\ resized' = resized
  <2>1. CASE ~SetSize(c)
    BY <2>1 DEF fields, histories, Call, CallStep, FindFile, NoFile, SetDone, SetSending, SetName
  <2>2. CASE SetSize(c)
    <3>1. pc \notin Busy /\ (resized' <=> resized \/ pc = "end")
      BY <2>2 DEF SetSize, Quiet, CallInv, Calling
    <3>2. resized \in BOOLEAN /\ resized' \in BOOLEAN
      BY <2>2 DEF SetSize, Types, FlagTypes
    <3> QED
      BY <3>1, <3>2 DEF Busy
  <2> QED
    BY <2>1, <2>2
<1>4. PartInv'
  BY <1>1, <1>2 DEF Quiet, PartInv
<1>5. LastInv'
  BY <1>1, <1>3 DEF Quiet, LastInv
<1>6. ClientInv'
  BY <1>1, <1>3 DEF Quiet, ClientInv
<1> QED
  BY <1>4, <1>5, <1>6

LEMMA ThreadKeepsParts ==
  ASSUME Types, Quiet, Tests \/ Quick \/ Header \/ Clear \/ Others
  PROVE  PartInv' /\ LastInv' /\ ClientInv'
<1> USE DEF ThreadOnly, fields, Step
<1>1. CASE Tests \/ Quick
  <2>1. pc' \notin {"part", "clear", "end"} /\ UNCHANGED <<rx, resized>>
    BY <1>1 DEF Tests, Test, Quick, Request, Leave, Confirm, PackQueue, Open, histories
  <2> QED
    BY <2>1 DEF Quiet, PartInv, LastInv, ClientInv
<1>2. CASE Header
  <2>1. pc' = "part" /\ UNCHANGED <<rx, resized, size, done, opened>>
    BY <1>2 DEF Header, histories
  <2>2. sending /\ name.file = opened
    BY <1>2 DEF Header, Quiet, SendInv, Busy, Name
  <2>3. pkt'.typed /\ pkt'.size = size
    BY <1>2, <2>2 DEF Header
  <2>4. pkt'.flags = (IF done = 0 THEN {"HEADER"} ELSE {"CONTINUE"}) /\ (done = 0 => pkt'.name = opened)
    BY <1>2, <2>2 DEF Header
  <2> QED
    BY <2>1, <2>3, <2>4 DEF Quiet, PartInv, LastInv, ClientInv
<1>3. CASE Clear
  BY <1>3 DEF Clear, Quiet, PartInv, LastInv, ClientInv, histories
<1>4. CASE Reuse
  BY <1>4 DEF Reuse, Quiet, PartInv, LastInv, ClientInv, NoFileYet
<1>5. ASSUME NEW f \in File, Vanish(f) PROVE PartInv' /\ LastInv' /\ ClientInv'
  BY <1>5 DEF Vanish, thread, histories, Quiet, PartInv, LastInv, ClientInv
<1> QED
  BY <1>1, <1>2, <1>3, <1>4, <1>5 DEF Others

LEMMA PartKeepsParts == ASSUME Types, Quiet, Part PROVE PartInv' /\ LastInv' /\ ClientInv'
<1>1. CASE done' = size
  <2>1. pc' = "clear" /\ UNCHANGED <<rx, resized>>
    BY <1>1 DEF Part, Step
  <2> QED
    BY <1>1, <2>1, PartEnds DEF Quiet, PartInv, ClientInv
<1>2. CASE done' # size
  <2>1. pc' = "poll"
    BY <1>2 DEF Part, Step
  <2>2. opened \in File /\ done' \in 0 .. Size[opened]
    BY PartDelivers, SizeAssumption
  <2>3. rx'.file = opened /\ rx'.data = Begun(opened, done') /\ ~rx'.ended
        /\ (~resized' => rx'.size = Size[opened])
    BY <1>2, PartSends
  <2>4. ClientInv'
    BY <2>2, <2>3 DEF ClientInv
  <2> QED
    BY <2>1, <2>4 DEF PartInv, LastInv
<1> QED
  BY <1>1, <1>2

\* With END the client has the whole file.
LEMMA EndCompletes ==
  ASSUME Types, Quiet, End
  PROVE  ClientInv' /\ (orphan' <=> orphan)
<1> DEFINE p == [pkt EXCEPT !.flags = @ \cup {"END"}, !.size = size]
<1>1. Deliver(p) /\ pc = "end"
  BY DEF End
<1>2. p.typed = pkt.typed /\ p.flags = pkt.flags \cup {"END"} /\ p.name = pkt.name
  BY DEF Types, PacketTypes, Parts
<1>3. p.data = pkt.data /\ p.size = size
  BY DEF Types, PacketTypes, Parts
<1> HIDE DEF p
<1>4. p.typed /\ "END" \in p.flags /\ ("HEADER" \in p.flags <=> "HEADER" \in pkt.flags)
  BY <1>1, <1>2 DEF Quiet, LastInv
<1>5. opened \in File /\ Size[opened] \in 0 .. Size[opened]
  BY <1>1, SizeAssumption DEF Types, OpenInv
<1>6. CASE "HEADER" \in pkt.flags
  <2>1. p.name = opened /\ p.data = Begun(opened, Size[opened])
    BY <1>1, <1>2, <1>3, <1>6 DEF Quiet, LastInv
  <2>2. rx'.file = opened /\ rx'.data = Begun(opened, Size[opened]) /\ rx'.size = size
        /\ (orphan' <=> orphan) /\ (resized' <=> resized)
    BY <1>1, <1>3, <1>4, <1>6, <2>1, DeliverBegins
  <2>3. ~resized => size = Size[opened]
    BY <1>1 DEF Quiet, LastInv
  <2> QED
    BY <1>5, <2>2, <2>3 DEF ClientInv
<1>7. CASE "HEADER" \notin pkt.flags
  <2>1. rx.file # None /\ rx.file = opened
    BY <1>1, <1>7 DEF Quiet, LastInv
  <2>2. rx.data \o p.data = Begun(opened, Size[opened])
    <3>1. PICK k \in 0 .. Size[opened] : /\ rx.data = Begun(opened, k)
                                         /\ pkt.data = Units(opened, k, Size[opened] - k)
      BY <1>1, <1>7 DEF Quiet, LastInv
    <3>2. Size[opened] - k \in 0 .. Size[opened] - k /\ k + (Size[opened] - k) = Size[opened]
      BY <1>5
    <3> QED
      BY <1>3, <1>5, <3>1, <3>2, PartContinues
  <2>3. rx'.file = opened /\ rx'.data = Begun(opened, Size[opened]) /\ rx'.size = size
        /\ (orphan' <=> orphan) /\ (resized' <=> resized)
    BY <1>1, <1>3, <1>4, <1>7, <2>1, <2>2, DeliverContinues
  <2>4. ~resized => size = Size[opened]
    BY <1>1 DEF Quiet, LastInv
  <2> QED
    BY <1>5, <2>3, <2>4 DEF ClientInv
<1> QED
  BY <1>6, <1>7

LEMMA PartsKept == ASSUME Types, Quiet, Next PROVE PartInv' /\ LastInv' /\ ClientInv'
<1>1. CASE End
  <2>1. pc' = "poll"
    BY <1>1 DEF End, Step
  <2> QED
    BY <1>1, <2>1, EndCompletes DEF PartInv, LastInv
<1> QED
  BY <1>1, NextIsStep, CallsKeepParts, ThreadKeepsParts, PartKeepsParts DEF Calls

----------------------------------------------------------------------------
(* What is owed, and orphans.                                              *)

LEMMA OwedKept == ASSUME Types, Quiet, Next PROVE OwedInv'
<1> USE DEF Quiet, OwedInv, ThreadOnly, fields, thread, Step
<1>1. ASSUME NEW c \in Caller, (\E f \in File : Call(c, f)) \/ FindFile(c) \/ SetSize(c)
                               \/ SetDone(c) \/ SetName(c)
      PROVE  OwedInv'
  BY <1>1 DEF Call, FindFile, SetSize, SetDone, SetName, histories
<1>2. ASSUME NEW c \in Caller, NoFile(c) PROVE OwedInv'
  BY <1>2 DEF NoFile, CallInv, histories
<1>3. ASSUME NEW c \in Caller, SetSending(c) PROVE OwedInv'
  BY <1>3 DEF SetSending, CallInv, Calling
<1>4. CASE Tests
  BY <1>4 DEF Tests, Test, histories
<1>5. CASE Request \/ Leave \/ PackQueue \/ Open \/ Header \/ Clear \/ Confirm
  BY <1>5 DEF Request, Leave, PackQueue, Open, Header, Clear, Confirm, histories
<1>6. CASE Part
  BY <1>6 DEF Part
<1>7. CASE End
  BY <1>7 DEF End
<1>8. CASE Others
  BY <1>8 DEF Others, Reuse, Vanish, histories
<1> QED
  BY <1>1, <1>2, <1>3, <1>4, <1>5, <1>6, <1>7, <1>8, NextIsStep DEF Calls, CallStep, Quick

LEMMA NoOrphan == ASSUME Types, Quiet, Next PROVE ~orphan'
<1>1. CASE Part
  <2>1. CASE done' = size
    BY <1>1, <2>1 DEF Part, Quiet
  <2> QED
    BY <1>1, <2>1, PartSends DEF Quiet
<1>2. CASE End
  BY <1>2, EndCompletes DEF Quiet
<1>3. CASE ~Part /\ ~End
  BY <1>3, NextIsStep
     DEF Quiet, Calls, Call, CallStep, FindFile, NoFile, SetSize, SetDone, SetSending, SetName,
         Tests, Test, Quick, Request, Leave, Confirm, PackQueue, Open, Header, Clear, Others,
         Reuse, Vanish, histories
<1> QED
  BY <1>1, <1>2, <1>3

----------------------------------------------------------------------------
(* The theorems.                                                           *)

\* A race is not forgotten.
LEMMA RacedStays == ASSUME Types, Next, raced PROVE raced'
BY NextIsStep
   DEF Calls, Call, CallStep, FindFile, NoFile, SetSize, SetDone, SetSending, SetName, Tests, Test,
       Quick, Request, Leave, Confirm, PackQueue, Open, Header, Part, Clear, End, Others, Reuse,
       Vanish, histories

LEMMA NextQuiet == Types /\ (~raced => Quiet) /\ [Next]_vars => (~raced => Quiet)'
<1>1. ASSUME Quiet, UNCHANGED vars PROVE Quiet'
  <2>1. /\ UNCHANGED <<oneTime, sending, name, size, done, sendDone, cpc, arg>>
        /\ UNCHANGED <<pc, queue, opened, pkt, rx, owed, orphan, resized>>
    BY <1>1 DEF vars, fields, callers, thread, histories
  <2>2. Alone' /\ CallInv'
    BY <1>1, <2>1 DEF Quiet, Alone, CallInv, Calling
  <2>3. SendInv'
    BY <1>1, <2>1 DEF Quiet, SendInv
  <2>4. PartInv' /\ LastInv'
    BY <1>1, <2>1 DEF Quiet, PartInv, LastInv
  <2>5. ClientInv' /\ OwedInv' /\ ~orphan'
    BY <1>1, <2>1 DEF Quiet, ClientInv, OwedInv
  <2> QED
    BY <2>2, <2>3, <2>4, <2>5 DEF Quiet
<1>2. ASSUME Types, ~raced => Quiet, Next, ~raced' PROVE Quiet'
  <2>1. Quiet
    BY <1>2, RacedStays
  <2> QED
    BY <1>2, <2>1, AloneKept, CallInvKept, SendInvKept, PartsKept, OwedKept, NoOrphan DEF Quiet
<1>3. UNCHANGED vars => raced' = raced
  BY DEF vars, histories
<1> QED
  BY <1>1, <1>2, <1>3

LEMMA QuietCorrect == Spec => [](Types /\ (~raced => Quiet))
BY InitTypes, NextTypes, InitQuiet, NextQuiet, PTL DEF Spec

\* Types, and what is sent of a file never exceeds it.
THEOREM TypeCorrect == Spec => []TypeOK
<1>1. Types /\ (~raced => Quiet) => TypeOK
  BY DEF Types, Quiet, SendInv, TypeOK
<1> QED
  BY <1>1, QuietCorrect, PTL

\* A client gets each file from its beginning and without gaps, whatever the
\* sizes of the file, of the room and of the messages in between.
THEOREM FilesAreWhole == Spec => []FileWhole
<1>1. ASSUME Types, ~raced => Quiet PROVE FileWhole
  <2> SUFFICES ASSUME ~raced, rx.file # None
               PROVE  /\ rx.file \in File /\ rx.data = Units(rx.file, 0, Len(rx.data))
                      /\ rx.ended => Len(rx.data) = Size[rx.file]
                      /\ ~resized => rx.size = Size[rx.file]
    BY DEF FileWhole
  <2>1. rx.file \in File /\ (~resized => rx.size = Size[rx.file])
    BY <1>1 DEF Quiet, ClientInv
  <2>2. PICK k \in 0 .. Size[rx.file] : /\ rx.data = Begun(rx.file, k)
                                        /\ rx.ended => k = Size[rx.file]
    BY <1>1 DEF Quiet, ClientInv
  <2>3. Len(rx.data) = k
    <3>1. 0 \in 0 .. Size[rx.file] /\ k \in 0 .. Size[rx.file] - 0
      BY <2>1, SizeAssumption
    <3> QED
      BY <2>1, <2>2, <3>1, UnitsWithin DEF Begun
  <2> QED
    BY <2>1, <2>2, <2>3 DEF Begun
<1> QED
  BY <1>1, QuietCorrect, PTL

\* The first part that a client gets has the header of a file.
THEOREM PartsHaveHeader == Spec => []FirstIsHeader
<1>1. Types /\ (~raced => Quiet) => FirstIsHeader
  BY DEF Quiet, FirstIsHeader
<1> QED
  BY <1>1, QuietCorrect, PTL

\* A one-time connection stays open until the file that the callback had sent
\* is with the client.
THEOREM ConfirmedLast == Spec => []DoneMeansSent
<1>1. Types /\ (~raced => Quiet) => DoneMeansSent
  BY DEF Quiet, OwedInv, DoneMeansSent
<1> QED
  BY <1>1, QuietCorrect, PTL
=============================================================================
