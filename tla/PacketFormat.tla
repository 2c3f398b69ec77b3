---------------------------- MODULE PacketFormat ----------------------------
(***************************************************************************)
(* How a packet tells its messages apart (_PackDataWithPacket,             *)
(* _processMessagePacket).                                                 *)
(*                                                                         *)
(* A message is a run of blocks of at most 1024 bytes.  The size table of  *)
(* the packet has one entry per block, whose bit 11 alternates from one    *)
(* message to the next.  The packer derives the bit from the number        *)
(* (sendPacketNo) each block was queued with; the unpacker starts a new    *)
(* message wherever the bit changes, the bit before the first block being  *)
(* taken as 1.                                                             *)
(***************************************************************************)
EXTENDS Integers, Sequences, FiniteSets

\* The element before s[i]; s0 stands before the first.
Before(s, s0, i) == IF i = 1 THEN s0 ELSE s[i - 1]

\* The places up to n at which s differs from the element before.
Changes(s, s0, n) == {i \in 1 .. n : s[i] # Before(s, s0, i)}

\* Wrong: the number of the first block is compared with 1.
FlagsFromOne(nos) == [i \in 1 .. Len(nos) |-> Cardinality(Changes(nos, 1, i)) % 2]

\* The continuation bits of blocks that were queued with the numbers nos: the
\* bit alternates whenever the number changes, from the number and the bit 0.
Flags(nos) == [i \in 1 .. Len(nos) |-> Cardinality(Changes(nos, 0, i)) % 2]

\* curPacket, the place of the message that each block belongs to, from 0; -1
\* stands for the place before the first one.
Places(flags) ==
  [i \in 1 .. Len(flags) |-> Cardinality(Changes(flags, 1, i)) - 1]

\* recvCount, the number of messages the application is told of.
CountMessages(flags) == IF flags = <<>> THEN 0 ELSE Places(flags)[Len(flags)] + 1

\* The messages of a packet, each as the sequence of its blocks.
Unpack(blocks, flags) ==
  LET Preceding(k) == Cardinality({i \in 1 .. Len(flags) : Places(flags)[i] < k})
  IN  [k \in 1 .. CountMessages(flags) |->
         SubSeq(blocks, Preceding(k - 1) + 1, Preceding(k))]

\* The blocks a .. b of s are a message: a run of blocks of one message, and all
\* that s has of it.  (A block is known by its message.)
Run(s, a, b) == a <= b /\ \A i \in 1 .. Len(s) : s[i] = s[a] <=> i \in a .. b

\* u is the sequence of the messages that lie in the first n blocks of s: each is a
\* run of blocks, they come in the order of s, and none is left out.
MessagesIn(u, s, n) ==
  /\ \A k \in 1 .. Len(u) : \E a, b \in 1 .. n : Run(s, a, b) /\ u[k] = SubSeq(s, a, b)
  /\ \A k, l \in 1 .. Len(u) : k < l =>
       \A i, j \in 1 .. n : s[i] = u[k][1] /\ s[j] = u[l][1] => i < j
  /\ \A i \in 1 .. n : \E k \in 1 .. Len(u) : u[k][1] = s[i]
=============================================================================
