---------------------------- MODULE RequestReply ----------------------------
(***************************************************************************)
(* What the server promises the client of a slot, whatever gets damaged,   *)
(* lost sight of or sent twice on the way: every request is handled once   *)
(* and then answered once, the client goes on with the answer to its last  *)
(* request and with no other, and each answer hands over everything that   *)
(* was posted for the client until its request was dealt with, if not all  *)
(* that was posted meanwhile.  A client may leave, but never in the middle *)
(* of a request that is being handled.                                     *)
(*                                                                         *)
(* ClientChannel is shown to implement this specification.                 *)
(***************************************************************************)
EXTENDS Naturals, Sequences

CONSTANT Message  \* what is posted

VARIABLES
  asked,    \* the number of the client's last request
  waiting,  \* the client waits for the answer to it
  seen,     \* the last request that the application has seen
  replied,  \* the last request that was answered
  open,     \* there is a client
  posted,   \* what was posted for the clients of the slot, in order
  given,    \* how much of it was handed over with an answer
  busy,     \* the application deals with a request
  due       \* how much had been posted when it was done with the last one

vars == <<asked, waiting, seen, replied, open, posted, given, busy, due>>

Init ==
  /\ asked = 0 /\ seen = 0 /\ replied = 0
  /\ waiting = FALSE /\ open = TRUE
  /\ posted = <<>> /\ given = 0
  /\ busy = FALSE /\ due = 0

Ask ==
  /\ open /\ ~waiting
  /\ asked' = asked + 1 /\ waiting' = TRUE
  /\ UNCHANGED <<seen, replied, open, posted, given, busy, due>>

\* The application is shown the request.
Handle ==
  /\ open /\ waiting /\ seen # asked
  /\ seen' = asked /\ busy' = TRUE
  /\ UNCHANGED <<asked, waiting, replied, open, posted, given, due>>

\* It has dealt with it: what was posted until now goes out with the answer.
Finish ==
  /\ busy
  /\ busy' = FALSE /\ due' = Len(posted)
  /\ UNCHANGED <<asked, waiting, seen, replied, open, posted, given>>

\* Its answer is written, which may be the last thing the client is sent.
Reply ==
  /\ waiting /\ seen = asked /\ replied # asked /\ ~busy
  /\ replied' = asked
  /\ given' \in {given, Len(posted)} /\ given' >= due
  /\ open' \in {open, FALSE} /\ waiting' = open'
  /\ UNCHANGED <<asked, seen, posted, busy, due>>

Answer ==
  /\ waiting /\ replied = asked
  /\ waiting' = FALSE
  /\ UNCHANGED <<asked, seen, replied, open, posted, given, busy, due>>

Leave ==
  /\ open /\ seen = replied
  /\ open' = FALSE /\ waiting' = FALSE
  /\ UNCHANGED <<asked, seen, replied, posted, given, busy, due>>

\* The next client takes the slot, and what was posted and not handed over.
Enter ==
  /\ ~open
  /\ open' = TRUE /\ asked' = 0 /\ seen' = 0 /\ replied' = 0
  /\ UNCHANGED <<waiting, posted, given, busy, due>>

Post ==
  /\ \E m \in Message : posted' = Append(posted, m)
  /\ UNCHANGED <<asked, waiting, seen, replied, open, given, busy, due>>

Next == Ask \/ Handle \/ Finish \/ Reply \/ Answer \/ Leave \/ Enter \/ Post

Spec == Init /\ [][Next]_vars
=============================================================================
