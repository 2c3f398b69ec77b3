------------------------------ MODULE Handshake ------------------------------
(***************************************************************************)
(* The answer to REGISTER (processMessageBuffer): which of the versions    *)
(* and of the number of clients refuses a client.  Later tests override    *)
(* the earlier ones.                                                       *)
(***************************************************************************)
EXTENDS Integers, TLAPS

Version == [major : Nat, minor : Nat, revision : Nat]

\* The versions are compared field by field: 3.0.0 is older than 2.86.0.
Older(v, support) == \/ v.major < support.major
                     \/ v.minor < support.minor
                     \/ v.revision < support.revision

\* s_nMaxConnection - 10 is an int, and compared with an unsigned count.
Unsigned(n, word) == IF n < 0 THEN n + word ELSE n
Full(count, max, word) == count >= Unsigned(max - 10, word)

Answer(engine, engineSupport, client, clientSupport, count, max, word) ==
  IF Full(count, max, word) THEN "SERVER_FULL"
  ELSE IF Older(client, clientSupport) THEN "CLIENT_WRONG"
  ELSE IF Older(engine, engineSupport) THEN "OLD_VERSION"
  ELSE "REGIS_OK"

\* What the comparison by fields costs: a newer client is refused too, here
\* 3.0.0 where 2.86.0 is supported.
ASSUME NewerIsRefused ==
  LET old == [major |-> 2, minor |-> 86, revision |-> 0]
      new == [major |-> 3, minor |-> 0, revision |-> 0]
  IN  Answer(new, old, old, old, 0, 100, 2 ^ 16) = "OLD_VERSION"

\* The order of versions.
Precedes(v, w) ==
  \/ v.major < w.major
  \/ v.major = w.major /\ v.minor < w.minor
  \/ v.major = w.major /\ v.minor = w.minor /\ v.revision < w.revision

----------------------------------------------------------------------------

\* A client whose program or engine is older than what the server supports is
\* never registered, however it compares the versions.
THEOREM OldIsRefused ==
  ASSUME NEW engine \in Version, NEW engineSupport \in Version,
         NEW client \in Version, NEW clientSupport \in Version,
         NEW count \in Nat, NEW max \in Nat, NEW word \in Nat,
         Answer(engine, engineSupport, client, clientSupport, count, max, word) = "REGIS_OK"
  PROVE  ~Precedes(engine, engineSupport) /\ ~Precedes(client, clientSupport)
<1>1. ~Older(engine, engineSupport) /\ ~Older(client, clientSupport)
  BY DEF Answer
<1>2. ASSUME NEW v \in Version, NEW w \in Version, Precedes(v, w) PROVE Older(v, w)
  BY <1>2 DEF Precedes, Older, Version
<1> QED
  BY <1>1, <1>2

\* With ten connections or more, a client is registered only while there are
\* more than ten slots free; with fewer, the server never says that it is full.
THEOREM FullIsTold ==
  ASSUME NEW count \in Nat, NEW max \in Nat, NEW word \in Nat, count <= max, word > 10
  PROVE  /\ max >= 10 => (Full(count, max, word) <=> max - count <= 10)
         /\ max < 10 => ~Full(count, max, word)
  BY DEF Full, Unsigned
=============================================================================
