---------------------------- MODULE ResourcePool ----------------------------
(***************************************************************************)
(* What every pool of StarServer promises its users, whatever the locks,   *)
(* flags and threads behind it: a resource (a client slot, a database      *)
(* connection, a big-data buffer) is given to one user at a time, a user   *)
(* has at most one, and only its user gives it back.                       *)
(*                                                                         *)
(* ClientSlots and DbPool are shown to implement this specification.       *)
(***************************************************************************)
CONSTANTS User,      \* the threads that ask for a resource
          Resource,  \* the entries of the pool
          None       \* no user

VARIABLE owner       \* owner[r] is the user that has r, or None

Init == owner = [r \in Resource |-> None]

\* u takes a free resource r.
Acquire(u, r) == /\ owner[r] = None
                 /\ \A q \in Resource : owner[q] # u
                 /\ owner' = [owner EXCEPT ![r] = u]

\* The user of r gives it back.
Release(r) == /\ owner[r] # None
              /\ owner' = [owner EXCEPT ![r] = None]

Next == \/ \E u \in User, r \in Resource : Acquire(u, r)
        \/ \E r \in Resource : Release(r)

Spec == Init /\ [][Next]_owner
=============================================================================
