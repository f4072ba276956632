------------------------------- MODULE MCStore -------------------------------
(***************************************************************************)
(* Store on small instances for TLC.                                       *)
(***************************************************************************)
EXTENDS Store, TLC

CONSTANTS
    a1, a2, a3, b1, \* request slots: three on one instance, one on the other
    i1, i2          \* instances

\* The slot of the second instance, the others of the first.
MCHome == [r \in Requests |-> IF r = b1 THEN i2 ELSE i1]

\* Quota 3 in leases of 2: a second lease of a window is partial, a third empty.
SmallPolicy == [quota |-> 3, lease_size |-> 2, reset_in |-> 1]

\* Everything goes in one lease, the next one gets nothing.
OneLease == [quota |-> 2, lease_size |-> 2, reset_in |-> 1]

\* A window has one token.
OneToken == [quota |-> 1, lease_size |-> 1, reset_in |-> 1]

\* Accepted at startup, and refused by SETEX at every lease.
ZeroReset == [quota |-> 1, lease_size |-> 1, reset_in |-> 0]

\* Slots of one instance are alike.
Alike == Permutations({r \in Requests : MCHome[r] = i1})

=============================================================================
