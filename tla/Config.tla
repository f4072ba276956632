------------------------------- MODULE Config -------------------------------
(***************************************************************************)
(* The policy file (crates/core/src/config.rs): two policies, one for      *)
(* `public` buckets (keyed by client address) and one for `protected`      *)
(* buckets (keyed by token subject).  A bucket id belongs to exactly one   *)
(* of the two kinds (bucket::Id).                                          *)
(*                                                                         *)
(* The ids and the policies are constants: the file is read once, before   *)
(* the server starts, and never changes afterwards.                        *)
(***************************************************************************)
EXTENDS Integers

CONSTANTS
    PublicIds,      \* the ids Id::Public(ip) that clients use
    ProtectedIds,   \* the ids Id::Protected(sub) that clients use
    Public,         \* the policy of public buckets
    Protected       \* the policy of protected buckets

Ids == PublicIds \cup ProtectedIds

(***************************************************************************)
(* A policy as it is read from JSON, before validation: any u64 may stand  *)
(* in each field.  `reset_in` is in ticks of the model's clock.            *)
(***************************************************************************)
UncheckedPolicy == [quota : Nat, lease_size : Nat, reset_in : Nat]

\* Policy::try_from: what the server refuses to start with.  It says nothing
\* of reset_in, which may be 0.
Accepted(p) == p.lease_size # 0 /\ p.lease_size <= p.quota

ASSUME ConfigAssumption ==
    /\ PublicIds \cap ProtectedIds = {}
    /\ Public \in UncheckedPolicy /\ Accepted(Public)
    /\ Protected \in UncheckedPolicy /\ Accepted(Protected)

\* The policy Store::lease applies to bucket `b`.
Criteria(b) == IF b \in PublicIds THEN Public ELSE Protected

Quota(b) == Criteria(b).quota

=============================================================================
