------------------------------- MODULE Bucket -------------------------------
(***************************************************************************)
(* The local bucket (crates/core/src/bucket.rs): the tokens an instance    *)
(* holds for one key, until when, and from which window of Redis.          *)
(*                                                                         *)
(* `tokens` and `exhausted` are atomics that readers of the map change     *)
(* under a shared lock; `expires_at` and `window` never change once the    *)
(* bucket exists.  A bucket is replaced or removed under the exclusive     *)
(* lock of its shard.                                                      *)
(***************************************************************************)
EXTENDS Integers

CONSTANT NoBucket   \* the map has no entry for the id

Bucket ==
    [tokens : Nat, expires_at : Nat, window : Nat, exhausted : BOOLEAN]

ASSUME NoBucketAssumption == NoBucket \notin Bucket

\* Bucket::new at time `t`.
NewBucket(tokens, ttl, window, t) ==
    [tokens |-> tokens, expires_at |-> t + ttl, window |-> window,
     exhausted |-> FALSE]

IsEmpty(bk) == bk.tokens = 0

IsExpired(bk, t) == bk.expires_at <= t

\* b.expires_at().duration_since(t), which is zero for an instant in the past.
TimeLeft(bk, t) == IF IsExpired(bk, t) THEN 0 ELSE bk.expires_at - t

\* Bucket::consume is one atomic update that fails on zero: the tokens that
\* stay in the bucket, which is also what it returns.
AfterConsume(bk) == IF IsEmpty(bk) THEN 0 ELSE bk.tokens - 1

=============================================================================
