-------------------------------- MODULE Cache --------------------------------
(***************************************************************************)
(* Redis as the service uses it (crates/core/src/cache.rs): one counter    *)
(* with an expiry per bucket id, read and written by two Lua scripts that  *)
(* Redis runs atomically.                                                  *)
(*                                                                         *)
(* One clock serves Redis and every instance.  The scripts use durations   *)
(* (PTTL) and instances only compare their own monotonic readings, so      *)
(* only the rate of the clocks matters, and all advance at the same rate.  *)
(* A window is named by the instant its key expires (PEXPIRETIME), as in   *)
(* the code.                                                               *)
(***************************************************************************)
EXTENDS Config

CONSTANT MaxTime    \* bound: the clock stops here

ASSUME TimeAssumption == MaxTime \in Nat \ {0}

VARIABLES
    now,    \* the clock, from 1
    keys    \* keys[b]: the counter of `b` and the instant it expires

\* Every expiry a key can get: one set at MaxTime by the longer policy.
Windows ==
    0 .. MaxTime + (IF Public.reset_in < Protected.reset_in
                    THEN Protected.reset_in ELSE Public.reset_in)

Key == [tokens : Nat, window : Windows]

\* A key Redis does not hold: no instant from 1 on lies in its window.
NoKey == [tokens |-> 0, window |-> 0]

\* A key is readable up to and including the millisecond it expires in.
Alive(b) == now <= keys[b].window

CacheTypeOK ==
    /\ now \in 1 .. MaxTime
    /\ keys \in [Ids -> Key]

CacheInit ==
    /\ now = 1
    /\ keys = [b \in Ids |-> NoKey]

-----------------------------------------------------------------------------
(***************************************************************************)
(* LEASE_SCRIPT.                                                           *)
(***************************************************************************)
\* A bug: DECRBY lease_size whatever is left.
ToLeaseUnclamped(tokens, size) == size

\* A bug: the early return for nothing is taken for the last lease too.
ToLeaseNotLast(tokens, size) == IF tokens <= size THEN 0 ELSE size

\* math.min(tokens, lease_size); zero when the counter is zero, which is
\* what the script's second early return answers.
ToLease(tokens, size) == IF tokens <= size THEN tokens ELSE size

Leased(b) ==
    IF Alive(b) THEN ToLease(keys[b].tokens, Criteria(b).lease_size)
    ELSE Criteria(b).lease_size

\* A bug: the first lease of a window stores the whole quota.
KeyAfterLeaseFull(b) ==
    IF Alive(b)
    THEN [keys[b] EXCEPT !.tokens = @ - Leased(b)]
    ELSE [tokens |-> Criteria(b).quota,
          window |-> now + Criteria(b).reset_in]

KeyAfterLease(b) ==
    IF Alive(b)
    THEN [keys[b] EXCEPT !.tokens = @ - Leased(b)]
    ELSE [tokens |-> Criteria(b).quota - Criteria(b).lease_size,
          window |-> now + Criteria(b).reset_in]

\* SETEX refuses an expiry of zero, and the script ends with an error.
LeaseRefused(b) == ~Alive(b) /\ Criteria(b).reset_in = 0

(***************************************************************************)
(* RELEASE_SCRIPT: INCRBY, only if the key still has the recorded expiry.  *)
(* PEXPIRETIME of a missing key is negative and equals no window.          *)
(***************************************************************************)
\* A bug: the tokens go back to whatever window is open.
KeyAfterReleaseAnyWindow(b, tokens, window) ==
    IF Alive(b) THEN [keys[b] EXCEPT !.tokens = @ + tokens] ELSE keys[b]

KeyAfterRelease(b, tokens, window) ==
    IF Alive(b) /\ keys[b].window = window
    THEN [keys[b] EXCEPT !.tokens = @ + tokens]
    ELSE keys[b]

-----------------------------------------------------------------------------
\* One tick: a key whose expiry has passed is gone.
Advance ==
    /\ now < MaxTime
    /\ now' = now + 1
    /\ keys' = [b \in Ids |->
                  IF keys[b].window < now + 1 THEN NoKey ELSE keys[b]]

=============================================================================
