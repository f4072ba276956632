----------------------------- MODULE StoreProofs -----------------------------
(***************************************************************************)
(* Theorems about Store, for any ids and policies, any finite number of    *)
(* instances and request slots, and with every fault the module has.       *)
(***************************************************************************)
EXTENDS Store, TLAPS

-----------------------------------------------------------------------------
(***************************************************************************)
(* The scripts of Redis.                                                   *)
(***************************************************************************)

\* An accepted policy leases at least one token and at most its quota, and
\* the windows it opens are within the bounds of the model.
LEMMA PolicyFacts ==
    ASSUME NEW b \in Ids
    PROVE  /\ Criteria(b).quota \in Nat
           /\ Criteria(b).lease_size \in Nat
           /\ Criteria(b).reset_in \in Nat
           /\ 0 < Criteria(b).lease_size
           /\ Criteria(b).lease_size <= Criteria(b).quota
           /\ \A t \in 1 .. MaxTime : t + Criteria(b).reset_in \in Windows
  <1>1. \A p \in {Public, Protected} :
            /\ p \in UncheckedPolicy
            /\ Accepted(p)
            /\ \A t \in 1 .. MaxTime : t + p.reset_in \in Windows
    BY ConfigAssumption, TimeAssumption DEF UncheckedPolicy, Windows
  <1>2. Criteria(b) \in {Public, Protected}
    BY DEF Criteria
  <1> QED
    BY <1>1, <1>2 DEF UncheckedPolicy, Accepted

\* What LEASE_SCRIPT hands out comes off the counter of an open window, and
\* out of the quota of a new one.
LEMMA LeaseFacts ==
    ASSUME NEW b \in Ids, CacheTypeOK
    PROVE  /\ Leased(b) \in Nat
           /\ KeyAfterLease(b) \in Key
           /\ KeyAfterLease(b).window >= now
           /\ Alive(b) => /\ KeyAfterLease(b).window = keys[b].window
                          /\ KeyAfterLease(b).tokens + Leased(b)
                               = keys[b].tokens
           /\ ~Alive(b) => /\ KeyAfterLease(b).window
                                = now + Criteria(b).reset_in
                           /\ KeyAfterLease(b).tokens + Leased(b) = Quota(b)
  <1>1. now \in 1 .. MaxTime /\ now \in Nat
    BY TimeAssumption DEF CacheTypeOK
  <1>2. keys[b] \in Key /\ keys[b].tokens \in Nat /\ keys[b].window \in Windows
    BY DEF CacheTypeOK, Key
  <1>3. keys[b].window \in Int
    BY <1>2 DEF Windows
  <1>4. CASE Alive(b)
    <2>1. Leased(b) \in Nat /\ Leased(b) <= keys[b].tokens
      BY <1>2, <1>4, PolicyFacts DEF Leased, ToLease
    <2>2. KeyAfterLease(b)
            = [tokens |-> keys[b].tokens - Leased(b),
               window |-> keys[b].window]
      BY <1>2, <1>4 DEF KeyAfterLease, Key
    <2> QED
      BY <1>1, <1>2, <1>3, <1>4, <2>1, <2>2 DEF Alive, Key
  <1>5. CASE ~Alive(b)
    <2>1. Leased(b) = Criteria(b).lease_size
      BY <1>5 DEF Leased
    <2>2. KeyAfterLease(b)
            = [tokens |-> Criteria(b).quota - Criteria(b).lease_size,
               window |-> now + Criteria(b).reset_in]
      BY <1>5 DEF KeyAfterLease
    <2> QED
      BY <1>1, <1>5, <2>1, <2>2, PolicyFacts DEF Key, Quota
  <1> QED
    BY <1>4, <1>5

\* RELEASE_SCRIPT leaves a well-formed key.
LEMMA ReleaseFacts ==
    ASSUME NEW b \in Ids, CacheTypeOK, NEW n \in Nat, NEW w
    PROVE  KeyAfterRelease(b, n, w) \in Key
  <1>1. keys[b] \in Key
    BY DEF CacheTypeOK
  <1> QED
    BY <1>1 DEF KeyAfterRelease, Key

-----------------------------------------------------------------------------
(***************************************************************************)
(* Type correctness.                                                       *)
(***************************************************************************)

\* A bucket that is in the map of an instance is a bucket.
LEMMA MineIsBucket ==
    ASSUME TypeOK, NEW r \in Requests, Mine(r) # NoBucket
    PROVE  Mine(r) \in Bucket
  BY StoreAssumption DEF TypeOK, Mine

\* The values actions start from.
LEMMA Constants ==
    /\ 0 \in Windows /\ Windows \subseteq Nat
    /\ NoCall \in Call
    /\ Success \in Result /\ CacheError \in Result
    /\ NoOne \in Flight /\ Dead \in Flight
    /\ EmptyMap \in [Ids -> Bucket \cup {NoBucket}]
  <1>1. 0 \in Windows /\ Windows \subseteq Nat
    BY ConfigAssumption, TimeAssumption DEF Windows, UncheckedPolicy
  <1>2. NoCall \in Call
    BY <1>1, TimeAssumption DEF NoCall, Call
  <1> QED
    BY <1>1, <1>2 DEF Success, CacheError, Result, Flight, EmptyMap

\* The records of a lease, as its steps make them.
LEMMA CallTypes ==
    ASSUME NEW t \in 1 .. MaxTime, NEW c \in Call
    PROVE  /\ Started(t) \in Call
           /\ \A n, d \in Nat, w \in Windows :
                 [at |-> c.at, leased |-> n, ttl |-> d, window |-> w] \in Call
           /\ \A d \in Nat :
                 [at |-> t, leased |-> c.leased, ttl |-> d,
                  window |-> c.window] \in Call
           /\ c.leased \in Nat /\ c.ttl \in Nat /\ c.window \in Windows
           /\ c.at \in Nat
  <1>1. 0 \in Windows /\ t \in 0 .. MaxTime /\ 0 \in Nat
    BY Constants, TimeAssumption
  <1>2. /\ c.at \in 0 .. MaxTime /\ c.at \in Nat
        /\ c.leased \in Nat /\ c.ttl \in Nat /\ c.window \in Windows
    BY TimeAssumption DEF Call
  <1> QED
    BY <1>1, <1>2 DEF Started, Call

\* The time left is never negative.
LEMMA TimeLeftType ==
    ASSUME NEW c \in Call, now \in Nat
    PROVE  TimeLeftFromStart(c) \in Nat
  <1>1. c.at \in Nat /\ c.ttl \in Nat
    BY TimeAssumption DEF Call
  <1> QED
    BY <1>1 DEF TimeLeftFromStart

\* The buckets a lease makes, and the times they tell.
LEMMA BucketTypes ==
    ASSUME NEW n \in Nat, NEW d \in Nat, NEW w \in Windows, NEW t \in Nat
    PROVE  /\ NewBucket(n, d, w, t) \in Bucket
           /\ Exhausted(d) \in Result
           /\ \A bk \in Bucket :
                 /\ [bk EXCEPT !.exhausted = TRUE] \in Bucket
                 /\ BucketAfterConsume(bk) \in Bucket
                 /\ Exhausted(TimeLeft(bk, t)) \in Result
  <1>1. w \in Nat
    BY Constants
  <1>2. \A bk \in Bucket : TimeLeft(bk, t) \in Nat /\ AfterConsume(bk) \in Nat
    BY DEF Bucket, TimeLeft, IsExpired, AfterConsume, IsEmpty
  <1>3. NewBucket(n, d, w, t) \in Bucket
    BY <1>1 DEF NewBucket, Bucket
  <1>4. \A bk \in Bucket : BucketAfterConsume(bk) \in Bucket
    BY <1>2 DEF BucketAfterConsume, Bucket
  <1>5. \A bk \in Bucket : [bk EXCEPT !.exhausted = TRUE] \in Bucket
    BY DEF Bucket
  <1> QED
    BY <1>2, <1>3, <1>4, <1>5 DEF Exhausted, Result

\* Waiting for a bucket, or for the flight of another, keeps the types.
LEMMA WaitingSteps ==
    ASSUME TypeOK, NEW r \in Requests,
           \/ \E b \in Ids : Arrive(r, b)
           \/ CheckDenied(r) \/ CheckServed(r) \/ CheckMissing(r)
           \/ TakeFlight(r) \/ JoinFlight(r) \/ Register(r)
    PROVE  TypeOK'
  <1> USE DEF TypeOK, CacheTypeOK, Goto, cleanupVars, serverVars, history, Steps
  <1>0. /\ Home[r] \in Instances /\ id[r] \in Ids
        /\ now \in 1 .. MaxTime /\ now \in Nat /\ MaxTime \in Nat
    BY StoreAssumption, TimeAssumption
  <1>1. ASSUME NEW b \in Ids, Arrive(r, b) PROVE TypeOK'
    BY <1>1 DEF Arrive
  <1>2. CASE CheckDenied(r)
    BY <1>2 DEF CheckDenied
  <1>3. CASE CheckServed(r)
    BY <1>3 DEF CheckServed
  <1>4. CASE CheckMissing(r)
    BY <1>4 DEF CheckMissing
  <1>5. CASE TakeFlight(r)
    <2>1. Started(now) \in Call
      BY <1>0, CallTypes, Constants
    <2> QED
      BY <1>5, <2>1 DEF TakeFlight, Leading, Flight
  <1>6. CASE JoinFlight(r)
    BY <1>0, <1>6 DEF JoinFlight
  <1>7. CASE Register(r)
    BY <1>7 DEF Register
  <1> QED
    BY <1>1, <1>2, <1>3, <1>4, <1>5, <1>6, <1>7

\* The lease keeps the types.
LEMMA LeaseSteps ==
    ASSUME TypeOK, NEW r \in Requests,
           \/ LeaseExec(r) \/ LeaseReply(r) \/ LeaseFails(r)
           \/ Install(r) \/ MarkExhausted(r) \/ ReleaseFlight(r)
    PROVE  TypeOK'
  <1> USE DEF TypeOK, CacheTypeOK, Goto, Ends, SetBucket, cleanupVars,
              serverVars, history, Steps, Leading
  <1>0. /\ Home[r] \in Instances /\ id[r] \in Ids
        /\ now \in 1 .. MaxTime /\ now \in Nat /\ MaxTime \in Nat
        /\ call[r] \in Call
    BY StoreAssumption, TimeAssumption
  <1>1. CASE LeaseExec(r)
    <2>1. /\ KeyAfterLease(id[r]) \in Key
          /\ KeyAfterLease(id[r]).window \in Windows
          /\ KeyAfterLease(id[r]).window - now \in Nat
          /\ Leased(id[r]) \in Nat
      <3>1. /\ KeyAfterLease(id[r]) \in Key
            /\ KeyAfterLease(id[r]).window >= now
            /\ Leased(id[r]) \in Nat
        BY <1>0, LeaseFacts
      <3>2. KeyAfterLease(id[r]).window \in Windows
        BY <3>1 DEF Key
      <3>3. KeyAfterLease(id[r]).window \in Nat
        BY <3>2, Constants
      <3> QED
        BY <1>0, <3>1, <3>2, <3>3
    <2>2. [at |-> call[r].at, leased |-> Leased(id[r]),
           ttl |-> KeyAfterLease(id[r]).window - now,
           window |-> KeyAfterLease(id[r]).window] \in Call
      BY <1>0, <2>1, CallTypes
    <2>3. call' \in [Requests -> Call]
      BY <1>1, <2>2 DEF LeaseExec
    <2>4. keys' \in [Ids -> Key]
      BY <1>1, <2>1 DEF LeaseExec
    <2> QED
      BY <1>1, <2>3, <2>4 DEF LeaseExec
  <1>2. CASE LeaseReply(r)
    <2>1. TimeLeftFromStart(call[r]) \in Nat
      BY <1>0, TimeLeftType
    <2>2. [at |-> now, leased |-> call[r].leased,
           ttl |-> TimeLeftFromStart(call[r]), window |-> call[r].window]
            \in Call
      BY <1>0, <2>1, CallTypes
    <2> QED
      BY <1>2, <2>2 DEF LeaseReply
  <1>3. CASE LeaseFails(r)
    <2>1. orphans' \in SUBSET Ids
      BY <1>0, <1>3 DEF LeaseFails, MayStillArrive
    <2>2. /\ call' \in [Requests -> Call]
          /\ result' \in [Requests -> Result]
          /\ pc' \in [Requests -> Steps]
      BY <1>3, Constants DEF LeaseFails, AfterError
    <2> QED
      BY <1>3, <2>1, <2>2 DEF LeaseFails
  <1>4. CASE Install(r)
    <2>1. NewBucket(call[r].leased, call[r].ttl, call[r].window, now) \in Bucket
      BY <1>0, CallTypes, BucketTypes
    <2>2. call' \in [Requests -> Call]
      BY <1>4, Constants DEF Install
    <2>3. buckets' \in [Instances -> [Ids -> Bucket \cup {NoBucket}]]
      BY <1>0, <1>4, <2>1 DEF Install
    <2> QED
      BY <1>4, <2>2, <2>3 DEF Install
  <1>5. CASE MarkExhausted(r)
    <2>1. call' \in [Requests -> Call]
      BY <1>5, Constants DEF MarkExhausted
    <2>2. CASE Mine(r) # NoBucket
      <3>1. Mine(r) \in Bucket
        BY <2>2, MineIsBucket
      <3>2. /\ [Mine(r) EXCEPT !.exhausted = TRUE] \in Bucket
            /\ Exhausted(TimeLeft(Mine(r), now)) \in Result
        BY <1>0, <3>1, BucketTypes, Constants
      <3>3. /\ buckets' = [buckets EXCEPT ![Home[r]][id[r]] =
                                          [Mine(r) EXCEPT !.exhausted = TRUE]]
            /\ result' = [result EXCEPT ![r] =
                                          Exhausted(TimeLeft(Mine(r), now))]
        BY <1>5, <2>2 DEF MarkExhausted
      <3>4. /\ buckets' \in [Instances -> [Ids -> Bucket \cup {NoBucket}]]
            /\ result' \in [Requests -> Result]
        BY <1>0, <3>2, <3>3
      <3> QED
        BY <1>5, <2>1, <3>4 DEF MarkExhausted
    <2>3. CASE Mine(r) = NoBucket
      <3>1. Exhausted(call[r].ttl) \in Result
        BY <1>0 DEF Exhausted, Result, Call
      <3>2. buckets' = buckets /\ result' \in [Requests -> Result]
        BY <1>5, <2>3, <3>1 DEF MarkExhausted
      <3> QED
        BY <1>5, <2>1, <3>2 DEF MarkExhausted
    <2> QED
      BY <2>2, <2>3
  <1>6. CASE ReleaseFlight(r)
    <2>1. /\ refills' \in [Instances -> [Ids -> Flight]]
          /\ notify' \in [Requests -> Flight]
          /\ result' \in [Requests -> Result]
          /\ pc' \in [Requests -> Steps]
      BY <1>0, <1>6, Constants DEF ReleaseFlight
    <2> QED
      BY <1>6, <2>1 DEF ReleaseFlight
  <1> QED
    BY <1>1, <1>2, <1>3, <1>4, <1>5, <1>6

\* One more, up to a bound.
LEMMA CountUpTo ==
    ASSUME NEW f \in [Ids -> [Windows -> Nat]], NEW b \in Ids, NEW w,
           NEW cap \in Nat
    PROVE  [f EXCEPT ![b][w] = IF @ < cap THEN @ + 1 ELSE @]
             \in [Ids -> [Windows -> Nat]]
  <1> DEFINE v == IF f[b][w] < cap THEN f[b][w] + 1 ELSE f[b][w]
  <1>1. w \in Windows => v \in Nat
    OBVIOUS
  <1>2. [f[b] EXCEPT ![w] = v] \in [Windows -> Nat]
    BY <1>1
  <1> QED
    BY <1>2

\* The counters of the histories.
LEMMA HistoryTypes ==
    ASSUME TypeOK, NEW b \in Ids
    PROVE  /\ \A i, w : CountSpent(i, b, w) =>
                 /\ spent' \in [Ids -> [Windows -> Nat]]
                 /\ late' \in [Ids -> [Windows -> Nat]]
           /\ CountFree(b) => free' \in [Ids -> [Windows -> Nat]]
  <1>0. /\ spent \in [Ids -> [Windows -> Nat]]
        /\ late \in [Ids -> [Windows -> Nat]]
        /\ free \in [Ids -> [Windows -> Nat]]
        /\ SpentCap \in Nat /\ LateCap \in Nat /\ FreeCap \in Nat
    BY StoreAssumption DEF TypeOK
  <1>1. ASSUME NEW i, NEW w, CountSpent(i, b, w)
        PROVE  /\ spent' \in [Ids -> [Windows -> Nat]]
               /\ late' \in [Ids -> [Windows -> Nat]]
    <2>1. /\ OneMore(spent, SpentCap, b, w) \in [Ids -> [Windows -> Nat]]
          /\ OneMore(late, LateCap, b, w) \in [Ids -> [Windows -> Nat]]
      BY <1>0, CountUpTo DEF OneMore
    <2> QED
      BY <1>0, <1>1, <2>1 DEF CountSpent
  <1>2. ASSUME CountFree(b) PROVE free' \in [Ids -> [Windows -> Nat]]
    <2> DEFINE w == keys[b].window
    <2>1. [free EXCEPT ![b][w] = IF @ < FreeCap THEN @ + 1 ELSE @]
            \in [Ids -> [Windows -> Nat]]
      BY <1>0, CountUpTo
    <2> QED
      BY <1>0, <1>2, <2>1 DEF CountFree
  <1> QED
    BY <1>1, <1>2

\* Consuming, evicting and disconnecting keep the types.
LEMMA ConsumeSteps ==
    ASSUME TypeOK, NEW r \in Requests,
           \/ ConsumeToken(r) \/ ConsumeNothing(r) \/ ConsumeExpired(r)
           \/ Evict(r) \/ DisconnectFollower(r) \/ DisconnectLeader(r)
    PROVE  TypeOK'
  <1> USE DEF TypeOK, CacheTypeOK, Goto, SetBucket, cleanupVars,
              serverVars, history, Steps
  <1>0. /\ Home[r] \in Instances /\ id[r] \in Ids
        /\ now \in 1 .. MaxTime /\ now \in Nat
    BY StoreAssumption, TimeAssumption
  <1>1. CASE ConsumeToken(r)
    <2>1. Mine(r) \in Bucket
      BY <1>1, MineIsBucket DEF ConsumeToken
    <2>2. BucketAfterConsume(Mine(r)) \in Bucket
      BY <1>0, <2>1, BucketTypes, Constants
    <2>3. /\ spent' \in [Ids -> [Windows -> Nat]]
          /\ late' \in [Ids -> [Windows -> Nat]]
      BY <1>0, <1>1, HistoryTypes DEF ConsumeToken
    <2>4. buckets' \in [Instances -> [Ids -> Bucket \cup {NoBucket}]]
      BY <1>0, <1>1, <2>2 DEF ConsumeToken
    <2> QED
      BY <1>1, <2>3, <2>4 DEF ConsumeToken
  <1>2. CASE ConsumeNothing(r)
    <2>1. free' \in [Ids -> [Windows -> Nat]]
      BY <1>0, <1>2, HistoryTypes DEF ConsumeNothing
    <2> QED
      BY <1>2, <2>1 DEF ConsumeNothing
  <1>3. CASE ConsumeExpired(r)
    BY <1>3 DEF ConsumeExpired
  <1>4. CASE Evict(r)
    <2>1. free' \in [Ids -> [Windows -> Nat]]
      BY <1>0, <1>4, HistoryTypes DEF Evict
    <2>2. buckets' \in [Instances -> [Ids -> Bucket \cup {NoBucket}]]
      BY <1>0, <1>4 DEF Evict
    <2> QED
      BY <1>4, <2>1, <2>2 DEF Evict
  <1>5. CASE DisconnectFollower(r)
    BY <1>5, Constants DEF DisconnectFollower
  <1>6. CASE DisconnectLeader(r)
    <2>1. orphans' \in SUBSET Ids
      BY <1>0, <1>6 DEF DisconnectLeader, MayStillArrive
    <2>2. /\ refills' \in [Instances -> [Ids -> Flight]]
          /\ notify' \in [Requests -> Flight]
          /\ call' \in [Requests -> Call]
      BY <1>0, <1>6, Constants DEF DisconnectLeader
    <2> QED
      BY <1>6, <2>1, <2>2 DEF DisconnectLeader
  <1> QED
    BY <1>1, <1>2, <1>3, <1>4, <1>5, <1>6

\* Tokens that go back to Redis keep the types, and so do those of a release
\* that is left on the wire.
LEMMA RefundTypes ==
    ASSUME TypeOK, NEW b \in Ids, NEW n \in Nat, NEW w, Refund(b, n, w)
    PROVE  /\ keys' \in [Ids -> Key]
           /\ refunded' \in SUBSET (Ids \X Windows)
  <1>0. /\ CacheTypeOK /\ keys \in [Ids -> Key]
        /\ refunded \in SUBSET (Ids \X Windows)
    BY DEF TypeOK, CacheTypeOK
  <1>1. KeyAfterRelease(b, n, w) \in Key
    BY <1>0, ReleaseFacts
  <1>2. keys' \in [Ids -> Key]
    BY <1>0, <1>1 DEF Refund
  <1>3. CASE keys' = keys
    BY <1>0, <1>2, <1>3 DEF Refund
  <1>4. CASE keys' # keys
    <2>1. KeyAfterRelease(b, n, w) # keys[b]
      BY <1>0, <1>4 DEF Refund
    <2>2. w \in Windows
      BY <1>0, <2>1 DEF KeyAfterRelease, Key
    <2> QED
      BY <1>0, <1>2, <1>4, <2>2 DEF Refund
  <1> QED
    BY <1>3, <1>4

LEMMA AdriftTypes ==
    ASSUME TypeOK, NEW i \in Instances, NEW S, MayStillReturn(i, S)
    PROVE  adrift' \in [Ids -> [Windows -> Nat]]
  <1>1. PICK T \in SUBSET S :
           adrift' = [b \in Ids |-> [w \in Windows |->
                        adrift[b][w] +
                        (IF b \in T THEN TokensIn(returning[i][b], w) ELSE 0)]]
    BY DEF MayStillReturn
  <1>2. \A b \in Ids, w \in Windows : TokensIn(returning[i][b], w) \in Nat
    BY DEF TypeOK, TokensIn, Bucket
  <1>3. \A b \in Ids, w \in Windows : adrift[b][w] \in Nat
    BY DEF TypeOK
  <1>4. \A b \in Ids, w \in Windows :
           adrift[b][w]
             + (IF b \in T THEN TokensIn(returning[i][b], w) ELSE 0) \in Nat
    BY <1>2, <1>3
  <1> QED
    BY <1>1, <1>4

\* The cleanup task keeps the types.
LEMMA CleanupSteps ==
    ASSUME TypeOK, NEW i \in Instances, Clean(i)
    PROVE  TypeOK'
  <1> USE DEF TypeOK, CacheTypeOK, SetBucket, requestVars, serverVars, history
  <1>1. CASE CleanupTick(i)
    BY <1>1 DEF CleanupTick, ExpiredIds, Held
  <1>2. ASSUME NEW b \in Ids, CleanupRemove(i, b) PROVE TypeOK'
    BY <1>2 DEF CleanupRemove
  <1>3. CASE ReceiveShutdown(i)
    <2>1. [b \in Ids |-> IF b \in Returnable(i) THEN buckets[i][b]
                         ELSE NoBucket]
            \in [Ids -> Bucket \cup {NoBucket}]
      OBVIOUS
    <2> QED
      BY <1>3, <2>1 DEF ReceiveShutdown, AfterSnapshot
  <1>4. ASSUME NEW b \in Ids, ReturnTokens(i, b) PROVE TypeOK'
    <2>1. returning[i][b] \in Bucket
      BY <1>4 DEF ReturnTokens, ToReturn
    <2>2. returning[i][b].tokens \in Nat
      BY <2>1 DEF Bucket
    <2> HIDE DEF TypeOK, CacheTypeOK
    <2>3. keys' \in [Ids -> Key] /\ refunded' \in SUBSET (Ids \X Windows)
      BY <1>4, <2>2, RefundTypes DEF ReturnTokens
    <2> USE DEF TypeOK
    <2>4. /\ returning' \in [Instances -> [Ids -> Bucket \cup {NoBucket}]]
          /\ cleanup' \in [Instances ->
               {"off", "dead", "select", "removing", "releasing", "done"}]
      BY <1>4 DEF ReturnTokens, Returned
    <2>5. /\ CacheTypeOK
          /\ UNCHANGED <<now, buckets, refills, requestVars, doomed, serverVars,
                         orphans, adrift, spent, late, free>>
      BY <1>4 DEF ReturnTokens
    <2>6. CacheTypeOK'
      BY <2>3, <2>5 DEF CacheTypeOK
    <2> QED
      BY <2>3, <2>4, <2>5, <2>6
  <1>5. ASSUME NEW b \in Ids, ReturnFails(i, b) PROVE TypeOK'
    <2>1. adrift' \in [Ids -> [Windows -> Nat]]
      BY <1>5, AdriftTypes DEF ReturnFails
    <2> QED
      BY <1>5, <2>1 DEF ReturnFails, Returned
  <1> QED
    BY <1>1, <1>2, <1>3, <1>4, <1>5 DEF Clean

\* The life of an instance, late commands and the clock keep the types.
LEMMA OtherSteps ==
    ASSUME TypeOK,
           \/ \E i \in Instances :
                 Terminate(i) \/ Drain(i) \/ Exit(i) \/ Crash(i)
           \/ \E b \in Ids :
                 OrphanExec(b) \/ \E w \in Windows : LateReturn(b, w)
           \/ Tick
    PROVE  TypeOK'
  <1> USE DEF TypeOK, CacheTypeOK, requestVars, cleanupVars, serverVars, history
  <1>1. ASSUME NEW i \in Instances, Terminate(i) PROVE TypeOK'
    BY <1>1 DEF Terminate
  <1>2. ASSUME NEW i \in Instances, Drain(i) PROVE TypeOK'
    BY <1>2 DEF Drain
  <1>3. ASSUME NEW i \in Instances, Restart(i)
        PROVE  /\ buckets' \in [Instances -> [Ids -> Bucket \cup {NoBucket}]]
               /\ refills' \in [Instances -> [Ids -> Flight]]
               /\ cleanup' \in [Instances ->
                    {"off", "dead", "select", "removing", "releasing", "done"}]
               /\ doomed' \in [Instances -> SUBSET Ids]
               /\ returning' \in [Instances -> [Ids -> Bucket \cup {NoBucket}]]
               /\ stopping' \in [Instances -> BOOLEAN]
               /\ accepting' \in [Instances -> BOOLEAN]
    BY <1>3, Constants DEF Restart, CleanupStart
  <1>4. ASSUME NEW i \in Instances, Exit(i) PROVE TypeOK'
    BY <1>3, <1>4 DEF Exit
  <1>5. ASSUME NEW i \in Instances, Crash(i) PROVE TypeOK'
    <2>1. orphans' \in SUBSET Ids
      BY <1>5 DEF Crash, MayStillArrive, RequestsOf
    <2>2. /\ pc' \in [Requests -> Steps]
          /\ call' \in [Requests -> Call]
          /\ notify' \in [Requests -> Flight]
          /\ result' \in [Requests -> Result]
      BY <1>5, Constants DEF Crash, Steps
    <2>3. Restart(i)
      BY <1>5 DEF Crash
    <2>4. adrift' \in [Ids -> [Windows -> Nat]]
      BY <1>5, AdriftTypes DEF Crash
    <2> QED
      BY <1>3, <1>5, <2>1, <2>2, <2>3, <2>4 DEF Crash
  <1>6. ASSUME NEW b \in Ids, OrphanExec(b) PROVE TypeOK'
    <2>1. KeyAfterLease(b) \in Key
      BY LeaseFacts
    <2>2. keys' \in [Ids -> Key]
      BY <1>6, <2>1 DEF OrphanExec
    <2> QED
      BY <1>6, <2>2 DEF OrphanExec
  <1>7. CASE Tick
    <2>1. NoKey \in Key
      BY Constants DEF NoKey, Key
    <2>2. /\ now' \in 1 .. MaxTime
          /\ keys' \in [Ids -> Key]
      BY <1>7, <2>1, TimeAssumption DEF Tick, Advance
    <2> QED
      BY <1>7, <2>2 DEF Tick
  <1>8. ASSUME NEW b \in Ids, NEW w \in Windows, LateReturn(b, w)
        PROVE  TypeOK'
    <2>1. PICK n \in 1 .. adrift[b][w] :
             /\ adrift' = [adrift EXCEPT ![b][w] = @ - n]
             /\ Refund(b, n, w)
             /\ UNCHANGED <<now, buckets, refills, requestVars, cleanupVars,
                            serverVars, orphans, spent, late, free>>
      BY <1>8 DEF LateReturn
    <2>2. adrift[b][w] \in Nat /\ n \in Nat /\ adrift[b][w] - n \in Nat
      OBVIOUS
    <2>3. adrift' \in [Ids -> [Windows -> Nat]]
      <3>1. [adrift[b] EXCEPT ![w] = adrift[b][w] - n] \in [Windows -> Nat]
        BY <2>2
      <3> QED
        BY <2>1, <3>1
    <2> HIDE DEF TypeOK, CacheTypeOK
    <2>4. keys' \in [Ids -> Key] /\ refunded' \in SUBSET (Ids \X Windows)
      BY <2>1, <2>2, RefundTypes
    <2>5. CacheTypeOK'
      BY <2>1, <2>4 DEF TypeOK, CacheTypeOK
    <2> QED
      BY <2>1, <2>3, <2>4, <2>5 DEF TypeOK
  <1> QED
    BY <1>1, <1>2, <1>4, <1>5, <1>6, <1>7, <1>8

\* Every variable keeps its type: in particular no counter, in Redis or in a
\* bucket, goes below zero, whatever the policies and the schedule.
THEOREM TypeCorrect == Spec => []TypeOK
  <1>1. Init => TypeOK
    <2> SUFFICES ASSUME Init PROVE TypeOK
      OBVIOUS
    <2>1. CacheTypeOK
      BY TimeAssumption, Constants
         DEF Init, CacheInit, CacheTypeOK, NoKey, Key
    <2> QED
      BY <2>1, Constants DEF Init, TypeOK, Steps, CleanupStart
  <1>2. TypeOK /\ [Next]_vars => TypeOK'
    <2> SUFFICES ASSUME TypeOK, [Next]_vars PROVE TypeOK'
      OBVIOUS
    <2>1. CASE UNCHANGED vars
      BY <2>1 DEF TypeOK, CacheTypeOK, vars, requestVars, cleanupVars,
         serverVars, history
    <2>2. CASE Next
      BY <2>2, WaitingSteps, LeaseSteps, ConsumeSteps, CleanupSteps, OtherSteps
         DEF Next, Serve, Answered
    <2> QED
      BY <2>1, <2>2
  <1> QED
    BY <1>1, <1>2, PTL DEF Spec

-----------------------------------------------------------------------------
(***************************************************************************)
(* The windows of buckets: WithinWindow.                                   *)
(*                                                                         *)
(* A lease knows when it was last timed (`at`) and how long the window     *)
(* lasted then (`ttl`).  Timely says what a reply in hand promises.        *)
(***************************************************************************)
Fits(c) == c.at + c.ttl <= c.window

Timely(r) ==
    /\ pc[r] = "calling" => call[r].at <= now
    /\ pc[r] = "replied" => call[r].at <= now /\ Fits(call[r])
    /\ pc[r] = "install" => /\ call[r].at <= now
                            /\ now <= call[r].at + MaxLag
                            /\ call[r].ttl = 0 \/ Fits(call[r])

Within(bk, t) == bk.expires_at <= bk.window + MaxLag \/ IsExpired(bk, t)

WindowInv ==
    /\ \A r \in Requests : Timely(r)
    /\ WithinWindow

\* The bucket is gone, or ends when it did before and has the same window.
SameEnd(old, new) ==
    \/ new = NoBucket
    \/ /\ old # NoBucket
       /\ new.expires_at = old.expires_at /\ new.window = old.window

\* Time does not make a bucket last longer.
LEMMA BucketsStayWithin ==
    ASSUME TypeOK, TypeOK', WithinWindow, now <= now',
           \A i \in Instances, b \in Ids :
              \/ SameEnd(buckets[i][b], buckets'[i][b])
              \/ Within(buckets'[i][b], now')
    PROVE  WithinWindow'
  <1> SUFFICES ASSUME NEW i \in Instances, NEW b \in Ids,
                      buckets'[i][b] # NoBucket
               PROVE  Within(buckets'[i][b], now')
    BY DEF WithinWindow, Within
  <1>1. CASE SameEnd(buckets[i][b], buckets'[i][b])
    <2>1. /\ buckets[i][b] # NoBucket
          /\ buckets'[i][b].expires_at = buckets[i][b].expires_at
          /\ buckets'[i][b].window = buckets[i][b].window
      BY <1>1 DEF SameEnd
    <2>2. Within(buckets[i][b], now)
      BY <2>1 DEF WithinWindow, Within
    <2>3. /\ buckets[i][b] \in Bucket /\ buckets[i][b].expires_at \in Nat
          /\ now \in Nat /\ now' \in Nat
      BY <2>1, TimeAssumption DEF TypeOK, CacheTypeOK, Bucket
    <2> QED
      BY <2>1, <2>2, <2>3 DEF Within, IsExpired
  <1> QED
    BY <1>1

\* A request that is where it was, with the call it had, while time stands
\* still; and one that makes no call.
LEMMA StaysTimely ==
    ASSUME \A r \in Requests : Timely(r), now' = now,
           \A r \in Requests :
              \/ pc'[r] = pc[r] /\ call'[r] = call[r]
              \/ pc'[r] \notin {"calling", "replied", "install"}
    PROVE  \A r \in Requests : Timely(r)'
  BY DEF Timely, Fits

\* Steps of one request that touch neither its call nor a bucket, or drop
\* either.
LEMMA DroppingSteps ==
    ASSUME TypeOK, TypeOK', WindowInv, NEW r \in Requests,
           \/ \E b \in Ids : Arrive(r, b)
           \/ CheckDenied(r) \/ CheckServed(r) \/ CheckMissing(r)
           \/ JoinFlight(r) \/ Register(r) \/ LeaseFails(r)
           \/ ConsumeNothing(r) \/ ConsumeExpired(r) \/ Evict(r)
           \/ DisconnectFollower(r) \/ DisconnectLeader(r)
    PROVE  WindowInv'
  <1>0. /\ pc \in [Requests -> Steps] /\ call \in [Requests -> Call]
        /\ buckets \in [Instances -> [Ids -> Bucket \cup {NoBucket}]]
        /\ Home[r] \in Instances /\ id[r] \in Ids /\ now \in Nat
    BY StoreAssumption, TimeAssumption DEF TypeOK, CacheTypeOK
  <1>1. /\ now' = now
        /\ \E to \in Steps \ {"calling", "replied", "install"} :
              pc' = [pc EXCEPT ![r] = to]
        /\ call' = call \/ call' = [call EXCEPT ![r] = NoCall]
        /\ \/ buckets' = buckets
           \/ buckets' = [buckets EXCEPT ![Home[r]][id[r]] = NoBucket]
    BY DEF Arrive, CheckDenied, CheckServed, CheckMissing, JoinFlight,
           Register, LeaseFails, ConsumeNothing, ConsumeExpired, Evict,
           DisconnectFollower, DisconnectLeader, Goto, SetBucket, Steps,
           Leading, AfterError
  <1>2. \A q \in Requests : Timely(q)'
    BY <1>0, <1>1, StaysTimely DEF WindowInv
  <1>3. WithinWindow'
    <2>1. \A i \in Instances, b \in Ids :
             SameEnd(buckets[i][b], buckets'[i][b])
      BY <1>0, <1>1 DEF SameEnd
    <2> QED
      BY <1>0, <1>1, <2>1, BucketsStayWithin DEF WindowInv
  <1> QED
    BY <1>2, <1>3 DEF WindowInv

\* The lease is timed from before it is sent, and again when the reply is in:
\* what is left of the window is never reckoned too high.
LEMMA TimedSteps ==
    ASSUME TypeOK, TypeOK', WindowInv, NEW r \in Requests,
           TakeFlight(r) \/ LeaseExec(r) \/ LeaseReply(r)
    PROVE  WindowInv'
  <1> DEFINE c == call[r]
  <1>0. /\ pc \in [Requests -> Steps] /\ call \in [Requests -> Call]
        /\ id[r] \in Ids /\ now \in Nat /\ CacheTypeOK /\ MaxLag \in Nat
        /\ c.at \in Nat /\ c.ttl \in Nat /\ c.window \in Nat
    <2>1. /\ now \in 1 .. MaxTime /\ c \in Call
          /\ pc \in [Requests -> Steps] /\ call \in [Requests -> Call]
      BY DEF TypeOK, CacheTypeOK
    <2>2. c.at \in Nat /\ c.ttl \in Nat /\ c.window \in Nat
      BY <2>1, CallTypes, Constants
    <2> QED
      BY <2>1, <2>2, StoreAssumption, TimeAssumption DEF TypeOK
  <1>1. UNCHANGED <<now, buckets>> /\ Timely(r)
    BY DEF TakeFlight, LeaseExec, LeaseReply, WindowInv
  <1>2. \A q \in Requests \ {r} : pc'[q] = pc[q] /\ call'[q] = call[q]
    BY <1>0 DEF TakeFlight, LeaseExec, LeaseReply, Goto
  <1>3. Timely(r)'
    <2>1. CASE TakeFlight(r)
      <3>1. pc'[r] = "calling" /\ call'[r].at = now
        BY <1>0, <2>1 DEF TakeFlight, Goto, Started
      <3> QED
        BY <1>0, <1>1, <3>1 DEF Timely
    <2>2. CASE LeaseExec(r)
      <3> DEFINE w == KeyAfterLease(id[r]).window
      <3>1. w \in Nat /\ c.at <= now
        <4>1. KeyAfterLease(id[r]) \in Key
          BY <1>0, LeaseFacts
        <4> QED
          BY <1>1, <2>2, <4>1, Constants DEF LeaseExec, Timely, Key
      <3>2. /\ pc'[r] = "replied" /\ call'[r].at = c.at
            /\ call'[r].ttl = w - now /\ call'[r].window = w
        BY <1>0, <2>2 DEF LeaseExec, Goto
      <3> HIDE DEF c, w
      <3>3. Fits(call'[r])
        BY <1>0, <3>1, <3>2 DEF Fits
      <3> QED
        BY <1>1, <3>1, <3>2, <3>3 DEF Timely, Fits
    <2>3. CASE LeaseReply(r)
      <3>1. c.at <= now /\ c.at + c.ttl <= c.window
        BY <1>1, <2>3 DEF LeaseReply, Timely, Fits
      <3>2. /\ pc'[r] = "install" /\ call'[r].at = now
            /\ call'[r].ttl = TimeLeftFromStart(c)
            /\ call'[r].window = c.window
        BY <1>0, <2>3 DEF LeaseReply, Goto
      <3> HIDE DEF c
      <3>3. call'[r].ttl = 0 \/ now + call'[r].ttl <= c.window
        BY <1>0, <3>1, <3>2 DEF TimeLeftFromStart
      <3>4. now <= now /\ now <= now + MaxLag
        BY <1>0
      <3> QED
        BY <1>1, <3>2, <3>3, <3>4 DEF Timely, Fits
    <2> QED
      BY <2>1, <2>2, <2>3
  <1>4. \A q \in Requests \ {r} : Timely(q)'
    BY <1>1, <1>2 DEF WindowInv, Timely, Fits
  <1>5. WithinWindow'
    BY <1>1 DEF WindowInv, WithinWindow
  <1> QED
    BY <1>3, <1>4, <1>5 DEF WindowInv

\* The bucket that is inserted ends with its window but for MaxLag, or has
\* expired; a bucket that is marked or consumed from ends when it did.
LEMMA BucketSteps ==
    ASSUME TypeOK, TypeOK', WindowInv, NEW r \in Requests,
           Install(r) \/ MarkExhausted(r) \/ ConsumeToken(r)
    PROVE  WindowInv'
  <1> DEFINE c == call[r]
             old == buckets[Home[r]][id[r]]
  <1>0. /\ pc \in [Requests -> Steps] /\ call \in [Requests -> Call]
        /\ buckets \in [Instances -> [Ids -> Bucket \cup {NoBucket}]]
        /\ Home[r] \in Instances /\ id[r] \in Ids /\ now \in Nat
        /\ MaxLag \in Nat
        /\ c.at \in Nat /\ c.ttl \in Nat /\ c.window \in Nat
    <2>1. /\ now \in 1 .. MaxTime /\ c \in Call
          /\ pc \in [Requests -> Steps] /\ call \in [Requests -> Call]
      BY DEF TypeOK, CacheTypeOK
    <2>2. c.at \in Nat /\ c.ttl \in Nat /\ c.window \in Nat
      BY <2>1, CallTypes, Constants
    <2> QED
      BY <2>1, <2>2, StoreAssumption, TimeAssumption DEF TypeOK
  <1>1. /\ now' = now
        /\ \E to \in {"release", "idle"} : pc' = [pc EXCEPT ![r] = to]
        /\ call' = call \/ call' = [call EXCEPT ![r] = NoCall]
    BY DEF Install, MarkExhausted, ConsumeToken, Goto
  <1>2. \A q \in Requests : Timely(q)'
    BY <1>0, <1>1, StaysTimely DEF WindowInv
  <1>3. ASSUME NEW new, buckets' = [buckets EXCEPT ![Home[r]][id[r]] = new],
               SameEnd(old, new) \/ Within(new, now)
        PROVE  WithinWindow'
    <2>1. \A i \in Instances, b \in Ids :
             buckets'[i][b] = IF i = Home[r] /\ b = id[r] THEN new
                              ELSE buckets[i][b]
      BY <1>0, <1>3
    <2>2. \A i \in Instances, b \in Ids :
             \/ SameEnd(buckets[i][b], buckets'[i][b])
             \/ Within(buckets'[i][b], now')
      BY <1>1, <1>3, <2>1 DEF SameEnd
    <2> QED
      BY <1>0, <1>1, <2>2, BucketsStayWithin DEF WindowInv
  <1>4. CASE Install(r)
    <2> DEFINE new == NewBucket(c.leased, c.ttl, c.window, now)
    <2>1. buckets' = [buckets EXCEPT ![Home[r]][id[r]] = new]
      BY <1>4 DEF Install, SetBucket
    <2>2. /\ now <= c.at + MaxLag
          /\ c.ttl = 0 \/ c.at + c.ttl <= c.window
      BY <1>4 DEF Install, WindowInv, Timely, Fits
    <2>3. new.expires_at = now + c.ttl /\ new.window = c.window
      BY DEF NewBucket
    <2> HIDE DEF c, new
    <2>4. Within(new, now)
      BY <1>0, <2>2, <2>3 DEF Within, IsExpired
    <2> QED
      BY <1>2, <1>3, <2>1, <2>4 DEF WindowInv
  <1>5. CASE MarkExhausted(r) /\ Mine(r) = NoBucket
    <2>1. buckets' = buckets
      BY <1>5 DEF MarkExhausted
    <2> QED
      BY <1>1, <1>2, <2>1 DEF WindowInv, WithinWindow
  <1>6. CASE \/ MarkExhausted(r) /\ Mine(r) # NoBucket
             \/ ConsumeToken(r)
    <2>1. old \in Bucket /\ old # NoBucket
      BY <1>6, MineIsBucket DEF ConsumeToken, Mine
    <2>2. \E new : /\ buckets' = [buckets EXCEPT ![Home[r]][id[r]] = new]
                   /\ \/ new = [old EXCEPT !.exhausted = TRUE]
                      \/ new = [old EXCEPT !.tokens = AfterConsume(old)]
      BY <1>6 DEF MarkExhausted, ConsumeToken, SetBucket, Mine,
                  BucketAfterConsume
    <2>3. PICK new : /\ buckets' = [buckets EXCEPT ![Home[r]][id[r]] = new]
                     /\ \/ new = [old EXCEPT !.exhausted = TRUE]
                        \/ new = [old EXCEPT !.tokens = AfterConsume(old)]
      BY <2>2
    <2>4. new.expires_at = old.expires_at /\ new.window = old.window
      BY <2>1, <2>3 DEF Bucket
    <2>5. SameEnd(old, new)
      BY <2>1, <2>4 DEF SameEnd
    <2> QED
      BY <1>2, <1>3, <2>3, <2>5 DEF WindowInv
  <1> QED
    BY <1>2, <1>4, <1>5, <1>6 DEF WindowInv

\* A flight that is over, and the steps of nobody's request.
LEMMA OutsideSteps ==
    ASSUME TypeOK, TypeOK', WindowInv,
           \/ \E r \in Requests : ReleaseFlight(r)
           \/ \E i \in Instances :
                 Clean(i) \/ Terminate(i) \/ Drain(i) \/ Exit(i) \/ Crash(i)
           \/ \E b \in Ids :
                 OrphanExec(b) \/ \E w \in Windows : LateReturn(b, w)
           \/ UNCHANGED vars
    PROVE  WindowInv'
  <1>0. /\ buckets \in [Instances -> [Ids -> Bucket \cup {NoBucket}]]
        /\ now \in Nat
    BY TimeAssumption DEF TypeOK, CacheTypeOK
  <1>1. now' = now
    BY DEF ReleaseFlight, Clean, CleanupTick, CleanupRemove, ReceiveShutdown,
           ReturnTokens, ReturnFails, Terminate, Drain, Exit, Crash,
           OrphanExec, LateReturn, vars
  <1>2. \A r \in Requests :
           \/ pc'[r] = pc[r] /\ call'[r] = call[r]
           \/ pc'[r] \notin {"calling", "replied", "install"}
    <2>1. CASE \E r \in Requests : ReleaseFlight(r)
      BY <2>1 DEF ReleaseFlight
    <2>2. CASE \E i \in Instances : Crash(i)
      BY <2>2 DEF Crash
    <2>3. CASE UNCHANGED <<pc, call>>
      BY <2>3
    <2> QED
      BY <2>1, <2>2, <2>3
         DEF Clean, CleanupTick, CleanupRemove, ReceiveShutdown, ReturnTokens,
             ReturnFails, Terminate, Drain, Exit, OrphanExec, LateReturn, vars,
             requestVars
  <1>3. \A i \in Instances, b \in Ids : SameEnd(buckets[i][b], buckets'[i][b])
    <2>1. \/ buckets' = buckets
          \/ \E i \in Instances, b \in Ids :
                buckets' = [buckets EXCEPT ![i][b] = NoBucket]
          \/ \E i \in Instances : buckets' = [buckets EXCEPT ![i] = EmptyMap]
      BY DEF ReleaseFlight, Clean, CleanupTick, CleanupRemove,
             ReceiveShutdown, ReturnTokens, ReturnFails, Terminate, Drain,
             Exit, Crash, Restart, SetBucket, OrphanExec, LateReturn, vars
    <2> QED
      BY <1>0, <2>1 DEF SameEnd, EmptyMap
  <1> QED
    BY <1>0, <1>1, <1>2, <1>3, StaysTimely, BucketsStayWithin DEF WindowInv

\* Time goes on only as far as the tasks with a reply in hand let it.
LEMMA TickWithin ==
    ASSUME TypeOK, TypeOK', WindowInv, Tick
    PROVE  WindowInv'
  <1>0. now \in Nat /\ MaxLag \in Nat /\ \A r \in Requests : call[r].at \in Nat
    BY StoreAssumption, TimeAssumption DEF TypeOK, CacheTypeOK, Call
  <1>1. /\ now' = now + 1 /\ UNCHANGED <<buckets, pc, call>>
        /\ \A r \in Requests : pc[r] = "install" => now < call[r].at + MaxLag
    BY DEF Tick, Advance, requestVars
  <1>2. \A r \in Requests : Timely(r)'
    <2> TAKE r \in Requests
    <2>1. call[r].at <= now => call[r].at <= now + 1
      BY <1>0
    <2>2. now < call[r].at + MaxLag => now + 1 <= call[r].at + MaxLag
      BY <1>0
    <2>3. Timely(r)
      BY DEF WindowInv
    <2> QED
      BY <1>1, <2>1, <2>2, <2>3 DEF Timely, Fits
  <1>3. WithinWindow'
    <2>1. \A i \in Instances, b \in Ids :
             SameEnd(buckets[i][b], buckets'[i][b])
      BY <1>1 DEF SameEnd
    <2> QED
      BY <1>0, <1>1, <2>1, BucketsStayWithin DEF WindowInv
  <1> QED
    BY <1>2, <1>3 DEF WindowInv

\* So it is in every state.
LEMMA WindowsHold == Spec => []WindowInv
  <1>1. Init => WindowInv
    BY DEF Init, WindowInv, Timely, WithinWindow, EmptyMap
  <1>2. TypeOK /\ TypeOK' /\ WindowInv /\ [Next]_vars => WindowInv'
    BY DroppingSteps, TimedSteps, BucketSteps, OutsideSteps, TickWithin
       DEF Next, Serve, Answered
  <1> QED
    BY <1>1, <1>2, TypeCorrect, PTL DEF Spec

\* WithinWindow: however long the reply of cache::lease took and wherever the
\* task was preempted, Bucket::new makes no bucket that outlives the window of
\* Redis its tokens came from by more than the preemption.
THEOREM BucketsEndWithWindow == Spec => []WithinWindow
  <1>1. WindowInv => WithinWindow
    BY DEF WindowInv
  <1> QED
    BY <1>1, WindowsHold, PTL

=============================================================================
