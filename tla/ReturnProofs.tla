---------------------------- MODULE ReturnProofs ----------------------------
(***************************************************************************)
(* The return of tokens: ReturnsBounded for any number of instances, which *)
(* may be told to stop, crash and be replaced in any order, and for        *)
(* releases that run when their sender has given up or is gone.            *)
(*                                                                         *)
(* A claim on a window is a token that somebody may still spend or give    *)
(* back.  A window opens with its whole quota, so the inductive invariant  *)
(* adds that of a window that was never open nobody claims a token and     *)
(* none is spent (Unclaimed).  What a crash leaves on the wire must have   *)
(* been claimed before, so it adds that a cleanup task has something taken *)
(* down only while it returns it (TakenDown).                              *)
(*                                                                         *)
(* And the way out of every instance, which is that of Lifecycle as it is  *)
(* that of one process in Server.                                          *)
(***************************************************************************)
EXTENDS LedgerProofs

Bounded(b, w) ==
    spent[b][w] + Claimed(b, w) + Remaining(b, w) <= Quota(b)

Unclaimed(b, w) ==
    now < w /\ keys[b].window < w => spent[b][w] = 0 /\ Claimed(b, w) = 0

ClaimsKept == \A b \in Ids, w \in Windows : Bounded(b, w) /\ Unclaimed(b, w)

TakenDown ==
    \A i \in Instances : ToReturn(i) # {} => cleanup[i] = "releasing"

ReturnInv == CarriedInReply /\ TakenDown /\ ClaimsKept

-----------------------------------------------------------------------------
(***************************************************************************)
(* The claims on one window of one key.                                    *)
(***************************************************************************)

\* A request claims what it holds; an instance what it holds, until the
\* cleanup task has taken down what to return.
LEMMA ClaimsAt ==
    ASSUME NEW b \in Ids, NEW w \in Windows
    PROVE  /\ \A i \in Instances :
                 /\ Claims(b, w)[i] = IF HasRead(i)
                                      THEN TokensIn(returning[i][b], w)
                                      ELSE TokensIn(buckets[i][b], w)
                 /\ Claims(b, w)'[i] = IF HasRead(i)'
                                       THEN TokensIn(returning'[i][b], w)
                                       ELSE TokensIn(buckets'[i][b], w)
           /\ \A r \in Requests :
                 /\ Claims(b, w)[r] = Carried(r, b, w)
                 /\ Claims(b, w)'[r] = Carried(r, b, w)'
  BY StoreAssumption DEF Claims, Owed, TokensIn

\* Each claim is a natural number, and so is what is claimed.
LEMMA ClaimsTypes ==
    ASSUME TypeOK, NEW b \in Ids, NEW w \in Windows
    PROVE  /\ Claims(b, w) \in [Holders -> Nat] /\ Total(Claims(b, w)) \in Nat
           /\ adrift[b][w] \in Nat
           /\ Claimed(b, w) = Total(Claims(b, w)) + adrift[b][w]
           /\ Claimed(b, w) \in Nat
  <1>1. \A i \in Instances : Owed(i, b, w) \in Nat
    BY DEF TypeOK, Owed, TokensIn, Bucket
  <1>2. \A r \in Requests : Carried(r, b, w) \in Nat
    BY DEF TypeOK, Carried, TokensOf, Call
  <1>3. Claims(b, w) \in [Holders -> Nat]
    BY <1>1, <1>2 DEF Claims, Holders
  <1>4. adrift[b][w] \in Nat
    BY DEF TypeOK
  <1>5. Total(Claims(b, w)) \in Nat
    BY <1>3, LedgerTypes, TotalType
  <1> QED
    BY <1>3, <1>4, <1>5 DEF Claimed

\* The claims of the next state have the same types.
LEMMA ClaimsTypesNext ==
    ASSUME TypeOK', NEW b \in Ids, NEW w \in Windows
    PROVE  /\ Claims(b, w)' \in [Holders -> Nat]
           /\ Total(Claims(b, w)') \in Nat
           /\ adrift'[b][w] \in Nat
           /\ Claimed(b, w)' = Total(Claims(b, w)') + adrift'[b][w]
           /\ Claimed(b, w)' \in Nat
  <1>1. \A i \in Instances : Owed(i, b, w)' \in Nat
    BY DEF TypeOK, Owed, TokensIn, Bucket
  <1>2. \A r \in Requests : Carried(r, b, w)' \in Nat
    BY DEF TypeOK, Carried, TokensOf, Call
  <1>3. Claims(b, w)' \in [Holders -> Nat]
    BY <1>1, <1>2 DEF Claims, Holders
  <1>4. IsFiniteSet(Holders)
    BY StoreAssumption, FS_Union DEF Holders
  <1>5. adrift'[b][w] \in Nat
    BY DEF TypeOK
  <1>6. Total(Claims(b, w)') \in Nat
    BY <1>3, <1>4, TotalType
  <1>7. Total(Claims(b, w))' = Total(Claims(b, w)')
    BY DEF Total, Units
  <1> QED
    BY <1>3, <1>5, <1>6, <1>7 DEF Claimed

\* Less is claimed and Redis does not have more.
LEMMA ClaimsShrink ==
    ASSUME TypeOK, TypeOK', NEW b \in Ids, NEW w \in Windows,
           Bounded(b, w), Unclaimed(b, w), spent'[b][w] = spent[b][w],
           Remaining(b, w)' <= Remaining(b, w),
           now <= now', keys[b].window <= keys'[b].window
                          \/ keys[b].window < now',
           Claimed(b, w)' <= Claimed(b, w)
    PROVE  Bounded(b, w)' /\ Unclaimed(b, w)'
  <1>1. Bounded(b, w)'
    BY LedgerTypes, LedgerTypesNext, ClaimsTypes, ClaimsTypesNext
       DEF Bounded, Quota
  <1>2. Unclaimed(b, w)'
    <2> SUFFICES ASSUME now' < w, keys'[b].window < w
                 PROVE  spent'[b][w] = 0 /\ Claimed(b, w)' = 0
      BY DEF Unclaimed
    <2>1. now < w /\ keys[b].window < w
      BY LedgerTypes, LedgerTypesNext
    <2>2. spent[b][w] = 0 /\ Claimed(b, w) = 0
      BY <2>1 DEF Unclaimed
    <2> QED
      BY <2>2, ClaimsTypesNext
  <1> QED
    BY <1>1, <1>2

\* No holder claims more, and no more is on the wire.
LEMMA FewerClaims ==
    ASSUME TypeOK, TypeOK', NEW b \in Ids, NEW w \in Windows,
           adrift' = adrift,
           \A h \in Holders : Claims(b, w)'[h] <= Claims(b, w)[h]
    PROVE  Claimed(b, w)' <= Claimed(b, w)
  <1>1. Total(Claims(b, w)') <= Total(Claims(b, w))
    BY LedgerTypes, ClaimsTypes, ClaimsTypesNext, TotalMonotone
  <1>2. adrift'[b][w] = adrift[b][w]
    OBVIOUS
  <1> QED
    BY <1>1, <1>2, ClaimsTypes, ClaimsTypesNext

\* A step that leaves the clock, the keys and what is spent alone, and no more
\* is claimed.
Yields ==
    /\ UNCHANGED <<now, keys, spent>>
    /\ \A b \in Ids, w \in Windows : Claimed(b, w)' <= Claimed(b, w)

\* Such a step keeps the claims within the quota.
LEMMA YieldKeeps ==
    ASSUME TypeOK, TypeOK', ClaimsKept, Yields
    PROVE  ClaimsKept'
  <1> SUFFICES ASSUME NEW b \in Ids, NEW w \in Windows
               PROVE  Bounded(b, w)' /\ Unclaimed(b, w)'
    BY DEF ClaimsKept
  <1>1. Remaining(b, w)' <= Remaining(b, w)
    <2>1. Remaining(b, w)' = Remaining(b, w)
      BY DEF Yields, Remaining
    <2> QED
      BY <2>1, LedgerTypes
  <1>2. now <= now' /\ keys[b].window <= keys'[b].window
    BY LedgerTypes DEF Yields
  <1> QED
    BY <1>1, <1>2, ClaimsShrink DEF ClaimsKept, Yields

\* While the cleanup tasks stand still, who holds no more claims no more.
LEMMA LosesYields ==
    ASSUME TypeOK, TypeOK', Loses, UNCHANGED <<cleanup, returning, adrift>>
    PROVE  Yields
  <1> SUFFICES ASSUME NEW b \in Ids, NEW w \in Windows, NEW h \in Holders
               PROVE  Claims(b, w)'[h] <= Claims(b, w)[h]
    BY FewerClaims DEF Yields, Loses
  <1>1. CASE h \in Requests
    BY <1>1, ClaimsAt DEF Loses, RepliesNoFuller
  <1>2. CASE h \in Instances
    <2>1. TokensIn(buckets'[h][b], w) <= TokensIn(buckets[h][b], w)
      BY <1>2 DEF Loses, BucketsNoFuller
    <2>2. Claims(b, w)[h] \in Nat /\ HasRead(h)' = HasRead(h)
          /\ returning'[h][b] = returning[h][b]
      BY ClaimsTypes DEF HasRead
    <2> QED
      BY <1>2, <2>1, <2>2, ClaimsAt
  <1> QED
    BY <1>1, <1>2 DEF Holders

-----------------------------------------------------------------------------
(***************************************************************************)
(* The steps of requests and of Redis.                                     *)
(***************************************************************************)

\* A token consumed once the cleanup task has read the buckets is one that
\* nobody claims: the task returns it all the same.
LEMMA LateYields ==
    ASSUME TypeOK, TypeOK', NEW r \in Requests, ConsumeToken(r),
           HasRead(Home[r])
    PROVE  Yields
  <1>1. /\ UNCHANGED <<now, keys, spent, cleanup, returning, id, call, adrift>>
        /\ \A j \in Instances, b \in Ids :
              j # Home[r] => buckets'[j][b] = buckets[j][b]
    <2>1. /\ UNCHANGED <<now, keys, cleanup, returning, id, call, adrift>>
          /\ CountSpent(Home[r], id[r], Mine(r).window)
          /\ SetBucket(Home[r], id[r], BucketAfterConsume(Mine(r)))
      BY DEF ConsumeToken, cleanupVars
    <2>2. buckets \in [Instances -> [Ids -> Bucket \cup {NoBucket}]]
      BY DEF TypeOK
    <2> QED
      BY <2>1, <2>2 DEF CountSpent, SetBucket
  <1> SUFFICES ASSUME NEW b \in Ids, NEW w \in Windows, NEW h \in Holders
               PROVE  Claims(b, w)'[h] <= Claims(b, w)[h]
    BY <1>1, FewerClaims DEF Yields
  <1>2. Claims(b, w)[h] \in Nat
    BY ClaimsTypes
  <1>3. CASE h \in Requests
    <2>1. Carried(h, b, w)' = Carried(h, b, w)
      BY <1>1 DEF Carried
    <2> QED
      BY <1>2, <1>3, <2>1, ClaimsAt
  <1>4. CASE h \in Instances
    <2>1. /\ HasRead(h)' = HasRead(h) /\ returning'[h][b] = returning[h][b]
          /\ h # Home[r] => buckets'[h][b] = buckets[h][b]
      BY <1>1, <1>4 DEF HasRead
    <2>2. Claims(b, w)'[h] = Claims(b, w)[h]
      BY <1>4, <2>1, ClaimsAt
    <2> QED
      BY <1>2, <2>2
  <1> QED
    BY <1>3, <1>4 DEF Holders

\* A token consumed in time is claimed no more, and spent.
Consumed(r, b, w) == b = id[r] /\ w = Mine(r).window

LEMMA ConsumeClaims ==
    ASSUME TypeOK, TypeOK', NEW r \in Requests, ConsumeToken(r),
           ~HasRead(Home[r]), NEW b \in Ids, NEW w \in Windows
    PROVE  /\ UNCHANGED <<now, keys>>
           /\ IF Consumed(r, b, w)
              THEN /\ Claimed(b, w)' + 1 = Claimed(b, w)
                   /\ spent'[b][w] \in {spent[b][w], spent[b][w] + 1}
              ELSE /\ Claimed(b, w)' = Claimed(b, w)
                   /\ spent'[b][w] = spent[b][w]
  <1> DEFINE f == Claims(b, w)
             g == Claims(b, w)'
             i == Home[r]
  <1>1. /\ UNCHANGED <<now, keys, cleanup, returning, adrift>>
        /\ CountSpent(i, id[r], Mine(r).window)
        /\ i \in Instances /\ id[r] \in Ids
    BY StoreAssumption DEF ConsumeToken, cleanupVars, TypeOK
  <1>2. /\ f \in [Holders -> Nat] /\ g \in [Holders -> Nat]
        /\ IsFiniteSet(Holders) /\ i \in Holders
        /\ Total(f) \in Nat /\ Total(g) \in Nat
    BY <1>1, LedgerTypes, ClaimsTypes, ClaimsTypesNext DEF Holders
  <1>3. \A j \in Instances :
           HasRead(j)' = HasRead(j) /\ returning'[j][b] = returning[j][b]
    BY <1>1 DEF HasRead
  <1>4. \A h \in Holders \ {i} : g[h] = f[h]
    BY <1>3, ConsumeTakes, ClaimsAt, HoldingsAt
  <1>5. IF Consumed(r, b, w) THEN g[i] + 1 = f[i] ELSE g[i] = f[i]
    <2>1. f[i] = Holdings(b, w)[i] /\ g[i] = Holdings(b, w)'[i]
      BY <1>1, <1>3, ClaimsAt, HoldingsAt
    <2> QED
      BY <2>1, ConsumeTakes DEF Consumed
  <1>6. /\ spent'[b][w] \in {spent[b][w], spent[b][w] + 1}
        /\ ~Consumed(r, b, w) => spent'[b][w] = spent[b][w]
    BY <1>1, CountedOnce DEF Consumed
  <1>7. /\ Claimed(b, w) = Total(f) + adrift[b][w]
        /\ Claimed(b, w)' = Total(g) + adrift[b][w]
        /\ adrift[b][w] \in Nat
    BY <1>1, ClaimsTypes, ClaimsTypesNext
  <1> HIDE DEF f, g, i
  <1>8. Total(g) + f[i] = Total(f) + g[i] /\ f[i] \in Nat /\ g[i] \in Nat
    BY <1>2, <1>4, TotalChange
  <1>9. CASE Consumed(r, b, w)
    <2>1. Total(g) + 1 = Total(f)
      BY <1>2, <1>5, <1>8, <1>9
    <2>2. Claimed(b, w)' + 1 = Claimed(b, w)
      BY <1>2, <1>7, <2>1
    <2> QED
      BY <1>1, <1>6, <1>9, <2>2
  <1>10. CASE ~Consumed(r, b, w)
    <2>1. Total(g) = Total(f)
      BY <1>2, <1>5, <1>8, <1>10
    <2> QED
      BY <1>1, <1>6, <1>7, <1>10, <2>1
  <1> QED
    BY <1>9, <1>10

\* So the claims stay within the quota.
LEMMA ConsumeKeeps ==
    ASSUME TypeOK, TypeOK', ClaimsKept, NEW r \in Requests, ConsumeToken(r)
    PROVE  ClaimsKept'
  <1>1. CASE HasRead(Home[r])
    BY <1>1, LateYields, YieldKeeps
  <1>2. CASE ~HasRead(Home[r])
    <2> SUFFICES ASSUME NEW b \in Ids, NEW w \in Windows
                 PROVE  Bounded(b, w)' /\ Unclaimed(b, w)'
      BY DEF ClaimsKept
    <2> DEFINE m == Claimed(b, w)
               n == Claimed(b, w)'
    <2>1. /\ UNCHANGED <<now, keys>>
          /\ IF Consumed(r, b, w)
             THEN /\ n + 1 = m
                  /\ spent'[b][w] \in {spent[b][w], spent[b][w] + 1}
             ELSE n = m /\ spent'[b][w] = spent[b][w]
      BY <1>2, ConsumeClaims
    <2>2. m \in Nat /\ n \in Nat
      BY ClaimsTypes, ClaimsTypesNext
    <2>3. /\ spent[b][w] \in Nat /\ Remaining(b, w) \in Nat
          /\ Quota(b) \in Nat /\ Remaining(b, w)' = Remaining(b, w)
      BY <2>1, LedgerTypes DEF Remaining
    <2>4. /\ spent'[b][w] + n <= spent[b][w] + m
          /\ m = 0 => n = 0 /\ spent'[b][w] = spent[b][w]
      <3> HIDE DEF m, n
      <3> QED
        BY <2>1, <2>2, <2>3
    <2>5. Bounded(b, w) /\ Unclaimed(b, w)
      BY DEF ClaimsKept
    <2>6. Bounded(b, w)'
      <3>1. spent'[b][w] \in Nat
        BY LedgerTypesNext
      <3> QED
        BY <2>2, <2>3, <2>4, <2>5, <3>1 DEF Bounded, Quota
    <2>7. Unclaimed(b, w)'
      BY <2>1, <2>4, <2>5 DEF Unclaimed
    <2> QED
      BY <2>6, <2>7
  <1> QED
    BY <1>1, <1>2

\* Steps of requests that leave the counter alone, but for the insertion.
LEMMA RequestYields ==
    ASSUME TypeOK, TypeOK', CarriedInReply, NEW r \in Requests,
           \/ \E b \in Ids : Arrive(r, b)
           \/ (Serve(r) /\ ~Install(r) /\ ~ConsumeToken(r)) \/ LeaseFails(r)
           \/ DisconnectFollower(r) \/ DisconnectLeader(r)
    PROVE  Yields
  <1>1. Loses
    BY LosingSteps, MarkLoses DEF Serve
  <1>2. UNCHANGED <<cleanup, returning, adrift>>
    BY DEF Serve, Arrive, CheckDenied, CheckServed, CheckMissing, TakeFlight,
           JoinFlight, Register, LeaseReply, LeaseFails, MarkExhausted,
           ReleaseFlight, ConsumeNothing, ConsumeExpired, Evict,
           DisconnectFollower, DisconnectLeader, cleanupVars
  <1> QED
    BY <1>1, <1>2, LosesYields

\* A reply becomes a bucket: the claim moves from the request to its instance,
\* or is given up if the task has taken down what to return.
LEMMA InstallYields ==
    ASSUME TypeOK, TypeOK', NEW r \in Requests, Install(r)
    PROVE  Yields
  <1> DEFINE i == Home[r]
  <1>1. /\ UNCHANGED <<now, keys, spent, cleanup, returning, adrift>>
        /\ i \in Instances /\ i \in Holders /\ r \in Holders /\ r # i
    BY StoreAssumption DEF Install, cleanupVars, history, Holders
  <1> SUFFICES ASSUME NEW b \in Ids, NEW w \in Windows
               PROVE  Claimed(b, w)' <= Claimed(b, w)
    BY <1>1 DEF Yields
  <1> DEFINE f == Claims(b, w)
             g == Claims(b, w)'
  <1>2. /\ f \in [Holders -> Nat] /\ g \in [Holders -> Nat]
        /\ IsFiniteSet(Holders)
    BY ClaimsTypes, ClaimsTypesNext, LedgerTypes
  <1>3. \A j \in Instances :
           HasRead(j)' = HasRead(j) /\ returning'[j][b] = returning[j][b]
    BY <1>1 DEF HasRead
  <1>4. \A h \in Holders \ {r, i} : g[h] = f[h]
    BY <1>3, InstallMoves, ClaimsAt, HoldingsAt
  <1>5. g[r] = 0 /\ (g[i] = f[r] \/ g[i] <= f[i])
    <2>1. g[r] = 0
      BY InstallMoves, ClaimsAt, HoldingsAt
    <2>2. CASE HasRead(i)
      <3>1. g[i] = f[i] /\ f[i] \in Nat
        BY <1>1, <1>2, <1>3, <2>2, ClaimsAt
      <3> QED
        BY <2>1, <3>1
    <2>3. CASE ~HasRead(i)
      BY <1>1, <1>3, <2>1, <2>3, InstallMoves, ClaimsAt, HoldingsAt
    <2> QED
      BY <2>2, <2>3
  <1>6. Total(g) <= Total(f)
    <2> HIDE DEF f, g
    <2>1. g[r] + g[i] <= f[r] + f[i]
      BY <1>1, <1>2, <1>5
    <2> QED
      BY <1>1, <1>2, <1>4, <2>1, TotalMove
  <1>7. adrift'[b][w] = adrift[b][w]
    BY <1>1
  <1> QED
    BY <1>6, <1>7, ClaimsTypes, ClaimsTypesNext

\* A lease hands out what Redis has: at most that much more is claimed.  In a
\* window it opens nothing was claimed before.
LEMMA ClaimsLease ==
    ASSUME TypeOK, TypeOK', NEW b \in Ids, NEW w \in Windows,
           Bounded(b, w), Unclaimed(b, w), now' = now,
           spent'[b][w] = spent[b][w],
           ~LeaseRefused(b), keys'[b] = KeyAfterLease(b),
           NEW n \in Nat, n = 0 \/ w = KeyAfterLease(b).window,
           n <= Leased(b),
           Claimed(b, w)' <= Claimed(b, w) + n
    PROVE  Bounded(b, w)' /\ Unclaimed(b, w)'
  <1> DEFINE key == KeyAfterLease(b)
  <1>1. Claimed(b, w) \in Nat /\ Claimed(b, w)' \in Nat
    BY ClaimsTypes, ClaimsTypesNext
  <1>2. CacheTypeOK
    BY DEF TypeOK
  <1>3. /\ Leased(b) \in Nat /\ key \in Key /\ key.tokens \in Nat
        /\ key.window \in Nat
    BY <1>2, LeaseFacts, LedgerTypesNext DEF Key
  <1>4. Remaining(b, w)' = IF key.window = w THEN key.tokens ELSE 0
    BY DEF Remaining
  <1>5. ASSUME now < w /\ key.window < w => keys[b].window < w
        PROVE  Unclaimed(b, w)'
    <2> SUFFICES ASSUME now < w, key.window < w
                 PROVE  spent[b][w] = 0 /\ Claimed(b, w)' = 0
      BY DEF Unclaimed
    <2>1. spent[b][w] = 0 /\ Claimed(b, w) = 0
      BY <1>5 DEF Unclaimed
    <2>2. n = 0
      BY <1>3
    <2> QED
      BY <1>1, <2>1, <2>2
  <1>6. CASE Alive(b)
    <2>1. /\ key.window = keys[b].window
          /\ key.tokens + Leased(b) = keys[b].tokens
      BY <1>2, <1>6, LeaseFacts
    <2>2. Remaining(b, w)' + n <= Remaining(b, w)
      BY <1>3, <1>4, <2>1 DEF Remaining
    <2>3. Bounded(b, w)'
      BY <1>1, <2>2, LedgerTypes, LedgerTypesNext DEF Bounded, Quota
    <2> QED
      BY <1>5, <2>1, <2>3
  <1>7. CASE ~Alive(b)
    <2>1. /\ key.window = now + Criteria(b).reset_in
          /\ key.tokens + Leased(b) = Quota(b)
      BY <1>2, <1>7, LeaseFacts
    <2>2. now < key.window /\ keys[b].window < now
      <3>1. Criteria(b).reset_in \in Nat /\ Criteria(b).reset_in # 0
        BY <1>7, PolicyFacts DEF LeaseRefused
      <3> QED
        BY <1>7, <2>1, <3>1, LedgerTypes DEF Alive
    <2>3. Unclaimed(b, w)'
      BY <1>5, <2>2, LedgerTypes
    <2>4. CASE w = key.window
      <3>1. spent[b][w] = 0 /\ Claimed(b, w) = 0
        BY <2>2, <2>4, LedgerTypes DEF Unclaimed
      <3>2. Bounded(b, w)'
        BY <1>1, <1>3, <1>4, <2>1, <2>4, <3>1, LedgerTypes
           DEF Bounded, Quota
      <3> QED
        BY <2>3, <3>2
    <2>5. CASE w # key.window
      <3>1. n = 0 /\ Remaining(b, w)' = 0
        BY <1>4, <2>5
      <3>2. Bounded(b, w)'
        BY <1>1, <3>1, LedgerTypes DEF Bounded, Quota
      <3> QED
        BY <2>3, <3>2
    <2> QED
      BY <2>4, <2>5
  <1> QED
    BY <1>6, <1>7

\* A key that a step does not touch has the same claims on it.
LEMMA SameClaims ==
    ASSUME TypeOK, TypeOK', NEW b \in Ids, NEW w \in Windows,
           Bounded(b, w), Unclaimed(b, w), now' = now, keys'[b] = keys[b],
           spent'[b][w] = spent[b][w], Claimed(b, w)' <= Claimed(b, w)
    PROVE  Bounded(b, w)' /\ Unclaimed(b, w)'
  <1>1. Remaining(b, w)' <= Remaining(b, w)
    <2>1. Remaining(b, w)' = Remaining(b, w)
      BY DEF Remaining
    <2> QED
      BY <2>1, LedgerTypes
  <1>2. now <= now' /\ keys[b].window <= keys'[b].window
    BY LedgerTypes
  <1> QED
    BY <1>1, <1>2, ClaimsShrink

\* What Redis hands out is claimed by the request that asked for it.
LEMMA LeaseClaims ==
    ASSUME TypeOK, NEW r \in Requests, LeaseExec(r),
           NEW b \in Ids, NEW w \in Windows
    PROVE  /\ UNCHANGED <<now, spent, adrift>>
           /\ ~LeaseRefused(id[r])
           /\ keys'[b] = IF b = id[r] THEN KeyAfterLease(b) ELSE keys[b]
           /\ \A h \in Holders \ {r} : Claims(b, w)'[h] = Claims(b, w)[h]
           /\ Claims(b, w)'[r] =
                IF b = id[r]
                THEN IF w = KeyAfterLease(b).window THEN Leased(b) ELSE 0
                ELSE Claims(b, w)[r]
  <1> DEFINE f == Claims(b, w)
             g == Claims(b, w)'
  <1>1. UNCHANGED <<buckets, cleanup, returning, adrift>>
    BY DEF LeaseExec, cleanupVars
  <1>2. \A i \in Instances : g[i] = f[i]
    <2>1. \A i \in Instances : HasRead(i)' = HasRead(i)
      BY <1>1 DEF HasRead
    <2> QED
      BY <1>1, <2>1, ClaimsAt
  <1>3. \A q \in Requests :
           f[q] = Holdings(b, w)[q] /\ g[q] = Holdings(b, w)'[q]
    BY ClaimsAt, HoldingsAt
  <1> HIDE DEF f, g
  <1>4. \A h \in Holders \ {r} : g[h] = f[h]
    BY <1>2, <1>3, LeaseCarries DEF Holders
  <1> QED
    BY <1>1, <1>3, <1>4, LeaseCarries DEF f, g

\* So the claims stay within the quota.
LEMMA LeaseKeeps ==
    ASSUME TypeOK, TypeOK', ClaimsKept, NEW r \in Requests, LeaseExec(r)
    PROVE  ClaimsKept'
  <1> SUFFICES ASSUME NEW b \in Ids, NEW w \in Windows
               PROVE  Bounded(b, w)' /\ Unclaimed(b, w)'
    BY DEF ClaimsKept
  <1> DEFINE key == KeyAfterLease(b)
             n == IF w = key.window THEN Leased(b) ELSE 0
             f == Claims(b, w)
             g == Claims(b, w)'
  <1>1. /\ UNCHANGED <<now, spent, adrift>>
        /\ \A h \in Holders \ {r} : g[h] = f[h]
    BY LeaseClaims
  <1>2. CASE b = id[r]
    <2>1. g[r] = n /\ keys'[b] = key /\ ~LeaseRefused(b)
      BY <1>2, LeaseClaims
    <2>2. r \in Holders /\ n \in Nat /\ n <= Leased(b)
      BY LeaseFacts DEF Holders, TypeOK
    <2>3. /\ f \in [Holders -> Nat] /\ g \in [Holders -> Nat]
          /\ IsFiniteSet(Holders) /\ Total(f) \in Nat /\ Total(g) \in Nat
      BY LedgerTypes, ClaimsTypes, ClaimsTypesNext
    <2>4. Total(g) <= Total(f) + n
      <3> HIDE DEF f, g, n
      <3>1. Total(g) + f[r] = Total(f) + g[r] /\ f[r] \in Nat
        BY <1>1, <2>2, <2>3, TotalChange
      <3> QED
        BY <2>1, <2>2, <2>3, <3>1
    <2>5. Claimed(b, w)' <= Claimed(b, w) + n
      <3>1. adrift'[b][w] = adrift[b][w]
        BY <1>1
      <3> QED
        BY <2>2, <2>4, <3>1, ClaimsTypes, ClaimsTypesNext
    <2>6. n = 0 \/ w = key.window
      OBVIOUS
    <2> HIDE DEF n
    <2> QED
      BY <1>1, <2>1, <2>2, <2>5, <2>6, ClaimsLease DEF ClaimsKept
  <1>3. CASE b # id[r]
    <2>1. g[r] = f[r] /\ keys'[b] = keys[b]
      BY <1>3, LeaseClaims
    <2>2. \A h \in Holders : g[h] <= f[h]
      <3>1. \A h \in Holders : f[h] \in Nat
        BY ClaimsTypes
      <3> QED
        BY <1>1, <2>1, <3>1
    <2>3. Claimed(b, w)' <= Claimed(b, w)
      BY <1>1, <2>2, FewerClaims
    <2> QED
      BY <1>1, <2>1, <2>3, SameClaims DEF ClaimsKept
  <1> QED
    BY <1>2, <1>3

\* What Redis hands out to nobody is claimed by nobody.
LEMMA OrphanKeeps ==
    ASSUME TypeOK, TypeOK', ClaimsKept, NEW o \in Ids, OrphanExec(o)
    PROVE  ClaimsKept'
  <1>0. keys \in [Ids -> Key]
    BY DEF TypeOK, CacheTypeOK
  <1>1. /\ UNCHANGED <<now, spent, id, buckets, call, cleanup, returning,
                       adrift>>
        /\ keys' = IF LeaseRefused(o) THEN keys
                   ELSE [keys EXCEPT ![o] = KeyAfterLease(o)]
    BY DEF OrphanExec, cleanupVars, requestVars, history
  <1> SUFFICES ASSUME NEW b \in Ids, NEW w \in Windows
               PROVE  Bounded(b, w)' /\ Unclaimed(b, w)'
    BY DEF ClaimsKept
  <1>2. Claimed(b, w)' = Claimed(b, w) /\ Claimed(b, w) \in Nat
    BY <1>1, ClaimsTypes DEF Claimed, Claims, Carried, Owed, HasRead
  <1>3. CASE b # o \/ LeaseRefused(o)
    <2>1. keys'[b] = keys[b]
      BY <1>0, <1>1, <1>3
    <2>2. Claimed(b, w)' <= Claimed(b, w)
      BY <1>2
    <2> QED
      BY <1>1, <2>1, <2>2, SameClaims DEF ClaimsKept
  <1>4. CASE b = o /\ ~LeaseRefused(o)
    <2>1. keys'[b] = KeyAfterLease(b) /\ ~LeaseRefused(b)
      BY <1>0, <1>1, <1>4
    <2>2. Claimed(b, w)' <= Claimed(b, w) + 0
      BY <1>2
    <2>3. 0 <= Leased(b)
      BY LeaseFacts DEF TypeOK
    <2> QED
      BY <1>1, <2>1, <2>2, <2>3, ClaimsLease DEF ClaimsKept
  <1> QED
    BY <1>3, <1>4

-----------------------------------------------------------------------------
(***************************************************************************)
(* The steps of the cleanup task.                                          *)
(***************************************************************************)

\* Dropping a bucket gives up a claim; taking down what to return turns the
\* claims of the buckets into claims of the task, and no more than these.
LEMMA CleanupYields ==
    ASSUME TypeOK, TypeOK', NEW i \in Instances,
           \/ CleanupTick(i) \/ \E o \in Ids : CleanupRemove(i, o)
           \/ ReceiveShutdown(i)
    PROVE  Yields
  <1>0. /\ buckets \in [Instances -> [Ids -> Bucket \cup {NoBucket}]]
        /\ returning \in [Instances -> [Ids -> Bucket \cup {NoBucket}]]
        /\ DOMAIN cleanup = Instances
    BY DEF TypeOK
  <1>1. UNCHANGED <<now, keys, spent, id, call, adrift>>
    BY DEF CleanupTick, CleanupRemove, ReceiveShutdown, requestVars, history
  <1> SUFFICES ASSUME NEW b \in Ids, NEW w \in Windows, NEW h \in Holders
               PROVE  Claims(b, w)'[h] <= Claims(b, w)[h]
    BY <1>1, FewerClaims DEF Yields
  <1>2. Claims(b, w)[h] \in Nat
    BY ClaimsTypes
  <1>3. CASE h \in Requests
    <2>1. Carried(h, b, w)' = Carried(h, b, w)
      BY <1>1 DEF Carried
    <2> QED
      BY <1>2, <1>3, <2>1, ClaimsAt
  <1>4. CASE h \in Instances
    <2>0. TokensIn(NoBucket, w) = 0
      BY DEF TokensIn
    <2>1. CASE CleanupTick(i) \/ \E o \in Ids : CleanupRemove(i, o)
      <3>1. /\ returning' = returning
            /\ ~HasRead(i) /\ \E to \in {"select", "removing"} :
                              cleanup' = [cleanup EXCEPT ![i] = to]
            /\ \/ buckets' = buckets
               \/ \E o \in Ids : buckets' = [buckets EXCEPT ![i][o] = NoBucket]
        BY <2>1 DEF CleanupTick, CleanupRemove, SetBucket, HasRead
      <3>2. /\ HasRead(h)' = HasRead(h)
            /\ buckets'[h][b] \in {buckets[h][b], NoBucket}
        BY <1>0, <1>4, <3>1 DEF HasRead
      <3> QED
        BY <1>2, <1>4, <2>0, <3>1, <3>2, ClaimsAt
    <2>2. CASE ReceiveShutdown(i)
      <3>1. /\ buckets' = buckets /\ ~HasRead(i)
            /\ returning' = [returning EXCEPT ![i] =
                               [o \in Ids |-> IF o \in Returnable(i)
                                              THEN buckets[i][o]
                                              ELSE NoBucket]]
            /\ \E to \in {"releasing", "done"} :
                  cleanup' = [cleanup EXCEPT ![i] = to]
        BY <2>2 DEF ReceiveShutdown, HasRead, AfterSnapshot
      <3>2. CASE h = i
        <4>1. HasRead(h)' /\ returning'[h][b] \in {buckets[h][b], NoBucket}
          BY <1>0, <1>4, <3>1, <3>2 DEF HasRead
        <4> QED
          BY <1>2, <1>4, <2>0, <3>1, <3>2, <4>1, ClaimsAt
      <3>3. CASE h # i
        <4>1. HasRead(h)' = HasRead(h) /\ returning'[h] = returning[h]
          BY <1>0, <1>4, <3>1, <3>3 DEF HasRead
        <4> QED
          BY <1>2, <1>4, <3>1, <4>1, ClaimsAt
      <3> QED
        BY <3>2, <3>3
    <2> QED
      BY <2>1, <2>2
  <1> QED
    BY <1>3, <1>4 DEF Holders

\* The instance gives up its claim on what one release takes down, and no
\* other, whether the release runs or fails.
Taken(i, o, b, w) == IF b = o THEN TokensIn(returning[i][o], w) ELSE 0

LEMMA ReturnClaims ==
    ASSUME TypeOK, TypeOK', NEW i \in Instances, NEW o \in Ids,
           ReturnTokens(i, o) \/ ReturnFails(i, o),
           NEW b \in Ids, NEW w \in Windows
    PROVE  /\ Taken(i, o, b, w) \in Nat
           /\ Total(Claims(b, w)') + Taken(i, o, b, w) = Total(Claims(b, w))
  <1> DEFINE n == Taken(i, o, b, w)
             f == Claims(b, w)
             g == Claims(b, w)'
  <1>0. /\ returning \in [Instances -> [Ids -> Bucket \cup {NoBucket}]]
        /\ DOMAIN cleanup = Instances
    BY DEF TypeOK
  <1>1. /\ UNCHANGED <<id, call, buckets>> /\ HasRead(i)
        /\ returning' = [returning EXCEPT ![i][o] = NoBucket]
        /\ \E to \in {"releasing", "done"} :
              cleanup' = [cleanup EXCEPT ![i] = to]
    BY DEF ReturnTokens, ReturnFails, Returned, HasRead, requestVars
  <1>2. /\ f \in [Holders -> Nat] /\ g \in [Holders -> Nat]
        /\ IsFiniteSet(Holders) /\ i \in Holders
        /\ Total(f) \in Nat /\ Total(g) \in Nat
    BY ClaimsTypes, ClaimsTypesNext, LedgerTypes DEF Holders
  <1>3. \A q \in Requests : g[q] = f[q]
    <2>1. \A q \in Requests : Carried(q, b, w)' = Carried(q, b, w)
      BY <1>1 DEF Carried
    <2> QED
      BY <2>1, ClaimsAt
  <1>4. \A j \in Instances :
           /\ HasRead(j)' = HasRead(j)
           /\ returning'[j][b] = IF j = i /\ b = o THEN NoBucket
                                 ELSE returning[j][b]
    BY <1>0, <1>1 DEF HasRead
  <1>5. \A h \in Holders \ {i} : g[h] = f[h]
    BY <1>1, <1>3, <1>4, ClaimsAt DEF Holders
  <1>6. g[i] + n = f[i]
    <2>1. f[i] \in Nat /\ g[i] \in Nat
      BY <1>2
    <2>2. CASE b = o
      <3>1. f[i] = n /\ g[i] = 0
        BY <1>1, <1>4, <2>2, ClaimsAt DEF TokensIn, Taken
      <3> HIDE DEF n, f, g
      <3> QED
        BY <2>1, <3>1
    <2>3. CASE b # o
      <3>1. g[i] = f[i] /\ n = 0
        BY <1>1, <1>4, <2>3, ClaimsAt DEF Taken
      <3> HIDE DEF n, f, g
      <3> QED
        BY <2>1, <3>1
    <2> QED
      BY <2>2, <2>3
  <1>7. n \in Nat
    BY <1>0 DEF Taken, TokensIn, Bucket
  <1> HIDE DEF n, f, g
  <1>8. Total(g) + f[i] = Total(f) + g[i] /\ f[i] \in Nat /\ g[i] \in Nat
    BY <1>2, <1>5, TotalChange
  <1>9. Total(g) + n = Total(f)
    BY <1>2, <1>6, <1>7, <1>8
  <1> QED
    BY <1>7, <1>9 DEF n, f, g

\* A release that fails for its caller may still be on the wire: what is
\* claimed then is what the instance gave up, and no more.
LEMMA FailsYields ==
    ASSUME TypeOK, TypeOK', NEW i \in Instances, NEW o \in Ids,
           ReturnFails(i, o)
    PROVE  Yields
  <1>1. UNCHANGED <<now, keys, spent>> /\ MayStillReturn(i, {o})
    BY DEF ReturnFails, history
  <1> SUFFICES ASSUME NEW b \in Ids, NEW w \in Windows
               PROVE  Claimed(b, w)' <= Claimed(b, w)
    BY <1>1 DEF Yields
  <1>2. /\ Taken(i, o, b, w) \in Nat
        /\ Total(Claims(b, w)') + Taken(i, o, b, w) = Total(Claims(b, w))
    BY ReturnClaims
  <1>3. adrift'[b][w] \in
           {adrift[b][w] + 0, adrift[b][w] + Taken(i, o, b, w)}
    BY <1>1 DEF MayStillReturn, Taken
  <1> QED
    BY <1>2, <1>3, ClaimsTypes, ClaimsTypesNext

-----------------------------------------------------------------------------
(***************************************************************************)
(* What Redis is given back.                                               *)
(***************************************************************************)
Given(o, n, v, b, w) == IF b = o /\ w = v THEN n ELSE 0

\* Redis takes all of a release, and only in the window it came from, or none.
LEMMA RefundAdds ==
    ASSUME TypeOK, NEW o \in Ids, NEW n \in Nat, NEW v,
           Refund(o, n, v)
    PROVE  /\ \A b \in Ids : keys'[b].window = keys[b].window
           /\ \/ keys' = keys
              \/ /\ v = keys[o].window
                 /\ \A b \in Ids, w \in Windows :
                       Remaining(b, w)' =
                          Remaining(b, w) + Given(o, n, v, b, w)
  <1> DEFINE key == KeyAfterRelease(o, n, v)
  <1>0. keys \in [Ids -> Key] /\ \A b \in Ids : keys[b] \in Key
    BY DEF TypeOK, CacheTypeOK
  <1>1. keys' = [keys EXCEPT ![o] = key]
    BY DEF Refund
  <1>2. \A b \in Ids : keys'[b].window = keys[b].window
    BY <1>0, <1>1 DEF KeyAfterRelease, Key
  <1>3. CASE ~(Alive(o) /\ keys[o].window = v)
    <2>1. keys' = keys
      BY <1>0, <1>1, <1>3 DEF KeyAfterRelease
    <2> QED
      BY <1>2, <2>1
  <1>4. CASE Alive(o) /\ keys[o].window = v
    <2>1. keys[o].tokens \in Nat
      BY <1>0 DEF Key
    <2>2. \A b \in Ids :
             keys'[b].tokens = IF b = o THEN keys[o].tokens + n
                               ELSE keys[b].tokens
      BY <1>0, <1>1, <1>4 DEF KeyAfterRelease, Key
    <2>3. ASSUME NEW b \in Ids, NEW w \in Windows
          PROVE  Remaining(b, w)' = Remaining(b, w) + Given(o, n, v, b, w)
      <3>1. Remaining(b, w) \in Nat
        BY <1>0 DEF Remaining, Key
      <3>2. CASE b = o
        BY <1>2, <1>4, <2>1, <2>2, <3>1, <3>2 DEF Remaining, Given
      <3>3. CASE b # o
        BY <1>2, <2>2, <3>1, <3>3 DEF Remaining, Given
      <3> QED
        BY <3>2, <3>3
    <2> QED
      BY <1>2, <1>4, <2>3
  <1> QED
    BY <1>3, <1>4

\* A release that takes no more to Redis than is given up as claimed keeps the
\* claims within the quota.
GivesBack(o, n, v) ==
    /\ UNCHANGED <<now, spent>>
    /\ Refund(o, n, v)
    /\ \A b \in Ids, w \in Windows :
          Claimed(b, w)' + Given(o, n, v, b, w) = Claimed(b, w)

LEMMA RefundKeeps ==
    ASSUME TypeOK, TypeOK', ClaimsKept,
           NEW o \in Ids, NEW n \in Nat, NEW v, GivesBack(o, n, v)
    PROVE  ClaimsKept'
  <1> SUFFICES ASSUME NEW b \in Ids, NEW w \in Windows
               PROVE  Bounded(b, w)' /\ Unclaimed(b, w)'
    BY DEF ClaimsKept
  <1>1. Given(o, n, v, b, w) \in Nat
    BY DEF Given
  <1>2. /\ keys'[b].window = keys[b].window
        /\ Remaining(b, w)' \in
              {Remaining(b, w), Remaining(b, w) + Given(o, n, v, b, w)}
    BY RefundAdds DEF Remaining, GivesBack
  <1>3. /\ Claimed(b, w) \in Nat /\ Claimed(b, w)' \in Nat
        /\ Claimed(b, w)' + Given(o, n, v, b, w) = Claimed(b, w)
    BY ClaimsTypes, ClaimsTypesNext DEF GivesBack
  <1>4. Bounded(b, w) /\ Unclaimed(b, w)
    BY DEF ClaimsKept
  <1>5. /\ spent[b][w] \in Nat /\ Remaining(b, w) \in Nat
        /\ Quota(b) \in Nat /\ spent'[b][w] = spent[b][w]
    BY LedgerTypes DEF GivesBack
  <1>6. Bounded(b, w)'
    <2>1. Quota(b)' = Quota(b)
      BY DEF Quota
    <2> QED
      BY <1>1, <1>2, <1>3, <1>4, <1>5, <2>1 DEF Bounded
  <1>7. Unclaimed(b, w)'
    BY <1>1, <1>2, <1>3, <1>4, <1>5 DEF Unclaimed, GivesBack
  <1> QED
    BY <1>6, <1>7

\* A return takes to Redis what the cleanup task gives up.
LEMMA ReturnGives ==
    ASSUME TypeOK, TypeOK', NEW i \in Instances, NEW o \in Ids,
           ReturnTokens(i, o)
    PROVE  \E n \in Nat, v \in Nat : GivesBack(o, n, v)
  <1> DEFINE bk == returning[i][o]
  <1>1. /\ UNCHANGED <<now, spent, adrift>>
        /\ bk # NoBucket /\ bk.tokens \in Nat /\ bk.window \in Nat
        /\ Refund(o, bk.tokens, bk.window)
    <2>1. bk # NoBucket /\ bk \in Bucket
      <3>1. o \in ToReturn(i)
        BY DEF ReturnTokens
      <3>2. returning \in [Instances -> [Ids -> Bucket \cup {NoBucket}]]
        BY DEF TypeOK
      <3> QED
        BY <3>1, <3>2 DEF ToReturn
    <2>2. bk.tokens \in Nat /\ bk.window \in Nat
      BY <2>1 DEF Bucket
    <2>3. UNCHANGED <<now, spent, adrift>>
      BY DEF ReturnTokens
    <2>4. Refund(o, bk.tokens, bk.window)
      BY DEF ReturnTokens
    <2> QED
      BY <2>1, <2>2, <2>3, <2>4
  <1>2. ASSUME NEW b \in Ids, NEW w \in Windows
        PROVE  Claimed(b, w)' + Given(o, bk.tokens, bk.window, b, w)
                  = Claimed(b, w)
    <2>1. Taken(i, o, b, w) = Given(o, bk.tokens, bk.window, b, w)
      BY <1>1 DEF Taken, Given, TokensIn
    <2>2. /\ Taken(i, o, b, w) \in Nat
          /\ Total(Claims(b, w)') + Taken(i, o, b, w) = Total(Claims(b, w))
      BY ReturnClaims
    <2>3. adrift'[b][w] = adrift[b][w]
      BY <1>1
    <2> HIDE DEF bk
    <2> QED
      BY <2>1, <2>2, <2>3, ClaimsTypes, ClaimsTypesNext
  <1> HIDE DEF bk
  <1> QED
    BY <1>1, <1>2 DEF GivesBack

\* A release that comes late takes to Redis what was on the wire.
LEMMA LateReturnClaims ==
    ASSUME TypeOK, TypeOK', NEW o \in Ids, NEW v \in Windows, NEW n \in Nat,
           n \in 1 .. adrift[o][v], adrift' = [adrift EXCEPT ![o][v] = @ - n],
           UNCHANGED <<buckets, id, call, cleanup, returning>>,
           NEW b \in Ids, NEW w \in Windows
    PROVE  Claimed(b, w)' + Given(o, n, v, b, w) = Claimed(b, w)
  <1>1. Claims(b, w)' = Claims(b, w)
    BY DEF Claims, Carried, Owed, HasRead
  <1>2. adrift'[b][w] + Given(o, n, v, b, w) = adrift[b][w]
    <2>1. adrift \in [Ids -> [Windows -> Nat]]
      BY DEF TypeOK
    <2>2. adrift'[b][w] = IF b = o /\ w = v THEN adrift[b][w] - n
                          ELSE adrift[b][w]
      BY <2>1
    <2> QED
      BY <2>1, <2>2 DEF Given
  <1>3. Given(o, n, v, b, w) \in Nat
    BY DEF Given
  <1>4. Total(Claims(b, w)') = Total(Claims(b, w))
    BY <1>1
  <1> QED
    BY <1>2, <1>3, <1>4, ClaimsTypes, ClaimsTypesNext

LEMMA LateGives ==
    ASSUME TypeOK, TypeOK', NEW o \in Ids, NEW v \in Windows,
           LateReturn(o, v)
    PROVE  \E n \in Nat : GivesBack(o, n, v)
  <1>1. PICK n \in 1 .. adrift[o][v] :
           /\ adrift' = [adrift EXCEPT ![o][v] = @ - n]
           /\ Refund(o, n, v)
    BY DEF LateReturn
  <1>2. UNCHANGED <<now, spent, buckets, id, call, cleanup, returning>>
    BY DEF LateReturn, requestVars, cleanupVars
  <1>3. n \in Nat
    BY DEF TypeOK
  <1>4. \A b \in Ids, w \in Windows :
           Claimed(b, w)' + Given(o, n, v, b, w) = Claimed(b, w)
    BY <1>1, <1>2, <1>3, LateReturnClaims
  <1> QED
    BY <1>1, <1>2, <1>3, <1>4 DEF GivesBack

-----------------------------------------------------------------------------
(***************************************************************************)
(* The life of an instance, and time.                                      *)
(***************************************************************************)

\* Without a release on the way an instance that ends gives up its claims;
\* what it was returning may stay on the wire, which it had claimed.
LEMMA EndLeaves ==
    ASSUME TypeOK, TakenDown, NEW i \in Instances, Exit(i) \/ Crash(i),
           NEW b \in Ids, NEW w \in Windows
    PROVE  \E n \in 0 .. Claims(b, w)[i] : adrift'[b][w] = adrift[b][w] + n
  <1>0. Claims(b, w)[i] \in Nat /\ adrift[b][w] \in Nat
    BY ClaimsTypes DEF Holders
  <1>1. CASE adrift' = adrift
    BY <1>0, <1>1
  <1>2. CASE MayStillReturn(i, ToReturn(i)) /\ b \in ToReturn(i)
    <2>1. Claims(b, w)[i] = TokensIn(returning[i][b], w)
      BY <1>2, ClaimsAt DEF TakenDown, HasRead
    <2>2. adrift'[b][w] \in {adrift[b][w] + 0,
                             adrift[b][w] + TokensIn(returning[i][b], w)}
      BY <1>2 DEF MayStillReturn
    <2> QED
      BY <1>0, <2>1, <2>2
  <1>3. CASE MayStillReturn(i, ToReturn(i)) /\ b \notin ToReturn(i)
    <2>1. adrift'[b][w] = adrift[b][w] + 0
      BY <1>3 DEF MayStillReturn
    <2> QED
      BY <1>0, <2>1
  <1> QED
    BY <1>1, <1>2, <1>3 DEF Exit, Crash

\* A process that ends gives up its claims, also those it was returning: what
\* comes in its place starts with no bucket.
LEMMA EndClaims ==
    ASSUME TypeOK, TypeOK', NEW i \in Instances, Exit(i) \/ Crash(i),
           NEW b \in Ids, NEW w \in Windows
    PROVE  Total(Claims(b, w)') + Claims(b, w)[i] <= Total(Claims(b, w))
  <1> DEFINE f == Claims(b, w)
             g == Claims(b, w)'
             m == [h \in Holders |-> IF h = i THEN 0 ELSE f[h]]
  <1>0. /\ buckets \in [Instances -> [Ids -> Bucket \cup {NoBucket}]]
        /\ returning \in [Instances -> [Ids -> Bucket \cup {NoBucket}]]
        /\ DOMAIN cleanup = Instances
    BY DEF TypeOK
  <1>1. RepliesNoFuller /\ Restart(i)
    BY LifeLoses DEF Exit, Crash, Loses
  <1>2. /\ f \in [Holders -> Nat] /\ g \in [Holders -> Nat]
        /\ IsFiniteSet(Holders) /\ i \in Holders
    BY ClaimsTypes, ClaimsTypesNext, LedgerTypes DEF Holders
  <1>3. m \in [Holders -> Nat] /\ m[i] = 0
    BY <1>2
  <1>4. /\ Total(f) \in Nat /\ Total(g) \in Nat /\ Total(m) \in Nat
    BY <1>2, <1>3, TotalType
  <1>5. \A h \in Holders : g[h] <= m[h]
    <2> SUFFICES ASSUME NEW h \in Holders PROVE g[h] <= m[h]
      OBVIOUS
    <2>0. f[h] \in Nat
      BY <1>2
    <2>1. CASE h \in Requests
      <3>1. g[h] <= f[h] /\ h # i
        BY <1>1, <2>1, ClaimsAt, StoreAssumption DEF RepliesNoFuller
      <3> QED
        BY <3>1
    <2>2. CASE h \in Instances \ {i}
      <3>1. /\ buckets'[h] = buckets[h] /\ returning'[h] = returning[h]
            /\ HasRead(h)' = HasRead(h)
        BY <1>0, <1>1, <2>2 DEF Restart, HasRead
      <3>2. g[h] = f[h]
        BY <2>2, <3>1, ClaimsAt
      <3> QED
        BY <2>0, <2>2, <3>2
    <2>3. CASE h = i
      <3>1. buckets'[h][b] = NoBucket /\ returning'[h][b] = NoBucket
        BY <1>0, <1>1, <2>3 DEF Restart, EmptyMap
      <3>2. g[h] = 0
        BY <2>3, <3>1, ClaimsAt DEF TokensIn
      <3> QED
        BY <1>3, <2>3, <3>2
    <2> QED
      BY <2>1, <2>2, <2>3 DEF Holders
  <1>6. \A h \in Holders \ {i} : m[h] = f[h]
    OBVIOUS
  <1> HIDE DEF f, g, m
  <1>7. Total(g) <= Total(m)
    BY <1>2, <1>3, <1>5, TotalMonotone
  <1>8. Total(m) + f[i] = Total(f) + m[i] /\ f[i] \in Nat
    BY <1>2, <1>3, <1>6, TotalChange
  <1>9. Total(g) + f[i] <= Total(f)
    BY <1>3, <1>4, <1>7, <1>8
  <1> QED
    BY <1>9 DEF f, g

LEMMA LifeYields ==
    ASSUME TypeOK, TypeOK', TakenDown, NEW i \in Instances,
           Terminate(i) \/ Drain(i) \/ Exit(i) \/ Crash(i)
    PROVE  Yields
  <1>1. CASE Terminate(i) \/ Drain(i)
    BY <1>1, LifeLoses, LosesYields DEF Terminate, Drain, cleanupVars
  <1>2. CASE Exit(i) \/ Crash(i)
    <2>1. UNCHANGED <<now, keys, spent>>
      BY <1>2 DEF Exit, Crash, history
    <2> SUFFICES ASSUME NEW b \in Ids, NEW w \in Windows
                 PROVE  Claimed(b, w)' <= Claimed(b, w)
      BY <2>1 DEF Yields
    <2>2. PICK n \in 0 .. Claims(b, w)[i] :
             adrift'[b][w] = adrift[b][w] + n
      BY <1>2, EndLeaves
    <2>3. Total(Claims(b, w)') + Claims(b, w)[i] <= Total(Claims(b, w))
      BY <1>2, EndClaims
    <2>4. Claims(b, w)[i] \in Nat
      BY ClaimsTypes DEF Holders
    <2> QED
      BY <2>2, <2>3, <2>4, ClaimsTypes, ClaimsTypesNext
  <1> QED
    BY <1>1, <1>2

\* A key that expires takes what is left of its window with it.
LEMMA TickKeeps ==
    ASSUME TypeOK, TypeOK', ClaimsKept, Tick
    PROVE  ClaimsKept'
  <1> SUFFICES ASSUME NEW b \in Ids, NEW w \in Windows
               PROVE  Bounded(b, w)' /\ Unclaimed(b, w)'
    BY DEF ClaimsKept
  <1>1. /\ UNCHANGED <<buckets, spent, id, call, cleanup, returning, adrift>>
        /\ now' = now + 1
        /\ keys'[b] = IF keys[b].window < now + 1 THEN NoKey ELSE keys[b]
    BY DEF Tick, Advance, cleanupVars, requestVars, history
  <1>2. Claimed(b, w)' <= Claimed(b, w)
    <2>1. Claimed(b, w)' = Claimed(b, w)
      BY <1>1 DEF Claimed, Claims, Carried, Owed, HasRead
    <2> QED
      BY <2>1, ClaimsTypes
  <1>3. Remaining(b, w)' <= Remaining(b, w)
    BY <1>1, LedgerTypes DEF Remaining, NoKey
  <1>4. /\ now <= now'
        /\ keys[b].window <= keys'[b].window \/ keys[b].window < now'
    BY <1>1, LedgerTypes
  <1> QED
    BY <1>1, <1>2, <1>3, <1>4, ClaimsShrink DEF ClaimsKept

\* Requests, Redis and the clock leave the way out of an instance alone.
LEMMA OthersStay ==
    ASSUME \/ \E r \in Requests :
                \/ \E b \in Ids : Arrive(r, b)
                \/ Serve(r) \/ Answered(r)
                \/ DisconnectFollower(r) \/ DisconnectLeader(r)
           \/ \E b \in Ids :
                 OrphanExec(b) \/ \E w \in Windows : LateReturn(b, w)
           \/ Tick
           \/ UNCHANGED vars
    PROVE  UNCHANGED <<stopping, accepting, cleanup, returning>>
  BY DEF Arrive, Serve, Answered, CheckDenied, CheckServed, CheckMissing,
         TakeFlight, JoinFlight, Register, LeaseExec, LeaseReply, LeaseFails,
         Install, MarkExhausted, ReleaseFlight, ConsumeToken, ConsumeNothing,
         ConsumeExpired, Evict, DisconnectFollower, DisconnectLeader,
         OrphanExec, LateReturn, Tick, vars, cleanupVars, serverVars

\* Something is taken down only while it is returned: the task that has none
\* left leaves, and a process starts with none.
LEMMA TakenStep ==
    ASSUME TypeOK, TakenDown, [Next]_vars
    PROVE  TakenDown'
  <1>0. /\ returning \in [Instances -> [Ids -> Bucket \cup {NoBucket}]]
        /\ DOMAIN cleanup = Instances
    BY DEF TypeOK
  <1> SUFFICES ASSUME NEW i \in Instances
               PROVE  ToReturn(i)' # {} => cleanup'[i] = "releasing"
    BY DEF TakenDown
  <1>1. ToReturn(i) # {} => cleanup[i] = "releasing"
    BY DEF TakenDown
  <1>2. CASE returning'[i] = returning[i] /\ cleanup'[i] = cleanup[i]
    BY <1>1, <1>2 DEF ToReturn
  <1>3. CASE returning' = returning /\ cleanup[i] # "releasing"
    BY <1>1, <1>3 DEF ToReturn
  <1>4. CASE ReceiveShutdown(i)
    <2>1. /\ cleanup'[i] = AfterSnapshot(i)
          /\ returning'[i] = [b \in Ids |-> IF b \in Returnable(i)
                                            THEN buckets[i][b] ELSE NoBucket]
      BY <1>0, <1>4 DEF ReceiveShutdown
    <2> QED
      BY <2>1 DEF AfterSnapshot, ToReturn
  <1>5. ASSUME NEW b \in Ids, ReturnTokens(i, b) \/ ReturnFails(i, b)
        PROVE  ToReturn(i)' # {} => cleanup'[i] = "releasing"
    <2>1. /\ cleanup'[i] = IF ToReturn(i) = {b} THEN "done" ELSE "releasing"
          /\ returning'[i] = [returning[i] EXCEPT ![b] = NoBucket]
      BY <1>0, <1>5 DEF ReturnTokens, ReturnFails, Returned
    <2>2. ToReturn(i)' = ToReturn(i) \ {b}
      BY <1>0, <2>1 DEF ToReturn
    <2> QED
      BY <2>1, <2>2
  <1>6. CASE Exit(i) \/ Crash(i)
    BY <1>0, <1>6 DEF Exit, Crash, Restart, EmptyMap, ToReturn
  <1>7. CASE CleanupTick(i) \/ \E b \in Ids : CleanupRemove(i, b)
    BY <1>3, <1>7 DEF CleanupTick, CleanupRemove
  <1>8. ASSUME NEW j \in Instances, j # i,
               Clean(j) \/ Terminate(j) \/ Drain(j) \/ Exit(j) \/ Crash(j)
        PROVE  returning'[i] = returning[i] /\ cleanup'[i] = cleanup[i]
    BY <1>0, <1>8
       DEF Clean, CleanupTick, CleanupRemove, ReceiveShutdown, ReturnTokens,
           ReturnFails, Returned, Terminate, Drain, Exit, Crash, Restart,
           cleanupVars
  <1>9. ASSUME Terminate(i) \/ Drain(i)
        PROVE  UNCHANGED <<returning, cleanup>>
    BY <1>9 DEF Terminate, Drain, cleanupVars
  <1>10. UNCHANGED <<returning, cleanup>>
           \/ \E j \in Instances :
                 Clean(j) \/ Terminate(j) \/ Drain(j) \/ Exit(j) \/ Crash(j)
    BY OthersStay DEF Next
  <1>11. CASE UNCHANGED <<returning, cleanup>>
    BY <1>2, <1>11
  <1>12. ASSUME NEW j \in Instances,
                Clean(j) \/ Terminate(j) \/ Drain(j) \/ Exit(j) \/ Crash(j)
         PROVE  ToReturn(i)' # {} => cleanup'[i] = "releasing"
    <2>1. CASE j # i
      BY <1>2, <1>8, <1>12, <2>1
    <2>2. CASE j = i
      BY <1>4, <1>5, <1>6, <1>7, <1>9, <1>11, <1>12, <2>2 DEF Clean
    <2> QED
      BY <2>1, <2>2
  <1> QED
    BY <1>10, <1>11, <1>12

-----------------------------------------------------------------------------
\* Nobody claims anything at the start.
LEMMA ReturnStart == Init => ReturnInv
  <1> SUFFICES ASSUME Init PROVE ReturnInv
    OBVIOUS
  <1>1. CarriedInReply
    BY LedgerStart DEF LedgerInv
  <1>2. TakenDown
    BY DEF Init, EmptyMap, TakenDown, ToReturn
  <1>3. ASSUME NEW b \in Ids, NEW w \in Windows
        PROVE  Bounded(b, w) /\ Unclaimed(b, w)
    <2>1. \A i \in Instances : Owed(i, b, w) = 0
      BY DEF Init, EmptyMap, TokensIn, Owed
    <2>2. \A r \in Requests : Carried(r, b, w) = 0
      BY DEF Init, NoCall, Carried, TokensOf
    <2>3. /\ Claims(b, w) \in [Holders -> Nat]
          /\ \A h \in Holders : Claims(b, w)[h] = 0
      BY <2>1, <2>2 DEF Claims, Holders
    <2>4. Total(Claims(b, w)) = 0
      BY <2>3, TotalZero
    <2>5. Remaining(b, w) = 0 /\ spent[b][w] = 0 /\ adrift[b][w] = 0
      BY DEF Init, CacheInit, NoKey, Remaining
    <2>6. Claimed(b, w) = 0
      BY <2>4, <2>5 DEF Claimed
    <2> QED
      BY <2>5, <2>6, PolicyFacts DEF Bounded, Unclaimed, Quota
  <1> QED
    BY <1>1, <1>2, <1>3 DEF ReturnInv, ClaimsKept

\* Every step keeps the claims within the quota.
LEMMA ReturnStep ==
    ASSUME TypeOK, TypeOK', ReturnInv, [Next]_vars
    PROVE  ReturnInv'
  <1>0. CarriedInReply /\ TakenDown /\ ClaimsKept
    BY DEF ReturnInv
  <1>1. CarriedInReply' /\ TakenDown'
    BY <1>0, CarriedStep, TakenStep
  <1>2. ClaimsKept'
    <2>1. CASE UNCHANGED vars
      BY <1>0, <2>1, StutterLoses, LosesYields, YieldKeeps
         DEF vars, cleanupVars
    <2>2. ASSUME NEW r \in Requests,
                 \/ \E b \in Ids : Arrive(r, b)
                 \/ Serve(r) \/ Answered(r)
                 \/ DisconnectFollower(r) \/ DisconnectLeader(r)
          PROVE  ClaimsKept'
      BY <1>0, <2>2, RequestYields, InstallYields, YieldKeeps, LeaseKeeps,
         ConsumeKeeps
         DEF Answered
    <2>3. ASSUME NEW i \in Instances,
                 Clean(i) \/ Terminate(i) \/ Drain(i) \/ Exit(i) \/ Crash(i)
          PROVE  ClaimsKept'
      BY <1>0, <2>3, CleanupYields, FailsYields, LifeYields, YieldKeeps,
         ReturnGives, RefundKeeps
         DEF Clean
    <2>4. ASSUME NEW b \in Ids,
                 OrphanExec(b) \/ \E w \in Windows : LateReturn(b, w)
          PROVE  ClaimsKept'
      BY <1>0, <2>4, OrphanKeeps, LateGives, RefundKeeps
    <2>5. CASE Tick
      BY <1>0, <2>5, TickKeeps
    <2> QED
      BY <2>1, <2>2, <2>3, <2>4, <2>5 DEF Next
  <1> QED
    BY <1>1, <1>2 DEF ReturnInv

\* ReturnsBounded: however many instances are told to stop, in whatever order
\* their releases reach Redis, at once or after their caller gave up or died,
\* and whatever window is open by then, what was consumed before the cleanup
\* task read the buckets, what is held or on its way back and the counter of
\* the key never exceed the quota.
THEOREM ReturnsNeverExceed == Spec => []ReturnsBounded
  <1>1. TypeOK /\ TypeOK' /\ ReturnInv /\ [Next]_vars => ReturnInv'
    BY ReturnStep
  <1>2. ReturnInv => ReturnsBounded
    BY DEF ReturnInv, ClaimsKept, Bounded, ReturnsBounded
  <1> QED
    BY <1>1, <1>2, ReturnStart, TypeCorrect, PTL DEF Spec

-----------------------------------------------------------------------------
(***************************************************************************)
(* The way out.                                                            *)
(***************************************************************************)

\* The cleanup task takes buckets down only if it was told to, and says that
\* it is done when it has none left; the server stops only if it was told to.
WayOut(i) ==
    /\ stopping[i] => CleanupEnabled
    /\ CleanupEnabled /\ ~accepting[i] => stopping[i]
    /\ HasRead(i) => stopping[i]
    /\ cleanup[i] = "done" => ToReturn(i) = {}

WayInv == \A i \in Instances : WayOut(i)

\* The life cycle, as the refinement maps it.
Phases == [i \in Instances |-> PhaseOf(i)]

wayVars == <<Phases, stopping, CleanupEnabled, FALSE>>

LEMMA PhaseIsPhase == \A i : PhaseOf(i) \in Way!Phases
  BY DEF PhaseOf, Way!Phases

\* A step of one instance is a step of its member of the life cycle.
LEMMA OneGoes ==
    ASSUME NEW i \in Instances, NEW from, NEW to,
           PhaseOf(i) \in from, PhaseOf(i)' \in to,
           \A j \in Instances \ {i} : PhaseOf(j)' = PhaseOf(j)
    PROVE  Way!Goes(i, from, to)
  <1>1. Phases' = [Phases EXCEPT ![i] = PhaseOf(i)']
    BY DEF Phases
  <1> QED
    BY <1>1 DEF Way!Goes, Phases

\* A step that shows in no phase.
LEMMA NobodyGoes ==
    ASSUME \A i \in Instances : PhaseOf(i)' = PhaseOf(i),
           stopping' = stopping
    PROVE  UNCHANGED wayVars
  BY DEF wayVars, Phases

\* Where nothing of an instance changes that its way depends on, it stays.
LEMMA WayStays ==
    ASSUME NEW i \in Instances, WayOut(i),
           stopping'[i] = stopping[i], accepting'[i] = accepting[i],
           cleanup'[i] = cleanup[i], returning'[i] = returning[i]
    PROVE  WayOut(i)' /\ PhaseOf(i)' = PhaseOf(i)
  <1>1. ToReturn(i)' = ToReturn(i)
    BY DEF ToReturn
  <1> QED
    BY <1>1 DEF WayOut, HasRead, PhaseOf

\* What the cleanup task of one instance does is on the way to its return.
LEMMA CleanGoes ==
    ASSUME TypeOK, WayInv, NEW i \in Instances, Clean(i)
    PROVE  /\ WayInv'
           /\ Way!Next \/ UNCHANGED wayVars
  <1>0. /\ DOMAIN cleanup = Instances
        /\ returning \in [Instances -> [Ids -> Bucket \cup {NoBucket}]]
        /\ WayOut(i)
    BY DEF TypeOK, WayInv
  <1>1. /\ UNCHANGED <<stopping, accepting>>
        /\ \A j \in Instances \ {i} :
              cleanup'[j] = cleanup[j] /\ returning'[j] = returning[j]
    BY <1>0
       DEF Clean, CleanupTick, CleanupRemove, ReceiveShutdown, ReturnTokens,
           ReturnFails, Returned, serverVars
  <1>2. \A j \in Instances \ {i} : WayOut(j)' /\ PhaseOf(j)' = PhaseOf(j)
    BY <1>1, WayStays DEF WayInv
  <1>3. ASSUME WayOut(i)',
               PhaseOf(i) # "leaving" => PhaseOf(i)' = PhaseOf(i),
               PhaseOf(i) = "leaving" => PhaseOf(i)' \in {"leaving", "returned"}
        PROVE  /\ WayInv'
               /\ Way!Next \/ UNCHANGED wayVars
    <2>1. WayInv'
      BY <1>2, <1>3 DEF WayInv
    <2>2. CASE PhaseOf(i)' = PhaseOf(i)
      BY <1>1, <1>2, <2>1, <2>2, NobodyGoes
    <2>3. CASE PhaseOf(i) = "leaving" /\ PhaseOf(i)' = "returned"
      <3>1. Way!Return(i)
        BY <1>1, <1>2, <2>3, OneGoes DEF Way!Return
      <3> QED
        BY <2>1, <3>1 DEF Way!Next
    <2> QED
      BY <1>3, <2>2, <2>3
  <1>4. CASE CleanupTick(i) \/ \E b \in Ids : CleanupRemove(i, b)
    <2>1. /\ cleanup[i] \in {"select", "removing"}
          /\ cleanup'[i] \in {"select", "removing"}
      BY <1>0, <1>4 DEF CleanupTick, CleanupRemove
    <2>2. WayOut(i)' /\ PhaseOf(i)' = PhaseOf(i)
      BY <1>0, <1>1, <2>1 DEF WayOut, HasRead, PhaseOf
    <2> QED
      BY <1>3, <2>2
  <1>5. ASSUME stopping[i], cleanup[i] # "done",
               cleanup'[i] \in {"releasing", "done"},
               cleanup'[i] = "done" => ToReturn(i)' = {}
        PROVE  /\ WayInv'
               /\ Way!Next \/ UNCHANGED wayVars
    <2>1. WayOut(i)'
      BY <1>0, <1>1, <1>5 DEF WayOut, HasRead
    <2>2. /\ PhaseOf(i) # "leaving" => PhaseOf(i)' = PhaseOf(i)
          /\ PhaseOf(i) = "leaving" => PhaseOf(i)' \in {"leaving", "returned"}
      BY <1>1, <1>5 DEF PhaseOf
    <2> QED
      BY <1>3, <2>1, <2>2
  <1>6. CASE ReceiveShutdown(i)
    <2>1. /\ stopping[i] /\ cleanup[i] = "select"
          /\ cleanup'[i] = AfterSnapshot(i)
          /\ returning'[i] = [b \in Ids |-> IF b \in Returnable(i)
                                            THEN buckets[i][b] ELSE NoBucket]
      BY <1>0, <1>6 DEF ReceiveShutdown
    <2>2. Returnable(i) = {} => ToReturn(i)' = {}
      BY <2>1 DEF ToReturn
    <2> QED
      BY <1>5, <2>1, <2>2 DEF AfterSnapshot
  <1>7. ASSUME NEW b \in Ids, ReturnTokens(i, b) \/ ReturnFails(i, b)
        PROVE  /\ WayInv'
               /\ Way!Next \/ UNCHANGED wayVars
    <2>1. /\ cleanup[i] = "releasing" /\ stopping[i]
          /\ cleanup'[i] = IF ToReturn(i) = {b} THEN "done" ELSE "releasing"
          /\ returning'[i] = [returning[i] EXCEPT ![b] = NoBucket]
      BY <1>0, <1>7 DEF ReturnTokens, ReturnFails, Returned, WayOut, HasRead
    <2>2. ToReturn(i)' = ToReturn(i) \ {b}
      BY <1>0, <2>1 DEF ToReturn
    <2> QED
      BY <1>5, <2>1, <2>2
  <1> QED
    BY <1>4, <1>6, <1>7 DEF Clean

\* Being told, stopping to serve and being gone.
LEMMA LifeGoes ==
    ASSUME TypeOK, WayInv, NEW i \in Instances,
           Terminate(i) \/ Drain(i) \/ Exit(i) \/ Crash(i)
    PROVE  /\ WayInv'
           /\ Way!Next \/ UNCHANGED wayVars
  <1>0. /\ stopping \in [Instances -> BOOLEAN]
        /\ accepting \in [Instances -> BOOLEAN]
        /\ DOMAIN cleanup = Instances
        /\ returning \in [Instances -> [Ids -> Bucket \cup {NoBucket}]]
        /\ WayOut(i)
    BY DEF TypeOK, WayInv
  <1>1. \A j \in Instances \ {i} : WayOut(j)' /\ PhaseOf(j)' = PhaseOf(j)
    <2>1. \A j \in Instances \ {i} :
             /\ stopping'[j] = stopping[j] /\ accepting'[j] = accepting[j]
             /\ cleanup'[j] = cleanup[j] /\ returning'[j] = returning[j]
      BY <1>0 DEF Terminate, Drain, Exit, Crash, Restart, cleanupVars
    <2> QED
      BY <2>1, WayStays DEF WayInv
  <1>2. ASSUME WayOut(i)' PROVE WayInv'
    BY <1>1, <1>2 DEF WayInv
  <1>3. CASE Terminate(i)
    <2>1. /\ CleanupEnabled /\ ~stopping[i] /\ accepting[i]
          /\ stopping' = [stopping EXCEPT ![i] = TRUE]
          /\ UNCHANGED <<accepting, cleanup, returning>>
      BY <1>0, <1>3, StoreAssumption DEF Terminate, cleanupVars, WayOut
    <2>2. ~HasRead(i) /\ cleanup[i] # "done" /\ stopping'[i]
      BY <1>0, <2>1 DEF WayOut, HasRead
    <2>3. WayOut(i)'
      BY <2>1, <2>2 DEF WayOut, HasRead
    <2>4. PhaseOf(i) = "up" /\ PhaseOf(i)' = "leaving"
      BY <2>1, <2>2 DEF PhaseOf
    <2>5. Way!Leave(i)
      BY <1>1, <2>1, <2>4, OneGoes DEF Way!Leave
    <2> QED
      BY <1>2, <2>3, <2>5 DEF Way!Next
  <1>4. CASE Drain(i)
    <2>1. /\ accepting[i] /\ ~accepting'[i] /\ SignalOver(i)
          /\ UNCHANGED <<stopping, cleanup, returning>>
      BY <1>0, <1>4 DEF Drain, cleanupVars
    <2>2. WayOut(i)' /\ PhaseOf(i)' = "stopping"
      BY <1>0, <2>1 DEF WayOut, HasRead, ToReturn, PhaseOf, SignalOver
    <2>3. PhaseOf(i) = IF CleanupEnabled THEN "returned" ELSE "up"
      BY <1>0, <2>1 DEF PhaseOf, WayOut, SignalOver
    <2>4. Way!Stop(i)
      BY <1>1, <2>1, <2>2, <2>3, OneGoes DEF Way!Stop
    <2> QED
      BY <1>2, <2>2, <2>4 DEF Way!Next
  <1>5. CASE Exit(i) \/ Crash(i)
    <2>1. /\ accepting'[i] /\ ~stopping'[i]
          /\ cleanup'[i] = CleanupStart
          /\ stopping' = [stopping EXCEPT ![i] = FALSE]
      BY <1>0, <1>5 DEF Exit, Crash, Restart
    <2>2. WayOut(i)' /\ PhaseOf(i)' = "up"
      BY <2>1 DEF WayOut, HasRead, PhaseOf, CleanupStart
    <2>3. Way!End(i)
      BY <1>1, <2>1, <2>2, PhaseIsPhase, OneGoes DEF Way!End
    <2> QED
      BY <1>2, <2>2, <2>3 DEF Way!Next
  <1> QED
    BY <1>3, <1>4, <1>5

LEMMA WayStep ==
    ASSUME TypeOK, WayInv, [Next]_vars
    PROVE  /\ WayInv'
           /\ Way!Next \/ UNCHANGED wayVars
  <1>1. CASE UNCHANGED <<stopping, accepting, cleanup, returning>>
    BY <1>1, WayStays, NobodyGoes DEF WayInv
  <1>2. ASSUME NEW i \in Instances,
               Clean(i) \/ Terminate(i) \/ Drain(i) \/ Exit(i) \/ Crash(i)
        PROVE  /\ WayInv'
               /\ Way!Next \/ UNCHANGED wayVars
    BY <1>2, CleanGoes, LifeGoes
  <1> QED
    BY <1>1, <1>2, OthersStay DEF Next

LEMMA WayStart == Init => WayInv /\ Way!Init
  <1> SUFFICES ASSUME Init PROVE WayInv /\ Way!Init
    OBVIOUS
  <1>1. \A i \in Instances : PhaseOf(i) = "up" /\ WayOut(i)
    BY DEF Init, PhaseOf, WayOut, HasRead, CleanupStart
  <1>2. stopping = [i \in Instances |-> FALSE]
    BY DEF Init
  <1> QED
    BY <1>1, <1>2, StoreAssumption DEF WayInv, Way!Init

\* InstancesStopInOrder: any number of instances, told to stop, crashing and
\* being replaced while requests and windows go on, each go the way of
\* Lifecycle: none stops unasked if it returns tokens, nor before each of its
\* releases ran or failed; it is the way Server shows of a single process.
THEOREM InstancesKeepOrder == Spec => InstancesStopInOrder
  <1>1. TypeOK /\ WayInv /\ [Next]_vars
          => WayInv' /\ [Way!Next]_wayVars
    BY WayStep
  <1>2. Init => WayInv /\ Way!Init
    BY WayStart
  <1> QED
    BY <1>1, <1>2, TypeCorrect, PTL
       DEF Spec, InstancesStopInOrder, Way!Spec, wayVars, Phases
=============================================================================
