-------------------------- MODULE RefinementProofs --------------------------
(***************************************************************************)
(* Store implements Ledger: its steps map to steps of one ledger, whatever *)
(* the number of instances, and whichever of them are told to stop.  What  *)
(* the ledger calls held are the claims, and what it calls spent is what   *)
(* was consumed before the cleanup task read the buckets.                  *)
(***************************************************************************)
EXTENDS ReturnProofs

Counts == [Ids -> [Windows -> Nat]]

\* The books of both states are counts, entry by entry.
LEMMA BooksAreCounts ==
    ASSUME TypeOK, TypeOK'
    PROVE  /\ LeftIn \in Counts /\ LeftIn' \in Counts
           /\ HeldIn \in Counts /\ HeldIn' \in Counts
           /\ spent \in Counts /\ spent' \in Counts
           /\ \A b \in Ids, w \in Windows :
                 /\ LeftIn[b][w] = Remaining(b, w)
                 /\ LeftIn'[b][w] = Remaining(b, w)'
                 /\ HeldIn[b][w] = Claimed(b, w)
                 /\ HeldIn'[b][w] = Claimed(b, w)'
  <1>1. \A b \in Ids, w \in Windows :
           /\ Remaining(b, w) \in Nat /\ Remaining(b, w)' \in Nat
           /\ Claimed(b, w) \in Nat /\ Claimed(b, w)' \in Nat
    BY LedgerTypes, LedgerTypesNext, ClaimsTypes, ClaimsTypesNext
  <1>2. /\ LeftIn = [b \in Ids |-> [w \in Windows |-> Remaining(b, w)]]
        /\ LeftIn' = [b \in Ids |-> [w \in Windows |-> Remaining(b, w)']]
    BY DEF LeftIn
  <1>3. /\ HeldIn = [b \in Ids |-> [w \in Windows |-> Claimed(b, w)]]
        /\ HeldIn' = [b \in Ids |-> [w \in Windows |-> Claimed(b, w)']]
    BY DEF HeldIn
  <1>4. spent \in Counts /\ spent' \in Counts
    BY DEF TypeOK, Counts
  <1> QED
    BY <1>1, <1>2, <1>3, <1>4 DEF Counts

\* Books that differ in one entry.
LEMMA OneEntry ==
    ASSUME NEW f \in Counts, NEW g \in Counts, NEW b \in Ids,
           NEW w \in Windows, NEW v,
           g[b][w] = v,
           \A c \in Ids, x \in Windows : c # b \/ x # w => g[c][x] = f[c][x]
    PROVE  g = [f EXCEPT ![b][w] = v]
  <1> DEFINE e == [f EXCEPT ![b][w] = v]
  <1>1. e[b] = [f[b] EXCEPT ![w] = v] /\ \A c \in Ids \ {b} : e[c] = f[c]
    BY DEF Counts
  <1>2. g[b] = [f[b] EXCEPT ![w] = v]
    BY DEF Counts
  <1>3. \A c \in Ids \ {b} : g[c] = f[c]
    BY DEF Counts
  <1>4. e = [c \in Ids |-> e[c]] /\ g = [c \in Ids |-> g[c]]
    BY DEF Counts
  <1> QED
    BY <1>1, <1>2, <1>3, <1>4

\* Losing tokens is a step of the ledger.
LEMMA LosingIsLose ==
    ASSUME TypeOK, TypeOK', spent' = spent,
           \A b \in Ids, w \in Windows :
              /\ Remaining(b, w)' <= Remaining(b, w)
              /\ Claimed(b, w)' <= Claimed(b, w)
    PROVE  Promise!Lose
  <1>1. \A b \in Ids, w \in Windows :
           LeftIn'[b][w] <= LeftIn[b][w] /\ HeldIn'[b][w] <= HeldIn[b][w]
    BY BooksAreCounts
  <1> QED
    BY <1>1, BooksAreCounts DEF Promise!Lose, Promise!Counts, Counts

\* A step after which nobody claims more.
LEMMA YieldIsLose ==
    ASSUME TypeOK, TypeOK', Yields
    PROVE  Promise!Lose
  <1>1. ASSUME NEW b \in Ids, NEW w \in Windows
        PROVE  /\ Remaining(b, w)' <= Remaining(b, w)
               /\ Claimed(b, w)' <= Claimed(b, w)
    <2>1. Claimed(b, w)' <= Claimed(b, w)
      BY DEF Yields
    <2>2. Remaining(b, w)' = Remaining(b, w)
      BY DEF Yields, Remaining
    <2> QED
      BY <2>1, <2>2, LedgerTypes
  <1> QED
    BY <1>1, LosingIsLose DEF Yields

\* A key that expires takes what it had left with it.
LEMMA TickIsLose ==
    ASSUME TypeOK, TypeOK', Tick
    PROVE  Promise!Lose
  <1>1. /\ UNCHANGED <<buckets, id, call, spent, cleanup, returning, adrift>>
        /\ \A b \in Ids : keys'[b] \in {NoKey, keys[b]}
    BY DEF Tick, Advance, history, requestVars, cleanupVars
  <1>2. ASSUME NEW b \in Ids, NEW w \in Windows
        PROVE  /\ Remaining(b, w)' <= Remaining(b, w)
               /\ Claimed(b, w)' <= Claimed(b, w)
    <2>1. Claimed(b, w)' = Claimed(b, w)
      BY <1>1 DEF Claimed, Claims, Carried, Owed, HasRead
    <2>2. Remaining(b, w)' <= Remaining(b, w)
      BY <1>1, LedgerTypes DEF Remaining, NoKey
    <2> QED
      BY <2>1, <2>2, ClaimsTypes
  <1> QED
    BY <1>1, <1>2, LosingIsLose

\* A token consumed in time is spent, or lost if the history counts no
\* further; one consumed late was given up before.
LEMMA ConsumeIsSpend ==
    ASSUME TypeOK, TypeOK', NEW r \in Requests, ConsumeToken(r)
    PROVE  Promise!Lose \/ \E b \in Ids, w \in Windows : Promise!Spend(b, w)
  <1> DEFINE c == id[r]
             x == Mine(r).window
  <1>0. c \in Ids
    BY DEF TypeOK
  <1>1. CASE HasRead(Home[r])
    BY <1>1, LateYields, YieldIsLose
  <1>2. CASE ~HasRead(Home[r])
    <2>1. ASSUME NEW b \in Ids, NEW w \in Windows
          PROVE  /\ HeldIn[b][w] \in Nat /\ HeldIn'[b][w] \in Nat
                 /\ spent[b][w] \in Nat
                 /\ LeftIn[b][w] \in Nat /\ LeftIn'[b][w] = LeftIn[b][w]
                 /\ IF b = c /\ w = x
                    THEN /\ HeldIn'[b][w] + 1 = HeldIn[b][w]
                         /\ spent'[b][w] \in {spent[b][w], spent[b][w] + 1}
                    ELSE /\ HeldIn'[b][w] = HeldIn[b][w]
                         /\ spent'[b][w] = spent[b][w]
      <3>1. Remaining(b, w)' = Remaining(b, w)
        BY <1>2, ConsumeClaims DEF Remaining
      <3>2. /\ HeldIn[b][w] \in Nat /\ HeldIn'[b][w] \in Nat
            /\ spent[b][w] \in Nat
            /\ LeftIn[b][w] \in Nat /\ LeftIn'[b][w] = LeftIn[b][w]
        BY <3>1, BooksAreCounts DEF Counts
      <3>3. IF b = c /\ w = x
            THEN /\ Claimed(b, w)' + 1 = Claimed(b, w)
                 /\ spent'[b][w] \in {spent[b][w], spent[b][w] + 1}
            ELSE /\ Claimed(b, w)' = Claimed(b, w)
                 /\ spent'[b][w] = spent[b][w]
        BY <1>2, ConsumeClaims DEF Consumed
      <3> QED
        BY <3>2, <3>3, BooksAreCounts
    <2> HIDE DEF c, x
    <2>2. LeftIn' = LeftIn
      BY <2>1, BooksAreCounts DEF Counts
    <2>3. CASE x \in Windows /\ spent'[c][x] = spent[c][x] + 1
      <3>1. HeldIn' = [HeldIn EXCEPT ![c][x] = HeldIn[c][x] - 1]
        <4>1. HeldIn'[c][x] = HeldIn[c][x] - 1
          BY <1>0, <2>1, <2>3
        <4>2. \A b \in Ids, w \in Windows :
                 b # c \/ w # x => HeldIn'[b][w] = HeldIn[b][w]
          BY <2>1
        <4> QED
          BY <1>0, <2>3, <4>1, <4>2, BooksAreCounts, OneEntry
      <3>2. spent' = [spent EXCEPT ![c][x] = spent[c][x] + 1]
        BY <1>0, <2>1, <2>3, BooksAreCounts, OneEntry
      <3>3. HeldIn[c][x] > 0
        BY <1>0, <2>1, <2>3
      <3>4. Promise!Spend(c, x)
        BY <2>2, <3>1, <3>2, <3>3 DEF Promise!Spend
      <3> QED
        BY <1>0, <2>3, <3>4
    <2>4. CASE ~(x \in Windows /\ spent'[c][x] = spent[c][x] + 1)
      <3>1. \A b \in Ids, w \in Windows : spent'[b][w] = spent[b][w]
        BY <1>0, <2>1, <2>4
      <3>2. spent' = spent
        BY <3>1, BooksAreCounts DEF Counts
      <3>3. \A b \in Ids, w \in Windows :
               LeftIn'[b][w] <= LeftIn[b][w] /\ HeldIn'[b][w] <= HeldIn[b][w]
        BY <2>1
      <3> QED
        BY <3>2, <3>3, BooksAreCounts
           DEF Promise!Lose, Promise!Counts, Counts
    <2> QED
      BY <2>3, <2>4
  <1> QED
    BY <1>1, <1>2

\* What RELEASE_SCRIPT takes goes back, whoever waits for it, and what it
\* refuses is lost.
LEMMA RefundIsReturn ==
    ASSUME TypeOK, TypeOK', ClaimsKept, NEW b \in Ids, NEW n \in Nat, NEW w,
           GivesBack(b, n, w)
    PROVE  \/ Promise!Lose
           \/ \E x \in Windows, m \in 0 .. LimitOf[b] : Promise!Return(b, x, m)
  <1> DEFINE Back(c, x) == Given(b, n, w, c, x)
  <1>1. spent' = spent
    BY DEF GivesBack
  <1>2. ASSUME NEW c \in Ids, NEW x \in Windows
        PROVE  /\ HeldIn[c][x] \in Nat /\ HeldIn'[c][x] \in Nat
               /\ LeftIn[c][x] \in Nat /\ Back(c, x) \in Nat
               /\ HeldIn'[c][x] = HeldIn[c][x] - Back(c, x)
    <2>1. HeldIn[c][x] \in Nat /\ HeldIn'[c][x] \in Nat /\ LeftIn[c][x] \in Nat
      BY BooksAreCounts DEF Counts
    <2>2. Back(c, x) \in Nat
      BY DEF Given
    <2>3. HeldIn'[c][x] + Back(c, x) = HeldIn[c][x]
      BY BooksAreCounts DEF GivesBack
    <2> HIDE DEF Back
    <2> QED
      BY <2>1, <2>2, <2>3
  <1>3. CASE keys' = keys
    <2>1. ASSUME NEW c \in Ids, NEW x \in Windows
          PROVE  /\ Remaining(c, x)' <= Remaining(c, x)
                 /\ Claimed(c, x)' <= Claimed(c, x)
      <3>1. Remaining(c, x)' = Remaining(c, x)
        BY <1>3 DEF Remaining
      <3>2. HeldIn'[c][x] <= HeldIn[c][x]
        <4> HIDE DEF Back
        <4> QED
          BY <1>2
      <3> QED
        BY <3>1, <3>2, LedgerTypes, BooksAreCounts
    <2> QED
      BY <1>1, <2>1, LosingIsLose
  <1>4. CASE /\ w = keys[b].window
             /\ \A c \in Ids, x \in Windows :
                   Remaining(c, x)' = Remaining(c, x) + Back(c, x)
    <2>1. w \in Windows
      BY <1>4 DEF TypeOK, CacheTypeOK, Key
    <2>2. \A c \in Ids, x \in Windows :
             Back(c, x) = IF c = b /\ x = w THEN n ELSE 0
      BY DEF Given
    <2>3. \A c \in Ids, x \in Windows : LeftIn'[c][x] = LeftIn[c][x] + Back(c, x)
      BY <1>4, BooksAreCounts
    <2>4. n <= LimitOf[b]
      <3>1. Bounded(b, w)
        BY <2>1 DEF ClaimsKept
      <3>2. /\ Claimed(b, w) \in Nat /\ Remaining(b, w) \in Nat
            /\ spent[b][w] \in Nat /\ Quota(b) \in Nat
        BY <2>1, LedgerTypes, ClaimsTypes
      <3>3. Claimed(b, w) <= Quota(b)
        BY <3>1, <3>2 DEF Bounded
      <3>4. n <= HeldIn[b][w]
        <4>1. Back(b, w) = n
          BY <2>1, <2>2
        <4> HIDE DEF Back
        <4> QED
          BY <1>2, <2>1, <4>1
      <3>5. HeldIn[b][w] = Claimed(b, w) /\ LimitOf[b] = Quota(b)
        BY <2>1, BooksAreCounts DEF LimitOf
      <3> QED
        BY <2>1, <3>2, <3>3, <3>4, <3>5
    <2> HIDE DEF Back
    <2>5. HeldIn' = [HeldIn EXCEPT ![b][w] = HeldIn[b][w] - n]
      <3>1. HeldIn'[b][w] = HeldIn[b][w] - n
        BY <1>2, <2>1, <2>2
      <3>2. \A c \in Ids, x \in Windows :
               c # b \/ x # w => HeldIn'[c][x] = HeldIn[c][x]
        BY <1>2, <2>2
      <3> QED
        BY <2>1, <3>1, <3>2, BooksAreCounts, OneEntry
    <2>6. LeftIn' = [LeftIn EXCEPT ![b][w] = LeftIn[b][w] + n]
      <3>1. LeftIn'[b][w] = LeftIn[b][w] + n
        BY <2>1, <2>2, <2>3
      <3>2. \A c \in Ids, x \in Windows :
               c # b \/ x # w => LeftIn'[c][x] = LeftIn[c][x]
        BY <1>2, <2>2, <2>3
      <3> QED
        BY <2>1, <3>1, <3>2, BooksAreCounts, OneEntry
    <2>7. n <= HeldIn[b][w]
      <3>1. Back(b, w) = n
        BY <2>1, <2>2
      <3> QED
        BY <1>2, <2>1, <3>1
    <2>8. Promise!Return(b, w, n)
      BY <1>1, <2>5, <2>6, <2>7 DEF Promise!Return
    <2>9. n \in 0 .. LimitOf[b]
      <3>1. LimitOf[b] \in Nat
        BY PolicyFacts DEF LimitOf, Quota
      <3> QED
        BY <2>1, <2>4, <3>1
    <2> QED
      BY <2>1, <2>8, <2>9
  <1> QED
    BY <1>3, <1>4, RefundAdds DEF GivesBack

\* LEASE_SCRIPT runs for `b`: what it hands out, or nothing, is held.
LEMMA ScriptIsLease ==
    ASSUME TypeOK, TypeOK', ClaimsKept, NEW b \in Ids, ~LeaseRefused(b),
           UNCHANGED <<now, spent>>,
           \A c \in Ids : keys'[c] = IF c = b THEN KeyAfterLease(b) ELSE keys[c],
           NEW m \in {0, Leased(b)},
           \A c \in Ids, x \in Windows :
              Claimed(c, x)' =
                 Claimed(c, x)
                   + (IF c = b /\ x = KeyAfterLease(b).window THEN m ELSE 0)
    PROVE  \E w \in Windows, n \in 0 .. LimitOf[b] : \E k \in 0 .. n :
              Promise!Open(b, w, n, k) \/ Promise!Lease(b, w, n, k)
  <1> DEFINE key == KeyAfterLease(b)
             w == key.window
             n == Leased(b)
  <1>1. /\ n \in Nat /\ key \in Key /\ w \in Windows /\ w \in Nat
        /\ key.tokens \in Nat /\ w >= now
    BY LeaseFacts, LedgerTypesNext DEF TypeOK, Key
  <1>2. n <= Quota(b) /\ LimitOf[b] = Quota(b) /\ Quota(b) \in Nat
    <2>1. n <= Criteria(b).lease_size
      <3>1. keys[b].tokens \in Nat
        BY DEF TypeOK, CacheTypeOK, Key
      <3> QED
        BY <3>1, PolicyFacts DEF Leased, ToLease
    <2> QED
      BY <1>1, <2>1, PolicyFacts DEF Quota, LimitOf
  <1>3. n \in 0 .. LimitOf[b] /\ m \in 0 .. n
    BY <1>1, <1>2
  <1>4. \A c \in Ids, x \in Windows :
           /\ HeldIn[c][x] \in Nat /\ LeftIn[c][x] \in Nat
           /\ HeldIn'[c][x] = HeldIn[c][x] + (IF c = b /\ x = w THEN m ELSE 0)
           /\ LeftIn'[c][x] = IF c # b THEN LeftIn[c][x]
                              ELSE IF x = w THEN key.tokens ELSE 0
    <2>1. \A c \in Ids, x \in Windows :
             Remaining(c, x)' = IF c # b THEN Remaining(c, x)
                                ELSE IF x = w THEN key.tokens ELSE 0
      BY DEF Remaining
    <2> QED
      BY <2>1, BooksAreCounts DEF Counts
  <1>5. CASE Alive(b)
    <2>1. w = keys[b].window /\ key.tokens + n = keys[b].tokens
      BY <1>5, LeaseFacts DEF TypeOK
    <2>2. LeftIn[b][w] = key.tokens + n
          /\ \A x \in Windows \ {w} : LeftIn[b][x] = 0
      BY <1>1, <2>1, BooksAreCounts DEF Remaining
    <2>3. LeftIn' = [LeftIn EXCEPT ![b][w] = LeftIn[b][w] - n]
      <3>1. LeftIn'[b][w] = LeftIn[b][w] - n
        BY <1>1, <1>4, <2>2
      <3>2. \A c \in Ids, x \in Windows :
               c # b \/ x # w => LeftIn'[c][x] = LeftIn[c][x]
        BY <1>4, <2>2
      <3> QED
        BY <1>1, <3>1, <3>2, BooksAreCounts, OneEntry
    <2>4. HeldIn' = [HeldIn EXCEPT ![b][w] = HeldIn[b][w] + m]
      <3>1. HeldIn'[b][w] = HeldIn[b][w] + m
        BY <1>1, <1>4
      <3>2. \A c \in Ids, x \in Windows :
               c # b \/ x # w => HeldIn'[c][x] = HeldIn[c][x]
        BY <1>4
      <3> QED
        BY <1>1, <3>1, <3>2, BooksAreCounts, OneEntry
    <2>5. n <= LeftIn[b][w]
      BY <1>1, <2>2
    <2>6. Promise!Lease(b, w, n, m)
      BY <2>3, <2>4, <2>5 DEF Promise!Lease
    <2> QED
      BY <1>1, <1>3, <2>6
  <1>6. CASE ~Alive(b)
    <2>1. w = now + Criteria(b).reset_in /\ key.tokens + n = Quota(b)
      BY <1>6, LeaseFacts DEF TypeOK
    <2>2. now < w /\ keys[b].window < w
      <3>1. Criteria(b).reset_in \in Nat /\ Criteria(b).reset_in # 0
        BY <1>6, PolicyFacts DEF LeaseRefused
      <3>2. now \in Nat /\ keys[b].window \in Nat
        BY <1>1, LedgerTypes
      <3> QED
        BY <1>6, <2>1, <3>1, <3>2 DEF Alive
    <2>3. spent[b][w] = 0 /\ Claimed(b, w) = 0
      BY <1>1, <2>2 DEF ClaimsKept, Unclaimed
    <2>4. LeftIn[b][w] = 0 /\ HeldIn[b][w] = 0
      <3>1. Remaining(b, w) = 0
        <4>1. keys[b].window # w
          BY <1>1, <2>2, LedgerTypes
        <4> QED
          BY <4>1 DEF Remaining
      <3> QED
        BY <1>1, <2>3, <3>1, BooksAreCounts
    <2>5. HeldIn' = [HeldIn EXCEPT ![b][w] = m]
      <3>1. HeldIn'[b][w] = m
        BY <1>1, <1>4, <2>4
      <3>2. \A c \in Ids, x \in Windows :
               c # b \/ x # w => HeldIn'[c][x] = HeldIn[c][x]
        BY <1>4
      <3> QED
        BY <1>1, <3>1, <3>2, BooksAreCounts, OneEntry
    <2>6. LeftIn' = [LeftIn EXCEPT ![b] =
                       [v \in Windows |-> IF v = w THEN LimitOf[b] - n ELSE 0]]
      <3> DEFINE row == [v \in Windows |-> IF v = w THEN LimitOf[b] - n ELSE 0]
      <3>1. LimitOf[b] - n = key.tokens
        BY <1>1, <1>2, <2>1
      <3>2. \A v \in Windows : LeftIn'[b][v] = row[v]
        BY <1>4, <3>1
      <3>3. LeftIn'[b] = row
        <4>1. LeftIn'[b] = [v \in Windows |-> LeftIn'[b][v]]
          BY BooksAreCounts DEF Counts
        <4> QED
          BY <3>2, <4>1
      <3>4. \A c \in Ids \ {b} : LeftIn'[c] = LeftIn[c]
        BY <1>4, BooksAreCounts DEF Counts
      <3>5. /\ LeftIn' = [c \in Ids |-> LeftIn'[c]]
            /\ LeftIn = [c \in Ids |-> LeftIn[c]]
        BY BooksAreCounts DEF Counts
      <3> HIDE DEF row
      <3>6. LeftIn' = [LeftIn EXCEPT ![b] = row]
        BY <3>3, <3>4, <3>5
      <3> QED
        BY <3>6 DEF row
    <2>7. Promise!Open(b, w, n, m)
      BY <2>3, <2>4, <2>5, <2>6 DEF Promise!Open
    <2> QED
      BY <1>1, <1>3, <2>7
  <1> QED
    BY <1>5, <1>6

\* The lease of a request.
LEMMA LeaseIsLease ==
    ASSUME TypeOK, TypeOK', ClaimsKept, CarriedInReply,
           NEW r \in Requests, LeaseExec(r)
    PROVE  Promise!Next
  <1> DEFINE b == id[r]
             n == Leased(b)
  <1>0. b \in Ids /\ n \in Nat
    BY LeaseFacts DEF TypeOK
  <1>1. ASSUME NEW c \in Ids, NEW x \in Windows
        PROVE  Claimed(c, x)' =
                 Claimed(c, x)
                   + (IF c = b /\ x = KeyAfterLease(b).window THEN n ELSE 0)
    <2> DEFINE f == Claims(c, x)
               g == Claims(c, x)'
    <2>1. /\ f \in [Holders -> Nat] /\ g \in [Holders -> Nat] /\ r \in Holders
          /\ IsFiniteSet(Holders) /\ Total(f) \in Nat /\ Total(g) \in Nat
      BY LedgerTypes, ClaimsTypes, ClaimsTypesNext DEF Holders
    <2>2. \A h \in Holders \ {r} : g[h] = f[h]
      BY LeaseClaims
    <2>3. c = b => f[r] = 0
      <3>1. call[r].leased = 0
        BY DEF LeaseExec, CarriedInReply
      <3> QED
        BY <3>1, ClaimsAt DEF Carried, TokensOf
    <2>4. g[r] = IF c = b
                 THEN IF x = KeyAfterLease(c).window THEN Leased(c) ELSE 0
                 ELSE f[r]
      BY LeaseClaims
    <2> HIDE DEF f, g, b, n
    <2>5. Total(g) + f[r] = Total(f) + g[r] /\ f[r] \in Nat
      BY <2>1, <2>2, TotalChange
    <2>6. Total(g) = Total(f)
                       + (IF c = b /\ x = KeyAfterLease(b).window THEN n ELSE 0)
      <3>1. CASE c = b /\ x = KeyAfterLease(b).window
        BY <1>0, <2>1, <2>3, <2>4, <2>5, <3>1 DEF n
      <3>2. CASE c = b /\ x # KeyAfterLease(b).window
        BY <2>1, <2>3, <2>4, <2>5, <3>2
      <3>3. CASE c # b
        BY <2>1, <2>4, <2>5, <3>3
      <3> QED
        BY <3>1, <3>2, <3>3
    <2>7. Total(Claims(c, x)') = Total(Claims(c, x))
            + (IF c = b /\ x = KeyAfterLease(b).window THEN n ELSE 0)
      BY <2>6 DEF f, g
    <2>8. adrift'[c][x] = adrift[c][x]
      BY LeaseClaims
    <2> QED
      BY <1>0, <2>7, <2>8, ClaimsTypes, ClaimsTypesNext DEF n
  <1>2. /\ ~LeaseRefused(b) /\ UNCHANGED <<now, spent>>
        /\ \A c \in Ids :
              keys'[c] = IF c = b THEN KeyAfterLease(b) ELSE keys[c]
    <2>1. 0 \in Windows
      BY Constants
    <2> QED
      BY <1>0, <2>1, LeaseClaims
  <1>3. n \in {0, Leased(b)}
    OBVIOUS
  <1> HIDE DEF b
  <1>4. \E w \in Windows, k \in 0 .. LimitOf[b] : \E j \in 0 .. k :
           Promise!Open(b, w, k, j) \/ Promise!Lease(b, w, k, j)
    BY <1>0, <1>1, <1>2, <1>3, ScriptIsLease
  <1> QED
    BY <1>0, <1>4 DEF Promise!Next

\* A lease nobody waits for: the tokens leave Redis and reach no instance.
LEMMA OrphanIsLease ==
    ASSUME TypeOK, TypeOK', ClaimsKept, NEW b \in Ids, OrphanExec(b)
    PROVE  Promise!Next
  <1>0. keys \in [Ids -> Key] /\ Leased(b) \in Nat
    BY LeaseFacts DEF TypeOK, CacheTypeOK
  <1>1. /\ UNCHANGED <<now, spent, id, buckets, call, cleanup, returning,
                       adrift>>
        /\ keys' = IF LeaseRefused(b) THEN keys
                   ELSE [keys EXCEPT ![b] = KeyAfterLease(b)]
    BY DEF OrphanExec, history, requestVars, cleanupVars
  <1>2. \A c \in Ids, x \in Windows : Claimed(c, x)' = Claimed(c, x)
    BY <1>1 DEF Claimed, Claims, Carried, Owed, HasRead
  <1>3. CASE LeaseRefused(b)
    <2>1. \A c \in Ids, x \in Windows :
             /\ Remaining(c, x)' <= Remaining(c, x)
             /\ Claimed(c, x)' <= Claimed(c, x)
      <3>1. \A c \in Ids, x \in Windows : Remaining(c, x)' = Remaining(c, x)
        BY <1>1, <1>3 DEF Remaining
      <3> QED
        BY <1>2, <3>1, LedgerTypes, ClaimsTypes
    <2>2. Promise!Lose
      BY <1>1, <2>1, LosingIsLose
    <2> QED
      BY <2>2 DEF Promise!Next
  <1>4. CASE ~LeaseRefused(b)
    <2>1. \A c \in Ids :
             keys'[c] = IF c = b THEN KeyAfterLease(b) ELSE keys[c]
      BY <1>0, <1>1, <1>4
    <2>2. \A c \in Ids, x \in Windows :
             Claimed(c, x)' =
                Claimed(c, x)
                  + (IF c = b /\ x = KeyAfterLease(b).window THEN 0 ELSE 0)
      BY <1>2, ClaimsTypes
    <2>3. \E w \in Windows, k \in 0 .. LimitOf[b] : \E j \in 0 .. k :
             Promise!Open(b, w, k, j) \/ Promise!Lease(b, w, k, j)
      BY <1>1, <1>4, <2>1, <2>2, ScriptIsLease
    <2> QED
      BY <2>3 DEF Promise!Next
  <1> QED
    BY <1>3, <1>4

-----------------------------------------------------------------------------
\* Every step of Store is a step of the ledger.
LEMMA StepsKeepLedger ==
    ASSUME TypeOK, TypeOK', ReturnInv, [Next]_vars
    PROVE  Promise!Next
  <1>0. ClaimsKept /\ TakenDown /\ CarriedInReply
    BY DEF ReturnInv
  <1>1. Promise!Lose => Promise!Next
    BY DEF Promise!Next
  <1>2. Yields => Promise!Next
    BY <1>1, YieldIsLose
  <1>3. ASSUME NEW b \in Ids, NEW n \in Nat, NEW w, GivesBack(b, n, w)
        PROVE  Promise!Next
    BY <1>0, <1>1, <1>3, RefundIsReturn DEF Promise!Next
  <1>4. CASE UNCHANGED vars
    BY <1>2, <1>4, StutterLoses, LosesYields DEF vars, cleanupVars
  <1>5. ASSUME NEW r \in Requests,
               \/ \E b \in Ids : Arrive(r, b)
               \/ Serve(r) \/ Answered(r)
               \/ DisconnectFollower(r) \/ DisconnectLeader(r)
        PROVE  Promise!Next
    <2>1. CASE ConsumeToken(r)
      BY <1>1, <2>1, ConsumeIsSpend DEF Promise!Next
    <2>2. CASE Install(r)
      BY <1>2, <2>2, InstallYields
    <2>3. CASE LeaseExec(r)
      BY <1>0, <2>3, LeaseIsLease
    <2>4. CASE ~ConsumeToken(r) /\ ~Install(r) /\ ~LeaseExec(r)
      BY <1>0, <1>2, <1>5, <2>4, RequestYields DEF Answered
    <2> QED
      BY <2>1, <2>2, <2>3, <2>4
  <1>6. ASSUME NEW i \in Instances,
               Clean(i) \/ Terminate(i) \/ Drain(i) \/ Exit(i) \/ Crash(i)
        PROVE  Promise!Next
    <2>1. ASSUME NEW b \in Ids, ReturnTokens(i, b)
          PROVE  Promise!Next
      BY <1>3, <2>1, ReturnGives
    <2> QED
      BY <1>0, <1>2, <1>6, <2>1, CleanupYields, FailsYields, LifeYields
         DEF Clean
  <1>7. ASSUME NEW b \in Ids,
               OrphanExec(b) \/ \E w \in Windows : LateReturn(b, w)
        PROVE  Promise!Next
    BY <1>0, <1>3, <1>7, OrphanIsLease, LateGives
  <1>8. CASE Tick
    BY <1>1, <1>8, TickIsLose
  <1> QED
    BY <1>4, <1>5, <1>6, <1>7, <1>8 DEF Next

\* The ledger is empty when Redis and the instances are.
LEMMA StartIsEmpty == Init => Promise!Init
  <1> SUFFICES ASSUME Init PROVE Promise!Init
    OBVIOUS
  <1>1. ASSUME NEW b \in Ids, NEW w \in Windows
        PROVE  Remaining(b, w) = 0 /\ Claimed(b, w) = 0
    <2>1. \A i \in Instances : Owed(i, b, w) = 0
      BY DEF Init, EmptyMap, TokensIn, Owed
    <2>2. \A r \in Requests : Carried(r, b, w) = 0
      BY DEF Init, NoCall, Carried, TokensOf
    <2>3. /\ Claims(b, w) \in [Holders -> Nat]
          /\ \A h \in Holders : Claims(b, w)[h] = 0
      BY <2>1, <2>2 DEF Claims, Holders
    <2>4. Remaining(b, w) = 0 /\ adrift[b][w] = 0
      BY DEF Init, CacheInit, NoKey, Remaining
    <2>5. Total(Claims(b, w)) = 0
      BY <2>3, TotalZero
    <2> QED
      BY <2>4, <2>5 DEF Claimed
  <1> QED
    BY <1>1 DEF Init, Promise!Init, Promise!Nothing, LeftIn, HeldIn

\* Any number of instances, with failures, crashes, disconnects, leases and
\* releases that run late and instances told to stop, behaves towards each window like one ledger that
\* holds its quota, takes back what is returned, and counts as spent all that
\* was consumed before a cleanup task read the buckets it returns.
THEOREM Refinement == Spec => KeepsLedger
  <1>1. TypeOK /\ TypeOK' /\ ReturnInv /\ [Next]_vars => Promise!Next
    BY StepsKeepLedger
  <1>2. TypeOK /\ TypeOK' /\ ReturnInv /\ [Next]_vars => ReturnInv'
    BY ReturnStep
  <1> QED
    BY <1>1, <1>2, StartIsEmpty, ReturnStart, TypeCorrect, PTL
       DEF Spec, KeepsLedger, Promise!Spec

=============================================================================
