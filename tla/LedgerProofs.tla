---------------------------- MODULE LedgerProofs ----------------------------
(***************************************************************************)
(* The conservation of tokens over every instance: TokensConserved for any *)
(* number of instances and requests.                                       *)
(*                                                                         *)
(* It is not inductive by itself.  LEASE_SCRIPT opens a window with the    *)
(* whole quota, so nothing may have been spent or be held in it before     *)
(* (Unopened), and a slot that takes up another key must carry no tokens   *)
(* (CarriedInReply).                                                       *)
(***************************************************************************)
EXTENDS StoreProofs, FunctionTheorems, FiniteSetTheorems

-----------------------------------------------------------------------------
(***************************************************************************)
(* Facts about Total: its type, its order, and what a change at one or two *)
(* places does to it.                                                      *)
(***************************************************************************)

\* The units of one place.
Column(f, h) == {h} \X (1 .. f[h])

\* A place of value zero has no units, so nobody need leave it out.
LEMMA UnitsByColumn ==
    ASSUME NEW S, NEW f \in [S -> Nat]
    PROVE  Units(f) = UNION {Column(f, h) : h \in S}
  <1> DEFINE P == {g \in DOMAIN f : f[g] > 0}
  <1>1. DOMAIN f = S /\ \A h \in S : f[h] \in Nat
    OBVIOUS
  <1>2. \A h \in S : h \notin P => Column(f, h) = {}
    <2> TAKE h \in S
    <2>1. h \notin P => f[h] = 0
      BY <1>1
    <2>2. f[h] = 0 => 1 .. f[h] = {}
      OBVIOUS
    <2> QED
      BY <2>1, <2>2 DEF Column
  <1>3. Units(f) = UNION {Column(f, h) : h \in P}
    BY DEF Units, Column
  <1>4. P \subseteq S
    BY <1>1
  <1> HIDE DEF P
  <1> QED
    BY <1>2, <1>3, <1>4

\* The units of one place are as many as its value.
LEMMA ColumnSize ==
    ASSUME NEW S, NEW f \in [S -> Nat], NEW h \in S
    PROVE  IsFiniteSet(Column(f, h)) /\ Cardinality(Column(f, h)) = f[h]
  <1>1. f[h] \in Nat
    OBVIOUS
  <1>2. IsFiniteSet({h}) /\ Cardinality({h}) = 1
    BY FS_Singleton, Zenon
  <1>3. IsFiniteSet(1 .. f[h]) /\ Cardinality(1 .. f[h]) = f[h]
    BY <1>1, FS_Interval
  <1>4. Cardinality({h} \X (1 .. f[h]))
          = Cardinality({h}) * Cardinality(1 .. f[h])
    BY <1>2, <1>3, FS_Product
  <1>5. IsFiniteSet({h} \X (1 .. f[h]))
    BY <1>2, <1>3, FS_Product
  <1> QED
    BY <1>1, <1>2, <1>3, <1>4, <1>5 DEF Column

\* Over finitely many places the units are finitely many.
LEMMA UnitsFinite ==
    ASSUME NEW S, IsFiniteSet(S), NEW f \in [S -> Nat]
    PROVE  IsFiniteSet(Units(f))
  <1> DEFINE C == {Column(f, h) : h \in S}
             c == [h \in S |-> Column(f, h)]
  <1>1. c \in Surjection(S, C)
    <2>1. c \in [S -> C]
      OBVIOUS
    <2>2. \A t \in C : \E h \in S : c[h] = t
      OBVIOUS
    <2> QED
      BY <2>1, <2>2 DEF Surjection
  <1>2. IsFiniteSet(C)
    BY <1>1, FS_Surjection
  <1>3. \A T \in C : IsFiniteSet(T)
    BY ColumnSize
  <1>4. IsFiniteSet(UNION C)
    BY <1>2, <1>3, FS_UNION
  <1>5. Units(f) = UNION C
    BY UnitsByColumn
  <1> QED
    BY <1>4, <1>5

\* A total over finitely many places is a natural number.
LEMMA TotalType ==
    ASSUME NEW S, IsFiniteSet(S), NEW f \in [S -> Nat]
    PROVE  Total(f) \in Nat
  BY UnitsFinite, FS_CardinalityType DEF Total

\* A function that is nowhere greater has no greater total.
LEMMA TotalMonotone ==
    ASSUME NEW S, IsFiniteSet(S), NEW f \in [S -> Nat], NEW g \in [S -> Nat],
           \A h \in S : g[h] <= f[h]
    PROVE  Total(g) <= Total(f)
  <1>1. Units(g) \subseteq Units(f)
    <2>1. \A h \in S : g[h] \in Nat /\ f[h] \in Nat /\ g[h] <= f[h]
      OBVIOUS
    <2>2. \A h \in S : 1 .. g[h] \subseteq 1 .. f[h]
      BY <2>1
    <2>3. \A h \in S : Column(g, h) \subseteq Column(f, h)
      BY <2>2 DEF Column
    <2> QED
      BY <2>3, UnitsByColumn
  <1>2. IsFiniteSet(Units(f))
    BY UnitsFinite
  <1> QED
    BY <1>1, <1>2, FS_Subset DEF Total

\* The total of zeros is zero.
LEMMA TotalZero ==
    ASSUME NEW S, NEW f \in [S -> Nat], \A h \in S : f[h] = 0
    PROVE  Total(f) = 0
  <1>1. \A h \in S : Column(f, h) = {}
    BY DEF Column
  <1>2. Units(f) = {}
    BY <1>1, UnitsByColumn
  <1> QED
    BY <1>2, FS_EmptySet DEF Total

\* The units outside of one place.
Rest(f, h) == Units(f) \ Column(f, h)

\* A total splits at any place.
LEMMA TotalSplit ==
    ASSUME NEW S, IsFiniteSet(S), NEW f \in [S -> Nat], NEW h \in S
    PROVE  /\ Total(f) = f[h] + Cardinality(Rest(f, h))
           /\ Cardinality(Rest(f, h)) \in Nat
  <1>1. IsFiniteSet(Units(f))
    BY UnitsFinite
  <1>2. IsFiniteSet(Column(f, h)) /\ Cardinality(Column(f, h)) = f[h]
    BY ColumnSize
  <1>3. Units(f) \cap Column(f, h) = Column(f, h)
    BY UnitsByColumn
  <1>4. /\ IsFiniteSet(Rest(f, h))
        /\ Cardinality(Rest(f, h)) = Cardinality(Units(f)) - f[h]
    <2>1. /\ IsFiniteSet(Units(f) \ Column(f, h))
          /\ Cardinality(Units(f) \ Column(f, h))
               = Cardinality(Units(f)) - Cardinality(Units(f) \cap Column(f, h))
      BY <1>1, FS_Difference
    <2> QED
      BY <1>2, <1>3, <2>1 DEF Rest
  <1>5. Cardinality(Rest(f, h)) \in Nat /\ Cardinality(Units(f)) \in Nat
    BY <1>1, <1>4, FS_CardinalityType
  <1> QED
    BY <1>4, <1>5 DEF Total

\* What changes at one place changes the total by as much.
LEMMA TotalChange ==
    ASSUME NEW S, IsFiniteSet(S), NEW f \in [S -> Nat], NEW g \in [S -> Nat],
           NEW h \in S, \A x \in S \ {h} : g[x] = f[x]
    PROVE  Total(g) + f[h] = Total(f) + g[h]
  <1>1. Rest(f, h) = Rest(g, h)
    <2>1. \A x \in S \ {h} : Column(f, x) = Column(g, x)
      BY DEF Column
    <2>2. \A x \in S \ {h} : /\ Column(f, x) \cap Column(f, h) = {}
                             /\ Column(g, x) \cap Column(g, h) = {}
      BY DEF Column
    <2>3. /\ Units(f) = UNION {Column(f, x) : x \in S}
          /\ Units(g) = UNION {Column(g, x) : x \in S}
      BY UnitsByColumn
    <2>4. /\ Rest(f, h) = UNION {Column(f, x) : x \in S \ {h}}
          /\ Rest(g, h) = UNION {Column(g, x) : x \in S \ {h}}
      BY <2>2, <2>3 DEF Rest
    <2> QED
      BY <2>1, <2>4
  <1>2. Total(f) = f[h] + Cardinality(Rest(f, h))
    BY TotalSplit
  <1>3. Total(g) = g[h] + Cardinality(Rest(g, h))
    BY TotalSplit
  <1>4. Cardinality(Rest(f, h)) \in Nat
    BY TotalSplit
  <1> QED
    BY <1>1, <1>2, <1>3, <1>4

\* What moves from one place to another leaves the total as it is.
LEMMA TotalMove ==
    ASSUME NEW S, IsFiniteSet(S), NEW f \in [S -> Nat], NEW g \in [S -> Nat],
           NEW h \in S, NEW k \in S, h # k,
           \A x \in S \ {h, k} : g[x] = f[x],
           g[h] + g[k] <= f[h] + f[k]
    PROVE  Total(g) <= Total(f)
  <1> DEFINE m == [f EXCEPT ![h] = g[h]]
  <1>1. m \in [S -> Nat]
    OBVIOUS
  <1>a. \A x \in S \ {h} : m[x] = f[x]
    OBVIOUS
  <1>b. \A x \in S \ {k} : g[x] = m[x]
    OBVIOUS
  <1>4. m[h] = g[h] /\ m[k] = f[k]
    OBVIOUS
  <1> HIDE DEF m
  <1>2. Total(m) + f[h] = Total(f) + m[h]
    BY <1>1, <1>a, TotalChange
  <1>3. Total(g) + m[k] = Total(m) + g[k]
    BY <1>1, <1>b, TotalChange
  <1>5. Total(f) \in Nat /\ Total(m) \in Nat /\ Total(g) \in Nat
    BY <1>1, TotalType
  <1>6. f[h] \in Nat /\ f[k] \in Nat /\ g[h] \in Nat /\ g[k] \in Nat
    OBVIOUS
  <1> QED
    BY <1>2, <1>3, <1>4, <1>5, <1>6

-----------------------------------------------------------------------------
Holders == Instances \cup Requests

CarriedInReply ==
    \A r \in Requests :
        pc[r] \notin {"replied", "install"} => call[r].leased = 0

-----------------------------------------------------------------------------
(***************************************************************************)
(* The parts of the ledger.                                                *)
(***************************************************************************)

\* Each entry of the ledger is a natural number, and so is the sum.
LEMMA LedgerTypes ==
    ASSUME TypeOK, NEW b \in Ids, NEW w \in Windows
    PROVE  /\ IsFiniteSet(Holders)
           /\ Holdings(b, w) \in [Holders -> Nat]
           /\ Total(Holdings(b, w)) \in Nat
           /\ Remaining(b, w) \in Nat
           /\ spent[b][w] \in Nat /\ late[b][w] \in Nat
           /\ AllSpent(b, w) \in Nat
           /\ Quota(b) \in Nat
           /\ keys[b].window \in Nat /\ keys[b].tokens \in Nat
           /\ now \in Nat /\ w \in Nat
  <1>1. IsFiniteSet(Holders)
    BY StoreAssumption, FS_Union DEF Holders
  <1>2. \A i \in Instances : TokensIn(buckets[i][b], w) \in Nat
    BY DEF TypeOK, TokensIn, Bucket
  <1>3. \A r \in Requests : Carried(r, b, w) \in Nat
    BY DEF TypeOK, Carried, TokensOf, Call
  <1>4. Holdings(b, w) \in [Holders -> Nat]
    BY <1>2, <1>3 DEF Holdings, Holders
  <1>5. Total(Holdings(b, w)) \in Nat
    BY <1>1, <1>4, TotalType
  <1>6. keys[b].tokens \in Nat /\ keys[b].window \in Windows
    BY DEF TypeOK, CacheTypeOK, Key
  <1>7. now \in Nat
    BY TimeAssumption DEF TypeOK, CacheTypeOK
  <1>8. /\ spent[b][w] \in Nat /\ late[b][w] \in Nat
        /\ AllSpent(b, w) \in Nat
    BY DEF TypeOK, AllSpent
  <1>9. Remaining(b, w) \in Nat /\ Quota(b) \in Nat
    BY <1>6, PolicyFacts DEF Remaining, Quota
  <1> QED
    BY <1>1, <1>4, <1>5, <1>6, <1>7, <1>8, <1>9, Constants

\* The ledger of the next state has the same types.
LEMMA LedgerTypesNext ==
    ASSUME TypeOK', NEW b \in Ids, NEW w \in Windows
    PROVE  /\ Holdings(b, w)' \in [Holders -> Nat]
           /\ Total(Holdings(b, w)') \in Nat
           /\ Remaining(b, w)' \in Nat
           /\ spent'[b][w] \in Nat /\ late'[b][w] \in Nat
           /\ AllSpent(b, w)' \in Nat
           /\ keys'[b].window \in Nat /\ keys'[b].tokens \in Nat
           /\ now' \in Nat
  <1>1. IsFiniteSet(Holders)
    BY StoreAssumption, FS_Union DEF Holders
  <1>2. \A i \in Instances : TokensIn(buckets[i][b], w)' \in Nat
    BY DEF TypeOK, TokensIn, Bucket
  <1>3. \A r \in Requests : Carried(r, b, w)' \in Nat
    BY DEF TypeOK, Carried, TokensOf, Call
  <1>4. Holdings(b, w)' \in [Holders -> Nat]
    BY <1>2, <1>3 DEF Holdings, Holders
  <1>5. Total(Holdings(b, w)') \in Nat
    BY <1>1, <1>4, TotalType
  <1>6. keys'[b].tokens \in Nat /\ keys'[b].window \in Windows
    BY DEF TypeOK, CacheTypeOK, Key
  <1>7. now' \in Nat
    BY TimeAssumption DEF TypeOK, CacheTypeOK
  <1>8. spent'[b][w] \in Nat /\ late'[b][w] \in Nat
    BY DEF TypeOK
  <1>9. AllSpent(b, w)' \in Nat
    BY <1>8 DEF AllSpent
  <1>10. Remaining(b, w)' \in Nat
    BY <1>6 DEF Remaining
  <1>11. keys'[b].window \in Nat
    BY <1>6, Constants
  <1> QED
    BY <1>4, <1>5, <1>6, <1>7, <1>8, <1>9, <1>10, <1>11

\* What an instance and what a request holds.
LEMMA HoldingsAt ==
    ASSUME NEW b \in Ids, NEW w \in Windows
    PROVE  /\ \A i \in Instances :
                 /\ Holdings(b, w)[i] = TokensIn(buckets[i][b], w)
                 /\ Holdings(b, w)'[i] = TokensIn(buckets'[i][b], w)
           /\ \A r \in Requests :
                 /\ Holdings(b, w)[r] = Carried(r, b, w)
                 /\ Holdings(b, w)'[r] = Carried(r, b, w)'
           /\ Holders = Instances \cup Requests
           /\ Instances \cap Requests = {}
  BY StoreAssumption DEF Holdings, Holders, TokensIn

-----------------------------------------------------------------------------
(***************************************************************************)
(* The entries of one key: what a step must do to them to keep the books.  *)
(***************************************************************************)

\* The books of one window of one key.
Balanced(b, w) ==
    AllSpent(b, w) + Total(Holdings(b, w)) + Remaining(b, w) <= Quota(b)

Unopened(b, w) ==
    now < w /\ keys[b].window < w =>
        AllSpent(b, w) = 0 /\ \A h \in Holders : Holdings(b, w)[h] = 0

\* No holder gains and Redis does not either, and nothing is spent.
LEMMA BooksShrink ==
    ASSUME TypeOK, TypeOK', NEW b \in Ids, NEW w \in Windows,
           Balanced(b, w), Unopened(b, w),
           AllSpent(b, w)' = AllSpent(b, w),
           Remaining(b, w)' <= Remaining(b, w),
           now <= now', keys[b].window <= keys'[b].window
                          \/ keys[b].window < now',
           \A h \in Holders : Holdings(b, w)'[h] <= Holdings(b, w)[h]
    PROVE  Balanced(b, w)' /\ Unopened(b, w)'
  <1>1. Total(Holdings(b, w)') <= Total(Holdings(b, w))
    BY LedgerTypes, LedgerTypesNext, TotalMonotone
  <1>2. Balanced(b, w)'
    BY <1>1, LedgerTypes, LedgerTypesNext DEF Balanced, Quota
  <1>3. Unopened(b, w)'
    <2> SUFFICES ASSUME now' < w, keys'[b].window < w
                 PROVE  /\ AllSpent(b, w)' = 0
                        /\ \A h \in Holders : Holdings(b, w)'[h] = 0
      BY DEF Unopened
    <2>1. now < w /\ keys[b].window < w
      BY LedgerTypes, LedgerTypesNext
    <2>2. \A h \in Holders : Holdings(b, w)'[h] \in Nat
      BY LedgerTypesNext
    <2> QED
      BY <2>1, <2>2 DEF Unopened
  <1> QED
    BY <1>2, <1>3

\* Tokens that move from a request to an instance do not get more.
LEMMA MoveTotal ==
    ASSUME TypeOK, TypeOK', NEW b \in Ids, NEW w \in Windows,
           NEW r \in Requests, NEW i \in Instances,
           \A h \in Holders \ {r, i} : Holdings(b, w)'[h] = Holdings(b, w)[h],
           Holdings(b, w)'[r] = 0,
           \/ Holdings(b, w)'[i] = Holdings(b, w)[r]
           \/ Holdings(b, w)'[i] <= Holdings(b, w)[i]
    PROVE  Total(Holdings(b, w)') <= Total(Holdings(b, w))
  <1> DEFINE f == Holdings(b, w)
             g == Holdings(b, w)'
  <1>1. /\ f \in [Holders -> Nat] /\ g \in [Holders -> Nat]
        /\ IsFiniteSet(Holders)
        /\ r \in Holders /\ i \in Holders /\ r # i
    BY LedgerTypes, LedgerTypesNext, StoreAssumption DEF Holders
  <1>2. \A x \in Holders \ {r, i} : g[x] = f[x]
    OBVIOUS
  <1>3. g[r] + g[i] <= f[r] + f[i]
    <2>1. f[r] \in Nat /\ f[i] \in Nat /\ g[r] = 0 /\ g[i] \in Nat
      BY <1>1
    <2>2. g[i] = f[r] \/ g[i] <= f[i]
      OBVIOUS
    <2> HIDE DEF f, g
    <2> QED
      BY <2>1, <2>2
  <1> HIDE DEF f, g
  <1>4. Total(g) <= Total(f)
    BY <1>1, <1>2, <1>3, TotalMove
  <1> QED
    BY <1>4 DEF f, g

\* A reply becomes a bucket: the tokens move from the request to its instance.
LEMMA BooksMove ==
    ASSUME TypeOK, TypeOK', NEW b \in Ids, NEW w \in Windows,
           Balanced(b, w), Unopened(b, w), UNCHANGED <<now, keys>>,
           AllSpent(b, w)' = AllSpent(b, w),
           NEW r \in Requests, NEW i \in Instances,
           \A h \in Holders \ {r, i} : Holdings(b, w)'[h] = Holdings(b, w)[h],
           Holdings(b, w)'[r] = 0,
           \/ Holdings(b, w)'[i] = Holdings(b, w)[r]
           \/ Holdings(b, w)'[i] <= Holdings(b, w)[i]
    PROVE  Balanced(b, w)' /\ Unopened(b, w)'
  <1> DEFINE f == Holdings(b, w)
             g == Holdings(b, w)'
  <1>1. /\ f \in [Holders -> Nat] /\ g \in [Holders -> Nat]
        /\ IsFiniteSet(Holders)
        /\ r \in Holders /\ i \in Holders /\ r # i
    BY LedgerTypes, LedgerTypesNext, StoreAssumption DEF Holders
  <1>2. \A x \in Holders \ {r, i} : g[x] = f[x]
    OBVIOUS
  <1>4. Total(g) <= Total(f)
    BY MoveTotal
  <1>5. Remaining(b, w)' = Remaining(b, w)
    BY DEF Remaining
  <1>6. Balanced(b, w)'
    BY <1>4, <1>5, LedgerTypes, LedgerTypesNext DEF Balanced, Quota
  <1>7. Unopened(b, w)'
    <2> SUFFICES ASSUME now < w, keys[b].window < w
                 PROVE  /\ AllSpent(b, w) = 0
                        /\ \A h \in Holders : g[h] = 0
      BY DEF Unopened
    <2>1. AllSpent(b, w) = 0 /\ \A h \in Holders : f[h] = 0
      BY DEF Unopened
    <2>2. g[i] = f[r] \/ g[i] <= f[i]
      OBVIOUS
    <2>3. g[r] = 0
      OBVIOUS
    <2> HIDE DEF f, g
    <2>4. g[i] = 0
      BY <1>1, <2>1, <2>2
    <2> QED
      BY <1>2, <2>1, <2>3, <2>4
  <1> QED
    BY <1>6, <1>7

\* A token is taken out of a bucket and counted as spent.
LEMMA BooksSpend ==
    ASSUME TypeOK, TypeOK', NEW b \in Ids, NEW w \in Windows,
           Balanced(b, w), Unopened(b, w), UNCHANGED <<now, keys>>,
           NEW i \in Instances,
           \A h \in Holders \ {i} : Holdings(b, w)'[h] = Holdings(b, w)[h],
           \/ /\ Holdings(b, w)'[i] + 1 = Holdings(b, w)[i]
              /\ AllSpent(b, w)' <= AllSpent(b, w) + 1
           \/ /\ Holdings(b, w)'[i] = Holdings(b, w)[i]
              /\ AllSpent(b, w)' = AllSpent(b, w)
    PROVE  Balanced(b, w)' /\ Unopened(b, w)'
  <1> DEFINE f == Holdings(b, w)
             g == Holdings(b, w)'
  <1>1. /\ f \in [Holders -> Nat] /\ g \in [Holders -> Nat]
        /\ IsFiniteSet(Holders) /\ i \in Holders
    BY LedgerTypes, LedgerTypesNext DEF Holders
  <1>2. f[i] \in Nat /\ g[i] \in Nat
    BY <1>1
  <1>3. Total(g) + f[i] = Total(f) + g[i]
    <2>1. \A h \in Holders \ {i} : g[h] = f[h]
      OBVIOUS
    <2> HIDE DEF f, g
    <2> QED
      BY <1>1, <2>1, TotalChange
  <1>4. Remaining(b, w)' = Remaining(b, w)
    BY DEF Remaining
  <1>5. Balanced(b, w)'
    BY <1>2, <1>3, <1>4, LedgerTypes, LedgerTypesNext DEF Balanced, Quota
  <1>6. Unopened(b, w)'
    <2> SUFFICES ASSUME now < w, keys[b].window < w
                 PROVE  /\ AllSpent(b, w)' = 0
                        /\ \A h \in Holders : g[h] = 0
      BY DEF Unopened
    <2>1. AllSpent(b, w) = 0 /\ \A h \in Holders : f[h] = 0
      BY DEF Unopened
    <2>2. g[i] + 1 # f[i]
      BY <1>1, <1>2, <2>1
    <2> QED
      BY <1>1, <2>1, <2>2
  <1> QED
    BY <1>5, <1>6

\* LEASE_SCRIPT runs: at most what it hands out is held from then on.  In a
\* window it opens, nothing was held or spent.
LEMMA BooksLease ==
    ASSUME TypeOK, TypeOK', NEW b \in Ids, NEW w \in Windows,
           Balanced(b, w), Unopened(b, w), now' = now,
           AllSpent(b, w)' = AllSpent(b, w),
           ~LeaseRefused(b), keys'[b] = KeyAfterLease(b),
           NEW n \in Nat, n = 0 \/ w = KeyAfterLease(b).window,
           n <= Leased(b),
           Total(Holdings(b, w)') <= Total(Holdings(b, w)) + n,
           \A h \in Holders : \/ Holdings(b, w)'[h] <= Holdings(b, w)[h]
                              \/ w = KeyAfterLease(b).window
    PROVE  Balanced(b, w)' /\ Unopened(b, w)'
  <1> DEFINE f == Holdings(b, w)
             g == Holdings(b, w)'
             key == KeyAfterLease(b)
  <1>1. f \in [Holders -> Nat] /\ g \in [Holders -> Nat]
    BY LedgerTypes, LedgerTypesNext
  <1>2. CacheTypeOK
    BY DEF TypeOK
  <1>3. /\ Leased(b) \in Nat /\ key \in Key /\ key.tokens \in Nat
        /\ key.window \in Nat
    BY <1>2, LeaseFacts, LedgerTypesNext DEF Key
  <1>4. Remaining(b, w)' = IF key.window = w THEN key.tokens ELSE 0
    BY DEF Remaining
  <1>5. ASSUME now < w /\ key.window < w => keys[b].window < w
        PROVE  Unopened(b, w)'
    <2> SUFFICES ASSUME now < w, key.window < w
                 PROVE  AllSpent(b, w) = 0 /\ \A h \in Holders : g[h] = 0
      BY DEF Unopened
    <2>1. AllSpent(b, w) = 0 /\ \A h \in Holders : f[h] = 0
      BY <1>5 DEF Unopened
    <2>2. \A h \in Holders : g[h] <= f[h] /\ g[h] \in Nat
      BY <1>1, <1>3
    <2> QED
      BY <2>1, <2>2
  <1>6. CASE Alive(b)
    <2>1. /\ key.window = keys[b].window
          /\ key.tokens + Leased(b) = keys[b].tokens
      BY <1>2, <1>6, LeaseFacts
    <2>2. Remaining(b, w)' + n <= Remaining(b, w)
      BY <1>3, <1>4, <2>1 DEF Remaining
    <2>3. Balanced(b, w)'
      BY <2>2, LedgerTypes, LedgerTypesNext DEF Balanced, Quota
    <2> QED
      BY <1>5, <2>1, <2>3
  <1>7. CASE ~Alive(b)
    <2>1. /\ key.window = now + Criteria(b).reset_in
          /\ key.tokens + Leased(b) = Quota(b)
      BY <1>2, <1>7, LeaseFacts
    <2>2. now < key.window /\ keys[b].window < now
      <3>1. Criteria(b).reset_in \in Nat /\ Criteria(b).reset_in # 0
        BY <1>7, PolicyFacts DEF LeaseRefused
      <3> QED
        BY <1>7, <2>1, <3>1, LedgerTypes DEF Alive
    <2>3. Unopened(b, w)'
      BY <1>5, <2>2, LedgerTypes
    <2>4. CASE w = key.window
      <3>1. AllSpent(b, w) = 0 /\ \A h \in Holders : f[h] = 0
        BY <2>2, <2>4, LedgerTypes DEF Unopened
      <3>2. Total(f) = 0
        <4> HIDE DEF f
        <4> QED
          BY <1>1, <3>1, TotalZero
      <3>3. Balanced(b, w)'
        BY <1>3, <1>4, <2>1, <2>4, <3>1, <3>2, LedgerTypes, LedgerTypesNext
           DEF Balanced, Quota
      <3> QED
        BY <2>3, <3>3
    <2>5. CASE w # key.window
      <3>1. n = 0 /\ Remaining(b, w)' = 0
        BY <1>4, <2>5
      <3>2. Balanced(b, w)'
        BY <3>1, LedgerTypes, LedgerTypesNext DEF Balanced, Quota
      <3> QED
        BY <2>3, <3>2
    <2> QED
      BY <2>4, <2>5
  <1> QED
    BY <1>6, <1>7

-----------------------------------------------------------------------------
(***************************************************************************)
(* The steps of Store.                                                     *)
(***************************************************************************)
BooksKept ==
    \A b \in Ids, w \in Windows :
        <<b, w>> \notin refunded => Balanced(b, w) /\ Unopened(b, w)

\* Where nothing is returned it is enough to look at one window.
LEMMA WindowByWindow ==
    ASSUME BooksKept, refunded' = refunded,
           \A b \in Ids, w \in Windows :
              Balanced(b, w) /\ Unopened(b, w)
                 => Balanced(b, w)' /\ Unopened(b, w)'
    PROVE  BooksKept'
  BY DEF BooksKept

\* No bucket, and no reply in the hands of a request, has more than before.
BucketsNoFuller ==
    \A i \in Instances, b \in Ids, w \in Windows :
        TokensIn(buckets'[i][b], w) <= TokensIn(buckets[i][b], w)

RepliesNoFuller ==
    \A r \in Requests, b \in Ids, w \in Windows :
        Carried(r, b, w)' <= Carried(r, b, w)

\* A step that at most loses tokens.
Loses ==
    /\ BucketsNoFuller /\ RepliesNoFuller
    /\ UNCHANGED <<now, keys, spent, late, refunded>>

\* Such a step keeps the books.
LEMMA NothingGained ==
    ASSUME TypeOK, TypeOK', BooksKept, Loses
    PROVE  BooksKept'
  <1> SUFFICES ASSUME NEW b \in Ids, NEW w \in Windows,
                      Balanced(b, w), Unopened(b, w)
               PROVE  Balanced(b, w)' /\ Unopened(b, w)'
    BY WindowByWindow DEF Loses
  <1>0. AllSpent(b, w)' = AllSpent(b, w)
    BY DEF Loses, AllSpent
  <1>1. \A h \in Holders : Holdings(b, w)'[h] <= Holdings(b, w)[h]
    BY HoldingsAt DEF Loses, BucketsNoFuller, RepliesNoFuller
  <1>2. Remaining(b, w)' <= Remaining(b, w)
    <2>1. Remaining(b, w)' = Remaining(b, w)
      BY DEF Loses, Remaining
    <2> QED
      BY <2>1, LedgerTypes
  <1>3. now <= now' /\ keys[b].window <= keys'[b].window
    BY LedgerTypes DEF Loses
  <1> QED
    BY <1>0, <1>1, <1>2, <1>3, BooksShrink

\* A bucket that is dropped, and one that stays.
LEMMA BucketsDropped ==
    ASSUME TypeOK,
           \A i \in Instances, b \in Ids :
              buckets'[i][b] \in {NoBucket, buckets[i][b]}
    PROVE  BucketsNoFuller
  <1> SUFFICES ASSUME NEW i \in Instances, NEW b \in Ids, NEW w \in Windows
               PROVE  TokensIn(buckets'[i][b], w) <= TokensIn(buckets[i][b], w)
    BY DEF BucketsNoFuller
  <1>1. TokensIn(buckets[i][b], w) \in Nat
    BY DEF TypeOK, TokensIn, Bucket
  <1>2. TokensIn(NoBucket, w) = 0
    BY DEF TokensIn
  <1> QED
    BY <1>1, <1>2

\* A reply that is dropped, and one that stays.
LEMMA RepliesDropped ==
    ASSUME TypeOK,
           \A r \in Requests :
              \/ id'[r] = id[r] /\ call'[r].leased = call[r].leased
                 /\ call'[r].window = call[r].window
              \/ call'[r].leased = 0
    PROVE  RepliesNoFuller
  <1> SUFFICES ASSUME NEW r \in Requests, NEW b \in Ids, NEW w \in Windows
               PROVE  Carried(r, b, w)' <= Carried(r, b, w)
    BY DEF RepliesNoFuller
  <1>1. Carried(r, b, w) \in Nat
    BY DEF TypeOK, Carried, TokensOf, Call
  <1>2. Carried(r, b, w)' = Carried(r, b, w) \/ Carried(r, b, w)' = 0
    BY DEF Carried, TokensOf
  <1> QED
    BY <1>1, <1>2

\* Steps that only lose tokens, or none.
LEMMA LosingSteps ==
    ASSUME TypeOK, CarriedInReply, NEW r \in Requests,
           \/ \E b \in Ids : Arrive(r, b)
           \/ CheckDenied(r) \/ CheckServed(r) \/ CheckMissing(r)
           \/ TakeFlight(r) \/ JoinFlight(r) \/ Register(r)
           \/ LeaseReply(r) \/ LeaseFails(r) \/ ReleaseFlight(r)
           \/ ConsumeNothing(r) \/ ConsumeExpired(r) \/ Evict(r)
           \/ DisconnectFollower(r) \/ DisconnectLeader(r)
    PROVE  Loses
  <1>0. /\ call \in [Requests -> Call] /\ id \in [Requests -> Ids]
        /\ buckets \in [Instances -> [Ids -> Bucket \cup {NoBucket}]]
        /\ Home[r] \in Instances /\ id[r] \in Ids
    BY StoreAssumption DEF TypeOK
  <1>1. UNCHANGED <<now, keys, spent, late, refunded>>
    BY DEF Arrive, CheckDenied, CheckServed, CheckMissing, TakeFlight,
           JoinFlight, Register, LeaseReply, LeaseFails, ReleaseFlight,
           ConsumeNothing, ConsumeExpired, Evict, DisconnectFollower,
           DisconnectLeader, history
  <1>2. \/ buckets' = buckets
        \/ buckets' = [buckets EXCEPT ![Home[r]][id[r]] = NoBucket]
    BY DEF Arrive, CheckDenied, CheckServed, CheckMissing, TakeFlight,
           JoinFlight, Register, LeaseReply, LeaseFails, ReleaseFlight,
           ConsumeNothing, ConsumeExpired, Evict, DisconnectFollower,
           DisconnectLeader, SetBucket
  <1>3. BucketsNoFuller
    <2>1. \A i \in Instances, b \in Ids :
             buckets'[i][b] \in {NoBucket, buckets[i][b]}
      BY <1>0, <1>2
    <2> QED
      BY <2>1, BucketsDropped
  <1>4. RepliesNoFuller
    <2>1. CASE \E b \in Ids : Arrive(r, b)
      <3>1. /\ call' = call /\ call[r].leased = 0
            /\ \A q \in Requests \ {r} : id'[q] = id[q]
        BY <1>0, <2>1 DEF Arrive, CarriedInReply
      <3> QED
        BY <3>1, RepliesDropped
    <2>2. CASE TakeFlight(r) \/ LeaseFails(r) \/ DisconnectLeader(r)
      <3>1. /\ id' = id
            /\ \/ call' = [call EXCEPT ![r] = Started(now)]
               \/ call' = [call EXCEPT ![r] = NoCall]
        BY <2>2 DEF TakeFlight, LeaseFails, DisconnectLeader
      <3>2. \A q \in Requests :
               call'[q] = call[q] \/ call'[q].leased = 0
        BY <1>0, <3>1 DEF Started, NoCall
      <3> QED
        BY <3>1, <3>2, RepliesDropped
    <2>3. CASE LeaseReply(r)
      <3>1. /\ id' = id
            /\ call' = [call EXCEPT ![r] =
                          [at |-> now, leased |-> call[r].leased,
                           ttl |-> TimeLeftFromStart(call[r]),
                           window |-> call[r].window]]
        BY <2>3 DEF LeaseReply
      <3>2. \A q \in Requests :
               /\ call'[q].leased = call[q].leased
               /\ call'[q].window = call[q].window
        BY <1>0, <3>1
      <3> QED
        BY <3>1, <3>2, RepliesDropped
    <2>4. CASE UNCHANGED <<call, id>>
      BY <2>4, RepliesDropped
    <2> QED
      BY <2>1, <2>2, <2>3, <2>4
         DEF CheckDenied, CheckServed, CheckMissing, JoinFlight, Register,
             ReleaseFlight, ConsumeNothing, ConsumeExpired, Evict,
             DisconnectFollower
  <1> QED
    BY <1>1, <1>3, <1>4 DEF Loses

\* Marking a bucket exhausted keeps its tokens, and the reply had none.
LEMMA MarkLoses ==
    ASSUME TypeOK, NEW r \in Requests,
           MarkExhausted(r)
    PROVE  Loses
  <1>0. /\ call \in [Requests -> Call]
        /\ buckets \in [Instances -> [Ids -> Bucket \cup {NoBucket}]]
        /\ Home[r] \in Instances /\ id[r] \in Ids
    BY StoreAssumption DEF TypeOK
  <1>1. /\ UNCHANGED <<now, keys, spent, late, refunded, id>>
        /\ call[r].leased = 0
        /\ call' = [call EXCEPT ![r] = NoCall]
    BY DEF MarkExhausted, history
  <1>2. RepliesNoFuller
    <2>1. \A q \in Requests : call'[q] = call[q] \/ call'[q].leased = 0
      BY <1>0, <1>1 DEF NoCall
    <2> QED
      BY <1>1, <2>1, RepliesDropped
  <1>3. BucketsNoFuller
    <2>1. CASE Mine(r) = NoBucket
      <3>1. buckets' = buckets
        BY <2>1 DEF MarkExhausted
      <3> QED
        BY <3>1, BucketsDropped
    <2>2. CASE Mine(r) # NoBucket
      <3> DEFINE bk == [Mine(r) EXCEPT !.exhausted = TRUE]
      <3>1. Mine(r) \in Bucket /\ Mine(r) = buckets[Home[r]][id[r]]
        BY <2>2, MineIsBucket DEF Mine
      <3>2. /\ bk # NoBucket
            /\ bk.tokens = Mine(r).tokens /\ bk.window = Mine(r).window
        <4>1. bk \in Bucket
          BY <3>1 DEF Bucket
        <4> QED
          BY <3>1, <4>1, NoBucketAssumption DEF Bucket
      <3>3. buckets' = [buckets EXCEPT ![Home[r]][id[r]] = bk]
        BY <2>2 DEF MarkExhausted, SetBucket
      <3> HIDE DEF bk
      <3> SUFFICES ASSUME NEW i \in Instances, NEW b \in Ids, NEW w \in Windows
                   PROVE  TokensIn(buckets'[i][b], w)
                            <= TokensIn(buckets[i][b], w)
        BY DEF BucketsNoFuller
      <3>4. TokensIn(buckets[i][b], w) \in Nat
        BY <1>0 DEF TokensIn, Bucket
      <3>5. buckets'[i][b] = IF i = Home[r] /\ b = id[r] THEN bk
                             ELSE buckets[i][b]
        BY <1>0, <3>3
      <3>6. TokensIn(buckets'[i][b], w) = TokensIn(buckets[i][b], w)
        BY <2>2, <3>1, <3>2, <3>5 DEF TokensIn
      <3> QED
        BY <3>4, <3>6
    <2> QED
      BY <2>1, <2>2
  <1> QED
    BY <1>1, <1>2, <1>3 DEF Loses

\* A token consumed is counted once, in time or late, in the window it is of.
LEMMA CountedOnce ==
    ASSUME TypeOK, NEW i \in Instances, NEW c \in Ids, NEW v,
           CountSpent(i, c, v), NEW b \in Ids, NEW w \in Windows
    PROVE  /\ ~(b = c /\ w = v) =>
                 spent'[b][w] = spent[b][w] /\ late'[b][w] = late[b][w]
           /\ spent'[b][w] \in {spent[b][w], spent[b][w] + 1}
           /\ late'[b][w] \in {late[b][w], late[b][w] + 1}
           /\ IF HasRead(i) THEN spent' = spent ELSE late' = late
  <1>1. /\ spent \in [Ids -> [Windows -> Nat]]
        /\ late \in [Ids -> [Windows -> Nat]]
    BY DEF TypeOK
  <1>2. ASSUME NEW f \in [Ids -> [Windows -> Nat]], NEW cap
        PROVE  /\ OneMore(f, cap, c, v)[b][w] \in {f[b][w], f[b][w] + 1}
               /\ ~(b = c /\ w = v) => OneMore(f, cap, c, v)[b][w] = f[b][w]
    <2> DEFINE x == IF f[c][v] < cap THEN f[c][v] + 1 ELSE f[c][v]
    <2>1. OneMore(f, cap, c, v) = [f EXCEPT ![c] = [f[c] EXCEPT ![v] = x]]
      BY DEF OneMore
    <2>2. OneMore(f, cap, c, v)[b]
            = IF b = c THEN [f[c] EXCEPT ![v] = x] ELSE f[b]
      BY <2>1
    <2> QED
      BY <2>2
  <1> QED
    BY <1>1, <1>2 DEF CountSpent

\* A token consumed is a token spent.
LEMMA ConsumeTakes ==
    ASSUME TypeOK, NEW r \in Requests, ConsumeToken(r),
           NEW b \in Ids, NEW w \in Windows
    PROVE  /\ UNCHANGED <<now, keys, refunded>> /\ Home[r] \in Instances
           /\ \A h \in Holders \ {Home[r]} :
                 Holdings(b, w)'[h] = Holdings(b, w)[h]
           /\ IF b = id[r] /\ w = Mine(r).window
              THEN /\ Holdings(b, w)'[Home[r]] + 1 = Holdings(b, w)[Home[r]]
                   /\ AllSpent(b, w)' \in {AllSpent(b, w), AllSpent(b, w) + 1}
              ELSE /\ Holdings(b, w)'[Home[r]] = Holdings(b, w)[Home[r]]
                   /\ AllSpent(b, w)' = AllSpent(b, w)
  <1> DEFINE bk == Mine(r)
             i == Home[r]
             new == BucketAfterConsume(bk)
  <1>0. /\ buckets \in [Instances -> [Ids -> Bucket \cup {NoBucket}]]
        /\ i \in Instances /\ id[r] \in Ids
    BY StoreAssumption DEF TypeOK
  <1>1. /\ UNCHANGED <<now, keys, refunded, id, call>>
        /\ buckets' = [buckets EXCEPT ![i][id[r]] = new]
        /\ CountSpent(i, id[r], bk.window)
        /\ bk # NoBucket /\ ~IsEmpty(bk)
    BY DEF ConsumeToken, SetBucket
  <1>2. bk \in Bucket /\ bk.tokens \in Nat /\ bk.tokens # 0
        /\ bk = buckets[i][id[r]]
    BY <1>1, MineIsBucket DEF Mine, Bucket, IsEmpty
  <1>3. new # NoBucket /\ new.window = bk.window /\ new.tokens + 1 = bk.tokens
    <2>1. new = [bk EXCEPT !.tokens = bk.tokens - 1]
      BY <1>1 DEF BucketAfterConsume, AfterConsume
    <2>2. new \in Bucket
      BY <1>2, <2>1 DEF Bucket
    <2> QED
      BY <1>2, <2>1, <2>2, NoBucketAssumption DEF Bucket
  <1> HIDE DEF bk, i, new
  <1>4. \A j \in Instances :
           buckets'[j][b] = IF j = i /\ b = id[r] THEN new ELSE buckets[j][b]
    BY <1>0, <1>1
  <1>5. \A h \in Holders \ {i} : Holdings(b, w)'[h] = Holdings(b, w)[h]
    <2>1. \A q \in Requests : Carried(q, b, w)' = Carried(q, b, w)
      BY <1>1 DEF Carried
    <2> QED
      BY <1>4, <2>1, HoldingsAt
  <1>6. /\ AllSpent(b, w)' \in {AllSpent(b, w), AllSpent(b, w) + 1}
        /\ ~(b = id[r] /\ w = bk.window) => AllSpent(b, w)' = AllSpent(b, w)
    <2>1. /\ ~(b = id[r] /\ w = bk.window) =>
                spent'[b][w] = spent[b][w] /\ late'[b][w] = late[b][w]
          /\ spent'[b][w] \in {spent[b][w], spent[b][w] + 1}
          /\ late'[b][w] \in {late[b][w], late[b][w] + 1}
          /\ spent' = spent \/ late' = late
      BY <1>0, <1>1, CountedOnce
    <2>2. spent[b][w] \in Nat /\ late[b][w] \in Nat
      BY LedgerTypes
    <2> QED
      BY <2>1, <2>2 DEF AllSpent
  <1>7. CASE b = id[r] /\ w = bk.window
    <2>1. Holdings(b, w)'[i] + 1 = Holdings(b, w)[i]
      BY <1>0, <1>1, <1>2, <1>3, <1>4, <1>7, HoldingsAt DEF TokensIn
    <2> QED
      BY <1>0, <1>1, <1>5, <1>6, <2>1, <1>7 DEF bk, i
  <1>8. CASE ~(b = id[r] /\ w = bk.window)
    <2>1. Holdings(b, w)'[i] = Holdings(b, w)[i]
      BY <1>0, <1>1, <1>2, <1>3, <1>4, <1>8, HoldingsAt DEF TokensIn
    <2> QED
      BY <1>0, <1>1, <1>5, <1>6, <2>1, <1>8 DEF bk, i
  <1> QED
    BY <1>7, <1>8

\* So the books are kept.
LEMMA ConsumeKeepsLedger ==
    ASSUME TypeOK, TypeOK', BooksKept, NEW r \in Requests, ConsumeToken(r)
    PROVE  BooksKept'
  <1> SUFFICES ASSUME NEW b \in Ids, NEW w \in Windows,
                      Balanced(b, w), Unopened(b, w)
               PROVE  Balanced(b, w)' /\ Unopened(b, w)'
    BY WindowByWindow DEF ConsumeToken
  <1>1. AllSpent(b, w) \in Nat
    BY LedgerTypes
  <1>2. \A n \in {AllSpent(b, w), AllSpent(b, w) + 1} : n <= AllSpent(b, w) + 1
    BY <1>1
  <1> QED
    BY <1>2, ConsumeTakes, BooksSpend

\* The bucket that is inserted has the tokens of the reply and no others.
LEMMA InstallMoves ==
    ASSUME TypeOK, TypeOK', NEW r \in Requests, Install(r),
           NEW b \in Ids, NEW w \in Windows
    PROVE  /\ UNCHANGED <<now, keys, spent, late, refunded>>
           /\ Home[r] \in Instances
           /\ \A h \in Holders \ {r, Home[r]} :
                 Holdings(b, w)'[h] = Holdings(b, w)[h]
           /\ Holdings(b, w)'[r] = 0
           /\ \/ Holdings(b, w)'[Home[r]] = Holdings(b, w)[r]
              \/ Holdings(b, w)'[Home[r]] <= Holdings(b, w)[Home[r]]
  <1> DEFINE i == Home[r]
             c == call[r]
             new == NewBucket(c.leased, c.ttl, c.window, now)
  <1>0. /\ buckets \in [Instances -> [Ids -> Bucket \cup {NoBucket}]]
        /\ call \in [Requests -> Call]
        /\ i \in Instances /\ id[r] \in Ids /\ c \in Call /\ now \in Nat
    BY StoreAssumption, TimeAssumption DEF TypeOK, CacheTypeOK
  <1>1. /\ UNCHANGED <<now, keys, spent, late, refunded, id>>
        /\ buckets' = [buckets EXCEPT ![i][id[r]] = new]
        /\ call' = [call EXCEPT ![r] = NoCall]
    BY DEF Install, SetBucket, history
  <1>2. c.leased \in Nat /\ c.ttl \in Nat /\ c.window \in Windows
    BY <1>0 DEF Call
  <1>3. new # NoBucket /\ new.window = c.window /\ new.tokens = c.leased
    <2>1. new \in Bucket
      BY <1>0, <1>2, BucketTypes
    <2> QED
      BY <2>1, NoBucketAssumption DEF NewBucket
  <1> HIDE DEF i, new
  <1>4. \A j \in Instances :
           buckets'[j][b] = IF j = i /\ b = id[r] THEN new ELSE buckets[j][b]
    BY <1>0, <1>1
  <1>5. /\ \A q \in Requests \ {r} : Carried(q, b, w)' = Carried(q, b, w)
        /\ Carried(r, b, w)' = 0
    BY <1>0, <1>1 DEF Carried, TokensOf, NoCall
  <1>6. /\ \A h \in Holders \ {r, i} :
              Holdings(b, w)'[h] = Holdings(b, w)[h]
        /\ Holdings(b, w)'[r] = 0
    BY <1>4, <1>5, HoldingsAt
  <1>7. \/ Holdings(b, w)'[i] = Holdings(b, w)[r]
        \/ Holdings(b, w)'[i] <= Holdings(b, w)[i]
    <2>1. CASE b = id[r]
      <3>1. Holdings(b, w)'[i] = IF c.window = w THEN c.leased ELSE 0
        BY <1>0, <1>3, <1>4, <2>1, HoldingsAt DEF TokensIn
      <3>2. Holdings(b, w)[r] = IF c.window = w THEN c.leased ELSE 0
        BY <2>1, HoldingsAt DEF Carried, TokensOf
      <3> QED
        BY <3>1, <3>2
    <2>2. CASE b # id[r]
      <3>1. Holdings(b, w)'[i] = Holdings(b, w)[i]
        BY <1>0, <1>4, <2>2, HoldingsAt
      <3>2. Holdings(b, w)[i] \in Nat
        BY <1>0, LedgerTypes DEF Holders
      <3> QED
        BY <3>1, <3>2
    <2> QED
      BY <2>1, <2>2
  <1> QED
    BY <1>0, <1>1, <1>6, <1>7 DEF i

\* So it keeps the books.
LEMMA InstallKeepsLedger ==
    ASSUME TypeOK, TypeOK', BooksKept, NEW r \in Requests, Install(r)
    PROVE  BooksKept'
  <1>1. UNCHANGED <<now, keys, spent, late, refunded>>
    BY DEF Install, history
  <1> SUFFICES ASSUME NEW b \in Ids, NEW w \in Windows,
                      Balanced(b, w), Unopened(b, w)
               PROVE  Balanced(b, w)' /\ Unopened(b, w)'
    BY <1>1, WindowByWindow
  <1>2. AllSpent(b, w)' = AllSpent(b, w)
    BY <1>1 DEF AllSpent
  <1> QED
    BY <1>1, <1>2, InstallMoves, BooksMove

\* A key that a step does not touch has the same books.
LEMMA SameBooks ==
    ASSUME TypeOK, TypeOK', NEW b \in Ids, NEW w \in Windows,
           Balanced(b, w), Unopened(b, w), now' = now,
           AllSpent(b, w)' = AllSpent(b, w),
           keys'[b] = keys[b],
           \A h \in Holders : Holdings(b, w)'[h] = Holdings(b, w)[h]
    PROVE  Balanced(b, w)' /\ Unopened(b, w)'
  <1>1. \A h \in Holders : Holdings(b, w)'[h] <= Holdings(b, w)[h]
    <2>1. \A h \in Holders : Holdings(b, w)[h] \in Nat
      BY LedgerTypes
    <2> QED
      BY <2>1
  <1>2. Remaining(b, w)' <= Remaining(b, w)
    <2>1. Remaining(b, w)' = Remaining(b, w)
      BY DEF Remaining
    <2> QED
      BY <2>1, LedgerTypes
  <1>3. now <= now' /\ keys[b].window <= keys'[b].window
    BY LedgerTypes
  <1> QED
    BY <1>1, <1>2, <1>3, BooksShrink

\* What Redis hands out is in the reply.
LEMMA LeaseCarries ==
    ASSUME TypeOK, NEW r \in Requests, LeaseExec(r),
           NEW b \in Ids, NEW w \in Windows
    PROVE  /\ UNCHANGED <<now, spent, late, refunded>>
           /\ ~LeaseRefused(id[r])
           /\ keys'[b] = IF b = id[r] THEN KeyAfterLease(b) ELSE keys[b]
           /\ \A h \in Holders \ {r} : Holdings(b, w)'[h] = Holdings(b, w)[h]
           /\ Holdings(b, w)'[r] =
                IF b = id[r]
                THEN IF w = KeyAfterLease(b).window THEN Leased(b) ELSE 0
                ELSE Holdings(b, w)[r]
  <1> DEFINE key == KeyAfterLease(id[r])
             n == Leased(id[r])
  <1>0. call \in [Requests -> Call] /\ id[r] \in Ids /\ keys \in [Ids -> Key]
    BY DEF TypeOK, CacheTypeOK
  <1>1. /\ UNCHANGED <<now, spent, late, refunded, id, buckets>>
        /\ ~LeaseRefused(id[r])
        /\ keys' = [keys EXCEPT ![id[r]] = key]
        /\ call' = [call EXCEPT ![r] =
                      [at |-> call[r].at, leased |-> n,
                       ttl |-> key.window - now, window |-> key.window]]
    BY DEF LeaseExec, history
  <1>2. call'[r].leased = n /\ call'[r].window = key.window
    BY <1>0, <1>1
  <1> HIDE DEF key, n
  <1>3. \A q \in Requests \ {r} : Carried(q, b, w)' = Carried(q, b, w)
    BY <1>0, <1>1 DEF Carried, TokensOf
  <1>4. \A h \in Holders \ {r} : Holdings(b, w)'[h] = Holdings(b, w)[h]
    BY <1>1, <1>3, HoldingsAt
  <1>5. Carried(r, b, w)' =
           IF b = id[r] THEN IF w = key.window THEN n ELSE 0
           ELSE Carried(r, b, w)
    BY <1>1, <1>2 DEF Carried, TokensOf
  <1>6. keys'[b] = IF b = id[r] THEN key ELSE keys[b]
    BY <1>0, <1>1
  <1> QED
    BY <1>1, <1>4, <1>5, <1>6, HoldingsAt DEF key, n

\* So the books are kept.
LEMMA LeaseKeepsLedger ==
    ASSUME TypeOK, TypeOK', BooksKept, NEW r \in Requests, LeaseExec(r)
    PROVE  BooksKept'
  <1>0. UNCHANGED <<now, spent, late, refunded>>
    BY DEF LeaseExec, history
  <1> SUFFICES ASSUME NEW b \in Ids, NEW w \in Windows,
                      Balanced(b, w), Unopened(b, w)
               PROVE  Balanced(b, w)' /\ Unopened(b, w)'
    BY <1>0, WindowByWindow
  <1> DEFINE key == KeyAfterLease(b)
             n == Leased(b)
             f == Holdings(b, w)
             g == Holdings(b, w)'
  <1>1. /\ now' = now /\ AllSpent(b, w)' = AllSpent(b, w)
        /\ \A h \in Holders \ {r} : g[h] = f[h]
    BY <1>0, LeaseCarries DEF AllSpent
  <1>2. CASE b = id[r]
    <2>1. /\ g[r] = IF w = key.window THEN n ELSE 0
          /\ keys'[b] = key /\ ~LeaseRefused(b)
      BY <1>2, LeaseCarries
    <2>2. r \in Holders /\ n \in Nat
      BY LeaseFacts DEF Holders, TypeOK
    <2>3. /\ f \in [Holders -> Nat] /\ g \in [Holders -> Nat]
          /\ IsFiniteSet(Holders) /\ Total(f) \in Nat /\ Total(g) \in Nat
      BY LedgerTypes, LedgerTypesNext
    <2> HIDE DEF f, g
    <2>4. Total(g) + f[r] = Total(f) + g[r] /\ f[r] \in Nat
      BY <1>1, <2>2, <2>3, TotalChange
    <2>5. CASE w = key.window
      <3>1. Total(g) <= Total(f) + n
        BY <2>1, <2>2, <2>3, <2>4, <2>5
      <3> QED
        BY <1>1, <2>1, <2>2, <2>5, <3>1, BooksLease DEF f, g
    <2>6. CASE w # key.window
      <3>1. Total(g) <= Total(f) + 0
        BY <2>1, <2>3, <2>4, <2>6
      <3>2. \A h \in Holders : g[h] <= f[h]
        BY <1>1, <2>1, <2>3, <2>6
      <3>3. 0 <= n
        BY <2>2
      <3> QED
        BY <1>1, <2>1, <3>1, <3>2, <3>3, BooksLease DEF f, g
    <2> QED
      BY <2>5, <2>6
  <1>3. CASE b # id[r]
    <2>1. \A h \in Holders : g[h] = f[h]
      BY <1>3, LeaseCarries
    <2>2. keys'[b] = keys[b]
      BY <1>3, LeaseCarries
    <2> QED
      BY <1>1, <2>1, <2>2, SameBooks
  <1> QED
    BY <1>2, <1>3

\* What Redis hands out to nobody is lost.
LEMMA OrphanKeepsLedger ==
    ASSUME TypeOK, TypeOK', BooksKept, NEW o \in Ids, OrphanExec(o)
    PROVE  BooksKept'
  <1>0. keys \in [Ids -> Key]
    BY DEF TypeOK, CacheTypeOK
  <1>1. /\ UNCHANGED <<now, spent, late, refunded, id, buckets, call>>
        /\ keys' = IF LeaseRefused(o) THEN keys
                   ELSE [keys EXCEPT ![o] = KeyAfterLease(o)]
    BY DEF OrphanExec, history, requestVars
  <1> SUFFICES ASSUME NEW b \in Ids, NEW w \in Windows,
                      Balanced(b, w), Unopened(b, w)
               PROVE  Balanced(b, w)' /\ Unopened(b, w)'
    BY <1>1, WindowByWindow
  <1>2. /\ Holdings(b, w)' = Holdings(b, w)
        /\ AllSpent(b, w)' = AllSpent(b, w)
    BY <1>1 DEF Holdings, Carried, AllSpent
  <1>3. CASE b # o \/ LeaseRefused(o)
    <2>1. keys'[b] = keys[b]
      BY <1>0, <1>1, <1>3
    <2> QED
      BY <1>1, <1>2, <2>1, SameBooks
  <1>4. CASE b = o /\ ~LeaseRefused(o)
    <2>1. /\ keys'[b] = KeyAfterLease(b) /\ ~LeaseRefused(b)
          /\ KeyAfterLease(b) \in Key
      BY <1>0, <1>1, <1>4, LeaseFacts DEF TypeOK
    <2>2. /\ Total(Holdings(b, w)') <= Total(Holdings(b, w)) + 0
          /\ \A h \in Holders : Holdings(b, w)'[h] <= Holdings(b, w)[h]
      <3>1. \A h \in Holders : Holdings(b, w)[h] \in Nat
        BY LedgerTypes
      <3> QED
        BY <1>2, <3>1, LedgerTypes
    <2>3. 0 <= Leased(b)
      BY LeaseFacts DEF TypeOK
    <2> QED
      BY <1>1, <1>2, <2>1, <2>2, <2>3, BooksLease
  <1> QED
    BY <1>3, <1>4

\* A dropped bucket is lost, and so is one whose return Redis refuses.
LEMMA CleanupLoses ==
    ASSUME TypeOK, NEW i \in Instances, Clean(i),
           \A b \in Ids : ~ReturnTokens(i, b)
    PROVE  Loses
  <1>0. buckets \in [Instances -> [Ids -> Bucket \cup {NoBucket}]]
    BY DEF TypeOK
  <1>1. \/ CleanupTick(i) \/ \E b \in Ids : CleanupRemove(i, b)
        \/ ReceiveShutdown(i) \/ \E b \in Ids : ReturnFails(i, b)
    BY DEF Clean
  <1>2. UNCHANGED <<now, keys, spent, late, refunded, id, call>>
    BY <1>1 DEF CleanupTick, CleanupRemove, ReceiveShutdown, ReturnFails,
                history, requestVars
  <1>3. \/ buckets' = buckets
        \/ \E b \in Ids : buckets' = [buckets EXCEPT ![i][b] = NoBucket]
    BY <1>1 DEF CleanupTick, CleanupRemove, ReceiveShutdown, ReturnFails,
                SetBucket
  <1>4. \A j \in Instances, b \in Ids :
           buckets'[j][b] \in {NoBucket, buckets[j][b]}
    BY <1>0, <1>3
  <1> QED
    BY <1>2, <1>4, BucketsDropped, RepliesDropped DEF Loses

\* RELEASE_SCRIPT adds to the window the tokens are of, and to no other.
LEMMA RefundFacts ==
    ASSUME TypeOK, NEW o \in Ids, NEW n, NEW v, Refund(o, n, v)
    PROVE  /\ refunded \subseteq refunded'
           /\ \A b \in Ids :
                 /\ keys'[b].window = keys[b].window
                 /\ <<b, keys[b].window>> \notin refunded' => keys'[b] = keys[b]
  <1> DEFINE key == KeyAfterRelease(o, n, v)
  <1>0. keys \in [Ids -> Key] /\ \A b \in Ids : keys[b] \in Key
    BY DEF TypeOK, CacheTypeOK
  <1>1. /\ keys' = [keys EXCEPT ![o] = key]
        /\ refunded' = IF keys' = keys THEN refunded
                       ELSE refunded \cup {<<o, v>>}
    BY DEF Refund
  <1>2. /\ key.window = keys[o].window
        /\ key # keys[o] => keys[o].window = v
    BY <1>0 DEF KeyAfterRelease, Key
  <1> HIDE DEF key
  <1>3. ASSUME NEW b \in Ids
        PROVE  /\ keys'[b].window = keys[b].window
               /\ <<b, keys[b].window>> \notin refunded' => keys'[b] = keys[b]
    <2>1. keys'[b] = IF b = o THEN key ELSE keys[b]
      BY <1>0, <1>1
    <2>2. CASE keys'[b] # keys[b]
      <3>1. b = o /\ keys[b].window = v
        BY <1>2, <2>1, <2>2
      <3>2. <<o, v>> \in refunded'
        BY <1>1, <2>2
      <3> QED
        BY <1>2, <2>1, <3>1, <3>2
    <2> QED
      BY <2>2
  <1> QED
    BY <1>1, <1>3

\* A return that comes in time and one that comes late are such refunds.
LEMMA ReturnIsRefund ==
    ASSUME NEW o \in Ids,
           \/ \E i \in Instances : ReturnTokens(i, o)
           \/ \E v \in Windows : LateReturn(o, v)
    PROVE  /\ UNCHANGED <<now, buckets, id, call, spent, late>>
           /\ \E n, v : Refund(o, n, v)
  BY DEF ReturnTokens, LateReturn, requestVars

\* So the books of the other windows are kept.
LEMMA ReturnKeepsLedger ==
    ASSUME TypeOK, TypeOK', BooksKept, NEW o \in Ids,
           \/ \E i \in Instances : ReturnTokens(i, o)
           \/ \E v \in Windows : LateReturn(o, v)
    PROVE  BooksKept'
  <1>1. /\ UNCHANGED <<now, buckets, id, call, spent, late>>
        /\ refunded \subseteq refunded'
        /\ \A b \in Ids :
              /\ keys'[b].window = keys[b].window
              /\ <<b, keys[b].window>> \notin refunded' => keys'[b] = keys[b]
    BY ReturnIsRefund, RefundFacts
  <1> SUFFICES ASSUME NEW b \in Ids, NEW w \in Windows,
                      <<b, w>> \notin refunded'
               PROVE  Balanced(b, w)' /\ Unopened(b, w)'
    BY DEF BooksKept
  <1>2. Balanced(b, w) /\ Unopened(b, w)
    BY <1>1 DEF BooksKept
  <1>3. /\ Holdings(b, w)' = Holdings(b, w)
        /\ AllSpent(b, w)' = AllSpent(b, w)
    BY <1>1 DEF Holdings, Carried, AllSpent
  <1>4. \A h \in Holders : Holdings(b, w)'[h] <= Holdings(b, w)[h]
    <2>1. \A h \in Holders : Holdings(b, w)[h] \in Nat
      BY LedgerTypes
    <2> QED
      BY <1>3, <2>1
  <1>5. Remaining(b, w)' <= Remaining(b, w)
    <2>1. Remaining(b, w)' = Remaining(b, w)
      BY <1>1 DEF Remaining
    <2> QED
      BY <2>1, LedgerTypes
  <1>6. now <= now' /\ keys[b].window <= keys'[b].window
    <2>1. now' = now /\ keys'[b].window = keys[b].window
      BY <1>1
    <2>2. now \in Nat /\ keys[b].window \in Nat
      BY LedgerTypes
    <2> QED
      BY <2>1, <2>2
  <1> QED
    BY <1>2, <1>3, <1>4, <1>5, <1>6, BooksShrink

\* A process that ends takes its buckets and replies with it.
LEMMA LifeLoses ==
    ASSUME TypeOK, NEW i \in Instances,
           Terminate(i) \/ Drain(i) \/ Exit(i) \/ Crash(i)
    PROVE  Loses
  <1>0. buckets \in [Instances -> [Ids -> Bucket \cup {NoBucket}]]
    BY DEF TypeOK
  <1>1. UNCHANGED <<now, keys, spent, late, refunded, id>>
    BY DEF Terminate, Drain, Exit, Crash, history, requestVars
  <1>2. \/ buckets' = buckets
        \/ buckets' = [buckets EXCEPT ![i] = EmptyMap]
    BY DEF Terminate, Drain, Exit, Crash, Restart
  <1>3. \A j \in Instances, b \in Ids :
           buckets'[j][b] \in {NoBucket, buckets[j][b]}
    BY <1>0, <1>2 DEF EmptyMap
  <1>4. \A r \in Requests : call'[r] = call[r] \/ call'[r].leased = 0
    BY DEF Terminate, Drain, Exit, Crash, requestVars, NoCall
  <1> QED
    BY <1>1, <1>3, <1>4, BucketsDropped, RepliesDropped DEF Loses

\* Nothing happens.
LEMMA StutterLoses ==
    ASSUME TypeOK, UNCHANGED vars
    PROVE  Loses
  <1>1. UNCHANGED <<now, keys, spent, late, refunded, buckets, id, call>>
    BY DEF vars, requestVars, history
  <1> QED
    BY <1>1, BucketsDropped, RepliesDropped DEF Loses

\* A key that expires takes what is left of its window with it; from then on
\* the window is in the past.
LEMMA TickKeepsLedger ==
    ASSUME TypeOK, TypeOK', BooksKept, Tick
    PROVE  BooksKept'
  <1>0. UNCHANGED <<buckets, id, call, spent, late, refunded>>
    BY DEF Tick, history, requestVars
  <1> SUFFICES ASSUME NEW b \in Ids, NEW w \in Windows,
                      Balanced(b, w), Unopened(b, w)
               PROVE  Balanced(b, w)' /\ Unopened(b, w)'
    BY <1>0, WindowByWindow
  <1>1. /\ now' = now + 1
        /\ keys'[b] = IF keys[b].window < now + 1 THEN NoKey ELSE keys[b]
    BY DEF Tick, Advance
  <1>2. /\ Holdings(b, w)' = Holdings(b, w)
        /\ AllSpent(b, w)' = AllSpent(b, w)
    BY <1>0 DEF Holdings, Carried, AllSpent
  <1>3. \A h \in Holders : Holdings(b, w)'[h] <= Holdings(b, w)[h]
    <2>1. \A h \in Holders : Holdings(b, w)[h] \in Nat
      BY LedgerTypes
    <2> QED
      BY <1>2, <2>1
  <1>4. Remaining(b, w)' <= Remaining(b, w)
    BY <1>1, LedgerTypes DEF Remaining, NoKey
  <1>5. /\ now <= now'
        /\ keys[b].window <= keys'[b].window \/ keys[b].window < now'
    BY <1>1, LedgerTypes
  <1> QED
    BY <1>1, <1>2, <1>3, <1>4, <1>5, BooksShrink

-----------------------------------------------------------------------------
(***************************************************************************)
(* The fact about control that the ledger needs.                           *)
(***************************************************************************)

\* A request carries tokens only between the reply of Redis and their use.
LEMMA CarriedStep ==
    ASSUME TypeOK, CarriedInReply, [Next]_vars
    PROVE  CarriedInReply'
  <1>0. pc \in [Requests -> Steps] /\ call \in [Requests -> Call]
    BY DEF TypeOK
  <1>1. ASSUME NEW r \in Requests,
               \/ \E b \in Ids : Arrive(r, b)
               \/ CheckDenied(r) \/ CheckServed(r) \/ CheckMissing(r)
               \/ JoinFlight(r) \/ Register(r)
               \/ ConsumeToken(r) \/ ConsumeNothing(r) \/ ConsumeExpired(r)
               \/ Evict(r) \/ DisconnectFollower(r)
        PROVE  CarriedInReply'
    <2>1. /\ call' = call
          /\ \E to \in Steps : pc' = [pc EXCEPT ![r] = to]
          /\ pc[r] \notin {"replied", "install"}
      BY <1>1 DEF Arrive, CheckDenied, CheckServed, CheckMissing, JoinFlight,
                  Register, ConsumeToken, ConsumeNothing, ConsumeExpired,
                  Evict, DisconnectFollower, Goto, Steps
    <2> QED
      BY <1>0, <2>1 DEF CarriedInReply
  <1>2. ASSUME NEW r \in Requests,
               \/ TakeFlight(r) \/ LeaseFails(r) \/ Install(r)
               \/ MarkExhausted(r) \/ DisconnectLeader(r)
        PROVE  CarriedInReply'
    <2>1. /\ \E to \in Steps : pc' = [pc EXCEPT ![r] = to]
          /\ \E c \in {NoCall, Started(now)} : call' = [call EXCEPT ![r] = c]
      BY <1>2 DEF TakeFlight, LeaseFails, Install, MarkExhausted,
                  DisconnectLeader, Goto, Steps, Leading, AfterError
    <2> QED
      BY <1>0, <2>1 DEF CarriedInReply, NoCall, Started
  <1>3. ASSUME NEW r \in Requests, LeaseExec(r) \/ LeaseReply(r)
        PROVE  CarriedInReply'
    <2>1. /\ \E to \in {"replied", "install"} : pc' = [pc EXCEPT ![r] = to]
          /\ \E c : call' = [call EXCEPT ![r] = c]
      BY <1>3 DEF LeaseExec, LeaseReply, Goto
    <2> QED
      BY <1>0, <2>1 DEF CarriedInReply
  <1>4. ASSUME NEW r \in Requests, ReleaseFlight(r)
        PROVE  CarriedInReply'
    <2>1. /\ call' = call /\ pc[r] = "release"
          /\ \A q \in Requests :
                q # r => pc'[q] = pc[q] \/ pc[q] = "waiting"
      BY <1>4 DEF ReleaseFlight, Woken
    <2> QED
      BY <2>1 DEF CarriedInReply
  <1>5. ASSUME NEW i \in Instances, Crash(i)
        PROVE  CarriedInReply'
    BY <1>5 DEF Crash, CarriedInReply, NoCall
  <1>6. CASE \/ \E i \in Instances :
                   Clean(i) \/ Terminate(i) \/ Drain(i) \/ Exit(i)
             \/ \E b \in Ids :
                   OrphanExec(b) \/ \E w \in Windows : LateReturn(b, w)
             \/ Tick
             \/ UNCHANGED vars
    <2>1. UNCHANGED <<pc, call>>
      BY <1>6 DEF Clean, CleanupTick, CleanupRemove, ReceiveShutdown,
                  ReturnTokens, ReturnFails, Terminate, Drain, Exit,
                  OrphanExec, LateReturn, Tick, vars, requestVars
    <2> QED
      BY <2>1 DEF CarriedInReply
  <1> QED
    BY <1>1, <1>2, <1>3, <1>4, <1>5, <1>6 DEF Next, Serve, Answered

-----------------------------------------------------------------------------
LedgerInv == CarriedInReply /\ BooksKept

\* Nothing is held or spent at the start.
LEMMA LedgerStart == Init => LedgerInv
  <1> SUFFICES ASSUME Init PROVE LedgerInv
    OBVIOUS
  <1>1. CarriedInReply
    BY DEF Init, CarriedInReply, NoCall
  <1>2. ASSUME NEW b \in Ids, NEW w \in Windows
        PROVE  Balanced(b, w) /\ Unopened(b, w)
    <2>1. IsFiniteSet(Holders)
      BY StoreAssumption, FS_Union DEF Holders
    <2>2. \A i \in Instances : TokensIn(buckets[i][b], w) = 0
      BY DEF Init, EmptyMap, TokensIn
    <2>3. \A r \in Requests : Carried(r, b, w) = 0
      BY DEF Init, NoCall, Carried, TokensOf
    <2>4. /\ Holdings(b, w) \in [Holders -> Nat]
          /\ \A h \in Holders : Holdings(b, w)[h] = 0
      BY <2>2, <2>3 DEF Holdings, Holders
    <2>5. Total(Holdings(b, w)) = 0
      BY <2>4, TotalZero
    <2>6. Remaining(b, w) = 0 /\ AllSpent(b, w) = 0
      BY DEF Init, CacheInit, NoKey, Remaining, AllSpent
    <2> QED
      BY <2>4, <2>5, <2>6, PolicyFacts DEF Balanced, Unopened, Quota
  <1> QED
    BY <1>1, <1>2 DEF LedgerInv, BooksKept

\* Every step keeps the books.
LEMMA LedgerStep ==
    ASSUME TypeOK, TypeOK', LedgerInv, [Next]_vars
    PROVE  LedgerInv'
  <1>1. BooksKept /\ CarriedInReply
    BY DEF LedgerInv
  <1>2. CarriedInReply'
    BY <1>1, CarriedStep
  <1>3. BooksKept'
    <2>1. CASE UNCHANGED vars
      BY <1>1, <2>1, StutterLoses, NothingGained
    <2>2. ASSUME NEW i \in Instances, Clean(i) PROVE BooksKept'
      BY <1>1, <2>2, CleanupLoses, NothingGained, ReturnKeepsLedger
    <2>3. CASE Next
      BY <1>1, <2>2, <2>3, LosingSteps, MarkLoses, LifeLoses,
         NothingGained, ConsumeKeepsLedger, InstallKeepsLedger,
         LeaseKeepsLedger, OrphanKeepsLedger, ReturnKeepsLedger,
         TickKeepsLedger
         DEF Next, Serve, Answered
    <2> QED
      BY <2>1, <2>3
  <1> QED
    BY <1>2, <1>3 DEF LedgerInv

\* A window that got no tokens back never hands out more than its quota over
\* all instances: what was consumed, what buckets and replies hold and what
\* the counter of Redis has left never exceed it, with any policies, any
\* number of instances and requests, failures, crashes, disconnects, late
\* commands and instances told to stop.
THEOREM Conservation == Spec => []TokensConserved
  <1>1. TypeOK /\ TypeOK' /\ LedgerInv /\ [Next]_vars => LedgerInv'
    BY LedgerStep
  <1>2. LedgerInv => TokensConserved
    BY DEF LedgerInv, BooksKept, Balanced, TokensConserved
  <1> QED
    BY <1>1, <1>2, LedgerStart, TypeCorrect, PTL DEF Spec

=============================================================================
