--------------------------- MODULE LedgerTheorems ---------------------------
(***************************************************************************)
(* What the ledger promises.                                               *)
(***************************************************************************)
EXTENDS Ledger, TLAPS

\* The books are counts, and every window is within its limit.
Sound ==
    /\ left \in Counts /\ held \in Counts /\ spent \in Counts
    /\ NeverMoreThanLimit

\* What a step may do to the three books of one window.
LEMMA StepKeepsLimit ==
    ASSUME Limit \in [Ids -> Nat], Sound, Next
    PROVE  Sound'
  <1> USE DEF Counts
  <1>1. ASSUME NEW b \in Ids, NEW w \in Windows, NEW n \in 0 .. Limit[b],
               NEW m \in 0 .. n, Open(b, w, n, m)
        PROVE  Sound'
    <2>0. Limit[b] \in Nat /\ n \in Nat /\ m \in Nat /\ Limit[b] - n \in Nat
      OBVIOUS
    <2>1. left' \in Counts /\ held' \in Counts /\ spent' \in Counts
      <3>1. [v \in Windows |-> IF v = w THEN Limit[b] - n ELSE 0]
              \in [Windows -> Nat]
        BY <2>0
      <3>2. left' \in Counts
        BY <1>1, <3>1 DEF Open, Sound
      <3>3. held' \in Counts
        BY <1>1, <2>0 DEF Open, Sound
      <3> QED
        BY <1>1, <3>2, <3>3 DEF Open, Sound
    <2>2. \A c \in Ids, v \in Windows :
             /\ left'[c][v] = IF c # b THEN left[c][v]
                              ELSE IF v = w THEN Limit[b] - n ELSE 0
             /\ held'[c][v] = IF c = b /\ v = w THEN m ELSE held[c][v]
             /\ spent'[c][v] = spent[c][v]
      BY <1>1 DEF Open, Sound
    <2>3. ASSUME NEW c \in Ids, NEW v \in Windows
          PROVE  left'[c][v] + held'[c][v] + spent'[c][v] <= Limit[c]
      <3>1. /\ left[c][v] + held[c][v] + spent[c][v] <= Limit[c]
            /\ left[c][v] \in Nat /\ held[c][v] \in Nat /\ spent[c][v] \in Nat
            /\ Limit[c] \in Nat
        BY DEF Sound, NeverMoreThanLimit
      <3>2. c = b /\ v = w => spent[c][v] = 0
        BY <1>1 DEF Open
      <3> QED
        BY <2>0, <2>2, <3>1, <3>2
    <2> QED
      BY <2>1, <2>3 DEF Sound, NeverMoreThanLimit
  <1>2. ASSUME NEW b \in Ids, NEW w \in Windows, NEW n \in 0 .. Limit[b],
               NEW m \in 0 .. n, Lease(b, w, n, m)
        PROVE  Sound'
    <2>0. /\ n \in Nat /\ m \in Nat /\ m <= n /\ n <= left[b][w]
          /\ left[b][w] \in Nat /\ held[b][w] \in Nat
      BY <1>2 DEF Lease, Sound
    <2>1. left' \in Counts /\ held' \in Counts /\ spent' \in Counts
      <3>1. left[b][w] - n \in Nat /\ held[b][w] + m \in Nat
        BY <2>0
      <3> QED
        BY <1>2, <3>1 DEF Lease, Sound
    <2>2. \A c \in Ids, v \in Windows :
             /\ left'[c][v] = IF c = b /\ v = w THEN left[c][v] - n
                              ELSE left[c][v]
             /\ held'[c][v] = IF c = b /\ v = w THEN held[c][v] + m
                              ELSE held[c][v]
             /\ spent'[c][v] = spent[c][v]
      BY <1>2 DEF Lease, Sound
    <2>3. ASSUME NEW c \in Ids, NEW v \in Windows
          PROVE  left'[c][v] + held'[c][v] + spent'[c][v] <= Limit[c]
      <3>1. /\ left[c][v] + held[c][v] + spent[c][v] <= Limit[c]
            /\ left[c][v] \in Nat /\ held[c][v] \in Nat /\ spent[c][v] \in Nat
            /\ Limit[c] \in Nat
        BY DEF Sound, NeverMoreThanLimit
      <3> QED
        BY <2>0, <2>2, <3>1
    <2> QED
      BY <2>1, <2>3 DEF Sound, NeverMoreThanLimit
  <1>3. ASSUME NEW b \in Ids, NEW w \in Windows, Spend(b, w)
        PROVE  Sound'
    <2>0. held[b][w] \in Nat /\ held[b][w] > 0 /\ spent[b][w] \in Nat
      BY <1>3 DEF Spend, Sound
    <2>1. left' \in Counts /\ held' \in Counts /\ spent' \in Counts
      <3>1. held[b][w] - 1 \in Nat /\ spent[b][w] + 1 \in Nat
        BY <2>0
      <3> QED
        BY <1>3, <3>1 DEF Spend, Sound
    <2>2. \A c \in Ids, v \in Windows :
             /\ held'[c][v] = IF c = b /\ v = w THEN held[c][v] - 1
                              ELSE held[c][v]
             /\ spent'[c][v] = IF c = b /\ v = w THEN spent[c][v] + 1
                               ELSE spent[c][v]
             /\ left'[c][v] = left[c][v]
      BY <1>3 DEF Spend, Sound
    <2>3. ASSUME NEW c \in Ids, NEW v \in Windows
          PROVE  left'[c][v] + held'[c][v] + spent'[c][v] <= Limit[c]
      <3>1. /\ left[c][v] + held[c][v] + spent[c][v] <= Limit[c]
            /\ left[c][v] \in Nat /\ held[c][v] \in Nat /\ spent[c][v] \in Nat
            /\ Limit[c] \in Nat
        BY DEF Sound, NeverMoreThanLimit
      <3> QED
        BY <2>0, <2>2, <3>1
    <2> QED
      BY <2>1, <2>3 DEF Sound, NeverMoreThanLimit
  <1>4. ASSUME NEW b \in Ids, NEW w \in Windows, NEW n \in 0 .. Limit[b],
               Return(b, w, n)
        PROVE  Sound'
    <2>0. /\ n \in Nat /\ n <= held[b][w]
          /\ left[b][w] \in Nat /\ held[b][w] \in Nat
      BY <1>4 DEF Return, Sound
    <2>1. left' \in Counts /\ held' \in Counts /\ spent' \in Counts
      <3>1. left[b][w] + n \in Nat /\ held[b][w] - n \in Nat
        BY <2>0
      <3> QED
        BY <1>4, <3>1 DEF Return, Sound
    <2>2. \A c \in Ids, v \in Windows :
             /\ left'[c][v] = IF c = b /\ v = w THEN left[c][v] + n
                              ELSE left[c][v]
             /\ held'[c][v] = IF c = b /\ v = w THEN held[c][v] - n
                              ELSE held[c][v]
             /\ spent'[c][v] = spent[c][v]
      BY <1>4 DEF Return, Sound
    <2>3. ASSUME NEW c \in Ids, NEW v \in Windows
          PROVE  left'[c][v] + held'[c][v] + spent'[c][v] <= Limit[c]
      <3>1. /\ left[c][v] + held[c][v] + spent[c][v] <= Limit[c]
            /\ left[c][v] \in Nat /\ held[c][v] \in Nat /\ spent[c][v] \in Nat
            /\ Limit[c] \in Nat
        BY DEF Sound, NeverMoreThanLimit
      <3> QED
        BY <2>0, <2>2, <3>1
    <2> QED
      BY <2>1, <2>3 DEF Sound, NeverMoreThanLimit
  <1>5. CASE Lose
    <2>1. left' \in Counts /\ held' \in Counts /\ spent' \in Counts
      BY <1>5 DEF Lose, Sound
    <2>2. ASSUME NEW c \in Ids, NEW v \in Windows
          PROVE  left'[c][v] + held'[c][v] + spent'[c][v] <= Limit[c]
      <3>1. /\ left[c][v] + held[c][v] + spent[c][v] <= Limit[c]
            /\ left[c][v] \in Nat /\ held[c][v] \in Nat /\ spent[c][v] \in Nat
            /\ left'[c][v] \in Nat /\ held'[c][v] \in Nat
            /\ Limit[c] \in Nat
        BY <2>1 DEF Sound, NeverMoreThanLimit
      <3>2. /\ left'[c][v] <= left[c][v] /\ held'[c][v] <= held[c][v]
            /\ spent'[c][v] = spent[c][v]
        BY <1>5 DEF Lose
      <3> QED
        BY <3>1, <3>2
    <2> QED
      BY <2>1, <2>2 DEF Sound, NeverMoreThanLimit
  <1>6. CASE UNCHANGED ledger
    BY <1>6 DEF ledger, Sound, NeverMoreThanLimit
  <1> QED
    BY <1>1, <1>2, <1>3, <1>4, <1>5, <1>6 DEF Next

\* The ledger never gives a window more than its limit, counted over what
\* Redis has, what is held and what was spent.
THEOREM LedgerKeepsLimit ==
    ASSUME Limit \in [Ids -> Nat]
    PROVE  Spec => []NeverMoreThanLimit
  <1>1. Init => Sound
    BY DEF Init, Nothing, Counts, Sound, NeverMoreThanLimit
  <1>2. Sound /\ [Next]_ledger => Sound'
    <2>1. CASE UNCHANGED ledger
      BY <2>1 DEF ledger, Sound, NeverMoreThanLimit, Counts
    <2> QED
      BY <2>1, StepKeepsLimit
  <1>3. Sound => NeverMoreThanLimit
    BY DEF Sound
  <1> QED
    BY <1>1, <1>2, <1>3, PTL DEF Spec

=============================================================================
