-------------------------------- MODULE Ledger --------------------------------
(***************************************************************************)
(* What the service promises about the tokens of a key: a window has the   *)
(* quota once, and each of its tokens is in Redis, in the hands of an      *)
(* instance, which may give it back, spent, or lost.  How many instances   *)
(* there are, which of them holds a token and how it got there is not said.*)
(***************************************************************************)
EXTENDS Integers

CONSTANTS Ids, Windows, Limit   \* Limit[b]: the tokens of a window of `b`

VARIABLES
    left,   \* left[b][w]: tokens of window `w` that Redis still has
    held,   \* held[b][w]: tokens of `w` that left Redis and are not spent
    spent   \* spent[b][w]: tokens of `w` that were spent

ledger == <<left, held, spent>>

Counts == [Ids -> [Windows -> Nat]]

Nothing == [b \in Ids |-> [w \in Windows |-> 0]]

Init == left = Nothing /\ held = Nothing /\ spent = Nothing

\* Window `w` opens: `n` tokens leave at once, `m` of them reach an instance.
\* Whatever an earlier window had left is gone.
Open(b, w, n, m) ==
    /\ left[b][w] = 0 /\ held[b][w] = 0 /\ spent[b][w] = 0
    /\ left' = [left EXCEPT ![b] =
                  [v \in Windows |-> IF v = w THEN Limit[b] - n ELSE 0]]
    /\ held' = [held EXCEPT ![b][w] = m]
    /\ UNCHANGED spent

\* `n` more tokens leave, `m` of them reach an instance.
Lease(b, w, n, m) ==
    /\ n <= left[b][w]
    /\ left' = [left EXCEPT ![b][w] = @ - n]
    /\ held' = [held EXCEPT ![b][w] = @ + m]
    /\ UNCHANGED spent

Spend(b, w) ==
    /\ held[b][w] > 0
    /\ held' = [held EXCEPT ![b][w] = @ - 1]
    /\ spent' = [spent EXCEPT ![b][w] = @ + 1]
    /\ UNCHANGED left

\* `n` tokens that somebody holds go back.
Return(b, w, n) ==
    /\ n <= held[b][w]
    /\ left' = [left EXCEPT ![b][w] = @ + n]
    /\ held' = [held EXCEPT ![b][w] = @ - n]
    /\ UNCHANGED spent

\* Tokens are lost: a key or a bucket expires, a reply fails, an instance dies.
Lose ==
    /\ left' \in Counts /\ held' \in Counts
    /\ \A b \in Ids, w \in Windows :
          left'[b][w] <= left[b][w] /\ held'[b][w] <= held[b][w]
    /\ UNCHANGED spent

\* Most steps of an implementation change no book.
Next ==
    \/ UNCHANGED ledger
    \/ Lose
    \/ \E b \in Ids, w \in Windows :
          \/ Spend(b, w)
          \/ \E n \in 0 .. Limit[b] :
                \/ Return(b, w, n)
                \/ \E m \in 0 .. n : Open(b, w, n, m) \/ Lease(b, w, n, m)

Spec == Init /\ [][Next]_ledger

\* No window gives more than it has: README, "the sum of admitted requests
\* across all instances never exceeds `quota` per window".
NeverMoreThanLimit ==
    \A b \in Ids, w \in Windows :
        left[b][w] + held[b][w] + spent[b][w] <= Limit[b]

===============================================================================
