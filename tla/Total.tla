-------------------------------- MODULE Total --------------------------------
(***************************************************************************)
(* The sum of a function of natural numbers, as a count of units: f[h] is  *)
(* the number of the pairs <<h, 1>> .. <<h, f[h]>>.  Counting needs no     *)
(* recursion, so the facts about it that the ledger needs are provable.    *)
(***************************************************************************)
EXTENDS Integers, FiniteSets

Units(f) ==
    UNION {{h} \X (1 .. f[h]) : h \in {g \in DOMAIN f : f[g] > 0}}

Total(f) == Cardinality(Units(f))

=============================================================================
