------------------------------- MODULE Ordering -------------------------------
(***************************************************************************)
(* Numbers in their order, as sort((a, b) => a - b) leaves them.           *)
(***************************************************************************)
EXTENDS Naturals, FiniteSets

Sorted(numbers) ==
    CHOOSE s \in [1..Cardinality(numbers) -> numbers] :
        \A i, j \in DOMAIN s : i < j => s[i] < s[j]
==============================================================================
