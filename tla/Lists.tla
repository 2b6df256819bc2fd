-------------------------------- MODULE Lists --------------------------------
(***************************************************************************)
(* Lists as the pages and the API make them: the elements of a set or of   *)
(* another list that meet a condition, in an order of theirs.              *)
(***************************************************************************)
EXTENDS Integers, FiniteSets

\* What stands at a place.
Placed(places, k) == (CHOOSE p \in places : p[1] = k)[2]

\* The elements of S in a strict total order, which is given by its pairs: each at
\* the place that the number of those before it makes.
InOrder(S, before) ==
    LET places == {<<1 + Cardinality({y \in S : <<y, x>> \in before}), x>> : x \in S}
    IN  [k \in 1..Cardinality(S) |-> Placed(places, k)]

\* Numbers from the smallest to the largest.
Ascending(I) == InOrder(I, {p \in I \X I : p[1] < p[2]})

\* filter: the elements of a list at some of its indices.
At(list, I) ==
    LET place == Ascending(I)
    IN  [k \in 1..Cardinality(I) |-> list[place[k]]]

\* sort: the elements of a list by falling keys, those of one key as they were.
ByKey(list, key) ==
    LET before == {p \in (DOMAIN list) \X (DOMAIN list) :
                      key[p[1]] > key[p[2]] \/ (key[p[1]] = key[p[2]] /\ p[1] < p[2])}
        place == InOrder(DOMAIN list, before)
    IN  [k \in DOMAIN list |-> list[place[k]]]

=============================================================================
