------------------------------- MODULE Listing --------------------------------
(* Numbers in their order, their median, and what a filter leaves of a       *)
(* sequence. SelectSeq and SortSeq take an operator, about which nothing     *)
(* could be proved; these take the set of the numbers, or of the places,     *)
(* that are wanted.                                                          *)
EXTENDS Integers, FiniteSets

Below(S, x) == {y \in S : y < x}

\* The members of S, the least one first.
Ascending(S) ==
  [j \in 1..Cardinality(S) |-> CHOOSE x \in S : Cardinality(Below(S, x)) = j - 1]

\* The members of S, the greatest one first.
Descending(S) ==
  [j \in 1..Cardinality(S) |-> Ascending(S)[Cardinality(S) + 1 - j]]

\* The members of the sequence s at the places of K, in the order of s.
Keep(s, K) == [j \in 1..Cardinality(K) |-> s[Ascending(K)[j]]]

\* The middle one of an odd number of samples, in their order.
Median(s) ==
  CHOOSE m \in {s[k] : k \in DOMAIN s} :
    /\ Cardinality({k \in DOMAIN s : s[k] < m}) <= Cardinality(DOMAIN s) \div 2
    /\ Cardinality({k \in DOMAIN s : s[k] > m}) <= Cardinality(DOMAIN s) \div 2

=============================================================================
