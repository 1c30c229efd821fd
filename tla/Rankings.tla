------------------------------ MODULE Rankings ------------------------------
(***************************************************************************)
(* Sorting and selecting, as functions of places.  An order is the set of  *)
(* the pairs whose first comes before the second.                          *)
(***************************************************************************)
EXTENDS Integers, Sequences, FiniteSets

\* The elements of S as a sequence in the order before, which is a strict total order of S.
Ranked(S, before) ==
  LET place == [x \in S |-> Cardinality({y \in S : y = x \/ <<y, x>> \in before})]
  IN [k \in 1..Cardinality(S) |-> CHOOSE x \in S : place[x] = k]

\* Places as they are, and places by their keys, equal ones as they are: a stable sort.
AsTheyAre(I)  == {p \in I \X I : p[1] < p[2]}
ByKey(I, key) == {p \in I \X I : \/ key[p[1]] < key[p[2]]
                                 \/ key[p[1]] = key[p[2]] /\ p[1] < p[2]}

\* The elements of s at the places I.
Arranged(s, I, before) == LET r == Ranked(I, before) IN [k \in DOMAIN r |-> s[r[k]]]
Picked(s, I) == Arranged(s, I, AsTheyAre(I))

=============================================================================
