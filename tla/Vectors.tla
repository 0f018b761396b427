------------------------------ MODULE Vectors ------------------------------
(***************************************************************************)
(* What several components do with a std::vector or std::list: erase       *)
(* entries, and fill places in the order of a list.                        *)
(***************************************************************************)
EXTENDS Integers, Sequences, Functions

Least(a, b) == IF a < b THEN a ELSE b
Most(a, b) == IF a > b THEN a ELSE b

\* A list from which the entries that are in gone have been erased.
Remaining(list, gone) ==
  LET left[i \in 0..Len(list)] ==
        IF i = 0 THEN <<>>
        ELSE IF list[i] \in gone THEN left[i - 1] ELSE Append(left[i - 1], list[i])
  IN  left[Len(list)]

\* What the places 1, 2, ... take of m units that fill them one after the other:
\* room[i] is what place i has room for.
Poured(room, m) ==
  [i \in DOMAIN room |->
     Least(room[i], Most(0, m - SumFunction([j \in 1..(i - 1) |-> room[j]])))]
=============================================================================
