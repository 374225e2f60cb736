-------------------------------- MODULE Lists --------------------------------
(***************************************************************************)
(* The methods of Array.prototype that the reading tools use, defined by   *)
(* the place of an element rather than by recursion: the n-th element kept *)
(* is the one with n kept elements up to it, the n-th in order the one that*)
(* n elements do not follow.                                               *)
(***************************************************************************)
EXTENDS Integers, Sequences, FiniteSets

\* The members of a finite set of numbers, the smallest first.
InOrder(numbers) ==
  [n \in 1..Cardinality(numbers) |->
     CHOOSE i \in numbers : Cardinality({j \in numbers : j <= i}) = n]

ForEach(list, Item(_)) == [i \in DOMAIN list |-> Item(list[i])]

At(list, positions) == [n \in DOMAIN positions |-> list[positions[n]]]

Filter(list, Keep(_)) ==
  At(list, InOrder({i \in DOMAIN list : Keep(list[i])}))

\* sort is stable: i comes up to j by their keys, then by where they stood.
UpTo(keys, i, j) == keys[i] < keys[j] \/ (keys[i] = keys[j] /\ i <= j)

SortOrder(keys) ==
  [n \in DOMAIN keys |->
     CHOOSE j \in DOMAIN keys :
       Cardinality({i \in DOMAIN keys : UpTo(keys, i, j)}) = n]

SortedBy(list, Key(_)) == At(list, SortOrder(ForEach(list, Key)))

\* reduce with +.
Added(numbers) ==
  LET upTo[i \in 0..Len(numbers)] ==
        IF i = 0 THEN 0 ELSE upTo[i - 1] + numbers[i]
  IN  upTo[Len(numbers)]
==============================================================================
