-------------------------------- MODULE Order ---------------------------------
(***************************************************************************)
(* Lists in order: what sorting leaves of a finite set, of a finite set of *)
(* numbers, and of numbers that may occur more than once; loops, and the   *)
(* lists they make.                                                        *)
(***************************************************************************)
EXTENDS Integers, FiniteSets, Sequences

\* Each number of S stands where as many of S are before it.
Ordered(S) ==
  [i \in 1..Cardinality(S) |-> CHOOSE c \in S : Cardinality({d \in S : d < c}) = i - 1]

\* The same for members that Less puts in order.
OrderedBy(S, Less(_, _)) ==
  [i \in 1..Cardinality(S) |-> CHOOSE c \in S : Cardinality({d \in S : Less(d, c)}) = i - 1]

\* What n steps, one after the other, make of s.
Loop(s, n, Step(_, _)) ==
  LET after[k \in 0..n] == IF k = 0 THEN s ELSE Step(after[k - 1], k)
  IN  after[n]

\* One list made of a list of lists.
Joined(lists) == Loop(<<>>, Len(lists), LAMBDA list, k : list \o lists[k])

\* The members of list at some of its positions, in their order.
Chosen(list, places) == [k \in 1..Cardinality(places) |-> list[Ordered(places)[k]]]

\* How many of the values of f are below a, and how many are not above it.
Below(f, a) == Cardinality({i \in DOMAIN f : f[i] < a})
UpTo(f, a)  == Cardinality({i \in DOMAIN f : f[i] <= a})

\* The values of f, each as often as f has it: at position k stands the one that fewer than
\* k values are below and at least k are not above.
Sorted(f) ==
  [k \in 1..Cardinality(DOMAIN f) |->
     CHOOSE a \in {f[i] : i \in DOMAIN f} : Below(f, a) < k /\ k <= UpTo(f, a)]
=============================================================================
