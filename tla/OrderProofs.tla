----------------------------- MODULE OrderProofs ------------------------------
(***************************************************************************)
(* Facts about lists that several proofs need: pages and prefixes of a     *)
(* list, the list in ascending order of a finite set of numbers, which is  *)
(* the only ascending one of that set, the sorted list of numbers that may *)
(* occur more than once, and what holds at every stage of a loop.          *)
(***************************************************************************)
EXTENDS Order, Sequences, SequencesExt, FunctionTheorems, FiniteSetTheorems,
        SequenceTheorems, WellFoundedInduction, TLAPS

Increasing(s) == \A i, j \in DOMAIN s : i < j => s[i] < s[j]

(* Of two numbers Min takes the lesser. *)
LEMMA MinOfTwo ==
    ASSUME NEW a \in Nat, NEW b \in Nat
    PROVE  Min({a, b}) = IF a <= b THEN a ELSE b
BY DEF Min

(* A slice of a sequence, whether empty or not. *)
LEMMA Slice ==
    ASSUME NEW S, NEW s \in Seq(S), NEW m \in Nat, NEW e \in Nat, m <= e, e <= Len(s)
    PROVE  /\ SubSeq(s, m + 1, e) \in Seq(S)
           /\ Len(SubSeq(s, m + 1, e)) = e - m
           /\ \A i \in 1..(e - m) : SubSeq(s, m + 1, e)[i] = s[m + i]
<1>1. \A i \in (m + 1)..e : s[i] \in S
  BY ElementOfSeq
<1>2. /\ SubSeq(s, m + 1, e) \in Seq(S)
      /\ Len(SubSeq(s, m + 1, e)) = IF m + 1 <= e THEN e - (m + 1) + 1 ELSE 0
      /\ \A i \in 1..(e - (m + 1) + 1) : SubSeq(s, m + 1, e)[i] = s[m + 1 + i - 1]
  <2>1. m + 1 \in Int /\ e \in Int
    OBVIOUS
  <2> QED
    BY <1>1, <2>1, SubSeqProperties
<1>3. e - (m + 1) + 1 = e - m /\ (IF m + 1 <= e THEN e - (m + 1) + 1 ELSE 0) = e - m
  OBVIOUS
<1>4. \A i \in 1..(e - m) : m + 1 + i - 1 = m + i
  OBVIOUS
<1> QED
  BY <1>2, <1>3, <1>4, Zenon

(* A function on 1..n is a sequence of length n. *)
LEMMA FunctionsAreSequences ==
    ASSUME NEW S, NEW n \in Nat, NEW f \in [1..n -> S]
    PROVE  Len(f) = n /\ f \in Seq(S)
OBVIOUS

(* A prefix agrees at every position it has. *)
LEMMA PrefixIs ==
    ASSUME NEW S, NEW s \in Seq(S), NEW t \in Seq(S)
    PROVE  IsPrefix(s, t) <=> Len(s) <= Len(t) /\ \A i \in 1..Len(s) : s[i] = t[i]
<1> SUFFICES ASSUME Len(s) <= Len(t)
             PROVE  SubSeq(s, 1, Len(s)) = SubSeq(t, 1, Len(s)) <=> \A i \in 1..Len(s) : s[i] = t[i]
  BY DEF IsPrefix
<1> DEFINE a == SubSeq(s, 1, Len(s))
           b == SubSeq(t, 1, Len(s))
<1>1. /\ a \in Seq(S) /\ Len(a) = Len(s) /\ \A i \in 1..Len(s) : a[i] = s[i]
      /\ b \in Seq(S) /\ Len(b) = Len(s) /\ \A i \in 1..Len(s) : b[i] = t[i]
  <2>1. Len(s) \in Nat /\ Len(t) \in Nat /\ 0 + 1 = 1 /\ Len(s) - 0 = Len(s)
        /\ \A i \in 1..Len(s) : 0 + i = i
    OBVIOUS
  <2>2. /\ SubSeq(s, 0 + 1, Len(s)) \in Seq(S) /\ Len(SubSeq(s, 0 + 1, Len(s))) = Len(s) - 0
        /\ \A i \in 1..(Len(s) - 0) : SubSeq(s, 0 + 1, Len(s))[i] = s[0 + i]
    BY <2>1, Slice
  <2>3. /\ SubSeq(t, 0 + 1, Len(s)) \in Seq(S) /\ Len(SubSeq(t, 0 + 1, Len(s))) = Len(s) - 0
        /\ \A i \in 1..(Len(s) - 0) : SubSeq(t, 0 + 1, Len(s))[i] = t[0 + i]
    BY <2>1, Slice
  <2> QED
    BY <2>1, <2>2, <2>3, Zenon
<1> HIDE DEF a, b
<1>2. a = b <=> \A i \in 1..Len(s) : a[i] = b[i]
  BY <1>1, SeqEqual
<1> QED
  BY <1>1, <1>2 DEF a, b

(* Every list begins as the empty one. *)
LEMMA EmptyBegins == ASSUME NEW S, NEW s \in Seq(S) PROVE IsPrefix(<<>>, s)
<1>1. ASSUME NEW e \in Seq(S), Len(e) = 0 PROVE IsPrefix(e, s)
  <2>1. Len(s) \in Nat /\ 1..Len(e) = {}
    BY <1>1
  <2>2. Len(e) <= Len(s) /\ \A i \in 1..Len(e) : e[i] = s[i]
    BY <1>1, <2>1
  <2> QED
    BY <2>2, PrefixIs
<1>2. <<>> \in Seq(S) /\ Len(<<>>) = 0
  OBVIOUS
<1> QED
  BY <1>1, <1>2

\* The part of a list after its first m, at most n long, cut where the list ends.
PageAt(all, m, n) ==
    LET from == Min({m, Len(all)})
    IN  SubSeq(all, from + 1, Min({from + n, Len(all)}))

(* A page goes on where the first m end, and is empty only behind the end of the list. *)
LEMMA PageIs ==
    ASSUME NEW S, NEW all \in Seq(S), NEW m \in Nat, m <= Len(all), NEW n \in Nat \ {0}
    PROVE  /\ PageAt(all, m, n) \in Seq(S)
           /\ m + Len(PageAt(all, m, n)) <= Len(all)
           /\ \A i \in 1..Len(PageAt(all, m, n)) : PageAt(all, m, n)[i] = all[m + i]
           /\ PageAt(all, m, n) = <<>> => m = Len(all)
<1> DEFINE from == Min({m, Len(all)})
           page == PageAt(all, m, n)
<1>1. Len(all) \in Nat
  OBVIOUS
<1>2. from = m /\ from \in Nat /\ from + n \in Nat
  BY <1>1, MinOfTwo
<1> DEFINE e == Min({from + n, Len(all)})
<1>3. e = IF from + n <= Len(all) THEN from + n ELSE Len(all)
  BY <1>1, <1>2, MinOfTwo, Zenon
<1>4. page = SubSeq(all, from + 1, e)
  BY DEF PageAt
<1> HIDE DEF e, from, page
<1>5. e \in Nat /\ from <= e /\ e <= Len(all) /\ (e = from => from = Len(all))
  BY <1>1, <1>2, <1>3
<1>6. page \in Seq(S) /\ Len(page) = e - from /\ \A i \in 1..(e - from) : page[i] = all[from + i]
  <2>1. /\ SubSeq(all, from + 1, e) \in Seq(S)
        /\ Len(SubSeq(all, from + 1, e)) = e - from
        /\ \A i \in 1..(e - from) : SubSeq(all, from + 1, e)[i] = all[from + i]
    BY <1>2, <1>5, Slice
  <2> QED
    BY <2>1, <1>4, Zenon
<1>7. page = <<>> => Len(page) = 0
  OBVIOUS
<1>8. from + (e - from) <= Len(all) /\ (e - from = 0 => from = Len(all))
  BY <1>1, <1>2, <1>5
<1>9. /\ page \in Seq(S)
      /\ m + Len(page) <= Len(all)
      /\ \A i \in 1..Len(page) : page[i] = all[m + i]
      /\ page = <<>> => m = Len(all)
  BY <1>2, <1>6, <1>7, <1>8, Zenon
<1> QED
  BY <1>9, Zenon DEF page

(* The first of a list and a page after them are again the first of it. *)
LEMMA PageExtendsPrefix ==
    ASSUME NEW S, NEW s \in Seq(S), NEW all \in Seq(S), NEW n \in Nat \ {0}, IsPrefix(s, all)
    PROVE  /\ s \o PageAt(all, Len(s), n) \in Seq(S)
           /\ IsPrefix(s \o PageAt(all, Len(s), n), all)
           /\ PageAt(all, Len(s), n) = <<>> => Len(s \o PageAt(all, Len(s), n)) = Len(all)
<1> DEFINE page == PageAt(all, Len(s), n)
           t == s \o page
<1>1. Len(s) \in Nat /\ Len(all) \in Nat /\ Len(s) <= Len(all) /\ \A i \in 1..Len(s) : s[i] = all[i]
  BY PrefixIs
<1>2. /\ page \in Seq(S)
      /\ Len(s) + Len(page) <= Len(all)
      /\ \A i \in 1..Len(page) : page[i] = all[Len(s) + i]
      /\ page = <<>> => Len(s) = Len(all)
  BY <1>1, PageIs, Zenon
<1> HIDE DEF page
<1>3. Len(page) \in Nat /\ (page = <<>> => Len(page) = 0)
  BY <1>2
<1>4. /\ t \in Seq(S) /\ Len(t) = Len(s) + Len(page)
      /\ \A i \in 1..(Len(s) + Len(page)) : t[i] = IF i <= Len(s) THEN s[i] ELSE page[i - Len(s)]
  BY <1>2, ConcatProperties, Zenon
<1> HIDE DEF t
<1>5. ASSUME NEW i \in 1..Len(t) PROVE t[i] = all[i]
  <2>1. CASE i <= Len(s)
    BY <1>1, <1>3, <1>4, <2>1
  <2>2. CASE ~ (i <= Len(s))
    <3>1. i - Len(s) \in 1..Len(page) /\ Len(s) + (i - Len(s)) = i
      BY <1>1, <1>3, <1>4, <2>2
    <3> QED
      BY <1>2, <1>4, <2>2, <3>1
  <2> QED
    BY <2>1, <2>2
<1>6. Len(t) <= Len(all) /\ (page = <<>> => Len(t) = Len(all))
  BY <1>1, <1>2, <1>3, <1>4
<1>7. IsPrefix(t, all)
  BY <1>4, <1>5, <1>6, PrefixIs
<1> QED
  BY <1>4, <1>6, <1>7 DEF t, page

(* How many of S are before c: a position of its own for each. *)
LEMMA RanksAre ==
    ASSUME NEW S \in SUBSET Nat, IsFiniteSet(S)
    PROVE  LET Rank(c) == Cardinality({d \in S : d < c})
           IN  /\ Cardinality(S) \in Nat
               /\ \A c \in S : Rank(c) \in 0..(Cardinality(S) - 1)
               /\ \A c, d \in S : c < d => Rank(c) < Rank(d)
               /\ \A n \in 0..(Cardinality(S) - 1) : \E c \in S : Rank(c) = n
<1> DEFINE Before(c) == {d \in S : d < c}
           Rank(c) == Cardinality(Before(c))
<1>1. Cardinality(S) \in Nat
  BY FS_CardinalityType
<1>2. \A c \in S : IsFiniteSet(Before(c)) /\ Rank(c) \in Nat
  <2> TAKE c \in S
  <2>1. Before(c) \in SUBSET S
    OBVIOUS
  <2> QED
    BY <2>1, FS_Subset, FS_CardinalityType
<1>3. ASSUME NEW T, IsFiniteSet(T), NEW U \in SUBSET T, U # T
      PROVE  Cardinality(U) < Cardinality(T)
  BY <1>3, FS_Subset, FS_CardinalityType
<1>4. \A c \in S : Rank(c) \in 0..(Cardinality(S) - 1)
  <2> TAKE c \in S
  <2>1. Before(c) \in SUBSET S /\ Before(c) # S
    OBVIOUS
  <2>2. Rank(c) < Cardinality(S)
    BY <2>1, <1>3
  <2> QED
    BY <1>1, <1>2, <2>2
<1>5. \A c, d \in S : c < d => Rank(c) < Rank(d)
  <2> SUFFICES ASSUME NEW c \in S, NEW d \in S, c < d PROVE Rank(c) < Rank(d)
    OBVIOUS
  <2>1. c \in Before(d) /\ c \notin Before(c) /\ \A x \in Before(c) : x \in Before(d)
    OBVIOUS
  <2>2. Before(c) # Before(d) /\ Before(c) \in SUBSET Before(d) /\ IsFiniteSet(Before(d))
    BY <2>1, <1>2
  <2> QED
    BY <2>1, <2>2, <1>3
<1> HIDE DEF Rank
<1>6. \A n \in 0..(Cardinality(S) - 1) : \E c \in S : Rank(c) = n
  <2> DEFINE P == 0..(Cardinality(S) - 1)
             f == [c \in S |-> Rank(c)]
  <2>1. f \in Injection(S, P)
    <3>1. f \in [S -> P]
      BY <1>4
    <3>2. ASSUME NEW a \in S, NEW b \in S, f[a] = f[b] PROVE a = b
      <4>1. a \in Nat /\ b \in Nat /\ Rank(a) = Rank(b) /\ Rank(a) \in 0..(Cardinality(S) - 1)
        BY <1>4, <3>2
      <4>2. ~ (a < b) /\ ~ (b < a)
        BY <1>1, <1>5, <4>1
      <4> QED
        BY <4>1, <4>2
    <3> QED
      BY <3>1, <3>2 DEF Injection, IsInjective
  <2>2. IsFiniteSet(P) /\ Cardinality(P) = Cardinality(S)
    <3>1. 0 \in Int /\ Cardinality(S) - 1 \in Int
      BY <1>1
    <3>2. IsFiniteSet(P) /\ Cardinality(P) = IF 0 > Cardinality(S) - 1 THEN 0 ELSE Cardinality(S) - 1 - 0 + 1
      BY <3>1, FS_Interval
    <3> QED
      BY <1>1, <3>2
  <2> HIDE DEF P, f
  <2>3. f \in Surjection(S, P)
    BY <2>1, <2>2, FS_Injection
  <2> QED
    BY <2>3 DEF Surjection, f, P
<1> QED
  BY <1>1, <1>4, <1>5, <1>6 DEF Rank

(* The ordered list of a finite set of numbers has each of them once, ascending. *)
LEMMA OrderedIs ==
    ASSUME NEW S \in SUBSET Nat, IsFiniteSet(S)
    PROVE  /\ Ordered(S) \in Seq(S) /\ Len(Ordered(S)) = Cardinality(S)
           /\ Increasing(Ordered(S))
<1> DEFINE Rank(c) == Cardinality({d \in S : d < c})
           n == Cardinality(S)
           s == Ordered(S)
<1>1. /\ n \in Nat
      /\ \A c \in S : Rank(c) \in 0..(n - 1)
      /\ \A c, d \in S : c < d => Rank(c) < Rank(d)
      /\ \A i \in 0..(n - 1) : \E c \in S : Rank(c) = i
  BY RanksAre
<1>2. s = [i \in 1..n |-> CHOOSE c \in S : Rank(c) = i - 1]
  BY DEF Ordered
<1> HIDE DEF Rank, n, s
<1>3. \A i \in 1..n : s[i] \in S /\ Rank(s[i]) = i - 1
  <2> TAKE i \in 1..n
  <2>1. i - 1 \in 0..(n - 1)
    BY <1>1
  <2>2. \E c \in S : Rank(c) = i - 1
    BY <1>1, <2>1
  <2>3. s[i] = CHOOSE c \in S : Rank(c) = i - 1
    BY <1>2
  <2> QED
    BY <2>2, <2>3
<1>4. s \in [1..n -> S]
  BY <1>2, <1>3
<1>5. Increasing(s)
  <2> SUFFICES ASSUME NEW i \in 1..n, NEW j \in 1..n, i < j PROVE s[i] < s[j]
    BY <1>4 DEF Increasing
  <2>1. s[i] \in Nat /\ s[j] \in Nat /\ Rank(s[i]) = i - 1 /\ Rank(s[j]) = j - 1
    BY <1>3
  <2>2. ~ (s[j] < s[i]) /\ s[i] # s[j]
    BY <1>1, <1>3, <2>1
  <2> QED
    BY <2>1, <2>2
<1> QED
  BY <1>1, <1>4, <1>5, FunctionsAreSequences DEF s, n

(* A list of numbers that ascends is the ordered list of what it has. *)
LEMMA IncreasingIsOrdered ==
    ASSUME NEW s \in Seq(Nat), Increasing(s)
    PROVE  /\ IsFiniteSet(Range(s)) /\ Range(s) \in SUBSET Nat
           /\ Cardinality(Range(s)) = Len(s) /\ Ordered(Range(s)) = s
<1> DEFINE S == Range(s)
           n == Len(s)
           Rank(c) == Cardinality({d \in S : d < c})
<1>1. n \in Nat /\ s \in [1..n -> Nat] /\ S = {s[i] : i \in 1..n} /\ S \in SUBSET Nat
  BY DEF Range
<1>2. \A i, j \in 1..n : i < j <=> s[i] < s[j]
  BY <1>1 DEF Increasing
<1>3. ASSUME NEW m \in 0..n
      PROVE  IsFiniteSet({s[i] : i \in 1..m}) /\ Cardinality({s[i] : i \in 1..m}) = m
  <2> DEFINE T == {s[i] : i \in 1..m}
             f == [i \in 1..m |-> s[i]]
  <2>1. f \in Bijection(1..m, T)
    BY <1>1, <1>2 DEF Bijection, Injection, Surjection, IsInjective
  <2>2. ExistsBijection(1..m, T)
    BY <2>1 DEF ExistsBijection
  <2>3. IsFiniteSet(1..m) /\ Cardinality(1..m) = m
    BY <1>1, FS_Interval
  <2> QED
    BY <2>2, <2>3, FS_Bijection
<1>4. IsFiniteSet(S) /\ Cardinality(S) = n
  <2>1. n \in 0..n
    BY <1>1
  <2> QED
    BY <1>1, <1>3, <2>1
<1>5. ASSUME NEW i \in 1..n PROVE Rank(s[i]) = i - 1
  <2>1. {d \in S : d < s[i]} = {s[j] : j \in 1..(i - 1)}
    BY <1>1, <1>2
  <2>2. i - 1 \in 0..n
    BY <1>1
  <2> QED
    BY <1>3, <2>1, <2>2
<1>6. Ordered(S) = [i \in 1..n |-> CHOOSE c \in S : Rank(c) = i - 1]
  BY <1>4 DEF Ordered
<1> HIDE DEF S, n, Rank
<1>7. ASSUME NEW i \in 1..n PROVE (CHOOSE c \in S : Rank(c) = i - 1) = s[i]
  <2>1. s[i] \in S /\ Rank(s[i]) = i - 1
    BY <1>1, <1>5
  <2>2. \A c \in S : Rank(c) = i - 1 => c = s[i]
    <3> SUFFICES ASSUME NEW j \in 1..n, Rank(s[j]) = i - 1 PROVE s[j] = s[i]
      BY <1>1
    <3>1. j = i
      BY <1>1, <1>5
    <3> QED
      BY <3>1
  <2> QED
    BY <2>1, <2>2
<1>8. [i \in 1..n |-> CHOOSE c \in S : Rank(c) = i - 1] = s
  BY <1>1, <1>7
<1> QED
  BY <1>1, <1>4, <1>6, <1>8 DEF S, n

(* A non-empty set of natural numbers has a least one. *)
LEMMA LeastIs ==
    ASSUME NEW S \in SUBSET Nat, S # {}
    PROVE  \E i \in S : \A j \in S : i <= j
<1> DEFINE R == {p \in Nat \X Nat : p[1] < p[2]}
<1>1. R = OpToRel(<, Nat)
  BY DEF OpToRel
<1>2. IsWellFoundedOn(R, Nat)
  BY <1>1, NatLessThanWellFounded, Zenon
<1> HIDE DEF R
<1>3. PICK i \in S : \A j \in S : <<j, i>> \notin R
  BY <1>2, WFMin, Zenon
<1>4. ASSUME NEW j \in S PROVE i <= j
  <2>1. <<j, i>> \in R <=> j < i
    BY DEF R
  <2>2. <<j, i>> \notin R
    BY <1>3
  <2> QED
    BY <2>1, <2>2
<1> QED
  BY <1>4

(* Counting values: no more are below a than up to a, and those are below any greater one. *)
LEMMA CountsAre ==
    ASSUME NEW D, IsFiniteSet(D), NEW f \in [D -> Nat]
    PROVE  /\ Cardinality(D) \in Nat
           /\ \A a \in Nat : Below(f, a) \in Nat /\ UpTo(f, a) \in Nat /\ UpTo(f, a) <= Cardinality(D)
           /\ \A a \in Nat : UpTo(f, a) = Below(f, a) + Cardinality({i \in D : f[i] = a})
           /\ \A a \in Nat : (\E i \in D : f[i] = a) <=> Below(f, a) < UpTo(f, a)
           /\ \A a, b \in Nat : a < b => UpTo(f, a) <= Below(f, b)
<1> DEFINE n == Cardinality(D)
<1>1. n \in Nat
  BY FS_CardinalityType
<1>2. ASSUME NEW T \in SUBSET D PROVE IsFiniteSet(T) /\ Cardinality(T) \in 0..n
  BY <1>1, FS_Subset, FS_CardinalityType
<1>3. ASSUME NEW a \in Nat
      PROVE  /\ Below(f, a) \in Nat /\ UpTo(f, a) \in Nat /\ UpTo(f, a) <= n
             /\ UpTo(f, a) = Below(f, a) + Cardinality({i \in D : f[i] = a})
             /\ ((\E i \in D : f[i] = a) <=> Below(f, a) < UpTo(f, a))
  <2> DEFINE L == {i \in D : f[i] < a}
             E == {i \in D : f[i] = a}
             U == {i \in D : f[i] <= a}
  <2>1. L \in SUBSET D /\ E \in SUBSET D /\ U \in SUBSET D /\ U = L \cup E /\ L \cap E = {}
    OBVIOUS
  <2>2. Below(f, a) = Cardinality(L) /\ UpTo(f, a) = Cardinality(U)
    BY DEF Below, UpTo
  <2>3. (\E i \in D : f[i] = a) <=> E # {}
    OBVIOUS
  <2> HIDE DEF L, E, U
  <2>4. IsFiniteSet(L) /\ IsFiniteSet(E)
        /\ Cardinality(L) \in 0..n /\ Cardinality(E) \in 0..n /\ Cardinality(U) \in 0..n
    BY <1>2, <2>1
  <2>5. Cardinality(L \cup E) = Cardinality(L) + Cardinality(E) - Cardinality(L \cap E)
    BY <2>4, FS_Union
  <2>6. Cardinality({}) = 0 /\ (Cardinality(E) = 0 <=> E = {})
    BY <2>4, FS_EmptySet
  <2>7. Cardinality(U) = Cardinality(L) + Cardinality(E)
    BY <1>1, <2>1, <2>4, <2>5, <2>6
  <2>8. E # {} <=> Cardinality(L) < Cardinality(U)
    BY <1>1, <2>4, <2>6, <2>7
  <2> QED
    BY <2>2, <2>3, <2>4, <2>7, <2>8 DEF E
<1>4. ASSUME NEW a \in Nat, NEW b \in Nat, a < b PROVE UpTo(f, a) <= Below(f, b)
  <2>1. {i \in D : f[i] <= a} \in SUBSET {i \in D : f[i] < b}
    BY <1>4
  <2>2. IsFiniteSet({i \in D : f[i] < b})
    BY <1>2
  <2> QED
    BY <2>1, <2>2, FS_Subset DEF Below, UpTo
<1> QED
  BY <1>1, <1>3, <1>4

(* At each position of the sorted list stands the value that belongs there. *)
LEMMA SortedIs ==
    ASSUME NEW D, IsFiniteSet(D), NEW f \in [D -> Nat]
    PROVE  /\ Sorted(f) \in Seq(Nat) /\ Len(Sorted(f)) = Cardinality(D)
           /\ \A k \in 1..Cardinality(D) :
                /\ Sorted(f)[k] \in Nat
                /\ Below(f, Sorted(f)[k]) < k /\ k <= UpTo(f, Sorted(f)[k])
<1> DEFINE n == Cardinality(D)
           V == {f[i] : i \in D}
<1>1. /\ n \in Nat
      /\ \A a \in Nat : Below(f, a) \in Nat /\ UpTo(f, a) \in Nat /\ UpTo(f, a) <= n
  BY CountsAre
<1>2. \A a \in Nat : (\E i \in D : f[i] = a) <=> Below(f, a) < UpTo(f, a)
  BY CountsAre
<1>3. \A a, b \in Nat : a < b => UpTo(f, a) <= Below(f, b)
  BY CountsAre
<1>4. \E a \in Nat : UpTo(f, a) = n
  <2> DEFINE S == {n - UpTo(f, a) : a \in Nat}
  <2>1. S \in SUBSET Nat /\ S # {}
    <3>1. \A a \in Nat : n - UpTo(f, a) \in Nat
      BY <1>1
    <3>2. 0 \in Nat
      OBVIOUS
    <3> QED
      BY <3>1, <3>2, Zenon
  <2>2. PICK d \in S : \A e \in S : d <= e
    BY <2>1, LeastIs, Zenon
  <2>3. PICK a \in Nat : d = n - UpTo(f, a)
    BY <2>2
  <2>4. \A i \in D : f[i] <= a
    <3> SUFFICES ASSUME NEW i \in D, ~ (f[i] <= a) PROVE FALSE
      OBVIOUS
    <3>1. f[i] \in Nat /\ a < f[i]
      OBVIOUS
    <3>2. UpTo(f, a) <= Below(f, f[i]) /\ Below(f, f[i]) < UpTo(f, f[i])
      BY <1>2, <1>3, <3>1
    <3>3. d <= n - UpTo(f, f[i])
      BY <2>2, <3>1
    <3>4. UpTo(f, a) \in Nat /\ Below(f, f[i]) \in Nat /\ UpTo(f, f[i]) \in Nat
      BY <1>1, <3>1
    <3> QED
      BY <1>1, <2>3, <3>2, <3>3, <3>4
  <2>5. {i \in D : f[i] <= a} = D
    BY <2>4
  <2> QED
    BY <2>5 DEF UpTo
<1>5. ASSUME NEW k \in 1..n PROVE \E a \in V : Below(f, a) < k /\ k <= UpTo(f, a)
  <2> DEFINE S == {a \in Nat : k <= UpTo(f, a)}
  <2>1. S \in SUBSET Nat /\ S # {}
    BY <1>1, <1>4
  <2>2. PICK a \in S : \A b \in S : a <= b
    BY <2>1, LeastIs, Zenon
  <2>3. Below(f, a) < k
    <3>1. CASE a = 0
      <4>1. {i \in D : f[i] < a} = {}
        BY <3>1
      <4>2. Below(f, a) = 0
        BY <4>1, FS_EmptySet DEF Below
      <4> QED
        BY <4>2
    <3>2. CASE a # 0
      <4>1. a - 1 \in Nat /\ ~ (k <= UpTo(f, a - 1))
        BY <2>2, <3>2
      <4>2. {i \in D : f[i] < a} = {i \in D : f[i] <= a - 1}
        BY <4>1
      <4>3. Below(f, a) = UpTo(f, a - 1)
        BY <4>2 DEF Below, UpTo
      <4>4. UpTo(f, a - 1) \in Nat
        BY <1>1, <4>1
      <4> QED
        BY <4>1, <4>3, <4>4
    <3> QED
      BY <3>1, <3>2
  <2>4. k <= UpTo(f, a) /\ a \in Nat
    BY <2>2
  <2>5. Below(f, a) < UpTo(f, a)
    <3>1. Below(f, a) \in Nat /\ UpTo(f, a) \in Nat /\ k \in Nat
      BY <1>1, <2>4
    <3> QED
      BY <2>3, <2>4, <3>1
  <2>6. a \in V
    BY <1>2, <2>4, <2>5
  <2> QED
    BY <2>3, <2>4, <2>6
<1>6. Sorted(f) = [k \in 1..n |-> CHOOSE a \in V : Below(f, a) < k /\ k <= UpTo(f, a)]
  BY DEF Sorted
<1>7. V \in SUBSET Nat
  OBVIOUS
<1> HIDE DEF V, n
<1>8. \A k \in 1..n : /\ Sorted(f)[k] \in V
                     /\ Below(f, Sorted(f)[k]) < k /\ k <= UpTo(f, Sorted(f)[k])
  BY <1>5, <1>6
<1>9. Sorted(f) \in [1..n -> Nat]
  BY <1>6, <1>7, <1>8
<1> QED
  BY <1>1, <1>7, <1>8, <1>9, FunctionsAreSequences DEF n

(* Every stage of a loop is in its set when each step leads from one set into the next. *)
LEMMA StagesStay ==
    ASSUME NEW n \in Nat, NEW S, NEW f, f[0] \in S[0],
           \A k \in 1..n : f[k - 1] \in S[k - 1] => f[k] \in S[k]
    PROVE  \A k \in 0..n : f[k] \in S[k]
<1> DEFINE Bad == {k \in Nat : k <= n /\ f[k] \notin S[k]}
<1>1. Bad = {}
  <2> SUFFICES ASSUME Bad # {} PROVE FALSE
    OBVIOUS
  <2>1. PICK i \in Bad : \A j \in Bad : i <= j
    BY LeastIs
  <2>2. i \in Nat /\ i <= n /\ f[i] \notin S[i] /\ i # 0
    BY <2>1
  <2>3. i \in 1..n /\ i - 1 \in Nat /\ i - 1 <= n /\ ~(i <= i - 1)
    BY <2>2
  <2>4. i - 1 \notin Bad
    BY <2>1, <2>3
  <2> QED
    BY <2>2, <2>3, <2>4
<1> QED
  BY <1>1

\* Each step of G leads from its set into the next one, and s is in the first.
Leads(n, s, G, S) == s \in S[0] /\ \A k \in 1..n : \A x \in S[k - 1] : G[k][x] \in S[k]

\* The stages of the loop from s on.
Stages(f, n, s, G, S) ==
    /\ f[0] = s /\ \A k \in 1..n : f[k] = G[k][f[k - 1]]
    /\ \A k \in 0..n : f[k] \in S[k]

(* A loop over 1..n whose steps lead from each set into the next has a result for each step. *)
LEMMA StagesAre ==
    ASSUME NEW n \in Nat, NEW S, NEW s, NEW G, Leads(n, s, G, S)
    PROVE  \E f : Stages(f, n, s, G, S)
<1> DEFINE Runs(m) == \E f : /\ DOMAIN f = 0..m /\ f[0] = s
                             /\ \A k \in 1..m : f[k] = G[k][f[k - 1]]
           Bad == {m \in Nat : m <= n /\ ~Runs(m)}
<1>0. Runs(0)
  <2>1. 1..0 = {}
    OBVIOUS
  <2> WITNESS [k \in 0..0 |-> s]
  <2> QED
    BY <2>1
<1>1. ASSUME NEW m \in Nat, Runs(m) PROVE Runs(m + 1)
  <2>1. PICK f : /\ DOMAIN f = 0..m /\ f[0] = s
                 /\ \A k \in 1..m : f[k] = G[k][f[k - 1]]
    BY <1>1
  <2> DEFINE g == [k \in 0..(m + 1) |-> IF k = m + 1 THEN G[k][f[k - 1]] ELSE f[k]]
  <2>2. DOMAIN g = 0..(m + 1) /\ g[0] = s
    BY <2>1
  <2>3. ASSUME NEW k \in 1..(m + 1) PROVE g[k] = G[k][g[k - 1]]
    <3>1. k \in 0..(m + 1) /\ k - 1 \in 0..(m + 1) /\ k - 1 # m + 1 /\ (k # m + 1 => k \in 1..m)
      OBVIOUS
    <3>2. g[k - 1] = f[k - 1]
      BY <3>1
    <3>3. CASE k = m + 1
      BY <3>1, <3>2, <3>3
    <3>4. CASE k # m + 1
      BY <3>1, <3>2, <3>4, <2>1
    <3> QED
      BY <3>3, <3>4
  <2> HIDE DEF g
  <2> QED
    BY <2>2, <2>3
<1>2. Runs(n)
  <2> HIDE DEF Runs
  <2> SUFFICES ASSUME Bad # {} PROVE FALSE
    OBVIOUS
  <2>1. PICK i \in Bad : \A j \in Bad : i <= j
    BY LeastIs
  <2>2. i \in Nat /\ i <= n /\ ~Runs(i) /\ i # 0
    BY <2>1, <1>0
  <2>3. i - 1 \in Nat /\ i - 1 <= n /\ ~(i <= i - 1) /\ (i - 1) + 1 = i
    BY <2>2
  <2>4. Runs(i - 1)
    BY <2>1, <2>3
  <2>5. Runs((i - 1) + 1)
    BY <2>3, <2>4, <1>1
  <2> QED
    BY <2>2, <2>3, <2>5
<1>3. PICK f : /\ DOMAIN f = 0..n /\ f[0] = s
               /\ \A k \in 1..n : f[k] = G[k][f[k - 1]]
  BY <1>2
<1>4. f[0] \in S[0] /\ \A k \in 1..n : f[k - 1] \in S[k - 1] => f[k] \in S[k]
  BY <1>3 DEF Leads
<1>5. \A k \in 0..n : f[k] \in S[k]
  BY <1>4, StagesStay
<1>6. Stages(f, n, s, G, S)
  BY <1>3, <1>5 DEF Stages
<1> QED
  BY <1>6

\* R is a strict total order of S, a set of pairs.
Orders(R, S) ==
    /\ \A c \in S : <<c, c>> \notin R
    /\ \A c, d \in S : c = d \/ <<c, d>> \in R \/ <<d, c>> \in R
    /\ \A c, d, e \in S : <<c, d>> \in R /\ <<d, e>> \in R => <<c, e>> \in R

\* The list of S in the order of R.
ListOf(S, R) == [i \in 1..Cardinality(S) |-> CHOOSE c \in S : Cardinality({d \in S : <<d, c>> \in R}) = i - 1]

\* s has each member of S once, in the order of R.
ListsOnce(s, S, R) ==
    /\ Cardinality(S) \in Nat /\ s \in Seq(S) /\ Len(s) = Cardinality(S)
    /\ \A i \in 1..Cardinality(S) : s[i] \in S
    /\ \A i, j \in 1..Cardinality(S) : i < j => <<s[i], s[j]>> \in R
    /\ \A c \in S : \E i \in 1..Cardinality(S) : s[i] = c

(* The list of a finite set in an order has each member once, in that order. *)
LEMMA ListIs ==
    ASSUME NEW S, IsFiniteSet(S), NEW R, Orders(R, S)
    PROVE  ListsOnce(ListOf(S, R), S, R)
<1> DEFINE Before(c) == {d \in S : <<d, c>> \in R}
           Rank(c) == Cardinality(Before(c))
           n == Cardinality(S)
           s == ListOf(S, R)
<1>1. n \in Nat
  BY FS_CardinalityType
<1>2. \A c \in S : IsFiniteSet(Before(c)) /\ Rank(c) \in Nat
  <2> TAKE c \in S
  <2>1. Before(c) \in SUBSET S
    OBVIOUS
  <2> QED
    BY <2>1, FS_Subset, FS_CardinalityType
<1>3. ASSUME NEW T, IsFiniteSet(T), NEW U \in SUBSET T, U # T
      PROVE  Cardinality(U) < Cardinality(T)
  BY <1>3, FS_Subset, FS_CardinalityType
<1>4. \A c \in S : Rank(c) \in 0..(n - 1)
  <2> TAKE c \in S
  <2>1. Before(c) \in SUBSET S /\ Before(c) # S
    BY DEF Orders
  <2>2. Rank(c) < n
    BY <2>1, <1>3
  <2> QED
    BY <1>1, <1>2, <2>2
<1>5. \A c, d \in S : <<c, d>> \in R => Rank(c) < Rank(d)
  <2> SUFFICES ASSUME NEW c \in S, NEW d \in S, <<c, d>> \in R PROVE Rank(c) < Rank(d)
    OBVIOUS
  <2>1. c \in Before(d) /\ c \notin Before(c) /\ \A x \in Before(c) : x \in Before(d)
    BY DEF Orders
  <2>2. Before(c) # Before(d) /\ Before(c) \in SUBSET Before(d) /\ IsFiniteSet(Before(d))
    BY <2>1, <1>2
  <2> QED
    BY <2>1, <2>2, <1>3
<1>6. s = [i \in 1..n |-> CHOOSE c \in S : Rank(c) = i - 1]
  BY DEF ListOf
<1> HIDE DEF Rank, n, s
<1>7. \A c, d \in S : Rank(c) = Rank(d) => c = d
  <2> SUFFICES ASSUME NEW c \in S, NEW d \in S, Rank(c) = Rank(d), c # d PROVE FALSE
    OBVIOUS
  <2>1. <<c, d>> \in R \/ <<d, c>> \in R
    BY DEF Orders
  <2>2. Rank(c) < Rank(d) \/ Rank(d) < Rank(c)
    BY <2>1, <1>5
  <2>3. Rank(c) \in Nat /\ Rank(d) \in Nat
    BY <1>2
  <2> QED
    BY <2>2, <2>3
<1>8. \A i \in 0..(n - 1) : \E c \in S : Rank(c) = i
  <2> DEFINE P == 0..(n - 1)
             f == [c \in S |-> Rank(c)]
  <2>1. f \in Injection(S, P)
    BY <1>4, <1>7 DEF Injection, IsInjective
  <2>2. IsFiniteSet(P) /\ Cardinality(P) = n
    <3>1. 0 \in Int /\ n - 1 \in Int
      BY <1>1
    <3>2. IsFiniteSet(P) /\ Cardinality(P) = IF 0 > n - 1 THEN 0 ELSE n - 1 - 0 + 1
      BY <3>1, FS_Interval
    <3> QED
      BY <1>1, <3>2
  <2>3. Cardinality(S) = n
    BY DEF n
  <2> HIDE DEF P, f
  <2>4. f \in Surjection(S, P)
    BY <2>1, <2>2, <2>3, FS_Injection
  <2> QED
    BY <2>4 DEF Surjection, f, P
<1>9. \A i \in 1..n : s[i] \in S /\ Rank(s[i]) = i - 1
  <2> TAKE i \in 1..n
  <2>1. i - 1 \in 0..(n - 1)
    BY <1>1
  <2>2. \E c \in S : Rank(c) = i - 1
    BY <1>8, <2>1
  <2>3. s[i] = CHOOSE c \in S : Rank(c) = i - 1
    BY <1>6
  <2> QED
    BY <2>2, <2>3
<1>10. s \in [1..n -> S]
  BY <1>6, <1>9
<1>11. \A i, j \in 1..n : i < j => <<s[i], s[j]>> \in R
  <2> SUFFICES ASSUME NEW i \in 1..n, NEW j \in 1..n, i < j PROVE <<s[i], s[j]>> \in R
    OBVIOUS
  <2>1. s[i] \in S /\ s[j] \in S /\ Rank(s[i]) = i - 1 /\ Rank(s[j]) = j - 1
    BY <1>9
  <2>2. s[i] # s[j] /\ ~ (Rank(s[j]) < Rank(s[i]))
    BY <2>1, <1>1
  <2>3. <<s[j], s[i]>> \notin R
    BY <2>1, <2>2, <1>5
  <2> QED
    BY <2>1, <2>2, <2>3 DEF Orders
<1>12. \A c \in S : \E i \in 1..n : s[i] = c
  <2> TAKE c \in S
  <2>1. Rank(c) + 1 \in 1..n /\ (Rank(c) + 1) - 1 = Rank(c)
    BY <1>1, <1>4
  <2>2. s[Rank(c) + 1] \in S /\ Rank(s[Rank(c) + 1]) = Rank(c)
    BY <2>1, <1>9
  <2> QED
    BY <2>1, <2>2, <1>7
<1>13. s \in Seq(S) /\ Len(s) = n
  BY <1>1, <1>10, FunctionsAreSequences
<1>14. ListsOnce(s, S, R)
  BY <1>1, <1>9, <1>11, <1>12, <1>13 DEF n, ListsOnce
<1> QED
  BY <1>14 DEF s

(* The ordered list of a finite set of numbers has each of them.                          *)
LEMMA OrderedHas ==
    ASSUME NEW S \in SUBSET Nat, IsFiniteSet(S)
    PROVE  \A a \in S : \E i \in 1 .. Len(Ordered(S)) : Ordered(S)[i] = a
<1> DEFINE s == Ordered(S)
<1>1. s \in Seq(S) /\ Len(s) = Cardinality(S) /\ Increasing(s)
  BY OrderedIs
<1> HIDE DEF s
<1>2. s \in Seq(Nat)
  <2>1. \A i \in 1 .. Len(s) : s[i] \in S
    BY <1>1, ElementOfSeq
  <2>2. \A i \in 1 .. Len(s) : s[i] \in Nat
    BY <2>1
  <2>3. Len(s) \in Nat /\ DOMAIN s = 1 .. Len(s) /\ s = [i \in 1 .. Len(s) |-> s[i]]
    BY <1>1
  <2>4. s \in [1 .. Len(s) -> Nat]
    BY <2>2, <2>3
  <2> QED
    BY <2>3, <2>4, FunctionsAreSequences
<1>3. Cardinality(Range(s)) = Len(s)
  BY <1>1, <1>2, IncreasingIsOrdered
<1>4. Range(s) = {s[i] : i \in 1 .. Len(s)}
  BY <1>1 DEF Range
<1>5. Range(s) \in SUBSET S
  BY <1>1, <1>4, ElementOfSeq
<1>6. Range(s) = S
  BY <1>1, <1>3, <1>5, FS_Subset
<1>7. \A a \in S : \E i \in 1 .. Len(s) : s[i] = a
  BY <1>4, <1>6
<1> QED
  BY <1>7 DEF s

\* x comes before y in the first n of some lists.
InTurn(x, y, lists, n) ==
    \E k, l \in 1 .. n : \E m \in 1 .. Len(lists[k]) : \E o \in 1 .. Len(lists[l]) :
        /\ x = lists[k][m] /\ y = lists[l][o]
        /\ k < l \/ (k = l /\ m < o)

\* all is the first n of some lists, one after the other.
Joins(all, lists, n, T) ==
    /\ all \in Seq(T)
    /\ \A i \in 1 .. Len(all) : \E k \in 1 .. n : \E m \in 1 .. Len(lists[k]) : all[i] = lists[k][m]
    /\ \A k \in 1 .. n : \A m \in 1 .. Len(lists[k]) : \E i \in 1 .. Len(all) : all[i] = lists[k][m]
    /\ \A i, j \in 1 .. Len(all) : i < j => InTurn(all[i], all[j], lists, n)

(* The elements of joined lists come in turn. *)
LEMMA JoinsInTurn ==
    ASSUME NEW all, NEW lists, NEW n, NEW T, Joins(all, lists, n, T),
           NEW i \in 1 .. Len(all), NEW j \in 1 .. Len(all), i < j
    PROVE  InTurn(all[i], all[j], lists, n)
BY DEF Joins

(* One list more at the end. *)
LEMMA JoinsOn ==
    ASSUME NEW T, NEW n \in Nat, NEW lists, NEW k \in 1 .. n, lists[k] \in Seq(T), NEW all, Joins(all, lists, k - 1, T)
    PROVE  Joins(all \o lists[k], lists, k, T)
<1> DEFINE h == lists[k]
           new == all \o h
           p == Len(all)
           q == Len(h)
<1>1. all \in Seq(T) /\ h \in Seq(T) /\ p \in Nat /\ q \in Nat /\ k \in Nat
  BY DEF Joins
<1>2. /\ new \in Seq(T) /\ Len(new) = p + q
      /\ \A i \in 1 .. p : new[i] = all[i] /\ i \in 1 .. Len(new)
      /\ \A i \in 1 .. q : new[p + i] = h[i] /\ p + i \in 1 .. Len(new)
      /\ \A i \in 1 .. Len(new) : i \in 1 .. p \/ (i - p \in 1 .. q /\ new[i] = h[i - p])
  BY <1>1
<1>3. \A x \in 1 .. (k - 1) : x \in 1 .. k /\ x < k
  BY <1>1
<1>4. k \in 1 .. k
  BY <1>1
<1> HIDE DEF new, p
<1>5. ASSUME NEW i \in 1 .. Len(new)
      PROVE  \E l \in 1 .. k : \E m \in 1 .. Len(lists[l]) : new[i] = lists[l][m]
  <2>1. CASE i \in 1 .. p
    <3>1. PICK l \in 1 .. (k - 1) : \E m \in 1 .. Len(lists[l]) : all[i] = lists[l][m]
      BY <2>1 DEF Joins, p
    <3> QED
      BY <1>2, <1>3, <2>1, <3>1
  <2>2. CASE i - p \in 1 .. q /\ new[i] = h[i - p]
    BY <1>4, <2>2
  <2> QED
    BY <1>2, <2>1, <2>2
<1>6. ASSUME NEW l \in 1 .. k, NEW m \in 1 .. Len(lists[l])
      PROVE  \E i \in 1 .. Len(new) : new[i] = lists[l][m]
  <2>1. CASE l = k
    BY <1>2, <2>1
  <2>2. CASE l # k
    <3>1. l \in 1 .. (k - 1)
      BY <1>1, <2>2
    <3>2. PICK i \in 1 .. p : all[i] = lists[l][m]
      BY <3>1 DEF Joins, p
    <3> QED
      BY <1>2, <3>2
  <2> QED
    BY <2>1, <2>2
<1>7. ASSUME NEW i \in 1 .. Len(new), NEW j \in 1 .. Len(new), i < j
      PROVE  InTurn(new[i], new[j], lists, k)
  <2>1. CASE i \in 1 .. p /\ j \in 1 .. p
    <3>0. InTurn(all[i], all[j], lists, k - 1)
      <4>1. i \in 1 .. Len(all) /\ j \in 1 .. Len(all)
        BY <2>1 DEF p
      <4> QED
        BY <1>7, <4>1, JoinsInTurn
    <3>1. PICK x, y \in 1 .. (k - 1) : \E m \in 1 .. Len(lists[x]) : \E o \in 1 .. Len(lists[y]) :
             /\ all[i] = lists[x][m] /\ all[j] = lists[y][o]
             /\ x < y \/ (x = y /\ m < o)
      BY <3>0 DEF InTurn
    <3>2. new[i] = all[i] /\ new[j] = all[j]
      BY <1>2, <2>1
    <3>3. x \in 1 .. k /\ y \in 1 .. k
      BY <1>3
    <3> QED
      BY <3>1, <3>2, <3>3 DEF InTurn
  <2>2. CASE i \in 1 .. p /\ j - p \in 1 .. q /\ new[j] = h[j - p]
    <3>1. PICK x \in 1 .. (k - 1) : \E m \in 1 .. Len(lists[x]) : all[i] = lists[x][m]
      BY <2>2 DEF Joins, p
    <3>2. new[i] = all[i] /\ x \in 1 .. k /\ x < k
      BY <1>2, <1>3, <2>2
    <3>3. PICK m \in 1 .. Len(lists[x]) : new[i] = lists[x][m]
      BY <3>1, <3>2
    <3>4. \E o \in 1 .. Len(lists[k]) : new[j] = lists[k][o]
      BY <2>2
    <3> QED
      BY <1>4, <3>2, <3>3, <3>4 DEF InTurn
  <2>3. CASE (i - p \in 1 .. q /\ new[i] = h[i - p]) /\ (j - p \in 1 .. q /\ new[j] = h[j - p])
    <3>1. i - p < j - p
      BY <1>1, <1>7
    <3> QED
      BY <1>4, <2>3, <3>1 DEF InTurn
  <2>4. ~(j \in 1 .. p /\ ~(i \in 1 .. p))
    BY <1>1, <1>2, <1>7
  <2> QED
    BY <1>2, <2>1, <2>2, <2>3, <2>4
<1> QED
  BY <1>2, <1>5, <1>6, <1>7 DEF Joins, new

(* Lists joined are their members one list after the other. *)
LEMMA JoinedIs ==
    ASSUME NEW T, NEW lists, NEW n \in Nat, Len(lists) = n, \A k \in 1 .. n : lists[k] \in Seq(T)
    PROVE  Joins(Joined(lists), lists, n, T)
<1> DEFINE Step(list, k) == list \o lists[k]
           Is(g) == g = [k \in 0..n |-> IF k = 0 THEN <<>> ELSE Step(g[k - 1], k)]
           after == CHOOSE g : Is(g)
           First(k) == {list \in Seq(T) : Joins(list, lists, k, T)}
           S == [k \in 0..n |-> First(k)]
           G == [k \in 1..n |-> [list \in First(k - 1) |-> Step(list, k)]]
<1>1. Joined(lists) = after[n]
  BY DEF Loop, Joined
<1> HIDE DEF after
<1>2. <<>> \in First(0)
  BY DEF Joins
<1>3. ASSUME NEW k \in 1..n, NEW list \in First(k - 1) PROVE Step(list, k) \in First(k)
  <2>1. Joins(list, lists, k - 1, T)
    OBVIOUS
  <2>2. Joins(Step(list, k), lists, k, T)
    BY <2>1, JoinsOn
  <2> HIDE DEF Step
  <2> QED
    BY <2>2 DEF Joins
<1>4. \A k \in 1..n : \A x \in S[k - 1] : x \in First(k - 1) /\ G[k][x] = Step(x, k) /\ Step(x, k) \in S[k]
  <2> HIDE DEF First, Step
  <2>1. \A k \in 1..n : k - 1 \in 0..n /\ k \in 0..n
    OBVIOUS
  <2> QED
    BY <1>3, <2>1
<1>5. <<>> \in S[0] /\ S[n] = First(n)
  <2> HIDE DEF First
  <2> QED
    BY <1>2
<1> HIDE DEF First, Step, S, G
<1>6. \E g : Is(g)
  <2>1. PICK f : Stages(f, n, <<>>, G, S)
    <3>1. Leads(n, <<>>, G, S)
      BY <1>4, <1>5 DEF Leads
    <3> QED
      BY <3>1, StagesAre
  <2> DEFINE g == [k \in 0..n |-> f[k]]
  <2>2. ASSUME NEW k \in 0..n PROVE f[k] = IF k = 0 THEN <<>> ELSE Step(g[k - 1], k)
    <3>1. CASE k # 0
      <4>1. k \in 1..n /\ k - 1 \in 0..n
        BY <3>1
      <4> QED
        BY <2>1, <4>1, <1>4 DEF Stages
    <3> QED
      BY <3>1, <2>1 DEF Stages
  <2>3. Is(g)
    BY <2>2
  <2> QED
    BY <2>3
<1>7. Is(after)
  BY <1>6 DEF after
<1>8. after[0] = <<>> /\ \A k \in 1..n : after[k] = Step(after[k - 1], k)
  <2>1. 0 \in 0..n /\ \A k \in 1..n : k \in 0..n /\ k # 0
    OBVIOUS
  <2> QED
    BY <1>7, <2>1
<1>9. \A k \in 0..n : after[k] \in S[k]
  <2>1. after[0] \in S[0] /\ \A k \in 1..n : after[k - 1] \in S[k - 1] => after[k] \in S[k]
    BY <1>4, <1>5, <1>8
  <2> QED
    BY <2>1, StagesStay
<1>10. after[n] \in First(n)
  BY <1>5, <1>9
<1> QED
  BY <1>1, <1>10 DEF First

\* c is what list has at some places.
Picks(c, list, places, T) ==
    /\ c \in Seq(T) /\ Len(c) \in Nat /\ Len(c) <= Len(list)
    /\ \A i \in 1 .. Len(c) : \E p \in places : c[i] = list[p]
    /\ \A p \in places : \E i \in 1 .. Len(c) : c[i] = list[p]
    /\ \A i, j \in 1 .. Len(c) : i < j => \E p, q \in places : p < q /\ c[i] = list[p] /\ c[j] = list[q]

(* What is chosen of a list keeps its order. *)
LEMMA ChosenIs ==
    ASSUME NEW T, NEW list \in Seq(T), NEW places \in SUBSET (1 .. Len(list))
    PROVE  Picks(Chosen(list, places), list, places, T)
<1> DEFINE n == Len(list)
           f == Ordered(places)
           m == Cardinality(places)
           c == Chosen(list, places)
<1>1. n \in Nat
  OBVIOUS
<1>2. IsFiniteSet(1 .. n) /\ Cardinality(1 .. n) = n
  <2> HIDE DEF n
  <2>1. 1 \in Int /\ n \in Int
    BY <1>1
  <2> QED
    BY <1>1, <2>1, FS_Interval
<1>3. IsFiniteSet(places) /\ m \in Nat /\ m <= n
  BY <1>2, FS_Subset, FS_CardinalityType
<1>4. places \in SUBSET Nat
  BY <1>1
<1>5. f \in Seq(places) /\ Len(f) = m /\ Increasing(f) /\ \A p \in places : \E i \in 1 .. m : f[i] = p
  BY <1>3, <1>4, OrderedIs, OrderedHas
<1>6. DOMAIN f = 1 .. m /\ \A i \in 1 .. m : f[i] \in places
  BY <1>5, ElementOfSeq
<1>7. c = [i \in 1 .. m |-> list[f[i]]]
  BY DEF Chosen
<1> HIDE DEF f, m, c, n
<1>8. \A p \in places : list[p] \in T
  BY DEF n
<1>9. c \in [1 .. m -> T]
  BY <1>6, <1>7, <1>8
<1>10. c \in Seq(T) /\ Len(c) = m
  BY <1>3, <1>9, FunctionsAreSequences
<1>11. \A i \in 1 .. m : c[i] = list[f[i]]
  BY <1>7
<1>12. \A i, j \in 1 .. m : i < j => f[i] < f[j]
  BY <1>5, <1>6 DEF Increasing
<1>13. \A i, j \in 1 .. m : i < j => \E p, q \in places : p < q /\ c[i] = list[p] /\ c[j] = list[q]
  BY <1>6, <1>11, <1>12
<1>14. \A i \in 1 .. m : \E p \in places : c[i] = list[p]
  BY <1>6, <1>11
<1>15. \A p \in places : \E i \in 1 .. m : c[i] = list[p]
  BY <1>5, <1>11
<1>16. Picks(c, list, places, T)
  BY <1>3, <1>10, <1>13, <1>14, <1>15 DEF Picks, n
<1> QED
  BY <1>16 DEF c

(* What a function makes of a finite set is no more. *)
LEMMA ImageIs ==
    ASSUME NEW S, IsFiniteSet(S), NEW f, NEW T, T = {f[x] : x \in S}
    PROVE  /\ IsFiniteSet(T) /\ Cardinality(T) \in Nat /\ Cardinality(S) \in Nat
           /\ Cardinality(T) <= Cardinality(S)
<1> DEFINE g == [x \in S |-> f[x]]
<1>1. g \in [S -> T] /\ \A c \in T : \E x \in S : g[x] = c
  OBVIOUS
<1> HIDE DEF g
<1>2. g \in Surjection(S, T)
  BY <1>1 DEF Surjection
<1> QED
  BY <1>2, FS_Surjection, FS_CardinalityType

(* A list whose elements are of some kind is a list of that kind. *)
LEMMA EachOf ==
    ASSUME NEW S, NEW T, NEW s \in Seq(S), \A i \in 1 .. Len(s) : s[i] \in T
    PROVE  s \in Seq(T)
<1>1. Len(s) \in Nat /\ s \in [1 .. Len(s) -> S]
  BY LenProperties
<1>2. s \in [1 .. Len(s) -> T]
  BY <1>1
<1> QED
  BY <1>1, <1>2, FunctionsAreSequences
=============================================================================
