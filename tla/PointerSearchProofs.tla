-------------------------- MODULE PointerSearchProofs --------------------------
(***************************************************************************)
(* Proofs about the search for pointers (PointerSearch in Tools), for any  *)
(* memory, limits and way of searching.                                    *)
(*                                                                         *)
(* The search finds nothing else: first what following offsets does, then  *)
(* that the depth-first search returns nothing but chains that lead to the *)
(* target in every memory its entries are true of, and no more than the    *)
(* limit; then the invariant of all commands.                              *)
(*                                                                         *)
(* It finds everything: the slots of a chain make a row, the depth-first   *)
(* search finds the rows from their end, the search by levels those of one *)
(* more slot with every level, as the index holds all there is to know of  *)
(* the parts that were read.                                               *)
(***************************************************************************)
EXTENDS Tools, OrderProofs

\* A memory, or what a map knows of one, to follow pointers in.
Memory(m) == \A a \in DOMAIN m : a \in Int /\ m[a] \in Int

\* The addresses that a chain of offsets passes.
Passes(at, a, offsets, m) ==
    /\ at[0] = a /\ at[Len(offsets)] = Trail(a, offsets, m)
    /\ \A k \in 1..Len(offsets) :
         at[k] = IF at[k - 1] \in DOMAIN m THEN m[at[k - 1]] + offsets[k] ELSE Absent
    /\ \A k \in 0..Len(offsets) : at[k] \in Int \cup {Absent}

(* Following offsets goes from address to address and ends where nothing is known.      *)
LEMMA TrailIs ==
    ASSUME NEW a \in Int, NEW offsets \in Seq(Int), NEW m, Memory(m)
    PROVE  \E at : Passes(at, a, offsets, m)
<1> DEFINE n == Len(offsets)
           On(x, k) == IF x \in DOMAIN m THEN m[x] + offsets[k] ELSE Absent
           Is(g) == g = [k \in 0..n |-> IF k = 0 THEN a ELSE On(g[k - 1], k)]
           at == CHOOSE g : Is(g)
           S == [k \in 0..n |-> Int \cup {Absent}]
           G == [k \in 1..n |-> [x \in Int \cup {Absent} |-> On(x, k)]]
<1>1. Trail(a, offsets, m) = at[n]
  BY DEF Trail
<1> HIDE DEF at
<1>2. n \in Nat
  OBVIOUS
<1>3. \A k \in 1..n : \A x \in S[k - 1] : G[k][x] = On(x, k) /\ On(x, k) \in S[k]
  BY DEF Memory
<1>4. a \in S[0] /\ \A k \in 0..n : S[k] = Int \cup {Absent}
  OBVIOUS
<1> HIDE DEF S, G, On, n
<1>5. \E g : Is(g)
  <2>1. PICK f : Stages(f, n, a, G, S)
    <3>1. Leads(n, a, G, S)
      BY <1>3, <1>4 DEF Leads
    <3> QED
      BY <1>2, <3>1, StagesAre, Zenon
  <2> DEFINE g == [k \in 0..n |-> f[k]]
  <2>2. ASSUME NEW k \in 0..n PROVE f[k] = IF k = 0 THEN a ELSE On(g[k - 1], k)
    <3>1. CASE k # 0
      <4>1. k \in 1..n /\ k - 1 \in 0..n
        BY <3>1, <1>2
      <4> QED
        BY <2>1, <4>1, <1>3 DEF Stages
    <3> QED
      BY <3>1, <2>1 DEF Stages
  <2>3. Is(g)
    BY <2>2
  <2> QED
    BY <2>3
<1>6. Is(at)
  BY <1>5 DEF at
<1>7. at[0] = a /\ \A k \in 1..n : at[k] = On(at[k - 1], k)
  <2>1. 0 \in 0..n /\ \A k \in 1..n : k \in 0..n /\ k # 0
    BY <1>2
  <2> QED
    BY <1>6, <2>1
<1>8. \A k \in 0..n : at[k] \in S[k]
  <2>1. at[0] \in S[0] /\ \A k \in 1..n : at[k - 1] \in S[k - 1] => at[k] \in S[k]
    BY <1>3, <1>4, <1>7
  <2> QED
    BY <1>2, <2>1, StagesStay
<1>9. \A k \in 0..n : at[k] \in Int \cup {Absent}
  BY <1>4, <1>8
<1>10. Passes(at, a, offsets, m)
  BY <1>1, <1>7, <1>9 DEF n, On, Passes
<1> QED
  BY <1>10

(* No offset leads nowhere else. *)
LEMMA TrailNow == ASSUME NEW a \in Int, NEW m, Memory(m) PROVE Trail(a, <<>>, m) = a
<1>1. ASSUME NEW none \in Seq(Int), Len(none) = 0 PROVE Trail(a, none, m) = a
  <2>1. PICK at : Passes(at, a, none, m)
    BY TrailIs, Zenon
  <2> QED
    BY <1>1, <2>1 DEF Passes
<1>2. <<>> \in Seq(Int) /\ Len(<<>>) = 0
  OBVIOUS
<1> QED
  BY <1>1, <1>2

(* A chain with one pointer more in front leads where the rest leads. *)
LEMMA TrailOnward ==
    ASSUME NEW a \in Int, NEW d \in Int, NEW offsets \in Seq(Int), NEW m, Memory(m), a \in DOMAIN m
    PROVE  Trail(a, <<d>> \o offsets, m) = Trail(m[a] + d, offsets, m)
<1> DEFINE longer == <<d>> \o offsets
           n == Len(offsets)
<1>1. /\ n \in Nat /\ longer \in Seq(Int) /\ Len(longer) = n + 1
      /\ longer[1] = d /\ \A k \in 1..n : longer[k + 1] = offsets[k]
  OBVIOUS
<1> HIDE DEF longer
<1>2. m[a] \in Int /\ m[a] + d \in Int
  BY DEF Memory
<1>3. PICK at : Passes(at, a, longer, m)
  BY <1>1, TrailIs, Zenon
<1>4. PICK to : Passes(to, m[a] + d, offsets, m)
  BY <1>2, TrailIs, Zenon
<1> HIDE DEF n
<1> DEFINE f == [k \in 0..n |-> at[k + 1]]
           S == [k \in 0..n |-> {to[k]}]
<1>5. f[0] \in S[0]
  BY <1>1, <1>3, <1>4 DEF Passes
<1>6. ASSUME NEW k \in 1..n, f[k - 1] \in S[k - 1] PROVE f[k] \in S[k]
  <2>1. k \in 0..n /\ k - 1 \in 0..n /\ k + 1 \in 1..Len(longer) /\ k + 1 - 1 = k /\ k - 1 + 1 = k
    BY <1>1
  <2>2. at[k] = to[k - 1]
    BY <1>6, <2>1
  <2>3. at[k + 1] = to[k]
    <3>1. at[k + 1] = IF at[k] \in DOMAIN m THEN m[at[k]] + longer[k + 1] ELSE Absent
      BY <1>3, <2>1 DEF Passes
    <3>2. to[k] = IF to[k - 1] \in DOMAIN m THEN m[to[k - 1]] + offsets[k] ELSE Absent
      BY <1>4 DEF Passes, n
    <3>3. longer[k + 1] = offsets[k]
      BY <1>1
    <3> QED
      BY <2>2, <3>1, <3>2, <3>3
  <2> QED
    BY <2>1, <2>3
<1>7. \A k \in 0..n : f[k] \in S[k]
  <2> HIDE DEF f, S
  <2> QED
    BY <1>1, <1>5, <1>6, StagesStay
<1>8. n \in 0..n
  BY <1>1
<1>9. at[n + 1] = to[n]
  BY <1>7, <1>8
<1> QED
  BY <1>1, <1>3, <1>4, <1>9 DEF longer, n, Passes

(* What leads somewhere in a part of a memory leads there in all of it. *)
LEMMA TrailAgrees ==
    ASSUME NEW a \in Int, NEW offsets \in Seq(Int), NEW part, Memory(part), NEW m, Memory(m),
           \A x \in DOMAIN part : x \in DOMAIN m /\ m[x] = part[x],
           Absent \notin Int, Trail(a, offsets, part) # Absent
    PROVE  Trail(a, offsets, m) = Trail(a, offsets, part)
<1> DEFINE n == Len(offsets)
<1>1. n \in Nat
  OBVIOUS
<1>2. PICK at : Passes(at, a, offsets, part)
  BY TrailIs, Zenon
<1>3. PICK to : Passes(to, a, offsets, m)
  BY TrailIs, Zenon
<1> HIDE DEF n
<1> DEFINE S == [k \in 0..n |-> {to[k], Absent}]
<1>4. at[0] \in S[0]
  BY <1>1, <1>2, <1>3 DEF Passes
<1>5. ASSUME NEW k \in 1..n, at[k - 1] \in S[k - 1] PROVE at[k] \in S[k]
  <2>1. k \in 0..n /\ k - 1 \in 0..n
    BY <1>1
  <2>2. at[k - 1] = Absent \/ at[k - 1] = to[k - 1]
    BY <1>5, <2>1
  <2>3. at[k] = Absent \/ at[k] = to[k]
    BY <1>2, <1>3, <2>2 DEF Memory, Passes, n
  <2> QED
    BY <2>1, <2>3
<1>6. \A k \in 0..n : at[k] \in S[k]
  <2> HIDE DEF S
  <2> QED
    BY <1>1, <1>4, <1>5, StagesStay
<1>7. n \in 0..n
  BY <1>1
<1>8. at[n] = to[n] \/ at[n] = Absent
  BY <1>6, <1>7
<1> QED
  BY <1>2, <1>3, <1>8 DEF Passes, n

-----------------------------------------------------------------------------
(* Slots and what they hold are numbers, and every slot is an address. *)
LEMMA SlotsAre ==
    /\ Slots \in SUBSET Nat /\ PointerValues \in SUBSET Nat /\ Cardinality(Slots) \in Nat
    /\ Slots \in SUBSET PointerValues /\ Top \in Nat /\ PointerValues = 0..Top
    /\ \A m \in [Slots -> PointerValues] : Memory(m)
<1>1. Cardinality(Slots) \in Nat /\ Top = Cardinality(Slots)
  BY PointerTypes, FS_CardinalityType DEF Top
<1>2. Slots \in SUBSET Nat /\ Slots = 0..(Top - 1)
  BY <1>1, PartsAscend
<1> HIDE DEF Slots
<1>3. PointerValues \in SUBSET Nat /\ PointerValues = 0..Top /\ Slots \in SUBSET PointerValues
  <2>1. PointerValues = 0..Top /\ Top \in Nat
    BY <1>1 DEF PointerValues
  <2>2. \A v \in Slots : v \in 0..Top
    BY <1>2, <2>1
  <2>3. \A v \in 0..Top : v \in Nat
    BY <2>1
  <2> QED
    BY <2>1, <2>2, <2>3
<1> HIDE DEF PointerValues, Top
<1>4. ASSUME NEW m \in [Slots -> PointerValues] PROVE Memory(m)
  <2>1. DOMAIN m = Slots /\ \A a \in Slots : a \in Nat /\ m[a] \in PointerValues
    BY <1>2
  <2>2. \A v \in PointerValues : v \in Nat
    BY <1>3
  <2>3. \A n \in Nat : n \in Int
    OBVIOUS
  <2> QED
    BY <2>1, <2>2, <2>3, Zenon DEF Memory
<1> QED
  BY <1>1, <1>2, <1>3, <1>4

Entry == [value : PointerValues, address : Nat]

(* What an entry consists of. *)
LEMMA EntryIs ==
    ASSUME NEW e \in Entry
    PROVE  /\ e.value \in PointerValues /\ e.value \in Nat /\ e.address \in Nat
           /\ e = [value |-> e.value, address |-> e.address]
<1>1. e.value \in PointerValues /\ e.address \in Nat /\ e = [value |-> e.value, address |-> e.address]
  BY DEF Entry
<1> QED
  BY <1>1, SlotsAre

\* Offsets that bound how far a pointer may be from where it is wanted.
Ranged(o) == o.offset \in Nat /\ o.negative \in Nat

(* A pointer within the offsets is among those looked at, wherever the address space ends. *)
LEMMA WindowIs ==
    ASSUME NEW o, Ranged(o), NEW v \in PointerValues, NEW at, at \in Nat, Link(v, at, o)
    PROVE  /\ v \in Window(at, o.offset, o.negative)
           /\ at \in PointerValues => at \in Window(v, o.negative, o.offset)
<1>1. v \in 0..Top /\ Top \in Nat /\ o.offset \in Nat /\ o.negative \in Nat
      /\ (at \in PointerValues => at <= Top)
  BY SlotsAre DEF Ranged
<1> QED
  BY <1>1 DEF Window, Link

\* The entries say what is in each memory of M.
KnownIn(entries, M) ==
    \A m \in M : Memory(m) /\ \A e \in entries : e.address \in DOMAIN m /\ m[e.address] = e.value

AllLead(cs, from, M, to) == \A c \in cs, m \in M : Follow(c, from, m) = to

\* Chains within the limit that lead to the target.
GoodChains(cs, from, o, M, to) ==
    /\ cs \in SUBSET Chains /\ IsFiniteSet(cs) /\ Cardinality(cs) <= o.chains
    /\ AllLead(cs, from, M, to)

GoodAccount(a, from, o, M, to) == a \in Accounts /\ GoodChains(a.chains, from, o, M, to)

GoodCall(call, from, o, M, to) ==
    /\ call \in Calls /\ GoodAccount(call.account, from, o, M, to)
    /\ \A m \in M : Trail(call.at, call.tail, m) = to

(* The pointers near an address are listed one by one, all of them and nothing else.    *)
LEMMA NearbyIs ==
    ASSUME NEW entries, entries \in SUBSET Entry, IsFiniteSet(entries), NEW at, at \in Nat, NEW o, Ranged(o)
    PROVE  LET near == {e \in entries : Link(e.value, at, o)}
           IN  ListsOnce(Nearby(entries, at, o), near, {p \in near \X near : Sooner(p[1], p[2], at)})
<1> DEFINE near == {e \in entries : Link(e.value, at, o)}
           R == {p \in near \X near : Sooner(p[1], p[2], at)}
<1>1. near \in SUBSET Entry /\ IsFiniteSet(near) /\ \A e \in near : e.value \in Nat /\ e.address \in Nat
  <2>1. near \in SUBSET Entry /\ IsFiniteSet(near)
    BY FS_Subset
  <2> HIDE DEF near
  <2> QED
    BY <2>1, EntryIs
<1>0. near = {e \in entries : e.value \in Window(at, o.offset, o.negative) /\ Link(e.value, at, o)}
  <2>1. \A e \in entries : Link(e.value, at, o) => e.value \in Window(at, o.offset, o.negative)
    BY EntryIs, WindowIs
  <2> QED
    BY <2>1
<1> HIDE DEF near
<1>2. \A e, f \in near : <<e, f>> \in R <=> Sooner(e, f, at)
  OBVIOUS
<1>3. Orders(R, near)
  <2>1. \A e \in near : ~Sooner(e, e, at)
    BY <1>1 DEF Sooner, Distance
  <2>2. \A e, f \in near : e = f \/ Sooner(e, f, at) \/ Sooner(f, e, at)
    <3> SUFFICES ASSUME NEW e \in near, NEW f \in near, ~Sooner(e, f, at), ~Sooner(f, e, at) PROVE e = f
      OBVIOUS
    <3>1. /\ e \in Entry /\ f \in Entry
          /\ e = [value |-> e.value, address |-> e.address] /\ f = [value |-> f.value, address |-> f.address]
      BY <1>1, EntryIs
    <3>2. e.value = f.value /\ e.address = f.address
      BY <1>1 DEF Sooner, Distance
    <3> QED
      BY <3>1, <3>2, Zenon
  <2>3. \A e, f, g \in near : Sooner(e, f, at) /\ Sooner(f, g, at) => Sooner(e, g, at)
    BY <1>1 DEF Sooner, Distance
  <2> HIDE DEF R
  <2> QED
    BY <1>2, <2>1, <2>2, <2>3 DEF Orders
<1>4. Nearby(entries, at, o) = ListOf(near, R)
  <2>1. Nearby(entries, at, o)
        = [i \in 1..Cardinality(near) |-> CHOOSE c \in near : Cardinality({d \in near : Sooner(d, c, at)}) = i - 1]
    BY <1>0 DEF Nearby, OrderedBy
  <2>2. \A c \in near : {d \in near : Sooner(d, c, at)} = {d \in near : <<d, c>> \in R}
    BY <1>2
  <2> HIDE DEF R
  <2>3. \A i \in 1..Cardinality(near) :
          (CHOOSE c \in near : Cardinality({d \in near : Sooner(d, c, at)}) = i - 1)
          = CHOOSE c \in near : Cardinality({d \in near : <<d, c>> \in R}) = i - 1
    BY <2>2
  <2> QED
    BY <2>1, <2>3 DEF ListOf
<1> HIDE DEF R
<1>5. ListsOnce(ListOf(near, R), near, R)
  BY <1>1, <1>3, ListIs
<1> QED
  BY <1>4, <1>5 DEF near, R

\* An account that is not to be left has room for a chain.
OpenAccount(a, from, o, M, to) ==
    GoodAccount(a, from, o, M, to) /\ (~a.stop => Cardinality(a.chains) < o.chains)

\* An account with these fields, whatever was crowded.
Account(c, chains_, work, cut_, stop) ==
    c \in Accounts /\ c.chains = chains_ /\ c.work = work /\ c.cut = cut_ /\ c.stop = stop

(* A change of an account changes the field it names. *)
LEMMA AccountChains ==
    ASSUME NEW a, a \in Accounts, NEW cs, cs \in SUBSET Chains
    PROVE  Account([a EXCEPT !.chains = cs], cs, a.work, a.cut, a.stop)
<1>1. [a EXCEPT !.chains = cs]
      = [chains |-> cs, work |-> a.work, cut |-> a.cut, crowded |-> a.crowded, stop |-> a.stop]
  BY DEF Accounts
<1> QED
  BY <1>1 DEF Account, Accounts

(* One more pointer looked at. *)
LEMMA AccountWork ==
    ASSUME NEW a, a \in Accounts
    PROVE  Account([a EXCEPT !.work = @ + 1], a.chains, a.work + 1, a.cut, a.stop)
<1>1. [a EXCEPT !.work = @ + 1]
      = [chains |-> a.chains, work |-> a.work + 1, cut |-> a.cut, crowded |-> a.crowded, stop |-> a.stop]
  BY DEF Accounts
<1> QED
  BY <1>1 DEF Account, Accounts

(* A limit is met. *)
LEMMA AccountCut ==
    ASSUME NEW a, a \in Accounts
    PROVE  Account([a EXCEPT !.cut = TRUE], a.chains, a.work, TRUE, a.stop)
BY DEF Account, Accounts

(* A node is left, or not. *)
LEMMA AccountStop ==
    ASSUME NEW a, a \in Accounts, NEW s, s \in BOOLEAN
    PROVE  Account([a EXCEPT !.stop = s], a.chains, a.work, a.cut, s)
<1>1. [a EXCEPT !.stop = s]
      = [chains |-> a.chains, work |-> a.work, cut |-> a.cut, crowded |-> a.crowded, stop |-> s]
  BY DEF Accounts
<1> QED
  BY <1>1 DEF Account, Accounts

(* A limit is met and the node left. *)
LEMMA AccountLeft ==
    ASSUME NEW a, a \in Accounts
    PROVE  Account([a EXCEPT !.cut = TRUE, !.stop = TRUE], a.chains, a.work, TRUE, TRUE)
BY DEF Account, Accounts

(* A limit at a node is met and the node left. *)
LEMMA AccountCrowded ==
    ASSUME NEW a, a \in Accounts, NEW wide, wide \in BOOLEAN
    PROVE  Account([a EXCEPT !.cut = TRUE, !.crowded = @ \/ wide, !.stop = TRUE], a.chains, a.work, TRUE, TRUE)
BY DEF Account, Accounts

(* A pointer tried adds a chain only where its slot is static, and goes deeper with an   *)

(* offset that leads on from it; no chain more than the limit is kept.                   *)
LEMMA TriedIsGood ==
    ASSUME NEW M, NEW entries, entries \in SUBSET Entry, KnownIn(entries, M),
           NEW from, from \in Nat, NEW o, o.chains \in Nat, Ranged(o), NEW to,
           NEW call, GoodCall(call, from, o, M, to),
           NEW levels, NEW deeper,
           levels # 1 => \A x : GoodCall(x, from, o, M, to) => GoodAccount(deeper[x], from, o, M, to),
           NEW order, NEW k, order[k] \in entries, ModuleSlots \in Nat,
           NEW b, OpenAccount(b, from, o, M, to)
    PROVE  OpenAccount(Tried(b, k, order, call, from, o, levels, deeper), from, o, M, to)
<1> DEFINE e == order[k]
           c == [b EXCEPT !.work = @ + 1]
           offsets == <<call.at - e.value>> \o call.tail
           chain == [root |-> e.address - from, offsets |-> offsets]
           d == [c EXCEPT !.chains = @ \cup {chain}]
           onward == [at |-> e.address, tail |-> offsets, path |-> Append(call.path, e.address), account |-> c]
           last == deeper[onward]
           left == Full(last, o) \/ Spent(last, o)
           wide == k > o.perNode
           Ok(a) == OpenAccount(a, from, o, M, to)
<1>1. Tried(b, k, order, call, from, o, levels, deeper) =
        IF b.stop THEN b
        ELSE IF wide \/ c.work > o.work THEN [c EXCEPT !.cut = TRUE, !.crowded = @ \/ wide, !.stop = TRUE]
        ELSE IF e.address \in Range(call.path) THEN c
        ELSE IF Static(e.address, from)
        THEN IF Full(d, o) THEN [d EXCEPT !.cut = TRUE, !.stop = TRUE] ELSE d
        ELSE IF levels = 1 THEN c
        ELSE [last EXCEPT !.stop = left]
  BY DEF Tried
<1>2. /\ e.value \in Nat /\ e.address \in Nat /\ call.at \in Nat /\ call.tail \in Seq(Int) /\ call.path \in Seq(Nat)
      /\ call.at - e.value \in Int
  <2>1. e.value \in Nat /\ e.address \in Nat
    BY EntryIs
  <2> HIDE DEF e
  <2> QED
    BY <2>1 DEF GoodCall, Calls
<1>3. /\ \A m \in M : Trail(e.address, offsets, m) = to
      /\ offsets \in Seq(Int)
  <2>1. offsets \in Seq(Int)
    BY <1>2
  <2>2. ASSUME NEW m \in M PROVE Trail(e.address, offsets, m) = to
    <3>1. /\ Memory(m) /\ e.address \in DOMAIN m /\ m[e.address] = e.value /\ e.address \in Int
          /\ e.value + (call.at - e.value) = call.at
      BY <1>2 DEF KnownIn
    <3> HIDE DEF e
    <3> DEFINE gap == call.at - e.value
    <3>2. Trail(e.address, offsets, m) = Trail(m[e.address] + gap, call.tail, m)
      <4>1. gap \in Int
        BY <1>2
      <4>2. offsets = <<gap>> \o call.tail
        OBVIOUS
      <4> HIDE DEF gap, offsets
      <4>3. Trail(e.address, <<gap>> \o call.tail, m) = Trail(m[e.address] + gap, call.tail, m)
        BY <1>2, <3>1, <4>1, TrailOnward
      <4> QED
        BY <4>2, <4>3
    <3>3. Trail(call.at, call.tail, m) = to
      BY DEF GoodCall
    <3> QED
      BY <3>1, <3>2, <3>3
  <2> QED
    BY <2>1, <2>2
<1> HIDE DEF offsets, e
<1>4. /\ b \in Accounts /\ c \in Accounts /\ c.chains = b.chains /\ c.stop = b.stop /\ c.work = b.work + 1
      /\ GoodChains(c.chains, from, o, M, to)
      /\ ~b.stop => Cardinality(c.chains) < o.chains
  <2>1. b \in Accounts /\ GoodChains(b.chains, from, o, M, to) /\ (~b.stop => Cardinality(b.chains) < o.chains)
    BY DEF OpenAccount, GoodAccount
  <2>2. Account(c, b.chains, b.work + 1, b.cut, b.stop)
    BY <2>1, AccountWork
  <2> QED
    BY <2>1, <2>2 DEF Account
<1> HIDE DEF c
<1>5. Ok(b) /\ Ok(c)
  BY <1>4 DEF OpenAccount, GoodAccount
<1>6. Ok([c EXCEPT !.cut = TRUE, !.crowded = @ \/ wide, !.stop = TRUE])
  <2> DEFINE x == [c EXCEPT !.cut = TRUE, !.crowded = @ \/ wide, !.stop = TRUE]
  <2>0. wide \in BOOLEAN
    OBVIOUS
  <2> HIDE DEF wide
  <2>1. x \in Accounts /\ x.chains = c.chains /\ x.stop
    BY <1>4, <2>0, AccountCrowded DEF Account
  <2> HIDE DEF x
  <2>2. Ok(x)
    BY <1>4, <2>1 DEF OpenAccount, GoodAccount
  <2> QED
    BY <2>2 DEF x
<1>7. ASSUME Static(e.address, from), ~b.stop
      PROVE  Ok(IF Full(d, o) THEN [d EXCEPT !.cut = TRUE, !.stop = TRUE] ELSE d)
  <2>1. /\ e.address - from \in Nat /\ e.address - from < ModuleSlots /\ from + (e.address - from) = e.address
    BY <1>2, <1>7 DEF Static
  <2>2. chain \in Chains /\ chain.root = e.address - from /\ chain.offsets = offsets
    BY <1>3, <2>1 DEF Chains
  <2>3. \A m \in M : Follow(chain, from, m) = to
    BY <1>3, <2>1, <2>2 DEF Follow
  <2> HIDE DEF chain
  <2> DEFINE cs == c.chains \cup {chain}
  <2>4. /\ IsFiniteSet(c.chains) /\ Cardinality(c.chains) \in Nat
        /\ IsFiniteSet(cs) /\ Cardinality(cs) \in Nat /\ Cardinality(cs) <= Cardinality(c.chains) + 1
    <3>1. IsFiniteSet(c.chains) /\ IsFiniteSet(cs)
      BY <1>4, FS_AddElement DEF GoodChains
    <3>2. Cardinality(cs) = IF chain \in c.chains THEN Cardinality(c.chains) ELSE Cardinality(c.chains) + 1
      BY <3>1, FS_AddElement
    <3>3. Cardinality(cs) \in Nat /\ Cardinality(c.chains) \in Nat
      BY <3>1, FS_CardinalityType
    <3> HIDE DEF cs
    <3> QED
      BY <3>1, <3>2, <3>3
  <2>5. cs \in SUBSET Chains /\ GoodChains(cs, from, o, M, to)
    BY <1>4, <1>7, <2>2, <2>3, <2>4 DEF GoodChains, AllLead
  <2>6. d \in Accounts /\ d.chains = cs
    BY <1>4, <2>5, AccountChains DEF Account
  <2> HIDE DEF cs, d
  <2>7. CASE Full(d, o)
    <3> DEFINE x == [d EXCEPT !.cut = TRUE, !.stop = TRUE]
    <3>1. x \in Accounts /\ x.chains = d.chains /\ x.stop
      BY <2>6, AccountLeft DEF Account
    <3> HIDE DEF x
    <3>2. Ok(x)
      BY <2>5, <2>6, <3>1 DEF OpenAccount, GoodAccount
    <3> QED
      BY <2>7, <3>2 DEF x
  <2>8. CASE ~Full(d, o)
    <3>1. Cardinality(d.chains) < o.chains
      BY <2>4, <2>6, <2>8 DEF Full
    <3> QED
      BY <2>5, <2>6, <2>8, <3>1 DEF OpenAccount, GoodAccount
  <2> QED
    BY <2>7, <2>8
<1>8. ASSUME levels # 1, ~b.stop PROVE Ok([last EXCEPT !.stop = left])
  <2>1. onward \in Calls /\ onward.account = c /\ onward.at = e.address /\ onward.tail = offsets
    BY <1>2, <1>3, <1>4 DEF Calls
  <2>2. GoodCall(onward, from, o, M, to)
    <3> HIDE DEF onward
    <3> QED
      BY <1>3, <1>4, <2>1 DEF GoodCall, GoodAccount
  <2>3. GoodAccount(last, from, o, M, to)
    BY <1>8, <2>2
  <2> DEFINE x == [last EXCEPT !.stop = left]
  <2>4. left \in BOOLEAN /\ (~left => ~Full(last, o))
    OBVIOUS
  <2> HIDE DEF last, left
  <2>5. x \in Accounts /\ x.chains = last.chains /\ x.stop = left
    BY <2>3, <2>4, AccountStop DEF GoodAccount, Account
  <2>6. Cardinality(last.chains) \in Nat
    BY <2>3, FS_CardinalityType DEF GoodAccount, GoodChains
  <2> HIDE DEF x
  <2>7. Ok(x)
    BY <2>3, <2>4, <2>5, <2>6 DEF OpenAccount, GoodAccount, Full
  <2> QED
    BY <2>7 DEF x
<1> HIDE DEF d, last, left, wide, Ok
<1>9. Ok(Tried(b, k, order, call, from, o, levels, deeper))
  BY <1>1, <1>5, <1>6, <1>7, <1>8
<1> QED
  BY <1>9 DEF Ok

\* The accounts of a node searched pointer by pointer, the last one what comes of it.
NodeRuns(after, order, call, result, from, o, levels, deeper, M, to) ==
    /\ after[0] = [call.account EXCEPT !.stop = FALSE]
    /\ \A k \in 1..Len(order) : after[k] = Tried(after[k - 1], k, order, call, from, o, levels, deeper)
    /\ \A k \in 0..Len(order) : after[k] \in Accounts /\ OpenAccount(after[k], from, o, M, to)
    /\ result = [after[Len(order)] EXCEPT !.stop = FALSE]

(* A node with room and work left is searched pointer by pointer. *)
LEMMA NodeStages ==
    ASSUME NEW M, NEW entries, entries \in SUBSET Entry, IsFiniteSet(entries), KnownIn(entries, M),
           NEW from, from \in Nat, NEW o, o.chains \in Nat, Ranged(o), NEW to, ModuleSlots \in Nat,
           NEW levels, NEW deeper,
           levels # 1 => \A x : GoodCall(x, from, o, M, to) => GoodAccount(deeper[x], from, o, M, to),
           NEW call, GoodCall(call, from, o, M, to), ~Full(call.account, o), ~Spent(call.account, o)
    PROVE  \E after : NodeRuns(after, Nearby(entries, call.at, o), call,
                               SearchNode(entries, from, o, levels, deeper)[call], from, o, levels, deeper, M, to)
<1> DEFINE order == Nearby(entries, call.at, o)
           a == call.account
           n == Len(order)
           start == [a EXCEPT !.stop = FALSE]
           Step(b, k) == Tried(b, k, order, call, from, o, levels, deeper)
           Is(g) == g = [k \in 0..n |-> IF k = 0 THEN start ELSE Step(g[k - 1], k)]
           after == CHOOSE g : Is(g)
           Opened == {b \in Accounts : OpenAccount(b, from, o, M, to)}
           S == [k \in 0..n |-> Opened]
           G == [k \in 1..n |-> [b \in Opened |-> Step(b, k)]]
<1>1. SearchNode(entries, from, o, levels, deeper)[call] = [after[n] EXCEPT !.stop = FALSE]
  <2>1. call \in Calls
    BY DEF GoodCall
  <2> QED
    BY <2>1 DEF SearchNode, Loop
<1> HIDE DEF after
<1>2. /\ n \in Nat
      /\ \A k \in 1..n : order[k] \in entries
  <2> DEFINE near == {e \in entries : Link(e.value, call.at, o)}
             R == {p \in near \X near : Sooner(p[1], p[2], call.at)}
  <2>1. call.at \in Nat
    BY DEF GoodCall, Calls
  <2>2. ListsOnce(order, near, R)
    BY <2>1, NearbyIs
  <2> HIDE DEF order, R
  <2> QED
    BY <2>2 DEF ListsOnce
<1>3. a \in Accounts /\ GoodAccount(a, from, o, M, to)
  BY DEF GoodCall, GoodAccount
<1>4. start \in Opened
  <2>1. start \in Accounts /\ start.chains = a.chains
    BY <1>3, AccountStop DEF Account
  <2>2. Cardinality(a.chains) \in Nat /\ ~Full(a, o)
    BY <1>3, FS_CardinalityType DEF GoodAccount, GoodChains
  <2> HIDE DEF start, a
  <2> QED
    BY <1>3, <2>1, <2>2 DEF GoodAccount, OpenAccount, Full
<1>5. ASSUME NEW k \in 1..n, NEW b \in Opened PROVE Step(b, k) \in Opened
  <2>1. order[k] \in entries /\ OpenAccount(b, from, o, M, to)
    BY <1>2
  <2> HIDE DEF order
  <2>2. OpenAccount(Step(b, k), from, o, M, to)
    BY <2>1, TriedIsGood
  <2> HIDE DEF Step
  <2> QED
    BY <2>2 DEF OpenAccount, GoodAccount
<1>6. \A k \in 1..n : \A b \in S[k - 1] : b \in Opened /\ G[k][b] = Step(b, k) /\ Step(b, k) \in S[k]
  <2> HIDE DEF Opened, Step, n
  <2>1. \A k \in 1..n : k - 1 \in 0..n /\ k \in 0..n
    BY <1>2
  <2> QED
    BY <1>5, <2>1
<1>7. start \in S[0] /\ \A k \in 0..n : S[k] = Opened
  BY <1>2, <1>4
<1> HIDE DEF Opened, Step, n, start, S, G
<1>8. \E g : Is(g)
  <2>1. PICK f : Stages(f, n, start, G, S)
    <3>1. Leads(n, start, G, S)
      BY <1>6, <1>7 DEF Leads
    <3> QED
      BY <1>2, <3>1, StagesAre
  <2> DEFINE g == [k \in 0..n |-> f[k]]
  <2>2. ASSUME NEW k \in 0..n PROVE f[k] = IF k = 0 THEN start ELSE Step(g[k - 1], k)
    <3>1. CASE k # 0
      <4>1. k \in 1..n /\ k - 1 \in 0..n
        BY <3>1, <1>2
      <4> QED
        BY <2>1, <4>1, <1>6 DEF Stages
    <3> QED
      BY <3>1, <2>1 DEF Stages
  <2>3. Is(g)
    BY <2>2
  <2> QED
    BY <2>3
<1>9. Is(after)
  BY <1>8 DEF after
<1>10. after[0] = start /\ \A k \in 1..n : after[k] = Step(after[k - 1], k)
  <2>1. 0 \in 0..n /\ \A k \in 1..n : k \in 0..n /\ k # 0
    BY <1>2
  <2> QED
    BY <1>9, <2>1
<1>11. \A k \in 0..n : after[k] \in S[k]
  <2>1. after[0] \in S[0] /\ \A k \in 1..n : after[k - 1] \in S[k - 1] => after[k] \in S[k]
    BY <1>6, <1>7, <1>10
  <2> QED
    BY <1>2, <2>1, StagesStay
<1>12. \A k \in 0..n : after[k] \in Accounts /\ OpenAccount(after[k], from, o, M, to)
  BY <1>7, <1>11 DEF Opened
<1> HIDE DEF order
<1>13. NodeRuns(after, order, call, SearchNode(entries, from, o, levels, deeper)[call], from, o, levels, deeper, M, to)
  BY <1>1, <1>10, <1>12 DEF n, start, Step, NodeRuns
<1> QED
  BY <1>13 DEF order

(* Searching a node keeps the account good, if searching deeper does. *)
LEMMA NodeIsGood ==
    ASSUME NEW M, NEW entries, entries \in SUBSET Entry, IsFiniteSet(entries), KnownIn(entries, M),
           NEW from, from \in Nat, NEW o, o.chains \in Nat, Ranged(o), NEW to, ModuleSlots \in Nat,
           NEW levels, NEW deeper,
           levels # 1 => \A x : GoodCall(x, from, o, M, to) => GoodAccount(deeper[x], from, o, M, to),
           NEW call, GoodCall(call, from, o, M, to)
    PROVE  GoodAccount(SearchNode(entries, from, o, levels, deeper)[call], from, o, M, to)
<1> DEFINE order == Nearby(entries, call.at, o)
           a == call.account
           result == SearchNode(entries, from, o, levels, deeper)[call]
           Good(b) == GoodAccount(b, from, o, M, to)
<1>1. call \in Calls /\ a \in Accounts /\ Good(a)
  BY DEF GoodCall, GoodAccount
<1>2. CASE Full(a, o) \/ Spent(a, o)
  <2> DEFINE x == [a EXCEPT !.cut = TRUE]
  <2>1. result = x
    BY <1>1, <1>2 DEF SearchNode, Loop
  <2>2. x \in Accounts /\ x.chains = a.chains
    BY <1>1, AccountCut DEF Account
  <2> HIDE DEF x, a, result
  <2> QED
    BY <1>1, <2>1, <2>2 DEF GoodAccount, result
<1>3. CASE ~Full(a, o) /\ ~Spent(a, o)
  <2>1. PICK after : NodeRuns(after, order, call, result, from, o, levels, deeper, M, to)
    BY <1>3, NodeStages
  <2>2. order \in Seq(entries)
    <3> DEFINE near == {e \in entries : Link(e.value, call.at, o)}
               R == {p \in near \X near : Sooner(p[1], p[2], call.at)}
    <3>1. call.at \in Nat
      BY <1>1 DEF Calls
    <3>2. ListsOnce(order, near, R)
      BY <3>1, NearbyIs
    <3> HIDE DEF order, R
    <3>3. order \in Seq(near) /\ near \in SUBSET entries
      BY <3>2 DEF ListsOnce
    <3> HIDE DEF near
    <3> QED
      BY <3>3
  <2> DEFINE z == after[Len(order)]
             x == [z EXCEPT !.stop = FALSE]
  <2> HIDE DEF order
  <2>3. result = x /\ z \in Accounts /\ Good(z)
    <3>1. Len(order) \in 0..Len(order)
      BY <2>2
    <3> QED
      BY <2>1, <3>1 DEF NodeRuns, OpenAccount
  <2> HIDE DEF z, result
  <2>4. x \in Accounts /\ x.chains = z.chains
    BY <2>3, AccountStop DEF Account
  <2> HIDE DEF x
  <2>5. Good(x)
    BY <2>3, <2>4 DEF GoodAccount
  <2> QED
    BY <2>3, <2>5 DEF result
<1> HIDE DEF a
<1> QED
  BY <1>2, <1>3

(* The depth-first search is built up level by level. *)
LEMMA DfsIs ==
    ASSUME NEW entries, NEW from, NEW o, o.depth \in Nat
    PROVE  \E f : /\ f[0] = [call \in Calls |-> call.account] /\ f[o.depth] = Dfs(entries, from, o)
                  /\ \A k \in 1..o.depth : f[k] = SearchNode(entries, from, o, k, f[k - 1])
<1> DEFINE n == o.depth
           start == [call \in Calls |-> call.account]
           Step(F, k) == SearchNode(entries, from, o, k, F)
           Is(g, m) == g = [k \in 0..m |-> IF k = 0 THEN start ELSE Step(g[k - 1], k)]
           Built(m) == \E g : Is(g, m)
           f == CHOOSE g : Is(g, n)
<1>1. Dfs(entries, from, o) = f[n]
  BY DEF Dfs, Loop
<1> HIDE DEF n, start, Step, f
<1>2. n \in Nat
  BY DEF n
<1>3. ASSUME NEW m \in Nat, NEW g, Is(g, m)
      PROVE  g[0] = start /\ \A k \in 1..m : g[k] = Step(g[k - 1], k)
  <2>1. 0 \in 0..m /\ \A k \in 1..m : k \in 0..m /\ k # 0
    OBVIOUS
  <2> QED
    BY <1>3, <2>1
<1>4. Built(0)
  <2>1. Is([k \in 0..0 |-> start], 0)
    OBVIOUS
  <2> HIDE DEF Is
  <2> QED
    BY <2>1
<1>5. ASSUME NEW m \in Nat, Built(m) PROVE Built(m + 1)
  <2>1. PICK g : Is(g, m)
    BY <1>5
  <2>2. g[0] = start /\ \A k \in 1..m : g[k] = Step(g[k - 1], k)
    BY <2>1, <1>3
  <2> DEFINE h == [k \in 0..(m + 1) |-> IF k = m + 1 THEN Step(g[m], k) ELSE g[k]]
  <2>3. ASSUME NEW k \in 0..(m + 1)
        PROVE  (IF k = m + 1 THEN Step(g[m], k) ELSE g[k]) = IF k = 0 THEN start ELSE Step(h[k - 1], k)
    <3>1. CASE k = 0
      BY <2>2, <3>1
    <3>2. CASE k = m + 1
      <4>1. k - 1 = m /\ m \in 0..(m + 1) /\ m # m + 1 /\ k # 0
        BY <3>2
      <4> QED
        BY <4>1, <3>2
    <3>3. CASE k # 0 /\ k # m + 1
      <4>1. k \in 1..m /\ k - 1 \in 0..(m + 1) /\ k - 1 # m + 1
        BY <3>3
      <4> QED
        BY <4>1, <3>3, <2>2
    <3> QED
      BY <3>1, <3>2, <3>3
  <2>4. Is(h, m + 1)
    BY <2>3
  <2> HIDE DEF h, Is
  <2> QED
    BY <2>4
<1> HIDE DEF Built
<1>6. Built(n)
  <2> DEFINE Bad == {m \in Nat : ~Built(m)}
  <2> SUFFICES ASSUME Bad # {} PROVE FALSE
    BY <1>2
  <2>1. PICK m \in Bad : \A j \in Bad : m <= j
    BY LeastIs
  <2>2. m \in Nat /\ ~Built(m) /\ m # 0
    BY <2>1, <1>4
  <2>3. m - 1 \in Nat /\ ~(m <= m - 1) /\ (m - 1) + 1 = m
    BY <2>2
  <2>4. Built(m - 1)
    BY <2>1, <2>3
  <2>5. Built((m - 1) + 1)
    BY <2>3, <2>4, <1>5
  <2> QED
    BY <2>2, <2>3, <2>5
<1>7. Is(f, n)
  BY <1>6 DEF f, Built
<1>8. f[0] = start /\ \A k \in 1..n : f[k] = Step(f[k - 1], k)
  BY <1>2, <1>3, <1>7
<1> QED
  BY <1>1, <1>8 DEF n, start, Step

(* Every chain the depth-first search finds leads to the target in every memory that its *)

(* entries are true of, and there are no more than the limit.                            *)
LEMMA DfsIsGood ==
    ASSUME NEW M, NEW entries, entries \in SUBSET Entry, IsFiniteSet(entries), KnownIn(entries, M),
           NEW from, from \in Nat, NEW o, o.chains \in Nat, Ranged(o), o.depth \in Nat, NEW to, ModuleSlots \in Nat,
           NEW call, GoodCall(call, from, o, M, to)
    PROVE  GoodAccount(Dfs(entries, from, o)[call], from, o, M, to)
<1> DEFINE Sound(F) == \A x : GoodCall(x, from, o, M, to) => GoodAccount(F[x], from, o, M, to)
           n == o.depth
<1>1. PICK f : /\ f[0] = [x \in Calls |-> x.account] /\ f[n] = Dfs(entries, from, o)
               /\ \A k \in 1..n : f[k] = SearchNode(entries, from, o, k, f[k - 1])
  BY DfsIs
<1>2. Sound(f[0])
  BY <1>1 DEF GoodCall
<1>3. ASSUME NEW k \in 1..n, Sound(f[k - 1]) PROVE Sound(f[k])
  <2> SUFFICES ASSUME NEW x, GoodCall(x, from, o, M, to) PROVE GoodAccount(f[k][x], from, o, M, to)
    OBVIOUS
  <2> DEFINE deeper == f[k - 1]
  <2>1. f[k] = SearchNode(entries, from, o, k, deeper)
    BY <1>1
  <2>2. \A y : GoodCall(y, from, o, M, to) => GoodAccount(deeper[y], from, o, M, to)
    BY <1>3
  <2> HIDE DEF deeper
  <2>3. GoodAccount(SearchNode(entries, from, o, k, deeper)[x], from, o, M, to)
    BY <2>2, NodeIsGood
  <2> QED
    BY <2>1, <2>3
<1> DEFINE T == [k \in 0..n |-> IF Sound(f[k]) THEN {f[k]} ELSE {}]
<1>4. \A k \in 0..n : Sound(f[k])
  <2> HIDE DEF Sound
  <2>1. f[0] \in T[0]
    BY <1>2
  <2>2. \A k \in 1..n : f[k - 1] \in T[k - 1] => f[k] \in T[k]
    BY <1>3
  <2>3. \A k \in 0..n : f[k] \in T[k]
    <3> HIDE DEF T
    <3> QED
      BY <2>1, <2>2, StagesStay
  <2> QED
    BY <2>3
<1>5. n \in 0..n
  OBVIOUS
<1>6. Sound(f[n])
  BY <1>4, <1>5
<1> QED
  BY <1>1, <1>6

(* What findPointerChains returns. *)
LEMMA FoundIsGood ==
    ASSUME NEW M, NEW entries, entries \in SUBSET Entry, IsFiniteSet(entries), KnownIn(entries, M),
           NEW from, from \in Nat, NEW o, o.chains \in Nat, Ranged(o), o.depth \in Nat, NEW to, to \in Nat,
           ModuleSlots \in Nat
    PROVE  GoodAccount(FindChains(entries, from, to, o), from, o, M, to)
<1> DEFINE a == [chains |-> {}, work |-> 0, cut |-> FALSE, crowded |-> FALSE, stop |-> FALSE]
           call == [at |-> to, tail |-> <<>>, path |-> <<to>>, account |-> a]
<1>1. a \in Accounts /\ a.chains = {} /\ IsFiniteSet({}) /\ Cardinality({}) = 0
  BY FS_EmptySet DEF Accounts
<1>2. GoodAccount(a, from, o, M, to)
  <2> HIDE DEF a
  <2> QED
    BY <1>1 DEF GoodAccount, GoodChains, AllLead
<1>3. call \in Calls /\ call.account = a /\ call.at = to /\ call.tail = <<>>
  BY <1>1 DEF Calls
<1>4. \A m \in M : Trail(to, <<>>, m) = to
  BY TrailNow DEF KnownIn
<1> HIDE DEF a, call
<1>5. GoodCall(call, from, o, M, to)
  BY <1>2, <1>3, <1>4 DEF GoodCall
<1>6. GoodAccount(Dfs(entries, from, o)[call], from, o, M, to)
  BY <1>5, DfsIsGood
<1> QED
  BY <1>6 DEF FindChains, call, a

-----------------------------------------------------------------------------
(* The invariant of the pointer search. *)

Nodes == [at : PointerValues, path : Seq(Nat), offsets : Seq(Int), score : Nat]
Finds == [for : {"chains", "map"}, phase : {"index", "levels"}, target : PointerValues, o : Options,
          part : Nat, missed : SUBSET Slots, gone : SUBSET Slots, writes : Nat]

\* The memory of the search, as long as nothing was written in it.
Still == IF writes = find.writes THEN {slots} ELSE {}

NodesLead(s, M, to) ==
    s \in Seq(Nodes) /\ \A i \in 1..Len(s), m \in M : Trail(s[i].at, s[i].offsets, m) = to

PointerTyped ==
    /\ slots \in [Slots -> PointerValues] /\ base \in Slots /\ cut \in BOOLEAN /\ writes \in Nat
    /\ chains \in SUBSET Chains /\ IsFiniteSet(chains)
    /\ index \in SUBSET [value : PointerValues, address : Slots] /\ IsFiniteSet(index)
    /\ frontier \in Seq(Nodes) /\ next \in Seq(Nodes)
    /\ seen \in Seq(Nat) /\ Len(seen) = Len(frontier)
    /\ maps \in Seq(saved) /\ \A m \in saved : TrueMap(m)

ChainsHold == \A c \in chains, w \in leads : Resolve(c, w) = w.target

\* What the levels have found so far leads to the target, and so does every node.
LevelsLead ==
    /\ GoodChains(chains, base, find.o, Still, find.target)
    /\ find.part <= Len(Parts) => Cardinality(chains) < find.o.chains
    /\ NodesLead(frontier, Still, find.target) /\ NodesLead(next, Still, find.target)

Searching ==
    find # Absent =>
        /\ find \in Finds /\ find.writes <= writes /\ outcome = Absent
        /\ find.for = "chains" => leads = {} /\ (find.phase = "index" => chains = {})
        /\ Cardinality(index) <= find.o.index /\ KnownIn(index, Still)
        /\ find.phase = "levels" => find.for = "chains" /\ LevelsLead

WithinLimit == outcome # Absent => Cardinality(chains) <= outcome.o.chains

PointerInv == PointerTyped /\ ChainsHold /\ Searching /\ WithinLimit

(* The entries of the index are those of a memory they were read from. *)
LEMMA EntriesAre ==
    ASSUME NEW entries \in SUBSET [value : PointerValues, address : Slots]
    PROVE  entries \in SUBSET Entry
BY SlotsAre DEF Entry

(* The empty set has no members.                                                          *)
LEMMA EmptyChains == IsFiniteSet({}) /\ Cardinality({}) = 0
BY FS_EmptySet

(* The search that starts from the target itself. *)
LEMMA RootLeads ==
    ASSUME NEW to \in PointerValues, NEW M, \A m \in M : Memory(m)
    PROVE  NodesLead(<<RootNode(to)>>, M, to)
<1>0. to \in Nat
  BY SlotsAre
<1>1. RootNode(to) \in Nodes /\ RootNode(to).at = to /\ RootNode(to).offsets = <<>>
  BY <1>0 DEF RootNode, Nodes
<1> DEFINE s == <<RootNode(to)>>
<1>2. s \in Seq(Nodes) /\ Len(s) = 1 /\ s[1] = RootNode(to)
  BY <1>1
<1> HIDE DEF s
<1>3. \A m \in M : Trail(to, <<>>, m) = to
  BY <1>0, TrailNow
<1>4. NodesLead(s, M, to)
  BY <1>1, <1>2, <1>3 DEF NodesLead
<1> QED
  BY <1>4 DEF s

(* An empty list of nodes leads wherever it should.                                       *)
LEMMA NoNodes == ASSUME NEW M, NEW to PROVE NodesLead(<<>>, M, to)
<1> DEFINE s == <<>>
<1>1. s \in Seq(Nodes) /\ 1..Len(s) = {}
  OBVIOUS
<1> HIDE DEF s
<1>2. NodesLead(s, M, to)
  BY <1>1 DEF NodesLead
<1> QED
  BY <1>2 DEF s

(* A session begins without a search, a chain or a loaded map.                            *)
LEMMA PointerBegins == ASSUME Init PROVE PointerInv
<1>1. PICK b \in Beginnings : slots = b.slots /\ base = b.base /\ saved = b.saved /\ writes = b.writes
  BY DEF Init
<1>2. /\ find = Absent /\ index = {} /\ frontier = <<>> /\ next = <<>> /\ seen = <<>>
      /\ chains = {} /\ cut = FALSE /\ maps = <<>> /\ leads = {} /\ outcome = Absent
  BY DEF Init, PointerInit
<1>3. /\ b.slots \in [Slots -> PointerValues] /\ b.base \in Slots /\ b.writes \in Nat
      /\ \A m \in b.saved : TrueMap(m)
  BY PointerBeginnings
<1>4. PointerTyped
  <2>1. <<>> \in Seq(Nodes) /\ <<>> \in Seq(Nat) /\ <<>> \in Seq(saved)
    OBVIOUS
  <2>2. frontier \in Seq(Nodes) /\ next \in Seq(Nodes) /\ seen \in Seq(Nat) /\ maps \in Seq(saved)
    BY <1>2, <2>1, Zenon
  <2>3. Len(seen) = Len(frontier) /\ cut \in BOOLEAN
    BY <1>2
  <2>4. slots \in [Slots -> PointerValues] /\ base \in Slots /\ writes \in Nat /\ \A m \in saved : TrueMap(m)
    BY <1>1, <1>3
  <2>5. /\ chains \in SUBSET Chains /\ IsFiniteSet(chains)
        /\ index \in SUBSET [value : PointerValues, address : Slots] /\ IsFiniteSet(index)
    BY <1>2, EmptyChains
  <2> QED
    BY <2>2, <2>3, <2>4, <2>5 DEF PointerTyped
<1> QED
  BY <1>2, <1>4 DEF PointerInv, ChainsHold, Searching, WithinLimit

(* A scan starts without a chain, claiming nothing.                                       *)
LEMMA ScanKeeps ==
    ASSUME PointerInv, NEW to \in Targets, NEW o \in Options, Scan(to, o)
    PROVE  PointerInv'
<1> DEFINE f == [for |-> "chains", phase |-> IF o.mode = "targeted" THEN "levels" ELSE "index",
                 target |-> to, o |-> o, part |-> 1, missed |-> {}, gone |-> {}, writes |-> writes]
<1>1. /\ chains' = {} /\ cut' = FALSE /\ index' = {} /\ leads' = {} /\ outcome' = Absent /\ find' = f
      /\ slots' = slots /\ base' = base /\ saved' = saved /\ maps' = maps /\ writes' = writes
      /\ IF o.mode = "targeted" THEN StartLevels(to) ELSE NoSearch
  BY DEF Scan
<1>2. to \in PointerValues /\ {o.chains, o.index} \subseteq Nat \ {0}
  BY PointerTypes, PointerLimits
<1>3. f \in Finds /\ f.o = o /\ f.target = to /\ f.part = 1 /\ f.for = "chains" /\ f.writes = writes
  BY <1>2 DEF Finds, PointerInv, PointerTyped
<1> HIDE DEF f
<1>4. Still' \in SUBSET {slots} /\ \A m \in Still' : Memory(m)
  BY <1>1, SlotsAre DEF Still, PointerInv, PointerTyped
<1>5. /\ frontier' \in Seq(Nodes) /\ next' \in Seq(Nodes) /\ seen' \in Seq(Nat) /\ Len(seen') = Len(frontier')
      /\ NodesLead(frontier', Still', to) /\ NodesLead(next', Still', to)
  <2>1. CASE o.mode = "targeted"
    <3>1. frontier' = <<RootNode(to)>> /\ next' = <<>> /\ seen' = <<0>>
      BY <1>1, <2>1 DEF StartLevels
    <3>2. NodesLead(frontier', Still', to) /\ NodesLead(next', Still', to)
      BY <3>1, <1>2, <1>4, RootLeads, NoNodes
    <3> QED
      BY <3>1, <3>2 DEF NodesLead
  <2>2. CASE o.mode # "targeted"
    <3>1. frontier' = <<>> /\ next' = <<>> /\ seen' = <<>>
      BY <1>1, <2>2 DEF NoSearch
    <3>2. NodesLead(frontier', Still', to) /\ NodesLead(next', Still', to)
      BY <3>1, NoNodes
    <3> QED
      BY <3>1, <3>2 DEF NodesLead
  <2> QED
    BY <2>1, <2>2
<1>6. PointerTyped'
  BY <1>1, <1>5, EmptyChains DEF PointerInv, PointerTyped
<1>7. Searching'
  <2>1. KnownIn(index', Still')
    BY <1>1, <1>4 DEF KnownIn
  <2>2. GoodChains(chains', base', o, Still', to) /\ Cardinality(chains') < o.chains /\ Cardinality(index') <= o.index
    BY <1>1, <1>2, EmptyChains DEF GoodChains, AllLead
  <2>3. LevelsLead'
    BY <1>1, <1>3, <1>5, <2>2 DEF LevelsLead
  <2>4. writes <= writes
    BY DEF PointerInv, PointerTyped
  <2> QED
    BY <1>1, <1>3, <2>1, <2>2, <2>3, <2>4 DEF Searching
<1> QED
  BY <1>1, <1>6, <1>7 DEF PointerInv, ChainsHold, WithinLimit

(* A capture starts with an empty index and leaves the chains as they were.               *)
LEMMA CaptureKeeps ==
    ASSUME PointerInv, NEW to \in Targets, NEW o \in Options, Capture(to, o)
    PROVE  PointerInv'
<1> DEFINE f == [for |-> "map", phase |-> "index", target |-> to, o |-> o, part |-> 1,
                 missed |-> {}, gone |-> {}, writes |-> writes]
<1>1. /\ index' = {} /\ cut' = FALSE /\ find' = f /\ outcome' = Absent
      /\ UNCHANGED <<slots, base, frontier, next, seen, chains, saved, maps, writes, leads>>
  BY DEF Capture
<1>2. to \in PointerValues /\ {o.chains, o.index} \subseteq Nat \ {0}
  BY PointerTypes, PointerLimits
<1>3. /\ f \in Finds /\ f.o = o /\ f.target = to /\ f.part = 1 /\ f.for = "map" /\ f.phase = "index"
      /\ f.writes = writes
  BY <1>2 DEF Finds, PointerInv, PointerTyped
<1> HIDE DEF f
<1>4. \A m \in Still' : Memory(m)
  BY <1>1, SlotsAre DEF Still, PointerInv, PointerTyped
<1>5. PointerTyped'
  BY <1>1, EmptyChains DEF PointerInv, PointerTyped
<1>6. Searching'
  <2>1. KnownIn(index', Still')
    BY <1>1, <1>4 DEF KnownIn
  <2>2. Cardinality(index') <= o.index
    BY <1>1, <1>2, EmptyChains
  <2>3. writes <= writes
    BY DEF PointerInv, PointerTyped
  <2> QED
    BY <1>1, <1>3, <2>1, <2>2, <2>3 DEF Searching
<1>7. ChainsHold'
  BY <1>1 DEF PointerInv, ChainsHold, Resolve
<1> QED
  BY <1>1, <1>5, <1>6, <1>7 DEF PointerInv, WithinLimit

(* As many of a set of numbers as there is room for, the least first. *)
LEMMA FirstFew ==
    ASSUME NEW U \in SUBSET Nat, IsFiniteSet(U), NEW room \in Nat
    PROVE  LET K == {a \in U : Cardinality({b \in U : b <= a}) <= room}
           IN  IsFiniteSet(K) /\ Cardinality(K) \in Nat /\ Cardinality(K) <= room
<1> DEFINE K == {a \in U : Cardinality({b \in U : b <= a}) <= room}
<1>1. IsFiniteSet(K) /\ K \in SUBSET Nat /\ Cardinality(K) \in Nat
  BY FS_Subset, FS_CardinalityType
<1>3. ASSUME Cardinality(K) # 0 PROVE Cardinality(K) <= room
  <2> DEFINE Rank(c) == Cardinality({d \in K : d < c})
  <2>1. \A n \in 0..(Cardinality(K) - 1) : \E c \in K : Rank(c) = n
    <3> HIDE DEF K
    <3> QED
      BY <1>1, RanksAre
  <2>2. Cardinality(K) - 1 \in 0..(Cardinality(K) - 1)
    BY <1>1, <1>3
  <2>3. PICK c \in K : Rank(c) = Cardinality(K) - 1
    BY <2>1, <2>2
  <2> DEFINE L == {d \in K : d < c}
             A == {b \in U : b <= c}
  <2>4. /\ L \in SUBSET K /\ c \notin L /\ L \cup {c} \in SUBSET A /\ A \in SUBSET U
        /\ Cardinality(A) <= room
    <3>1. c \in U /\ c \in Nat /\ Cardinality(A) <= room
      OBVIOUS
    <3>2. \A d \in L : d \in U /\ d \in Nat /\ d < c
      OBVIOUS
    <3>3. \A d \in L \cup {c} : d \in U /\ d <= c
      BY <3>1, <3>2
    <3>4. L \cup {c} \in SUBSET A
      BY <3>3
    <3> QED
      BY <3>1, <3>4
  <2>5. Cardinality(L) = Cardinality(K) - 1
    BY <2>3
  <2> HIDE DEF K, L, A
  <2>6. IsFiniteSet(L) /\ Cardinality(L \cup {c}) = Cardinality(L) + 1
    BY <1>1, <2>4, FS_Subset, FS_AddElement
  <2>7. IsFiniteSet(A) /\ Cardinality(L \cup {c}) <= Cardinality(A) /\ Cardinality(A) \in Nat
    BY <2>4, FS_Subset, FS_CardinalityType
  <2> QED
    BY <1>1, <1>3, <2>4, <2>5, <2>6, <2>7
<1>4. Cardinality(K) <= room
  BY <1>1, <1>3
<1> QED
  BY <1>1, <1>4

(* What a read brings is of what was asked for, and all of it when nothing was out of reach. *)
LEMMA BroughtIs ==
    ASSUME NEW asked, NEW gone, NEW short
    PROVE  /\ Brought(asked, gone, short) \in SUBSET asked
           /\ gone = {} => Brought(asked, gone, short) = asked
BY DEF Brought

\* The search goes on behind a part, or behind them all.
Onwards(asked, gone, short, last) ==
    /\ find' \in Finds /\ find'.o = find.o /\ find'.for = find.for /\ find'.phase = find.phase
    /\ find'.target = find.target /\ find'.writes = find.writes
    /\ find'.part = IF last THEN Len(Parts) + 1 ELSE find.part + 1
    /\ find'.missed = find.missed \cup (asked \ Brought(asked, gone, short))

(* Reading a part leaves the search what it was, and goes to the next part or to the end. *)
LEMMA PartReadIs ==
    ASSUME find \in Finds, NEW asked \in SUBSET Slots, NEW gone, NEW short, NEW last \in BOOLEAN,
           PartRead(asked, gone, short, last)
    PROVE  Onwards(asked, gone, short, last)
<1> DEFINE part   == IF last THEN Len(Parts) + 1 ELSE find.part + 1
           missed == find.missed \cup (asked \ Brought(asked, gone, short))
           gone_  == find.gone \cup gone
<1>1. find' = [find EXCEPT !.part = part, !.missed = missed, !.gone = gone_] /\ gone \subseteq asked
  BY DEF PartRead, Finds
<1>2. find.part \in Nat /\ Len(Parts) \in Nat /\ find.missed \in SUBSET Slots /\ find.gone \in SUBSET Slots
  BY PointerTypes DEF Finds
<1>3. part \in Nat /\ missed \in SUBSET Slots /\ gone_ \in SUBSET Slots
  BY <1>1, <1>2
<1> HIDE DEF part, missed, gone_
<1>4. /\ find' \in Finds /\ find'.o = find.o /\ find'.for = find.for /\ find'.phase = find.phase
      /\ find'.target = find.target /\ find'.writes = find.writes /\ find'.part = part /\ find'.missed = missed
  BY <1>1, <1>3 DEF Finds
<1> QED
  BY <1>1, <1>4 DEF Onwards, part, missed

(* A part of the index: what the target holds there, within the limit.                    *)
LEMMA IndexPartKeeps ==
    ASSUME PointerInv, NEW gone, NEW short, IndexPart(gone, short)
    PROVE  PointerInv'
<1> DEFINE o      == find.o
           asked  == {a \in Parts[find.part] : o.writable => a \in Writable}
           usable == {a \in Brought(asked, gone, short) : slots[a] \in Slots}
           room   == o.index - Cardinality(index)
           taken  == {a \in usable : Cardinality({b \in usable : b <= a}) <= room}
           new    == {[value |-> slots[a], address |-> a] : a \in taken}
           full   == Cardinality(index') >= find.o.index
<1>1. /\ find # Absent /\ find.phase = "index" /\ find.part \in DOMAIN Parts
      /\ index' = index \cup new
      /\ cut' = (cut \/ full)
      /\ PartRead(asked, gone, short, full)
      /\ UNCHANGED <<slots, base, frontier, next, seen, chains, saved, maps, writes, leads, outcome>>
  BY DEF IndexPart
<1>2. PointerTyped /\ Searching
  BY DEF PointerInv
<1>3. /\ find \in Finds /\ find.writes <= writes /\ outcome = Absent
      /\ find.for = "chains" => leads = {} /\ (find.phase = "index" => chains = {})
      /\ Cardinality(index) <= o.index /\ KnownIn(index, Still)
  BY <1>1, <1>2 DEF Searching
<1>4. Cardinality(index) \in Nat /\ IsFiniteSet(index) /\ o.index \in Nat /\ Len(Parts) \in Nat
      /\ find.part \in Nat
  <2>1. o \in Options
    BY <1>3 DEF Finds
  <2> QED
    BY <1>2, <1>3, <2>1, PointerTypes, PointerLimits, FS_CardinalityType DEF PointerTyped, Finds
<1>5. room \in Nat
  BY <1>3, <1>4
<1>6. Parts[find.part] \in SUBSET Slots
  BY <1>1, PointerTypes
<1>7. asked \in SUBSET Slots /\ usable \in SUBSET Slots /\ taken \in SUBSET Slots
  BY <1>6, BroughtIs
<1> HIDE DEF usable, room
<1>8. IsFiniteSet(taken) /\ Cardinality(taken) \in Nat /\ Cardinality(taken) <= room
  <2>1. usable \in SUBSET Nat /\ IsFiniteSet(usable)
    BY <1>7, PointerTypes, SlotsAre, FS_Subset
  <2> QED
    BY <1>5, <2>1, FirstFew
<1> HIDE DEF taken
<1>9. IsFiniteSet(new) /\ Cardinality(new) \in Nat /\ Cardinality(new) <= Cardinality(taken)
  <2> DEFINE f == [a \in taken |-> [value |-> slots[a], address |-> a]]
  <2>1. new = {f[a] : a \in taken}
    OBVIOUS
  <2>2. f \in Surjection(taken, new)
    BY DEF Surjection
  <2> HIDE DEF f, new
  <2> QED
    BY <1>8, <2>2, FS_Surjection, FS_CardinalityType
<1>10. new \in SUBSET [value : PointerValues, address : Slots] /\ \A e \in new : slots[e.address] = e.value
  <2>1. \A a \in taken : a \in Slots /\ slots[a] \in PointerValues
    BY <1>2, <1>7 DEF PointerTyped
  <2> QED
    BY <2>1
<1> HIDE DEF new
<1>11. IsFiniteSet(index') /\ Cardinality(index') \in Nat /\ Cardinality(index') <= o.index
  <2>1. IsFiniteSet(index \cup new) /\ Cardinality(index \cup new) = Cardinality(index) + Cardinality(new) - Cardinality(index \cap new)
    BY <1>4, <1>9, FS_Union
  <2>3. Cardinality(index \cup new) \in Nat
    BY <2>1, FS_CardinalityType
  <2>2. Cardinality(index \cap new) \in Nat
    BY <1>4, FS_Intersection, FS_CardinalityType
  <2> QED
    BY <1>1, <1>4, <1>8, <1>9, <2>1, <2>2, <2>3 DEF room
<1>12. full \in BOOLEAN
  OBVIOUS
<1> HIDE DEF full, asked
<1>13. /\ find' \in Finds /\ find'.o = find.o /\ find'.for = find.for /\ find'.phase = "index"
       /\ find'.target = find.target /\ find'.writes = find.writes
  BY <1>1, <1>3, <1>7, <1>12, PartReadIs DEF Onwards
<1>14. PointerTyped'
  BY <1>1, <1>2, <1>10, <1>11 DEF PointerTyped
<1>15. KnownIn(index', Still')
  <2>1. Still' = Still
    BY <1>1, <1>13 DEF Still
  <2>2. \A m \in Still : Memory(m) /\ m = slots /\ DOMAIN m = Slots
    BY <1>2, SlotsAre DEF Still, PointerTyped
  <2>3. \A e \in new : e.address \in Slots
    BY <1>10
  <2> QED
    BY <1>1, <1>3, <1>10, <2>1, <2>2, <2>3 DEF KnownIn
<1>16. Searching'
  BY <1>1, <1>3, <1>11, <1>13, <1>15 DEF Searching
<1>17. ChainsHold' /\ WithinLimit'
  BY <1>1, <1>3 DEF PointerInv, ChainsHold, WithinLimit, Resolve
<1> QED
  BY <1>14, <1>16, <1>17 DEF PointerInv

(* The index searched: its chains lead to the target, if nothing was written meanwhile.   *)
LEMMA SearchIndexKeeps ==
    ASSUME PointerInv, SearchIndex
    PROVE  PointerInv'
<1> DEFINE o     == find.o
           to    == find.target
           found == FindChains(index, base, to, o)
<1>1. /\ find # Absent /\ find.phase = "index" /\ find.for = "chains"
      /\ UNCHANGED <<slots, base, saved, maps, writes>>
      /\ IF o.mode = "auto" /\ found.chains = {}
         THEN /\ StartLevels(to)
              /\ find' = [find EXCEPT !.phase = "levels", !.part = 1, !.missed = {}, !.gone = {}]
              /\ index' = {} /\ cut' = (cut \/ found.crowded)
              /\ UNCHANGED <<chains, leads, outcome>>
         ELSE /\ chains' = found.chains
              /\ cut' = (cut \/ found.cut)
              /\ Done("index", found.work)
              /\ UNCHANGED <<index, frontier, next, seen>>
  BY DEF SearchIndex
<1>2. PointerTyped /\ Searching
  BY DEF PointerInv
<1>3. /\ find \in Finds /\ find.writes <= writes /\ outcome = Absent /\ leads = {} /\ chains = {}
      /\ KnownIn(index, Still) /\ Cardinality(index) <= o.index
  BY <1>1, <1>2 DEF Searching
<1>4. /\ o \in Options /\ o.chains \in Nat \ {0} /\ o.depth \in Nat /\ o.index \in Nat \ {0}
      /\ to \in PointerValues /\ to \in Nat /\ base \in Nat /\ ModuleSlots \in Nat /\ Ranged(o)
      /\ index \in SUBSET Entry /\ IsFiniteSet(index)
  <2>1. o \in Options /\ to \in PointerValues
    BY <1>3 DEF Finds
  <2>2. index \in SUBSET Entry /\ IsFiniteSet(index) /\ base \in Nat /\ to \in Nat
    BY <1>2, <2>1, SlotsAre, EntriesAre DEF PointerTyped
  <2> QED
    BY <2>1, <2>2, PointerLimits DEF Ranged
<1>5. GoodAccount(found, base, o, Still, to)
  BY <1>3, <1>4, FoundIsGood
<1>6. \A m \in Still : m = slots /\ Memory(m)
  BY <1>2, SlotsAre DEF Still, PointerTyped
<1> HIDE DEF found
<1>7. CASE o.mode = "auto" /\ found.chains = {}
  <2>1. /\ StartLevels(to) /\ find' = [find EXCEPT !.phase = "levels", !.part = 1, !.missed = {}, !.gone = {}]
        /\ index' = {} /\ cut' = (cut \/ found.crowded) /\ UNCHANGED <<chains, leads, outcome>>
    BY <1>1, <1>7
  <2>0. cut' \in BOOLEAN
    BY <1>2, <1>5, <2>1 DEF PointerTyped, GoodAccount, Accounts
  <2>2. /\ find' \in Finds /\ find'.o = o /\ find'.for = "chains" /\ find'.phase = "levels" /\ find'.part = 1
        /\ find'.target = to /\ find'.writes = find.writes
    BY <1>1, <1>3, <2>1 DEF Finds
  <2>3. Still' = Still
    BY <1>1, <2>2 DEF Still
  <2>4. frontier' = <<RootNode(to)>> /\ next' = <<>> /\ seen' = <<0>>
    BY <2>1 DEF StartLevels
  <2>5. NodesLead(frontier', Still', to) /\ NodesLead(next', Still', to)
    BY <1>4, <1>6, <2>3, <2>4, RootLeads, NoNodes
  <2>6. seen' \in Seq(Nat) /\ Len(seen') = Len(frontier')
    BY <2>4
  <2>7. PointerTyped'
    BY <1>1, <1>2, <2>0, <2>1, <2>5, <2>6, EmptyChains DEF PointerTyped, NodesLead
  <2>8. LevelsLead'
    <3>1. GoodChains(chains', base', o, Still', to) /\ Cardinality(chains') < o.chains
      BY <1>3, <1>4, <2>1, EmptyChains DEF GoodChains, AllLead
    <3> QED
      BY <2>2, <2>5, <3>1 DEF LevelsLead
  <2>9. KnownIn(index', Still') /\ Cardinality(index') <= o.index
    BY <1>4, <1>6, <2>1, <2>3, EmptyChains DEF KnownIn
  <2>10. Searching'
    BY <1>1, <1>3, <2>1, <2>2, <2>8, <2>9 DEF Searching
  <2>11. ChainsHold' /\ WithinLimit'
    BY <1>3, <2>1 DEF ChainsHold, WithinLimit
  <2> QED
    BY <2>7, <2>10, <2>11 DEF PointerInv
<1>8. CASE ~(o.mode = "auto" /\ found.chains = {})
  <2>1. /\ chains' = found.chains /\ cut' = (cut \/ found.cut) /\ Done("index", found.work)
        /\ UNCHANGED <<index, frontier, next, seen>>
    BY <1>1, <1>8
  <2>2. find' = Absent /\ leads' = Undisturbed /\ outcome'.o = o
    BY <2>1 DEF Done
  <2>3. found.cut \in BOOLEAN /\ GoodChains(found.chains, base, o, Still, to)
    BY <1>5 DEF GoodAccount, Accounts
  <2>4. PointerTyped'
    <3>1. cut' \in BOOLEAN
      BY <1>2, <2>1, <2>3 DEF PointerTyped
    <3> QED
      BY <1>1, <1>2, <2>1, <2>3, <3>1 DEF PointerTyped, GoodChains
  <2>5. ChainsHold'
    <3> SUFFICES ASSUME NEW c \in found.chains, NEW w \in Undisturbed PROVE Resolve(c, w) = w.target
      BY <2>1, <2>2 DEF ChainsHold, Resolve
    <3>1. slots \in Still /\ w.base = base /\ w.memory = slots /\ w.target = to
      BY DEF Undisturbed, Still, World
    <3>2. Follow(c, base, slots) = to
      BY <2>3, <3>1 DEF GoodChains, AllLead
    <3> QED
      BY <3>1, <3>2 DEF Resolve
  <2>6. Searching' /\ WithinLimit'
    BY <2>1, <2>2, <2>3 DEF Searching, WithinLimit, GoodChains
  <2> QED
    BY <2>4, <2>5, <2>6 DEF PointerInv
<1> QED
  BY <1>7, <1>8

(* A map saved is true of the memory it was captured from, if nothing was written.        *)
LEMMA SaveMapKeeps ==
    ASSUME PointerInv, SaveMap
    PROVE  PointerInv'
<1> DEFINE m == [base |-> base, target |-> find.target, entries |-> index, complete |-> ~cut,
                 truth |-> Undisturbed]
<1>1. /\ find # Absent /\ saved' = saved \cup {m} /\ index' = {} /\ find' = Absent
      /\ UNCHANGED <<slots, base, frontier, next, seen, chains, cut, maps, writes, leads, outcome>>
  BY DEF SaveMap
<1>2. PointerTyped /\ Searching
  BY DEF PointerInv
<1>3. find \in Finds /\ KnownIn(index, Still)
  BY <1>1, <1>2 DEF Searching
<1>4. m.base = base /\ m.target = find.target /\ m.entries = index /\ m.truth = Undisturbed
  OBVIOUS
<1> HIDE DEF m
<1>5. TrueMap(m)
  <2>1. m.base \in Slots /\ m.target \in Nat /\ m.entries \in SUBSET [value : PointerValues, address : Slots]
        /\ IsFiniteSet(m.entries)
    BY <1>2, <1>3, <1>4, SlotsAre DEF PointerTyped, Finds
  <2>2. ASSUME NEW w \in m.truth
        PROVE  /\ w.memory \in [Slots -> PointerValues]
               /\ w.base = m.base /\ w.target = m.target
               /\ \A e \in m.entries : w.memory[e.address] = e.value
    <3>1. slots \in Still /\ w.base = base /\ w.memory = slots /\ w.target = find.target
      BY <1>4 DEF Undisturbed, Still, World
    <3> QED
      BY <1>2, <1>3, <1>4, <3>1 DEF PointerTyped, KnownIn
  <2> QED
    BY <2>1, <2>2 DEF TrueMap
<1>6. PointerTyped'
  <2>1. maps \in Seq(saved \cup {m})
    BY <1>2 DEF PointerTyped
  <2> QED
    BY <1>1, <1>2, <1>5, <2>1, EmptyChains DEF PointerTyped
<1>7. ChainsHold' /\ Searching' /\ WithinLimit'
  BY <1>1 DEF PointerInv, ChainsHold, Searching, WithinLimit, Resolve
<1> QED
  BY <1>6, <1>7 DEF PointerInv

-----------------------------------------------------------------------------
(* The levels. *)

LevelAccounts == [chains : SUBSET Chains, next : Seq(Nodes), seen : Seq(Nat), cut : BOOLEAN, stop : BOOLEAN]

\* What a level has found so far, and the nodes for the next one, lead to the target.
OpenLevel(a, o, M, to) ==
    /\ a \in LevelAccounts /\ Len(a.seen) = Len(frontier)
    /\ GoodChains(a.chains, base, o, M, to) /\ (~a.stop => Cardinality(a.chains) < o.chains)
    /\ NodesLead(a.next, M, to)

LevelAccount(c, chains_, next_, seen_, stop_) ==
    c \in LevelAccounts /\ c.chains = chains_ /\ c.next = next_ /\ c.seen = seen_ /\ c.stop = stop_

(* An account of a level with a limit met.                                                *)
LEMMA LevelCut ==
    ASSUME NEW a \in LevelAccounts
    PROVE  LevelAccount([a EXCEPT !.cut = TRUE], a.chains, a.next, a.seen, a.stop)
BY DEF LevelAccount, LevelAccounts

(* An account with one parent more for a node.                                            *)
LEMMA LevelSeen ==
    ASSUME NEW a \in LevelAccounts, NEW n \in 1..Len(a.seen)
    PROVE  LevelAccount([a EXCEPT !.seen[n] = @ + 1], a.chains, a.next, [a.seen EXCEPT ![n] = @ + 1], a.stop)
<1> DEFINE more == [a.seen EXCEPT ![n] = @ + 1]
<1>1. more \in Seq(Nat)
  BY DEF LevelAccounts
<1>2. [a EXCEPT !.seen[n] = @ + 1] = [a EXCEPT !.seen = more]
  OBVIOUS
<1> HIDE DEF more
<1>3. LevelAccount([a EXCEPT !.seen = more], a.chains, a.next, more, a.stop)
  BY <1>1 DEF LevelAccount, LevelAccounts
<1> QED
  BY <1>2, <1>3 DEF more

(* An account with these chains.                                                          *)
LEMMA LevelChains ==
    ASSUME NEW a \in LevelAccounts, NEW cs \in SUBSET Chains
    PROVE  LevelAccount([a EXCEPT !.chains = cs], cs, a.next, a.seen, a.stop)
BY DEF LevelAccount, LevelAccounts

(* An account that is full or not.                                                        *)
LEMMA LevelStop ==
    ASSUME NEW a \in LevelAccounts, NEW full, full \in BOOLEAN
    PROVE  LevelAccount([a EXCEPT !.cut = @ \/ full, !.stop = full], a.chains, a.next, a.seen, full)
BY DEF LevelAccount, LevelAccounts

(* An account with these nodes for the next level.                                        *)
LEMMA LevelNext ==
    ASSUME NEW a \in LevelAccounts, NEW nodes \in Seq(Nodes)
    PROVE  LevelAccount([a EXCEPT !.next = nodes], a.chains, nodes, a.seen, a.stop)
BY DEF LevelAccount, LevelAccounts

NodeLeads(node, slot, M, to) ==
    node \in Nodes /\ node.at = slot /\ \A m \in M : Trail(slot, node.offsets, m) = to

(* A pointer near a node, put before it, leads where the node leads. *)
LEMMA NodeOnward ==
    ASSUME NEW slot \in Slots, slots \in [Slots -> PointerValues], NEW tail \in Nodes, NEW to,
           NEW M \in SUBSET {slots}, \A m \in M : Trail(tail.at, tail.offsets, m) = to
    PROVE  NodeLeads(Node(slot, tail, tail.at - slots[slot]), slot, M, to)
<1> DEFINE gap == tail.at - slots[slot]
           offsets == <<gap>> \o tail.offsets
<1>1. /\ slot \in Nat /\ slots[slot] \in Nat /\ tail.at \in Nat /\ gap \in Int /\ Memory(slots)
      /\ tail.offsets \in Seq(Int) /\ tail.path \in Seq(Nat) /\ tail.score \in Nat
      /\ slots[slot] + gap = tail.at
  <2>1. slot \in Nat /\ slots[slot] \in Nat /\ Memory(slots)
    BY SlotsAre
  <2>2. tail.at \in Nat /\ tail.offsets \in Seq(Int) /\ tail.path \in Seq(Nat) /\ tail.score \in Nat
    BY SlotsAre DEF Nodes
  <2> QED
    BY <2>1, <2>2
<1> HIDE DEF gap
<1>2. offsets \in Seq(Int) /\ <<slot>> \o tail.path \in Seq(Nat) /\ tail.score + Distance(gap, 0) \in Nat
  BY <1>1 DEF Distance
<1>3. \A m \in M : Trail(slot, offsets, m) = to
  <2> SUFFICES ASSUME NEW m \in M PROVE Trail(slot, offsets, m) = to
    OBVIOUS
  <2>1. m = slots /\ slot \in DOMAIN m /\ slot \in Int
    BY <1>1
  <2>2. Trail(slot, <<gap>> \o tail.offsets, m) = Trail(m[slot] + gap, tail.offsets, m)
    BY <1>1, <2>1, TrailOnward
  <2> QED
    BY <1>1, <2>1, <2>2
<1> DEFINE node == Node(slot, tail, gap)
<1>4. node = [at |-> slot, path |-> <<slot>> \o tail.path, offsets |-> offsets, score |-> tail.score + Distance(gap, 0)]
  BY DEF Node
<1> HIDE DEF node, offsets
<1>5. node \in Nodes /\ node.at = slot /\ node.offsets = offsets
  BY <1>1, <1>2, <1>4, SlotsAre DEF Nodes
<1>6. NodeLeads(node, slot, M, to)
  BY <1>3, <1>5 DEF NodeLeads
<1> QED
  BY <1>6 DEF node, gap

(* Looking at one slot keeps it so. *)
LEMMA VisitedIsGood ==
    ASSUME PointerTyped, NEW o, o.chains \in Nat, Ranged(o), NEW to, NEW M \in SUBSET {slots},
           NodesLead(frontier, M, to), NEW slot \in Slots, NEW a, OpenLevel(a, o, M, to)
    PROVE  OpenLevel(Visited(a, slot, o), o, M, to)
<1> DEFINE v    == slots[slot]
           n    == CHOOSE m \in Pick(v, o) : TRUE
           tail == frontier[n]
           node == Node(slot, tail, tail.at - v)
           b    == [a EXCEPT !.seen[n] = @ + 1]
           chain == [root |-> slot - base, offsets |-> node.offsets]
           c    == [b EXCEPT !.chains = @ \cup {chain}]
           full == Cardinality(c.chains) >= o.chains
           Ok(x) == OpenLevel(x, o, M, to)
<1>1. Visited(a, slot, o) =
        IF a.stop \/ Pick(v, o) = {} THEN a
        ELSE IF a.seen[n] >= o.perNode THEN [a EXCEPT !.cut = TRUE]
        ELSE IF slot \in Range(frontier[n].path) THEN a
        ELSE IF Static(slot, base) THEN [c EXCEPT !.cut = @ \/ full, !.stop = full]
        ELSE IF Len(node.offsets) >= o.depth THEN b
        ELSE [b EXCEPT !.next = Append(@, node)]
  BY DEF Visited
<1>2. a \in LevelAccounts /\ Ok(a) /\ Len(a.seen) = Len(frontier) /\ Len(frontier) \in Nat
  BY DEF OpenLevel, PointerTyped
<1>3. Ok([a EXCEPT !.cut = TRUE])
  <2> DEFINE x == [a EXCEPT !.cut = TRUE]
  <2>1. LevelAccount(x, a.chains, a.next, a.seen, a.stop)
    BY <1>2, LevelCut
  <2> HIDE DEF x
  <2>2. Ok(x)
    BY <2>1 DEF LevelAccount, OpenLevel
  <2> QED
    BY <2>2 DEF x
<1>4. ASSUME Pick(v, o) # {}, ~a.stop
      PROVE  /\ Ok(b) /\ Ok([b EXCEPT !.next = Append(@, node)])
             /\ Static(slot, base) => Ok([c EXCEPT !.cut = @ \/ full, !.stop = full])
  <2>1. n \in DOMAIN frontier
    BY <1>4 DEF Pick
  <2> HIDE DEF n
  <2>2. n \in 1..Len(frontier) /\ tail \in Nodes /\ \A m \in M : Trail(tail.at, tail.offsets, m) = to
    BY <2>1 DEF PointerTyped, NodesLead
  <2>3. node \in Nodes /\ node.at = slot /\ \A m \in M : Trail(slot, node.offsets, m) = to
    <3>1. slots \in [Slots -> PointerValues]
      BY DEF PointerTyped
    <3> HIDE DEF tail
    <3>2. NodeLeads(Node(slot, tail, tail.at - slots[slot]), slot, M, to)
      BY <2>2, <3>1, NodeOnward, Zenon
    <3> QED
      BY <3>2 DEF NodeLeads
  <2> HIDE DEF node
  <2>4. LevelAccount(b, a.chains, a.next, [a.seen EXCEPT ![n] = @ + 1], a.stop)
    BY <1>2, <2>2, LevelSeen
  <2>5. Len([a.seen EXCEPT ![n] = @ + 1]) = Len(a.seen)
    BY <1>2, <2>2 DEF LevelAccounts
  <2> HIDE DEF b
  <2>6. b \in LevelAccounts /\ Len(b.seen) = Len(frontier) /\ Ok(b) /\ ~b.stop
    BY <1>2, <1>4, <2>4, <2>5 DEF LevelAccount, OpenLevel
  <2>7. Ok([b EXCEPT !.next = Append(@, node)])
    <3> DEFINE longer == Append(b.next, node)
               x == [b EXCEPT !.next = longer]
    <3>1. /\ b.next \in Seq(Nodes) /\ longer \in Seq(Nodes) /\ Len(longer) = Len(b.next) + 1
          /\ \A i \in 1..Len(longer) : longer[i] = IF i <= Len(b.next) THEN b.next[i] ELSE node
      BY <2>3, <2>6 DEF LevelAccounts
    <3>2. NodesLead(longer, M, to)
      <4> HIDE DEF longer
      <4>1. NodesLead(b.next, M, to) /\ Len(b.next) \in Nat
        BY <2>6, <3>1 DEF OpenLevel
      <4>2. ASSUME NEW i \in 1..Len(longer), NEW m \in M PROVE Trail(longer[i].at, longer[i].offsets, m) = to
        <5>1. CASE i <= Len(b.next)
          <6>1. i \in 1..Len(b.next) /\ longer[i] = b.next[i]
            BY <3>1, <4>1, <5>1
          <6> QED
            BY <4>1, <6>1 DEF NodesLead
        <5>2. CASE ~(i <= Len(b.next))
          BY <2>3, <3>1, <5>2
        <5> QED
          BY <5>1, <5>2
      <4> QED
        BY <3>1, <4>2 DEF NodesLead
    <3> HIDE DEF longer
    <3>3. LevelAccount(x, b.chains, longer, b.seen, b.stop)
      BY <2>6, <3>1, LevelNext
    <3> HIDE DEF x
    <3>4. Ok(x)
      BY <2>6, <3>2, <3>3 DEF LevelAccount, OpenLevel
    <3> QED
      BY <3>4 DEF x, longer
  <2>8. ASSUME Static(slot, base) PROVE Ok([c EXCEPT !.cut = @ \/ full, !.stop = full])
    <3> DEFINE cs == b.chains \cup {chain}
               x  == [c EXCEPT !.cut = @ \/ full, !.stop = full]
    <3>1. base \in Nat /\ slot \in Nat /\ ModuleSlots \in Nat
      BY SlotsAre, PointerLimits DEF PointerTyped
    <3>2. slot - base \in Nat /\ slot - base < ModuleSlots /\ base + (slot - base) = slot
      BY <2>8, <3>1 DEF Static
    <3>3. chain \in Chains /\ chain.root = slot - base /\ chain.offsets = node.offsets
      BY <2>3, <3>2 DEF Chains, Nodes
    <3>4. \A m \in M : Follow(chain, base, m) = to
      BY <2>3, <3>1, <3>2, <3>3 DEF Follow
    <3> HIDE DEF chain
    <3>5. /\ b.chains \in SUBSET Chains /\ IsFiniteSet(b.chains) /\ Cardinality(b.chains) \in Nat
          /\ Cardinality(b.chains) < o.chains
          /\ AllLead(b.chains, base, M, to)
      BY <2>6, FS_CardinalityType DEF OpenLevel, GoodChains
    <3>6. IsFiniteSet(cs) /\ Cardinality(cs) \in Nat /\ Cardinality(cs) <= Cardinality(b.chains) + 1
      <4>1. IsFiniteSet(cs) /\ Cardinality(cs) = IF chain \in b.chains THEN Cardinality(b.chains) ELSE Cardinality(b.chains) + 1
        BY <3>5, FS_AddElement
      <4>2. Cardinality(cs) \in Nat
        BY <4>1, FS_CardinalityType
      <4> HIDE DEF cs
      <4> QED
        BY <3>5, <4>1, <4>2
    <3>7. cs \in SUBSET Chains /\ GoodChains(cs, base, o, M, to)
      BY <3>3, <3>4, <3>5, <3>6 DEF GoodChains, AllLead
    <3>8. LevelAccount(c, cs, b.next, b.seen, b.stop)
      BY <2>6, <3>7, LevelChains
    <3> HIDE DEF cs, c
    <3>9. c \in LevelAccounts /\ full \in BOOLEAN /\ (~full => Cardinality(cs) < o.chains)
      BY <3>6, <3>8 DEF LevelAccount
    <3>10. LevelAccount(x, c.chains, c.next, c.seen, full)
      <4> HIDE DEF full
      <4> QED
        BY <3>9, LevelStop
    <3> HIDE DEF x, full
    <3>11. Ok(x)
      BY <2>6, <3>7, <3>8, <3>9, <3>10 DEF LevelAccount, OpenLevel
    <3> QED
      BY <3>11 DEF x
  <2> QED
    BY <2>6, <2>7, <2>8
<1> HIDE DEF v, n, node, b, c, full, Ok
<1>5. Ok(Visited(a, slot, o))
  BY <1>1, <1>2, <1>3, <1>4
<1> QED
  BY <1>5 DEF Ok
\* The account after n slots.
AfterVisits(start, n, order, o) == Loop(start, n, LAMBDA a, k : Visited(a, order[k], o))

(* What every slot leads from one stage to the next ends in the last of them. *)
LEMMA VisitsStay ==
    ASSUME NEW start, NEW n \in Nat, NEW order, NEW o, NEW S, start \in S[0],
           \A k \in 1..n : \A a \in S[k - 1] : Visited(a, order[k], o) \in S[k]
    PROVE  AfterVisits(start, n, order, o) \in S[n]
<1> DEFINE Step(a, k) == Visited(a, order[k], o)
           Is(g) == g = [k \in 0..n |-> IF k = 0 THEN start ELSE Step(g[k - 1], k)]
           after == CHOOSE g : Is(g)
           G == [k \in 1..n |-> [a \in S[k - 1] |-> Step(a, k)]]
<1>1. AfterVisits(start, n, order, o) = after[n]
  BY DEF Loop, AfterVisits
<1> HIDE DEF after
<1>2. \A k \in 1..n : \A a \in S[k - 1] : G[k][a] = Step(a, k) /\ Step(a, k) \in S[k]
  OBVIOUS
<1> HIDE DEF Step, G
<1>3. \E g : Is(g)
  <2>1. PICK f : Stages(f, n, start, G, S)
    <3>1. Leads(n, start, G, S)
      BY <1>2 DEF Leads
    <3> QED
      BY <3>1, StagesAre
  <2> DEFINE g == [k \in 0..n |-> f[k]]
  <2>2. ASSUME NEW k \in 0..n PROVE f[k] = IF k = 0 THEN start ELSE Step(g[k - 1], k)
    <3>1. CASE k # 0
      <4>1. k \in 1..n /\ k - 1 \in 0..n
        BY <3>1
      <4> QED
        BY <2>1, <4>1, <1>2 DEF Stages
    <3> QED
      BY <3>1, <2>1 DEF Stages
  <2>3. Is(g)
    BY <2>2
  <2> QED
    BY <2>3
<1>4. Is(after)
  BY <1>3 DEF after
<1>5. after[0] = start /\ \A k \in 1..n : after[k] = Step(after[k - 1], k)
  <2>1. 0 \in 0..n /\ \A k \in 1..n : k \in 0..n /\ k # 0
    OBVIOUS
  <2> QED
    BY <1>4, <2>1
<1>6. \A k \in 0..n : after[k] \in S[k]
  <2>1. after[0] \in S[0] /\ \A k \in 1..n : after[k - 1] \in S[k - 1] => after[k] \in S[k]
    BY <1>2, <1>5
  <2> QED
    BY <2>1, StagesStay
<1> QED
  BY <1>1, <1>6

(* Looking at the slots of a part, one after the other, keeps it so. *)
LEMMA VisitsAreGood ==
    ASSUME PointerTyped, NEW o, o.chains \in Nat, Ranged(o), NEW to, NEW M \in SUBSET {slots},
           NodesLead(frontier, M, to), NEW start, OpenLevel(start, o, M, to),
           NEW n \in Nat, NEW order, \A k \in 1..n : order[k] \in Slots
    PROVE  OpenLevel(AfterVisits(start, n, order, o), o, M, to)
<1> DEFINE Opened == {a \in LevelAccounts : OpenLevel(a, o, M, to)}
           S == [k \in 0..n |-> Opened]
<1>1. \A k \in 0..n : S[k] = Opened
  OBVIOUS
<1>2. start \in S[0]
  BY DEF OpenLevel
<1>3. ASSUME NEW k \in 1..n, NEW a \in S[k - 1] PROVE Visited(a, order[k], o) \in S[k]
  <2>1. order[k] \in Slots /\ OpenLevel(a, o, M, to) /\ k \in 0..n
    OBVIOUS
  <2>2. OpenLevel(Visited(a, order[k], o), o, M, to)
    BY <2>1, VisitedIsGood
  <2> QED
    BY <1>1, <2>1, <2>2 DEF OpenLevel
<1> HIDE DEF S
<1>4. AfterVisits(start, n, order, o) \in S[n]
  BY <1>2, <1>3, VisitsStay
<1> QED
  BY <1>1, <1>4

(* A part of a level: nodes and chains go on leading to the target.                       *)
LEMMA LevelPartKeeps ==
    ASSUME PointerInv, NEW gone, NEW short, LevelPart(gone, short)
    PROVE  PointerInv'
<1> DEFINE o     == find.o
           to    == find.target
           asked == LevelSlots(find.part, o)
           there == Brought(asked, gone, short)
           order == Ordered(there)
           start == [chains |-> chains, next |-> next, seen |-> seen, cut |-> cut, stop |-> FALSE]
           after == AfterVisits(start, Len(order), order, o)
<1>1. /\ find # Absent /\ find.phase = "levels" /\ find.part \in DOMAIN Parts
      /\ chains' = after.chains /\ next' = after.next /\ seen' = after.seen /\ cut' = after.cut
      /\ PartRead(asked, gone, short, after.stop)
      /\ UNCHANGED <<slots, base, index, frontier, saved, maps, writes, leads, outcome>>
  BY DEF LevelPart, AfterVisits
<1>2. PointerTyped /\ Searching
  BY DEF PointerInv
<1>3. /\ find \in Finds /\ find.writes <= writes /\ outcome = Absent /\ find.for = "chains" /\ leads = {}
      /\ Cardinality(index) <= o.index /\ KnownIn(index, Still) /\ LevelsLead
  BY <1>1, <1>2 DEF Searching
<1>4. /\ o \in Options /\ o.chains \in Nat /\ Ranged(o)
      /\ find.part \in Nat /\ Len(Parts) \in Nat /\ find.part <= Len(Parts)
  BY <1>1, <1>3, PointerLimits, PointerTypes DEF Finds, Ranged
<1>5. Still \in SUBSET {slots}
  BY DEF Still
<1>17. asked \in SUBSET Slots
  BY <1>1, PointerTypes DEF LevelSlots
<1>6. Len(order) \in Nat /\ \A k \in 1..Len(order) : order[k] \in Slots
  <2>1. there \in SUBSET Slots
    BY <1>17, BroughtIs
  <2>2. there \in SUBSET Nat /\ IsFiniteSet(there)
    BY <2>1, SlotsAre, PointerTypes, FS_Subset
  <2> HIDE DEF there
  <2>3. order \in Seq(there)
    BY <2>2, OrderedIs
  <2> HIDE DEF order
  <2> QED
    BY <2>1, <2>3
<1>7. OpenLevel(start, o, Still, to)
  <2>1. /\ start.chains = chains /\ start.next = next /\ start.seen = seen /\ start \in LevelAccounts
    BY <1>2 DEF PointerTyped, LevelAccounts
  <2> HIDE DEF start
  <2> QED
    BY <1>2, <1>3, <1>4, <2>1 DEF OpenLevel, LevelsLead, PointerTyped
<1> HIDE DEF start, order, asked
<1>8. OpenLevel(after, o, Still, to)
  <2>1. NodesLead(frontier, Still, to)
    BY <1>3 DEF LevelsLead
  <2> DEFINE n == Len(order)
  <2>2. n \in Nat /\ \A k \in 1..n : order[k] \in Slots
    BY <1>6
  <2> HIDE DEF n
  <2>3. OpenLevel(AfterVisits(start, n, order, o), o, Still, to)
    BY <1>2, <1>4, <1>5, <1>7, <2>1, <2>2, VisitsAreGood
  <2> QED
    BY <2>3 DEF n
<1> HIDE DEF after
<1>9. /\ after \in LevelAccounts /\ after.stop \in BOOLEAN /\ after.chains \in SUBSET Chains /\ after.next \in Seq(Nodes)
      /\ after.seen \in Seq(Nat) /\ after.cut \in BOOLEAN /\ Len(after.seen) = Len(frontier)
      /\ GoodChains(after.chains, base, o, Still, to) /\ NodesLead(after.next, Still, to)
      /\ ~after.stop => Cardinality(after.chains) < o.chains
  BY <1>8 DEF OpenLevel, LevelAccounts
<1>11. /\ find' \in Finds /\ find'.o = o /\ find'.for = "chains" /\ find'.phase = "levels"
       /\ find'.target = to /\ find'.writes = find.writes
       /\ find'.part = IF after.stop THEN Len(Parts) + 1 ELSE find.part + 1
  <2> DEFINE last == after.stop
  <2>1. find \in Finds /\ last \in BOOLEAN /\ PartRead(asked, gone, short, last)
    BY <1>1, <1>3, <1>9
  <2> HIDE DEF last
  <2>2. /\ find' \in Finds /\ find'.o = find.o /\ find'.for = find.for /\ find'.phase = find.phase
        /\ find'.target = find.target /\ find'.writes = find.writes
        /\ find'.part = IF last THEN Len(Parts) + 1 ELSE find.part + 1
    <3>1. Onwards(asked, gone, short, last)
      BY <1>17, <2>1, PartReadIs
    <3> QED
      BY <3>1 DEF Onwards
  <2> QED
    BY <1>1, <1>3, <2>2 DEF last
<1>10. find'.part <= Len(Parts) => ~after.stop
  BY <1>4, <1>11
<1>12. Still' = Still
  BY <1>1, <1>11 DEF Still
<1>13. PointerTyped'
  BY <1>1, <1>2, <1>9 DEF PointerTyped, GoodChains
<1>14. LevelsLead'
  <2>1. NodesLead(frontier', Still', to) /\ NodesLead(next', Still', to)
    BY <1>1, <1>3, <1>9, <1>12 DEF LevelsLead
  <2> QED
    BY <1>1, <1>9, <1>10, <1>11, <1>12, <2>1 DEF LevelsLead
<1>15. Searching'
  BY <1>1, <1>3, <1>11, <1>12, <1>14 DEF Searching
<1>16. ChainsHold' /\ WithinLimit'
  BY <1>1, <1>3 DEF ChainsHold, WithinLimit
<1> QED
  BY <1>13, <1>15, <1>16 DEF PointerInv

(* Of some members with numbers one has the least. *)
LEMMA OneIsLeast ==
    ASSUME NEW S, S # {}, NEW f, \A n \in S : f[n] \in Nat
    PROVE  \E n \in S : \A m \in S : f[n] <= f[m]
<1> DEFINE T == {f[n] : n \in S}
<1>1. T \in SUBSET Nat /\ T # {}
  OBVIOUS
<1>2. \E i \in T : \A j \in T : i <= j
  <2> HIDE DEF T
  <2> QED
    BY <1>1, LeastIs
<1> QED
  BY <1>2

(* Of the nodes for the next level each address keeps one. *)
LEMMA DedupedIs ==
    ASSUME NEW nodes \in Seq(Nodes)
    PROVE  /\ Deduped(nodes) \in Seq(Nodes)
           /\ \A i \in 1..Len(Deduped(nodes)) : \E n \in 1..Len(nodes) : Deduped(nodes)[i] = nodes[n]
           /\ \A n \in 1..Len(nodes) : \E i \in 1..Len(Deduped(nodes)) : Deduped(nodes)[i].at = nodes[n].at
<1> DEFINE best(n) == \A m \in DOMAIN nodes : nodes[m].at = nodes[n].at =>
                         nodes[n].score < nodes[m].score \/ (nodes[n].score = nodes[m].score /\ n <= m)
           Kept == {k \in DOMAIN nodes : best(k)}
           T == {nodes[n] : n \in Kept}
           R == {p \in T \X T : p[1].at < p[2].at}
<1>1. DOMAIN nodes = 1..Len(nodes) /\ Len(nodes) \in Nat
      /\ \A n \in 1..Len(nodes) : nodes[n] \in Nodes /\ nodes[n].at \in Nat /\ nodes[n].score \in Nat
  <2>1. DOMAIN nodes = 1..Len(nodes) /\ Len(nodes) \in Nat /\ \A n \in 1..Len(nodes) : nodes[n] \in Nodes
    OBVIOUS
  <2>2. \A x \in Nodes : x.at \in Nat /\ x.score \in Nat
    BY SlotsAre DEF Nodes
  <2> QED
    BY <2>1, <2>2
<1>2. \A n, m \in Kept : nodes[n].at = nodes[m].at => n = m
  <2> SUFFICES ASSUME NEW n \in Kept, NEW m \in Kept, nodes[n].at = nodes[m].at PROVE n = m
    OBVIOUS
  <2>1. n \in Nat /\ m \in Nat /\ n \in DOMAIN nodes /\ m \in DOMAIN nodes /\ best(n) /\ best(m)
        /\ nodes[n].score \in Nat /\ nodes[m].score \in Nat
    BY <1>1
  <2> QED
    BY <2>1
<1>13. ASSUME NEW n \in 1..Len(nodes) PROVE \E k \in Kept : nodes[k].at = nodes[n].at
  <2> DEFINE A == {k \in 1..Len(nodes) : nodes[k].at = nodes[n].at}
             score == [k \in A |-> nodes[k].score]
             B == {k \in A : \A m \in A : score[k] <= score[m]}
  <2>1. \A k \in A : score[k] \in Nat /\ score[k] = nodes[k].score /\ k \in 1..Len(nodes) /\ nodes[k].at = nodes[n].at
    BY <1>1
  <2>2. n \in A
    OBVIOUS
  <2>3. \A m \in DOMAIN nodes : nodes[m].at = nodes[n].at => m \in A
    BY <1>1
  <2> HIDE DEF A, score
  <2>4. B # {}
    BY <2>1, <2>2, OneIsLeast
  <2>5. B \in SUBSET Nat
    BY <1>1, <2>1
  <2>6. \E k \in B : \A m \in B : k <= m
    <3> HIDE DEF B
    <3> QED
      BY <2>4, <2>5, LeastIs
  <2>7. PICK k \in B : \A m \in B : k <= m
    BY <2>6
  <2>8. k \in DOMAIN nodes /\ nodes[k].at = nodes[n].at /\ nodes[k].score \in Nat /\ score[k] = nodes[k].score
    BY <1>1, <2>1
  <2>9. ASSUME NEW m \in DOMAIN nodes, nodes[m].at = nodes[k].at
        PROVE  nodes[k].score < nodes[m].score \/ (nodes[k].score = nodes[m].score /\ k <= m)
    <3>1. m \in A /\ score[m] = nodes[m].score /\ score[m] \in Nat /\ score[k] <= score[m]
      BY <2>1, <2>3, <2>8, <2>9
    <3>2. CASE score[k] = score[m]
      <4>1. m \in B
        BY <3>1, <3>2
      <4> QED
        BY <2>7, <2>8, <3>1, <3>2, <4>1
    <3>3. CASE score[k] # score[m]
      BY <2>8, <3>1, <3>3
    <3> QED
      BY <3>2, <3>3
  <2>10. k \in Kept
    BY <2>8, <2>9
  <2> HIDE DEF Kept
  <2> QED
    BY <2>8, <2>10
<1> HIDE DEF best
<1>3. IsFiniteSet(T)
  <2>1. IsFiniteSet(Kept)
    <3>0. 1 \in Int /\ Len(nodes) \in Int
      BY <1>1
    <3>1. IsFiniteSet(1..Len(nodes))
      BY <3>0, FS_Interval
    <3> QED
      BY <1>1, <3>1, FS_Subset
  <2> DEFINE f == [n \in Kept |-> nodes[n]]
  <2>2. f \in Surjection(Kept, T)
    BY DEF Surjection
  <2> HIDE DEF f, T, Kept
  <2> QED
    BY <2>1, <2>2, FS_Surjection
<1>4. \A a \in T : a \in Nodes /\ a.at \in Nat /\ \E n \in 1..Len(nodes) : a = nodes[n]
  BY <1>1
<1>5. \A a, b \in T : a.at = b.at => a = b
  BY <1>2
<1>14. \A n \in 1..Len(nodes) : \E a \in T : a.at = nodes[n].at
  <2> HIDE DEF Kept
  <2> QED
    BY <1>13
<1> HIDE DEF Kept
<1>6. Deduped(nodes)
      = [i \in 1..Cardinality(T) |-> CHOOSE c \in T : Cardinality({d \in T : d.at < c.at}) = i - 1]
  BY DEF Deduped, OrderedBy, Kept, best
<1> HIDE DEF T
<1>7. \A a, b \in T : <<a, b>> \in R <=> a.at < b.at
  OBVIOUS
<1> HIDE DEF R
<1>8. Orders(R, T)
  <2>1. \A a \in T : <<a, a>> \notin R
    BY <1>4, <1>7
  <2>2. \A a \in T : a.at \in Nat
    BY <1>4
  <2>3. ASSUME NEW a \in T, NEW b \in T PROVE a = b \/ <<a, b>> \in R \/ <<b, a>> \in R
    <3>1. a.at \in Nat /\ b.at \in Nat
      BY <2>2
    <3>2. a.at < b.at \/ b.at < a.at \/ a.at = b.at
      BY <3>1
    <3> QED
      BY <1>5, <1>7, <3>2
  <2>4. ASSUME NEW a \in T, NEW b \in T, NEW d \in T, <<a, b>> \in R, <<b, d>> \in R PROVE <<a, d>> \in R
    <3>1. a.at < b.at /\ b.at < d.at
      BY <1>7, <2>4
    <3>2. a.at < d.at
      BY <2>2, <3>1
    <3> QED
      BY <1>7, <3>2
  <2> QED
    BY <2>1, <2>3, <2>4 DEF Orders
<1>9. Deduped(nodes) = ListOf(T, R)
  <2>1. \A c \in T : {d \in T : d.at < c.at} = {d \in T : <<d, c>> \in R}
    BY <1>7
  <2>2. \A i \in 1..Cardinality(T) :
          (CHOOSE c \in T : Cardinality({d \in T : d.at < c.at}) = i - 1)
          = CHOOSE c \in T : Cardinality({d \in T : <<d, c>> \in R}) = i - 1
    BY <2>1
  <2> QED
    BY <1>6, <2>2 DEF ListOf
<1>10. ListsOnce(ListOf(T, R), T, R)
  BY <1>3, <1>8, ListIs
<1> DEFINE s == Deduped(nodes)
<1>11. s \in Seq(T) /\ T \in SUBSET Nodes
  BY <1>4, <1>9, <1>10 DEF ListsOnce
<1>15. \A c \in T : \E i \in 1..Len(s) : s[i] = c
  BY <1>9, <1>10 DEF ListsOnce
<1> HIDE DEF s
<1>12. s \in Seq(Nodes) /\ \A i \in 1..Len(s) : s[i] \in T
  BY <1>11
<1>16. \A n \in 1..Len(nodes) : \E i \in 1..Len(s) : s[i].at = nodes[n].at
  BY <1>14, <1>15
<1> QED
  BY <1>4, <1>12, <1>16 DEF s

(* The end of a level: the next one has nodes that lead to the target, or it was the last. *)
LEMMA LevelEndsKeeps ==
    ASSUME PointerInv, LevelEnds
    PROVE  PointerInv'
<1> DEFINE o  == find.o
           to == find.target
<1>1. /\ find # Absent /\ find.phase = "levels"
      /\ UNCHANGED <<slots, base, index, chains, cut, saved, maps, writes>>
      /\ IF chains # {} \/ next = <<>>
         THEN NoSearch /\ Done("levels", 0)
         ELSE /\ frontier' = Deduped(next)
              /\ seen' = [n \in DOMAIN frontier' |-> 0]
              /\ next' = <<>>
              /\ find' = [find EXCEPT !.part = 1]
              /\ UNCHANGED <<leads, outcome>>
  BY DEF LevelEnds
<1>2. PointerTyped /\ Searching
  BY DEF PointerInv
<1>3. /\ find \in Finds /\ find.writes <= writes /\ outcome = Absent /\ find.for = "chains" /\ leads = {}
      /\ Cardinality(index) <= o.index /\ KnownIn(index, Still) /\ LevelsLead
  BY <1>1, <1>2 DEF Searching
<1>4. CASE chains # {} \/ next = <<>>
  <2>1. find' = Absent /\ leads' = Undisturbed /\ outcome'.o = o /\ NoSearch
    BY <1>1, <1>4 DEF Done
  <2>2. frontier' = <<>> /\ next' = <<>> /\ seen' = <<>>
    BY <2>1 DEF NoSearch
  <2>3. PointerTyped'
    <3>1. frontier' \in Seq(Nodes) /\ next' \in Seq(Nodes) /\ seen' \in Seq(Nat) /\ Len(seen') = Len(frontier')
      BY <2>2
    <3> QED
      BY <1>1, <1>2, <3>1 DEF PointerTyped
  <2>4. GoodChains(chains, base, o, Still, to)
    BY <1>3 DEF LevelsLead
  <2>5. ChainsHold'
    <3> SUFFICES ASSUME NEW c \in chains, NEW w \in Undisturbed PROVE Resolve(c, w) = w.target
      BY <1>1, <2>1 DEF ChainsHold, Resolve
    <3>1. slots \in Still /\ w.base = base /\ w.memory = slots /\ w.target = to
      BY DEF Undisturbed, Still, World
    <3>2. Follow(c, base, slots) = to
      BY <2>4, <3>1 DEF GoodChains, AllLead
    <3> QED
      BY <3>1, <3>2 DEF Resolve
  <2>6. Searching' /\ WithinLimit'
    BY <1>1, <2>1, <2>4 DEF Searching, WithinLimit, GoodChains
  <2> QED
    BY <2>3, <2>5, <2>6 DEF PointerInv
<1>5. CASE ~(chains # {} \/ next = <<>>)
  <2>1. /\ chains = {} /\ frontier' = Deduped(next) /\ seen' = [n \in DOMAIN frontier' |-> 0]
        /\ next' = <<>> /\ find' = [find EXCEPT !.part = 1] /\ UNCHANGED <<leads, outcome>>
    BY <1>1, <1>5
  <2>2. /\ find' \in Finds /\ find'.o = o /\ find'.for = "chains" /\ find'.phase = "levels" /\ find'.part = 1
        /\ find'.target = to /\ find'.writes = find.writes
    BY <1>1, <1>3, <2>1 DEF Finds
  <2>3. Still' = Still
    BY <1>1, <2>2 DEF Still
  <2>4. NodesLead(next', Still', to)
    BY <2>1, NoNodes
  <2>5. NodesLead(frontier', Still', to)
    <3>1. /\ frontier' \in Seq(Nodes)
          /\ \A i \in 1..Len(frontier') : \E n \in 1..Len(next) : frontier'[i] = next[n]
      BY <1>2, <2>1, DedupedIs DEF PointerTyped
    <3>2. NodesLead(next, Still, to)
      BY <1>3 DEF LevelsLead
    <3> QED
      BY <2>3, <3>1, <3>2 DEF NodesLead
  <2>6. seen' \in Seq(Nat) /\ Len(seen') = Len(frontier')
    <3>1. DOMAIN frontier' = 1..Len(frontier') /\ Len(frontier') \in Nat
      BY <2>5 DEF NodesLead
    <3>2. seen' \in [1..Len(frontier') -> Nat]
      BY <2>1, <3>1
    <3> QED
      BY <3>1, <3>2, FunctionsAreSequences
  <2>7. PointerTyped'
    BY <1>1, <1>2, <2>4, <2>5, <2>6 DEF PointerTyped, NodesLead
  <2>8. LevelsLead'
    <3>1. o.chains \in Nat \ {0}
      BY <1>3, PointerLimits DEF Finds
    <3>2. GoodChains(chains', base', o, Still', to) /\ Cardinality(chains') < o.chains
      BY <1>1, <2>1, <3>1, EmptyChains DEF GoodChains, AllLead
    <3> QED
      BY <2>2, <2>4, <2>5, <3>2 DEF LevelsLead
  <2>9. Searching'
    BY <1>1, <1>3, <2>1, <2>2, <2>3, <2>8 DEF Searching
  <2>10. ChainsHold' /\ WithinLimit'
    BY <1>1, <1>3, <2>1 DEF ChainsHold, WithinLimit
  <2> QED
    BY <2>7, <2>9, <2>10 DEF PointerInv
<1> QED
  BY <1>4, <1>5

-----------------------------------------------------------------------------
(* The chains and the maps. *)

(* A rescan keeps the chains that lead to its target.                                     *)
LEMMA RescanKeeps ==
    ASSUME PointerInv, NEW to \in Targets, Rescan(to)
    PROVE  PointerInv'
<1>1. /\ find' = Absent /\ chains' = {c \in chains : Resolve(c, World(to)) = to}
      /\ leads' = {World(to)} /\ outcome' = Absent
      /\ UNCHANGED <<slots, base, index, frontier, next, seen, cut, saved, maps, writes>>
  BY DEF Rescan, Ready
<1>2. PointerTyped'
  BY <1>1, FS_Subset DEF PointerInv, PointerTyped
<1>3. ChainsHold'
  <2>1. World(to).target = to
    BY DEF World
  <2> QED
    BY <1>1, <2>1 DEF ChainsHold, Resolve
<1>4. Searching' /\ WithinLimit'
  BY <1>1 DEF Searching, WithinLimit
<1> QED
  BY <1>2, <1>3, <1>4 DEF PointerInv

(* Loading a map changes no chain.                                                        *)
LEMMA LoadMapKeeps ==
    ASSUME PointerInv, NEW m \in saved, LoadMap(m)
    PROVE  PointerInv'
<1>1. /\ find' = Absent /\ maps' = Append(maps, m)
      /\ UNCHANGED <<slots, base, index, frontier, next, seen, chains, cut, saved, writes, leads, outcome>>
  BY DEF LoadMap, Ready
<1>2. PointerTyped'
  BY <1>1 DEF PointerInv, PointerTyped
<1>3. ChainsHold' /\ Searching' /\ WithinLimit'
  BY <1>1 DEF PointerInv, ChainsHold, Searching, WithinLimit, Resolve
<1> QED
  BY <1>2, <1>3 DEF PointerInv

(* A chain that holds in a map leads to the target in each memory the map was made from. *)
LEMMA HoldsInIs ==
    ASSUME NEW m, TrueMap(m), NEW c \in Chains, HoldsIn(c, m), NEW w \in m.truth
    PROVE  Resolve(c, w) = w.target
<1> DEFINE part == [a \in {e.address : e \in m.entries} |-> (CHOOSE e \in m.entries : e.address = a).value]
<1>1. /\ w.memory \in [Slots -> PointerValues] /\ w.base = m.base /\ w.target = m.target
      /\ m.target \in Nat /\ m.base \in Nat /\ Memory(w.memory) /\ c.root \in Nat /\ c.offsets \in Seq(Int)
      /\ \A e \in m.entries : w.memory[e.address] = e.value /\ e.value \in Nat /\ e.address \in Slots /\ e.address \in Nat
  BY SlotsAre DEF TrueMap, Chains
<1>2. \A x \in DOMAIN part : \E e \in m.entries : e.address = x /\ part[x] = e.value
  OBVIOUS
<1>3. Follow(c, m.base, part) = m.target
  BY DEF HoldsIn, ResolveInMap
<1> HIDE DEF part
<1>4. Memory(part) /\ \A x \in DOMAIN part : x \in DOMAIN w.memory /\ w.memory[x] = part[x]
  <2>1. ASSUME NEW x \in DOMAIN part
        PROVE  x \in Slots /\ x \in Int /\ part[x] \in Int /\ w.memory[x] = part[x]
    <3>1. PICK e \in m.entries : e.address = x /\ part[x] = e.value
      BY <1>2
    <3>2. e.value \in Nat /\ e.address \in Nat /\ e.address \in Slots /\ w.memory[e.address] = e.value
      BY <1>1
    <3>3. e.address \in Int /\ e.value \in Int
      BY <3>2
    <3> QED
      BY <3>1, <3>2, <3>3, Zenon
  <2>2. DOMAIN w.memory = Slots
    BY <1>1
  <2> QED
    BY <2>1, <2>2, Zenon DEF Memory
<1>5. /\ c.root < ModuleSlots /\ Trail(m.base + c.root, c.offsets, part) = m.target
      /\ m.target # Absent /\ m.base + c.root \in Int
  BY <1>1, <1>3, PointerLimits, PointerTypes DEF Follow
<1>6. Trail(m.base + c.root, c.offsets, w.memory) = m.target
  <2> DEFINE a == m.base + c.root
             memory_ == w.memory
             offsets == c.offsets
  <2>1. a \in Int /\ Trail(a, offsets, part) # Absent /\ Absent \notin Int
    BY <1>5, PointerTypes
  <2> HIDE DEF a
  <2>2. Memory(memory_) /\ offsets \in Seq(Int) /\ \A x \in DOMAIN part : x \in DOMAIN memory_ /\ memory_[x] = part[x]
    BY <1>1, <1>4
  <2> HIDE DEF memory_, offsets
  <2>3. Trail(a, offsets, memory_) = Trail(a, offsets, part)
    BY <1>4, <2>1, <2>2, TrailAgrees
  <2> QED
    BY <1>5, <2>3 DEF a, memory_, offsets
<1>7. ModuleSlots \in Nat
  BY PointerLimits
<1> QED
  BY <1>1, <1>5, <1>6, <1>7 DEF Resolve, Follow

(* The chains common to some maps lead to the target in each memory a map was made from.  *)
LEMMA CommonKeeps ==
    ASSUME PointerInv, NEW first, TrueMap(first), NEW rest, \A m \in rest : TrueMap(m), NEW o \in Options,
           find = Absent, SetCommon(first, rest, o)
    PROVE  PointerInv'
<1> DEFINE found == FindChains(first.entries, first.base, first.target, o)
           M == {w.memory : w \in first.truth}
<1>1. /\ chains' = {c \in found.chains : \A m \in rest : HoldsIn(c, m)} /\ cut' = found.cut /\ index' = {}
      /\ leads' = UNION {m.truth : m \in {first} \cup rest} /\ outcome' = Absent /\ find' = Absent
      /\ UNCHANGED <<slots, base, frontier, next, seen, saved, maps, writes>>
  BY DEF SetCommon
<1>2. /\ first.base \in Nat /\ first.target \in Nat /\ IsFiniteSet(first.entries)
      /\ first.entries \in SUBSET Entry /\ o.chains \in Nat /\ Ranged(o) /\ o.depth \in Nat /\ ModuleSlots \in Nat
  <2>1. /\ first.base \in Nat /\ first.target \in Nat /\ IsFiniteSet(first.entries)
        /\ first.entries \in SUBSET Entry
    BY SlotsAre, EntriesAre DEF TrueMap
  <2> QED
    BY <2>1, PointerLimits DEF Ranged
<1>3. KnownIn(first.entries, M)
  BY SlotsAre DEF TrueMap, KnownIn
<1>4. GoodAccount(found, first.base, o, M, first.target)
  <2> HIDE DEF M
  <2> QED
    BY <1>2, <1>3, FoundIsGood
<1> HIDE DEF found
<1>5. /\ found.chains \in SUBSET Chains /\ IsFiniteSet(found.chains) /\ found.cut \in BOOLEAN
      /\ \A c \in found.chains, m \in M : Follow(c, first.base, m) = first.target
  BY <1>4 DEF GoodAccount, GoodChains, Accounts, AllLead
<1>6. PointerTyped'
  <2>1. chains' \in SUBSET Chains /\ IsFiniteSet(chains')
    BY <1>1, <1>5, FS_Subset
  <2> QED
    BY <1>1, <1>5, <2>1, EmptyChains DEF PointerInv, PointerTyped
<1>7. ChainsHold'
  <2> SUFFICES ASSUME NEW c \in chains', NEW m \in {first} \cup rest, NEW w \in m.truth
               PROVE  Resolve(c, w) = w.target
    BY <1>1 DEF ChainsHold, Resolve
  <2>1. c \in found.chains /\ c \in Chains
    BY <1>1, <1>5
  <2>2. CASE m = first
    <3>1. w.memory \in M /\ w.base = first.base /\ w.target = first.target
      BY <2>2 DEF TrueMap
    <3> QED
      BY <1>5, <2>1, <3>1 DEF Resolve
  <2>3. CASE m \in rest
    <3>1. TrueMap(m) /\ HoldsIn(c, m)
      BY <1>1, <2>3
    <3> QED
      BY <2>1, <3>1, HoldsInIs
  <2> QED
    BY <2>2, <2>3
<1>8. Searching' /\ WithinLimit'
  BY <1>1 DEF Searching, WithinLimit
<1> QED
  BY <1>6, <1>7, <1>8 DEF PointerInv

(* So do those common to the maps loaded,                                                 *)
LEMMA CompareKeeps ==
    ASSUME PointerInv, NEW o \in Options, Compare(o)
    PROVE  PointerInv'
<1> DEFINE rest == {maps[i] : i \in 2 .. Len(maps)}
<1>1. find = Absent /\ maps # <<>> /\ SetCommon(maps[1], rest, o)
  BY DEF Compare, Ready
<1>2. /\ maps \in Seq(saved) /\ \A m \in saved : TrueMap(m)
  BY DEF PointerInv, PointerTyped
<1>3. TrueMap(maps[1]) /\ \A m \in rest : TrueMap(m)
  <2>1. Len(maps) \in Nat /\ Len(maps) # 0 /\ \A i \in 1..Len(maps) : maps[i] \in saved
    BY <1>1, <1>2
  <2>2. 1 \in 1..Len(maps) /\ \A i \in 2..Len(maps) : i \in 1..Len(maps)
    BY <2>1
  <2> QED
    BY <1>2, <2>1, <2>2
<1> DEFINE first == maps[1]
<1>4. TrueMap(first) /\ SetCommon(first, rest, o)
  BY <1>1, <1>3
<1> HIDE DEF first, rest
<1> QED
  BY <1>1, <1>3, <1>4, CommonKeeps

(* and to some map files.                                                                 *)
LEMMA CompareFilesKeeps ==
    ASSUME PointerInv, NEW o \in Options, NEW first \in saved, NEW rest \in SUBSET (saved \ {first}),
           CompareFiles(first, rest, o)
    PROVE  PointerInv'
<1>1. find = Absent /\ SetCommon(first, rest, o)
  BY DEF CompareFiles, Ready
<1>2. TrueMap(first) /\ \A m \in rest : TrueMap(m)
  BY DEF PointerInv, PointerTyped
<1> QED
  BY <1>1, <1>2, CommonKeeps

(* Forgetting the maps changes no chain.                                                  *)
LEMMA ClearMapsKeeps == ASSUME PointerInv, ClearMaps PROVE PointerInv'
<1>1. /\ find' = Absent /\ maps' = <<>>
      /\ UNCHANGED <<slots, base, index, frontier, next, seen, chains, cut, saved, writes, leads, outcome>>
  BY DEF ClearMaps, Ready
<1>2. PointerTyped'
  <2>1. maps' \in Seq(saved')
    BY <1>1
  <2> QED
    BY <1>1, <2>1 DEF PointerInv, PointerTyped
<1>3. ChainsHold' /\ Searching' /\ WithinLimit'
  BY <1>1 DEF PointerInv, ChainsHold, Searching, WithinLimit, Resolve
<1> QED
  BY <1>2, <1>3 DEF PointerInv

(* No chain, no claim.                                                                    *)
LEMMA ClearChainsKeeps == ASSUME PointerInv, ClearChains PROVE PointerInv'
<1>1. /\ find' = Absent /\ index' = {} /\ chains' = {} /\ leads' = {} /\ outcome' = Absent
      /\ UNCHANGED <<slots, base, frontier, next, seen, cut, saved, maps, writes>>
  BY DEF ClearChains, Ready
<1>2. PointerTyped'
  BY <1>1, EmptyChains DEF PointerInv, PointerTyped
<1>3. ChainsHold' /\ Searching' /\ WithinLimit'
  BY <1>1 DEF ChainsHold, Searching, WithinLimit
<1> QED
  BY <1>2, <1>3 DEF PointerInv

(* The chains outlive a restart of the target, as does what they held for.                *)
LEMMA PointerReattachKeeps ==
    ASSUME PointerInv, NEW w \in Worlds, PointerReattach(w) PROVE PointerInv'
<1>1. /\ find' = Absent /\ slots' = w.memory /\ base' = w.base /\ index' = {}
      /\ UNCHANGED <<frontier, next, seen, chains, cut, saved, maps, writes, leads, outcome>>
  BY DEF PointerReattach, Ready
<1>2. PointerTyped'
  BY <1>1, PointerTypes, EmptyChains DEF PointerInv, PointerTyped
<1>3. ChainsHold' /\ Searching' /\ WithinLimit'
  BY <1>1 DEF PointerInv, ChainsHold, Searching, WithinLimit, Resolve
<1> QED
  BY <1>2, <1>3 DEF PointerInv

(* Once the target has written in the midst of a search, nothing is claimed of it. *)
LEMMA SlotWrittenKeeps ==
    ASSUME PointerInv, NEW a \in Slots, NEW v \in PointerValues, SlotWritten(a, v) PROVE PointerInv'
<1>1. /\ writes' = writes + 1 /\ slots' = [slots EXCEPT ![a] = v]
      /\ UNCHANGED <<base, find, index, frontier, next, seen, chains, cut, saved, maps, leads, outcome>>
  BY DEF SlotWritten
<1>2. PointerTyped'
  BY <1>1 DEF PointerInv, PointerTyped
<1>3. ChainsHold' /\ WithinLimit'
  BY <1>1 DEF PointerInv, ChainsHold, WithinLimit, Resolve
<1>4. ASSUME find # Absent
      PROVE  /\ find \in Finds /\ find.writes <= writes' /\ outcome = Absent
             /\ find.for = "chains" => leads = {} /\ (find.phase = "index" => chains = {})
             /\ Cardinality(index) <= find.o.index /\ KnownIn(index, Still')
             /\ find.phase = "levels" => find.for = "chains" /\ LevelsLead'
  <2>1. /\ find \in Finds /\ find.writes <= writes /\ outcome = Absent
        /\ find.for = "chains" => leads = {} /\ (find.phase = "index" => chains = {})
        /\ Cardinality(index) <= find.o.index
        /\ find.phase = "levels" => find.for = "chains" /\ LevelsLead
    BY <1>4 DEF PointerInv, Searching
  <2>2. find.writes <= writes' /\ writes' # find.writes
    BY <1>1, <2>1 DEF PointerInv, PointerTyped, Finds
  <2>3. Still' = {}
    BY <1>1, <2>2 DEF Still
  <2>4. LevelsLead => LevelsLead'
    BY <1>1, <2>3 DEF LevelsLead, GoodChains, AllLead, NodesLead
  <2> QED
    BY <2>1, <2>2, <2>3, <2>4 DEF KnownIn
<1>5. Searching'
  BY <1>1, <1>4 DEF Searching
<1> QED
  BY <1>2, <1>3, <1>5 DEF PointerInv

(* The other tools leave the search for pointers alone.                                   *)
LEMMA PointersUntouched == ASSUME PointerInv, UNCHANGED searchVars PROVE PointerInv'
<1>1. UNCHANGED <<slots, base, find, index, frontier, next, seen, chains, cut, saved, maps, writes, leads, outcome>>
  BY DEF searchVars
<1>2. PointerTyped' /\ ChainsHold' /\ WithinLimit'
  BY <1>1 DEF PointerInv, PointerTyped, ChainsHold, WithinLimit, Resolve
<1>3. Still' = Still
  BY <1>1 DEF Still
<1>4. LevelsLead => LevelsLead'
  BY <1>1, <1>3 DEF LevelsLead
<1>5. Searching'
  BY <1>1, <1>3, <1>4 DEF PointerInv, Searching
<1> QED
  BY <1>2, <1>5 DEF PointerInv

(* Every step keeps the invariant.                                                        *)
LEMMA PointerStep == ASSUME PointerInv, [Next]_vars PROVE PointerInv'
<1>1. CASE PointerNext
  <2>1. ASSUME NEW to \in Targets, NEW o \in Options, Scan(to, o) PROVE PointerInv'
    BY <2>1, ScanKeeps
  <2>2. ASSUME NEW to \in Targets, NEW o \in Options, Capture(to, o) PROVE PointerInv'
    BY <2>2, CaptureKeeps
  <2>3. ASSUME NEW to \in Targets, Rescan(to) PROVE PointerInv'
    BY <2>3, RescanKeeps
  <2>4. ASSUME NEW m \in saved, LoadMap(m) PROVE PointerInv'
    BY <2>4, LoadMapKeeps
  <2>5. ASSUME NEW o \in Options, Compare(o) PROVE PointerInv'
    BY <2>5, CompareKeeps
  <2>6. ASSUME NEW o \in Options, NEW first \in saved, NEW rest \in SUBSET (saved \ {first}),
               CompareFiles(first, rest, o)
        PROVE  PointerInv'
    BY <2>6, CompareFilesKeeps
  <2>7. ASSUME NEW w \in Worlds, PointerReattach(w) PROVE PointerInv'
    BY <2>7, PointerReattachKeeps
  <2>8. ASSUME NEW a \in Slots, NEW v \in PointerValues, SlotWritten(a, v) PROVE PointerInv'
    BY <2>8, SlotWrittenKeeps
  <2>9. ASSUME NEW gone, NEW short, IndexPart(gone, short) PROVE PointerInv'
    BY <2>9, IndexPartKeeps
  <2>10. ASSUME NEW gone, NEW short, LevelPart(gone, short) PROVE PointerInv'
    BY <2>10, LevelPartKeeps
  <2> QED
    BY <1>1, <2>1, <2>2, <2>3, <2>4, <2>5, <2>6, <2>7, <2>8, <2>9, <2>10, SearchIndexKeeps, SaveMapKeeps,
       LevelEndsKeeps, ClearMapsKeeps, ClearChainsKeeps DEF PointerNext
<1>2. CASE UNCHANGED searchVars
  BY <1>2, PointersUntouched
<1>3. PointerNext \/ UNCHANGED searchVars
  BY DEF Next, vars
<1> QED
  BY <1>1, <1>2, <1>3

(* Every chain leads to the target of its search, whatever limits the search met. *)
THEOREM SpecChainsLead == Spec => []ChainsLead
<1>1. PointerInv => ChainsLead
  BY DEF PointerInv, ChainsHold, ChainsLead
<1> QED
  BY <1>1, PointerBegins, PointerStep, PTL DEF Spec

(* Every list of the pointer search stays within its type and within its limit.           *)
THEOREM SpecPointerTypeOK == Spec => []PointerTypeOK
<1>1. PointerInv => PointerTypeOK
  BY DEF PointerInv, PointerTyped, Searching, WithinLimit, PointerTypeOK
<1> QED
  BY <1>1, PointerBegins, PointerStep, PTL DEF Spec

-----------------------------------------------------------------------------
(* Rows of slots, which the chains of the search go along. *)

\* What slot i of a row has to point near.
Onward(r, i, w) == IF i = Len(r) THEN w.target ELSE r[i + 1]

\* A row of slots to the target as Rows has them; its first slot may be in a module or not.
IsRow(r, w, o, E) ==
    /\ r \in Seq(E \ {w.target})
    /\ \A i \in 1..Len(r) : Link(w.memory[r[i]], Onward(r, i, w), o)
    /\ \A i, j \in 1..Len(r) : r[i] = r[j] => i = j
    /\ \A i \in 2..Len(r) : ~Static(r[i], w.base)

\* What one more slot in front of a row has to point near.
Start(r, w) == IF r = <<>> THEN w.target ELSE r[1]

\* A row that no slot of a module ends.
Loose(r, w) == r # <<>> => ~Static(r[1], w.base)

\* The offsets of the chain along a row.
OffsetsOf(r, w) == [i \in DOMAIN r |-> Onward(r, i, w) - w.memory[r[i]]]

(* A slot put in front of a list. *)
LEMMA InFront ==
    ASSUME NEW T, NEW r \in Seq(T), NEW s \in T
    PROVE  LET q == <<s>> \o r
           IN  /\ q \in Seq(T) /\ q # <<>> /\ Len(q) = Len(r) + 1 /\ Len(r) \in Nat
               /\ DOMAIN q = 1..(Len(r) + 1) /\ DOMAIN r = 1..Len(r)
               /\ q[1] = s /\ \A i \in 1..Len(r) : q[i + 1] = r[i]
               /\ \A i \in 2..(Len(r) + 1) : q[i] = r[i - 1] /\ i - 1 \in 1..Len(r)
OBVIOUS

(* A row grows by a slot that points near its first one, is not in it and not the target, *)
(* as long as that first one is not in a module.                                          *)
LEMMA RowGrows ==
    ASSUME NEW w, NEW o, NEW E, NEW r \in Seq(E), NEW s \in E
    PROVE  IsRow(<<s>> \o r, w, o, E)
           <=> /\ IsRow(r, w, o, E) /\ Loose(r, w)
               /\ s # w.target /\ s \notin Range(r) /\ Link(w.memory[s], Start(r, w), o)
<1> DEFINE q == <<s>> \o r
           n == Len(r)
           t == w.target
<1>1. /\ q \in Seq(E) /\ q # <<>> /\ Len(q) = n + 1 /\ n \in Nat
      /\ DOMAIN q = 1..(n + 1) /\ DOMAIN r = 1..n
      /\ q[1] = s /\ \A i \in 1..n : q[i + 1] = r[i]
      /\ \A i \in 2..(n + 1) : q[i] = r[i - 1] /\ i - 1 \in 1..n
  BY InFront
<1>2. Range(r) = {r[i] : i \in 1..n} /\ (r = <<>> <=> n = 0)
  BY <1>1 DEF Range
<1> HIDE DEF q
<1>3. Onward(q, 1, w) = Start(r, w) /\ \A i \in 1..n : Onward(q, i + 1, w) = Onward(r, i, w)
  <2>1. Onward(q, 1, w) = Start(r, w)
    <3>1. CASE n = 0
      BY <1>1, <1>2, <3>1 DEF Onward, Start
    <3>2. CASE n # 0
      <4>1. 1 \in 1..n /\ q[1 + 1] = r[1] /\ 1 # n + 1
        BY <1>1, <3>2
      <4> QED
        BY <1>1, <1>2, <3>2, <4>1 DEF Onward, Start
    <3> QED
      BY <3>1, <3>2
  <2>2. ASSUME NEW i \in 1..n PROVE Onward(q, i + 1, w) = Onward(r, i, w)
    <3>1. CASE i = n
      BY <1>1, <3>1 DEF Onward
    <3>2. CASE i # n
      <4>0. n \in Nat
        BY <1>1
      <4>1. i + 1 \in 1..n /\ i + 1 # n + 1
        <5> HIDE DEF n
        <5> QED
          BY <3>2, <4>0
      <4>2. \A j \in 1..n : q[j + 1] = r[j]
        BY <1>1
      <4>3. q[(i + 1) + 1] = r[i + 1]
        BY <4>1, <4>2
      <4> QED
        BY <1>1, <3>2, <4>1, <4>3 DEF Onward
    <3> QED
      BY <3>1, <3>2
  <2> QED
    BY <2>1, <2>2
<1>4. q \in Seq(E \ {t}) <=> s # t /\ r \in Seq(E \ {t})
  <2>1. ASSUME s # t, r \in Seq(E \ {t}) PROVE q \in Seq(E \ {t})
    BY <2>1 DEF q
  <2>2. ASSUME q \in Seq(E \ {t}) PROVE s # t /\ r \in Seq(E \ {t})
    <3>1. \A i \in 1..(n + 1) : q[i] \in E \ {t}
      BY <1>1, <2>2
    <3>2. \A i \in 1..n : i + 1 \in 1..(n + 1) /\ 1 \in 1..(n + 1)
      BY <1>1
    <3>3. \A i \in 1..n : r[i] \in E \ {t}
      BY <1>1, <3>1, <3>2
    <3>4. s # t
      <4>1. 1 \in 1..(n + 1)
        BY <1>1
      <4> QED
        BY <1>1, <3>1, <4>1
    <3>5. r \in [1..n -> E \ {t}]
      BY <1>1, <3>3
    <3> QED
      BY <1>1, <3>4, <3>5, FunctionsAreSequences
  <2> QED
    BY <2>1, <2>2
<1>5. (\A i \in 1..(n + 1) : Link(w.memory[q[i]], Onward(q, i, w), o))
      <=> /\ Link(w.memory[s], Start(r, w), o)
          /\ \A i \in 1..n : Link(w.memory[r[i]], Onward(r, i, w), o)
  <2>1. \A i \in 1..(n + 1) : i = 1 \/ (i - 1 \in 1..n /\ (i - 1) + 1 = i)
    BY <1>1
  <2>2. 1 \in 1..(n + 1) /\ \A i \in 1..n : i + 1 \in 1..(n + 1)
    BY <1>1
  <2> QED
    BY <1>1, <1>3, <2>1, <2>2
<1>6. (\A i, j \in 1..(n + 1) : q[i] = q[j] => i = j)
      <=> s \notin Range(r) /\ \A i, j \in 1..n : r[i] = r[j] => i = j
  <2>1. ASSUME \A i, j \in 1..(n + 1) : q[i] = q[j] => i = j
        PROVE  s \notin Range(r) /\ \A i, j \in 1..n : r[i] = r[j] => i = j
    <3>1. \A i \in 1..n : r[i] # s
      BY <1>1, <2>1
    <3>2. \A i, j \in 1..n : r[i] = r[j] => i = j
      BY <1>1, <2>1
    <3> QED
      BY <1>2, <3>1, <3>2
  <2>2. ASSUME s \notin Range(r), \A i, j \in 1..n : r[i] = r[j] => i = j,
               NEW i \in 1..(n + 1), NEW j \in 1..(n + 1), q[i] = q[j]
        PROVE  i = j
    <3>1. \A k \in 1..n : r[k] # s
      BY <1>2, <2>2
    <3>2. \A k \in 1..(n + 1) : k = 1 \/ (k \in 2..(n + 1) /\ k - 1 \in 1..n /\ q[k] = r[k - 1])
      BY <1>1
    <3> QED
      BY <1>1, <2>2, <3>1, <3>2
  <2> QED
    BY <2>1, <2>2
<1>7. (\A i \in 2..(n + 1) : ~Static(q[i], w.base))
      <=> Loose(r, w) /\ \A i \in 2..n : ~Static(r[i], w.base)
  <2>1. \A i \in 2..(n + 1) : q[i] = r[i - 1] /\ (i - 1 = 1 \/ i - 1 \in 2..n)
    BY <1>1
  <2>2. \A i \in 2..n : i + 1 \in 2..(n + 1) /\ q[i + 1] = r[i]
    BY <1>1
  <2>3. r # <<>> => 2 \in 2..(n + 1) /\ q[2] = r[1] /\ 1 \in 1..n
    <3>1. ASSUME n # 0 PROVE 2 \in 2..(n + 1) /\ 2 - 1 = 1 /\ 1 \in 1..n
      BY <1>1, <3>1
    <3> QED
      BY <1>1, <1>2, <3>1
  <2>4. ASSUME \A i \in 2..(n + 1) : ~Static(q[i], w.base)
        PROVE  Loose(r, w) /\ \A i \in 2..n : ~Static(r[i], w.base)
    BY <2>2, <2>3, <2>4 DEF Loose
  <2>5. ASSUME Loose(r, w), \A i \in 2..n : ~Static(r[i], w.base), NEW i \in 2..(n + 1)
        PROVE  ~Static(q[i], w.base)
    <3>1. r # <<>>
      BY <1>1, <1>2
    <3> QED
      BY <2>1, <2>5, <3>1 DEF Loose
  <2> QED
    BY <2>4, <2>5
<1>8. IsRow(q, w, o, E)
      <=> /\ q \in Seq(E \ {t})
          /\ \A i \in 1..(n + 1) : Link(w.memory[q[i]], Onward(q, i, w), o)
          /\ \A i, j \in 1..(n + 1) : q[i] = q[j] => i = j
          /\ \A i \in 2..(n + 1) : ~Static(q[i], w.base)
  BY <1>1 DEF IsRow
<1>9. IsRow(r, w, o, E)
      <=> /\ r \in Seq(E \ {t})
          /\ \A i \in 1..n : Link(w.memory[r[i]], Onward(r, i, w), o)
          /\ \A i, j \in 1..n : r[i] = r[j] => i = j
          /\ \A i \in 2..n : ~Static(r[i], w.base)
  BY DEF IsRow
<1>10. IsRow(q, w, o, E)
       <=> /\ IsRow(r, w, o, E) /\ Loose(r, w)
           /\ s # t /\ s \notin Range(r) /\ Link(w.memory[s], Start(r, w), o)
  BY <1>4, <1>5, <1>6, <1>7, <1>8, <1>9, Zenon
<1> QED
  BY <1>10 DEF q

(* The chain along a row with one more slot in front has one more offset in front.        *)
LEMMA OffsetsGrow ==
    ASSUME NEW w, NEW T, NEW r \in Seq(T), NEW s \in T
    PROVE  OffsetsOf(<<s>> \o r, w) = <<Start(r, w) - w.memory[s]>> \o OffsetsOf(r, w)
<1> DEFINE q == <<s>> \o r
           n == Len(r)
           a == Start(r, w) - w.memory[s]
           f == OffsetsOf(r, w)
<1>1. /\ q \in Seq(T) /\ q # <<>> /\ Len(q) = n + 1 /\ n \in Nat
      /\ DOMAIN q = 1..(n + 1) /\ DOMAIN r = 1..n
      /\ q[1] = s /\ \A i \in 1..n : q[i + 1] = r[i]
      /\ \A i \in 2..(n + 1) : q[i] = r[i - 1] /\ i - 1 \in 1..n
  BY InFront
<1>2. r = <<>> <=> n = 0
  BY <1>1
<1> HIDE DEF q
<1>3. Onward(q, 1, w) = Start(r, w)
  <2>1. n # 0 => 1 \in 1..n /\ 1 # n + 1
    BY <1>1
  <2>2. n # 0 => q[1 + 1] = r[1]
    BY <1>1, <2>1
  <2> QED
    BY <1>1, <1>2, <2>1, <2>2 DEF Onward, Start
<1>4. ASSUME NEW i \in 2..(n + 1) PROVE Onward(q, i, w) = Onward(r, i - 1, w)
  <2>1. CASE i = n + 1
    BY <1>1, <2>1 DEF Onward
  <2>2. CASE i # n + 1
    <3>1. i \in 1..n /\ i - 1 # n /\ (i - 1) + 1 = i
      BY <1>1, <2>2
    <3>2. q[i + 1] = r[i]
      BY <1>1, <3>1
    <3> QED
      BY <1>1, <2>2, <3>1, <3>2 DEF Onward
  <2> QED
    BY <2>1, <2>2
<1>5. OffsetsOf(q, w) = [i \in 1..(n + 1) |-> Onward(q, i, w) - w.memory[q[i]]]
      /\ f = [i \in 1..n |-> Onward(r, i, w) - w.memory[r[i]]]
  BY <1>1 DEF OffsetsOf
<1> DEFINE U == {a} \cup {f[i] : i \in 1..n}
<1>6. f \in Seq(U) /\ Len(f) = n
  <2>1. f \in [1..n -> U]
    BY <1>5
  <2> HIDE DEF U, f
  <2> QED
    BY <1>1, <2>1, FunctionsAreSequences
<1>7. a \in U
  OBVIOUS
<1> HIDE DEF a, f, U
<1> DEFINE g == <<a>> \o f
<1>8. /\ g \in Seq(U) /\ Len(g) = n + 1 /\ DOMAIN g = 1..(n + 1) /\ g[1] = a
      /\ \A i \in 2..(n + 1) : g[i] = f[i - 1]
  BY <1>6, <1>7, InFront
<1> HIDE DEF g
<1>9. \A i \in 1..(n + 1) : g[i] = Onward(q, i, w) - w.memory[q[i]]
  <2> TAKE i \in 1..(n + 1)
  <2>1. CASE i = 1
    BY <1>1, <1>3, <1>8, <2>1 DEF a
  <2>2. CASE i # 1
    <3>1. i \in 2..(n + 1) /\ i - 1 \in 1..n
      BY <1>1, <2>2
    <3>2. g[i] = Onward(r, i - 1, w) - w.memory[r[i - 1]]
      BY <1>5, <1>8, <3>1
    <3> QED
      BY <1>1, <1>4, <3>1, <3>2
  <2> QED
    BY <2>1, <2>2
<1>10. g = [i \in 1..(n + 1) |-> Onward(q, i, w) - w.memory[q[i]]]
  <2>1. g = [i \in 1..(n + 1) |-> g[i]]
    BY <1>8
  <2> QED
    BY <1>9, <2>1
<1>11. OffsetsOf(q, w) = g
  BY <1>5, <1>10
<1> QED
  BY <1>11 DEF q, g, a, f

\* Row q ends in r.
Ends(q, r) == Len(r) <= Len(q) /\ \A i \in 1..Len(r) : r[i] = q[Len(q) - Len(r) + i]

(* What a row ends in is a row, and loose unless it is all of it.                         *)
LEMMA EndsAreRows ==
    ASSUME NEW w, NEW o, NEW E, NEW q, IsRow(q, w, o, E), NEW r \in Seq(E), Ends(q, r)
    PROVE  IsRow(r, w, o, E) /\ (Len(r) < Len(q) => Loose(r, w))
<1> DEFINE n == Len(r)
           d == Len(q) - n
           T == E \ {w.target}
<1>1. /\ q \in Seq(T) /\ Len(q) \in Nat /\ n \in Nat /\ n <= Len(q)
      /\ d \in Nat /\ Len(q) = d + n /\ \A i \in 1..n : r[i] = q[d + i]
      /\ r \in [1..n -> E] /\ (r = <<>> => n = 0)
  BY DEF IsRow, Ends
<1>2. /\ \A i \in 1..(d + n) : Link(w.memory[q[i]], Onward(q, i, w), o) /\ q[i] \in T
      /\ \A i, j \in 1..(d + n) : q[i] = q[j] => i = j
      /\ \A i \in 2..(d + n) : ~Static(q[i], w.base)
  BY <1>1 DEF IsRow
<1> HIDE DEF n, d
<1>3. \A i \in 1..n : d + i \in 1..(d + n) /\ (i > 1 => d + i \in 2..(d + n))
  BY <1>1
<1>4. r \in Seq(T)
  <2>1. \A i \in 1..n : r[i] \in T
    BY <1>1, <1>2, <1>3
  <2>2. r \in [1..n -> T]
    BY <1>1, <2>1
  <2> QED
    BY <1>1, <2>2, FunctionsAreSequences
<1>5. ASSUME NEW i \in 1..n PROVE Onward(r, i, w) = Onward(q, d + i, w)
  <2>1. CASE i = n
    <3>1. d + i = Len(q) /\ i = Len(r)
      BY <1>1, <2>1 DEF n
    <3> QED
      BY <3>1 DEF Onward
  <2>2. CASE i # n
    <3>1. i + 1 \in 1..n /\ d + i # Len(q) /\ (d + i) + 1 = d + (i + 1) /\ i # Len(r)
      <4>1. i + 1 \in 1..n /\ d + i # d + n /\ (d + i) + 1 = d + (i + 1)
        BY <1>1, <2>2
      <4> QED
        BY <1>1, <2>2, <4>1 DEF n
    <3> QED
      BY <1>1, <3>1 DEF Onward
  <2> QED
    BY <2>1, <2>2
<1>6. \A i \in 1..n : Link(w.memory[r[i]], Onward(r, i, w), o)
  BY <1>1, <1>2, <1>3, <1>5
<1>7. \A i, j \in 1..n : r[i] = r[j] => i = j
  BY <1>1, <1>2, <1>3
<1>8. \A i \in 2..n : ~Static(r[i], w.base)
  <2> TAKE i \in 2..n
  <2>1. i \in 1..n /\ i > 1
    BY <1>1
  <2> QED
    BY <1>1, <1>2, <1>3, <2>1
<1>9. IsRow(r, w, o, E)
  BY <1>4, <1>6, <1>7, <1>8 DEF IsRow, n
<1>10. ASSUME n < Len(q), r # <<>> PROVE ~Static(r[1], w.base)
  <2>1. n # 0
    BY <1>1, <1>10 DEF n
  <2>2. 1 \in 1..n /\ d + 1 \in 2..(d + n)
    BY <1>1, <1>10, <2>1
  <2> QED
    BY <1>1, <1>2, <2>2
<1> QED
  BY <1>9, <1>10 DEF Loose, n

(* From each of its slots on, a row is a row. *)
LEMMA RowFrom ==
    ASSUME NEW w, NEW o, NEW E, NEW q, IsRow(q, w, o, E), NEW k \in 1..Len(q)
    PROVE  \E r : /\ IsRow(r, w, o, E) /\ r # <<>> /\ r[1] = q[k] /\ Len(r) = Len(q) - k + 1
                  /\ Loose(q, w) \/ k > 1 => Loose(r, w)
<1> DEFINE n == Len(q) - k + 1
           r == [i \in 1..n |-> q[k - 1 + i]]
<1>1. q \in Seq(E) /\ Len(q) \in Nat /\ k \in 1..Len(q)
  BY DEF IsRow
<1>2. n \in Nat \ {0} /\ \A i \in 1..n : k - 1 + i \in 1..Len(q)
  BY <1>1
<1>3. r \in [1..n -> E]
  BY <1>1, <1>2
<1>4. Len(q) - n = k - 1 /\ n <= Len(q) /\ (k > 1 => n < Len(q)) /\ k - 1 + 1 = k
  BY <1>1
<1> HIDE DEF n
<1>5. r[1] = q[k] /\ \A i \in 1..n : r[i] = q[(Len(q) - n) + i]
  BY <1>2, <1>4
<1> HIDE DEF r
<1>6. r \in Seq(E) /\ Len(r) = n /\ r # <<>>
  <2>1. r \in Seq(E) /\ Len(r) = n
    BY <1>2, <1>3, FunctionsAreSequences
  <2> QED
    BY <1>2, <2>1
<1>7. Ends(q, r)
  BY <1>4, <1>5, <1>6 DEF Ends
<1>8. IsRow(r, w, o, E) /\ (Len(r) < Len(q) => Loose(r, w))
  BY <1>6, <1>7, EndsAreRows
<1>9. ASSUME Loose(q, w) \/ k > 1 PROVE Loose(r, w)
  <2>1. CASE k > 1
    BY <1>4, <1>6, <1>8, <2>1
  <2>2. CASE ~(k > 1)
    <3>1. k = 1 /\ q # <<>>
      BY <1>1, <2>2
    <3> QED
      BY <1>5, <1>9, <2>2, <3>1 DEF Loose
  <2> QED
    BY <2>1, <2>2
<1> QED
  BY <1>5, <1>6, <1>8, <1>9 DEF n

(* A row that passes a slot from which a loose row is shorter than what it goes on with   *)
(* can be cut short, so as to begin as before and to be shorter.                          *)
LEMMA RowShortens ==
    ASSUME NEW w, NEW o, NEW E, NEW r, IsRow(r, w, o, E), NEW i \in 1..Len(r),
           NEW q, IsRow(q, w, o, E), q # <<>>, Loose(q, w), q[1] = r[i], Len(q) < Len(r) - i + 1
    PROVE  \E p : IsRow(p, w, o, E) /\ p # <<>> /\ p[1] = r[1] /\ Len(p) < Len(r)
<1> DEFINE T == E \ {w.target}
           n == Len(r)
           Short(x, k) == IsRow(x, w, o, E) /\ x # <<>> /\ Loose(x, w) /\ x[1] = r[k] /\ Len(x) <= Len(q)
           S == {k \in 1..n : \E x : Short(x, k)}
<1>1. r \in Seq(T) /\ q \in Seq(T) /\ n \in Nat /\ Len(q) \in Nat
  BY DEF IsRow
<1>2. i \in S
  <2>1. Short(q, i)
    BY <1>1
  <2> QED
    BY <2>1
<1>3. S \in SUBSET Nat /\ S # {}
  BY <1>1, <1>2
<1> HIDE DEF S
<1>4. PICK k \in S : \A j \in S : k <= j
  BY <1>3, LeastIs
<1>5. k \in 1..n /\ k <= i /\ \E x : Short(x, k)
  BY <1>2, <1>4 DEF S
<1>6. PICK x : Short(x, k)
  BY <1>5
<1> DEFINE l == Len(x)
           m == k - 1 + l
           p == [j \in 1..m |-> IF j < k THEN r[j] ELSE x[j - k + 1]]
<1>7. /\ x \in Seq(T) /\ l \in Nat \ {0} /\ l <= Len(q) /\ x[1] = r[k]
      /\ \A j \in 1..l : x[j] \in T /\ Link(w.memory[x[j]], Onward(x, j, w), o)
      /\ \A a, b \in 1..l : x[a] = x[b] => a = b
      /\ \A j \in 1..l : ~Static(x[j], w.base)
  <2>1. IsRow(x, w, o, E) /\ x # <<>> /\ Loose(x, w)
    BY <1>6
  <2>2. x \in Seq(T) /\ l \in Nat \ {0}
    BY <2>1 DEF IsRow
  <2>3. \A j \in 1..l : j = 1 \/ j \in 2..l
    BY <2>2
  <2>4. \A j \in 1..l : ~Static(x[j], w.base)
    BY <2>1, <2>3 DEF IsRow, Loose
  <2> QED
    BY <1>6, <2>1, <2>2, <2>4 DEF IsRow
<1>8. /\ \A j \in 1..n : r[j] \in T /\ Link(w.memory[r[j]], Onward(r, j, w), o)
      /\ \A a, b \in 1..n : r[a] = r[b] => a = b
      /\ \A j \in 2..n : ~Static(r[j], w.base)
  BY <1>1 DEF IsRow
<1>9. ASSUME NEW j \in 1..n, j < k, NEW a \in 1..l PROVE r[j] # x[a]
  <2> SUFFICES ASSUME r[j] = x[a] PROVE FALSE
    OBVIOUS
  <2>1. IsRow(x, w, o, E) /\ Loose(x, w)
    BY <1>6
  <2>2. PICK y : IsRow(y, w, o, E) /\ y # <<>> /\ y[1] = x[a] /\ Len(y) = Len(x) - a + 1 /\ Loose(y, w)
    BY <2>1, RowFrom
  <2>3. Len(y) <= Len(q)
    BY <1>1, <1>7, <2>2
  <2>4. Short(y, j)
    BY <2>2, <2>3
  <2>5. j \in S
    BY <2>4 DEF S
  <2> QED
    BY <1>4, <1>5, <1>9, <2>5
<1>10. Len(q) < n - i + 1
  OBVIOUS
<1> HIDE DEF T, n, l, Short
<1>11. m \in Nat \ {0} /\ m < n
  BY <1>1, <1>5, <1>7, <1>10
<1>12. \A j \in 1..m : \/ j < k /\ j \in 1..n /\ p[j] = r[j]
                       \/ ~(j < k) /\ j - k + 1 \in 1..l /\ p[j] = x[j - k + 1]
  BY <1>1, <1>5, <1>7
<1>13. p[1] = r[1]
  <2>1. 1 \in 1..m
    BY <1>11
  <2>2. ~(1 < k) => k = 1 /\ 1 - k + 1 = 1
    BY <1>5
  <2> QED
    BY <1>7, <1>12, <2>1, <2>2
<1>14. p \in Seq(T) /\ Len(p) = m
  <2>1. p \in [1..m -> T]
    BY <1>7, <1>8, <1>12
  <2> HIDE DEF p
  <2> QED
    BY <1>11, <2>1, FunctionsAreSequences
<1> HIDE DEF p
<1>15. ASSUME NEW j \in 1..m PROVE Link(w.memory[p[j]], Onward(p, j, w), o)
  <2>1. CASE j < k
    <3>1. j # m /\ j + 1 \in 1..m /\ j \in 1..n /\ j # n /\ p[j] = r[j]
      BY <1>1, <1>5, <1>7, <1>12, <2>1
    <3>2. p[j + 1] = r[j + 1]
      <4>1. CASE j + 1 < k
        BY <1>12, <3>1, <4>1
      <4>2. CASE ~(j + 1 < k)
        <5>1. j + 1 = k /\ (j + 1) - k + 1 = 1
          BY <1>5, <2>1, <4>2
        <5> QED
          BY <1>7, <1>12, <3>1, <4>2, <5>1
      <4> QED
        BY <4>1, <4>2
    <3>3. Onward(p, j, w) = Onward(r, j, w)
      BY <1>14, <3>1, <3>2 DEF Onward, n
    <3> QED
      BY <1>8, <3>1, <3>3
  <2>2. CASE ~(j < k)
    <3> DEFINE a == j - k + 1
    <3>1. a \in 1..l /\ p[j] = x[a] /\ (j = m <=> a = l)
      BY <1>5, <1>7, <1>12, <2>2
    <3>2. j # m => a + 1 \in 1..l /\ p[j + 1] = x[a + 1]
      <4>1. ASSUME j # m PROVE j + 1 \in 1..m /\ ~(j + 1 < k) /\ (j + 1) - k + 1 = a + 1
        BY <1>5, <1>11, <2>2, <4>1
      <4> QED
        BY <1>12, <4>1
    <3> HIDE DEF a
    <3>3. Onward(p, j, w) = Onward(x, a, w)
      BY <1>14, <3>1, <3>2 DEF Onward, l
    <3> QED
      BY <1>7, <3>1, <3>3
  <2> QED
    BY <2>1, <2>2
<1>16. ASSUME NEW a \in 1..m, NEW b \in 1..m, p[a] = p[b] PROVE a = b
  <2>1. CASE a < k /\ b < k
    BY <1>8, <1>12, <1>16, <2>1
  <2>2. CASE ~(a < k) /\ ~(b < k)
    <3> DEFINE c == a - k + 1
               d == b - k + 1
    <3>1. c \in 1..l /\ p[a] = x[c] /\ d \in 1..l /\ p[b] = x[d] /\ (c = d => a = b)
      BY <1>5, <1>12, <2>2
    <3> HIDE DEF c, d
    <3> QED
      BY <1>7, <1>16, <3>1
  <2>3. CASE a < k /\ ~(b < k)
    BY <1>9, <1>12, <1>16, <2>3
  <2>4. CASE ~(a < k) /\ b < k
    BY <1>9, <1>12, <1>16, <2>4
  <2> QED
    BY <2>1, <2>2, <2>3, <2>4
<1>17. ASSUME NEW j \in 2..m PROVE ~Static(p[j], w.base)
  <2>1. j \in 1..m
    BY <1>11
  <2>2. j < k => j \in 2..n
    BY <1>1, <1>5
  <2> QED
    BY <1>7, <1>8, <1>12, <2>1, <2>2
<1>18. IsRow(p, w, o, E)
  BY <1>14, <1>15, <1>16, <1>17 DEF IsRow, T
<1>19. p # <<>> /\ Len(p) < n
  <2>1. Len(p) # 0
    BY <1>11, <1>14
  <2> QED
    BY <1>11, <1>14, <2>1
<1> QED
  BY <1>13, <1>18, <1>19 DEF n

(* Without a slot there is nothing to be said of a row. *)
LEMMA EmptyRow ==
    ASSUME NEW w, NEW o, NEW E
    PROVE  <<>> \in Seq(E) /\ IsRow(<<>>, w, o, E) /\ Loose(<<>>, w) /\ Start(<<>>, w) = w.target /\ Range(<<>>) = {}
<1>1. ASSUME NEW r, r = <<>>
      PROVE  r \in Seq(E) /\ IsRow(r, w, o, E) /\ Loose(r, w) /\ Start(r, w) = w.target /\ Range(r) = {}
  <2>1. r \in Seq(E) /\ r \in Seq(E \ {w.target}) /\ 1..Len(r) = {} /\ 2..Len(r) = {} /\ DOMAIN r = {}
    BY <1>1
  <2> QED
    BY <1>1, <2>1 DEF IsRow, Loose, Start, Range
<1> QED
  BY <1>1

(* A list is its first member in front of the others. *)
LEMMA TakenApart ==
    ASSUME NEW T, NEW r \in Seq(T), Len(r) # 0
    PROVE  r[1] \in T /\ Tail(r) \in Seq(T) /\ Len(Tail(r)) = Len(r) - 1 /\ r = <<r[1]>> \o Tail(r)
<1> DEFINE q == <<r[1]>> \o Tail(r)
<1>1. r[1] \in T /\ Tail(r) \in Seq(T) /\ Len(Tail(r)) = Len(r) - 1 /\ Len(r) \in Nat
  OBVIOUS
<1>2. \A i \in 1..(Len(r) - 1) : Tail(r)[i] = r[i + 1]
  OBVIOUS
<1>3. /\ q \in Seq(T) /\ Len(q) = Len(r) /\ q[1] = r[1]
      /\ \A i \in 2..Len(r) : q[i] = Tail(r)[i - 1] /\ i - 1 \in 1..(Len(r) - 1)
  BY <1>1, InFront
<1> HIDE DEF q
<1>4. \A i \in 1..Len(r) : q[i] = r[i]
  <2> TAKE i \in 1..Len(r)
  <2>1. i = 1 \/ (i \in 2..Len(r) /\ (i - 1) + 1 = i)
    BY <1>1
  <2> QED
    BY <1>2, <1>3, <2>1
<1>5. q = r
  BY <1>3, <1>4
<1> QED
  BY <1>1, <1>5 DEF q

(* What Rows has are the rows that a slot of a module ends and the depth allows. *)
LEMMA RowsAre ==
    ASSUME NEW w, NEW o, o.depth \in Nat \ {0}, NEW E
    PROVE  \A r : r \in Rows(w, o, E)
                  <=> IsRow(r, w, o, E) /\ r # <<>> /\ Len(r) <= o.depth /\ Static(r[1], w.base)
<1> DEFINE t == w.target
           n == o.depth
           First == {<<s>> : s \in {a \in E \ {t} : Link(w.memory[a], t, o)}}
           Longer(X) == UNION {{<<s>> \o row : s \in {a \in E \ ({t} \cup Range(row)) :
                                                        Link(w.memory[a], row[1], o)}} :
                                 row \in {r \in X : ~Static(r[1], w.base)}}
           Is(f) == f = [k \in 1..n |-> IF k = 1 THEN First ELSE Longer(f[k - 1])]
           rows == CHOOSE f : Is(f)
           Good(X, k) == \A r : r \in X <=> IsRow(r, w, o, E) /\ Len(r) = k
<1>1. Rows(w, o, E) = UNION {{row \in rows[k] : Static(row[1], w.base)} : k \in 1..n}
  BY DEF Rows
<1> HIDE DEF rows
<1>2. First \in SUBSET Seq(E) /\ \A X \in SUBSET Seq(E) : Longer(X) \in SUBSET Seq(E)
  <2>1. \A s \in E : <<s>> \in Seq(E)
    OBVIOUS
  <2>2. \A s \in E, row \in Seq(E) : <<s>> \o row \in Seq(E)
    OBVIOUS
  <2>3. First \in SUBSET Seq(E)
    BY <2>1
  <2>4. ASSUME NEW X \in SUBSET Seq(E) PROVE Longer(X) \in SUBSET Seq(E)
    <3> SUFFICES ASSUME NEW r \in Longer(X) PROVE r \in Seq(E)
      OBVIOUS
    <3>1. PICK row \in {x \in X : ~Static(x[1], w.base)} :
            r \in {<<s>> \o row : s \in {a \in E \ ({t} \cup Range(row)) : Link(w.memory[a], row[1], o)}}
      OBVIOUS
    <3> QED
      BY <2>2, <3>1
  <2> QED
    BY <2>3, <2>4
<1>3. \A r : r \in First <=> \E s \in E : r = <<s>> /\ s # t /\ Link(w.memory[s], t, o)
  OBVIOUS
<1>4. ASSUME NEW X, NEW r
      PROVE  r \in Longer(X)
             <=> \E row \in X, s \in E : /\ ~Static(row[1], w.base) /\ s # t /\ s \notin Range(row)
                                         /\ Link(w.memory[s], row[1], o) /\ r = <<s>> \o row
  <2> DEFINE L(row) == {<<s>> \o row : s \in {a \in E \ ({t} \cup Range(row)) : Link(w.memory[a], row[1], o)}}
  <2>1. r \in Longer(X) <=> \E row \in {x \in X : ~Static(x[1], w.base)} : r \in L(row)
    BY Zenon
  <2>2. ASSUME NEW row
        PROVE  r \in L(row) <=> \E s \in E : /\ s # t /\ s \notin Range(row)
                                             /\ Link(w.memory[s], row[1], o) /\ r = <<s>> \o row
    OBVIOUS
  <2> HIDE DEF L, Longer
  <2> QED
    BY <2>1, <2>2
<1> HIDE DEF First, Longer, n
<1>5. n \in Nat \ {0}
  BY DEF n
<1>6. \E f : Is(f)
  <2> DEFINE Every == SUBSET Seq(E)
             S == [k \in 0..(n - 1) |-> Every]
             G == [k \in 1..(n - 1) |-> [X \in Every |-> Longer(X)]]
  <2>1. \A k \in 1..(n - 1) : \A X \in S[k - 1] : G[k][X] = Longer(X) /\ Longer(X) \in S[k]
    BY <1>2, <1>5
  <2>2. First \in S[0] /\ n - 1 \in Nat
    BY <1>2, <1>5
  <2> HIDE DEF S, G
  <2>3. Leads(n - 1, First, G, S)
    BY <2>1, <2>2 DEF Leads
  <2>4. PICK f : Stages(f, n - 1, First, G, S)
    BY <2>2, <2>3, StagesAre, Zenon
  <2> DEFINE g == [k \in 1..n |-> f[k - 1]]
  <2>5. ASSUME NEW k \in 1..n PROVE f[k - 1] = IF k = 1 THEN First ELSE Longer(g[k - 1])
    <3>1. CASE k = 1
      <4>1. k - 1 = 0
        BY <3>1
      <4> QED
        BY <2>4, <3>1, <4>1 DEF Stages
    <3>2. CASE k # 1
      <4>1. k - 1 \in 1..(n - 1) /\ k - 1 \in 1..n /\ k - 1 \in 0..(n - 1) /\ (k - 1) - 1 \in 0..(n - 1)
        BY <1>5, <3>2
      <4>2. g[k - 1] = f[(k - 1) - 1]
        BY <4>1
      <4>3. f[k - 1] = G[k - 1][f[(k - 1) - 1]] /\ f[(k - 1) - 1] \in S[(k - 1) - 1]
        BY <2>4, <4>1 DEF Stages
      <4> HIDE DEF g
      <4> QED
        BY <2>1, <3>2, <4>1, <4>2, <4>3
    <3> QED
      BY <3>1, <3>2
  <2>6. Is(g)
    BY <2>5
  <2> QED
    BY <2>6
<1>7. Is(rows)
  BY <1>6 DEF rows
<1>8. rows[1] = First /\ \A k \in 2..n : rows[k] = Longer(rows[k - 1])
  <2>1. 1 \in 1..n /\ \A k \in 2..n : k \in 1..n /\ k # 1
    BY <1>5
  <2> QED
    BY <1>7, <2>1
<1>9. Good(First, 1)
  <2> SUFFICES ASSUME NEW r PROVE r \in First <=> IsRow(r, w, o, E) /\ Len(r) = 1
    OBVIOUS
  <2>1. ASSUME NEW s \in E PROVE IsRow(<<s>>, w, o, E) <=> s # t /\ Link(w.memory[s], t, o)
    <3>1. <<s>> = <<s>> \o <<>>
      OBVIOUS
    <3>2. ASSUME NEW none, none = <<>>
          PROVE  IsRow(<<s>> \o none, w, o, E) <=> s # t /\ Link(w.memory[s], t, o)
      <4>1. /\ none \in Seq(E) /\ IsRow(none, w, o, E) /\ Loose(none, w)
            /\ Start(none, w) = t /\ s \notin Range(none)
        <5>1. /\ none \in Seq(E) /\ IsRow(none, w, o, E) /\ Loose(none, w)
              /\ Start(none, w) = t /\ Range(none) = {}
          BY <3>2, EmptyRow, Zenon
        <5> QED
          BY <5>1
      <4>2. IsRow(<<s>> \o none, w, o, E)
            <=> /\ IsRow(none, w, o, E) /\ Loose(none, w)
                /\ s # w.target /\ s \notin Range(none) /\ Link(w.memory[s], Start(none, w), o)
        BY <4>1, RowGrows, Zenon
      <4> QED
        BY <4>1, <4>2
    <3> QED
      BY <3>1, <3>2, Zenon
  <2>2. ASSUME NEW s \in E PROVE Len(<<s>>) = 1
    OBVIOUS
  <2>3. ASSUME IsRow(r, w, o, E), Len(r) = 1 PROVE \E s \in E : r = <<s>>
    <3>1. r \in Seq(E)
      BY <2>3 DEF IsRow
    <3>2. r[1] \in E /\ r = <<r[1]>>
      <4>1. Len(r) # 0 /\ Len(r) - 1 = 0
        BY <2>3
      <4>2. r[1] \in E /\ Tail(r) \in Seq(E) /\ Len(Tail(r)) = 0 /\ r = <<r[1]>> \o Tail(r)
        BY <3>1, <4>1, TakenApart
      <4>3. Tail(r) = <<>> /\ <<r[1]>> \o <<>> = <<r[1]>>
        BY <4>2
      <4> QED
        BY <4>2, <4>3, Zenon
    <3> QED
      BY <3>2, Zenon
  <2>4. ASSUME r \in First PROVE IsRow(r, w, o, E) /\ Len(r) = 1
    BY <1>3, <2>1, <2>2, <2>4, Zenon
  <2>5. ASSUME IsRow(r, w, o, E), Len(r) = 1 PROVE r \in First
    BY <1>3, <2>1, <2>3, <2>5, Zenon
  <2> QED
    BY <2>4, <2>5
<1>10. ASSUME NEW k \in 1..(n - 1), NEW X, Good(X, k) PROVE Good(Longer(X), k + 1)
  <2> SUFFICES ASSUME NEW r PROVE r \in Longer(X) <=> IsRow(r, w, o, E) /\ Len(r) = k + 1
    OBVIOUS
  <2>1. ASSUME NEW row \in Seq(E), Len(row) = k, NEW s \in E
        PROVE  /\ row # <<>> /\ Len(<<s>> \o row) = k + 1
               /\ IsRow(<<s>> \o row, w, o, E)
                  <=> /\ IsRow(row, w, o, E) /\ ~Static(row[1], w.base)
                      /\ s # t /\ s \notin Range(row) /\ Link(w.memory[s], row[1], o)
    <3>1. row # <<>>
      BY <1>5, <2>1
    <3>2. Start(row, w) = row[1] /\ (Loose(row, w) <=> ~Static(row[1], w.base))
      BY <3>1 DEF Start, Loose
    <3>3. Len(<<s>> \o row) = k + 1
      BY <2>1, InFront
    <3>4. IsRow(<<s>> \o row, w, o, E)
          <=> /\ IsRow(row, w, o, E) /\ Loose(row, w)
              /\ s # t /\ s \notin Range(row) /\ Link(w.memory[s], Start(row, w), o)
      BY RowGrows, Zenon
    <3> QED
      BY <3>1, <3>2, <3>3, <3>4
  <2>2. ASSUME r \in Longer(X) PROVE IsRow(r, w, o, E) /\ Len(r) = k + 1
    <3>1. PICK row \in X, s \in E : /\ ~Static(row[1], w.base) /\ s # t /\ s \notin Range(row)
                                    /\ Link(w.memory[s], row[1], o) /\ r = <<s>> \o row
      BY <1>4, <2>2, Zenon
    <3>2. IsRow(row, w, o, E) /\ Len(row) = k
      BY <1>10
    <3>3. row \in Seq(E)
      BY <3>2 DEF IsRow
    <3> QED
      BY <2>1, <3>1, <3>2, <3>3
  <2>3. ASSUME IsRow(r, w, o, E), Len(r) = k + 1 PROVE r \in Longer(X)
    <3>1. r \in Seq(E) /\ Len(r) # 0
      BY <1>5, <2>3 DEF IsRow
    <3> DEFINE s == r[1]
               row == Tail(r)
    <3>2. s \in E /\ row \in Seq(E) /\ Len(row) = k /\ r = <<s>> \o row
      <4>1. Len(r) - 1 = k
        BY <1>5, <2>3
      <4> QED
        BY <3>1, <4>1, TakenApart
    <3> HIDE DEF s, row
    <3>3. /\ IsRow(row, w, o, E) /\ ~Static(row[1], w.base)
          /\ s # t /\ s \notin Range(row) /\ Link(w.memory[s], row[1], o)
      BY <2>1, <2>3, <3>2
    <3>4. row \in X
      BY <1>10, <3>2, <3>3
    <3> QED
      BY <1>4, <3>2, <3>3, <3>4, Zenon
  <2> QED
    BY <2>2, <2>3
<1> DEFINE Stay == [k \in 0..(n - 1) |-> IF Good(rows[k + 1], k + 1) THEN {rows[k + 1]} ELSE {}]
           f == [k \in 0..(n - 1) |-> rows[k + 1]]
<1> HIDE DEF Good
<1>11. \A k \in 1..n : Good(rows[k], k)
  <2>1. n - 1 \in Nat /\ 0 \in 0..(n - 1) /\ 0 + 1 = 1 /\ \A k \in 1..(n - 1) : k - 1 \in 0..(n - 1) /\ k \in 0..(n - 1)
    BY <1>5
  <2>2. f[0] \in Stay[0]
    BY <1>8, <1>9, <2>1
  <2>3. ASSUME NEW k \in 1..(n - 1), f[k - 1] \in Stay[k - 1] PROVE f[k] \in Stay[k]
    <3>1. (k - 1) + 1 = k /\ k + 1 \in 2..n /\ (k + 1) - 1 = k
      BY <1>5
    <3>2. Good(rows[k], k)
      BY <2>1, <2>3, <3>1
    <3>3. Good(Longer(rows[k]), k + 1)
      BY <1>10, <3>2
    <3>4. rows[k + 1] = Longer(rows[k])
      BY <1>8, <3>1
    <3>5. Good(rows[k + 1], k + 1)
      BY <3>3, <3>4
    <3> QED
      BY <2>1, <3>5
  <2>4. \A k \in 0..(n - 1) : f[k] \in Stay[k]
    <3> HIDE DEF f, Stay
    <3> QED
      BY <2>1, <2>2, <2>3, StagesStay
  <2> TAKE k \in 1..n
  <2>5. k - 1 \in 0..(n - 1) /\ (k - 1) + 1 = k
    BY <1>5
  <2>6. f[k - 1] \in Stay[k - 1]
    BY <2>4, <2>5
  <2> QED
    BY <2>5, <2>6
<1>12. \A r : IsRow(r, w, o, E) => Len(r) \in Nat /\ (r # <<>> <=> Len(r) # 0)
  BY DEF IsRow
<1>13. \A r : IsRow(r, w, o, E) /\ r # <<>> /\ Len(r) <= n <=> IsRow(r, w, o, E) /\ Len(r) \in 1..n
  BY <1>5, <1>12
<1>14. \A r : r \in Rows(w, o, E) <=> \E k \in 1..n : r \in rows[k] /\ Static(r[1], w.base)
  BY <1>1
<1>15. \A r : r \in Rows(w, o, E) <=> IsRow(r, w, o, E) /\ Len(r) \in 1..n /\ Static(r[1], w.base)
  BY <1>11, <1>14 DEF Good
<1> QED
  BY <1>13, <1>15 DEF n

-----------------------------------------------------------------------------
(* The depth-first search finds every chain. *)

\* An index that has these slots.
EntriesOf(E, m) == {[value |-> m[a], address |-> a] : a \in E}

\* The chains along the rows that end in r and have at most so many slots more.
Beyond(r, levels, w, o, E) ==
    {ChainOf(q, w) : q \in {q \in Seq(E) : /\ IsRow(q, w, o, E) /\ Ends(q, r) /\ Static(q[1], w.base)
                                           /\ Len(r) < Len(q) /\ Len(q) <= Len(r) + levels}}

\* Those that have slot s before r.
OnFrom(s, r, levels, w, o, E) ==
    IF Static(s, w.base) THEN {ChainOf(<<s>> \o r, w)} ELSE Beyond(<<s>> \o r, levels - 1, w, o, E)

(* What is beyond a row is beyond the row with one slot more.                             *)
LEMMA BeyondGrows ==
    ASSUME NEW w, NEW o, NEW E, NEW r, IsRow(r, w, o, E), Loose(r, w), NEW levels \in Nat \ {0}, NEW c
    PROVE  c \in Beyond(r, levels, w, o, E)
           <=> \E s \in E : /\ s # w.target /\ s \notin Range(r) /\ Link(w.memory[s], Start(r, w), o)
                            /\ c \in OnFrom(s, r, levels, w, o, E)
<1> DEFINE n == Len(r)
           In(q, x, m) == /\ q \in Seq(E) /\ IsRow(q, w, o, E) /\ Ends(q, x) /\ Static(q[1], w.base)
                          /\ Len(x) < Len(q) /\ Len(q) <= Len(x) + m
           More(s) == s # w.target /\ s \notin Range(r) /\ Link(w.memory[s], Start(r, w), o)
<1>1. r \in Seq(E) /\ n \in Nat
  BY DEF IsRow
<1>2. \A x, m : c \in Beyond(x, m, w, o, E) <=> \E q : In(q, x, m) /\ c = ChainOf(q, w)
  BY DEF Beyond
<1>3. ASSUME NEW s \in E
      PROVE  LET x == <<s>> \o r
             IN  /\ x \in Seq(E) /\ x # <<>> /\ Len(x) = n + 1 /\ x[1] = s /\ \A i \in 1..n : x[i + 1] = r[i]
                 /\ IsRow(x, w, o, E) <=> More(s)
                 /\ Loose(x, w) <=> ~Static(s, w.base)
  <2> DEFINE x == <<s>> \o r
  <2>1. x \in Seq(E) /\ x # <<>> /\ Len(x) = n + 1 /\ x[1] = s /\ \A i \in 1..n : x[i + 1] = r[i]
    BY <1>1, InFront
  <2>2. IsRow(x, w, o, E) <=> More(s)
    BY <1>1, RowGrows
  <2> HIDE DEF x, More
  <2>3. Loose(x, w) <=> ~Static(s, w.base)
    BY <2>1 DEF Loose
  <2> QED
    BY <2>1, <2>2, <2>3 DEF x
<1>4. ASSUME NEW q, In(q, r, levels), c = ChainOf(q, w)
      PROVE  \E s \in E : More(s) /\ c \in OnFrom(s, r, levels, w, o, E)
  <2>1. /\ q \in Seq(E) /\ IsRow(q, w, o, E) /\ Static(q[1], w.base) /\ Len(q) \in Nat
        /\ n < Len(q) /\ Len(q) <= n + levels /\ \A i \in 1..n : r[i] = q[Len(q) - n + i]
    BY <1>4 DEF Ends
  <2> DEFINE d == Len(q) - n
             s == q[d]
             x == <<s>> \o r
  <2>2. d \in 1..Len(q) /\ d <= levels /\ s \in E /\ Len(q) - (n + 1) = d - 1 /\ n + 1 <= Len(q)
    BY <1>1, <2>1
  <2>3. /\ x \in Seq(E) /\ x # <<>> /\ Len(x) = n + 1 /\ x[1] = s /\ \A i \in 1..n : x[i + 1] = r[i]
        /\ IsRow(x, w, o, E) <=> More(s)
        /\ Loose(x, w) <=> ~Static(s, w.base)
    BY <1>3, <2>2
  <2> HIDE DEF x, s, More, In
  <2>4. \A i \in 1..(n + 1) : x[i] = q[d - 1 + i]
    <3> TAKE i \in 1..(n + 1)
    <3>1. CASE i = 1
      <4>1. x[1] = q[d]
        BY <2>3 DEF s
      <4> HIDE DEF d
      <4>2. d - 1 + 1 = d
        BY <2>2
      <4> QED
        BY <3>1, <4>1, <4>2
    <3>2. CASE i # 1
      <4>1. i - 1 \in 1..n /\ (i - 1) + 1 = i /\ d + (i - 1) = d - 1 + i
        BY <1>1, <2>2, <3>2
      <4> HIDE DEF d
      <4>2. x[i] = r[i - 1] /\ r[i - 1] = q[d + (i - 1)]
        BY <2>1, <2>3, <4>1 DEF d
      <4> QED
        BY <4>1, <4>2
    <3> QED
      BY <3>1, <3>2
  <2>5. Ends(q, x)
    BY <2>2, <2>3, <2>4 DEF Ends
  <2>6. IsRow(x, w, o, E) /\ (n + 1 < Len(q) => Loose(x, w))
    BY <2>1, <2>3, <2>5, EndsAreRows
  <2>7. More(s)
    BY <2>3, <2>6
  <2>8. CASE n + 1 = Len(q)
    <3>1. \A i \in 1..Len(q) : x[i] = q[i]
      <4>1. d = 1 /\ \A i \in 1..Len(q) : i \in 1..(n + 1)
        BY <1>1, <2>8
      <4> HIDE DEF d, n
      <4>2. \A i \in 1..Len(q) : d - 1 + i = i
        BY <2>1, <4>1
      <4> QED
        BY <2>4, <4>1, <4>2
    <3>2. x = q
      BY <2>1, <2>3, <2>8, <3>1
    <3>3. Static(s, w.base) /\ c = ChainOf(x, w)
      BY <1>4, <2>1, <2>3, <3>2
    <3>4. c \in OnFrom(s, r, levels, w, o, E)
      BY <3>3 DEF OnFrom, x
    <3> QED
      BY <2>2, <2>7, <3>4
  <2>9. CASE n + 1 # Len(q)
    <3>1. n + 1 < Len(q) /\ Len(q) <= (n + 1) + (levels - 1)
      <4>1. n \in Nat /\ Len(q) \in Nat /\ n < Len(q) /\ Len(q) <= n + levels
        BY <1>1, <2>1
      <4> HIDE DEF n
      <4> QED
        BY <2>9, <4>1
    <3>2. In(q, x, levels - 1)
      BY <2>1, <2>3, <2>5, <3>1 DEF In
    <3>3. ~Static(s, w.base) /\ c \in Beyond(x, levels - 1, w, o, E)
      BY <1>2, <1>4, <2>3, <2>6, <3>1, <3>2
    <3>4. c \in OnFrom(s, r, levels, w, o, E)
      BY <3>3 DEF OnFrom, x
    <3> QED
      BY <2>2, <2>7, <3>4
  <2> QED
    BY <2>8, <2>9
<1>5. ASSUME NEW s \in E, More(s), c \in OnFrom(s, r, levels, w, o, E)
      PROVE  c \in Beyond(r, levels, w, o, E)
  <2> DEFINE x == <<s>> \o r
  <2>1. /\ x \in Seq(E) /\ x # <<>> /\ Len(x) = n + 1 /\ x[1] = s /\ \A i \in 1..n : x[i + 1] = r[i]
        /\ IsRow(x, w, o, E) /\ (Loose(x, w) <=> ~Static(s, w.base))
    BY <1>3, <1>5
  <2>2. c \in OnFrom(s, r, levels, w, o, E) <=> c \in (IF Static(s, w.base) THEN {ChainOf(x, w)} ELSE Beyond(x, levels - 1, w, o, E))
    BY DEF OnFrom
  <2> HIDE DEF x, More, In
  <2>3. CASE Static(s, w.base)
    <3>1. Ends(x, r)
      BY <1>1, <2>1 DEF Ends
    <3>2. In(x, r, levels)
      BY <1>1, <2>1, <2>3, <3>1 DEF In
    <3> QED
      BY <1>2, <1>5, <2>2, <2>3, <3>2
  <2>4. CASE ~Static(s, w.base)
    <3>1. PICK q : In(q, x, levels - 1) /\ c = ChainOf(q, w)
      BY <1>2, <1>5, <2>2, <2>4
    <3>2. /\ q \in Seq(E) /\ IsRow(q, w, o, E) /\ Ends(q, x) /\ Static(q[1], w.base) /\ Len(q) \in Nat
          /\ n + 1 < Len(q) /\ Len(q) <= (n + 1) + (levels - 1)
      BY <2>1, <3>1 DEF In
    <3>3. \A i \in 1..(n + 1) : x[i] = q[Len(q) - (n + 1) + i]
      BY <2>1, <3>2 DEF Ends
    <3>4. \A i \in 1..n : r[i] = q[Len(q) - n + i]
      <4> TAKE i \in 1..n
      <4>1. i + 1 \in 1..(n + 1) /\ Len(q) - (n + 1) + (i + 1) = Len(q) - n + i
        BY <1>1, <3>2
      <4> QED
        BY <2>1, <3>3, <4>1
    <3>5. n < Len(q) /\ Len(q) <= n + levels
      BY <1>1, <3>2
    <3>6. In(q, r, levels)
      BY <3>2, <3>4, <3>5 DEF In, Ends
    <3> QED
      BY <1>2, <3>1, <3>6
  <2> QED
    BY <2>3, <2>4
<1> HIDE DEF More, In
<1>6. c \in Beyond(r, levels, w, o, E) <=> \E s \in E : More(s) /\ c \in OnFrom(s, r, levels, w, o, E)
  BY <1>2, <1>4, <1>5
<1> QED
  BY <1>6 DEF More

\* Slots with numbers in them, a limit and a depth to search them for the target with.
Searchable(w, o, E) ==
    /\ E \in SUBSET Nat /\ IsFiniteSet(E) /\ \A a \in E : w.memory[a] \in Nat /\ w.memory[a] \in PointerValues
    /\ w.base \in Nat /\ w.target \in Nat
    /\ o.chains \in Nat /\ o.work \in Nat /\ o.depth \in Nat \ {0} /\ Ranged(o)

\* A node of the depth-first search at the beginning of row r.
CallAt(call, r, w, o) ==
    /\ GoodCall(call, w.base, o, {}, w.target)
    /\ call.at = Start(r, w) /\ call.tail = OffsetsOf(r, w) /\ Range(call.path) = {w.target} \cup Range(r)

\* Account b is account a with the chains cs, unless a limit was met on the way.
Gives(a, b, cs, o) ==
    /\ b \in Accounts /\ a.work <= b.work /\ (a.cut => b.cut) /\ (Full(b, o) => b.cut)
    /\ ~b.cut /\ b.work < o.work => b.chains = a.chains \cup cs

\* The node is left at a limit only.
Going(a, b, cs, o) == Gives(a, b, cs, o) /\ (b.stop => b.cut \/ ~(b.work < o.work))

\* Deeper searches give what is beyond their rows.
Delivers(F, levels, w, o, E) ==
    \A x, r : IsRow(r, w, o, E) /\ Loose(r, w) /\ CallAt(x, r, w, o)
                => Gives(x.account, F[x], Beyond(r, levels, w, o, E), o)

\* The chains that one pointer near a node is to add.
TryOf(s, r, levels, w, o, E) ==
    IF s = w.target \/ s \in Range(r) THEN {} ELSE OnFrom(s, r, levels, w, o, E)

(* The index of such slots is one to search. *)
LEMMA SearchableIndex ==
    ASSUME NEW w, NEW o, NEW E, Searchable(w, o, E)
    PROVE  LET entries == EntriesOf(E, w.memory)
           IN  entries \in SUBSET Entry /\ IsFiniteSet(entries) /\ KnownIn(entries, {})
<1> DEFINE f == [a \in E |-> [value |-> w.memory[a], address |-> a]]
           entries == EntriesOf(E, w.memory)
<1>1. entries = {f[a] : a \in E} /\ entries = {[value |-> w.memory[a], address |-> a] : a \in E}
  BY DEF EntriesOf
<1>2. IsFiniteSet(entries)
  <2>1. IsFiniteSet(E) /\ entries = {f[a] : a \in E}
    BY <1>1 DEF Searchable
  <2> HIDE DEF f, entries
  <2> QED
    BY <2>1, ImageIs
<1>3. entries \in SUBSET Entry
  <2>1. \A a \in E : a \in Nat /\ w.memory[a] \in PointerValues
    BY DEF Searchable
  <2> QED
    BY <1>1, <2>1 DEF Entry
<1> QED
  BY <1>1, <1>2, <1>3 DEF KnownIn

(* A pointer tried adds the chains of its slot, unless a limit is met. *)
LEMMA TriedFinds ==
    ASSUME NEW w, NEW o, NEW E, Searchable(w, o, E), ModuleSlots \in Nat,
           NEW r, IsRow(r, w, o, E), Loose(r, w), NEW call, CallAt(call, r, w, o),
           NEW levels \in Nat \ {0}, NEW deeper,
           levels # 1 => Delivers(deeper, levels - 1, w, o, E),
           NEW order, NEW k, NEW s \in E, order[k] = [value |-> w.memory[s], address |-> s],
           Link(w.memory[s], call.at, o),
           NEW b, OpenAccount(b, w.base, o, {}, w.target), NEW a, a \in Accounts, NEW cs, Going(a, b, cs, o)
    PROVE  Going(a, Tried(b, k, order, call, w.base, o, levels, deeper), cs \cup TryOf(s, r, levels, w, o, E), o)
<1> DEFINE from == w.base
           e == order[k]
           c == [b EXCEPT !.work = @ + 1]
           offsets == <<call.at - e.value>> \o call.tail
           chain == [root |-> e.address - from, offsets |-> offsets]
           d == [c EXCEPT !.chains = @ \cup {chain}]
           onward == [at |-> e.address, tail |-> offsets, path |-> Append(call.path, e.address), account |-> c]
           last == deeper[onward]
           left == Full(last, o) \/ Spent(last, o)
           wide == k > o.perNode
           q == <<s>> \o r
           new == TryOf(s, r, levels, w, o, E)
           Ok(x) == Going(a, x, cs \cup new, o)
<1>1. Tried(b, k, order, call, from, o, levels, deeper) =
        IF b.stop THEN b
        ELSE IF wide \/ c.work > o.work THEN [c EXCEPT !.cut = TRUE, !.crowded = @ \/ wide, !.stop = TRUE]
        ELSE IF e.address \in Range(call.path) THEN c
        ELSE IF Static(e.address, from)
        THEN IF Full(d, o) THEN [d EXCEPT !.cut = TRUE, !.stop = TRUE] ELSE d
        ELSE IF levels = 1 THEN c
        ELSE [last EXCEPT !.stop = left]
  BY DEF Tried
<1>2. e.value = w.memory[s] /\ e.address = s
  OBVIOUS
<1>3. /\ s \in Nat /\ w.memory[s] \in Nat /\ from \in Nat /\ call \in Calls
      /\ call.at \in Nat /\ call.tail \in Seq(Int) /\ call.path \in Seq(Nat)
      /\ call.at = Start(r, w) /\ call.tail = OffsetsOf(r, w) /\ Range(call.path) = {w.target} \cup Range(r)
  BY DEF CallAt, GoodCall, Calls, Searchable
<1>4. /\ q \in Seq(E) /\ q # <<>> /\ q[1] = s /\ r \in Seq(E) /\ Len(r) \in Nat
      /\ Range(q) = {s} \cup Range(r) /\ OffsetsOf(q, w) = offsets /\ Len(q) = Len(r) + 1
  <2>1. r \in Seq(E) /\ Len(r) \in Nat
    BY DEF IsRow
  <2>2. /\ q \in Seq(E) /\ q # <<>> /\ Len(q) = Len(r) + 1
        /\ DOMAIN q = 1..(Len(r) + 1) /\ DOMAIN r = 1..Len(r)
        /\ q[1] = s /\ \A i \in 1..Len(r) : q[i + 1] = r[i]
        /\ \A i \in 2..(Len(r) + 1) : q[i] = r[i - 1] /\ i - 1 \in 1..Len(r)
    BY <2>1, InFront
  <2>3. OffsetsOf(q, w) = <<Start(r, w) - w.memory[s]>> \o OffsetsOf(r, w)
    BY <2>1, OffsetsGrow
  <2>4. Range(q) = {s} \cup Range(r)
    <3> HIDE DEF q
    <3>1. Range(q) = {q[i] : i \in 1..(Len(r) + 1)} /\ Range(r) = {r[i] : i \in 1..Len(r)}
      BY <2>2 DEF Range
    <3>2. 1 \in 1..(Len(r) + 1) /\ \A i \in 1..(Len(r) + 1) : i = 1 \/ i \in 2..(Len(r) + 1)
      BY <2>1
    <3>3. \A i \in 1..Len(r) : i + 1 \in 1..(Len(r) + 1)
      BY <2>1
    <3> QED
      BY <2>2, <3>1, <3>2, <3>3
  <2> QED
    BY <1>2, <1>3, <2>1, <2>2, <2>3, <2>4
<1>5. /\ b \in Accounts /\ c \in Accounts /\ c.chains = b.chains /\ c.stop = b.stop /\ c.work = b.work + 1 /\ c.cut = b.cut
      /\ b.work \in Nat /\ a.work \in Nat /\ b.cut \in BOOLEAN /\ a.cut \in BOOLEAN
      /\ IsFiniteSet(c.chains) /\ GoodAccount(c, from, o, {}, w.target)
  <2>1. b \in Accounts /\ GoodChains(b.chains, from, o, {}, w.target)
    BY DEF OpenAccount, GoodAccount
  <2>2. Account(c, b.chains, b.work + 1, b.cut, b.stop)
    BY <2>1, AccountWork
  <2> HIDE DEF c
  <2> QED
    BY <2>1, <2>2 DEF Account, GoodChains, GoodAccount, Accounts
<1>6. /\ a.work <= b.work /\ (a.cut => b.cut) /\ (Full(b, o) => b.cut)
      /\ ~b.cut /\ b.work < o.work => b.chains = a.chains \cup cs
      /\ b.stop => b.cut \/ ~(b.work < o.work)
  BY DEF Going, Gives
<1>7. s \in Range(call.path) <=> s = w.target \/ s \in Range(r)
  BY <1>3
<1> HIDE DEF c
<1>8. o.work \in Nat
  BY DEF Searchable
<1>9. CASE b.stop
  BY <1>1, <1>5, <1>6, <1>9 DEF Going, Gives
<1>10. Going(a, [c EXCEPT !.cut = TRUE, !.crowded = @ \/ wide, !.stop = TRUE], cs \cup new, o)
  <2> DEFINE x == [c EXCEPT !.cut = TRUE, !.crowded = @ \/ wide, !.stop = TRUE]
  <2>0. wide \in BOOLEAN
    OBVIOUS
  <2> HIDE DEF wide
  <2>1. x \in Accounts /\ x.work = c.work /\ x.cut
    BY <1>5, <2>0, AccountCrowded DEF Account
  <2> HIDE DEF x
  <2>2. Ok(x)
    BY <1>5, <1>6, <2>1 DEF Going, Gives
  <2> QED
    BY <2>2 DEF x
<1>11. ASSUME ~b.stop, new = {} PROVE Going(a, c, cs \cup new, o)
  <2>1. Full(c, o) => Full(b, o)
    BY <1>5 DEF Full
  <2>2. c.work < o.work => b.work < o.work
    BY <1>5, <1>8
  <2>3. a.work <= c.work
    BY <1>5, <1>6
  <2> QED
    BY <1>5, <1>6, <1>11, <2>1, <2>2, <2>3 DEF Going, Gives
<1>12. s \in Range(call.path) => new = {}
  BY <1>7 DEF TryOf
<1>13. s \notin Range(call.path) => new = OnFrom(s, r, levels, w, o, E)
  BY <1>7 DEF TryOf
<1>14. ASSUME Static(s, from), s \notin Range(call.path), ~b.stop
       PROVE  Ok(IF Full(d, o) THEN [d EXCEPT !.cut = TRUE, !.stop = TRUE] ELSE d)
  <2>1. chain = ChainOf(q, w)
    <3>1. OffsetsOf(q, w) = [i \in DOMAIN q |-> (IF i = Len(q) THEN w.target ELSE q[i + 1]) - w.memory[q[i]]]
      BY DEF OffsetsOf, Onward
    <3> HIDE DEF q, offsets
    <3> QED
      BY <1>2, <1>4, <3>1 DEF ChainOf
  <2>2. new = {chain}
    BY <1>13, <1>14, <2>1 DEF OnFrom
  <2>3. chain \in Chains
    <3>1. s - from \in Nat
      BY <1>3, <1>14 DEF Static
    <3>2. offsets \in Seq(Int)
      BY <1>2, <1>3
    <3> QED
      BY <1>2, <3>1, <3>2 DEF Chains
  <2> HIDE DEF chain
  <2> DEFINE cc == c.chains \cup {chain}
  <2>4. cc \in SUBSET Chains
    BY <1>5, <2>3 DEF Accounts
  <2>5. Account(d, cc, c.work, c.cut, c.stop)
    BY <1>5, <2>4, AccountChains
  <2> HIDE DEF d
  <2>6. d \in Accounts /\ d.chains = cc /\ d.work = c.work /\ d.cut = c.cut /\ d.stop = c.stop
    BY <2>5 DEF Account
  <2>7. CASE Full(d, o)
    <3> DEFINE x == [d EXCEPT !.cut = TRUE, !.stop = TRUE]
    <3>1. x \in Accounts /\ x.work = d.work /\ x.cut
      BY <2>6, AccountLeft DEF Account
    <3> HIDE DEF x
    <3>2. Ok(x)
      BY <1>5, <1>6, <2>6, <3>1 DEF Going, Gives
    <3> QED
      BY <2>7, <3>2 DEF x
  <2>8. CASE ~Full(d, o)
    <3>1. d.work < o.work => b.work < o.work
      BY <1>5, <1>8, <2>6
    <3>2. a.work <= d.work
      BY <1>5, <1>6, <2>6
    <3>3. ~d.cut /\ d.work < o.work => d.chains = a.chains \cup (cs \cup new)
      BY <1>5, <1>6, <2>2, <2>6, <3>1
    <3>4. Ok(d)
      BY <1>5, <1>6, <1>14, <2>6, <2>8, <3>1, <3>2, <3>3 DEF Going, Gives
    <3> QED
      BY <2>8, <3>4
  <2> QED
    BY <2>7, <2>8
<1>15. ASSUME ~Static(s, from), s \notin Range(call.path), levels # 1, ~b.stop
       PROVE  Ok([last EXCEPT !.stop = left])
  <2>1. onward \in Calls /\ onward.account = c /\ onward.at = s /\ onward.tail = offsets
        /\ onward.path = Append(call.path, s)
    <3>1. offsets \in Seq(Int) /\ Append(call.path, s) \in Seq(Nat)
      BY <1>2, <1>3
    <3> HIDE DEF offsets
    <3> QED
      BY <1>2, <1>3, <1>5, <3>1 DEF Calls
  <2> HIDE DEF onward
  <2>2. GoodCall(onward, from, o, {}, w.target)
    BY <1>5, <2>1 DEF GoodCall
  <2>3. Range(onward.path) = {w.target} \cup Range(q)
    <3>1. Range(Append(call.path, s)) = Range(call.path) \cup {s}
      <4> DEFINE p == call.path
                 m == Len(p)
                 z == Append(p, s)
      <4>1. p \in Seq(Nat) /\ m \in Nat /\ z \in Seq(Nat) /\ Len(z) = m + 1
            /\ DOMAIN p = 1..m /\ DOMAIN z = 1..(m + 1) /\ z[m + 1] = s /\ \A i \in 1..m : z[i] = p[i]
        BY <1>3
      <4> HIDE DEF p, z
      <4>2. Range(p) = {p[i] : i \in 1..m} /\ Range(z) = {z[i] : i \in 1..(m + 1)}
        BY <4>1 DEF Range
      <4>3. m + 1 \in 1..(m + 1) /\ (\A i \in 1..m : i \in 1..(m + 1)) /\ \A i \in 1..(m + 1) : i = m + 1 \/ i \in 1..m
        BY <4>1
      <4> HIDE DEF m
      <4>4. Range(z) = Range(p) \cup {s}
        BY <4>1, <4>2, <4>3
      <4> QED
        BY <4>4 DEF z, p
    <3> QED
      BY <1>3, <1>4, <2>1, <3>1
  <2>4. IsRow(q, w, o, E) /\ Loose(q, w)
    <3>1. s # w.target /\ s \notin Range(r) /\ Link(w.memory[s], Start(r, w), o)
      BY <1>3, <1>7, <1>15
    <3>2. IsRow(q, w, o, E)
      BY <1>4, <3>1, RowGrows
    <3> HIDE DEF q
    <3> QED
      BY <1>4, <1>15, <3>2 DEF Loose
  <2>5. CallAt(onward, q, w, o)
    <3>1. Start(q, w) = s
      <4> HIDE DEF q
      <4> QED
        BY <1>4 DEF Start
    <3> HIDE DEF q
    <3> QED
      BY <1>4, <2>1, <2>2, <2>3, <3>1 DEF CallAt
  <2>6. Gives(c, last, Beyond(q, levels - 1, w, o, E), o)
    <3> HIDE DEF q
    <3> QED
      BY <1>15, <2>1, <2>4, <2>5 DEF Delivers
  <2>7. new = Beyond(q, levels - 1, w, o, E)
    BY <1>13, <1>15 DEF OnFrom
  <2> DEFINE x == [last EXCEPT !.stop = left]
  <2>8. left \in BOOLEAN /\ (left => Full(last, o) \/ ~(last.work < o.work))
    <3>1. last.work \in Nat
      BY <2>6 DEF Gives, Accounts
    <3> HIDE DEF last
    <3> QED
      BY <1>8, <3>1 DEF Spent
  <2> HIDE DEF last, left, q
  <2>9. last \in Accounts /\ last.work \in Nat /\ last.cut \in BOOLEAN
    BY <2>6 DEF Gives, Accounts
  <2>10. x \in Accounts /\ x.chains = last.chains /\ x.work = last.work /\ x.cut = last.cut /\ x.stop = left
    BY <2>8, <2>9, AccountStop DEF Account
  <2> HIDE DEF x, new
  <2>11. c.work <= last.work /\ (c.cut => last.cut) /\ (Full(last, o) => last.cut)
         /\ (~last.cut /\ last.work < o.work => last.chains = c.chains \cup new)
    BY <2>6, <2>7 DEF Gives
  <2>12. a.work <= x.work /\ (x.work < o.work => b.work < o.work)
    BY <1>5, <1>6, <1>8, <2>9, <2>10, <2>11
  <2>13. Full(x, o) => x.cut
    BY <2>10, <2>11 DEF Full
  <2>14. ~x.cut /\ x.work < o.work => x.chains = a.chains \cup (cs \cup new)
    BY <1>5, <1>6, <2>10, <2>11, <2>12
  <2>15. Going(a, x, cs \cup new, o)
    BY <1>5, <1>6, <2>8, <2>10, <2>11, <2>12, <2>13, <2>14 DEF Going, Gives
  <2> QED
    BY <2>15 DEF x
<1>16. levels = 1 /\ ~Static(s, from) /\ s \notin Range(call.path) => new = {}
  <2>1. ASSUME levels = 1 PROVE Beyond(q, levels - 1, w, o, E) = {}
    <3> HIDE DEF q
    <3>1. \A x \in Seq(E) : ~(Len(q) < Len(x) /\ Len(x) <= Len(q) + (levels - 1))
      BY <1>4, <2>1
    <3> QED
      BY <3>1 DEF Beyond
  <2> QED
    BY <1>13, <2>1 DEF OnFrom
<1> HIDE DEF d, last, left, wide, offsets, onward, chain, new
<1>17. Ok(Tried(b, k, order, call, from, o, levels, deeper))
  <2> DEFINE z == Tried(b, k, order, call, from, o, levels, deeper)
  <2>1. ASSUME ~b.stop, Static(s, from), s \notin Range(call.path)
        PROVE  Ok(IF Full(d, o) THEN [d EXCEPT !.cut = TRUE, !.stop = TRUE] ELSE d)
    BY <1>14, <2>1
  <2>2. Ok([c EXCEPT !.cut = TRUE, !.crowded = @ \/ wide, !.stop = TRUE])
    BY <1>10
  <2>3. ~b.stop /\ new = {} => Ok(c)
    BY <1>11
  <2>4. ~Static(s, from) /\ s \notin Range(call.path) /\ levels # 1 /\ ~b.stop => Ok([last EXCEPT !.stop = left])
    BY <1>15
  <2>5. b.stop => Ok(z)
    BY <1>9 DEF new
  <2>6. z = IF b.stop THEN b
            ELSE IF wide \/ c.work > o.work THEN [c EXCEPT !.cut = TRUE, !.crowded = @ \/ wide, !.stop = TRUE]
            ELSE IF s \in Range(call.path) THEN c
            ELSE IF Static(s, from)
            THEN IF Full(d, o) THEN [d EXCEPT !.cut = TRUE, !.stop = TRUE] ELSE d
            ELSE IF levels = 1 THEN c
            ELSE [last EXCEPT !.stop = left]
    BY <1>1, <1>2
  <2> HIDE DEF Ok, z, from
  <2>7. Ok(z)
    BY <1>12, <1>16, <2>1, <2>2, <2>3, <2>4, <2>5, <2>6
  <2> QED
    BY <2>7 DEF z
<1> QED
  BY <1>17 DEF new

(* Searching a node gives the chains beyond its row, if searching deeper does. *)
LEMMA NodeFinds ==
    ASSUME NEW w, NEW o, NEW E, Searchable(w, o, E), ModuleSlots \in Nat,
           NEW levels \in Nat \ {0}, NEW deeper,
           levels # 1 => /\ Delivers(deeper, levels - 1, w, o, E)
                         /\ \A x : GoodCall(x, w.base, o, {}, w.target)
                                     => GoodAccount(deeper[x], w.base, o, {}, w.target)
    PROVE  Delivers(SearchNode(EntriesOf(E, w.memory), w.base, o, levels, deeper), levels, w, o, E)
<1> DEFINE entries == EntriesOf(E, w.memory)
           from == w.base
           F == SearchNode(entries, from, o, levels, deeper)
<1> SUFFICES ASSUME NEW call, NEW r, IsRow(r, w, o, E), Loose(r, w), CallAt(call, r, w, o)
             PROVE  Gives(call.account, F[call], Beyond(r, levels, w, o, E), o)
  BY DEF Delivers
<1> DEFINE order == Nearby(entries, call.at, o)
           a == call.account
           n == Len(order)
           near == {e \in entries : Link(e.value, call.at, o)}
           On(b, cs) == Going(a, b, cs, o)
<1>1. entries \in SUBSET Entry /\ IsFiniteSet(entries) /\ KnownIn(entries, {})
  BY SearchableIndex
<1>2. /\ from \in Nat /\ o.chains \in Nat /\ o.work \in Nat /\ Ranged(o) /\ GoodCall(call, from, o, {}, w.target)
      /\ call \in Calls /\ call.at \in Nat /\ a \in Accounts /\ a.work \in Nat /\ a.cut \in BOOLEAN
  BY DEF Searchable, CallAt, GoodCall, Calls, Accounts
<1> HIDE DEF a
<1>3. CASE Full(a, o) \/ Spent(a, o)
  <2> DEFINE x == [a EXCEPT !.cut = TRUE]
  <2>1. F[call] = x
    BY <1>2, <1>3 DEF SearchNode, a
  <2>2. x \in Accounts /\ x.work = a.work /\ x.cut
    BY <1>2, AccountCut DEF Account
  <2> HIDE DEF x, F
  <2>3. Gives(a, x, Beyond(r, levels, w, o, E), o)
    BY <1>2, <2>2 DEF Gives
  <2> QED
    BY <2>1, <2>3 DEF a
<1>4. CASE ~Full(a, o) /\ ~Spent(a, o)
  <2>1. PICK after : /\ after[0] = [a EXCEPT !.stop = FALSE]
                     /\ \A k \in 1..n : after[k] = Tried(after[k - 1], k, order, call, from, o, levels, deeper)
                     /\ \A k \in 0..n : after[k] \in Accounts /\ OpenAccount(after[k], from, o, {}, w.target)
                     /\ F[call] = [after[n] EXCEPT !.stop = FALSE]
    <3>1. ~Full(call.account, o) /\ ~Spent(call.account, o)
      BY <1>4 DEF a
    <3> HIDE DEF entries
    <3>2. levels # 1 => \A x : GoodCall(x, from, o, {}, w.target) => GoodAccount(deeper[x], from, o, {}, w.target)
      OBVIOUS
    <3> DEFINE to == w.target
    <3>4. /\ KnownIn(entries, {}) /\ IsFiniteSet(entries) /\ from \in Nat /\ o.chains \in Nat /\ Ranged(o)
          /\ GoodCall(call, from, o, {}, to)
      BY <1>1, <1>2
    <3>5. levels # 1 => \A x : GoodCall(x, from, o, {}, to) => GoodAccount(deeper[x], from, o, {}, to)
      BY <3>2
    <3>6. entries \in SUBSET Entry
      BY <1>1
    <3> HIDE DEF from, to
    <3>7. \E after : NodeRuns(after, Nearby(entries, call.at, o), call,
                             SearchNode(entries, from, o, levels, deeper)[call], from, o, levels, deeper, {}, to)
      BY <3>1, <3>4, <3>5, <3>6, NodeStages
    <3>8. \E after : NodeRuns(after, order, call, F[call], from, o, levels, deeper, {}, to)
      BY <3>7
    <3> HIDE DEF order, F
    <3> QED
      BY <3>8 DEF a, to, from, NodeRuns
  <2>2. n \in Nat /\ (\A k \in 1..n : order[k] \in near) /\ \A e \in near : \E k \in 1..n : order[k] = e
    <3> DEFINE R == {p \in near \X near : Sooner(p[1], p[2], call.at)}
    <3>1. ListsOnce(order, near, R)
      BY <1>1, <1>2, NearbyIs
    <3> HIDE DEF order, R, near
    <3> QED
      BY <3>1 DEF ListsOnce
  <2> HIDE DEF order, n, F
  <2> DEFINE Try(k) == TryOf(order[k].address, r, levels, w, o, E)
             C(k) == UNION {Try(j) : j \in 1..k}
             S == [k \in 0..n |-> {b \in Accounts : On(b, C(k))}]
  <2>3. \A k \in 1..n : /\ order[k].address \in E /\ order[k] = [value |-> w.memory[order[k].address], address |-> order[k].address]
                        /\ Link(w.memory[order[k].address], call.at, o)
    BY <2>2 DEF EntriesOf
  <2>4. after[0] \in S[0]
    <3> DEFINE z == after[0]
    <3>1. z \in Accounts /\ z.chains = a.chains /\ z.work = a.work /\ z.cut = a.cut /\ ~z.stop
      BY <1>2, <2>1, AccountStop DEF Account
    <3>2. C(0) = {}
      OBVIOUS
    <3>3. Full(z, o) => Full(a, o)
      BY <3>1 DEF Full
    <3> HIDE DEF z, C
    <3>4. On(z, C(0))
      BY <1>2, <1>4, <3>1, <3>2, <3>3 DEF Going, Gives
    <3>5. 0 \in 0..n
      BY <2>2
    <3> HIDE DEF On
    <3> QED
      BY <3>1, <3>4, <3>5 DEF z
  <2>5. ASSUME NEW k \in 1..n, after[k - 1] \in S[k - 1] PROVE after[k] \in S[k]
    <3> DEFINE s == order[k].address
               b == after[k - 1]
               c == after[k]
    <3>1. k - 1 \in 0..n /\ k \in 0..n /\ k \in Nat /\ k - 1 \in Nat /\ \A j \in 1..k : j = k \/ j \in 1..(k - 1)
      BY <2>2
    <3>2. C(k) = C(k - 1) \cup Try(k)
      <4> HIDE DEF Try
      <4>1. \A j \in 1..(k - 1) : j \in 1..k
        BY <3>1
      <4>2. k \in 1..k
        BY <3>1
      <4> QED
        BY <3>1, <4>1, <4>2
    <3>3. s \in E /\ order[k] = [value |-> w.memory[s], address |-> s] /\ Link(w.memory[s], call.at, o)
      BY <2>3
    <3>4. OpenAccount(b, from, o, {}, w.target) /\ Going(a, b, C(k - 1), o)
      <4> HIDE DEF C
      <4> QED
        BY <2>1, <2>5, <3>1
    <3>5. c = Tried(b, k, order, call, from, o, levels, deeper)
      BY <2>1
    <3> HIDE DEF s, b, c, C
    <3>6. Going(a, Tried(b, k, order, call, w.base, o, levels, deeper), C(k - 1) \cup TryOf(s, r, levels, w, o, E), o)
      BY <1>2, <3>3, <3>4, TriedFinds
    <3>7. Going(a, c, C(k), o)
      BY <3>2, <3>5, <3>6 DEF s
    <3> QED
      BY <2>1, <3>1, <3>7 DEF c
  <2>6. after[n] \in S[n]
    <3> HIDE DEF S
    <3>1. \A k \in 0..n : after[k] \in S[k]
      BY <2>2, <2>4, <2>5, StagesStay
    <3>2. n \in 0..n
      BY <2>2
    <3> QED
      BY <3>1, <3>2
  <2>7. C(n) = Beyond(r, levels, w, o, E)
    <3>0. call.at = Start(r, w)
      BY DEF CallAt
    <3>1. ASSUME NEW c, c \in C(n) PROVE c \in Beyond(r, levels, w, o, E)
      <4>1. PICK k \in 1..n : c \in Try(k)
        BY <3>1
      <4> DEFINE s == order[k].address
      <4>2. s \in E /\ Link(w.memory[s], Start(r, w), o)
        BY <2>3, <3>0
      <4>3. s # w.target /\ s \notin Range(r) /\ c \in OnFrom(s, r, levels, w, o, E)
        BY <4>1 DEF TryOf
      <4> HIDE DEF s
      <4> QED
        BY <4>2, <4>3, BeyondGrows
    <3>2. ASSUME NEW c, c \in Beyond(r, levels, w, o, E) PROVE c \in C(n)
      <4>1. PICK s \in E : /\ s # w.target /\ s \notin Range(r) /\ Link(w.memory[s], Start(r, w), o)
                           /\ c \in OnFrom(s, r, levels, w, o, E)
        BY <3>2, BeyondGrows
      <4> DEFINE e == [value |-> w.memory[s], address |-> s]
      <4>2. e \in near /\ e.address = s
        BY <3>0, <4>1 DEF EntriesOf
      <4>3. PICK k \in 1..n : order[k] = e
        BY <2>2, <4>2
      <4>4. order[k].address = s
        BY <4>2, <4>3
      <4>5. c \in Try(k)
        BY <4>1, <4>4 DEF TryOf
      <4> HIDE DEF Try
      <4> QED
        BY <4>5
    <3> HIDE DEF C
    <3> QED
      BY <3>1, <3>2
  <2> DEFINE z == after[n]
             x == [z EXCEPT !.stop = FALSE]
  <2>8. z \in Accounts /\ Going(a, z, Beyond(r, levels, w, o, E), o)
    <3>1. n \in 0..n
      BY <2>2
    <3> HIDE DEF C
    <3> QED
      BY <2>6, <2>7, <3>1
  <2> HIDE DEF z, C, S
  <2>9. x \in Accounts /\ x.chains = z.chains /\ x.work = z.work /\ x.cut = z.cut
    BY <2>8, AccountStop DEF Account
  <2> HIDE DEF x
  <2>10. Full(x, o) => Full(z, o)
    BY <2>9 DEF Full
  <2>11. Gives(a, x, Beyond(r, levels, w, o, E), o)
    BY <2>8, <2>9, <2>10 DEF Going, Gives
  <2>12. F[call] = x
    BY <2>1 DEF x, z
  <2> QED
    BY <2>11, <2>12 DEF a
<1> QED
  BY <1>3, <1>4

(* The depth-first search gives the chains beyond a row, as deep as it goes. *)
LEMMA DfsFinds ==
    ASSUME NEW w, NEW o, NEW E, Searchable(w, o, E), ModuleSlots \in Nat
    PROVE  Delivers(Dfs(EntriesOf(E, w.memory), w.base, o), o.depth, w, o, E)
<1> DEFINE entries == EntriesOf(E, w.memory)
           n == o.depth
           Sound(F) == \A x : GoodCall(x, w.base, o, {}, w.target) => GoodAccount(F[x], w.base, o, {}, w.target)
           Complete(F, k) == k # 0 => Delivers(F, k, w, o, E)
<1>0. n \in Nat \ {0} /\ o.chains \in Nat /\ Ranged(o) /\ w.base \in Nat
      /\ entries \in SUBSET Entry /\ IsFiniteSet(entries) /\ KnownIn(entries, {})
  BY SearchableIndex DEF Searchable
<1>1. PICK f : /\ f[0] = [x \in Calls |-> x.account] /\ f[n] = Dfs(entries, w.base, o)
               /\ \A k \in 1..n : f[k] = SearchNode(entries, w.base, o, k, f[k - 1])
  BY <1>0, DfsIs
<1>2. Sound(f[0])
  BY <1>1 DEF GoodCall
<1> HIDE DEF entries
<1>3. ASSUME NEW k \in 1..n, Sound(f[k - 1]) PROVE Sound(f[k])
  <2> SUFFICES ASSUME NEW x, GoodCall(x, w.base, o, {}, w.target) PROVE GoodAccount(f[k][x], w.base, o, {}, w.target)
    OBVIOUS
  <2> DEFINE deeper == f[k - 1]
  <2>1. f[k] = SearchNode(entries, w.base, o, k, deeper)
    BY <1>1
  <2>2. \A y : GoodCall(y, w.base, o, {}, w.target) => GoodAccount(deeper[y], w.base, o, {}, w.target)
    BY <1>3
  <2> HIDE DEF deeper
  <2>3. GoodAccount(SearchNode(entries, w.base, o, k, deeper)[x], w.base, o, {}, w.target)
    BY <1>0, <2>2, NodeIsGood
  <2> QED
    BY <2>1, <2>3
<1>4. ASSUME NEW k \in 1..n, Sound(f[k - 1]), Complete(f[k - 1], k - 1) PROVE Complete(f[k], k)
  <2> DEFINE deeper == f[k - 1]
  <2>1. f[k] = SearchNode(EntriesOf(E, w.memory), w.base, o, k, deeper)
    BY <1>1 DEF entries
  <2>2. k \in Nat \ {0} /\ (k # 1 => k - 1 # 0)
    BY <1>0
  <2>3. k # 1 => Delivers(deeper, k - 1, w, o, E) /\ Sound(deeper)
    BY <1>4, <2>2
  <2> HIDE DEF deeper
  <2>4. Delivers(SearchNode(EntriesOf(E, w.memory), w.base, o, k, deeper), k, w, o, E)
    BY <2>2, <2>3, NodeFinds
  <2> QED
    BY <2>1, <2>4
<1> DEFINE T == [k \in 0..n |-> IF Sound(f[k]) /\ Complete(f[k], k) THEN {f[k]} ELSE {}]
<1>5. \A k \in 0..n : Sound(f[k]) /\ Complete(f[k], k)
  <2>0. Complete(f[0], 0)
    OBVIOUS
  <2> HIDE DEF Sound, Complete, n
  <2>1. 0 \in 0..n /\ \A k \in 1..n : k - 1 \in 0..n /\ k \in 0..n
    BY <1>0
  <2>2. f[0] \in T[0]
    BY <1>2, <2>0, <2>1
  <2>3. \A k \in 1..n : f[k - 1] \in T[k - 1] => f[k] \in T[k]
    BY <1>3, <1>4, <2>1
  <2>4. \A k \in 0..n : f[k] \in T[k]
    <3> HIDE DEF T
    <3>1. n \in Nat
      BY <1>0
    <3> QED
      BY <2>2, <2>3, <3>1, StagesStay
  <2> QED
    BY <2>4
<1>6. n \in 0..n /\ n # 0
  BY <1>0
<1>7. Delivers(f[n], n, w, o, E)
  BY <1>5, <1>6
<1> QED
  BY <1>1, <1>7 DEF entries

(* A depth-first search that met no limit and has work left found all chains there are. *)
LEMMA FoundIsWhole ==
    ASSUME NEW w, NEW o, NEW E, Searchable(w, o, E), ModuleSlots \in Nat
    PROVE  LET found == FindChains(EntriesOf(E, w.memory), w.base, w.target, o)
           IN  ~found.cut /\ found.work < o.work => found.chains = ChainsTo(w, o, E)
<1> DEFINE a == [chains |-> {}, work |-> 0, cut |-> FALSE, crowded |-> FALSE, stop |-> FALSE]
           call == [at |-> w.target, tail |-> <<>>, path |-> <<w.target>>, account |-> a]
           F == Dfs(EntriesOf(E, w.memory), w.base, o)
           r == <<>>
<1>0. w.target \in Nat /\ o.depth \in Nat \ {0} /\ o.depth \in Nat
  BY DEF Searchable
<1>1. a \in Accounts /\ a.chains = {} /\ IsFiniteSet({}) /\ Cardinality({}) = 0 /\ o.chains \in Nat
  BY FS_EmptySet DEF Accounts, Searchable
<1>2. GoodAccount(a, w.base, o, {}, w.target)
  <2> HIDE DEF a
  <2> QED
    BY <1>1 DEF GoodAccount, GoodChains, AllLead
<1>3. call \in Calls /\ call.account = a /\ call.at = w.target /\ call.tail = <<>> /\ call.path = <<w.target>>
  BY <1>0, <1>1 DEF Calls
<1>4. r \in Seq(E) /\ IsRow(r, w, o, E) /\ Loose(r, w) /\ Start(r, w) = w.target /\ Range(r) = {}
  BY EmptyRow
<1>5. OffsetsOf(r, w) = <<>> /\ Range(<<w.target>>) = {w.target} /\ Len(r) = 0
  BY DEF OffsetsOf, Range
<1> HIDE DEF a, call, F, r
<1>6. CallAt(call, r, w, o)
  BY <1>2, <1>3, <1>4, <1>5 DEF CallAt, GoodCall
<1>7. Delivers(F, o.depth, w, o, E)
  BY DfsFinds DEF F
<1>8. Gives(a, F[call], Beyond(r, o.depth, w, o, E), o)
  BY <1>3, <1>4, <1>6, <1>7 DEF Delivers
<1>9. Beyond(r, o.depth, w, o, E) = ChainsTo(w, o, E)
  <2> DEFINE Is(q) == IsRow(q, w, o, E) /\ q # <<>> /\ Len(q) <= o.depth /\ Static(q[1], w.base)
             In(q) == /\ q \in Seq(E) /\ IsRow(q, w, o, E) /\ Ends(q, r) /\ Static(q[1], w.base)
                      /\ Len(r) < Len(q) /\ Len(q) <= Len(r) + o.depth
  <2>1. \A q : q \in Rows(w, o, E) <=> Is(q)
    BY <1>0, RowsAre
  <2>2. ASSUME NEW q PROVE In(q) <=> Is(q)
    <3>1. IsRow(q, w, o, E) => q \in Seq(E) /\ Len(q) \in Nat /\ (q # <<>> <=> 0 < Len(q))
      BY DEF IsRow
    <3>2. Len(q) \in Nat => Ends(q, r) /\ (Len(q) <= Len(r) + o.depth <=> Len(q) <= o.depth)
      BY <1>0, <1>5 DEF Ends
    <3> QED
      BY <1>5, <3>1, <3>2
  <2>3. Beyond(r, o.depth, w, o, E) = {ChainOf(q, w) : q \in {q \in Seq(E) : In(q)}}
    BY DEF Beyond
  <2>4. {q \in Seq(E) : In(q)} = Rows(w, o, E)
    <3>1. \A q : In(q) => q \in Seq(E)
      OBVIOUS
    <3> HIDE DEF In, Is
    <3> QED
      BY <2>1, <2>2, <3>1
  <2> HIDE DEF In, Is
  <2> QED
    BY <2>3, <2>4 DEF ChainsTo
<1>10. FindChains(EntriesOf(E, w.memory), w.base, w.target, o) = F[call]
  BY DEF FindChains, F, call, a
<1>11. ~F[call].cut /\ F[call].work < o.work => F[call].chains = ChainsTo(w, o, E)
  BY <1>1, <1>8, <1>9 DEF Gives
<1> QED
  BY <1>10, <1>11

-----------------------------------------------------------------------------
(* What the index has. *)

\* The slots of the parts before part k, and those that the index and the levels are for.
InParts(k)   == {a \in Slots : \E j \in DOMAIN Parts : j < k /\ a \in Parts[j]}
ForIndex(o)  == {a \in Slots : (o.writable => a \in Writable) /\ slots[a] \in Slots}
ForLevels(o) == {a \in Slots : o.writable => a \in Writable \/ Static(a, base)}

\* A search that has met no limit, in memory nobody has written since.
Unhindered == find # Absent /\ ~cut /\ writes = find.writes

IndexHas ==
    Unhindered /\ find.phase = "index"
      => /\ find.missed \subseteq InParts(find.part)
         /\ index = EntriesOf((ForIndex(find.o) \ find.missed) \cap InParts(find.part), slots)

(* Before the first part there is nothing, after the last one every slot, and a part is   *)
(* apart from those before it.                                                            *)
LEMMA PartsAre ==
    /\ InParts(1) = {} /\ \A k \in Nat : k > Len(Parts) => InParts(k) = Slots
    /\ \A k \in DOMAIN Parts : /\ k \in Nat /\ Parts[k] \in SUBSET Slots /\ Parts[k] \cap InParts(k) = {}
                               /\ InParts(k + 1) = InParts(k) \cup Parts[k]
<1>1. DOMAIN Parts = 1..Len(Parts) /\ Len(Parts) \in Nat /\ \A k \in DOMAIN Parts : Parts[k] \in SUBSET Slots
  BY PointerTypes
<1>2. \A a \in Slots : \E j \in DOMAIN Parts : a \in Parts[j]
  BY DEF Slots
<1>3. Slots \in SUBSET Nat
  BY SlotsAre
<1> HIDE DEF Slots
<1>4. InParts(1) = {}
  BY <1>1 DEF InParts
<1>5. ASSUME NEW k \in Nat, k > Len(Parts) PROVE InParts(k) = Slots
  <2>1. \A j \in DOMAIN Parts : j < k
    BY <1>1, <1>5
  <2> QED
    BY <1>2, <2>1 DEF InParts
<1>6. ASSUME NEW k \in DOMAIN Parts PROVE k \in Nat /\ Parts[k] \cap InParts(k) = {}
  <2>1. k \in Nat
    BY <1>1
  <2>2. ASSUME NEW a \in Parts[k], NEW j \in DOMAIN Parts, j < k, a \in Parts[j] PROVE FALSE
    <3>1. \A x \in Parts[j], y \in Parts[k] : x < y
      BY <2>2, PartsAscend
    <3>2. a < a /\ a \in Nat
      BY <1>1, <1>3, <2>2, <3>1
    <3> QED
      BY <3>2
  <2> QED
    BY <2>1, <2>2 DEF InParts
<1>7. ASSUME NEW k \in DOMAIN Parts PROVE InParts(k + 1) = InParts(k) \cup Parts[k]
  <2>1. \A j \in DOMAIN Parts : j < k + 1 <=> j < k \/ j = k
    BY <1>1
  <2>2. Parts[k] \in SUBSET Slots
    BY <1>1
  <2>3. ASSUME NEW a \in Slots PROVE a \in InParts(k + 1) <=> a \in InParts(k) \cup Parts[k]
    BY <2>1 DEF InParts
  <2>4. InParts(k + 1) \in SUBSET Slots /\ InParts(k) \in SUBSET Slots
    BY DEF InParts
  <2> QED
    BY <2>2, <2>3, <2>4
<1> QED
  BY <1>1, <1>4, <1>5, <1>6, <1>7

(* Those up to a limit of a set are all of it, or as many as the limit. *)
LEMMA AllOrFull ==
    ASSUME NEW U \in SUBSET Nat, IsFiniteSet(U), NEW room \in Nat
    PROVE  LET K == {a \in U : Cardinality({b \in U : b <= a}) <= room}
           IN  K = U \/ Cardinality(K) >= room
<1> DEFINE Up(a) == {b \in U : b <= a}
           K == {a \in U : Cardinality(Up(a)) <= room}
           n == Cardinality(U)
           Rank(c) == Cardinality({d \in U : d < c})
<1>1. n \in Nat /\ \A k \in 0..(n - 1) : \E c \in U : Rank(c) = k
  BY RanksAre
<1>2. IsFiniteSet(K) /\ Cardinality(K) \in Nat
  BY FS_Subset, FS_CardinalityType
<1>3. \A a \in U : Cardinality(Up(a)) \in Nat /\ Cardinality(Up(a)) <= n
  <2> TAKE a \in U
  <2>1. Up(a) \in SUBSET U
    OBVIOUS
  <2> HIDE DEF Up
  <2> QED
    BY <2>1, FS_Subset, FS_CardinalityType
<1>4. CASE n <= room
  <2>1. \A a \in U : Cardinality(Up(a)) <= room
    <3> HIDE DEF Up, n
    <3> QED
      BY <1>1, <1>3, <1>4
  <2> QED
    BY <2>1
<1>5. CASE room = 0
  <2> HIDE DEF K
  <2>1. Cardinality(K) >= room
    BY <1>2, <1>5
  <2> QED
    BY <2>1 DEF K
<1>6. CASE ~(n <= room) /\ room # 0
  <2>1. room - 1 \in 0..(n - 1) /\ room - 1 + 1 = room
    <3> HIDE DEF n
    <3> QED
      BY <1>1, <1>6
  <2>2. PICK c \in U : Rank(c) = room - 1
    BY <1>1, <2>1
  <2> DEFINE L == {d \in U : d < c}
             A == Up(c)
  <2>3. A = L \cup {c} /\ c \notin L /\ L \in SUBSET U /\ A \in SUBSET U
    <3>1. c \in Nat /\ \A d \in U : d \in Nat
      OBVIOUS
    <3>2. \A d \in U : d <= c <=> d < c \/ d = c
      BY <3>1
    <3>3. c \notin L
      BY <3>1
    <3>4. \A d : d \in A <=> d \in L \cup {c}
      BY <3>2
    <3> HIDE DEF A
    <3>5. A = L \cup {c}
      BY <3>4
    <3> QED
      BY <3>3, <3>5 DEF A
  <2>4. Cardinality(A) = room
    <3>1. Cardinality(L) = room - 1
      BY <2>2
    <3> HIDE DEF A, L
    <3>2. IsFiniteSet(L) /\ Cardinality(L \cup {c}) = Cardinality(L) + 1
      BY <2>3, FS_Subset, FS_AddElement
    <3> QED
      BY <2>1, <2>3, <3>1, <3>2
  <2>5. A \in SUBSET K
    <3> SUFFICES ASSUME NEW a \in A PROVE a \in K
      OBVIOUS
    <3>1. a \in U /\ Up(a) \in SUBSET A
      <4>1. a \in Nat /\ c \in Nat /\ a <= c /\ \A b \in U : b \in Nat
        OBVIOUS
      <4>2. \A b \in U : b <= a => b <= c
        BY <4>1
      <4> QED
        BY <4>2
    <3>2. IsFiniteSet(A) /\ Cardinality(Up(a)) <= Cardinality(A)
      <4> HIDE DEF A, Up
      <4> QED
        BY <2>3, <3>1, FS_Subset
    <3> HIDE DEF A, Up
    <3> QED
      BY <2>4, <3>1, <3>2
  <2> HIDE DEF A, K
  <2>6. Cardinality(A) <= Cardinality(K)
    BY <1>2, <2>5, FS_Subset
  <2>7. Cardinality(K) >= room
    BY <1>2, <2>4, <2>6
  <2> QED
    BY <2>7 DEF K
<1> QED
  BY <1>4, <1>5, <1>6

(* The index part by part: what a part leaves out is told.                                *)
LEMMA IndexPartHas ==
    ASSUME PointerInv, IndexHas, NEW gone, NEW short, IndexPart(gone, short)
    PROVE  IndexHas'
<1> DEFINE o      == find.o
           part   == find.part
           asked  == {a \in Parts[part] : o.writable => a \in Writable}
           there  == Brought(asked, gone, short)
           usable == {a \in there : slots[a] \in Slots}
           room   == o.index - Cardinality(index)
           taken   == {a \in usable : Cardinality({b \in usable : b <= a}) <= room}
           new    == EntriesOf(taken, slots)
           had    == (ForIndex(o) \ find.missed) \cap InParts(part)
           full   == Cardinality(index') >= o.index
           missed == find.missed \cup (asked \ there)
<1>1. /\ find # Absent /\ find.phase = "index" /\ part \in DOMAIN Parts
      /\ index' = index \cup new
      /\ cut' = (cut \/ Cardinality(index') >= o.index)
      /\ PartRead(asked, gone, short, full)
      /\ slots' = slots /\ base' = base /\ writes' = writes
  BY DEF IndexPart, EntriesOf
<1>2. /\ find \in Finds /\ o \in Options /\ o.index \in Nat /\ slots \in [Slots -> PointerValues]
      /\ IsFiniteSet(index) /\ Cardinality(index) <= o.index /\ Cardinality(index) \in Nat
  BY <1>1, PointerLimits, FS_CardinalityType DEF PointerInv, PointerTyped, Searching, Finds
<1> SUFFICES ASSUME Unhindered'
             PROVE  /\ index' = EntriesOf((ForIndex(o) \ missed) \cap InParts(part + 1), slots)
                    /\ missed \in SUBSET InParts(part + 1)
                    /\ find'.part = part + 1 /\ find'.o = o /\ find'.missed = missed
  <2>1. (EntriesOf((ForIndex(find.o) \ find.missed) \cap InParts(find.part), slots))'
          = EntriesOf((ForIndex(find'.o) \ find'.missed) \cap InParts(find'.part), slots)
    BY <1>1 DEF EntriesOf, ForIndex, InParts
  <2>2. InParts(find.part)' = InParts(find'.part)
    BY DEF InParts
  <2> HIDE DEF o, part, missed
  <2> QED
    BY <2>1, <2>2 DEF IndexHas
<1>3. ~cut /\ ~(Cardinality(index') >= o.index)
  BY <1>1 DEF Unhindered
<1>17. asked \in SUBSET Slots /\ asked \in SUBSET Parts[part] /\ there \in SUBSET asked
  <2>1. asked \in SUBSET Parts[part] /\ Parts[part] \in SUBSET Slots
    BY <1>1, PartsAre
  <2> HIDE DEF asked
  <2> QED
    BY <2>1, BroughtIs
<1>4. find'.part = part + 1 /\ find'.o = o /\ find'.writes = find.writes /\ find'.missed = missed
  <2>1. full \in BOOLEAN /\ ~full
    BY <1>3
  <2> HIDE DEF full, asked
  <2> QED
    BY <1>1, <1>2, <1>17, <2>1, PartReadIs DEF Onwards
<1>5. index = EntriesOf(had, slots) /\ find.missed \in SUBSET InParts(part)
  BY <1>1, <1>3, <1>4 DEF IndexHas, Unhindered
<1>6. part \in Nat /\ Parts[part] \in SUBSET Slots /\ Parts[part] \cap InParts(part) = {}
      /\ InParts(part + 1) = InParts(part) \cup Parts[part]
  BY <1>1, PartsAre
<1>7. /\ usable = (ForIndex(o) \ missed) \cap Parts[part]
      /\ usable \in SUBSET Nat /\ IsFiniteSet(usable) /\ room \in Nat
  <2>1. usable = (ForIndex(o) \ missed) \cap Parts[part]
    <3>1. find.missed \cap Parts[part] = {}
      BY <1>5, <1>6
    <3> HIDE DEF there
    <3> QED
      BY <1>6, <1>17, <3>1 DEF ForIndex
  <2>2. usable \in SUBSET Slots
    BY <1>17
  <2>3. room \in Nat
    BY <1>2
  <2> HIDE DEF usable
  <2> QED
    BY <2>1, <2>2, <2>3, SlotsAre, PointerTypes, FS_Subset
<1> HIDE DEF asked, there, usable, room, missed
<1>8. taken = usable \/ Cardinality(taken) >= room
  BY <1>7, AllOrFull
<1>9. taken \in SUBSET usable /\ IsFiniteSet(taken) /\ Cardinality(taken) \in Nat
  <2>1. taken \in SUBSET usable
    OBVIOUS
  <2> HIDE DEF taken
  <2> QED
    BY <1>7, <2>1, FS_Subset, FS_CardinalityType
<1> HIDE DEF taken, new, had
<1>10. IsFiniteSet(new) /\ Cardinality(new) \in Nat /\ Cardinality(taken) <= Cardinality(new)
  <2> DEFINE f == [a \in taken |-> [value |-> slots[a], address |-> a]]
             g == [e \in new |-> e.address]
  <2>1. new = {f[a] : a \in taken}
    BY DEF new, EntriesOf
  <2>2. IsFiniteSet(new) /\ Cardinality(new) \in Nat
    <3> HIDE DEF f
    <3> QED
      BY <1>9, <2>1, ImageIs
  <2>3. taken = {g[e] : e \in new}
    <3>1. new = {[value |-> slots[a], address |-> a] : a \in taken}
      BY DEF new, EntriesOf
    <3>2. \A a \in taken : [value |-> slots[a], address |-> a] \in new /\ [value |-> slots[a], address |-> a].address = a
      BY <3>1
    <3>3. \A e \in new : e.address \in taken
      BY <3>1
    <3> QED
      BY <3>2, <3>3
  <2>4. Cardinality(taken) <= Cardinality(new)
    <3> HIDE DEF g
    <3> QED
      BY <2>2, <2>3, ImageIs
  <2> QED
    BY <2>2, <2>4
<1>11. index \cap new = {}
  <2>1. \A e \in index : e.address \in InParts(part)
    BY <1>5 DEF EntriesOf, had
  <2>2. \A e \in new : e.address \in Parts[part]
    BY <1>7, <1>9 DEF EntriesOf, new
  <2> QED
    BY <1>6, <2>1, <2>2
<1>12. Cardinality(index') = Cardinality(index) + Cardinality(new)
  <2>1. Cardinality(index \cup new) = Cardinality(index) + Cardinality(new) - Cardinality(index \cap new)
    BY <1>2, <1>10, FS_Union
  <2>2. Cardinality(index \cap new) = 0
    BY <1>11, FS_EmptySet
  <2> QED
    BY <1>1, <1>2, <1>10, <2>1, <2>2
<1>13. ~(Cardinality(taken) >= room)
  <2>1. room = o.index - Cardinality(index)
    BY DEF room
  <2> HIDE DEF o
  <2> QED
    BY <1>2, <1>3, <1>9, <1>10, <1>12, <2>1
<1>14. new = EntriesOf(usable, slots)
  BY <1>8, <1>13 DEF new
<1>15. index' = EntriesOf(had \cup usable, slots)
  BY <1>1, <1>5, <1>14 DEF EntriesOf
<1>16. had \cup usable = (ForIndex(o) \ missed) \cap InParts(part + 1) /\ missed \in SUBSET InParts(part + 1)
  <2>1. missed = find.missed \cup (asked \ there) /\ asked \ there \in SUBSET Parts[part]
    BY <1>17 DEF missed
  <2>2. \A a \in InParts(part) : a \in missed <=> a \in find.missed
    BY <1>6, <2>1
  <2> QED
    BY <1>5, <1>6, <1>7, <2>1, <2>2 DEF had
<1> QED
  BY <1>4, <1>15, <1>16

(* A search is for a target in slots that hold numbers. *)
LEMMA SearchableHere ==
    ASSUME PointerInv, find # Absent, NEW E \in SUBSET Slots
    PROVE  /\ Searchable(World(find.target), find.o, E)
           /\ find.o \in Options /\ {find.o.depth, find.o.chains, find.o.index, find.o.perNode, find.o.work} \subseteq Nat \ {0}
           /\ find.target \in Nat /\ find.part \in Nat /\ base \in Nat /\ ModuleSlots \in Nat /\ Ranged(find.o)
<1> DEFINE w == World(find.target)
<1>1. find \in Finds /\ slots \in [Slots -> PointerValues] /\ base \in Slots
  BY DEF PointerInv, PointerTyped, Searching
<1>2. find.o \in Options /\ find.target \in Nat /\ find.part \in Nat
  BY <1>1, SlotsAre DEF Finds
<1>3. {find.o.depth, find.o.chains, find.o.index, find.o.perNode, find.o.work} \subseteq Nat \ {0} /\ ModuleSlots \in Nat
      /\ Ranged(find.o)
  BY <1>2, PointerLimits DEF Ranged
<1>4. w.memory = slots /\ w.base = base /\ w.target = find.target
  BY DEF World
<1>5. IsFiniteSet(E) /\ E \in SUBSET Nat
  BY SlotsAre, PointerTypes, FS_Subset
<1>6. \A a \in E : slots[a] \in Nat /\ slots[a] \in PointerValues
  BY <1>1, SlotsAre
<1>7. base \in Nat
  BY <1>1, SlotsAre
<1> HIDE DEF w
<1>8. Searchable(w, find.o, E)
  BY <1>2, <1>3, <1>4, <1>5, <1>6, <1>7 DEF Searchable
<1> QED
  BY <1>2, <1>3, <1>7, <1>8 DEF w

(* The index searched to the end, without a limit met, gives every chain it could.        *)
LEMMA SearchIndexWhole ==
    ASSUME PointerInv, IndexHas, SearchIndex
    PROVE  SearchComplete'
<1> DEFINE o     == find.o
           to    == find.target
           found == FindChains(index, base, to, o)
           w     == World(to)
           E     == ForIndex(o) \ find.missed
<1>1. /\ find # Absent /\ find.phase = "index" /\ find.part > Len(Parts)
      /\ IF o.mode = "auto" /\ found.chains = {}
         THEN outcome' = outcome
         ELSE /\ chains' = found.chains
              /\ cut' = (cut \/ found.cut)
              /\ Done("index", found.work)
  BY DEF SearchIndex
<1>2. find \in Finds /\ outcome = Absent
  BY <1>1 DEF PointerInv, Searching
<1>3. CASE o.mode = "auto" /\ found.chains = {}
  <2>1. outcome' = Absent
    BY <1>1, <1>2, <1>3
  <2> QED
    BY <2>1 DEF SearchComplete
<1>4. CASE ~(o.mode = "auto" /\ found.chains = {})
  <2>1. /\ chains' = found.chains /\ cut' = (cut \/ found.cut) /\ leads' = Undisturbed
        /\ outcome' = [o |-> o, via |-> "index", work |-> found.work, missed |-> find.missed, gone |-> find.gone]
    BY <1>1, <1>4 DEF Done
  <2>2. outcome'.o = o /\ outcome'.via = "index" /\ outcome'.work = found.work /\ outcome'.missed = find.missed
    BY <2>1
  <2> SUFFICES ASSUME ~cut', NEW v \in leads', found.work < o.work PROVE chains' = InIndex(v, o, find.missed)
    <3> HIDE DEF found
    <3> QED
      BY <2>2 DEF SearchComplete
  <2>3. v = w /\ writes = find.writes /\ ~cut /\ ~found.cut
    BY <2>1 DEF Undisturbed
  <2>4. w.memory = slots /\ w.base = base /\ w.target = to
    BY DEF World
  <2>5. E \in SUBSET Slots /\ find.part \in Nat /\ InParts(find.part) = Slots
    BY <1>1, <1>2, PartsAre DEF ForIndex, Finds
  <2>6. index = EntriesOf(E, slots)
    <3>1. index = EntriesOf(E \cap InParts(find.part), slots)
      BY <1>1, <2>3 DEF IndexHas, Unhindered
    <3>2. E \cap Slots = E
      BY <2>5
    <3> QED
      BY <2>5, <3>1, <3>2
  <2>7. Searchable(w, o, E) /\ ModuleSlots \in Nat
    <3> HIDE DEF E
    <3> QED
      BY <1>1, <2>5, SearchableHere
  <2> HIDE DEF w, E
  <2>8. LET f == FindChains(EntriesOf(E, w.memory), w.base, w.target, o)
        IN  ~f.cut /\ f.work < o.work => f.chains = ChainsTo(w, o, E)
    BY <2>7, FoundIsWhole
  <2>9. FindChains(EntriesOf(E, w.memory), w.base, w.target, o) = found
    BY <2>4, <2>6
  <2> HIDE DEF found
  <2>10. chains' = ChainsTo(w, o, E)
    BY <2>1, <2>3, <2>8, <2>9
  <2>11. InIndex(w, o, find.missed) = ChainsTo(w, o, E)
    <3>1. E = {a \in Slots \ find.missed : (o.writable => a \in Writable) /\ w.memory[a] \in Slots}
      BY <2>4 DEF E, ForIndex
    <3> QED
      BY <3>1 DEF InIndex
  <2> QED
    BY <2>3, <2>10, <2>11
<1> QED
  BY <1>3, <1>4

-----------------------------------------------------------------------------
(* What the levels have. *)

\* A node at the beginning of a row, with the way from there.
Begins(y, r, w) ==
    y.at = Start(r, w) /\ Range(y.path) = {w.target} \cup Range(r) /\ y.offsets = OffsetsOf(r, w)

LooseRow(r, d, w, o, E) == IsRow(r, w, o, E) /\ Loose(r, w) /\ Len(r) = d
StaticRow(r, w, o, E)   == IsRow(r, w, o, E) /\ r # <<>> /\ Static(r[1], w.base)

AtLevel(y, d, w, o, E) == \E r : LooseRow(r, d, w, o, E) /\ Begins(y, r, w)

\* The slot before row r is that of a node, or fewer slots lead from there to the target.
Reached(r, d, F, w, o, E) ==
    \/ \E y \in F : y.at = Start(r, w)
    \/ \E k \in 0..(d - 1) : \E q : LooseRow(q, k, w, o, E) /\ Start(q, w) = Start(r, w)

\* A slot read that points near a node has been made use of, or has no use.
Handled(s, d, F, X, cs, w, o) ==
    \/ \E y \in F : s \in Range(y.path)
    \/ Static(s, w.base) /\ cs # {}
    \/ ~Static(s, w.base) /\ (d + 1 < o.depth => \E x \in X : x.at = s)

\* Level d, with nodes F and those for the next level X, chains cs and the slots read so far.
Level(d, F, X, cs, read, w, o, E) ==
    /\ d \in Nat /\ d < o.depth
    /\ \A y \in F : AtLevel(y, d, w, o, E)
    /\ \A x \in X : d + 1 < o.depth /\ AtLevel(x, d + 1, w, o, E)
    /\ \A c \in cs : \E r : StaticRow(r, w, o, E) /\ Len(r) = d + 1 /\ c = ChainOf(r, w)
    /\ \A r : StaticRow(r, w, o, E) => Len(r) > d
    /\ \A r : LooseRow(r, d, w, o, E) => Reached(r, d, F, w, o, E)
    /\ \A s \in E \cap read : (\E y \in F : Link(w.memory[s], y.at, o)) => Handled(s, d, F, X, cs, w, o)

(* A row that begins with two slots can be cut short if fewer slots lead from the second. *)
LEMMA SecondShortens ==
    ASSUME NEW w, NEW o, NEW E, NEW d \in Nat, NEW r, IsRow(r, w, o, E), Len(r) = d + 1,
           NEW k \in 0..(d - 1), NEW q, LooseRow(q, k, w, o, E), Start(q, w) = Start(Tail(r), w)
    PROVE  \E p : IsRow(p, w, o, E) /\ p # <<>> /\ p[1] = r[1] /\ Len(p) <= d
<1> DEFINE x == Tail(r)
           T == E \ {w.target}
<1>1. r \in Seq(T) /\ q \in Seq(T) /\ Len(q) = k
  BY DEF IsRow, LooseRow
<1>2. d # 0 /\ k < d /\ k \in Nat
  OBVIOUS
<1>3. x \in Seq(T) /\ Len(x) = d /\ x # <<>> /\ x[1] = r[2] /\ r[2] \in T
  <2>1. Tail(r) \in Seq(T) /\ Len(Tail(r)) = d
    BY <1>1
  <2>2. Tail(r)[1] = r[1 + 1] /\ 2 \in 1..Len(r)
    BY <1>1, <1>2
  <2> QED
    <3>1. r[2] \in T
      BY <1>1, <2>2
    <3>2. x \in Seq(T) /\ Len(x) = d /\ x[1] = r[2]
      BY <2>1, <2>2
    <3>3. x # <<>>
      BY <1>2, <3>2
    <3> QED
      BY <3>1, <3>2, <3>3
<1> HIDE DEF x
<1>4. Start(x, w) = r[2]
  BY <1>3 DEF Start
<1>5. q # <<>> /\ q[1] = r[2]
  BY <1>3, <1>4 DEF Start, x
<1>6. 2 \in 1..Len(r) /\ Len(q) < Len(r) - 2 + 1
  BY <1>1, <1>2
<1>7. \E p : IsRow(p, w, o, E) /\ p # <<>> /\ p[1] = r[1] /\ Len(p) < Len(r)
  BY <1>5, <1>6, RowShortens DEF LooseRow
<1>8. PICK p : IsRow(p, w, o, E) /\ p # <<>> /\ p[1] = r[1] /\ Len(p) < Len(r)
  BY <1>7
<1>9. Len(p) \in Nat
  BY <1>8 DEF IsRow
<1>10. Len(p) <= d
  BY <1>8, <1>9
<1> QED
  BY <1>8, <1>10

(* At the end of a level without a chain, a row of one slot more begins at a node for the *)
(* next level, or with a slot from which fewer lead to the target.                        *)
LEMMA OneSlotMore ==
    ASSUME NEW w, NEW o, NEW E, NEW d, NEW F, NEW X, NEW read, Level(d, F, X, {}, read, w, o, E), E \in SUBSET read,
           NEW r, IsRow(r, w, o, E), Len(r) = d + 1
    PROVE  \/ ~Static(r[1], w.base) /\ (d + 1 < o.depth => \E x \in X : x.at = r[1])
           \/ \E p : IsRow(p, w, o, E) /\ p # <<>> /\ p[1] = r[1] /\ Len(p) <= d
<1> DEFINE s == r[1]
           q == Tail(r)
<1>1. d \in Nat /\ r \in Seq(E) /\ Len(r) # 0 /\ r # <<>>
  BY DEF IsRow, Level
<1>2. s \in E /\ q \in Seq(E) /\ Len(q) = d /\ r = <<s>> \o q
  BY <1>1, TakenApart
<1> HIDE DEF s, q
<1>3. IsRow(q, w, o, E) /\ Loose(q, w) /\ s # w.target /\ Link(w.memory[s], Start(q, w), o)
  BY <1>2, RowGrows
<1>4. Reached(q, d, F, w, o, E)
  BY <1>2, <1>3 DEF Level, LooseRow
<1>5. CASE \E y \in F : y.at = Start(q, w)
  <2>1. Handled(s, d, F, X, {}, w, o)
    BY <1>2, <1>3, <1>5 DEF Level
  <2>2. CASE \E y \in F : s \in Range(y.path)
    <3>1. PICK y \in F : s \in Range(y.path)
      BY <2>2
    <3>2. PICK z : LooseRow(z, d, w, o, E) /\ Begins(y, z, w)
      BY DEF Level, AtLevel
    <3>3. z \in Seq(E) /\ Len(z) = d /\ s \in Range(z)
      BY <1>3, <3>1, <3>2 DEF Begins, LooseRow, IsRow
    <3>4. PICK k \in 1..Len(z) : s = z[k]
      BY <3>3 DEF Range
    <3>0. IsRow(z, w, o, E)
      BY <3>2 DEF LooseRow
    <3>5. PICK p : /\ IsRow(p, w, o, E) /\ p # <<>> /\ p[1] = z[k] /\ Len(p) = Len(z) - k + 1
                   /\ Loose(z, w) \/ k > 1 => Loose(p, w)
      BY <3>0, RowFrom
    <3>6. Len(p) <= d
      <4>1. k \in Nat /\ k >= 1 /\ Len(p) = d - k + 1
        BY <3>3, <3>5
      <4> QED
        BY <1>1, <4>1
    <3> QED
      BY <3>4, <3>5, <3>6 DEF s
  <2> QED
    BY <2>1, <2>2 DEF Handled, s
<1>6. CASE \E k \in 0..(d - 1) : \E p : LooseRow(p, k, w, o, E) /\ Start(p, w) = Start(q, w)
  BY <1>1, <1>6, SecondShortens DEF q
<1> QED
  BY <1>4, <1>5, <1>6 DEF Reached

(* At the end of a level without a chain, no chain is along a row that short.             *)
LEMMA NoneSoShort ==
    ASSUME NEW w, NEW o, NEW E, NEW d, NEW F, NEW X, NEW read, Level(d, F, X, {}, read, w, o, E), E \in SUBSET read,
           NEW r, StaticRow(r, w, o, E)
    PROVE  Len(r) > d + 1
<1>1. d \in Nat /\ Len(r) \in Nat /\ Len(r) > d /\ IsRow(r, w, o, E)
  BY DEF Level, StaticRow, IsRow
<1>2. ASSUME Len(r) = d + 1 PROVE FALSE
  <2>1. PICK p : IsRow(p, w, o, E) /\ p # <<>> /\ p[1] = r[1] /\ Len(p) <= d
    BY <1>1, <1>2, OneSlotMore DEF StaticRow
  <2>2. StaticRow(p, w, o, E) /\ Len(p) \in Nat
    BY <2>1 DEF StaticRow, IsRow
  <2>3. Len(p) > d
    BY <2>2 DEF Level
  <2> QED
    BY <1>1, <2>1, <2>2, <2>3
<1> QED
  BY <1>1, <1>2

(* The next level has what begins the rows of one slot more. *)
LEMMA AllReached ==
    ASSUME NEW w, NEW o, NEW E, NEW d, NEW F, NEW X, NEW read, Level(d, F, X, {}, read, w, o, E), E \in SUBSET read,
           d + 1 < o.depth, NEW r, LooseRow(r, d + 1, w, o, E)
    PROVE  Reached(r, d + 1, X, w, o, E)
<1>1. d \in Nat /\ IsRow(r, w, o, E) /\ Loose(r, w) /\ Len(r) = d + 1 /\ r # <<>> /\ Start(r, w) = r[1]
      /\ ~Static(r[1], w.base)
  BY DEF Level, LooseRow, IsRow, Start, Loose
<1>2. CASE \E x \in X : x.at = r[1]
  BY <1>1, <1>2 DEF Reached
<1>3. CASE \E p : IsRow(p, w, o, E) /\ p # <<>> /\ p[1] = r[1] /\ Len(p) <= d
  <2>1. PICK p : IsRow(p, w, o, E) /\ p # <<>> /\ p[1] = r[1] /\ Len(p) <= d
    BY <1>3
  <2>2. Len(p) \in 0..((d + 1) - 1)
    <3>1. Len(p) \in Nat
      BY <2>1 DEF IsRow
    <3> QED
      BY <1>1, <2>1, <3>1
  <2>3. LooseRow(p, Len(p), w, o, E) /\ Start(p, w) = Start(r, w)
    <3>1. LooseRow(p, Len(p), w, o, E)
      BY <1>1, <2>1 DEF LooseRow, Loose
    <3>2. Start(p, w) = Start(r, w)
      BY <1>1, <2>1 DEF Start
    <3> QED
      BY <3>1, <3>2
  <2> QED
    BY <2>2, <2>3 DEF Reached
<1> QED
  BY <1>1, <1>2, <1>3, OneSlotMore

\* What is in a list of nodes.
NodesOf(s) == {s[i] : i \in 1..Len(s)}

(* A member put in front of a list is in it, with the others. *)
LEMMA RangeGrows ==
    ASSUME NEW T, NEW r \in Seq(T), NEW s \in T
    PROVE  Range(<<s>> \o r) = {s} \cup Range(r)
<1> DEFINE q == <<s>> \o r
           n == Len(r)
<1>1. /\ q \in Seq(T) /\ Len(q) = n + 1 /\ n \in Nat
      /\ DOMAIN q = 1..(n + 1) /\ DOMAIN r = 1..n
      /\ q[1] = s /\ \A i \in 1..n : q[i + 1] = r[i]
      /\ \A i \in 2..(n + 1) : q[i] = r[i - 1] /\ i - 1 \in 1..n
  BY InFront
<1> HIDE DEF q
<1>2. Range(q) = {q[i] : i \in 1..(n + 1)} /\ Range(r) = {r[i] : i \in 1..n}
  BY <1>1 DEF Range
<1>3. 1 \in 1..(n + 1) /\ (\A i \in 1..(n + 1) : i = 1 \/ i \in 2..(n + 1)) /\ \A i \in 1..n : i + 1 \in 1..(n + 1)
  BY <1>1
<1>4. Range(q) = {s} \cup Range(r)
  BY <1>1, <1>2, <1>3
<1> QED
  BY <1>4 DEF q

(* A slot that points near a node, not on its way yet, goes on from it to a row of one    *)
(* slot more.                                                                             *)
LEMMA NodeBegins ==
    ASSUME NEW w, NEW o, NEW E, Searchable(w, o, E), NEW d \in Nat, NEW tail \in Nodes, NEW r,
           LooseRow(r, d, w, o, E), Begins(tail, r, w),
           NEW slot \in E, slot \notin Range(tail.path), Link(w.memory[slot], tail.at, o)
    PROVE  LET q    == <<slot>> \o r
               node == Node(slot, tail, tail.at - w.memory[slot])
           IN  /\ IsRow(q, w, o, E) /\ q # <<>> /\ Len(q) = d + 1 /\ q[1] = slot
               /\ Begins(node, q, w) /\ Len(node.offsets) = d + 1 /\ node.at = slot
               /\ ChainOf(q, w) = [root |-> slot - w.base, offsets |-> node.offsets]
<1> DEFINE q == <<slot>> \o r
           gap == tail.at - w.memory[slot]
           node == Node(slot, tail, gap)
<1>1. r \in Seq(E) /\ Len(r) = d /\ IsRow(r, w, o, E) /\ Loose(r, w)
  BY DEF LooseRow, IsRow
<1>2. q \in Seq(E) /\ q # <<>> /\ Len(q) = d + 1 /\ q[1] = slot
  BY <1>1, InFront
<1>3. slot # w.target /\ slot \notin Range(r) /\ Link(w.memory[slot], Start(r, w), o)
  BY DEF Begins
<1>4. IsRow(q, w, o, E)
  BY <1>1, <1>3, RowGrows
<1>5. slot \in Nat /\ tail.path \in Seq(Nat)
  BY DEF Searchable, Nodes
<1>6. node.at = slot /\ node.path = <<slot>> \o tail.path /\ node.offsets = <<gap>> \o tail.offsets
  BY DEF Node
<1>7. OffsetsOf(q, w) = <<gap>> \o tail.offsets
  <2>1. OffsetsOf(q, w) = <<Start(r, w) - w.memory[slot]>> \o OffsetsOf(r, w)
    BY <1>1, OffsetsGrow
  <2> QED
    BY <2>1 DEF Begins
<1> HIDE DEF node, gap
<1>8. Range(node.path) = {w.target} \cup Range(q)
  <2>1. Range(<<slot>> \o tail.path) = {slot} \cup Range(tail.path)
    BY <1>5, RangeGrows
  <2>2. Range(q) = {slot} \cup Range(r)
    BY <1>1, RangeGrows
  <2> HIDE DEF q
  <2> QED
    BY <1>6, <2>1, <2>2 DEF Begins
<1> HIDE DEF q
<1>9. Begins(node, q, w)
  BY <1>2, <1>6, <1>7, <1>8 DEF Begins, Start
<1>10. node.offsets = [i \in DOMAIN q |-> (IF i = Len(q) THEN w.target ELSE q[i + 1]) - w.memory[q[i]]]
  BY <1>6, <1>7 DEF OffsetsOf, Onward
<1>11. Len(node.offsets) = d + 1
  <2>1. DOMAIN q = 1..(d + 1)
    BY <1>2
  <2> DEFINE f == node.offsets
             T == {f[i] : i \in 1..(d + 1)}
  <2>2. f \in [1..(d + 1) -> T]
    BY <1>10, <2>1
  <2>3. d + 1 \in Nat
    OBVIOUS
  <2> HIDE DEF f, T
  <2>4. Len(f) = d + 1
    BY <2>2, <2>3, FunctionsAreSequences
  <2> QED
    BY <2>4 DEF f
<1>12. ChainOf(q, w) = [root |-> slot - w.base, offsets |-> node.offsets]
  BY <1>2, <1>10 DEF ChainOf
<1> QED
  BY <1>2, <1>4, <1>6, <1>9, <1>11, <1>12 DEF q, node, gap

(* A pointer is taken for one near a node, if there is one. *)
LEMMA PickIs ==
    ASSUME PointerTyped, NEW v \in PointerValues, NEW o, Ranged(o)
    PROVE  /\ \A n \in Pick(v, o) : n \in 1..Len(frontier) /\ Link(v, frontier[n].at, o)
           /\ Pick(v, o) = {} => \A n \in 1..Len(frontier) : ~Link(v, frontier[n].at, o)
<1> DEFINE near   == {n \in DOMAIN frontier : Link(v, frontier[n].at, o)}
           reach  == {n \in DOMAIN frontier : /\ frontier[n].at \in Window(v, o.negative, o.offset)
                                              /\ Link(v, frontier[n].at, o)}
           gap(n) == Distance(v, frontier[n].at)
           best   == {n \in near : \A m \in near : gap(n) <= gap(m)}
           light  == {n \in best : \A m \in best : frontier[n].score <= frontier[m].score}
           last   == {n \in light : \A m \in light : frontier[m].at <= frontier[n].at}
<1>0. v \in Nat /\ reach = near
  <2>1. \A n \in DOMAIN frontier : frontier[n].at \in PointerValues
    <3>1. \A n \in DOMAIN frontier : frontier[n] \in Nodes
      BY DEF PointerTyped
    <3>2. \A x \in Nodes : x.at \in PointerValues
      BY DEF Nodes
    <3> QED
      BY <3>1, <3>2
  <2>2. ASSUME NEW n \in DOMAIN frontier, Link(v, frontier[n].at, o)
        PROVE  frontier[n].at \in Window(v, o.negative, o.offset)
    <3> DEFINE at == frontier[n].at
    <3>1. at \in PointerValues /\ at \in Nat /\ Link(v, at, o)
      BY <2>1, <2>2, SlotsAre
    <3> HIDE DEF at
    <3>2. at \in Window(v, o.negative, o.offset)
      BY <3>1, WindowIs
    <3> QED
      BY <3>2 DEF at
  <2> QED
    BY <2>2, SlotsAre
<1>1. Pick(v, o) = last
  <2>1. Pick(v, o) = LET b == {n \in reach : \A m \in reach : gap(n) <= gap(m)}
                         l == {n \in b : \A m \in b : frontier[n].score <= frontier[m].score}
                     IN  {n \in l : \A m \in l : frontier[m].at <= frontier[n].at}
    BY DEF Pick
  <2> HIDE DEF reach, near, gap
  <2> QED
    BY <1>0, <2>1
<1>2. DOMAIN frontier = 1..Len(frontier)
      /\ \A n \in DOMAIN frontier : frontier[n].at \in Nat /\ frontier[n].score \in Nat /\ gap(n) \in Nat
                                    /\ frontier[n].at <= v + gap(n)
  <2>1. DOMAIN frontier = 1..Len(frontier) /\ \A n \in 1..Len(frontier) : frontier[n] \in Nodes
    BY DEF PointerTyped
  <2>2. \A x \in Nodes : x.at \in Nat /\ x.score \in Nat
    BY SlotsAre DEF Nodes
  <2>3. \A x \in Nat : Distance(v, x) \in Nat /\ x <= v + Distance(v, x)
    BY <1>0 DEF Distance
  <2> QED
    BY <2>1, <2>2, <2>3
<1>3. near \in SUBSET DOMAIN frontier /\ best \in SUBSET near /\ light \in SUBSET best /\ last \in SUBSET light
  OBVIOUS
<1>4. near # {} => best # {}
  <2> DEFINE f == [n \in near |-> gap(n)]
  <2>1. \A n \in near : f[n] \in Nat /\ f[n] = gap(n)
    BY <1>2
  <2> HIDE DEF f, near, gap
  <2> QED
    BY <2>1, OneIsLeast
<1>5. best # {} => light # {}
  <2> DEFINE f == [n \in best |-> frontier[n].score]
  <2>1. \A n \in best : f[n] \in Nat /\ f[n] = frontier[n].score
    BY <1>2
  <2> HIDE DEF f, best
  <2> QED
    BY <2>1, OneIsLeast
<1>6. ASSUME light # {} PROVE last # {}
  <2>1. PICK k \in light : TRUE
    BY <1>6
  <2> DEFINE f == [n \in light |-> v + gap(k) - frontier[n].at]
  <2>2. \A n \in light : gap(n) <= gap(k) /\ gap(n) \in Nat /\ gap(k) \in Nat /\ frontier[n].at \in Nat
                          /\ frontier[n].at <= v + gap(n)
    BY <1>2
  <2> HIDE DEF gap, light
  <2>3. \A n \in light : f[n] \in Nat /\ f[n] = v + gap(k) - frontier[n].at
    BY <1>0, <2>2
  <2> HIDE DEF f
  <2>4. PICK n \in light : \A m \in light : f[n] <= f[m]
    BY <1>6, <2>3, OneIsLeast
  <2>5. \A m \in light : frontier[m].at <= frontier[n].at
    BY <1>0, <2>1, <2>2, <2>3, <2>4
  <2> QED
    BY <2>5
<1>7. last = {} => near = {}
  BY <1>4, <1>5, <1>6
<1> HIDE DEF reach
<1>8. \A n \in last : n \in DOMAIN frontier /\ Link(v, frontier[n].at, o)
  OBVIOUS
<1> HIDE DEF last
<1> QED
  BY <1>1, <1>2, <1>7, <1>8

\* The account of a level with the slots read so far: short of a limit it has what it should.
Holding(a, read, d, w, o, E) ==
    /\ a.stop => a.cut
    /\ ~a.cut => Level(d, NodesOf(frontier), NodesOf(a.next), a.chains, read, w, o, E)

\* What reading a slot adds to the nodes for the next level and to the chains.
Adds(slot, d, F, X, Y, cs, es, w, o, E) ==
    /\ X \in SUBSET Y /\ \A x \in Y : x \in X \/ (d + 1 < o.depth /\ AtLevel(x, d + 1, w, o, E))
    /\ cs \in SUBSET es
    /\ \A c \in es : c \in cs \/ \E r : StaticRow(r, w, o, E) /\ Len(r) = d + 1 /\ c = ChainOf(r, w)
    /\ (\E y \in F : Link(w.memory[slot], y.at, o)) => Handled(slot, d, F, Y, es, w, o)

(* One slot more is read: what was found and what it gives is what the level has. *)
LEMMA LevelGrows ==
    ASSUME NEW w, NEW o, NEW E, NEW d, NEW F, NEW X, NEW cs, NEW read, Level(d, F, X, cs, read, w, o, E),
           NEW Y, NEW es, NEW slot, Adds(slot, d, F, X, Y, cs, es, w, o, E)
    PROVE  Level(d, F, Y, es, read \cup {slot}, w, o, E)
<1>1. \A s : Handled(s, d, F, X, cs, w, o) => Handled(s, d, F, Y, es, w, o)
  BY DEF Handled, Adds
<1>2. \A s \in E \cap (read \cup {slot}) :
         (\E y \in F : Link(w.memory[s], y.at, o)) => Handled(s, d, F, Y, es, w, o)
  BY <1>1 DEF Level, Adds
<1> QED
  BY <1>2 DEF Level, Adds

(* Where an account has met a limit or not, and where it goes on. *)
LEMMA LevelCuts ==
    ASSUME NEW a \in LevelAccounts
    PROVE  /\ [a EXCEPT !.cut = TRUE].cut
           /\ \A n : [a EXCEPT !.seen[n] = @ + 1].cut = a.cut
           /\ \A cs : [a EXCEPT !.chains = cs].cut = a.cut
           /\ \A nodes : [a EXCEPT !.next = nodes].cut = a.cut
BY DEF LevelAccounts

(* The members of a list with one more at its end. *)
LEMMA NodesAppended ==
    ASSUME NEW s \in Seq(Nodes), NEW x \in Nodes
    PROVE  NodesOf(Append(s, x)) = NodesOf(s) \cup {x}
<1> DEFINE t == Append(s, x)
           n == Len(s)
<1>1. /\ Len(t) = n + 1 /\ n \in Nat /\ t[n + 1] = x
      /\ \A i \in 1..n : t[i] = s[i]
  OBVIOUS
<1> HIDE DEF t, n
<1>2. \A i \in 1..(n + 1) : i = n + 1 \/ i \in 1..n
  BY <1>1
<1>3. n + 1 \in 1..(n + 1) /\ \A i \in 1..n : i \in 1..(n + 1)
  BY <1>1
<1>4. NodesOf(t) = {t[i] : i \in 1..(n + 1)} /\ NodesOf(s) = {s[i] : i \in 1..n}
  BY <1>1 DEF NodesOf, n
<1>5. NodesOf(t) = NodesOf(s) \cup {x}
  BY <1>1, <1>2, <1>3, <1>4
<1> QED
  BY <1>5 DEF t

(* Looking at one slot keeps it so. *)
LEMMA VisitedReaches ==
    ASSUME PointerTyped, NEW o, o.chains \in Nat, Ranged(o), o.depth \in Nat, NEW to, NEW w, NEW E \in SUBSET Slots,
           w.memory = slots, w.base = base, Searchable(w, o, E),
           NEW slot \in E, NEW read, NEW d,
           NEW a \in LevelAccounts, Len(a.seen) = Len(frontier), Holding(a, read, d, w, o, E)
    PROVE  Holding(Visited(a, slot, o), read \cup {slot}, d, w, o, E)
<1> DEFINE v    == slots[slot]
           n    == CHOOSE m \in Pick(v, o) : TRUE
           tail == frontier[n]
           node == Node(slot, tail, tail.at - v)
           b    == [a EXCEPT !.seen[n] = @ + 1]
           chain == [root |-> slot - base, offsets |-> node.offsets]
           c    == [b EXCEPT !.chains = @ \cup {chain}]
           full == Cardinality(c.chains) >= o.chains
           F    == NodesOf(frontier)
           Ok(x) == Holding(x, read \cup {slot}, d, w, o, E)
<1>1. Visited(a, slot, o) =
        IF a.stop \/ Pick(v, o) = {} THEN a
        ELSE IF a.seen[n] >= o.perNode THEN [a EXCEPT !.cut = TRUE]
        ELSE IF slot \in Range(frontier[n].path) THEN a
        ELSE IF Static(slot, base) THEN [c EXCEPT !.cut = @ \/ full, !.stop = full]
        ELSE IF Len(node.offsets) >= o.depth THEN b
        ELSE [b EXCEPT !.next = Append(@, node)]
  BY DEF Visited
<1>2. v \in PointerValues /\ w.memory[slot] = v /\ a.next \in Seq(Nodes) /\ frontier \in Seq(Nodes)
      /\ F = {frontier[i] : i \in 1..Len(frontier)} /\ Len(frontier) \in Nat
  <2>1. slots \in [Slots -> PointerValues] /\ slot \in Slots /\ frontier \in Seq(Nodes)
    BY DEF PointerTyped
  <2>2. v \in PointerValues /\ w.memory[slot] = v
    BY <2>1
  <2>3. a.next \in Seq(Nodes)
    BY DEF LevelAccounts
  <2>4. Len(frontier) \in Nat
    BY <2>1
  <2> QED
    BY <2>1, <2>2, <2>3, <2>4 DEF NodesOf
<1> DEFINE X == NodesOf(a.next)
           Lev(Y, es) == Level(d, F, Y, es, read \cup {slot}, w, o, E)
<1>3. ASSUME ~a.cut PROVE Level(d, F, X, a.chains, read, w, o, E)
  BY <1>3 DEF Holding
<1>4. ASSUME a.stop \/ Pick(v, o) = {} PROVE Ok(a)
  <2>1. CASE a.stop
    BY <2>1 DEF Holding
  <2>2. CASE ~a.stop
    <3>1. \A y \in F : ~Link(v, y.at, o)
      BY <1>2, <1>4, <2>2, PickIs
    <3>2. ASSUME ~a.cut PROVE Lev(X, a.chains)
      <4> HIDE DEF X, F, v
      <4>1. Adds(slot, d, F, X, X, a.chains, a.chains, w, o, E)
        BY <1>2, <3>1 DEF Adds
      <4> QED
        BY <1>3, <3>2, <4>1, LevelGrows
    <3> QED
      BY <2>2, <3>2 DEF Holding
  <2> QED
    BY <2>1, <2>2
<1>5. Ok([a EXCEPT !.cut = TRUE])
  <2> DEFINE x == [a EXCEPT !.cut = TRUE]
  <2>1. x.cut
    BY LevelCuts
  <2> HIDE DEF x
  <2>2. Ok(x)
    BY <2>1 DEF Holding
  <2> QED
    BY <2>2 DEF x
<1>6. ASSUME Pick(v, o) # {}, ~a.stop
      PROVE  /\ slot \in Range(frontier[n].path) => Ok(a)
             /\ slot \notin Range(frontier[n].path) /\ Static(slot, base)
                  => Ok([c EXCEPT !.cut = @ \/ full, !.stop = full])
             /\ slot \notin Range(frontier[n].path) /\ ~Static(slot, base) /\ Len(node.offsets) >= o.depth => Ok(b)
             /\ slot \notin Range(frontier[n].path) /\ ~Static(slot, base) /\ ~(Len(node.offsets) >= o.depth)
                  => Ok([b EXCEPT !.next = Append(@, node)])
  <2>1. n \in 1..Len(frontier) /\ Link(v, tail.at, o)
    <3>1. n \in Pick(v, o)
      BY <1>6
    <3> HIDE DEF n
    <3> QED
      BY <1>2, <3>1, PickIs
  <2> HIDE DEF n
  <2>2. tail \in F /\ tail \in Nodes
    BY <1>2, <2>1
  <2>3. ASSUME slot \in Range(frontier[n].path) PROVE Ok(a)
    <3>1. ASSUME ~a.cut PROVE Lev(X, a.chains)
      <4>1. Handled(slot, d, F, X, a.chains, w, o)
        <5> HIDE DEF F, X
        <5> QED
          BY <2>2, <2>3 DEF Handled
      <4> HIDE DEF X, F, v
      <4>2. Adds(slot, d, F, X, X, a.chains, a.chains, w, o, E)
        BY <4>1 DEF Adds
      <4> QED
        BY <1>3, <3>1, <4>2, LevelGrows
    <3> QED
      BY <1>6, <3>1 DEF Holding
  <2>4. ASSUME slot \notin Range(frontier[n].path), ~a.cut
        PROVE  d \in Nat /\ \E q : /\ IsRow(q, w, o, E) /\ q # <<>> /\ Len(q) = d + 1 /\ q[1] = slot
                                   /\ Begins(node, q, w) /\ Len(node.offsets) = d + 1 /\ node.at = slot
                                   /\ ChainOf(q, w) = chain
    <3>1. AtLevel(tail, d, w, o, E) /\ d \in Nat
      <4> HIDE DEF F, tail, X
      <4> QED
        BY <1>3, <2>2, <2>4 DEF Level
    <3>2. PICK r : LooseRow(r, d, w, o, E) /\ Begins(tail, r, w)
      BY <3>1 DEF AtLevel
    <3> DEFINE q == <<slot>> \o r
    <3>3. /\ IsRow(q, w, o, E) /\ q # <<>> /\ Len(q) = d + 1 /\ q[1] = slot
          /\ Begins(node, q, w) /\ Len(node.offsets) = d + 1 /\ node.at = slot
          /\ ChainOf(q, w) = [root |-> slot - w.base, offsets |-> node.offsets]
      <4>1. slot \notin Range(tail.path) /\ Link(w.memory[slot], tail.at, o) /\ v = w.memory[slot]
        BY <1>2, <2>1, <2>4
      <4> HIDE DEF tail, v
      <4> QED
        BY <2>2, <3>1, <3>2, <4>1, NodeBegins
    <3>4. ChainOf(q, w) = chain
      <4> HIDE DEF q, node
      <4> QED
        BY <3>3
    <3> HIDE DEF q, node, chain
    <3> QED
      BY <3>1, <3>3, <3>4
  <2>5. node \in Nodes
    <3>1. slot \in Slots /\ \A m \in {} : Trail(tail.at, tail.offsets, m) = to
      OBVIOUS
    <3>2. slots \in [Slots -> PointerValues]
      BY DEF PointerTyped
    <3> HIDE DEF tail
    <3>3. NodeLeads(Node(slot, tail, tail.at - slots[slot]), slot, {}, to)
      BY <2>2, <3>1, <3>2, NodeOnward
    <3> QED
      BY <3>3 DEF NodeLeads
  <2>6. /\ b \in LevelAccounts /\ b.chains = a.chains /\ b.next = a.next /\ b.stop = a.stop /\ b.cut = a.cut
    <3>1. LevelAccount(b, a.chains, a.next, [a.seen EXCEPT ![n] = @ + 1], a.stop)
      BY <2>1, LevelSeen
    <3>2. b.cut = a.cut
      BY LevelCuts
    <3> HIDE DEF b
    <3> QED
      BY <3>1, <3>2 DEF LevelAccount
  <2> HIDE DEF b, tail, node
  <2>7. ASSUME slot \notin Range(frontier[n].path), ~Static(slot, base), Len(node.offsets) >= o.depth PROVE Ok(b)
    <3>1. ASSUME ~a.cut PROVE Lev(X, a.chains)
      <4>1. d \in Nat /\ Len(node.offsets) = d + 1
        BY <2>4, <2>7, <3>1
      <4>2. ~(d + 1 < o.depth)
        BY <2>7, <4>1
      <4>3. Handled(slot, d, F, X, a.chains, w, o)
        BY <2>7, <4>2 DEF Handled
      <4> HIDE DEF X, F, v
      <4>4. Adds(slot, d, F, X, X, a.chains, a.chains, w, o, E)
        BY <4>3 DEF Adds
      <4> QED
        BY <1>3, <3>1, <4>4, LevelGrows
    <3> QED
      BY <1>6, <2>6, <3>1 DEF Holding
  <2>8. ASSUME slot \notin Range(frontier[n].path), ~Static(slot, base), ~(Len(node.offsets) >= o.depth)
        PROVE  Ok([b EXCEPT !.next = Append(@, node)])
    <3> DEFINE longer == Append(b.next, node)
               x == [b EXCEPT !.next = longer]
    <3>1. longer \in Seq(Nodes) /\ NodesOf(longer) = X \cup {node}
      <4>1. longer \in Seq(Nodes)
        BY <1>2, <2>5, <2>6
      <4> QED
        BY <1>2, <2>5, <2>6, <4>1, NodesAppended
    <3> HIDE DEF longer
    <3>2. LevelAccount(x, b.chains, longer, b.seen, b.stop) /\ x.cut = b.cut
      BY <2>6, <3>1, LevelNext, LevelCuts
    <3> HIDE DEF x
    <3>3. ASSUME ~a.cut PROVE Lev(X \cup {node}, a.chains)
      <4>1. PICK q : /\ IsRow(q, w, o, E) /\ q # <<>> /\ Len(q) = d + 1 /\ q[1] = slot
                     /\ Begins(node, q, w) /\ Len(node.offsets) = d + 1 /\ node.at = slot
        BY <2>4, <2>8, <3>3
      <4>2. d + 1 < o.depth
        <5>1. d \in Nat
          BY <2>4, <2>8, <3>3
        <5> QED
          BY <2>8, <4>1, <5>1
      <4>3. AtLevel(node, d + 1, w, o, E)
        BY <2>8, <4>1 DEF AtLevel, LooseRow, Loose
      <4>4. Handled(slot, d, F, X \cup {node}, a.chains, w, o)
        BY <2>8, <4>1 DEF Handled
      <4> DEFINE Y == X \cup {node}
      <4> HIDE DEF X, F, v
      <4>5. Adds(slot, d, F, X, Y, a.chains, a.chains, w, o, E)
        BY <4>2, <4>3, <4>4 DEF Adds
      <4> HIDE DEF Y
      <4>6. Lev(Y, a.chains)
        BY <1>3, <3>3, <4>5, LevelGrows
      <4> QED
        BY <4>6 DEF Y
    <3>4. Ok(x)
      BY <1>6, <2>6, <3>1, <3>2, <3>3 DEF Holding, LevelAccount
    <3> QED
      BY <3>4 DEF x, longer
  <2>9. ASSUME slot \notin Range(frontier[n].path), Static(slot, base)
        PROVE  Ok([c EXCEPT !.cut = @ \/ full, !.stop = full])
    <3> DEFINE cs == b.chains \cup {chain}
               x  == [c EXCEPT !.cut = @ \/ full, !.stop = full]
    <3>1. cs \in SUBSET Chains
      <4>1. base \in Nat /\ slot \in Nat /\ ModuleSlots \in Nat
        BY SlotsAre, PointerLimits DEF PointerTyped
      <4>2. slot - base \in Nat
        BY <2>9, <4>1 DEF Static
      <4>3. chain \in Chains
        BY <2>5, <4>2 DEF Chains, Nodes
      <4> HIDE DEF chain
      <4> QED
        BY <2>6, <4>3 DEF LevelAccounts
    <3>2. LevelAccount(c, cs, b.next, b.seen, b.stop) /\ c.cut = b.cut
      BY <2>6, <3>1, LevelChains, LevelCuts
    <3> HIDE DEF c
    <3>3. full \in BOOLEAN
      OBVIOUS
    <3> HIDE DEF full
    <3>4. LevelAccount(x, c.chains, c.next, c.seen, full) /\ x.cut = (c.cut \/ full)
      <4>1. c \in LevelAccounts
        BY <3>2 DEF LevelAccount
      <4>2. LevelAccount(x, c.chains, c.next, c.seen, full)
        BY <3>3, <4>1, LevelStop
      <4>3. x.cut = (c.cut \/ full)
        BY <4>1 DEF LevelAccounts
      <4> QED
        BY <4>2, <4>3
    <3> HIDE DEF x
    <3>5. ASSUME ~a.cut PROVE Lev(X, cs)
      <4>1. PICK q : /\ IsRow(q, w, o, E) /\ q # <<>> /\ Len(q) = d + 1 /\ q[1] = slot /\ ChainOf(q, w) = chain
        BY <2>4, <2>9, <3>5
      <4>2. StaticRow(q, w, o, E)
        BY <2>9, <4>1 DEF StaticRow
      <4>3. \A e \in cs : e \in a.chains \/ \E r : StaticRow(r, w, o, E) /\ Len(r) = d + 1 /\ e = ChainOf(r, w)
        <5> HIDE DEF chain
        <5> QED
          BY <2>6, <4>1, <4>2
      <4>4. Handled(slot, d, F, X, cs, w, o)
        <5>1. cs # {}
          OBVIOUS
        <5> HIDE DEF cs
        <5> QED
          BY <2>9, <5>1 DEF Handled
      <4>5. a.chains \in SUBSET cs
        BY <2>6
      <4> HIDE DEF X, F, v, cs
      <4>6. Adds(slot, d, F, X, X, a.chains, cs, w, o, E)
        BY <4>3, <4>4, <4>5 DEF Adds
      <4> QED
        BY <1>3, <3>5, <4>6, LevelGrows
    <3> HIDE DEF cs
    <3>6. Ok(x)
      BY <1>6, <2>6, <3>2, <3>4, <3>5 DEF Holding, LevelAccount
    <3> QED
      BY <3>6 DEF x
  <2> QED
    BY <2>3, <2>7, <2>8, <2>9
<1> HIDE DEF v, n, node, b, c, full, Ok
<1>7. Ok(Visited(a, slot, o))
  BY <1>1, <1>4, <1>5, <1>6
<1> QED
  BY <1>7 DEF Ok

(* Looking at the slots of a part, one after the other, reads them all or meets a limit. *)
LEMMA VisitsReach ==
    ASSUME PointerTyped, NEW o, o.chains \in Nat, Ranged(o), o.depth \in Nat, NEW to, NEW w, NEW E \in SUBSET Slots,
           w.memory = slots, w.base = base, Searchable(w, o, E),
           NodesLead(frontier, {}, to), NEW read, NEW d,
           NEW start, OpenLevel(start, o, {}, to), Holding(start, read, d, w, o, E),
           NEW n \in Nat, NEW order, \A k \in 1..n : order[k] \in E
    PROVE  Holding(AfterVisits(start, n, order, o), read \cup {order[k] : k \in 1..n}, d, w, o, E)
<1> DEFINE Upto(k) == read \cup {order[j] : j \in 1..k}
           Good(a, k) == OpenLevel(a, o, {}, to) /\ Holding(a, Upto(k), d, w, o, E)
           S == [k \in 0..n |-> {a \in LevelAccounts : Good(a, k)}]
<1>1. Upto(0) = read /\ \A k \in 1..n : Upto(k) = Upto(k - 1) \cup {order[k]}
  <2>1. 1..0 = {} /\ \A k \in 1..n : 1..k = 1..(k - 1) \cup {k}
    OBVIOUS
  <2> QED
    BY <2>1
<1> HIDE DEF Upto
<1>2. \A k \in 0..n : \A a : a \in S[k] <=> Good(a, k)
  BY DEF OpenLevel
<1>3. start \in S[0]
  <2>1. Good(start, 0)
    BY <1>1
  <2>2. 0 \in 0..n
    OBVIOUS
  <2> HIDE DEF Good, S
  <2> QED
    BY <1>2, <2>1, <2>2
<1>4. ASSUME NEW k \in 1..n, NEW a \in S[k - 1] PROVE Visited(a, order[k], o) \in S[k]
  <2>1. k - 1 \in 0..n /\ k \in 0..n /\ order[k] \in E /\ order[k] \in Slots
    OBVIOUS
  <2>2. OpenLevel(a, o, {}, to) /\ Holding(a, Upto(k - 1), d, w, o, E)
    BY <1>2, <2>1
  <2> HIDE DEF S
  <2>3. OpenLevel(Visited(a, order[k], o), o, {}, to)
    BY <2>1, <2>2, VisitedIsGood
  <2>4. a \in LevelAccounts /\ Len(a.seen) = Len(frontier)
    BY <2>2 DEF OpenLevel
  <2>5. Holding(Visited(a, order[k], o), Upto(k - 1) \cup {order[k]}, d, w, o, E)
    BY <2>1, <2>2, <2>4, VisitedReaches
  <2>6. Good(Visited(a, order[k], o), k)
    BY <1>1, <2>3, <2>5
  <2> HIDE DEF Good
  <2> QED
    BY <1>2, <2>1, <2>6
<1> HIDE DEF S, Good
<1>5. AfterVisits(start, n, order, o) \in S[n]
  BY <1>3, <1>4, VisitsStay
<1>6. Good(AfterVisits(start, n, order, o), n)
  <2>1. n \in 0..n
    OBVIOUS
  <2> QED
    BY <1>2, <1>5, <2>1
<1> QED
  BY <1>6 DEF Good, Upto
-----------------------------------------------------------------------------
\* The levels of a search that has met no limit, read whole in memory nobody has written since.
LevelsReach ==
    Unhindered /\ find.phase = "levels" /\ find.missed = {}
      => \E d : Level(d, NodesOf(frontier), NodesOf(next), chains, InParts(find.part),
                      World(find.target), find.o, ForLevels(find.o))

(* A part of a level: what is near a node there has been made use of. *)
LEMMA LevelPartReaches ==
    ASSUME PointerInv, LevelsReach, NEW gone, NEW short, LevelPart(gone, short)
    PROVE  LevelsReach'
<1> DEFINE o     == find.o
           to    == find.target
           w     == World(to)
           E     == ForLevels(o)
           asked == LevelSlots(find.part, o)
           there == Brought(asked, gone, short)
           order == Ordered(there)
           start == [chains |-> chains, next |-> next, seen |-> seen, cut |-> cut, stop |-> FALSE]
           after == AfterVisits(start, Len(order), order, o)
           part  == IF after.stop THEN Len(Parts) + 1 ELSE find.part + 1
<1>1. /\ find # Absent /\ find.phase = "levels" /\ find.part \in DOMAIN Parts
      /\ chains' = after.chains /\ next' = after.next /\ cut' = after.cut
      /\ PartRead(asked, gone, short, after.stop)
      /\ UNCHANGED <<slots, base, frontier, writes>>
  BY DEF LevelPart, AfterVisits
<1>2. PointerTyped /\ find \in Finds /\ LevelsLead
  BY <1>1 DEF PointerInv, Searching
<1>3. E \in SUBSET Slots /\ Searchable(w, o, E) /\ o.depth \in Nat /\ o.chains \in Nat /\ Ranged(o)
  <2>1. E \in SUBSET Slots
    BY DEF ForLevels
  <2> HIDE DEF E
  <2> QED
    BY <1>1, <2>1, SearchableHere
<1>4. w.memory = slots /\ w.base = base
  BY DEF World
<1>5. OpenLevel(start, o, {}, to) /\ NodesLead(frontier, {}, to)
  <2>1. /\ start.chains = chains /\ start.next = next /\ start.seen = seen /\ start \in LevelAccounts
    BY <1>2 DEF PointerTyped, LevelAccounts
  <2>2. find.part <= Len(Parts)
    BY <1>1, PointerTypes
  <2> HIDE DEF start
  <2> QED
    BY <1>2, <2>1, <2>2 DEF OpenLevel, LevelsLead, PointerTyped, GoodChains, AllLead, NodesLead
<1>14. /\ asked = E \cap Parts[find.part] /\ asked \in SUBSET Slots /\ there \in SUBSET asked
       /\ InParts(find.part + 1) = InParts(find.part) \cup Parts[find.part]
  <2>1. Parts[find.part] \in SUBSET Slots /\ InParts(find.part + 1) = InParts(find.part) \cup Parts[find.part]
    BY <1>1, PartsAre
  <2>2. asked = E \cap Parts[find.part]
    BY <2>1 DEF LevelSlots, ForLevels
  <2>3. there \in SUBSET asked
    <3> HIDE DEF asked
    <3> QED
      BY BroughtIs
  <2> HIDE DEF asked, there
  <2> QED
    BY <2>1, <2>2, <2>3
<1> HIDE DEF asked, there
<1>6. /\ Len(order) \in Nat /\ \A k \in 1..Len(order) : order[k] \in E
      /\ {order[k] : k \in 1..Len(order)} = there
  <2>1. there \in SUBSET Nat /\ IsFiniteSet(there)
    BY <1>14, SlotsAre, PointerTypes, FS_Subset
  <2>2. order \in Seq(there) /\ \A a \in there : \E i \in 1..Len(order) : order[i] = a
    BY <2>1, OrderedIs, OrderedHas
  <2> HIDE DEF order, E
  <2>3. Len(order) \in Nat /\ \A k \in 1..Len(order) : order[k] \in there
    BY <2>2
  <2>4. {order[k] : k \in 1..Len(order)} = there
    BY <2>2, <2>3
  <2> QED
    BY <1>14, <2>3, <2>4
<1> HIDE DEF order
<1> DEFINE n == Len(order)
           read == InParts(find.part)
           all == read \cup {order[k] : k \in 1..n}
<1>15. after.stop \in BOOLEAN
  <2>1. n \in Nat /\ \A k \in 1..n : order[k] \in Slots
    BY <1>3, <1>6
  <2> HIDE DEF start, n
  <2>2. OpenLevel(AfterVisits(start, n, order, o), o, {}, to)
    BY <1>2, <1>3, <1>4, <1>5, <2>1, VisitsAreGood
  <2> QED
    BY <2>2 DEF OpenLevel, LevelAccounts, n
<1>7. /\ find'.o = o /\ find'.target = to /\ find'.part = part /\ find'.writes = find.writes /\ find'.phase = "levels"
      /\ find'.missed = find.missed \cup (asked \ there)
  <2> DEFINE last == after.stop
  <2>1. last \in BOOLEAN /\ PartRead(asked, gone, short, last)
    BY <1>1, <1>15
  <2> HIDE DEF last
  <2>2. /\ find'.o = o /\ find'.target = to /\ find'.writes = find.writes /\ find'.phase = "levels"
        /\ find'.part = IF last THEN Len(Parts) + 1 ELSE find.part + 1
        /\ find'.missed = find.missed \cup (asked \ Brought(asked, gone, short))
    <3>1. Onwards(asked, gone, short, last)
      BY <1>2, <1>14, <2>1, PartReadIs
    <3> QED
      BY <1>1, <3>1 DEF Onwards
  <2> QED
    BY <2>2 DEF last, there
<1>8. writes = find.writes /\ find.missed = {} => \E d : Holding(start, read, d, w, o, E)
  <2>1. start.chains = chains /\ start.next = next /\ start.cut = cut /\ ~start.stop
    OBVIOUS
  <2> HIDE DEF start, w, E
  <2>2. CASE cut
    BY <2>1, <2>2 DEF Holding
  <2>3. CASE ~cut
    <3> SUFFICES ASSUME writes = find.writes, find.missed = {} PROVE \E d : Holding(start, read, d, w, o, E)
      OBVIOUS
    <3>1. PICK d : Level(d, NodesOf(frontier), NodesOf(next), chains, read, w, o, E)
      BY <1>1, <2>3 DEF LevelsReach, Unhindered, w, E
    <3>2. Holding(start, read, d, w, o, E)
      BY <2>1, <3>1 DEF Holding
    <3> QED
      BY <3>2
  <2> QED
    BY <1>2, <2>2, <2>3 DEF PointerTyped
<1> HIDE DEF start, w, E
<1>9. ASSUME NEW d, Holding(start, read, d, w, o, E) PROVE Holding(after, all, d, w, o, E)
  <2>1. n \in Nat /\ \A k \in 1..n : order[k] \in E
    BY <1>6
  <2> HIDE DEF n, read
  <2>2. Holding(AfterVisits(start, n, order, o), read \cup {order[k] : k \in 1..n}, d, w, o, E)
    BY <1>2, <1>3, <1>4, <1>5, <1>9, <2>1, VisitsReach
  <2> QED
    BY <2>2 DEF n
<1> HIDE DEF after, all
<1>10. ASSUME Unhindered', find'.missed = {}
       PROVE  \E d : Level(d, NodesOf(frontier), NodesOf(after.next), after.chains, InParts(find.part + 1), w, o, E)
              /\ part = find.part + 1
  <2>1. ~after.cut /\ writes = find.writes /\ find.missed = {} /\ there = asked
    BY <1>1, <1>7, <1>10, <1>14 DEF Unhindered
  <2>2. PICK d : Holding(after, all, d, w, o, E)
    BY <1>8, <1>9, <2>1
  <2>3. ~after.stop /\ Level(d, NodesOf(frontier), NodesOf(after.next), after.chains, all, w, o, E)
    BY <2>1, <2>2 DEF Holding
  <2>4. E \cap all = E \cap InParts(find.part + 1)
    BY <1>6, <1>14, <2>1 DEF all
  <2>5. Level(d, NodesOf(frontier), NodesOf(after.next), after.chains, InParts(find.part + 1), w, o, E)
    BY <2>3, <2>4 DEF Level
  <2>6. part = find.part + 1
    BY <2>3
  <2> QED
    BY <2>5, <2>6
<1>11. World(to)' = w /\ ForLevels(o)' = E
  BY <1>1, <1>7 DEF World, ForLevels, w, E
<1> HIDE DEF part
<1>12. ASSUME Unhindered', find'.missed = {}
       PROVE  \E d : Level(d, NodesOf(frontier'), NodesOf(next'), chains', InParts(find'.part), World(to)', find'.o, ForLevels(o)')
  BY <1>1, <1>7, <1>10, <1>11, <1>12
<1>13. World(find.target)' = World(to)' /\ ForLevels(find.o)' = ForLevels(o)' /\ InParts(find.part)' = InParts(find'.part)
  BY <1>1, <1>7 DEF World, ForLevels, InParts
<1> QED
  BY <1>7, <1>12, <1>13 DEF LevelsReach, NodesOf

(* The next level begins with a node for each address where this one ends. *)
LEMMA NextLevel ==
    ASSUME NEW w, NEW o, NEW E, NEW d, NEW F, NEW X, NEW read, Level(d, F, X, {}, read, w, o, E), E \in SUBSET read,
           X # {}, NEW G \in SUBSET X, \A x \in X : \E y \in G : y.at = x.at
    PROVE  Level(d + 1, G, {}, {}, {}, w, o, E)
<1>1. d + 1 \in Nat /\ d + 1 < o.depth
  BY DEF Level
<1>2. \A y \in G : AtLevel(y, d + 1, w, o, E)
  BY DEF Level
<1>3. \A r : StaticRow(r, w, o, E) => Len(r) > d + 1
  BY NoneSoShort
<1>4. \A r : LooseRow(r, d + 1, w, o, E) => Reached(r, d + 1, G, w, o, E)
  <2> SUFFICES ASSUME NEW r, LooseRow(r, d + 1, w, o, E) PROVE Reached(r, d + 1, G, w, o, E)
    OBVIOUS
  <2>1. Reached(r, d + 1, X, w, o, E)
    BY <1>1, AllReached
  <2> QED
    BY <2>1 DEF Reached
<1> QED
  BY <1>1, <1>2, <1>3, <1>4 DEF Level

(* The offsets of a chain are as many as its row has slots. *)
LEMMA OffsetsOfChain ==
    ASSUME NEW w, NEW o, NEW E, NEW r, IsRow(r, w, o, E)
    PROVE  Len(ChainOf(r, w).offsets) = Len(r)
<1> DEFINE n == Len(r)
           f == ChainOf(r, w).offsets
           T == {f[i] : i \in 1..n}
<1>1. n \in Nat /\ DOMAIN r = 1..n
  BY DEF IsRow
<1>2. f = [i \in DOMAIN r |-> (IF i = Len(r) THEN w.target ELSE r[i + 1]) - w.memory[r[i]]]
  BY DEF ChainOf
<1>3. f \in [1..n -> T]
  <2> HIDE DEF n
  <2>1. DOMAIN f = 1..n
    BY <1>1, <1>2
  <2>2. f = [i \in 1..n |-> f[i]]
    BY <1>2, <2>1
  <2> HIDE DEF f
  <2> QED
    BY <2>2
<1> HIDE DEF f, T, n
<1>4. Len(f) = n
  BY <1>1, <1>3, FunctionsAreSequences
<1> QED
  BY <1>4 DEF f, n

(* The last level has found some chain if there is any, and the shortest only. *)
LEMMA LastLevel ==
    ASSUME NEW w, NEW o, o.depth \in Nat \ {0}, NEW E, NEW d, NEW F, NEW X, NEW cs, NEW read,
           Level(d, F, X, cs, read, w, o, E), E \in SUBSET read, cs # {} \/ X = {}
    PROVE  /\ cs \in SUBSET ChainsTo(w, o, E)
           /\ ChainsTo(w, o, E) # {} => cs # {}
           /\ \A c \in cs, e \in ChainsTo(w, o, E) : Len(c.offsets) <= Len(e.offsets)
<1>1. d \in Nat /\ d + 1 <= o.depth
  BY DEF Level
<1>2. \A r : r \in Rows(w, o, E) <=> StaticRow(r, w, o, E) /\ Len(r) <= o.depth
  BY RowsAre DEF StaticRow
<1>3. \A c \in cs : \E r \in Rows(w, o, E) : StaticRow(r, w, o, E) /\ Len(r) = d + 1 /\ c = ChainOf(r, w)
  BY <1>1, <1>2 DEF Level
<1>4. cs \in SUBSET ChainsTo(w, o, E)
  BY <1>3 DEF ChainsTo
<1>5. \A c \in cs, e \in ChainsTo(w, o, E) : Len(c.offsets) <= Len(e.offsets)
  <2> SUFFICES ASSUME NEW c \in cs, NEW e \in ChainsTo(w, o, E) PROVE Len(c.offsets) <= Len(e.offsets)
    OBVIOUS
  <2>1. PICK r : StaticRow(r, w, o, E) /\ Len(r) = d + 1 /\ c = ChainOf(r, w)
    BY <1>3
  <2>2. PICK q \in Rows(w, o, E) : e = ChainOf(q, w)
    BY DEF ChainsTo
  <2>3. IsRow(r, w, o, E) /\ IsRow(q, w, o, E) /\ StaticRow(q, w, o, E) /\ Len(q) \in Nat
    BY <1>2, <2>1 DEF StaticRow, IsRow
  <2>4. Len(q) > d
    BY <2>3 DEF Level
  <2>5. Len(c.offsets) = d + 1 /\ Len(e.offsets) = Len(q)
    BY <2>1, <2>2, <2>3, OffsetsOfChain
  <2> QED
    BY <1>1, <2>3, <2>4, <2>5
<1>6. ASSUME cs = {}, ChainsTo(w, o, E) # {} PROVE FALSE
  <2> DEFINE S == {Len(r) : r \in Rows(w, o, E)}
  <2>1. Level(d, F, {}, {}, read, w, o, E)
    BY <1>6
  <2>2. S # {} /\ S \in SUBSET Nat
    <3>1. \A r \in Rows(w, o, E) : Len(r) \in Nat
      BY <1>2 DEF StaticRow, IsRow
    <3>2. Rows(w, o, E) # {}
      BY <1>6 DEF ChainsTo
    <3> QED
      BY <3>1, <3>2
  <2>3. \E i \in S : \A j \in S : i <= j
    <3> HIDE DEF S
    <3> QED
      BY <2>2, LeastIs
  <2>4. PICK r \in Rows(w, o, E) : \A q \in Rows(w, o, E) : Len(r) <= Len(q)
    BY <2>3
  <2>5. IsRow(r, w, o, E) /\ StaticRow(r, w, o, E) /\ Len(r) <= o.depth /\ Len(r) \in Nat
    BY <1>2 DEF StaticRow, IsRow
  <2>6. Len(r) > d + 1
    BY <2>1, <2>5, NoneSoShort
  <2> DEFINE k == Len(r) - d
  <2>7. k \in 1..Len(r) /\ k > 1 /\ Len(r) - k + 1 = d + 1 /\ d + 1 < o.depth
    <3>1. o.depth \in Nat
      OBVIOUS
    <3> QED
      BY <1>1, <2>5, <2>6, <3>1
  <2> HIDE DEF k
  <2>8. PICK q : /\ IsRow(q, w, o, E) /\ q # <<>> /\ q[1] = r[k] /\ Len(q) = Len(r) - k + 1
                 /\ Loose(r, w) \/ k > 1 => Loose(q, w)
    BY <2>5, <2>7, RowFrom
  <2>9. IsRow(q, w, o, E) /\ Len(q) = d + 1 /\ Loose(q, w) /\ ~Static(q[1], w.base)
    BY <2>7, <2>8 DEF Loose
  <2>10. PICK p : IsRow(p, w, o, E) /\ p # <<>> /\ p[1] = q[1] /\ Len(p) <= d
    BY <2>1, <2>7, <2>9, OneSlotMore
  <2>11. Loose(p, w) /\ p[1] = r[k] /\ Len(p) < Len(r) - k + 1
    <3>1. Len(p) \in Nat
      BY <2>10 DEF IsRow
    <3> QED
      BY <1>1, <2>7, <2>8, <2>9, <2>10, <3>1 DEF Loose
  <2>12. PICK x : IsRow(x, w, o, E) /\ x # <<>> /\ x[1] = r[1] /\ Len(x) < Len(r)
    BY <2>5, <2>7, <2>10, <2>11, RowShortens
  <2>13. x \in Rows(w, o, E) /\ Len(x) \in Nat
    <3>1. Len(x) \in Nat /\ o.depth \in Nat
      BY <2>12 DEF IsRow
    <3>2. Len(x) <= o.depth
      BY <2>5, <2>12, <3>1
    <3> QED
      BY <1>2, <2>5, <2>12, <3>1, <3>2 DEF StaticRow
  <2> QED
    BY <2>4, <2>5, <2>12, <2>13
<1> QED
  BY <1>4, <1>5, <1>6

(* The end of a level: the next one has what it should, or the search has what it could. *)
LEMMA LevelEndsReaches ==
    ASSUME PointerInv, LevelsReach, LevelEnds
    PROVE  LevelsReach' /\ SearchComplete'
<1> DEFINE o  == find.o
           to == find.target
           w  == World(to)
           E  == ForLevels(o)
           F  == NodesOf(frontier)
           X  == NodesOf(next)
           read == InParts(find.part)
<1>1. /\ find # Absent /\ find.phase = "levels" /\ find.part > Len(Parts)
      /\ UNCHANGED <<slots, base, chains, cut, writes>>
      /\ IF chains # {} \/ next = <<>>
         THEN Done("levels", 0)
         ELSE /\ frontier' = Deduped(next)
              /\ next' = <<>>
              /\ find' = [find EXCEPT !.part = 1]
              /\ outcome' = outcome
  BY DEF LevelEnds
<1>2. PointerTyped /\ find \in Finds /\ outcome = Absent
  BY <1>1 DEF PointerInv, Searching
<1>3. E \in SUBSET read /\ o.depth \in Nat \ {0}
  <2>1. find.part \in Nat /\ o \in Options
    BY <1>2 DEF Finds
  <2>2. read = Slots
    BY <1>1, <2>1, PartsAre
  <2>3. E \in SUBSET Slots
    BY DEF ForLevels
  <2> QED
    BY <2>1, <2>2, <2>3, PointerLimits
<1>4. w.memory = slots /\ w.base = base
  BY DEF World
<1>5. next \in Seq(Nodes) /\ (next = <<>> <=> X = {})
  <2>1. next \in Seq(Nodes) /\ Len(next) \in Nat
    BY <1>2 DEF PointerTyped
  <2>2. next = <<>> <=> Len(next) = 0
    BY <2>1
  <2>3. Len(next) # 0 => next[1] \in X
    BY <2>1 DEF NodesOf
  <2>4. Len(next) = 0 => X = {}
    BY DEF NodesOf
  <2> QED
    BY <2>1, <2>2, <2>3, <2>4
<1>6. ASSUME ~cut, writes = find.writes, find.missed = {}
      PROVE  \E d : Level(d, F, X, chains, read, w, o, E)
  BY <1>1, <1>6 DEF LevelsReach, Unhindered
<1> HIDE DEF E, F, X, read
<1>7. CASE chains # {} \/ next = <<>>
  <2>1. /\ find' = Absent /\ leads' = Undisturbed
        /\ outcome' = [o |-> o, via |-> "levels", work |-> 0, missed |-> find.missed, gone |-> find.gone]
    BY <1>1, <1>7 DEF Done
  <2>2. outcome'.o = o /\ outcome'.via = "levels" /\ outcome'.missed = find.missed
    BY <2>1
  <2> SUFFICES ASSUME ~cut, find.missed = {}, NEW v \in Undisturbed
               PROVE  /\ chains \in SUBSET InLevels(v, o)
                      /\ InLevels(v, o) # {} => chains # {}
                      /\ \A c \in chains, e \in InLevels(v, o) : Len(c.offsets) <= Len(e.offsets)
    <3>1. LevelsReach'
      BY <2>1 DEF LevelsReach, Unhindered
    <3> QED
      BY <1>1, <2>1, <2>2, <3>1 DEF SearchComplete
  <2>3. v = w /\ writes = find.writes
    BY DEF Undisturbed
  <2>4. PICK d : Level(d, F, X, chains, read, w, o, E)
    BY <1>6, <2>3
  <2>5. InLevels(w, o) = ChainsTo(w, o, E)
    BY <1>4 DEF InLevels, E, ForLevels
  <2> HIDE DEF w, o
  <2>6. /\ chains \in SUBSET ChainsTo(w, o, E)
        /\ ChainsTo(w, o, E) # {} => chains # {}
        /\ \A c \in chains, e \in ChainsTo(w, o, E) : Len(c.offsets) <= Len(e.offsets)
    BY <1>3, <1>5, <1>7, <2>4, LastLevel
  <2> QED
    BY <2>3, <2>5, <2>6
<1>8. CASE ~(chains # {} \/ next = <<>>)
  <2>1. /\ chains = {} /\ X # {} /\ frontier' = Deduped(next) /\ next' = <<>>
        /\ find' = [find EXCEPT !.part = 1] /\ outcome' = Absent
    BY <1>1, <1>2, <1>5, <1>8
  <2>2. /\ find'.o = o /\ find'.target = to /\ find'.part = 1 /\ find'.writes = find.writes
        /\ find'.missed = find.missed
    BY <1>2, <2>1 DEF Finds
  <2> DEFINE G == NodesOf(Deduped(next))
  <2>3. G \in SUBSET X /\ \A x \in X : \E y \in G : y.at = x.at
    <3> DEFINE s == Deduped(next)
    <3>1. /\ \A i \in 1..Len(s) : \E n \in 1..Len(next) : s[i] = next[n]
          /\ \A n \in 1..Len(next) : \E i \in 1..Len(s) : s[i].at = next[n].at
      BY <1>5, DedupedIs
    <3> HIDE DEF s
    <3>3. X = {next[n] : n \in 1..Len(next)} /\ NodesOf(s) = {s[i] : i \in 1..Len(s)}
      BY DEF NodesOf, X
    <3>4. NodesOf(s) \in SUBSET X
      BY <3>1, <3>3
    <3>5. ASSUME NEW x \in X PROVE \E y \in NodesOf(s) : y.at = x.at
      <4>1. PICK n \in 1..Len(next) : x = next[n]
        BY <3>3
      <4>2. PICK i \in 1..Len(s) : s[i].at = next[n].at
        BY <3>1
      <4>3. s[i] \in NodesOf(s)
        BY <3>3
      <4> QED
        BY <4>1, <4>2, <4>3
    <3>2. NodesOf(s) \in SUBSET X /\ \A x \in X : \E y \in NodesOf(s) : y.at = x.at
      BY <3>4, <3>5
    <3> QED
      BY <3>2 DEF s
  <2>4. InParts(1) = {} /\ NodesOf(<<>>) = {}
    BY PartsAre DEF NodesOf
  <2> HIDE DEF G
  <2>5. ASSUME Unhindered', find'.missed = {} PROVE \E d : Level(d, G, {}, {}, {}, w, o, E)
    <3>1. ~cut /\ writes = find.writes /\ find.missed = {}
      BY <1>1, <2>2, <2>5 DEF Unhindered
    <3>2. PICK d : Level(d, F, X, {}, read, w, o, E)
      BY <1>6, <2>1, <3>1
    <3> HIDE DEF w, o
    <3>3. Level(d + 1, G, {}, {}, {}, w, o, E)
      BY <1>3, <2>1, <2>3, <3>2, NextLevel
    <3> QED
      BY <3>3
  <2>6. World(find.target)' = w /\ ForLevels(find.o)' = E /\ InParts(find.part)' = {}
        /\ NodesOf(frontier)' = G /\ NodesOf(next)' = {} /\ chains' = {}
    BY <1>1, <2>1, <2>2, <2>4 DEF World, ForLevels, InParts, NodesOf, G, E
  <2>7. LevelsReach'
    BY <2>2, <2>5, <2>6 DEF LevelsReach
  <2>8. SearchComplete'
    BY <2>1 DEF SearchComplete
  <2> QED
    BY <2>7, <2>8
<1> QED
  BY <1>7, <1>8

-----------------------------------------------------------------------------
(* The invariant of a complete search, step by step. *)

CompleteInv == PointerInv /\ IndexHas /\ LevelsReach /\ SearchComplete

(* The first level has the target alone. *)
LEMMA LevelsBegin ==
    ASSUME NEW w, NEW o, o.depth \in Nat \ {0}, NEW E
    PROVE  Level(0, {RootNode(w.target)}, {}, {}, {}, w, o, E)
<1> DEFINE root == RootNode(w.target)
<1>1. root.at = w.target /\ root.path = <<w.target>> /\ root.offsets = <<>>
  BY DEF RootNode
<1>2. Range(<<w.target>>) = {w.target}
  <2> DEFINE s == <<w.target>>
  <2>1. DOMAIN s = 1..1 /\ s[1] = w.target /\ 1..1 = {1}
    OBVIOUS
  <2> HIDE DEF s
  <2>2. Range(s) = {w.target}
    BY <2>1 DEF Range
  <2> QED
    BY <2>2 DEF s
<1>3. AtLevel(root, 0, w, o, E)
  <2> SUFFICES ASSUME NEW r, r = <<>> PROVE LooseRow(r, 0, w, o, E) /\ Begins(root, r, w)
    BY DEF AtLevel
  <2>1. IsRow(r, w, o, E) /\ Loose(r, w) /\ Start(r, w) = w.target /\ Range(r) = {}
    BY EmptyRow
  <2>2. Len(r) = 0 /\ DOMAIN r = {}
    OBVIOUS
  <2>3. OffsetsOf(r, w) = <<>>
    BY <2>2 DEF OffsetsOf
  <2> HIDE DEF root
  <2> QED
    BY <1>1, <1>2, <2>1, <2>2, <2>3 DEF LooseRow, Begins
<1>4. \A r : StaticRow(r, w, o, E) => Len(r) > 0
  BY DEF StaticRow, IsRow
<1>5. ASSUME NEW r, LooseRow(r, 0, w, o, E) PROVE root.at = Start(r, w)
  <2>1. r = <<>>
    BY <1>5 DEF LooseRow, IsRow
  <2> QED
    BY <1>1, <2>1 DEF Start
<1> HIDE DEF root
<1>6. \A r : LooseRow(r, 0, w, o, E) => Reached(r, 0, {root}, w, o, E)
  BY <1>5 DEF Reached
<1>7. 0 \in Nat /\ 0 < o.depth
  OBVIOUS
<1>8. Level(0, {root}, {}, {}, {}, w, o, E)
  BY <1>3, <1>4, <1>6, <1>7 DEF Level
<1> QED
  BY <1>8 DEF root

(* Levels begun in a memory have what they should. *)
LEMMA LevelsStarted ==
    ASSUME NEW to, NEW o, o.depth \in Nat \ {0}, StartLevels(to), chains' = {},
           find'.o = o, find'.target = to, find'.part = 1
    PROVE  LevelsReach'
<1>1. frontier' = <<RootNode(to)>> /\ next' = <<>>
  BY DEF StartLevels
<1>2. NodesOf(frontier') = {RootNode(to)} /\ NodesOf(next') = {}
  <2>1. Len(frontier') = 1 /\ frontier'[1] = RootNode(to) /\ 1..1 = {1} /\ Len(next') = 0 /\ 1..0 = {}
    BY <1>1
  <2> QED
    BY <2>1 DEF NodesOf
<1>3. World(to)'.target = to
  BY DEF World
<1>4. Level(0, {RootNode(to)}, {}, {}, {}, World(to)', o, ForLevels(o)')
  <2> DEFINE w == World(to)'
             E == ForLevels(o)'
  <2>1. w.target = to
    BY <1>3
  <2> HIDE DEF w, E
  <2>2. Level(0, {RootNode(w.target)}, {}, {}, {}, w, o, E)
    BY LevelsBegin
  <2>3. Level(0, {RootNode(to)}, {}, {}, {}, w, o, E)
    BY <2>1, <2>2
  <2> QED
    BY <2>3 DEF w, E
<1>5. World(find.target)' = World(to)' /\ ForLevels(find.o)' = ForLevels(o)' /\ InParts(find.part)' = {}
  BY PartsAre DEF World, ForLevels, InParts
<1>6. \E d : Level(d, NodesOf(frontier'), NodesOf(next'), chains', InParts(find.part)', World(find.target)', o, ForLevels(find.o)')
  BY <1>2, <1>4, <1>5
<1> QED
  BY <1>6 DEF LevelsReach, NodesOf

(* At rest, and without an outcome, there is nothing to have. *)
LEMMA AtRest ==
    /\ find' = Absent => IndexHas' /\ LevelsReach'
    /\ outcome' = Absent => SearchComplete'
    /\ SearchComplete /\ UNCHANGED <<chains, cut, leads, outcome>> => SearchComplete'
<1>1. find' = Absent => IndexHas' /\ LevelsReach'
  BY DEF IndexHas, LevelsReach, Unhindered
<1>2. outcome' = Absent => SearchComplete'
  BY DEF SearchComplete
<1>3. SearchComplete /\ UNCHANGED <<chains, cut, leads, outcome>> => SearchComplete'
  BY DEF SearchComplete
<1> QED
  BY <1>1, <1>2, <1>3

(* An index begun, by a search or by a capture, has what it should. *)
LEMMA IndexStarted ==
    ASSUME index' = {}, find'.part = 1, find'.missed = {}
    PROVE  IndexHas'
<1>1. InParts(find.part)' = {}
  BY PartsAre DEF InParts
<1>2. (EntriesOf((ForIndex(find.o) \ find.missed) \cap InParts(find.part), slots))' = {}
  BY <1>1 DEF EntriesOf
<1> QED
  BY <1>2 DEF IndexHas

(* A search begins with nothing in its index, or with the target alone. *)
LEMMA ScanCompletes ==
    ASSUME CompleteInv, NEW to \in Targets, NEW o \in Options, Scan(to, o)
    PROVE  IndexHas' /\ LevelsReach' /\ SearchComplete'
<1>1. /\ chains' = {} /\ index' = {} /\ outcome' = Absent
      /\ o.mode = "targeted" => StartLevels(to)
      /\ find' = [for |-> "chains", phase |-> IF o.mode = "targeted" THEN "levels" ELSE "index",
                  target |-> to, o |-> o, part |-> 1, missed |-> {}, gone |-> {}, writes |-> writes]
  BY DEF Scan
<1>2. find'.o = o /\ find'.target = to /\ find'.part = 1 /\ find'.missed = {} /\ (o.mode # "targeted" => find'.phase = "index")
  BY <1>1
<1>3. o.depth \in Nat \ {0}
  BY PointerLimits
<1>4. IndexHas' /\ SearchComplete'
  BY <1>1, <1>2, IndexStarted, AtRest
<1>5. CASE o.mode = "targeted"
  BY <1>1, <1>2, <1>3, <1>4, <1>5, LevelsStarted
<1>6. CASE o.mode # "targeted"
  BY <1>2, <1>4, <1>6 DEF LevelsReach
<1> QED
  BY <1>5, <1>6

(* The end of an index leads to an outcome or to the first level. *)
LEMMA SearchIndexCompletes ==
    ASSUME CompleteInv, SearchIndex
    PROVE  IndexHas' /\ LevelsReach' /\ SearchComplete'
<1> DEFINE o     == find.o
           to    == find.target
           found == FindChains(index, base, to, o)
<1>1. /\ find # Absent /\ find.phase = "index" /\ find.for = "chains"
      /\ IF o.mode = "auto" /\ found.chains = {}
         THEN /\ StartLevels(to)
              /\ find' = [find EXCEPT !.phase = "levels", !.part = 1, !.missed = {}, !.gone = {}]
              /\ index' = {} /\ chains' = chains
         ELSE find' = Absent
  BY DEF SearchIndex, Done
<1>2. SearchComplete'
  BY SearchIndexWhole DEF CompleteInv
<1>3. find \in Finds /\ chains = {} /\ o.depth \in Nat \ {0}
  BY <1>1, PointerLimits DEF CompleteInv, PointerInv, Searching, Finds
<1>4. CASE o.mode = "auto" /\ found.chains = {}
  <2>1. /\ StartLevels(to) /\ index' = {} /\ chains' = {}
        /\ find' = [find EXCEPT !.phase = "levels", !.part = 1, !.missed = {}, !.gone = {}]
    BY <1>1, <1>3, <1>4
  <2>2. find'.o = o /\ find'.target = to /\ find'.part = 1 /\ find'.missed = {}
    BY <1>3, <2>1 DEF Finds
  <2>3. IndexHas'
    BY <2>1, <2>2, IndexStarted
  <2> HIDE DEF o, to
  <2>4. LevelsReach'
    BY <1>3, <2>1, <2>2, LevelsStarted
  <2> QED
    BY <1>2, <2>3, <2>4
<1>5. CASE ~(o.mode = "auto" /\ found.chains = {})
  <2>1. find' = Absent
    BY <1>1, <1>5
  <2> QED
    BY <1>2, <2>1, AtRest
<1> QED
  BY <1>4, <1>5

(* A slot written during a search excepts it. *)
LEMMA SlotWrittenCompletes ==
    ASSUME CompleteInv, NEW a \in Slots, NEW v \in PointerValues, SlotWritten(a, v)
    PROVE  IndexHas' /\ LevelsReach' /\ SearchComplete'
<1>1. writes' = writes + 1 /\ find' = find /\ UNCHANGED <<chains, cut, leads, outcome>>
  BY DEF SlotWritten
<1>2. ~Unhindered'
  <2> SUFFICES ASSUME find # Absent PROVE writes' # find'.writes
    BY <1>1 DEF Unhindered
  <2>1. writes \in Nat /\ find.writes <= writes /\ find.writes \in Nat
    BY DEF CompleteInv, PointerInv, PointerTyped, Searching, Finds
  <2> QED
    BY <1>1, <2>1
<1>3. SearchComplete'
  BY <1>1, AtRest DEF CompleteInv
<1> QED
  BY <1>2, <1>3 DEF IndexHas, LevelsReach

(* Steps of the index and of the levels. *)
LEMMA PartsComplete ==
    ASSUME CompleteInv, NEW gone, NEW short,
           IndexPart(gone, short) \/ SaveMap \/ LevelPart(gone, short) \/ LevelEnds
    PROVE  IndexHas' /\ LevelsReach' /\ SearchComplete'
<1>1. CASE IndexPart(gone, short)
  <2>1. /\ find # Absent /\ find.phase = "index" /\ outcome' = outcome
        /\ \E p, m, g : find' = [find EXCEPT !.part = p, !.missed = m, !.gone = g]
    BY <1>1 DEF IndexPart, PartRead
  <2>2. outcome = Absent /\ find \in Finds
    BY <2>1 DEF CompleteInv, PointerInv, Searching
  <2>3. find'.phase = "index"
    BY <2>1, <2>2 DEF Finds
  <2> QED
    BY <1>1, <2>1, <2>2, <2>3, IndexPartHas, AtRest DEF CompleteInv, LevelsReach
<1>2. CASE SaveMap
  <2>1. find # Absent /\ find' = Absent /\ outcome' = outcome
    BY <1>2 DEF SaveMap
  <2>2. outcome = Absent
    BY <2>1 DEF CompleteInv, PointerInv, Searching
  <2> QED
    BY <2>1, <2>2, AtRest
<1>3. CASE LevelPart(gone, short)
  <2>1. /\ find # Absent /\ find.phase = "levels" /\ outcome' = outcome
        /\ \E p, m, g : find' = [find EXCEPT !.part = p, !.missed = m, !.gone = g]
    BY <1>3 DEF LevelPart, PartRead
  <2>2. outcome = Absent /\ find \in Finds
    BY <2>1 DEF CompleteInv, PointerInv, Searching
  <2>3. find'.phase = "levels"
    BY <2>1, <2>2 DEF Finds
  <2> QED
    BY <1>3, <2>1, <2>2, <2>3, LevelPartReaches, AtRest DEF CompleteInv, IndexHas
<1>4. CASE LevelEnds
  <2>1. find # Absent /\ find.phase = "levels" /\ (find' = Absent \/ \E p : find' = [find EXCEPT !.part = p])
    BY <1>4 DEF LevelEnds, Done
  <2>2. find \in Finds
    BY <2>1 DEF CompleteInv, PointerInv, Searching
  <2>3. find' = Absent \/ find'.phase = "levels"
    BY <2>1, <2>2 DEF Finds
  <2>4. IndexHas'
    BY <2>3 DEF IndexHas, Unhindered
  <2> QED
    BY <1>4, <2>4, LevelEndsReaches DEF CompleteInv
<1> QED
  BY <1>1, <1>2, <1>3, <1>4

(* Every step keeps the invariant. *)
LEMMA CompleteStep == ASSUME CompleteInv, [Next]_vars PROVE CompleteInv'
<1>1. PointerInv'
  BY PointerStep DEF CompleteInv
<1> DEFINE Kept == IndexHas' /\ LevelsReach' /\ SearchComplete'
<1> SUFFICES Kept
  BY <1>1 DEF CompleteInv
<1>2. CASE PointerNext
  <2>1. ASSUME NEW to \in Targets, NEW o \in Options, Scan(to, o) PROVE Kept
    BY <2>1, ScanCompletes
  <2>2. ASSUME NEW to \in Targets, NEW o \in Options, Capture(to, o) PROVE Kept
    <3>1. index' = {} /\ outcome' = Absent /\ find'.part = 1 /\ find'.missed = {} /\ find'.phase = "index"
      BY <2>2 DEF Capture
    <3> QED
      BY <3>1, IndexStarted, AtRest DEF LevelsReach
  <2>3. ASSUME NEW gone, NEW short, IndexPart(gone, short) \/ SaveMap \/ LevelPart(gone, short) \/ LevelEnds
        PROVE  Kept
    BY <2>3, PartsComplete
  <2>4. CASE SearchIndex
    BY <2>4, SearchIndexCompletes
  <2>5. ASSUME find' = Absent, outcome' = Absent PROVE Kept
    BY <2>5, AtRest
  <2>6. ASSUME find' = Absent, UNCHANGED <<chains, cut, leads, outcome>> PROVE Kept
    BY <2>6, AtRest DEF CompleteInv
  <2>7. ASSUME NEW to \in Targets, Rescan(to) PROVE Kept
    BY <2>5, <2>7 DEF Rescan, Ready
  <2>8. ASSUME NEW m \in saved, LoadMap(m) PROVE Kept
    BY <2>6, <2>8 DEF LoadMap, Ready
  <2>9. ASSUME NEW o \in Options, Compare(o) PROVE Kept
    BY <2>5, <2>9 DEF Compare, SetCommon, Ready
  <2>10. ASSUME NEW o \in Options, NEW first \in saved, NEW rest \in SUBSET (saved \ {first}),
                CompareFiles(first, rest, o)
         PROVE  Kept
    BY <2>5, <2>10 DEF CompareFiles, SetCommon, Ready
  <2>11. CASE ClearMaps
    BY <2>6, <2>11 DEF ClearMaps, Ready
  <2>12. CASE ClearChains
    BY <2>5, <2>12 DEF ClearChains, Ready
  <2>13. ASSUME NEW w \in Worlds, PointerReattach(w) PROVE Kept
    BY <2>6, <2>13 DEF PointerReattach, Ready
  <2>14. ASSUME NEW a \in Slots, NEW v \in PointerValues, SlotWritten(a, v) PROVE Kept
    BY <2>14, SlotWrittenCompletes
  <2> HIDE DEF Kept
  <2> QED
    BY <1>2, <2>1, <2>2, <2>3, <2>4, <2>7, <2>8, <2>9, <2>10, <2>11, <2>12, <2>13, <2>14 DEF PointerNext
<1>3. CASE UNCHANGED searchVars
  <2>1. UNCHANGED <<slots, base, find, index, frontier, next, chains, cut, writes, leads, outcome>>
    BY <1>3 DEF searchVars
  <2>2. IndexHas' <=> IndexHas
    BY <2>1 DEF IndexHas, Unhindered, ForIndex, InParts, EntriesOf
  <2>3. LevelsReach' <=> LevelsReach
    BY <2>1 DEF LevelsReach, Unhindered, ForLevels, InParts, World, NodesOf
  <2> QED
    BY <2>1, <2>2, <2>3, AtRest DEF CompleteInv
<1>4. PointerNext \/ UNCHANGED searchVars
  BY DEF Next, vars
<1> QED
  BY <1>2, <1>3, <1>4

(* A search that met no limit, in memory nobody wrote, found what there was: with the index every chain, with the levels *)
(* some chain if there was one, and the shortest only.                                    *)
THEOREM SpecSearchComplete == Spec => []SearchComplete
<1>1. Init => CompleteInv
  <2> SUFFICES ASSUME Init PROVE CompleteInv
    OBVIOUS
  <2>1. find = Absent /\ outcome = Absent
    BY DEF Init, PointerInit
  <2> QED
    BY <2>1, PointerBegins DEF CompleteInv, IndexHas, LevelsReach, Unhindered, SearchComplete
<1>2. CompleteInv => SearchComplete
  BY DEF CompleteInv
<1> QED
  BY <1>1, <1>2, CompleteStep, PTL DEF Spec
=============================================================================
