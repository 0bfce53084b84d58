------------------------------ MODULE ToolsProofs -----------------------------
(***************************************************************************)
(* Proofs about the tools of an engine session (Tools), beyond those about *)
(* pointers (PointerSearchProofs).                                         *)
(*                                                                         *)
(* The walk over the target's memory: its chunks lie one after the other   *)
(* and cover what is walked, the reads of a chunk look at different bytes, *)
(* and at all that are in reach with what the overlap allows for.          *)
(*                                                                         *)
(* The search for a pattern: what is in reach and matches is in the list   *)
(* or due from a chunk ahead, and nothing else ever is.                    *)
(*                                                                         *)
(* The scan for values: what a request is to find has come already or      *)
(* comes yet from the chunks, results or blocks ahead, what it is not to   *)
(* find does neither, and every step hands on what it takes.               *)
(***************************************************************************)
EXTENDS PointerSearchProofs

(* Steps of one length, and pages. *)

(* What a quotient and a remainder make has them. *)
LEMMA Composed ==
    ASSUME NEW d \in Nat \ {0}, NEW q \in Nat, NEW r \in Nat, r < d
    PROVE  (d * q + r) % d = r /\ (d * q + r) \div d = q
<1>1. (d * q + r) % d = r
  OBVIOUS
<1>2. (d * q + r) \div d = q
  OBVIOUS
<1> QED
  BY <1>1, <1>2

(* A number is its quotient times the divisor and a remainder below the divisor.          *)
LEMMA Quotient ==
    ASSUME NEW a \in Nat, NEW d \in Nat \ {0}
    PROVE  /\ a \div d \in Nat /\ a % d \in 0 .. (d - 1)
           /\ a = d * (a \div d) + (a % d)
<1>1. a \div d \in Nat
  OBVIOUS
<1>2. a % d \in 0 .. (d - 1)
  OBVIOUS
<1>3. a = d * (a \div d) + (a % d)
  OBVIOUS
<1> QED
  BY <1>1, <1>2, <1>3

(* A multiple is a number of times the divisor. *)
LEMMA Multiple ==
    ASSUME NEW a \in Nat, NEW d \in Nat \ {0}
    PROVE  a % d = 0 <=> \E q \in Nat : a = d * q
<1>1. ASSUME a % d = 0 PROVE \E q \in Nat : a = d * q
  <2>1. a \div d \in Nat /\ a = d * (a \div d) + 0
    BY <1>1, Quotient
  <2>2. a \div d \in Nat /\ a = d * (a \div d)
    BY <2>1
  <2> QED
    BY <2>2
<1>2. ASSUME NEW q \in Nat, a = d * q PROVE a % d = 0
  <2>1. (d * q + 0) % d = 0
    BY Composed
  <2> QED
    BY <1>2, <2>1
<1> QED
  BY <1>1, <1>2

(* The sum of multiples is one. *)
LEMMA MultiplesAdd ==
    ASSUME NEW d \in Nat \ {0}, NEW a \in Nat, NEW b \in Nat, a % d = 0, b % d = 0
    PROVE  (a + b) % d = 0
<1>1. PICK p \in Nat : a = d * p
  BY Multiple
<1>2. PICK q \in Nat : b = d * q
  BY Multiple
<1>3. a + b = d * (p + q) /\ p + q \in Nat /\ a + b \in Nat
  BY <1>1, <1>2
<1> QED
  BY <1>3, Multiple

(* A multiple of a multiple is one, too. *)
LEMMA MultiplesNest ==
    ASSUME NEW d \in Nat \ {0}, NEW e \in Nat \ {0}, e % d = 0, NEW a \in Nat, a % e = 0
    PROVE  a % d = 0
<1>1. PICK p \in Nat : a = e * p
  BY Multiple
<1>2. PICK q \in Nat : e = d * q
  BY Multiple
<1>3. a = d * (q * p) /\ q * p \in Nat
  BY <1>1, <1>2
<1> QED
  BY <1>3, Multiple

(* Steps of one length begin that length apart. *)
LEMMA StepsApart ==
    ASSUME NEW a \in Nat, NEW b \in Int, NEW d \in Nat \ {0},
           NEW x \in Steps(a, b, d), NEW y \in Steps(a, b, d), x < y
    PROVE  x + d <= y
<1>1. x - a \in Nat /\ y - a \in Nat /\ (x - a) % d = 0 /\ (y - a) % d = 0
  BY DEF Steps
<1>2. PICK p \in Nat : x - a = d * p
  BY <1>1, Multiple
<1>3. PICK q \in Nat : y - a = d * q
  BY <1>1, Multiple
<1>4. x \in Int /\ y \in Int
  BY DEF Steps
<1>5. d * p < d * q
  BY <1>2, <1>3, <1>4
<1>6. p < q
  <2>1. q <= p => d * q <= d * p
    OBVIOUS
  <2> QED
    BY <1>5, <2>1
<1>7. d * p + d <= d * q
  BY <1>6
<1> QED
  BY <1>2, <1>3, <1>4, <1>7

(* Steps take one everywhere from a to b. *)
LEMMA StepsCover ==
    ASSUME NEW a \in Nat, NEW b \in Int, NEW d \in Nat \ {0}, NEW n \in a .. (b - 1)
    PROVE  \E x \in Steps(a, b, d) : x <= n /\ n < x + d
<1> DEFINE q == (n - a) \div d
           r == (n - a) % d
           x == a + d * q
<1>1. n - a \in Nat
  OBVIOUS
<1>2. q \in Nat /\ r \in 0 .. (d - 1) /\ n - a = d * q + r
  BY <1>1, Quotient
<1> HIDE DEF q, r
<1>3. d * q \in Nat
  BY <1>2
<1>4. x - a = d * q /\ x \in Nat
  BY <1>3
<1>5. (x - a) % d = 0
  BY <1>2, <1>3, <1>4, Multiple
<1>6. x <= n /\ n < x + d
  BY <1>2, <1>3
<1>7. x \in Steps(a, b, d)
  BY <1>4, <1>5, <1>6 DEF Steps
<1> QED
  BY <1>6, <1>7

(* The places of a page are in that page. *)
LEMMA SamePage ==
    ASSUME NEW d \in Nat \ {0}, NEW x \in Nat, NEW a \in Nat, x % d = 0, x <= a, a < x + d
    PROVE  a \div d = x \div d
OBVIOUS

(* A page further on is the next one. *)
LEMMA NextPage == ASSUME NEW d \in Nat \ {0}, NEW a \in Nat PROVE (a + d) \div d = a \div d + 1
OBVIOUS

(* Where the page changes another one begins. *)
LEMMA PageBegins ==
    ASSUME NEW d \in Nat \ {0}, NEW a \in Nat, a \div d # (a + 1) \div d
    PROVE  (a + 1) % d = 0
OBVIOUS

-----------------------------------------------------------------------------
(* The walk. *)

Region == [base : Nat, end : Nat, flags : SUBSET {"writable", "executable"}]
Chunk == [base : Nat, end : Nat]
WalkType == [flags : SUBSET {"writable", "executable"}, low : Nat, high : Nat]

\* A chunk is a part of memory, and not empty.
SoundChunk(c) == c \in Chunk /\ c.base < c.end /\ c.base .. (c.end - 1) \subseteq Addresses

(* The lesser of two numbers. *)
LEMMA LeastOfTwo ==
    ASSUME NEW a \in Int, NEW b \in Int
    PROVE  Least({a, b}) = IF a <= b THEN a ELSE b
<1> DEFINE m == IF a <= b THEN a ELSE b
<1>1. m \in {a, b} /\ \A y \in {a, b} : m <= y
  OBVIOUS
<1>2. ASSUME NEW x \in {a, b}, \A y \in {a, b} : x <= y PROVE x = m
  BY <1>2
<1> HIDE DEF m
<1> QED
  BY <1>1, <1>2 DEF Least, m

(* Addresses are numbers. *)
LEMMA AddressesAre == Addresses \subseteq Nat
<1>1. \A i \in DOMAIN Regions : Regions[i] \in Region
  <2>1. Regions \in Seq(Region)
    BY RegionsAscend DEF Region
  <2> QED
    BY <2>1
<1>2. \A i \in DOMAIN Regions : Regions[i].base \in Nat /\ Regions[i].end \in Nat
  BY <1>1 DEF Region
<1>3. ASSUME NEW a \in Addresses PROVE a \in Nat
  <2>1. PICK i \in DOMAIN Regions : a \in Regions[i].base .. (Regions[i].end - 1)
    BY DEF Addresses
  <2> QED
    BY <1>2, <2>1
<1> QED
  BY <1>3

(* How much of a chunk is its own: something, and not beyond its end. *)
LEMMA PrimaryIs ==
    ASSUME NEW c, SoundChunk(c)
    PROVE  /\ Primary(c) \in Nat \ {0} /\ Primary(c) <= ChunkSize
           /\ c.base + Primary(c) <= c.end
           /\ c.base + Primary(c) = c.end \/ Primary(c) = ChunkSize
<1>1. c.base \in Nat /\ c.end \in Nat /\ c.base < c.end /\ ChunkSize \in Nat \ {0}
  BY WalkSizes DEF SoundChunk, Chunk
<1>2. Primary(c) = IF ChunkSize <= c.end - c.base THEN ChunkSize ELSE c.end - c.base
  BY <1>1, LeastOfTwo DEF Primary
<1> QED
  BY <1>1, <1>2

(* A read delivers bytes that are in reach; all of them when nothing is lost, and up to the  *)
(* first gap when reads may be partial.                                                      *)
LEMMA ArriveIs ==
    ASSUME NEW a \in Nat, NEW n \in Nat
    PROVE  /\ Arrive(a, n) \in 0 .. n
           /\ \A k \in 0 .. (Arrive(a, n) - 1) : InReach(a + k)
           /\ partial /\ Arrive(a, n) < n => ~InReach(a + Arrive(a, n))
           /\ (\A k \in 0 .. (n - 1) : InReach(a + k)) => Arrive(a, n) = n
<1> DEFINE G == {k \in 0 .. (n - 1) : ~InReach(a + k)}
<1>1. Arrive(a, n) = IF G = {} THEN n ELSE IF partial THEN Least(G) ELSE 0
  BY DEF Arrive
<1>2. CASE G = {}
  <2>1. Arrive(a, n) = n
    BY <1>1, <1>2
  <2>2. \A k \in 0 .. (n - 1) : InReach(a + k)
    BY <1>2
  <2> QED
    BY <2>1, <2>2
<1>3. CASE G # {} /\ ~partial
  <2>1. Arrive(a, n) = 0
    BY <1>1, <1>3
  <2>2. ~ \A k \in 0 .. (n - 1) : InReach(a + k)
    BY <1>3
  <2> QED
    BY <2>1, <2>2, <1>3
<1>4. CASE G # {} /\ partial
  <2>1. Least(G) \in G /\ \A y \in G : Least(G) <= y
    <3>1. G \in SUBSET Nat
      OBVIOUS
    <3>2. \E x \in G : \A y \in G : x <= y
      BY <1>4, <3>1, LeastIs, Zenon
    <3> HIDE DEF G
    <3> QED
      BY <3>2 DEF Least
  <2>2. Arrive(a, n) = Least(G)
    BY <1>1, <1>4
  <2>3. Least(G) \in 0 .. (n - 1) /\ ~InReach(a + Least(G))
    BY <2>1
  <2>4. ASSUME NEW k \in 0 .. (Least(G) - 1) PROVE InReach(a + k)
    <3>1. k \in 0 .. (n - 1) /\ ~(Least(G) <= k)
      BY <2>3
    <3> QED
      BY <2>1, <3>1
  <2> HIDE DEF G
  <2> QED
    BY <2>2, <2>3, <2>4
<1> QED
  BY <1>2, <1>3, <1>4

\* A region as it is walked: memory, and whole pages when the walk begins with one.
SoundRegion(r, walk) ==
    /\ r \in Region /\ r.base < r.end /\ r.base .. (r.end - 1) \subseteq Addresses
    /\ walk.low % PageSize = 0 => r.base % PageSize = 0

(* The regions of a walk are finitely many and lie apart. *)
LEMMA AllowedAre ==
    ASSUME NEW walk \in WalkType
    PROVE  /\ IsFiniteSet(Allowed(walk))
           /\ \A r \in Allowed(walk) : SoundRegion(r, walk)
           /\ \A r, s \in Allowed(walk) : r = s \/ r.end <= s.base \/ s.end <= r.base
<1> DEFINE D == DOMAIN Regions
           R == [i \in D |-> Clipped(Regions[i], walk)]
           A == Allowed(walk)
<1>0. walk.low \in Nat /\ walk.high \in Nat
  BY DEF WalkType
<1>1. \A i \in D : Regions[i] \in Region
  <2>1. Regions \in Seq(Region)
    BY RegionsAscend DEF Region
  <2> QED
    BY <2>1
<1>2. ASSUME NEW i \in D
      PROVE  /\ R[i] \in Region
             /\ R[i].base = IF Regions[i].base < walk.low THEN walk.low ELSE Regions[i].base
             /\ R[i].end = IF Regions[i].end > walk.high + 1 THEN walk.high + 1 ELSE Regions[i].end
  <2> DEFINE r == Regions[i]
             b == IF r.base < walk.low THEN walk.low ELSE r.base
             e == IF r.end > walk.high + 1 THEN walk.high + 1 ELSE r.end
  <2>1. r \in Region
    BY <1>1
  <2>2. r.base \in Nat /\ r.end \in Nat /\ r.flags \in SUBSET {"writable", "executable"}
    BY <2>1 DEF Region
  <2>3. R[i] = [r EXCEPT !.base = b, !.end = e]
    BY DEF Clipped
  <2>4. b \in Nat /\ e \in Nat
    BY <2>2, <1>0
  <2> HIDE DEF r, b, e, R
  <2>5. R[i] \in Region /\ R[i].base = b /\ R[i].end = e
    BY <2>1, <2>3, <2>4 DEF Region
  <2> QED
    BY <2>5 DEF r, b, e
<1>3. \A r \in A : \E i \in D : r = R[i] /\ r.base < r.end
  BY DEF Allowed
<1>4. IsFiniteSet(A)
  <2>1. IsFiniteSet(D)
    <3>1. Regions \in Seq(Region)
      BY RegionsAscend DEF Region
    <3>2. D = 1 .. Len(Regions) /\ Len(Regions) \in Nat
      BY <3>1
    <3> QED
      BY <3>2, FS_Interval
  <2> DEFINE C == {R[i] : i \in D}
  <2>2. R \in [D -> C]
    OBVIOUS
  <2>3. \A c \in C : \E i \in D : R[i] = c
    OBVIOUS
  <2>4. R \in Surjection(D, C)
    BY <2>2, <2>3 DEF Surjection
  <2>5. IsFiniteSet(C)
    BY <2>1, <2>4, FS_Surjection, Zenon
  <2>6. A \in SUBSET C
    BY <1>3
  <2> QED
    BY <2>5, <2>6, FS_Subset
<1>5. ASSUME NEW i \in D, R[i].base < R[i].end PROVE SoundRegion(R[i], walk)
  <2>1. Regions[i].base \in Nat /\ Regions[i].end \in Nat
    BY <1>1 DEF Region
  <2>2. R[i].base .. (R[i].end - 1) \subseteq Regions[i].base .. (Regions[i].end - 1)
    BY <1>0, <1>2, <2>1
  <2>3. Regions[i].base .. (Regions[i].end - 1) \subseteq Addresses
    BY DEF Addresses
  <2>4. Regions[i].base % PageSize = 0
    BY RegionsAscend
  <2>5. walk.low % PageSize = 0 => R[i].base % PageSize = 0
    BY <1>2, <2>4
  <2> HIDE DEF R
  <2> QED
    BY <1>2, <1>5, <2>2, <2>3, <2>5 DEF SoundRegion
<1>6. ASSUME NEW i \in D, NEW j \in D, i < j, R[i].base < R[i].end, R[j].base < R[j].end
      PROVE  R[i].end <= R[j].base
  <2>1. /\ Regions[i].base \in Nat /\ Regions[i].end \in Nat
        /\ Regions[j].base \in Nat /\ Regions[j].end \in Nat
    BY <1>1 DEF Region
  <2>2. Regions[i].end <= Regions[j].base
    BY <1>6, RegionsAscend
  <2> QED
    BY <1>0, <1>2, <2>1, <2>2
<1>7. \A i, j \in D : i = j \/ i < j \/ j < i
  <2>1. Regions \in Seq(Region)
    BY RegionsAscend DEF Region
  <2>2. D = 1 .. Len(Regions) /\ Len(Regions) \in Nat
    BY <2>1
  <2> QED
    BY <2>2
<1> HIDE DEF A, R, D
<1> QED
  BY <1>3, <1>4, <1>5, <1>6, <1>7 DEF A

\* A part of a region that a walk reads in one piece.
ChunkSet(walk) == UNION {ChunksOf(r) : r \in Allowed(walk)}

Ahead(c, d) == c.base + Primary(c) <= d.base

(* The chunks of a walk are finitely many parts of its regions, one after the other. *)
LEMMA ChunkSetIs ==
    ASSUME NEW walk \in WalkType
    PROVE  /\ IsFiniteSet(ChunkSet(walk))
           /\ \A c \in ChunkSet(walk) :
                /\ SoundChunk(c)
                /\ walk.low % PageSize = 0 => c.base % PageSize = 0
                /\ \E r \in Allowed(walk) : r.base <= c.base /\ c.end = r.end
           /\ \A c, d \in ChunkSet(walk) : c = d \/ Ahead(c, d) \/ Ahead(d, c)
<1>1. /\ IsFiniteSet(Allowed(walk))
      /\ \A r \in Allowed(walk) : SoundRegion(r, walk)
      /\ \A r, s \in Allowed(walk) : r = s \/ r.end <= s.base \/ s.end <= r.base
  BY AllowedAre
<1>2. ASSUME NEW r \in Allowed(walk), NEW c \in ChunksOf(r)
      PROVE  /\ SoundChunk(c) /\ r.base <= c.base /\ c.end = r.end
             /\ c.base \in Steps(r.base, r.end, ChunkSize)
             /\ walk.low % PageSize = 0 => c.base % PageSize = 0
             /\ c = [base |-> c.base, end |-> c.end]
  <2>1. r \in Region /\ r.base < r.end /\ r.base .. (r.end - 1) \subseteq Addresses
    BY <1>1 DEF SoundRegion
  <2>2. r.base \in Nat /\ r.end \in Nat
    BY <2>1 DEF Region
  <2>3. PICK a \in Steps(r.base, r.end, ChunkSize) : c = [base |-> a, end |-> r.end]
    BY DEF ChunksOf
  <2>4. a \in Nat /\ r.base <= a /\ a < r.end /\ (a - r.base) % ChunkSize = 0
    BY <2>2 DEF Steps
  <2>5. SoundChunk(c)
    BY <2>1, <2>2, <2>3, <2>4 DEF SoundChunk, Chunk
  <2>6. ASSUME walk.low % PageSize = 0 PROVE a % PageSize = 0
    <3>1. r.base % PageSize = 0
      BY <1>1, <2>6 DEF SoundRegion
    <3>2. a - r.base \in Nat /\ a = r.base + (a - r.base)
      BY <2>2, <2>4
    <3>3. (a - r.base) % PageSize = 0
      BY <2>4, <3>2, WalkSizes, MultiplesNest
    <3> QED
      BY <2>2, <3>1, <3>2, <3>3, WalkSizes, MultiplesAdd
  <2> QED
    BY <2>3, <2>4, <2>5, <2>6
<1>3. \A c \in ChunkSet(walk) : \E r \in Allowed(walk) : c \in ChunksOf(r)
  BY DEF ChunkSet
<1>4. IsFiniteSet(ChunkSet(walk))
  <2>1. ASSUME NEW r \in Allowed(walk) PROVE IsFiniteSet(ChunksOf(r))
    <3>1. r.base \in Nat /\ r.end \in Nat
      BY <1>1 DEF SoundRegion, Region
    <3> DEFINE S == Steps(r.base, r.end, ChunkSize)
               f == [a \in S |-> [base |-> a, end |-> r.end]]
    <3>2. IsFiniteSet(S)
      <4>1. S \in SUBSET (r.base .. (r.end - 1)) /\ r.end - 1 \in Int
        BY <3>1 DEF Steps
      <4>2. IsFiniteSet(r.base .. (r.end - 1))
        <5>1. r.base \in Int /\ r.end - 1 \in Int
          BY <3>1
        <5> QED
          BY <5>1, FS_Interval
      <4> QED
        BY <4>1, <4>2, FS_Subset
    <3> HIDE DEF S
    <3>3. ChunksOf(r) = {f[a] : a \in S}
      BY DEF ChunksOf, S
    <3>4. f \in [S -> ChunksOf(r)] /\ \A c \in ChunksOf(r) : \E a \in S : f[a] = c
      BY <3>3
    <3>5. f \in Surjection(S, ChunksOf(r))
      BY <3>4 DEF Surjection
    <3> QED
      BY <3>2, <3>5, FS_Surjection, Zenon
  <2> DEFINE P == {ChunksOf(r) : r \in Allowed(walk)}
             g == [r \in Allowed(walk) |-> ChunksOf(r)]
  <2>2. g \in Surjection(Allowed(walk), P)
    BY DEF Surjection
  <2>3. IsFiniteSet(P)
    BY <1>1, <2>2, FS_Surjection, Zenon
  <2>4. \A Q \in P : IsFiniteSet(Q)
    BY <2>1
  <2> HIDE DEF P
  <2>5. IsFiniteSet(UNION P)
    BY <2>3, <2>4, FS_UNION, Zenon
  <2> QED
    BY <2>5 DEF P, ChunkSet
<1>5. ASSUME NEW c \in ChunkSet(walk), NEW d \in ChunkSet(walk), c # d PROVE Ahead(c, d) \/ Ahead(d, c)
  <2>1. PICK r \in Allowed(walk) : c \in ChunksOf(r)
    BY <1>3
  <2>2. PICK s \in Allowed(walk) : d \in ChunksOf(s)
    BY <1>3
  <2>3. SoundChunk(c) /\ SoundChunk(d) /\ c.end = r.end /\ d.end = s.end /\ r.base <= c.base /\ s.base <= d.base
    BY <1>2, <2>1, <2>2
  <2>4. /\ c.base \in Nat /\ c.end \in Nat /\ d.base \in Nat /\ d.end \in Nat
        /\ r.base \in Nat /\ s.base \in Nat
    BY <1>1, <2>3 DEF SoundChunk, Chunk, SoundRegion, Region
  <2>5. /\ Primary(c) \in Nat /\ Primary(c) <= ChunkSize /\ c.base + Primary(c) <= c.end
        /\ Primary(d) \in Nat /\ Primary(d) <= ChunkSize /\ d.base + Primary(d) <= d.end
    BY <2>3, PrimaryIs
  <2>6. CASE r # s
    <3>1. r.end <= s.base \/ s.end <= r.base
      BY <1>1, <2>6
    <3> QED
      BY <2>3, <2>4, <2>5, <3>1 DEF Ahead
  <2>7. CASE r = s
    <3>1. c.base \in Steps(r.base, r.end, ChunkSize) /\ d.base \in Steps(r.base, r.end, ChunkSize)
      BY <1>2, <2>1, <2>2, <2>7
    <3>2. c.base # d.base
      <4>1. c = [base |-> c.base, end |-> c.end] /\ d = [base |-> d.base, end |-> d.end]
        BY <1>2, <2>1, <2>2
      <4> QED
        BY <4>1, <1>5, <2>3, <2>7, Zenon
    <3>3. r.end \in Int /\ ChunkSize \in Nat \ {0}
      BY <2>3, <2>4, WalkSizes
    <3>4. c.base < d.base => c.base + ChunkSize <= d.base
      BY <2>4, <3>1, <3>3, StepsApart
    <3>5. d.base < c.base => d.base + ChunkSize <= c.base
      BY <2>4, <3>1, <3>3, StepsApart
    <3> QED
      BY <2>4, <2>5, <3>2, <3>3, <3>4, <3>5 DEF Ahead
  <2> QED
    BY <2>6, <2>7
<1>6. \A c \in ChunkSet(walk) :
          /\ SoundChunk(c)
          /\ walk.low % PageSize = 0 => c.base % PageSize = 0
          /\ \E r \in Allowed(walk) : r.base <= c.base /\ c.end = r.end
  BY <1>2, <1>3
<1> QED
  BY <1>4, <1>5, <1>6

\* s has each member of S once, from the lowest base upwards.
Climbs(s, S) ==
    /\ s \in Seq(S) /\ \A i \in 1 .. Len(s) : s[i] \in S
    /\ \A i, j \in 1 .. Len(s) : i < j => s[i].base < s[j].base
    /\ \A c \in S : \E i \in 1 .. Len(s) : s[i] = c

(* A list by base has each member once, in that order. *)
LEMMA ClimbsIs ==
    ASSUME NEW S, IsFiniteSet(S), \A c \in S : c.base \in Nat,
           \A c, d \in S : c = d \/ c.base < d.base \/ d.base < c.base,
           NEW s, s = [i \in 1 .. Cardinality(S) |-> CHOOSE c \in S : Cardinality({d \in S : Lower(d, c)}) = i - 1]
    PROVE  Climbs(s, S)
<1> DEFINE R == {p \in S \X S : Lower(p[1], p[2])}
<1>1. \A c, d \in S : <<c, d>> \in R <=> c.base < d.base
  BY DEF Lower
<1>2. \A c \in S : {d \in S : Lower(d, c)} = {d \in S : <<d, c>> \in R}
  BY <1>1 DEF Lower
<1> HIDE DEF R
<1>3. Orders(R, S)
  BY <1>1 DEF Orders
<1>4. s = ListOf(S, R)
  <2>1. \A i \in 1 .. Cardinality(S) :
          (CHOOSE c \in S : Cardinality({d \in S : Lower(d, c)}) = i - 1)
          = CHOOSE c \in S : Cardinality({d \in S : <<d, c>> \in R}) = i - 1
    BY <1>2
  <2> HIDE DEF R
  <2>2. ListOf(S, R) = [i \in 1 .. Cardinality(S) |->
            CHOOSE c \in S : Cardinality({d \in S : <<d, c>> \in R}) = i - 1]
    BY DEF ListOf
  <2> QED
    BY <2>1, <2>2, Zenon
<1>5. ListsOnce(ListOf(S, R), S, R)
  BY <1>3, ListIs
<1>6. ListsOnce(s, S, R)
  BY <1>4, <1>5
<1> QED
  BY <1>1, <1>6 DEF ListsOnce, Climbs

(* The list of chunks has each chunk of the walk once, in order. *)
LEMMA ChunksAre ==
    ASSUME NEW walk \in WalkType
    PROVE  Climbs(Chunks(walk), ChunkSet(walk))
<1> DEFINE S == ChunkSet(walk)
           s == Chunks(walk)
<1>1. /\ IsFiniteSet(S) /\ \A c \in S : SoundChunk(c)
      /\ \A c, d \in S : c = d \/ Ahead(c, d) \/ Ahead(d, c)
  BY ChunkSetIs
<1>2. \A c \in S : c.base \in Nat /\ Primary(c) \in Nat \ {0}
  BY <1>1, PrimaryIs DEF SoundChunk, Chunk
<1>3. s = [i \in 1 .. Cardinality(S) |-> CHOOSE c \in S : Cardinality({d \in S : Lower(d, c)}) = i - 1]
  BY DEF Chunks, OrderedBy, ChunkSet
<1> HIDE DEF S, s
<1>4. \A c, d \in S : c = d \/ c.base < d.base \/ d.base < c.base
  BY <1>1, <1>2 DEF Ahead
<1>5. Climbs(s, S)
  BY <1>1, <1>2, <1>3, <1>4, ClimbsIs
<1> QED
  BY <1>5 DEF S, s

(* Every address of a region that is walked is in the own part of a chunk. *)
LEMMA ChunkFor ==
    ASSUME NEW walk \in WalkType, NEW r \in Allowed(walk), NEW a \in r.base .. (r.end - 1)
    PROVE  \E c \in ChunkSet(walk) : c.end = r.end /\ c.base <= a /\ a < c.base + Primary(c)
<1>1. r.base \in Nat /\ r.end \in Nat
  BY AllowedAre DEF SoundRegion, Region
<1>2. PICK x \in Steps(r.base, r.end, ChunkSize) : x <= a /\ a < x + ChunkSize
  <2>1. r.base \in Nat /\ r.end \in Int /\ ChunkSize \in Nat \ {0}
    BY <1>1, WalkSizes
  <2> QED
    BY <2>1, StepsCover, Zenon
<1> DEFINE c == [base |-> x, end |-> r.end]
<1>3. c \in ChunkSet(walk)
  BY DEF ChunkSet, ChunksOf
<1>4. SoundChunk(c)
  BY <1>3, ChunkSetIs
<1>5. Primary(c) \in Nat /\ (c.base + Primary(c) = c.end \/ Primary(c) = ChunkSize)
  BY <1>4, PrimaryIs
<1>6. x \in Nat /\ c.base = x /\ c.end = r.end
  BY <1>1 DEF Steps
<1> HIDE DEF c
<1>7. a < c.base + Primary(c)
  BY <1>1, <1>2, <1>5, <1>6, WalkSizes
<1> QED
  BY <1>2, <1>3, <1>6, <1>7

-----------------------------------------------------------------------------
(* The reads of a chunk. *)

ReadSet(c, overlap) ==
    LET large == Visit(c.base, Primary(c), c.end, overlap)
        small == IF large.size < Primary(c) THEN Retries(c, large.size, overlap) ELSE {}
    IN  {v \in {large} \cup small : v.size > 0}

(* What a read delivers, and how many of its bytes are looked at.                         *)
LEMMA VisitIs ==
    ASSUME NEW at \in Nat, NEW own \in Nat \ {0}, NEW end \in Nat, at + own <= end, NEW overlap \in Nat,
           NEW v, v = Visit(at, own, end, overlap)
    PROVE  \E n \in Nat : /\ n = (IF end - at <= own + overlap THEN end - at ELSE own + overlap)
                          /\ v.size = Arrive(at, n) /\ v.size \in 0 .. n
                          /\ v.base = at /\ v.starts = (IF own <= v.size THEN own ELSE v.size)
                          /\ v = [base |-> v.base, size |-> v.size, starts |-> v.starts]
<1> DEFINE n == IF end - at <= own + overlap THEN end - at ELSE own + overlap
<1>1. n \in Nat /\ Least({end - at, own + overlap}) = n
  BY LeastOfTwo
<1> HIDE DEF n
<1>2. Arrive(at, n) \in 0 .. n
  BY <1>1, ArriveIs
<1>3. v = [base |-> at, size |-> Arrive(at, n), starts |-> Least({own, Arrive(at, n)})]
  BY <1>1 DEF Visit
<1>4. v.base = at /\ v.size = Arrive(at, n) /\ v.starts = Least({own, Arrive(at, n)})
  BY <1>3
<1>5. v.starts = IF own <= v.size THEN own ELSE v.size
  BY <1>2, <1>4, LeastOfTwo
<1> QED
  BY <1>1, <1>2, <1>3, <1>4, <1>5 DEF n

\* A read of chunk c: bytes in reach, some of which are looked at, all of them the chunk's own.
SoundRead(v, c) ==
    /\ v.base \in Nat /\ v.size \in Nat \ {0} /\ v.starts \in Nat \ {0} /\ v.starts <= v.size
    /\ c.base <= v.base /\ v.base + v.starts <= c.base + Primary(c) /\ v.base + v.size <= c.end
    /\ \A k \in 0 .. (v.size - 1) : InReach(v.base + k)

(* One page more. *)
LEMMA RetryIs ==
    ASSUME NEW c, SoundChunk(c), NEW overlap \in Nat, NEW from \in Nat,
           NEW o \in Steps(from, Primary(c), PageSize)
    PROVE  /\ o \in Nat /\ from <= o /\ o < Primary(c)
           /\ Least({PageSize, Primary(c) - o}) \in Nat \ {0}
           /\ Least({PageSize, Primary(c) - o}) = IF PageSize <= Primary(c) - o THEN PageSize ELSE Primary(c) - o
           /\ c.base + o \in Nat
           /\ (c.base + o) + Least({PageSize, Primary(c) - o}) <= c.end
<1>1. Primary(c) \in Nat \ {0} /\ c.base + Primary(c) <= c.end /\ c.base \in Nat /\ c.end \in Nat
  BY PrimaryIs DEF SoundChunk, Chunk
<1>2. o \in Nat /\ from <= o /\ o < Primary(c)
  BY <1>1 DEF Steps
<1>3. PageSize \in Nat \ {0}
  BY WalkSizes
<1>4. Least({PageSize, Primary(c) - o}) = IF PageSize <= Primary(c) - o THEN PageSize ELSE Primary(c) - o
  BY <1>1, <1>2, <1>3, LeastOfTwo
<1> QED
  BY <1>1, <1>2, <1>3, <1>4

(* A visit that delivers something within a chunk is a sound read of it. *)
LEMMA VisitSound ==
    ASSUME NEW c, SoundChunk(c), NEW overlap \in Nat, NEW at \in Nat, NEW own \in Nat \ {0},
           c.base <= at, at + own <= c.base + Primary(c),
           NEW v, v = Visit(at, own, c.end, overlap), v.size > 0
    PROVE  SoundRead(v, c) /\ v.base = at /\ v.starts <= own /\ (v.size < own => v.starts = v.size)
<1>1. /\ Primary(c) \in Nat \ {0} /\ c.base + Primary(c) <= c.end /\ c.base \in Nat /\ c.end \in Nat
      /\ at + own <= c.end
  BY PrimaryIs DEF SoundChunk, Chunk
<1>2. PICK n \in Nat : /\ n = (IF c.end - at <= own + overlap THEN c.end - at ELSE own + overlap)
                       /\ v.size = Arrive(at, n) /\ v.size \in 0 .. n
                       /\ v.base = at /\ v.starts = (IF own <= v.size THEN own ELSE v.size)
  BY <1>1, VisitIs
<1>3. \A k \in 0 .. (v.size - 1) : InReach(at + k)
  BY <1>2, ArriveIs
<1>4. v.size \in Nat \ {0} /\ v.starts \in Nat \ {0} /\ v.starts <= v.size /\ v.starts <= own /\ at + v.size <= c.end
  BY <1>1, <1>2
<1>5. v.base + v.starts <= c.base + Primary(c)
  BY <1>1, <1>2, <1>4
<1>6. v.size < own => v.starts = v.size
  BY <1>2, <1>4
<1> QED
  BY <1>1, <1>2, <1>3, <1>4, <1>5, <1>6 DEF SoundRead

(* The reads of a chunk are finitely many, sound, and look at different bytes. *)
LEMMA ReadsAre ==
    ASSUME NEW c, SoundChunk(c), NEW overlap \in Nat
    PROVE  /\ IsFiniteSet(ReadSet(c, overlap))
           /\ \A v \in ReadSet(c, overlap) : SoundRead(v, c)
           /\ \A v, w \in ReadSet(c, overlap) :
                 v = w \/ v.base + v.starts <= w.base \/ w.base + w.starts <= v.base
<1> DEFINE large == Visit(c.base, Primary(c), c.end, overlap)
           S == Steps(large.size, Primary(c), PageSize)
           own(o) == Least({PageSize, Primary(c) - o})
           page(o) == Visit(c.base + o, own(o), c.end, overlap)
           small == IF large.size < Primary(c) THEN Retries(c, large.size, overlap) ELSE {}
           V == ReadSet(c, overlap)
<1>1. Primary(c) \in Nat \ {0} /\ c.base + Primary(c) <= c.end /\ c.base \in Nat /\ c.end \in Nat
  BY PrimaryIs DEF SoundChunk, Chunk
<1>2. large.size \in Nat /\ large.base = c.base
  BY <1>1, VisitIs
<1>3. V = {v \in {large} \cup small : v.size > 0}
  BY DEF ReadSet
<1>4. Retries(c, large.size, overlap) = {page(o) : o \in S}
  BY DEF Retries
<1>5. ASSUME NEW o \in S
      PROVE  /\ o \in Nat /\ large.size <= o /\ o < Primary(c) /\ own(o) \in Nat \ {0} /\ own(o) <= PageSize
             /\ c.base + o \in Nat /\ c.base <= c.base + o /\ c.base + o + own(o) <= c.base + Primary(c)
  <2>1. /\ o \in Nat /\ large.size <= o /\ o < Primary(c) /\ own(o) \in Nat \ {0} /\ c.base + o \in Nat
        /\ own(o) = IF PageSize <= Primary(c) - o THEN PageSize ELSE Primary(c) - o
    <3> DEFINE from == large.size
    <3>1. from \in Nat /\ o \in Steps(from, Primary(c), PageSize)
      BY <1>2
    <3> HIDE DEF from
    <3>2. /\ o \in Nat /\ from <= o
          /\ o < Primary(c) /\ own(o) \in Nat \ {0} /\ c.base + o \in Nat
          /\ own(o) = IF PageSize <= Primary(c) - o THEN PageSize ELSE Primary(c) - o
      BY <3>1, RetryIs
    <3> QED
      BY <3>2 DEF from
  <2>2. PageSize \in Nat
    BY WalkSizes
  <2> HIDE DEF large, own
  <2> QED
    BY <1>1, <2>1, <2>2
<1>6. ASSUME large.size > 0
      PROVE  SoundRead(large, c) /\ large.base = c.base
             /\ (large.size < Primary(c) => large.starts = large.size)
  <2>1. c.base <= c.base /\ c.base + Primary(c) <= c.base + Primary(c)
    BY <1>1
  <2> QED
    BY <1>1, <1>6, <2>1, VisitSound
<1>7. ASSUME NEW o \in S, page(o).size > 0
      PROVE  SoundRead(page(o), c) /\ page(o).base = c.base + o /\ page(o).starts <= own(o)
  <2> HIDE DEF large, S, own
  <2> DEFINE at == c.base + o
             v == page(o)
  <2>1. at \in Nat /\ own(o) \in Nat \ {0} /\ c.base <= at /\ at + own(o) <= c.base + Primary(c)
    BY <1>5
  <2>2. v = Visit(at, own(o), c.end, overlap) /\ v.size > 0
    BY <1>7
  <2> HIDE DEF at, v
  <2>3. SoundRead(v, c) /\ v.base = at /\ v.starts <= own(o)
    BY <2>1, <2>2, VisitSound
  <2> QED
    BY <2>3 DEF at, v
<1> HIDE DEF own, large, V
<1>8. ASSUME NEW v \in V
      PROVE  \/ v = large /\ large.size > 0
             \/ large.size < Primary(c) /\ \E o \in S : v = page(o) /\ page(o).size > 0
  <2> HIDE DEF page, S
  <2> QED
    BY <1>3, <1>4
<1>9. \A v \in V : SoundRead(v, c)
  BY <1>6, <1>7, <1>8
<1>10. ASSUME NEW o \in S, NEW p \in S, o < p, page(o).size > 0, page(p).size > 0
       PROVE  page(o).base + page(o).starts <= page(p).base
  <2>1. o + PageSize <= p
    <3>1. Primary(c) \in Int /\ PageSize \in Nat \ {0} /\ large.size \in Nat
      BY <1>1, <1>2, WalkSizes
    <3> QED
      BY <1>10, <3>1, StepsApart
  <2>2. page(o).base = c.base + o /\ page(o).starts <= own(o) /\ page(p).base = c.base + p
    BY <1>7, <1>10
  <2>3. page(o).starts \in Nat
    BY <1>7, <1>10 DEF SoundRead
  <2>4. o \in Nat /\ p \in Nat /\ own(o) \in Nat /\ own(o) <= PageSize /\ PageSize \in Nat
    BY <1>5, WalkSizes
  <2> HIDE DEF page
  <2> QED
    BY <1>1, <2>1, <2>2, <2>3, <2>4
<1>11. ASSUME NEW o \in S, large.size > 0, large.size < Primary(c), page(o).size > 0
       PROVE  large.base + large.starts <= page(o).base
  <2>1. large.base = c.base /\ large.starts = large.size
    BY <1>6, <1>11
  <2>2. page(o).base = c.base + o /\ large.size <= o /\ o \in Nat
    BY <1>5, <1>7, <1>11
  <2> HIDE DEF page
  <2> QED
    BY <1>1, <1>2, <2>1, <2>2
<1>12. ASSUME NEW v \in V, NEW w \in V, v # w
       PROVE  v.base + v.starts <= w.base \/ w.base + w.starts <= v.base
  <2>1. CASE v = large \/ w = large
    <3> HIDE DEF page, S
    <3> QED
      BY <1>8, <1>11, <1>12, <2>1
  <2>2. CASE v # large /\ w # large
    <3>1. PICK o \in S : v = page(o) /\ page(o).size > 0
      BY <1>8, <2>2
    <3>2. PICK p \in S : w = page(p) /\ page(p).size > 0
      BY <1>8, <2>2
    <3>3. o \in Nat /\ p \in Nat /\ o # p
      BY <1>5, <1>12, <3>1, <3>2
    <3>4. o < p \/ p < o
      BY <3>3
    <3> HIDE DEF page, S
    <3> QED
      BY <1>10, <3>1, <3>2, <3>4
  <2> QED
    BY <2>1, <2>2
<1>13. IsFiniteSet(V)
  <2>1. IsFiniteSet(S)
    <3>1. large.size \in Int /\ Primary(c) - 1 \in Int
      BY <1>1, <1>2
    <3>2. IsFiniteSet(large.size .. (Primary(c) - 1))
      BY <3>1, FS_Interval
    <3>3. S \in SUBSET (large.size .. (Primary(c) - 1))
      BY DEF Steps
    <3> QED
      BY <3>2, <3>3, FS_Subset
  <2> DEFINE f == [o \in S |-> page(o)]
             P == {page(o) : o \in S}
  <2>2. f \in [S -> P] /\ \A q \in P : \E o \in S : f[o] = q
    <3> HIDE DEF page, S
    <3>1. \A o \in S : f[o] = page(o) /\ page(o) \in P
      OBVIOUS
    <3>2. \A q \in P : \E o \in S : q = page(o)
      OBVIOUS
    <3>3. f \in [S -> P]
      BY <3>1
    <3>4. \A q \in P : \E o \in S : f[o] = q
      <4> HIDE DEF f, P
      <4> QED
        BY <3>1, <3>2, Zenon
    <3> QED
      BY <3>3, <3>4
  <2>3. f \in Surjection(S, P)
    BY <2>2 DEF Surjection
  <2>4. IsFiniteSet(P)
    <3> HIDE DEF f, P, S, page
    <3> QED
      BY <2>1, <2>3, FS_Surjection, Zenon
  <2>5. IsFiniteSet({large}) /\ IsFiniteSet({large} \cup P)
    BY <2>4, FS_Singleton, FS_Union
  <2>6. V \in SUBSET ({large} \cup P)
    <3> HIDE DEF page, S
    <3> QED
      BY <1>8
  <2> QED
    BY <2>5, <2>6, FS_Subset
<1> QED
  BY <1>9, <1>12, <1>13 DEF V

(* The list of reads of a chunk has each of them once, in order. *)
LEMMA VisitsAre ==
    ASSUME NEW c, SoundChunk(c), NEW overlap \in Nat
    PROVE  Climbs(Visits(c, overlap), ReadSet(c, overlap))
<1> DEFINE S == ReadSet(c, overlap)
           s == Visits(c, overlap)
<1>1. /\ IsFiniteSet(S) /\ \A v \in S : SoundRead(v, c)
      /\ \A v, w \in S : v = w \/ v.base + v.starts <= w.base \/ w.base + w.starts <= v.base
  BY ReadsAre
<1>2. \A v \in S : v.base \in Nat /\ v.starts \in Nat \ {0}
  BY <1>1 DEF SoundRead
<1>3. s = [i \in 1 .. Cardinality(S) |-> CHOOSE v \in S : Cardinality({w \in S : Lower(w, v)}) = i - 1]
  BY DEF Visits, OrderedBy, ReadSet
<1> HIDE DEF S, s
<1>4. \A v, w \in S : v = w \/ v.base < w.base \/ w.base < v.base
  BY <1>1, <1>2
<1>5. Climbs(s, S)
  BY <1>1, <1>2, <1>3, <1>4, ClimbsIs
<1> QED
  BY <1>5 DEF S, s

\* What a walk hides nothing of, chunk by chunk.
Open(c) == lost = {} \/ (partial /\ c.base % PageSize = 0)

(* Of a chunk some read looks at each place of its own that is in reach, and has as many    *)
(* bytes after it as the overlap allows for when they are in reach as well.                 *)
LEMMA ReadFor ==
    ASSUME NEW c, SoundChunk(c), NEW overlap \in Nat, Open(c), lost \in SUBSET Pages,
           NEW a \in Nat, c.base <= a, a < c.base + Primary(c),
           NEW len \in Nat \ {0}, len <= overlap + 1, a + len <= c.end,
           \A k \in 0 .. (len - 1) : InReach(a + k)
    PROVE  \E v \in ReadSet(c, overlap) :
              v.base <= a /\ a < v.base + v.starts /\ a + len <= v.base + v.size
<1> DEFINE own == Primary(c)
           large == Visit(c.base, own, c.end, overlap)
           n == IF c.end - c.base <= own + overlap THEN c.end - c.base ELSE own + overlap
<1>1. /\ own \in Nat \ {0} /\ c.base + own <= c.end /\ c.base \in Nat /\ c.end \in Nat
      /\ c.base .. (c.end - 1) \subseteq Addresses
  BY PrimaryIs DEF SoundChunk, Chunk
<1>2. /\ n \in Nat /\ large.size = Arrive(c.base, n) /\ large.size \in 0 .. n
      /\ large.base = c.base /\ large.starts = (IF own <= large.size THEN own ELSE large.size)
  BY <1>1, VisitIs
<1>3. /\ \A k \in 0 .. (large.size - 1) : InReach(c.base + k)
      /\ partial /\ large.size < n => ~InReach(c.base + large.size)
      /\ (\A k \in 0 .. (n - 1) : InReach(c.base + k)) => large.size = n
  <2>1. n \in Nat /\ c.base \in Nat
    BY <1>1, <1>2
  <2>2. large.size = Arrive(c.base, n)
    BY <1>2
  <2> HIDE DEF n, large
  <2>3. /\ \A k \in 0 .. (Arrive(c.base, n) - 1) : InReach(c.base + k)
        /\ partial /\ Arrive(c.base, n) < n => ~InReach(c.base + Arrive(c.base, n))
        /\ (\A k \in 0 .. (n - 1) : InReach(c.base + k)) => Arrive(c.base, n) = n
    BY <2>1, ArriveIs
  <2> QED
    BY <2>2, <2>3
<1>4. PageSize \in Nat \ {0}
  BY WalkSizes
<1>5. (a - c.base) + len <= n
  BY <1>1
<1> DEFINE small == IF large.size < own THEN Retries(c, large.size, overlap) ELSE {}
<1>6. ReadSet(c, overlap) = {v \in {large} \cup small : v.size > 0}
  BY DEF ReadSet
<1>7. CASE a < c.base + large.size
  <2>1. a + len <= c.base + large.size
    <3> SUFFICES ASSUME c.base + large.size < a + len PROVE FALSE
      BY <1>1, <1>2
    <3>1. large.size < n /\ large.size \in Nat
      BY <1>1, <1>2, <1>5
    <3> DEFINE k == c.base + large.size - a
    <3>2. k \in 0 .. (len - 1) /\ a + k = c.base + large.size
      BY <1>1, <1>7, <3>1
    <3>3. InReach(c.base + large.size)
      BY <3>2
    <3>4. ~partial
      BY <1>3, <3>1, <3>3
    <3>5. lost = {}
      BY <3>4 DEF Open
    <3>6. \A q \in 0 .. (n - 1) : InReach(c.base + q)
      <4>1. \A q \in 0 .. (n - 1) : c.base + q \in c.base .. (c.end - 1)
        BY <1>1, <1>2
      <4> QED
        BY <1>1, <3>5, <4>1 DEF InReach
    <3> QED
      BY <1>2, <1>3, <3>1, <3>6
  <2>2. large \in ReadSet(c, overlap)
    <3> HIDE DEF large
    <3>1. large.size > 0
      BY <1>1, <1>2, <1>7
    <3> QED
      BY <1>6, <3>1
  <2>3. large.base <= a /\ a < large.base + large.starts /\ a + len <= large.base + large.size
    <3> HIDE DEF large
    <3> QED
      BY <1>1, <1>2, <1>7, <2>1
  <2> HIDE DEF large
  <2> QED
    BY <2>2, <2>3
<1>8. CASE c.base + large.size <= a
  <2> DEFINE from == large.size
  <2>1. from \in Nat /\ from < own /\ from < n /\ from <= a - c.base
    BY <1>1, <1>2, <1>5, <1>8
  <2>2. partial /\ c.base % PageSize = 0
    <3> SUFFICES ASSUME lost = {} PROVE FALSE
      BY DEF Open
    <3>1. \A q \in 0 .. (n - 1) : InReach(c.base + q)
      <4>1. \A q \in 0 .. (n - 1) : c.base + q \in c.base .. (c.end - 1)
        BY <1>1, <1>2
      <4> QED
        BY <1>1, <4>1 DEF InReach
    <3> QED
      BY <1>2, <1>3, <2>1, <3>1
  <2>3. (c.base + from) % PageSize = 0
    <3>1. CASE from = 0
      BY <1>1, <2>2, <3>1
    <3>2. CASE from # 0
      <4> DEFINE b == c.base + (from - 1)
      <4>1. b \in Nat /\ b + 1 = c.base + from
        BY <1>1, <2>1, <3>2
      <4>2. InReach(b)
        <5>1. from - 1 \in 0 .. (from - 1)
          BY <2>1, <3>2
        <5> QED
          BY <1>3, <5>1
      <4>3. ~InReach(b + 1)
        BY <1>3, <2>1, <2>2, <4>1
      <4>4. b + 1 \in Addresses
        <5>1. b + 1 \in c.base .. (c.end - 1)
          BY <1>1, <2>1, <4>1
        <5> QED
          BY <1>1, <5>1
      <4>5. b \div PageSize # (b + 1) \div PageSize
        BY <4>2, <4>3, <4>4 DEF InReach
      <4>6. (b + 1) % PageSize = 0
        <5> HIDE DEF b
        <5> QED
          BY <1>4, <4>1, <4>5, PageBegins
      <4> QED
        BY <4>1, <4>6
    <3> QED
      BY <3>1, <3>2
  <2> HIDE DEF from, n, own, large
  <2>4. PICK o \in Steps(from, own, PageSize) : o <= a - c.base /\ a - c.base < o + PageSize
    <3>1. from \in Nat /\ own \in Int /\ a - c.base \in from .. (own - 1)
      BY <1>1, <2>1 DEF own
    <3> QED
      BY <1>4, <3>1, StepsCover, Zenon
  <2> DEFINE at == c.base + o
             mine == Least({PageSize, Primary(c) - o})
             v == Visit(at, mine, c.end, overlap)
             m == IF c.end - at <= mine + overlap THEN c.end - at ELSE mine + overlap
  <2>5. /\ o \in Nat /\ from <= o /\ o < own /\ mine \in Nat \ {0}
        /\ mine = (IF PageSize <= own - o THEN PageSize ELSE own - o)
        /\ at \in Nat /\ at + mine <= c.end
    BY <2>1, <2>4, RetryIs DEF own
  <2> HIDE DEF mine
  <2>6. /\ m \in Nat /\ v.size = Arrive(at, m) /\ v.size \in 0 .. m
        /\ v.base = at /\ v.starts = (IF mine <= v.size THEN mine ELSE v.size)
    <3> HIDE DEF at
    <3> QED
      BY <1>1, <2>5, VisitIs
  <2>7. partial /\ v.size < m => ~InReach(at + v.size)
    <3>1. at \in Nat /\ m \in Nat /\ v.size = Arrive(at, m)
      BY <2>5, <2>6
    <3> HIDE DEF at, m, v
    <3>2. partial /\ Arrive(at, m) < m => ~InReach(at + Arrive(at, m))
      BY <3>1, ArriveIs
    <3> QED
      BY <3>1, <3>2
  <2>8. at % PageSize = 0
    <3>1. o - from \in Nat /\ (o - from) % PageSize = 0
      BY <2>1, <2>4, <2>5 DEF Steps
    <3>2. ((c.base + from) + (o - from)) % PageSize = 0
      <4> DEFINE x == c.base + from
                 y == o - from
      <4>1. x \in Nat /\ y \in Nat /\ x % PageSize = 0 /\ y % PageSize = 0
        BY <1>1, <2>1, <2>3, <3>1
      <4> HIDE DEF x, y
      <4>2. (x + y) % PageSize = 0
        BY <1>4, <4>1, MultiplesAdd
      <4> QED
        BY <4>2 DEF x, y
    <3>3. (c.base + from) + (o - from) = at
      BY <1>1, <2>1, <2>5
    <3> QED
      BY <3>2, <3>3
  <2>9. at <= a /\ a < at + mine /\ (a - at) + len <= m
    BY <1>1, <2>4, <2>5, <1>8 DEF own
  <2>10. ASSUME NEW x \in Nat, at <= x, x < a + len PROVE InReach(x)
    <3>1. CASE a <= x
      <4>1. x - a \in 0 .. (len - 1) /\ a + (x - a) = x
        BY <2>10, <3>1
      <4> QED
        BY <4>1
    <3>2. CASE x < a
      <4>1. x < at + PageSize /\ a < at + PageSize
        BY <1>1, <2>4, <2>5, <2>10, <3>2
      <4>2. a \div PageSize = at \div PageSize
        <5> HIDE DEF at
        <5> QED
          BY <1>4, <2>5, <2>8, <2>9, <4>1, SamePage
      <4>3. x \div PageSize = at \div PageSize
        <5> HIDE DEF at
        <5> QED
          BY <1>4, <2>5, <2>8, <2>10, <4>1, SamePage
      <4>4. InReach(a)
        <5>1. 0 \in 0 .. (len - 1) /\ a + 0 = a
          OBVIOUS
        <5> QED
          BY <5>1
      <4>5. x \in Addresses
        <5>1. x \in c.base .. (c.end - 1)
          BY <1>1, <2>5, <2>10, <3>2
        <5> QED
          BY <1>1, <5>1
      <4> QED
        BY <4>2, <4>3, <4>4, <4>5 DEF InReach
    <3> QED
      BY <2>10, <3>1, <3>2
  <2>11. a + len <= at + v.size
    <3> SUFFICES ASSUME at + v.size < a + len PROVE FALSE
      BY <2>5, <2>6
    <3> HIDE DEF at
    <3>1. v.size < m /\ at + v.size \in Nat /\ at <= at + v.size
      BY <2>5, <2>6, <2>9
    <3>2. InReach(at + v.size)
      BY <2>10, <3>1
    <3> QED
      BY <2>2, <2>7, <3>1, <3>2
  <2>12. v \in ReadSet(c, overlap)
    <3>1. v.size > 0
      BY <2>5, <2>6, <2>9, <2>11
    <3>2. v \in Retries(c, from, overlap)
      BY <2>4 DEF Retries, mine, own
    <3>3. from < own
      BY <2>1
    <3>4. v \in small
      BY <3>2, <3>3 DEF from
    <3> HIDE DEF v, small
    <3> QED
      BY <1>6, <3>1, <3>4
  <2>13. v.base <= a /\ a < v.base + v.starts
    <3> HIDE DEF v
    <3> QED
      BY <2>5, <2>6, <2>9, <2>11
  <2> HIDE DEF v
  <2> QED
    BY <2>6, <2>11, <2>12, <2>13
<1> QED
  BY <1>1, <1>2, <1>7, <1>8

-----------------------------------------------------------------------------
(* What a search finds. *)

\* The pattern, in reach, at a place that is chunk c's own.
Shows(c, a) ==
    /\ a \in Nat /\ c.base <= a /\ a < c.base + Primary(c) /\ a + Len(sought) <= c.end
    /\ \A x \in Reach(sought, a) : InReach(x)
    /\ MatchesAt(sought, a)

\* What a read looks at, and what it has when the pattern begins at a.
Looks(v, a) == a \in Nat /\ v.base <= a /\ a < v.base + v.starts /\ a + Len(sought) <= v.base + v.size

\* h has what read v of chunk c shows, in order.
Yields(h, v, c) ==
    /\ h \in Seq(Addresses) /\ Increasing(h)
    /\ \A i \in 1 .. Len(h) : h[i] \in Nat /\ v.base <= h[i] /\ h[i] < v.base + v.starts /\ Shows(c, h[i])
    /\ \A a \in Nat : Looks(v, a) /\ MatchesAt(sought, a) => \E i \in 1 .. Len(h) : h[i] = a

(* A pattern has a length.                                                                *)
LEMMA PatternIs ==
    ASSUME NEW p \in Patterns
    PROVE  p \in Seq(SUBSET (0 .. (Base - 1))) /\ Len(p) \in Nat \ {0} /\ DOMAIN p = 1 .. Len(p)
<1>1. p \in Seq(SUBSET (0 .. (Base - 1))) /\ p # <<>>
  BY AobTypes
<1> QED
  BY <1>1

(* The hits of one read are what it shows.                                                *)
LEMMA HitsInAre ==
    ASSUME NEW c, SoundChunk(c), NEW v, SoundRead(v, c), sought \in Patterns
    PROVE  Yields(HitsIn(v), v, c)
<1> DEFINE n == Len(sought)
           P == {p \in 0 .. (v.starts - 1) : p + n <= v.size /\ MatchesAt(sought, v.base + p)}
           S == {v.base + o : o \in P}
           h == HitsIn(v)
<1>1. n \in Nat \ {0}
  BY PatternIs
<1>2. /\ v.base \in Nat /\ v.size \in Nat \ {0} /\ v.starts \in Nat \ {0} /\ v.starts <= v.size
      /\ c.base <= v.base /\ v.base + v.starts <= c.base + Primary(c) /\ v.base + v.size <= c.end
      /\ \A k \in 0 .. (v.size - 1) : InReach(v.base + k)
      /\ c.base \in Nat /\ c.end \in Nat /\ Primary(c) \in Nat
  BY PrimaryIs DEF SoundRead, SoundChunk, Chunk
<1>3. h = Ordered(S)
  BY DEF HitsIn
<1>4. S \in SUBSET (v.base .. (v.base + v.starts - 1))
  <2>1. \A o \in P : o \in 0 .. (v.starts - 1)
    OBVIOUS
  <2> HIDE DEF P
  <2>2. ASSUME NEW o \in P PROVE v.base + o \in v.base .. (v.base + v.starts - 1)
    BY <1>2, <2>1
  <2> QED
    BY <2>2
<1>5. S \in SUBSET Nat /\ IsFiniteSet(S)
  <2>1. v.base \in Int /\ v.base + v.starts - 1 \in Int
    BY <1>2
  <2>2. IsFiniteSet(v.base .. (v.base + v.starts - 1))
    BY <2>1, FS_Interval
  <2> HIDE DEF S
  <2>3. IsFiniteSet(S)
    BY <1>4, <2>2, FS_Subset
  <2>4. S \in SUBSET Nat
    BY <1>2, <1>4
  <2> QED
    BY <2>3, <2>4
<1>6. ASSUME NEW a \in S
      PROVE  a \in Addresses /\ v.base <= a /\ a < v.base + v.starts /\ Shows(c, a)
  <2>1. PICK p \in P : a = v.base + p
    OBVIOUS
  <2>2. /\ p \in Nat /\ p < v.starts /\ p + n <= v.size /\ MatchesAt(sought, a)
    BY <1>2, <2>1
  <2> HIDE DEF P, S, h, n
  <2>3. ASSUME NEW x \in Reach(sought, a) PROVE InReach(x)
    <3>1. x \in a .. (a + n - 1)
      BY DEF Reach, n
    <3>2. x - v.base \in 0 .. (v.size - 1) /\ v.base + (x - v.base) = x
      BY <1>1, <1>2, <2>1, <2>2, <3>1
    <3> QED
      BY <1>2, <3>2
  <2>4. a \in Addresses
    <3>1. a \in a .. (a + n - 1)
      BY <1>1, <1>2, <2>1, <2>2
    <3>2. a \in Reach(sought, a)
      BY <3>1 DEF Reach, n
    <3> QED
      BY <2>3, <3>2 DEF InReach
  <2>5. a \in Nat /\ c.base <= a /\ a < c.base + Primary(c) /\ a + n <= c.end
    <3>1. v.base <= a /\ a < v.base + v.starts /\ a + n <= v.base + v.size /\ a \in Nat
      BY <1>1, <1>2, <2>1, <2>2
    <3> QED
      BY <1>1, <1>2, <3>1
  <2>6. Shows(c, a)
    BY <2>2, <2>3, <2>5 DEF Shows, n
  <2>7. v.base <= a /\ a < v.base + v.starts
    BY <1>2, <2>1, <2>2
  <2> QED
    BY <2>4, <2>6, <2>7
<1>7. ASSUME NEW a \in Nat, Looks(v, a), MatchesAt(sought, a) PROVE a \in S
  <2>1. a - v.base \in P
    <3>1. v.base + (a - v.base) = a
      BY <1>2
    <3>2. v.base <= a /\ a < v.base + v.starts /\ a + n <= v.base + v.size
      BY <1>7 DEF Looks, n
    <3>3. a - v.base \in 0 .. (v.starts - 1) /\ (a - v.base) + n <= v.size
      <4> HIDE DEF P, S, h, n
      <4> QED
        BY <1>1, <1>2, <3>2
    <3> QED
      BY <1>7, <3>1, <3>3
  <2> QED
    BY <1>2, <2>1
<1> HIDE DEF P, S, h
<1>8. h \in Seq(S) /\ Increasing(h) /\ \A a \in S : \E i \in 1 .. Len(h) : h[i] = a
  BY <1>3, <1>5, OrderedIs, OrderedHas
<1>9. \A i \in 1 .. Len(h) : h[i] \in S
  BY <1>8, ElementOfSeq
<1>10. h \in Seq(Addresses)
  BY <1>6, <1>8
<1> QED
  BY <1>5, <1>6, <1>7, <1>8, <1>9, <1>10 DEF Yields, h

(* Ascending lists one after the other ascend when the second begins above the first. *)
LEMMA IncreasingOnward ==
    ASSUME NEW S \in SUBSET Nat, NEW s \in Seq(S), NEW t \in Seq(S), Increasing(s), Increasing(t),
           \A i \in 1 .. Len(s) : \A j \in 1 .. Len(t) : s[i] < t[j]
    PROVE  Increasing(s \o t)
<1> DEFINE u == s \o t
           m == Len(s)
<1>1. /\ m \in Nat /\ Len(t) \in Nat /\ u \in Seq(S) /\ Len(u) = m + Len(t)
      /\ \A i \in 1 .. m : u[i] = s[i]
      /\ \A i \in (m + 1) .. (m + Len(t)) : u[i] = t[i - m]
  OBVIOUS
<1>2. /\ \A i, j \in 1 .. m : i < j => s[i] < s[j]
      /\ \A i, j \in 1 .. Len(t) : i < j => t[i] < t[j]
  BY DEF Increasing
<1> HIDE DEF u, m
<1> SUFFICES ASSUME NEW i \in 1 .. (m + Len(t)), NEW j \in 1 .. (m + Len(t)), i < j PROVE u[i] < u[j]
  BY <1>1 DEF Increasing, u
<1>3. CASE j <= m
  <2>1. i \in 1 .. m /\ j \in 1 .. m
    BY <1>1, <1>3
  <2> QED
    BY <1>1, <1>2, <2>1
<1>4. CASE m < i
  <2>1. i \in (m + 1) .. (m + Len(t)) /\ j \in (m + 1) .. (m + Len(t)) /\ i - m \in 1 .. Len(t) /\ j - m \in 1 .. Len(t) /\ i - m < j - m
    BY <1>1, <1>4
  <2> QED
    BY <1>1, <1>2, <2>1
<1>5. CASE i <= m /\ m < j
  <2>1. i \in 1 .. m /\ j \in (m + 1) .. (m + Len(t)) /\ j - m \in 1 .. Len(t)
    BY <1>1, <1>5
  <2> QED
    BY <1>1, <2>1 DEF m
<1> QED
  BY <1>1, <1>3, <1>4, <1>5

(* A pattern reaches from its place on for its length. *)
LEMMA ReachIs ==
    ASSUME NEW a \in Nat, Len(sought) \in Nat \ {0}
    PROVE  /\ \A x \in Reach(sought, a) : x \in Nat
           /\ \A k \in 0 .. (Len(sought) - 1) : a + k \in Reach(sought, a)
           /\ a \in Reach(sought, a) /\ a + Len(sought) - 1 \in Reach(sought, a)
BY DEF Reach

(* What is due from a chunk, one of its reads looks at.                                   *)
LEMMA LooksFor ==
    ASSUME NEW c, SoundChunk(c), Open(c), lost \in SUBSET Pages, sought \in Patterns,
           NEW a, Shows(c, a)
    PROVE  \E v \in ReadSet(c, Len(sought) - 1) : Looks(v, a)
<1> DEFINE n == Len(sought)
           more == n - 1
<1>1. n \in Nat \ {0} /\ more \in Nat /\ n <= more + 1
  BY PatternIs
<1>2. /\ a \in Nat /\ c.base <= a /\ a < c.base + Primary(c) /\ a + n <= c.end
      /\ \A k \in 0 .. (n - 1) : InReach(a + k)
  BY <1>1, ReachIs DEF Shows
<1> HIDE DEF n, more
<1>3. \E v \in ReadSet(c, more) : v.base <= a /\ a < v.base + v.starts /\ a + n <= v.base + v.size
  BY <1>1, <1>2, ReadFor
<1> QED
  BY <1>2, <1>3 DEF Looks, n, more

\* The hits with those of the first m reads of a chunk.
AllHits(visits, m) == Loop(hits, m, LAMBDA list, i : list \o HitsIn(visits[i]))

\* A list on the way through the reads of chunk c, after k of them.
Gathers(list, k, visits, c) ==
    /\ list \in Seq(Addresses) /\ Increasing(list)
    /\ \A i \in 1 .. Len(list) : \/ \E j \in 1 .. Len(hits) : hits[j] = list[i]
                                 \/ Shows(c, list[i])
    /\ \A j \in 1 .. Len(hits) : \E i \in 1 .. Len(list) : list[i] = hits[j]
    /\ \A i \in 1 .. Len(list) : list[i] < c.base + Primary(c)
    /\ \A i \in 1 .. Len(list) : \A j \in (k + 1) .. Len(visits) : list[i] < visits[j].base
    /\ \A j \in 1 .. k : \A a \in Nat : Looks(visits[j], a) /\ MatchesAt(sought, a) =>
                             \E i \in 1 .. Len(list) : list[i] = a

(* The next read's hits go to the end of the list. *)
LEMMA GathersOn ==
    ASSUME NEW c, SoundChunk(c), sought \in Patterns, NEW visits,
           Climbs(visits, ReadSet(c, Len(sought) - 1)),
           NEW k \in 1 .. Len(visits), NEW list, Gathers(list, k - 1, visits, c), hits \in Seq(Addresses)
    PROVE  Gathers(list \o HitsIn(visits[k]), k, visits, c)
<1> DEFINE V == ReadSet(c, Len(sought) - 1)
           v == visits[k]
           h == HitsIn(v)
           new == list \o h
           n == Len(visits)
           m == Len(list)
           own == c.base + Primary(c)
<1>0. n \in Nat /\ own \in Nat /\ Len(sought) - 1 \in Nat
  <2>1. n \in Nat
    BY DEF Climbs
  <2>2. own \in Nat
    BY PrimaryIs DEF SoundChunk, Chunk
  <2>3. Len(sought) - 1 \in Nat
    BY PatternIs
  <2> QED
    BY <2>1, <2>2, <2>3
<1>1. /\ \A j \in 1 .. n : visits[j] \in V
      /\ \A j \in 1 .. n : k < j => v.base < visits[j].base
      /\ \A w \in V : SoundRead(w, c)
      /\ \A w, x \in V : w = x \/ w.base + w.starts <= x.base \/ x.base + x.starts <= w.base
  BY <1>0, ReadsAre DEF Climbs
<1>2. \A j \in 1 .. n : k < j => v.base + v.starts <= visits[j].base
  <2> SUFFICES ASSUME NEW j \in 1 .. n, k < j PROVE v.base + v.starts <= visits[j].base
    OBVIOUS
  <2>1. v \in V /\ visits[j] \in V /\ v.base < visits[j].base
    BY <1>1
  <2>2. visits[j].base \in Nat /\ visits[j].starts \in Nat /\ v.base \in Nat /\ v.starts \in Nat
    BY <1>1, <2>1 DEF SoundRead
  <2>3. v = visits[j] \/ v.base + v.starts <= visits[j].base \/ visits[j].base + visits[j].starts <= v.base
    BY <1>1, <2>1
  <2> HIDE DEF v
  <2> QED
    BY <2>1, <2>2, <2>3
<1>3. SoundRead(v, c)
  BY <1>1
<1>4. Yields(h, v, c)
  <2> HIDE DEF v
  <2> QED
    BY <1>3, HitsInAre
<1>5. /\ v.base \in Nat /\ v.starts \in Nat /\ v.base + v.starts <= own
  BY <1>3 DEF SoundRead
<1> HIDE DEF V, v, h
<1>6. /\ h \in Seq(Addresses) /\ Increasing(h) /\ Len(h) \in Nat
      /\ \A i \in 1 .. Len(h) : h[i] \in Nat /\ v.base <= h[i] /\ h[i] < v.base + v.starts /\ Shows(c, h[i])
      /\ \A a \in Nat : Looks(v, a) /\ MatchesAt(sought, a) => \E i \in 1 .. Len(h) : h[i] = a
  BY <1>4 DEF Yields
<1>7. /\ list \in Seq(Addresses) /\ Increasing(list) /\ m \in Nat
      /\ \A i \in 1 .. m : list[i] \in Addresses /\ list[i] \in Nat
  <2>1. list \in Seq(Addresses) /\ Increasing(list)
    BY DEF Gathers
  <2>2. \A i \in 1 .. m : list[i] \in Addresses
    BY <2>1, ElementOfSeq
  <2>3. m \in Nat
    BY <2>1
  <2> HIDE DEF m, new
  <2> QED
    BY <2>1, <2>2, <2>3, AddressesAre
<1>8. \A i \in 1 .. m : list[i] < own /\ \A j \in k .. n : list[i] < visits[j].base
  BY DEF Gathers
<1>9. \A i \in 1 .. m : list[i] < v.base
  BY <1>0, <1>8 DEF v
<1>10. /\ new \in Seq(Addresses) /\ Len(new) = m + Len(h)
       /\ \A i \in 1 .. m : new[i] = list[i]
       /\ \A i \in 1 .. Len(h) : new[m + i] = h[i] /\ m + i \in 1 .. Len(new)
       /\ \A i \in 1 .. Len(new) : i \in 1 .. m \/ (i - m \in 1 .. Len(h) /\ new[i] = h[i - m])
       /\ \A i \in 1 .. m : i \in 1 .. Len(new)
  BY <1>6, <1>7
<1>11. Increasing(new)
  <2>1. ASSUME NEW i \in 1 .. m, NEW j \in 1 .. Len(h) PROVE list[i] < h[j]
    <3>1. list[i] \in Nat /\ list[i] < v.base
      BY <1>7, <1>9
    <3>2. h[j] \in Nat /\ v.base <= h[j]
      BY <1>6
    <3>3. v.base \in Nat
      BY <1>5
    <3> QED
      BY <3>1, <3>2, <3>3
  <2> QED
    BY <1>6, <1>7, <2>1, AddressesAre, IncreasingOnward
<1> HIDE DEF new
<1>12. \A i \in 1 .. Len(new) : (\E j \in 1 .. Len(hits) : hits[j] = new[i]) \/ Shows(c, new[i])
  <2>1. \A i \in 1 .. m : (\E j \in 1 .. Len(hits) : hits[j] = list[i]) \/ Shows(c, list[i])
    BY DEF Gathers
  <2> QED
    BY <1>6, <1>10, <2>1
<1>13. \A j \in 1 .. Len(hits) : \E i \in 1 .. Len(new) : new[i] = hits[j]
  <2>1. \A j \in 1 .. Len(hits) : \E i \in 1 .. m : list[i] = hits[j]
    BY DEF Gathers
  <2> QED
    BY <1>10, <2>1
<1>14. \A i \in 1 .. Len(new) : new[i] < own
  <2> TAKE i \in 1 .. Len(new)
  <2>1. CASE i \in 1 .. m
    BY <1>8, <1>10, <2>1
  <2>2. CASE i - m \in 1 .. Len(h) /\ new[i] = h[i - m]
    <3> DEFINE x == h[i - m]
    <3>1. x \in Nat /\ x < v.base + v.starts /\ new[i] = x
      BY <1>6, <2>2
    <3> HIDE DEF own, x
    <3>2. x < own
      BY <1>0, <1>5, <3>1
    <3> QED
      BY <3>1, <3>2
  <2> QED
    BY <1>10, <2>1, <2>2
<1>15. \A i \in 1 .. Len(new) : \A j \in (k + 1) .. n : new[i] < visits[j].base
  <2> TAKE i \in 1 .. Len(new)
  <2> TAKE j \in (k + 1) .. n
  <2>0. j \in 1 .. n /\ k < j /\ j \in k .. n
    BY <1>0
  <2>1. CASE i \in 1 .. m
    BY <1>8, <1>10, <2>0, <2>1
  <2>2. CASE i - m \in 1 .. Len(h) /\ new[i] = h[i - m]
    <3>1. h[i - m] \in Nat /\ h[i - m] < v.base + v.starts
      BY <1>6, <2>2
    <3>2. v.base + v.starts <= visits[j].base
      BY <1>2, <2>0
    <3>3. visits[j].base \in Nat
      BY <1>1, <2>0 DEF SoundRead
    <3>4. ASSUME NEW x \in Nat, NEW y \in Nat, NEW z \in Nat, x < y, y <= z PROVE x < z
      BY <3>4
    <3>5. h[i - m] < visits[j].base
      <4>1. v.base + v.starts \in Nat
        BY <1>5
      <4> QED
        BY <3>1, <3>2, <3>3, <3>4, <4>1
    <3> QED
      BY <2>2, <3>5
  <2> QED
    BY <1>10, <2>1, <2>2
<1>16. \A j \in 1 .. k : \A a \in Nat : Looks(visits[j], a) /\ MatchesAt(sought, a) =>
                             \E i \in 1 .. Len(new) : new[i] = a
  <2> TAKE j \in 1 .. k
  <2> TAKE a \in Nat
  <2> HAVE Looks(visits[j], a) /\ MatchesAt(sought, a)
  <2>1. CASE j = k
    <3>1. Looks(v, a) /\ MatchesAt(sought, a)
      BY <2>1 DEF v
    <3>2. PICK i \in 1 .. Len(h) : h[i] = a
      BY <1>6, <3>1, Zenon
    <3>3. new[m + i] = h[i] /\ m + i \in 1 .. Len(new)
      BY <1>10
    <3> QED
      BY <3>2, <3>3
  <2>2. CASE j # k
    <3>1. j \in 1 .. (k - 1)
      BY <2>2
    <3>2. \E i \in 1 .. m : list[i] = a
      BY <3>1 DEF Gathers
    <3> QED
      BY <1>10, <3>2
  <2> QED
    BY <2>1, <2>2
<1>17. Gathers(new, k, visits, c)
  BY <1>10, <1>11, <1>12, <1>13, <1>14, <1>15, <1>16 DEF Gathers
<1> QED
  BY <1>17 DEF new, h, v

(* The reads of a chunk, one after the other, gather what it shows. *)
LEMMA AllHitsAre ==
    ASSUME NEW c, SoundChunk(c), sought \in Patterns, hits \in Seq(Addresses), Increasing(hits),
           \A i \in 1 .. Len(hits) : hits[i] < c.base,
           NEW visits, visits = Visits(c, Len(sought) - 1)
    PROVE  Gathers(AllHits(visits, Len(visits)), Len(visits), visits, c)
<1> DEFINE n == Len(visits)
           Step(list, k) == list \o HitsIn(visits[k])
           Is(g) == g = [k \in 0..n |-> IF k = 0 THEN hits ELSE Step(g[k - 1], k)]
           after == CHOOSE g : Is(g)
           Open1(k) == {list \in Seq(Addresses) : Gathers(list, k, visits, c)}
           S == [k \in 0..n |-> Open1(k)]
           G == [k \in 1..n |-> [list \in Open1(k - 1) |-> Step(list, k)]]
<1>0. Climbs(visits, ReadSet(c, Len(sought) - 1)) /\ n \in Nat
  <2>1. Climbs(visits, ReadSet(c, Len(sought) - 1))
    <3> DEFINE more == Len(sought) - 1
    <3>1. more \in Nat
      BY PatternIs
    <3> HIDE DEF more
    <3>2. Climbs(Visits(c, more), ReadSet(c, more))
      BY <3>1, VisitsAre
    <3> QED
      BY <3>2 DEF more
  <2>2. n \in Nat
    BY <2>1 DEF Climbs
  <2> QED
    BY <2>1, <2>2
<1>1. AllHits(visits, n) = after[n]
  BY DEF Loop, AllHits
<1> HIDE DEF after
<1>2. hits \in Open1(0)
  <2>1. ASSUME NEW j \in 1 .. n PROVE visits[j].base \in Nat /\ c.base <= visits[j].base
    <3>1. visits[j] \in ReadSet(c, Len(sought) - 1)
      BY <1>0, <2>1 DEF Climbs
    <3>2. Len(sought) - 1 \in Nat
      BY PatternIs
    <3>3. SoundRead(visits[j], c)
      BY <3>1, <3>2, ReadsAre
    <3> QED
      BY <3>3 DEF SoundRead
  <2>2. c.base \in Nat /\ Primary(c) \in Nat
    BY PrimaryIs DEF SoundChunk, Chunk
  <2>3. \A i \in 1 .. Len(hits) : hits[i] \in Nat
    <3>1. \A i \in 1 .. Len(hits) : hits[i] \in Addresses
      BY ElementOfSeq
    <3> QED
      BY <3>1, AddressesAre
  <2>4. ASSUME NEW i \in 1 .. Len(hits) PROVE hits[i] < c.base + Primary(c) /\ \A j \in 1 .. n : hits[i] < visits[j].base
    <3>1. hits[i] \in Nat /\ hits[i] < c.base
      BY <2>3
    <3>2. hits[i] < c.base + Primary(c)
      BY <2>2, <3>1
    <3>3. \A j \in 1 .. n : hits[i] < visits[j].base
      BY <2>1, <2>2, <3>1
    <3> QED
      BY <3>2, <3>3
  <2> QED
    BY <1>0, <2>4 DEF Gathers
<1>3. ASSUME NEW k \in 1..n, NEW list \in Open1(k - 1) PROVE Step(list, k) \in Open1(k)
  <2>1. Gathers(list, k - 1, visits, c)
    OBVIOUS
  <2>2. Gathers(Step(list, k), k, visits, c)
    BY <1>0, <2>1, GathersOn
  <2> HIDE DEF Step
  <2> QED
    BY <2>2 DEF Gathers
<1>4. \A k \in 1..n : \A x \in S[k - 1] : x \in Open1(k - 1) /\ G[k][x] = Step(x, k) /\ Step(x, k) \in S[k]
  <2> HIDE DEF Open1, Step
  <2>1. \A k \in 1..n : k - 1 \in 0..n /\ k \in 0..n
    BY <1>0
  <2> QED
    BY <1>3, <2>1
<1>5. hits \in S[0] /\ S[n] = Open1(n)
  <2> HIDE DEF Open1
  <2> QED
    BY <1>0, <1>2
<1> HIDE DEF Open1, Step, S, G, n
<1>6. \E g : Is(g)
  <2>1. PICK f : Stages(f, n, hits, G, S)
    <3>1. Leads(n, hits, G, S)
      BY <1>4, <1>5 DEF Leads
    <3> QED
      BY <1>0, <3>1, StagesAre
  <2> DEFINE g == [k \in 0..n |-> f[k]]
  <2>2. ASSUME NEW k \in 0..n PROVE f[k] = IF k = 0 THEN hits ELSE Step(g[k - 1], k)
    <3>1. CASE k # 0
      <4>1. k \in 1..n /\ k - 1 \in 0..n
        BY <1>0, <3>1
      <4> QED
        BY <2>1, <4>1, <1>4 DEF Stages
    <3> QED
      BY <3>1, <2>1 DEF Stages
  <2>3. Is(g)
    BY <2>2
  <2> QED
    BY <2>3
<1>7. Is(after)
  BY <1>6 DEF after
<1>8. after[0] = hits /\ \A k \in 1..n : after[k] = Step(after[k - 1], k)
  <2>1. 0 \in 0..n /\ \A k \in 1..n : k \in 0..n /\ k # 0
    BY <1>0
  <2> QED
    BY <1>7, <2>1
<1>9. \A k \in 0..n : after[k] \in S[k]
  <2>1. after[0] \in S[0] /\ \A k \in 1..n : after[k - 1] \in S[k - 1] => after[k] \in S[k]
    BY <1>4, <1>5, <1>8
  <2> QED
    BY <1>0, <2>1, StagesStay
<1>10. after[n] \in Open1(n)
  BY <1>0, <1>5, <1>9
<1> QED
  BY <1>1, <1>10 DEF Open1, n

-----------------------------------------------------------------------------
(* The search for a pattern. *)

Results == [relative : BOOLEAN, value : Nat]

TargetTyped ==
    memory \in [Addresses -> 0 .. (Base - 1)] /\ lost \in SUBSET Pages /\ partial \in BOOLEAN

AobTyped ==
    /\ module \in ModuleBases /\ searching \in BOOLEAN
    /\ sought \in Patterns \cup {<<>>} /\ (searching => sought \in Patterns) /\ scope \in Scopes
    /\ hits \in Seq(Addresses) /\ Len(hits) <= MaxHits
    /\ sure \in SUBSET Addresses /\ never \in SUBSET Addresses
    /\ sure # {} => sought \in Patterns

\* The chunks to come are parts of the target, one after the other.
WalkAhead ==
    /\ ahead \in Seq(Chunk) /\ (~searching => ahead = <<>>)
    /\ \A i \in 1 .. Len(ahead) : SoundChunk(ahead[i])
    /\ \A i, j \in 1 .. Len(ahead) : i < j => Ahead(ahead[i], ahead[j])

\* What must be in the list is there or due from a chunk to come.
SureComes ==
    \A a \in sure : /\ Reach(sought, a) \subseteq Addresses /\ MatchesAt(sought, a)
                    /\ \/ \E i \in 1 .. Len(hits) : hits[i] = a
                       \/ \E i \in 1 .. Len(ahead) : Open(ahead[i]) /\ Shows(ahead[i], a)

\* What must not be is not there, and no chunk to come shows it.
NeverComes ==
    \A a \in never : /\ \A i \in 1 .. Len(hits) : hits[i] # a
                     /\ \A i \in 1 .. Len(ahead) : ~Shows(ahead[i], a)

\* The list ascends and is below what is to come.
ListClimbs ==
    searching \/ never # {} =>
        /\ Increasing(hits)
        /\ \A i \in 1 .. Len(hits) : \A j \in 1 .. Len(ahead) : hits[i] < ahead[j].base

\* The file has what a save left, and for the part that lasts the target does, too.
FileKeeps ==
    /\ module = Nothing => lasting = {}
    /\ file # Nothing =>
        /\ file.pattern \in Patterns /\ file.scope \in Scopes
        /\ file.results \in Seq(Results) /\ Len(file.results) <= MaxHits
        /\ \A i \in 1 .. Len(file.results) : ~file.results[i].relative => file.results[i].value \in Addresses
        /\ \A o \in lasting :
              /\ o \in Nat /\ o + Len(file.pattern) <= ModuleSize
              /\ \E i \in 1 .. Len(file.results) : file.results[i] = [relative |-> TRUE, value |-> o]
              /\ MatchesAt(file.pattern, module + o)

AobInv == TargetTyped /\ AobTyped /\ WalkAhead /\ SureComes /\ NeverComes /\ ListClimbs /\ FileKeeps

\* Shows, with a pattern that is yet to be sought.
WouldShow(pattern, c, a) ==
    /\ a \in Nat /\ c.base <= a /\ a < c.base + Primary(c) /\ a + Len(pattern) <= c.end
    /\ \A x \in Reach(pattern, a) : InReach(x)
    /\ MatchesAt(pattern, a)

(* What a search covers is a walk. *)
LEMMA WalkIs ==
    ASSUME AobTyped, NEW s \in Scopes, NEW range \in Ranges, Possible(s, range)
    PROVE  WalkOf(s, range) \in WalkType
<1>1. range.low \in Nat /\ range.high \in Nat
  BY RangesAreTyped
<1>2. s.inModule \in BOOLEAN /\ s.flags \in SUBSET {"writable", "executable"}
  <2>1. PICK F \in SUBSET {"executable"}, m \in BOOLEAN : s = [flags |-> F, inModule |-> m]
    BY DEF Scopes
  <2>2. s.flags = F /\ s.inModule = m
    BY <2>1
  <2> QED
    BY <2>2
<1>3. ASSUME s.inModule PROVE Cut(range).low \in Nat /\ Cut(range).high \in Nat
  <2>1. module # Nothing /\ module \in ModuleBases
    BY <1>3 DEF Possible, AobTyped
  <2>2. module \in Nat /\ ModuleSize \in Nat \ {0}
    BY <2>1, AobTypes, AobLimits
  <2> QED
    BY <1>1, <2>2 DEF Cut
<1> DEFINE r == IF s.inModule THEN Cut(range) ELSE range
<1>4. r.low \in Nat /\ r.high \in Nat
  BY <1>1, <1>3
<1>5. WalkOf(s, range) = [flags |-> s.flags, low |-> r.low, high |-> r.high]
  BY DEF WalkOf
<1> HIDE DEF r
<1> QED
  BY <1>2, <1>4, <1>5 DEF WalkType

(* What a walk meets, one of its chunks shows.                                            *)
LEMMA MatchIsShown ==
    ASSUME NEW walk \in WalkType, NEW pattern \in Patterns, NEW a \in TrueMatches(pattern, walk),
           Thorough(walk)
    PROVE  \E c \in ChunkSet(walk) : Open(c) /\ WouldShow(pattern, c, a)
<1> DEFINE n == Len(pattern)
<1>1. n \in Nat \ {0}
  BY PatternIs
<1>2. /\ a \in Addresses /\ WithinOne(Reach(pattern, a), walk)
      /\ \A x \in Reach(pattern, a) : InReach(x)
      /\ MatchesAt(pattern, a)
  BY DEF TrueMatches
<1>3. a \in Nat
  BY <1>2, AddressesAre
<1>4. PICK r \in Allowed(walk) : Reach(pattern, a) \subseteq r.base .. (r.end - 1)
  BY <1>2 DEF WithinOne
<1> HIDE DEF n
<1>5. a \in r.base .. (r.end - 1) /\ a + n <= r.end
  <2>1. a \in a .. (a + n - 1) /\ a + n - 1 \in a .. (a + n - 1)
    BY <1>1, <1>3
  <2>2. a \in r.base .. (r.end - 1) /\ a + n - 1 \in r.base .. (r.end - 1)
    BY <1>4, <2>1 DEF Reach, n
  <2>3. r.end \in Nat
    BY AllowedAre DEF SoundRegion, Region
  <2> QED
    BY <1>1, <1>3, <2>2, <2>3
<1>6. PICK c \in ChunkSet(walk) : c.end = r.end /\ c.base <= a /\ a < c.base + Primary(c)
  BY <1>5, ChunkFor
<1>7. Open(c)
  BY ChunkSetIs DEF Thorough, Open
<1>8. WouldShow(pattern, c, a)
  BY <1>2, <1>3, <1>5, <1>6 DEF WouldShow, n
<1> QED
  BY <1>7, <1>8

(* What a chunk shows, the walk meets.                                                    *)
LEMMA ShownIsMatch ==
    ASSUME NEW walk \in WalkType, NEW pattern \in Patterns, NEW c \in ChunkSet(walk), NEW a,
           WouldShow(pattern, c, a)
    PROVE  a \in TrueMatches(pattern, walk)
<1> DEFINE n == Len(pattern)
<1>1. n \in Nat \ {0}
  BY PatternIs
<1>2. PICK r \in Allowed(walk) : r.base <= c.base /\ c.end = r.end
  BY ChunkSetIs
<1>3. r.base \in Nat /\ r.end \in Nat /\ c.base \in Nat
  BY AllowedAre, ChunkSetIs DEF SoundRegion, Region, SoundChunk, Chunk
<1>4. a \in Nat /\ c.base <= a /\ a + n <= c.end
  BY DEF WouldShow
<1> HIDE DEF n
<1>5. a .. (a + n - 1) \subseteq r.base .. (r.end - 1)
  BY <1>1, <1>2, <1>3, <1>4
<1>6. WithinOne(Reach(pattern, a), walk)
  BY <1>5 DEF WithinOne, Reach, n
<1>7. a \in Addresses
  <2>1. a \in a .. (a + n - 1)
    BY <1>1, <1>4
  <2>2. InReach(a)
    BY <2>1 DEF WouldShow, Reach, n
  <2> QED
    BY <2>2 DEF InReach
<1> QED
  BY <1>6, <1>7 DEF TrueMatches, WouldShow

(* A new search begins with an empty list and all of its walk ahead. *)
LEMMA BeginSearchKeeps ==
    ASSUME AobInv, ~searching, NEW pattern \in Patterns, NEW s \in Scopes, NEW range \in Ranges,
           BeginSearch(pattern, s, range)
    PROVE  AobInv'
<1> DEFINE W == WalkOf(s, range)
<1>1. /\ sought' = pattern /\ scope' = s /\ hits' = <<>> /\ searching' = TRUE /\ ahead' = Chunks(W)
      /\ sure' = (IF Thorough(W) THEN TrueMatches(pattern, W) ELSE {})
      /\ never' = Addresses \ TrueMatches(pattern, W)
      /\ UNCHANGED <<memory, lost, partial, module, file, lasting>>
  BY DEF BeginSearch, target
<1>2. W \in WalkType
  BY WalkIs DEF BeginSearch, AobInv
<1>3. Climbs(Chunks(W), ChunkSet(W))
  BY <1>2, ChunksAre
<1> HIDE DEF W
<1>4. TargetTyped'
  BY <1>1 DEF AobInv, TargetTyped
<1>5. AobTyped'
  <2>1. TrueMatches(pattern, W) \in SUBSET Addresses
    BY DEF TrueMatches
  <2>2. hits' \in Seq(Addresses) /\ Len(hits') <= MaxHits
    BY <1>1, AobLimits
  <2> QED
    BY <1>1, <2>1, <2>2 DEF AobInv, AobTyped
<1>6. /\ ahead' \in Seq(ChunkSet(W)) /\ Len(ahead') \in Nat
      /\ \A i \in 1 .. Len(ahead') : ahead'[i] \in ChunkSet(W)
      /\ \A i, j \in 1 .. Len(ahead') : i < j => ahead'[i].base < ahead'[j].base
      /\ \A c \in ChunkSet(W) : \E i \in 1 .. Len(ahead') : ahead'[i] = c
  BY <1>1, <1>3 DEF Climbs
<1>7. WalkAhead'
  <2>1. \A c \in ChunkSet(W) : SoundChunk(c)
    BY <1>2, ChunkSetIs
  <2>2. \A i \in 1 .. Len(ahead') : SoundChunk(ahead'[i])
    BY <1>6, <2>1
  <2>3. ahead' \in Seq(Chunk)
    <3>1. \A i \in 1 .. Len(ahead') : ahead'[i] \in Chunk
      BY <2>2 DEF SoundChunk
    <3>2. DOMAIN ahead' = 1 .. Len(ahead') /\ ahead' = [i \in 1 .. Len(ahead') |-> ahead'[i]]
      BY <1>6
    <3>3. ahead' \in [1 .. Len(ahead') -> Chunk]
      BY <3>1, <3>2
    <3> QED
      BY <1>6, <3>3, FunctionsAreSequences
  <2>4. ASSUME NEW i \in 1 .. Len(ahead'), NEW j \in 1 .. Len(ahead'), i < j PROVE Ahead(ahead'[i], ahead'[j])
    <3> DEFINE c == ahead'[i]
               d == ahead'[j]
    <3>1. c \in ChunkSet(W) /\ d \in ChunkSet(W) /\ c.base < d.base
      BY <1>6, <2>4
    <3>2. c.base \in Nat /\ d.base \in Nat /\ Primary(c) \in Nat \ {0} /\ Primary(d) \in Nat \ {0}
      <4> HIDE DEF c, d
      <4> QED
        BY <2>1, <3>1, PrimaryIs DEF SoundChunk, Chunk
    <3>3. c = d \/ Ahead(c, d) \/ Ahead(d, c)
      <4> HIDE DEF c, d
      <4> QED
        BY <1>2, <3>1, ChunkSetIs
    <3> HIDE DEF c, d
    <3>4. Ahead(c, d)
      BY <3>1, <3>2, <3>3 DEF Ahead
    <3> QED
      BY <3>4 DEF c, d
  <2> QED
    BY <1>1, <2>2, <2>3, <2>4 DEF WalkAhead, SoundChunk, Ahead
<1>8. ASSUME NEW c, NEW a PROVE Shows(c, a)' <=> WouldShow(pattern, c, a)
  BY <1>1 DEF Shows, WouldShow, InReach, MatchesAt
<1>9. SureComes'
  <2> SUFFICES ASSUME NEW a \in sure'
               PROVE  (/\ Reach(sought, a) \subseteq Addresses /\ MatchesAt(sought, a)
                        /\ \E i \in 1 .. Len(ahead) : Open(ahead[i]) /\ Shows(ahead[i], a))'
    BY DEF SureComes
  <2>1. Thorough(W) /\ a \in TrueMatches(pattern, W)
    BY <1>1
  <2>2. PICK c \in ChunkSet(W) : Open(c) /\ WouldShow(pattern, c, a)
    BY <1>2, <2>1, MatchIsShown
  <2>3. PICK i \in 1 .. Len(ahead') : ahead'[i] = c
    BY <1>6
  <2>4. Open(c)' /\ Shows(c, a)'
    BY <1>1, <1>8, <2>2 DEF Open
  <2>5. MatchesAt(sought, a)' /\ Reach(sought', a) \subseteq Addresses
    BY <1>1, <2>1 DEF TrueMatches, MatchesAt, InReach
  <2>6. (Open(ahead[i]) /\ Shows(ahead[i], a))'
    BY <2>3, <2>4 DEF Open, Shows, InReach, MatchesAt
  <2> QED
    BY <2>5, <2>6
<1>10. NeverComes'
  <2> SUFFICES ASSUME NEW a \in never', NEW i \in 1 .. Len(ahead') PROVE ~Shows(ahead[i], a)'
    <3>1. 1 .. Len(hits') = {}
      BY <1>1
    <3> QED
      BY <1>1, <3>1 DEF NeverComes
  <2>1. a \notin TrueMatches(pattern, W)
    BY <1>1
  <2>2. PICK c \in ChunkSet(W) : c = ahead'[i]
    BY <1>6
  <2>3. ~WouldShow(pattern, c, a)
    BY <1>2, <2>1, ShownIsMatch
  <2>4. ~Shows(c, a)'
    BY <1>8, <2>3
  <2> QED
    BY <2>2, <2>4 DEF Shows, InReach, MatchesAt
<1>11. ListClimbs'
  BY <1>1 DEF ListClimbs, Increasing
<1>12. FileKeeps'
  BY <1>1 DEF AobInv, FileKeeps, MatchesAt
<1> QED
  BY <1>4, <1>5, <1>7, <1>9, <1>10, <1>11, <1>12 DEF AobInv

(* A prefix of an ascending list ascends.                                                 *)
LEMMA IncreasingPrefix ==
    ASSUME NEW S, NEW s \in Seq(S), Increasing(s), NEW m \in Nat, m <= Len(s)
    PROVE  /\ SubSeq(s, 1, m) \in Seq(S) /\ Len(SubSeq(s, 1, m)) = m
           /\ Increasing(SubSeq(s, 1, m))
           /\ \A i \in 1 .. m : SubSeq(s, 1, m)[i] = s[i]
<1> DEFINE t == SubSeq(s, 1, m)
<1>1. Len(s) \in Nat /\ DOMAIN s = 1 .. Len(s)
  OBVIOUS
<1>2. t \in Seq(S) /\ Len(t) = m /\ \A i \in 1 .. m : t[i] = s[i]
  <2>1. \A i \in 1 .. m : s[i] \in S
    BY <1>1, ElementOfSeq
  <2>2. t = [i \in 1 .. m |-> s[i]]
    BY <1>1
  <2>3. t \in [1 .. m -> S]
    BY <2>1, <2>2
  <2> QED
    BY <2>2, <2>3, FunctionsAreSequences
<1> HIDE DEF t
<1>3. \A i, j \in 1 .. m : i < j => t[i] < t[j]
  BY <1>1, <1>2 DEF Increasing
<1>4. Increasing(t)
  BY <1>2, <1>3 DEF Increasing
<1> QED
  BY <1>2, <1>4 DEF t

(* One chunk more: its hits go to the list, and what is due from it is among them. *)
LEMMA SearchChunkKeeps == ASSUME AobInv, SearchChunk PROVE AobInv'
<1> DEFINE c == Head(ahead)
           visits == Visits(c, Len(sought) - 1)
           n == Len(visits)
           all == AllHits(visits, n)
<1>1. /\ searching /\ ahead # <<>>
      /\ IF Len(all) >= MaxHits
         THEN hits' = SubSeq(all, 1, MaxHits) /\ ahead' = <<>> /\ sure' = {}
         ELSE hits' = all /\ ahead' = Tail(ahead) /\ sure' = sure
      /\ UNCHANGED <<memory, lost, partial, module, sought, scope, searching, file, never, lasting>>
  BY DEF SearchChunk, AllHits, target
<1>2. /\ ahead \in Seq(Chunk) /\ Len(ahead) \in Nat \ {0} /\ c = ahead[1] /\ 1 \in 1 .. Len(ahead)
  BY <1>1 DEF AobInv, WalkAhead
<1> HIDE DEF c
<1>3. SoundChunk(c)
  BY <1>2 DEF AobInv, WalkAhead
<1>4. sought \in Patterns /\ hits \in Seq(Addresses) /\ Increasing(hits)
  BY <1>1 DEF AobInv, AobTyped, ListClimbs
<1>5. \A i \in 1 .. Len(hits) : hits[i] < c.base
  BY <1>1, <1>2 DEF AobInv, ListClimbs
<1>6. Gathers(all, n, visits, c)
  BY <1>3, <1>4, <1>5, AllHitsAre
<1>7. Climbs(visits, ReadSet(c, Len(sought) - 1))
  <2> DEFINE more == Len(sought) - 1
  <2>1. more \in Nat
    BY <1>4, PatternIs
  <2> HIDE DEF more
  <2>2. Climbs(Visits(c, more), ReadSet(c, more))
    BY <1>3, <2>1, VisitsAre
  <2> QED
    BY <2>2 DEF more
<1> HIDE DEF all, visits, n
<1>8. /\ all \in Seq(Addresses) /\ Increasing(all) /\ Len(all) \in Nat
      /\ \A i \in 1 .. Len(all) : (\E j \in 1 .. Len(hits) : hits[j] = all[i]) \/ Shows(c, all[i])
      /\ \A j \in 1 .. Len(hits) : \E i \in 1 .. Len(all) : all[i] = hits[j]
      /\ \A i \in 1 .. Len(all) : all[i] < c.base + Primary(c)
      /\ \A j \in 1 .. n : \A a \in Nat : Looks(visits[j], a) /\ MatchesAt(sought, a) =>
                             \E i \in 1 .. Len(all) : all[i] = a
  BY <1>6 DEF Gathers
<1>9. ASSUME NEW a, Open(c), Shows(c, a) PROVE \E i \in 1 .. Len(all) : all[i] = a
  <2>1. PICK v \in ReadSet(c, Len(sought) - 1) : Looks(v, a)
    BY <1>3, <1>4, <1>9, LooksFor DEF AobInv, TargetTyped
  <2>2. PICK j \in 1 .. n : visits[j] = v
    BY <1>7, <2>1 DEF Climbs, n
  <2>3. a \in Nat /\ MatchesAt(sought, a)
    BY <1>9 DEF Shows
  <2> QED
    BY <1>8, <2>1, <2>2, <2>3
<1>10. /\ hits' \in Seq(Addresses) /\ Increasing(hits') /\ Len(hits') <= MaxHits /\ Len(hits') \in Nat
       /\ Len(hits') <= Len(all) /\ \A i \in 1 .. Len(hits') : hits'[i] = all[i]
  <2>1. CASE Len(all) >= MaxHits
    <3>1. MaxHits \in Nat /\ MaxHits <= Len(all)
      BY <1>8, <2>1, AobLimits
    <3>2. hits' = SubSeq(all, 1, MaxHits)
      BY <1>1, <2>1
    <3> QED
      BY <1>8, <3>1, <3>2, IncreasingPrefix
  <2>2. CASE ~(Len(all) >= MaxHits)
    <3>1. Len(all) < MaxHits /\ hits' = all
      BY <1>1, <1>8, <2>2, AobLimits
    <3> QED
      BY <1>8, <3>1, AobLimits
  <2> QED
    BY <2>1, <2>2
<1>11. /\ ahead' \in Seq(Chunk) /\ Len(ahead') \in Nat /\ Len(ahead') < Len(ahead)
       /\ \A j \in 1 .. Len(ahead') : ahead'[j] = ahead[j + 1] /\ j + 1 \in 1 .. Len(ahead)
       /\ Len(all) < MaxHits => \A j \in 2 .. Len(ahead) : j - 1 \in 1 .. Len(ahead') /\ ahead'[j - 1] = ahead[j]
  <2>1. CASE Len(all) >= MaxHits
    <3>1. ahead' = <<>> /\ ~(Len(all) < MaxHits)
      BY <1>1, <1>8, <2>1, AobLimits
    <3>2. ahead' \in Seq(Chunk) /\ Len(ahead') = 0 /\ 1 .. Len(ahead') = {}
      BY <3>1
    <3> QED
      BY <1>2, <3>1, <3>2
  <2>2. CASE ~(Len(all) >= MaxHits)
    <3>1. ahead' = Tail(ahead)
      BY <1>1, <2>2
    <3>2. /\ ahead' \in Seq(Chunk) /\ Len(ahead') = Len(ahead) - 1
          /\ \A j \in 1 .. Len(ahead') : ahead'[j] = ahead[j + 1]
      BY <1>2, <3>1
    <3> QED
      BY <1>2, <3>2
  <2> QED
    BY <2>1, <2>2
<1>12. TargetTyped'
  BY <1>1 DEF AobInv, TargetTyped
<1>13. AobTyped'
  <2>1. sure' \in SUBSET sure
    BY <1>1
  <2> QED
    BY <1>1, <1>10, <2>1 DEF AobInv, AobTyped
<1>14. WalkAhead'
  <2>1. \A i \in 1 .. Len(ahead) : SoundChunk(ahead[i])
    BY DEF AobInv, WalkAhead
  <2>2. \A i, j \in 1 .. Len(ahead) : i < j => Ahead(ahead[i], ahead[j])
    BY DEF AobInv, WalkAhead
  <2>3. ASSUME NEW i \in 1 .. Len(ahead') PROVE SoundChunk(ahead'[i])
    BY <1>11, <2>1
  <2>4. ASSUME NEW i \in 1 .. Len(ahead'), NEW j \in 1 .. Len(ahead'), i < j PROVE Ahead(ahead'[i], ahead'[j])
    <3>1. i + 1 \in 1 .. Len(ahead) /\ j + 1 \in 1 .. Len(ahead) /\ i + 1 < j + 1
      BY <1>11, <2>4
    <3>2. Ahead(ahead[i + 1], ahead[j + 1])
      BY <2>2, <3>1
    <3> QED
      BY <1>11, <3>2
  <2> QED
    BY <1>1, <1>11, <2>3, <2>4 DEF WalkAhead, SoundChunk, Ahead
<1>15. ASSUME NEW d, NEW a
       PROVE  (Shows(d, a)' <=> Shows(d, a)) /\ (Open(d)' <=> Open(d)) /\ (MatchesAt(sought, a)' <=> MatchesAt(sought, a))
  BY <1>1 DEF Shows, Open, InReach, MatchesAt
<1>16. SureComes'
  <2> SUFFICES ASSUME NEW a \in sure'
               PROVE  (/\ Reach(sought, a) \subseteq Addresses /\ MatchesAt(sought, a)
                        /\ \/ \E i \in 1 .. Len(hits) : hits[i] = a
                           \/ \E i \in 1 .. Len(ahead) : Open(ahead[i]) /\ Shows(ahead[i], a))'
    BY DEF SureComes
  <2>1. ~(Len(all) >= MaxHits) /\ a \in sure
    BY <1>1
  <2>2. Len(all) < MaxHits /\ hits' = all
    BY <1>1, <1>8, <2>1, AobLimits
  <2>3. /\ Reach(sought, a) \subseteq Addresses /\ MatchesAt(sought, a)
        /\ \/ \E i \in 1 .. Len(hits) : hits[i] = a
           \/ \E i \in 1 .. Len(ahead) : Open(ahead[i]) /\ Shows(ahead[i], a)
    BY <2>1 DEF AobInv, SureComes
  <2>4. MatchesAt(sought, a)' /\ Reach(sought', a) \subseteq Addresses
    BY <1>1, <1>15, <2>3
  <2>5. CASE \E i \in 1 .. Len(hits) : hits[i] = a
    <3>1. \E i \in 1 .. Len(all) : all[i] = a
      BY <1>8, <2>5
    <3> QED
      BY <2>2, <2>4, <3>1
  <2>6. CASE \E i \in 1 .. Len(ahead) : Open(ahead[i]) /\ Shows(ahead[i], a)
    <3>1. PICK i \in 1 .. Len(ahead) : Open(ahead[i]) /\ Shows(ahead[i], a)
      BY <2>6
    <3>2. CASE i = 1
      <4>1. \E k \in 1 .. Len(all) : all[k] = a
        BY <1>2, <1>9, <3>1, <3>2
      <4> QED
        BY <2>2, <2>4, <4>1
    <3>3. CASE i # 1
      <4>1. i \in 2 .. Len(ahead)
        BY <1>2, <3>3
      <4>2. i - 1 \in 1 .. Len(ahead') /\ ahead'[i - 1] = ahead[i]
        BY <1>11, <2>2, <4>1
      <4>3. PICK d : d = ahead[i]
        OBVIOUS
      <4>4. Open(d)' /\ Shows(d, a)'
        BY <1>15, <3>1, <4>3
      <4>5. (Open(ahead[i - 1]) /\ Shows(ahead[i - 1], a))'
        BY <4>2, <4>3, <4>4 DEF Open, Shows, InReach, MatchesAt
      <4> QED
        BY <2>4, <4>2, <4>5
    <3> QED
      BY <3>2, <3>3
  <2> QED
    BY <2>3, <2>5, <2>6
<1>17. NeverComes'
  <2> SUFFICES ASSUME NEW a \in never'
               PROVE  (/\ \A i \in 1 .. Len(hits) : hits[i] # a
                       /\ \A i \in 1 .. Len(ahead) : ~Shows(ahead[i], a))'
    BY DEF NeverComes
  <2>1. /\ \A i \in 1 .. Len(hits) : hits[i] # a
        /\ \A i \in 1 .. Len(ahead) : ~Shows(ahead[i], a)
    BY <1>1 DEF AobInv, NeverComes
  <2>2. ASSUME NEW i \in 1 .. Len(hits') PROVE hits'[i] # a
    <3>1. i \in 1 .. Len(all) /\ hits'[i] = all[i]
      BY <1>8, <1>10
    <3>2. ~Shows(c, a)
      BY <1>2, <2>1
    <3> QED
      BY <1>8, <2>1, <3>1, <3>2
  <2>3. ASSUME NEW i \in 1 .. Len(ahead') PROVE ~Shows(ahead[i], a)'
    <3>1. PICK d : d = ahead[i + 1]
      OBVIOUS
    <3>2. ~Shows(d, a)' /\ d = ahead'[i]
      BY <1>11, <1>15, <2>1, <3>1
    <3> QED
      BY <3>2 DEF Shows, InReach, MatchesAt
  <2> QED
    BY <2>2, <2>3
<1>18. ListClimbs'
  <2>1. ASSUME NEW i \in 1 .. Len(hits'), NEW j \in 1 .. Len(ahead') PROVE hits'[i] < ahead'[j].base
    <3>1. i \in 1 .. Len(all) /\ hits'[i] = all[i]
      BY <1>8, <1>10
    <3>2. all[i] \in Nat
      BY <1>8, <3>1, ElementOfSeq, AddressesAre
    <3>3. all[i] < c.base + Primary(c)
      BY <1>8, <3>1
    <3>4. ahead'[j] = ahead[j + 1] /\ j + 1 \in 1 .. Len(ahead) /\ 1 < j + 1
      BY <1>11
    <3>5. Ahead(c, ahead'[j]) /\ SoundChunk(ahead'[j])
      BY <1>2, <3>4 DEF AobInv, WalkAhead
    <3>6. c.base \in Nat /\ Primary(c) \in Nat /\ ahead'[j].base \in Nat
      BY <1>3, <3>5, PrimaryIs DEF SoundChunk, Chunk
    <3>7. c.base + Primary(c) <= ahead'[j].base
      BY <3>5 DEF Ahead
    <3> QED
      BY <3>1, <3>2, <3>3, <3>6, <3>7
  <2> QED
    BY <1>10, <2>1 DEF ListClimbs
<1>19. FileKeeps'
  BY <1>1 DEF AobInv, FileKeeps, MatchesAt
<1> QED
  BY <1>12, <1>13, <1>14, <1>16, <1>17, <1>18, <1>19 DEF AobInv

(* The search ends when no chunk is left. *)
LEMMA SearchEndsKeeps == ASSUME AobInv, SearchEnds PROVE AobInv'
<1>1. /\ searching /\ ahead = <<>> /\ searching' = FALSE
      /\ UNCHANGED <<memory, lost, partial, module, sought, scope, hits, ahead, file, sure, never, lasting>>
  BY DEF SearchEnds, target
<1>2. TargetTyped' /\ AobTyped'
  BY <1>1 DEF AobInv, TargetTyped, AobTyped
<1>3. WalkAhead'
  BY <1>1 DEF AobInv, WalkAhead, SoundChunk, Ahead
<1>4. SureComes' /\ NeverComes'
  BY <1>1 DEF AobInv, SureComes, NeverComes, Shows, Open, InReach, MatchesAt
<1>5. ListClimbs'
  BY <1>1 DEF AobInv, ListClimbs
<1>6. FileKeeps'
  BY <1>1 DEF AobInv, FileKeeps, MatchesAt
<1> QED
  BY <1>2, <1>3, <1>4, <1>5, <1>6 DEF AobInv

(* Without a pattern the list is empty and nothing is claimed of it. *)
LEMMA BlankKeeps ==
    ASSUME AobInv, ~searching, Blank, UNCHANGED <<searching, ahead>>, scope' \in Scopes, module' \in ModuleBases,
           TargetTyped', FileKeeps'
    PROVE  AobInv'
<1>1. sought' = <<>> /\ hits' = <<>> /\ sure' = {} /\ never' = {} /\ ahead' = ahead /\ searching' = searching
  BY DEF Blank
<1>2. hits' \in Seq(Addresses) /\ Len(hits') <= MaxHits
  BY <1>1, AobLimits
<1>3. AobTyped'
  BY <1>1, <1>2 DEF AobInv, AobTyped
<1>4. WalkAhead'
  BY <1>1 DEF AobInv, WalkAhead, SoundChunk, Ahead
<1>5. SureComes' /\ NeverComes'
  BY <1>1 DEF SureComes, NeverComes
<1>6. ListClimbs'
  BY <1>1 DEF ListClimbs
<1> QED
  BY <1>3, <1>4, <1>5, <1>6 DEF AobInv

(* Everywhere is a scope. *)
LEMMA EverywhereIs == Everywhere \in Scopes
<1>1. {} \in SUBSET {"executable"} /\ FALSE \in BOOLEAN
  OBVIOUS
<1>2. \E F \in SUBSET {"executable"}, m \in BOOLEAN : Everywhere = [flags |-> F, inModule |-> m]
  BY <1>1, Zenon DEF Everywhere
<1> QED
  BY <1>2 DEF Scopes

(* The list is cleared. *)
LEMMA AobClearKeeps == ASSUME AobInv, AobClear PROVE AobInv'
<1>1. /\ ~searching /\ Blank /\ scope' = Everywhere
      /\ UNCHANGED <<memory, lost, partial, module, searching, ahead, file, lasting>>
  BY DEF AobClear, Command, target
<1>2. scope' \in Scopes /\ module' \in ModuleBases
  BY <1>1, EverywhereIs DEF AobInv, AobTyped
<1>3. TargetTyped' /\ FileKeeps'
  BY <1>1 DEF AobInv, TargetTyped, FileKeeps, MatchesAt
<1> QED
  BY <1>1, <1>2, <1>3, BlankKeeps

(* Where the module's bytes are after it was loaded elsewhere. *)
LEMMA MovedIs ==
    ASSUME AobInv, NEW to \in ModuleBases, AobReattach(to), module # Nothing, to # Nothing
    PROVE  \A o \in 0 .. (ModuleSize - 1) : memory'[to + o] = memory[module + o]
<1> DEFINE Place(a) == IF a \in to .. (to + ModuleSize - 1) THEN a - to + module
                       ELSE IF InModule(a) THEN a - module + to ELSE a
<1>1. memory' = [a \in Addresses |-> memory[Place(a)]]
  BY DEF AobReattach
<1>2. /\ to \in Nat /\ to .. (to + ModuleSize - 1) \subseteq Addresses
      /\ module \in Nat /\ ModuleSize \in Nat
  BY AobTypes, AobLimits DEF AobInv, AobTyped
<1>3. ASSUME NEW o \in 0 .. (ModuleSize - 1) PROVE memory'[to + o] = memory[module + o]
  <2>1. to + o \in to .. (to + ModuleSize - 1) /\ to + o \in Addresses
    BY <1>2
  <2>2. Place(to + o) = module + o
    BY <1>2, <2>1
  <2> HIDE DEF Place
  <2> QED
    BY <1>1, <2>1, <2>2
<1> QED
  BY <1>3

(* Another process: the list goes, what lasts of the file is where the module is now. *)
LEMMA AobReattachKeeps == ASSUME AobInv, NEW to \in ModuleBases, AobReattach(to) PROVE AobInv'
<1> DEFINE Place(a) == IF to # Nothing /\ module # Nothing
                       THEN IF a \in to .. (to + ModuleSize - 1) THEN a - to + module
                            ELSE IF InModule(a) THEN a - module + to ELSE a
                       ELSE a
<1>1. /\ ~searching /\ Blank /\ module' = to
      /\ memory' = [a \in Addresses |-> memory[Place(a)]]
      /\ lasting' = (IF to = Nothing THEN {} ELSE lasting)
      /\ UNCHANGED <<lost, partial, scope, searching, ahead, file>>
  BY DEF AobReattach, Command
<1>2. memory \in [Addresses -> 0 .. (Base - 1)]
  BY DEF AobInv, TargetTyped
<1>3. ASSUME NEW a \in Addresses PROVE Place(a) \in Addresses
  <2>1. CASE to # Nothing /\ module # Nothing
    <3>1. /\ to \in Nat /\ to .. (to + ModuleSize - 1) \subseteq Addresses
          /\ module \in Nat /\ module .. (module + ModuleSize - 1) \subseteq Addresses
          /\ ModuleSize \in Nat /\ a \in Nat
      BY <2>1, AobTypes, AobLimits, AddressesAre DEF AobInv, AobTyped
    <3>2. a \in to .. (to + ModuleSize - 1) => a - to + module \in module .. (module + ModuleSize - 1)
      BY <3>1
    <3>3. InModule(a) => a - module + to \in to .. (to + ModuleSize - 1)
      BY <3>1 DEF InModule
    <3> QED
      BY <2>1, <3>1, <3>2, <3>3
  <2>2. CASE ~(to # Nothing /\ module # Nothing)
    BY <2>2
  <2> QED
    BY <2>1, <2>2
<1> HIDE DEF Place
<1>4. TargetTyped'
  BY <1>1, <1>2, <1>3 DEF AobInv, TargetTyped
<1>5. FileKeeps'
  <2>1. module' = Nothing => lasting' = {}
    BY <1>1 DEF AobInv, FileKeeps
  <2>2. ASSUME file # Nothing, NEW o \in lasting'
        PROVE  /\ o \in Nat /\ o + Len(file.pattern) <= ModuleSize
               /\ \E i \in 1 .. Len(file.results) : file.results[i] = [relative |-> TRUE, value |-> o]
               /\ MatchesAt(file.pattern, module + o)'
    <3>1. to # Nothing /\ o \in lasting
      BY <1>1
    <3>2. module # Nothing
      BY <3>1 DEF AobInv, FileKeeps
    <3>3. /\ o \in Nat /\ o + Len(file.pattern) <= ModuleSize /\ file.pattern \in Patterns
          /\ \E i \in 1 .. Len(file.results) : file.results[i] = [relative |-> TRUE, value |-> o]
          /\ MatchesAt(file.pattern, module + o)
      BY <2>2, <3>1 DEF AobInv, FileKeeps
    <3>4. Len(file.pattern) \in Nat /\ DOMAIN file.pattern = 1 .. Len(file.pattern)
      BY <3>3, PatternIs
    <3>5. \A k \in 0 .. (ModuleSize - 1) : memory'[to + k] = memory[module + k]
      BY <3>1, <3>2, MovedIs
    <3>6. to \in Nat /\ module \in Nat /\ ModuleSize \in Nat
      BY <3>1, <3>2, AobTypes, AobLimits DEF AobInv, AobTyped
    <3>7. ASSUME NEW i \in DOMAIN file.pattern PROVE memory'[to + o + i - 1] \in file.pattern[i]
      <4>1. memory[module + o + i - 1] \in file.pattern[i]
        BY <3>3 DEF MatchesAt
      <4> DEFINE k == o + i - 1
      <4>2. k \in 0 .. (ModuleSize - 1) /\ to + o + i - 1 = to + k /\ module + o + i - 1 = module + k
        <5> DEFINE l == Len(file.pattern)
        <5>1. l \in Nat /\ i \in 1 .. l /\ o \in Nat /\ o + l <= ModuleSize
          BY <3>3, <3>4
        <5> HIDE DEF l
        <5> QED
          BY <3>6, <5>1
      <4> HIDE DEF k
      <4> QED
        BY <3>5, <4>1, <4>2
    <3>8. MatchesAt(file.pattern, module + o)'
      BY <1>1, <3>7 DEF MatchesAt
    <3> QED
      BY <3>3, <3>8
  <2>3. file # Nothing =>
          /\ file.pattern \in Patterns /\ file.scope \in Scopes
          /\ file.results \in Seq(Results) /\ Len(file.results) <= MaxHits
          /\ \A i \in 1 .. Len(file.results) : ~file.results[i].relative => file.results[i].value \in Addresses
    BY DEF AobInv, FileKeeps
  <2> QED
    BY <1>1, <2>1, <2>2, <2>3 DEF FileKeeps
<1>6. scope' \in Scopes /\ module' \in ModuleBases
  BY <1>1 DEF AobInv, AobTyped
<1> QED
  BY <1>1, <1>4, <1>5, <1>6, BlankKeeps

(* A list is saved with the places of its matches in the module. *)
LEMMA AobSaveKeeps == ASSUME AobInv, AobSave PROVE AobInv'
<1> DEFINE list == [i \in DOMAIN hits |-> Saved(hits[i])]
<1>1. /\ ~searching /\ sought # <<>>
      /\ file' = [pattern |-> sought, scope |-> scope, results |-> list]
      /\ lasting' = {a - module : a \in {b \in sure : InModule(b) /\ InModule(b + Len(sought) - 1)}}
      /\ UNCHANGED <<memory, lost, partial, module, sought, scope, hits, searching, ahead, sure, never>>
  BY DEF AobSave, Command, target
<1>2. /\ sought \in Patterns /\ scope \in Scopes /\ module \in ModuleBases
      /\ hits \in Seq(Addresses) /\ Len(hits) <= MaxHits /\ Len(hits) \in Nat
      /\ ahead = <<>>
  BY <1>1 DEF AobInv, AobTyped, WalkAhead
<1>3. Len(sought) \in Nat \ {0}
  BY <1>2, PatternIs
<1>4. \A i \in 1 .. Len(hits) : hits[i] \in Addresses /\ hits[i] \in Nat
  <2>1. \A i \in 1 .. Len(hits) : hits[i] \in Addresses
    BY <1>2, ElementOfSeq
  <2> QED
    BY <2>1, AddressesAre
<1>5. ASSUME NEW a, InModule(a) PROVE module \in Nat /\ ModuleSize \in Nat /\ a - module \in 0 .. (ModuleSize - 1)
                                      /\ module # Nothing /\ a = module + (a - module)
  <2>1. module # Nothing /\ a \in module .. (module + ModuleSize - 1)
    BY <1>5 DEF InModule
  <2>2. module \in Nat /\ ModuleSize \in Nat
    BY <1>2, <2>1, AobTypes, AobLimits
  <2> QED
    BY <2>1, <2>2
<1>6. ASSUME NEW i \in 1 .. Len(hits)
      PROVE  /\ Saved(hits[i]) \in Results
             /\ ~Saved(hits[i]).relative => Saved(hits[i]).value \in Addresses
             /\ InModule(hits[i]) => Saved(hits[i]) = [relative |-> TRUE, value |-> hits[i] - module]
  <2>1. CASE InModule(hits[i])
    <3>1. hits[i] - module \in Nat
      BY <1>5, <2>1
    <3>2. Saved(hits[i]) = [relative |-> TRUE, value |-> hits[i] - module]
      BY <2>1 DEF Saved
    <3> QED
      BY <3>1, <3>2 DEF Results
  <2>2. CASE ~InModule(hits[i])
    <3>1. Saved(hits[i]) = [relative |-> FALSE, value |-> hits[i]]
      BY <2>2 DEF Saved
    <3> QED
      BY <1>4, <2>2, <3>1 DEF Results
  <2> QED
    BY <2>1, <2>2
<1>7. /\ list \in Seq(Results) /\ Len(list) = Len(hits)
      /\ \A i \in 1 .. Len(hits) : list[i] = Saved(hits[i])
  <2>1. DOMAIN hits = 1 .. Len(hits)
    BY <1>2
  <2>2. list \in [1 .. Len(hits) -> Results]
    BY <1>6, <2>1
  <2>3. \A i \in 1 .. Len(hits) : list[i] = Saved(hits[i])
    BY <2>1
  <2> HIDE DEF list
  <2> QED
    BY <1>2, <2>2, <2>3, FunctionsAreSequences
<1> HIDE DEF list
<1>8. file'.pattern = sought /\ file'.scope = scope /\ file'.results = list
  BY <1>1
<1>9. ASSUME NEW o \in lasting'
      PROVE  /\ o \in Nat /\ o + Len(sought) <= ModuleSize
             /\ \E i \in 1 .. Len(list) : list[i] = [relative |-> TRUE, value |-> o]
             /\ MatchesAt(sought, module + o)
             /\ module # Nothing
  <2>1. PICK a \in sure : InModule(a) /\ InModule(a + Len(sought) - 1) /\ o = a - module
    BY <1>1
  <2>2. /\ o \in 0 .. (ModuleSize - 1) /\ module \in Nat /\ ModuleSize \in Nat /\ a = module + o /\ module # Nothing
        /\ a + Len(sought) - 1 - module \in 0 .. (ModuleSize - 1)
    BY <1>5, <2>1
  <2>3. o + Len(sought) <= ModuleSize
    BY <1>3, <2>2
  <2>4. MatchesAt(sought, a) /\ \E i \in 1 .. Len(hits) : hits[i] = a
    <3>1. 1 .. Len(ahead) = {}
      BY <1>2
    <3> QED
      BY <2>1, <3>1 DEF AobInv, SureComes
  <2>5. \E i \in 1 .. Len(list) : list[i] = [relative |-> TRUE, value |-> o]
    BY <1>6, <1>7, <2>1, <2>4
  <2> QED
    BY <2>2, <2>3, <2>4, <2>5
<1>10. FileKeeps'
  <2>1. module' = Nothing => lasting' = {}
    BY <1>1, <1>9
  <2>2. /\ file'.pattern \in Patterns /\ file'.scope \in Scopes
        /\ file'.results \in Seq(Results) /\ Len(file'.results) <= MaxHits
    BY <1>2, <1>7, <1>8
  <2>3. \A i \in 1 .. Len(file'.results) : ~file'.results[i].relative => file'.results[i].value \in Addresses
    BY <1>6, <1>7, <1>8
  <2>4. ASSUME NEW o \in lasting'
        PROVE  /\ o \in Nat /\ o + Len(file'.pattern) <= ModuleSize
               /\ \E i \in 1 .. Len(file'.results) : file'.results[i] = [relative |-> TRUE, value |-> o]
               /\ MatchesAt(file.pattern, module + o)'
    <3>1. MatchesAt(file.pattern, module + o)'
      BY <1>1, <1>8, <1>9 DEF MatchesAt
    <3> QED
      BY <1>8, <1>9, <3>1
  <2> QED
    BY <2>1, <2>2, <2>3, <2>4 DEF FileKeeps
<1>11. TargetTyped' /\ AobTyped'
  BY <1>1 DEF AobInv, TargetTyped, AobTyped
<1>12. WalkAhead'
  BY <1>1 DEF AobInv, WalkAhead, SoundChunk, Ahead
<1>13. SureComes' /\ NeverComes'
  BY <1>1 DEF AobInv, SureComes, NeverComes, Shows, Open, InReach, MatchesAt
<1>14. ListClimbs'
  BY <1>1 DEF AobInv, ListClimbs
<1> QED
  BY <1>10, <1>11, <1>12, <1>13, <1>14 DEF AobInv

\* What loading the first k of a file's matches makes.
Reloads(list, k) ==
    /\ list \in Seq(Addresses) /\ Len(list) <= k
    /\ \A j \in 1 .. k : LET r == file.results[j] IN
          r.relative /\ module # Nothing /\ r.value < ModuleSize =>
             \E i \in 1 .. Len(list) : list[i] = module + r.value

\* The list after the first n of a file's matches.
Reloaded(n) == Loop(<<>>, n, LAMBDA list, i : Rebased(list, file.results[i]))

(* One match more. *)
LEMMA ReloadsOn ==
    ASSUME AobInv, file # Nothing, NEW k \in 1 .. Len(file.results), NEW list, Reloads(list, k - 1)
    PROVE  Reloads(Rebased(list, file.results[k]), k)
<1> DEFINE r == file.results[k]
           new == Rebased(list, r)
<1>1. /\ r \in Results /\ (~r.relative => r.value \in Addresses) /\ k \in Nat
  <2>1. file.results \in Seq(Results)
    BY DEF AobInv, FileKeeps
  <2>2. r \in Results
    BY <2>1, ElementOfSeq
  <2>3. ~r.relative => r.value \in Addresses
    BY DEF AobInv, FileKeeps
  <2> QED
    BY <2>1, <2>2, <2>3
<1>2. r.relative \in BOOLEAN /\ r.value \in Nat
  BY <1>1 DEF Results
<1> HIDE DEF r
<1>3. list \in Seq(Addresses) /\ Len(list) <= k - 1 /\ Len(list) \in Nat
  BY DEF Reloads
<1>4. ASSUME NEW a \in Addresses
      PROVE  /\ Append(list, a) \in Seq(Addresses) /\ Len(Append(list, a)) <= k
             /\ \A i \in 1 .. Len(list) : i \in 1 .. Len(Append(list, a)) /\ Append(list, a)[i] = list[i]
             /\ \E i \in 1 .. Len(Append(list, a)) : Append(list, a)[i] = a
  <2> DEFINE s == Append(list, a)
  <2>1. s \in Seq(Addresses) /\ Len(s) = Len(list) + 1 /\ s[Len(list) + 1] = a
        /\ \A i \in 1 .. Len(list) : s[i] = list[i]
    BY <1>3
  <2>2. Len(list) + 1 \in 1 .. Len(s)
    BY <1>3, <2>1
  <2> HIDE DEF s
  <2>3. s \in Seq(Addresses) /\ Len(s) <= k
    BY <1>1, <1>3, <2>1
  <2>4. \A i \in 1 .. Len(list) : i \in 1 .. Len(s) /\ s[i] = list[i]
    BY <1>3, <2>1
  <2>5. \E i \in 1 .. Len(s) : s[i] = a
    BY <2>1, <2>2
  <2> QED
    BY <2>3, <2>4, <2>5 DEF s
<1>5. module # Nothing => module \in Nat /\ ModuleSize \in Nat /\ module .. (module + ModuleSize - 1) \subseteq Addresses
  BY AobTypes, AobLimits DEF AobInv, AobTyped
<1>6. \/ r.relative /\ module # Nothing /\ r.value < ModuleSize /\ module + r.value \in Addresses
         /\ new = Append(list, module + r.value)
      \/ ~r.relative /\ r.value \in Addresses /\ new = Append(list, r.value)
      \/ ~(module # Nothing /\ r.value < ModuleSize) /\ new = list
  <2>1. ASSUME module # Nothing, r.value < ModuleSize PROVE module + r.value \in Addresses
    <3>1. module \in Nat /\ ModuleSize \in Nat /\ module .. (module + ModuleSize - 1) \subseteq Addresses
      BY <1>5, <2>1
    <3>2. module + r.value \in module .. (module + ModuleSize - 1)
      BY <1>2, <2>1, <3>1
    <3> QED
      BY <3>1, <3>2
  <2> QED
    BY <1>1, <1>2, <2>1 DEF Rebased
<1> HIDE DEF new
<1>7. /\ new \in Seq(Addresses) /\ Len(new) <= k
      /\ \A i \in 1 .. Len(list) : i \in 1 .. Len(new) /\ new[i] = list[i]
      /\ r.relative /\ module # Nothing /\ r.value < ModuleSize => \E i \in 1 .. Len(new) : new[i] = module + r.value
  <2>1. CASE r.relative /\ module # Nothing /\ r.value < ModuleSize /\ module + r.value \in Addresses
             /\ new = Append(list, module + r.value)
    <3> DEFINE a == module + r.value
    <3>1. a \in Addresses /\ new = Append(list, a)
      BY <2>1
    <3> HIDE DEF a
    <3>2. /\ new \in Seq(Addresses) /\ Len(new) <= k
          /\ \A i \in 1 .. Len(list) : i \in 1 .. Len(new) /\ new[i] = list[i]
          /\ \E i \in 1 .. Len(new) : new[i] = a
      BY <1>4, <3>1
    <3> QED
      BY <3>2 DEF a
  <2>2. CASE ~r.relative /\ r.value \in Addresses /\ new = Append(list, r.value)
    <3> DEFINE a == r.value
    <3>1. a \in Addresses /\ new = Append(list, a)
      BY <2>2
    <3> HIDE DEF a
    <3>2. /\ new \in Seq(Addresses) /\ Len(new) <= k
          /\ \A i \in 1 .. Len(list) : i \in 1 .. Len(new) /\ new[i] = list[i]
      BY <1>4, <3>1
    <3> QED
      BY <2>2, <3>2
  <2>3. CASE ~(module # Nothing /\ r.value < ModuleSize) /\ new = list
    BY <1>1, <1>3, <2>3
  <2> QED
    BY <1>6, <2>1, <2>2, <2>3
<1>8. ASSUME NEW j \in 1 .. k, file.results[j].relative, module # Nothing, file.results[j].value < ModuleSize
      PROVE  \E i \in 1 .. Len(new) : new[i] = module + file.results[j].value
  <2>1. CASE j = k
    BY <1>7, <1>8, <2>1 DEF r
  <2>2. CASE j # k
    <3>1. j \in 1 .. (k - 1)
      BY <1>1, <2>2
    <3>2. PICK i \in 1 .. Len(list) : list[i] = module + file.results[j].value
      BY <1>8, <3>1 DEF Reloads
    <3> QED
      BY <1>7, <3>2
  <2> QED
    BY <2>1, <2>2
<1>9. Reloads(new, k)
  BY <1>7, <1>8 DEF Reloads
<1> QED
  BY <1>9 DEF new, r

(* The matches of a file, one after the other. *)
LEMMA ReloadedIs ==
    ASSUME AobInv, file # Nothing
    PROVE  Reloads(Reloaded(Len(file.results)), Len(file.results))
<1> DEFINE n == Len(file.results)
           Step(list, k) == Rebased(list, file.results[k])
           Is(g) == g = [k \in 0..n |-> IF k = 0 THEN <<>> ELSE Step(g[k - 1], k)]
           after == CHOOSE g : Is(g)
           Good(k) == {list \in Seq(Addresses) : Reloads(list, k)}
           S == [k \in 0..n |-> Good(k)]
           G == [k \in 1..n |-> [list \in Good(k - 1) |-> Step(list, k)]]
<1>0. n \in Nat
  <2>1. file.results \in Seq(Results)
    BY DEF AobInv, FileKeeps
  <2> QED
    BY <2>1
<1>1. Reloaded(n) = after[n]
  BY DEF Loop, Reloaded
<1> HIDE DEF after
<1>2. <<>> \in Good(0)
  BY DEF Reloads
<1>3. ASSUME NEW k \in 1..n, NEW list \in Good(k - 1) PROVE Step(list, k) \in Good(k)
  <2>1. Reloads(list, k - 1)
    OBVIOUS
  <2>2. Reloads(Step(list, k), k)
    BY <2>1, ReloadsOn
  <2> HIDE DEF Step
  <2> QED
    BY <2>2 DEF Reloads
<1>4. \A k \in 1..n : \A x \in S[k - 1] : x \in Good(k - 1) /\ G[k][x] = Step(x, k) /\ Step(x, k) \in S[k]
  <2> HIDE DEF Good, Step
  <2>1. \A k \in 1..n : k - 1 \in 0..n /\ k \in 0..n
    BY <1>0
  <2> QED
    BY <1>3, <2>1
<1>5. <<>> \in S[0] /\ S[n] = Good(n)
  <2> HIDE DEF Good
  <2> QED
    BY <1>0, <1>2
<1> HIDE DEF Good, Step, S, G, n
<1>6. \E g : Is(g)
  <2>1. PICK f : Stages(f, n, <<>>, G, S)
    <3>1. Leads(n, <<>>, G, S)
      BY <1>4, <1>5 DEF Leads
    <3> QED
      BY <1>0, <3>1, StagesAre
  <2> DEFINE g == [k \in 0..n |-> f[k]]
  <2>2. ASSUME NEW k \in 0..n PROVE f[k] = IF k = 0 THEN <<>> ELSE Step(g[k - 1], k)
    <3>1. CASE k # 0
      <4>1. k \in 1..n /\ k - 1 \in 0..n
        BY <1>0, <3>1
      <4> QED
        BY <2>1, <4>1, <1>4 DEF Stages
    <3> QED
      BY <3>1, <2>1 DEF Stages
  <2>3. Is(g)
    BY <2>2
  <2> QED
    BY <2>3
<1>7. Is(after)
  BY <1>6 DEF after
<1>8. after[0] = <<>> /\ \A k \in 1..n : after[k] = Step(after[k - 1], k)
  <2>1. 0 \in 0..n /\ \A k \in 1..n : k \in 0..n /\ k # 0
    BY <1>0
  <2> QED
    BY <1>7, <2>1
<1>9. \A k \in 0..n : after[k] \in S[k]
  <2>1. after[0] \in S[0] /\ \A k \in 1..n : after[k - 1] \in S[k - 1] => after[k] \in S[k]
    BY <1>4, <1>5, <1>8
  <2> QED
    BY <1>0, <2>1, StagesStay
<1>10. after[n] \in Good(n)
  BY <1>0, <1>5, <1>9
<1> QED
  BY <1>1, <1>10 DEF Good, n

(* A list that is loaded has what lasts of the file, where the module is. *)
LEMMA AobLoadKeeps == ASSUME AobInv, AobLoad PROVE AobInv'
<1> DEFINE list == Reloaded(Len(file.results))
<1>1. /\ ~searching /\ file # Nothing
      /\ sought' = file.pattern /\ hits' = list /\ scope' = file.scope
      /\ sure' = (IF module = Nothing THEN {} ELSE {module + o : o \in lasting})
      /\ never' = {}
      /\ UNCHANGED <<memory, lost, partial, module, searching, ahead, file, lasting>>
  BY DEF AobLoad, AobRestore, Reloaded, Command, target
<1>2. Reloads(list, Len(file.results))
  BY <1>1, ReloadedIs
<1> HIDE DEF list
<1>3. /\ file.pattern \in Patterns /\ file.scope \in Scopes /\ Len(file.results) <= MaxHits
      /\ file.results \in Seq(Results) /\ Len(file.results) \in Nat
      /\ \A o \in lasting : /\ o \in Nat /\ o + Len(file.pattern) <= ModuleSize
                            /\ \E i \in 1 .. Len(file.results) : file.results[i] = [relative |-> TRUE, value |-> o]
                            /\ MatchesAt(file.pattern, module + o)
  BY <1>1 DEF AobInv, FileKeeps
<1>4. Len(file.pattern) \in Nat \ {0}
  BY <1>3, PatternIs
<1>5. list \in Seq(Addresses) /\ Len(list) <= MaxHits
  <2>1. list \in Seq(Addresses) /\ Len(list) <= Len(file.results) /\ Len(list) \in Nat
    BY <1>2 DEF Reloads
  <2> QED
    BY <1>3, <2>1, AobLimits
<1>6. ASSUME NEW a \in sure'
      PROVE  a \in Addresses /\ Reach(file.pattern, a) \subseteq Addresses
             /\ MatchesAt(file.pattern, a) /\ \E i \in 1 .. Len(list) : list[i] = a
  <2>1. PICK o \in lasting : module # Nothing /\ a = module + o
    BY <1>1
  <2>2. o \in Nat /\ o < ModuleSize /\ o + Len(file.pattern) <= ModuleSize
    <3> DEFINE l == Len(file.pattern)
    <3>1. o \in Nat /\ o + l <= ModuleSize /\ l \in Nat \ {0} /\ ModuleSize \in Nat
      BY <1>3, <1>4, AobLimits
    <3> HIDE DEF l
    <3>2. o < ModuleSize
      BY <3>1
    <3> QED
      BY <3>1, <3>2 DEF l
  <2>3. a \in Addresses /\ Reach(file.pattern, a) \subseteq Addresses
    <3>1. module \in Nat /\ module .. (module + ModuleSize - 1) \subseteq Addresses /\ ModuleSize \in Nat
      BY <2>1, AobTypes, AobLimits DEF AobInv, AobTyped
    <3> DEFINE l == Len(file.pattern)
    <3>2. l \in Nat /\ o + l <= ModuleSize
      BY <1>4, <2>2
    <3> HIDE DEF l
    <3>3. a .. (a + l - 1) \subseteq module .. (module + ModuleSize - 1)
      BY <2>1, <2>2, <3>1, <3>2
    <3>4. a \in module .. (module + ModuleSize - 1)
      BY <2>1, <2>2, <3>1
    <3>5. Reach(file.pattern, a) = a .. (a + l - 1)
      BY DEF Reach, l
    <3> HIDE DEF l
    <3> QED
      BY <3>1, <3>3, <3>4, <3>5
  <2>4. PICK i \in 1 .. Len(file.results) : file.results[i] = [relative |-> TRUE, value |-> o]
    BY <1>3
  <2>5. \E j \in 1 .. Len(list) : list[j] = a
    <3>1. file.results[i].relative /\ file.results[i].value = o
      BY <2>4
    <3>2. \E j \in 1 .. Len(list) : list[j] = module + file.results[i].value
      BY <1>2, <2>1, <2>2, <3>1 DEF Reloads
    <3> QED
      BY <2>1, <3>1, <3>2
  <2> QED
    BY <1>3, <2>1, <2>3, <2>5
<1>7. TargetTyped'
  BY <1>1 DEF AobInv, TargetTyped
<1>8. AobTyped'
  BY <1>1, <1>3, <1>5, <1>6 DEF AobInv, AobTyped
<1>9. WalkAhead'
  BY <1>1 DEF AobInv, WalkAhead, SoundChunk, Ahead
<1>10. SureComes'
  BY <1>1, <1>6 DEF SureComes, MatchesAt
<1>11. NeverComes' /\ ListClimbs'
  BY <1>1 DEF NeverComes, ListClimbs
<1>12. FileKeeps'
  BY <1>1 DEF AobInv, FileKeeps, MatchesAt
<1> QED
  BY <1>7, <1>8, <1>9, <1>10, <1>11, <1>12 DEF AobInv

\* Where nothing was written a pattern is where it was.
SameAt(pattern, h) == MatchesAt(pattern, h)' <=> MatchesAt(pattern, h)

(* A write to no byte of it leaves what is at a place. *)
LEMMA WriteElsewhere ==
    ASSUME TargetTyped, NEW a \in Addresses, NEW b, memory' = [memory EXCEPT ![a] = b],
           NEW p \in Patterns, NEW h \in Nat, Reach(p, h) \subseteq Addresses, a \notin Reach(p, h)
    PROVE  SameAt(p, h)
<1>1. memory \in [Addresses -> 0 .. (Base - 1)]
  BY DEF TargetTyped
<1>2. Len(p) \in Nat \ {0} /\ DOMAIN p = 1 .. Len(p)
  BY PatternIs
<1>3. ASSUME NEW i \in DOMAIN p PROVE memory'[h + i - 1] = memory[h + i - 1]
  <2> DEFINE x == h + i - 1
             l == Len(p)
  <2>1. x \in h .. (h + l - 1)
    <3>1. i \in 1 .. l /\ l \in Nat
      BY <1>2
    <3> HIDE DEF l
    <3> QED
      BY <3>1
  <2>2. x \in Reach(p, h)
    BY <2>1 DEF Reach
  <2>3. x \in Addresses /\ x # a
    BY <2>2
  <2> HIDE DEF x
  <2>4. memory'[x] = memory[x]
    BY <1>1, <2>3
  <2> QED
    BY <2>4 DEF x
<1> QED
  BY <1>3 DEF SameAt, MatchesAt

(* The target writes: what it writes to is claimed no longer. *)
LEMMA AobWritesKeeps ==
    ASSUME AobInv, NEW a \in Addresses, NEW b \in 0 .. (Base - 1), AobTargetWrites(a, b) PROVE AobInv'
<1>1. /\ memory' = [memory EXCEPT ![a] = b]
      /\ sure' = {h \in sure : a \notin Reach(sought, h)}
      /\ never' = {h \in never : a \notin Reach(sought, h)}
      /\ lasting' = (IF file = Nothing \/ module = Nothing THEN lasting
                     ELSE {o \in lasting : a \notin Reach(file.pattern, module + o)})
      /\ UNCHANGED <<lost, partial, module, sought, scope, hits, searching, ahead, file>>
  BY DEF AobTargetWrites, WriteByte, Change
<1>2. TargetTyped /\ AobTyped
  BY DEF AobInv
<1>3. TargetTyped'
  BY <1>1 DEF AobInv, TargetTyped
<1>4. AobTyped'
  BY <1>1 DEF AobInv, AobTyped
<1>5. WalkAhead'
  BY <1>1 DEF AobInv, WalkAhead, SoundChunk, Ahead
<1>6. ASSUME NEW c, NEW h PROVE (Open(c)' <=> Open(c)) /\ \A x : InReach(x)' <=> InReach(x)
  BY <1>1 DEF Open, InReach
<1>7. SureComes'
  <2> SUFFICES ASSUME NEW h \in sure'
               PROVE  (/\ Reach(sought, h) \subseteq Addresses /\ MatchesAt(sought, h)
                       /\ \/ \E i \in 1 .. Len(hits) : hits[i] = h
                          \/ \E i \in 1 .. Len(ahead) : Open(ahead[i]) /\ Shows(ahead[i], h))'
    BY DEF SureComes
  <2>1. h \in sure /\ a \notin Reach(sought, h)
    BY <1>1
  <2>2. /\ Reach(sought, h) \subseteq Addresses /\ MatchesAt(sought, h)
        /\ \/ \E i \in 1 .. Len(hits) : hits[i] = h
           \/ \E i \in 1 .. Len(ahead) : Open(ahead[i]) /\ Shows(ahead[i], h)
    BY <2>1 DEF AobInv, SureComes
  <2>3. sought \in Patterns /\ h \in Nat
    BY <1>2, <2>1, AddressesAre DEF AobTyped
  <2>4. SameAt(sought, h)
    BY <1>1, <1>2, <2>1, <2>2, <2>3, WriteElsewhere
  <2>5. MatchesAt(sought, h)'
    BY <1>1, <2>2, <2>4 DEF SameAt, MatchesAt
  <2>6. ASSUME NEW i \in 1 .. Len(ahead), Open(ahead[i]) /\ Shows(ahead[i], h)
        PROVE  (Open(ahead[i]) /\ Shows(ahead[i], h))'
    BY <1>1, <2>5, <2>6 DEF Open, Shows, InReach
  <2>7. ahead' = ahead /\ hits' = hits /\ sought' = sought
    BY <1>1
  <2> QED
    BY <2>2, <2>5, <2>6, <2>7
<1>8. NeverComes'
  <2> SUFFICES ASSUME NEW h \in never'
               PROVE  (/\ \A i \in 1 .. Len(hits) : hits[i] # h
                       /\ \A i \in 1 .. Len(ahead) : ~Shows(ahead[i], h))'
    BY DEF NeverComes
  <2>1. h \in never /\ a \notin Reach(sought, h)
    BY <1>1
  <2>2. /\ \A i \in 1 .. Len(hits) : hits[i] # h
        /\ \A i \in 1 .. Len(ahead) : ~Shows(ahead[i], h)
    BY <2>1 DEF AobInv, NeverComes
  <2>3. ASSUME NEW i \in 1 .. Len(ahead'), Shows(ahead[i], h)' PROVE FALSE
    <3>1. h \in Nat
      BY <1>2, <2>1, AddressesAre DEF AobTyped
    <3>2. searching /\ sought \in Patterns
      <4>1. ~searching => ahead = <<>>
        BY DEF AobInv, WalkAhead
      <4>2. ahead' = ahead /\ ahead' # <<>>
        BY <1>1
      <4> QED
        BY <1>2, <4>1, <4>2 DEF AobTyped
    <3>3. \A x \in Reach(sought, h) : InReach(x)
      BY <1>1, <2>3 DEF Shows, InReach
    <3>4. Reach(sought, h) \subseteq Addresses
      BY <3>3 DEF InReach
    <3>5. SameAt(sought, h)
      BY <1>1, <1>2, <2>1, <3>1, <3>2, <3>4, WriteElsewhere
    <3>6. MatchesAt(sought, h)
      BY <1>1, <2>3, <3>5 DEF Shows, SameAt, MatchesAt
    <3>7. Shows(ahead[i], h) /\ i \in 1 .. Len(ahead)
      BY <1>1, <2>3, <3>3, <3>6 DEF Shows
    <3> QED
      BY <2>2, <3>7
  <2> QED
    BY <1>1, <2>2, <2>3
<1>9. ListClimbs'
  <2>1. never' # {} => never # {}
    BY <1>1
  <2> QED
    BY <1>1, <2>1 DEF AobInv, ListClimbs
<1>10. FileKeeps'
  <2>1. lasting' \in SUBSET lasting
    BY <1>1
  <2>2. module = Nothing => lasting = {}
    BY DEF AobInv, FileKeeps
  <2>3. ASSUME file # Nothing, NEW o \in lasting'
        PROVE  /\ o \in Nat /\ o + Len(file.pattern) <= ModuleSize
               /\ \E i \in 1 .. Len(file.results) : file.results[i] = [relative |-> TRUE, value |-> o]
               /\ MatchesAt(file.pattern, module + o)'
    <3>1. o \in lasting /\ module # Nothing
      BY <2>1, <2>2
    <3>2. /\ o \in Nat /\ o + Len(file.pattern) <= ModuleSize
          /\ \E i \in 1 .. Len(file.results) : file.results[i] = [relative |-> TRUE, value |-> o]
          /\ MatchesAt(file.pattern, module + o)
          /\ file.pattern \in Patterns
      BY <2>3, <3>1 DEF AobInv, FileKeeps
    <3>3. a \notin Reach(file.pattern, module + o)
      BY <1>1, <2>3, <3>1
    <3>4. /\ module \in Nat /\ ModuleSize \in Nat /\ module .. (module + ModuleSize - 1) \subseteq Addresses
      BY <1>2, <3>1, AobTypes, AobLimits DEF AobTyped
    <3>5. module + o \in Nat /\ Reach(file.pattern, module + o) \subseteq Addresses
      <4> DEFINE l == Len(file.pattern)
                 h == module + o
      <4>1. l \in Nat /\ o + l <= ModuleSize
        BY <3>2, PatternIs
      <4>2. Reach(file.pattern, h) = h .. (h + l - 1)
        BY DEF Reach
      <4> HIDE DEF l
      <4>3. h .. (h + l - 1) \subseteq module .. (module + ModuleSize - 1) /\ h \in Nat
        BY <3>2, <3>4, <4>1
      <4> QED
        BY <3>4, <4>2, <4>3
    <3>6. SameAt(file.pattern, module + o)
      <4> DEFINE h == module + o
      <4>1. h \in Nat /\ Reach(file.pattern, h) \subseteq Addresses /\ a \notin Reach(file.pattern, h)
        BY <3>3, <3>5
      <4> HIDE DEF h
      <4>2. ASSUME NEW p \in Patterns, p = file.pattern PROVE SameAt(p, h)
        BY <1>1, <1>2, <4>1, <4>2, WriteElsewhere
      <4>3. MatchesAt(file.pattern, h)' <=> MatchesAt(file.pattern, h)
        BY <1>1, <3>2, <4>2 DEF SameAt, MatchesAt
      <4> QED
        BY <1>1, <4>3 DEF h, SameAt, MatchesAt
    <3> QED
      BY <1>1, <3>2, <3>6 DEF SameAt, MatchesAt
  <2> QED
    BY <1>1, <2>1, <2>2, <2>3 DEF AobInv, FileKeeps
<1> QED
  BY <1>3, <1>4, <1>5, <1>7, <1>8, <1>9, <1>10 DEF AobInv

(* Pages come and go: while a search is on, it then has nothing to answer for. *)
LEMMA AobPagesKeeps == ASSUME AobInv, NEW p \in Pages, AobTargetPages(p) PROVE AobInv'
<1>1. /\ lost' \in {lost \cup {p}, lost \ {p}}
      /\ IF searching THEN sure' = {} /\ never' = {} ELSE sure' = sure /\ never' = never
      /\ UNCHANGED <<memory, partial, module, sought, scope, hits, searching, ahead, file, lasting>>
  BY DEF AobTargetPages, LosePage, RegainPage, Change
<1>2. TargetTyped'
  BY <1>1 DEF AobInv, TargetTyped
<1>3. AobTyped'
  BY <1>1 DEF AobInv, AobTyped
<1>4. WalkAhead'
  BY <1>1 DEF AobInv, WalkAhead, SoundChunk, Ahead
<1>5. SureComes' /\ NeverComes'
  <2>1. CASE searching
    BY <1>1, <2>1 DEF SureComes, NeverComes
  <2>2. CASE ~searching
    <3>1. ahead = <<>> /\ 1 .. Len(ahead) = {}
      BY <2>2 DEF AobInv, WalkAhead
    <3>2. sure' = sure /\ never' = never
      BY <1>1, <2>2
    <3>3. \A a \in sure : /\ Reach(sought, a) \subseteq Addresses /\ MatchesAt(sought, a)
                          /\ \E i \in 1 .. Len(hits) : hits[i] = a
      BY <3>1 DEF AobInv, SureComes
    <3>4. \A a \in never : \A i \in 1 .. Len(hits) : hits[i] # a
      BY DEF AobInv, NeverComes
    <3>5. SureComes'
      BY <1>1, <3>2, <3>3 DEF SureComes, MatchesAt
    <3>6. NeverComes'
      BY <1>1, <3>1, <3>2, <3>4 DEF NeverComes
    <3> QED
      BY <3>5, <3>6
  <2> QED
    BY <2>1, <2>2
<1>6. ListClimbs'
  BY <1>1 DEF AobInv, ListClimbs
<1>7. FileKeeps'
  BY <1>1 DEF AobInv, FileKeeps, MatchesAt
<1> QED
  BY <1>2, <1>3, <1>4, <1>5, <1>6, <1>7 DEF AobInv

\* The search for a pattern at rest, as it is when another tool is at work.
AobRests ==
    /\ module \in ModuleBases /\ ~searching /\ sought = <<>> /\ scope = Everywhere
    /\ hits = <<>> /\ ahead = <<>> /\ file = Nothing
    /\ sure = {} /\ never = {} /\ lasting = {}

\* The invariant: the search for a pattern keeps its own, if it is the tool at work.
PatternInv == IF tool = "pattern" THEN AobInv /\ searching \in BOOLEAN ELSE AobRests /\ searching = FALSE

(* At first nothing is sought. *)
LEMMA PatternBegins == Init => PatternInv
<1> SUFFICES ASSUME Init PROVE PatternInv
  OBVIOUS
<1>1. AobInit
  BY DEF Init
<1>2. AobRests /\ searching = FALSE
  BY <1>1 DEF AobInit, AobRests
<1>3. ASSUME tool = "pattern" PROVE AobInv
  <2>1. memory \in Memories /\ lost \in Gaps /\ partial = (lost # {})
    BY <1>3 DEF Init
  <2>2. TargetTyped
    BY <2>1, TargetBeginnings DEF TargetTyped
  <2>4. hits \in Seq(Addresses) /\ Len(hits) <= MaxHits
    BY <1>2, AobLimits DEF AobRests
  <2>5. AobTyped
    BY <1>2, <2>4, EverywhereIs DEF AobRests, AobTyped
  <2>6. WalkAhead /\ SureComes /\ NeverComes /\ ListClimbs /\ FileKeeps
    BY <1>2 DEF AobRests, WalkAhead, SureComes, NeverComes, ListClimbs, FileKeeps
  <2> QED
    BY <2>2, <2>5, <2>6 DEF AobInv
<1> QED
  BY <1>2, <1>3 DEF PatternInv

(* A step of the search for a pattern keeps its invariant. *)
LEMMA AobStep == ASSUME AobInv, AobNext PROVE AobInv'
<1>1. ASSUME NEW pattern \in Patterns, NEW s \in Scopes, NEW range \in Ranges, Aob(pattern, s, range)
      PROVE  AobInv'
  BY <1>1, BeginSearchKeeps DEF Aob, Command
<1>2. ASSUME NEW to \in ModuleBases, AobReattach(to) PROVE AobInv'
  BY <1>2, AobReattachKeeps
<1>3. ASSUME NEW range \in Ranges, AobRerun(range) PROVE AobInv'
  <2> DEFINE pattern == file.pattern
             s == file.scope
  <2>1. ~searching /\ file # Nothing /\ BeginSearch(pattern, s, range)
    BY <1>3 DEF AobRerun, Command
  <2>2. pattern \in Patterns /\ s \in Scopes
    BY <2>1 DEF AobInv, FileKeeps
  <2>3. ASSUME NEW p \in Patterns, NEW z \in Scopes, BeginSearch(p, z, range) PROVE AobInv'
    BY <2>1, <2>3, BeginSearchKeeps
  <2> HIDE DEF pattern, s
  <2> QED
    BY <2>1, <2>2, <2>3
<1>4. ASSUME NEW a \in Addresses, NEW b \in 0 .. (Base - 1), AobTargetWrites(a, b) PROVE AobInv'
  BY <1>4, AobWritesKeeps
<1>5. ASSUME NEW p \in Pages, AobTargetPages(p) PROVE AobInv'
  BY <1>5, AobPagesKeeps
<1> QED
  BY <1>1, <1>2, <1>3, <1>4, <1>5, SearchChunkKeeps, SearchEndsKeeps, AobClearKeeps, AobSaveKeeps, AobLoadKeeps
  DEF AobNext

(* Without a step everything stays. *)
LEMMA AobStays == ASSUME AobInv, UNCHANGED <<target, aobVars>> PROVE AobInv'
<1>1. UNCHANGED <<memory, lost, partial, module, sought, scope, hits, searching, ahead, file, sure, never, lasting>>
  BY DEF target, aobVars
<1>2. TargetTyped' /\ AobTyped'
  BY <1>1 DEF AobInv, TargetTyped, AobTyped
<1>3. WalkAhead'
  BY <1>1 DEF AobInv, WalkAhead, SoundChunk, Ahead
<1>4. SureComes' /\ NeverComes'
  BY <1>1 DEF AobInv, SureComes, NeverComes, Shows, Open, InReach, MatchesAt
<1>5. ListClimbs' /\ FileKeeps'
  BY <1>1 DEF AobInv, ListClimbs, FileKeeps, MatchesAt
<1> QED
  BY <1>2, <1>3, <1>4, <1>5 DEF AobInv

(* Every step keeps the invariant. *)
LEMMA PatternStep == ASSUME PatternInv, [Next]_vars PROVE PatternInv'
<1>1. tool' = tool /\ (tool = "pattern" => AobNext \/ UNCHANGED <<target, aobVars>>)
      /\ (tool # "pattern" => UNCHANGED aobVars)
  BY DEF Next, vars
<1>2. CASE tool = "pattern"
  <2>1. AobInv
    BY <1>2 DEF PatternInv
  <2>2. AobInv'
    BY <1>1, <1>2, <2>1, AobStep, AobStays
  <2> QED
    BY <1>1, <1>2, <2>2 DEF PatternInv, AobInv, AobTyped
<1>3. CASE tool # "pattern"
  <2>1. UNCHANGED <<module, sought, scope, hits, searching, ahead, file, sure, never, lasting>>
    BY <1>1, <1>3 DEF aobVars
  <2> QED
    BY <1>1, <1>3, <2>1 DEF PatternInv, AobRests
<1> QED
  BY <1>2, <1>3

(* A search for a pattern (AobScanner::scan) finds what is there to find and nothing      *)
(* else: done, its list is ascending without a repetition, has every match that stayed in  *)
(* reach and unchanged while it ran, unless it stopped at its limit, and no address that   *)
(* was none; and what aob-load shows in the module is where the pattern still stands.      *)
THEOREM SpecAobExact == Spec => []AobExact
<1>1. ASSUME PatternInv PROVE AobExact
  <2>1. CASE tool = "pattern"
    <3> SUFFICES ASSUME ~searching
                 PROVE  /\ sure \subseteq Range(hits)
                        /\ Range(hits) \cap never = {}
                        /\ \A a \in sure : MatchesAt(sought, a)
                        /\ never # {} => \A i \in 1 .. (Len(hits) - 1) : hits[i] < hits[i + 1]
      BY DEF AobExact
    <3>1. AobInv
      BY <1>1, <2>1 DEF PatternInv
    <3>2. 1 .. Len(ahead) = {}
      BY <3>1 DEF AobInv, WalkAhead
    <3>3. Len(hits) \in Nat /\ DOMAIN hits = 1 .. Len(hits)
      BY <3>1 DEF AobInv, AobTyped
    <3>4. Range(hits) = {hits[i] : i \in 1 .. Len(hits)}
      BY <3>3 DEF Range
    <3>5. \A a \in sure : MatchesAt(sought, a) /\ \E i \in 1 .. Len(hits) : hits[i] = a
      BY <3>1, <3>2 DEF AobInv, SureComes
    <3>6. \A a \in never : \A i \in 1 .. Len(hits) : hits[i] # a
      BY <3>1 DEF AobInv, NeverComes
    <3>7. ASSUME never # {}, NEW i \in 1 .. (Len(hits) - 1) PROVE hits[i] < hits[i + 1]
      <4>1. Increasing(hits)
        BY <3>1, <3>7 DEF AobInv, ListClimbs
      <4>2. i \in DOMAIN hits /\ i + 1 \in DOMAIN hits /\ i < i + 1
        BY <3>3
      <4> QED
        BY <4>1, <4>2 DEF Increasing
    <3> QED
      BY <3>4, <3>5, <3>6, <3>7
  <2>2. CASE tool # "pattern"
    BY <1>1, <2>2 DEF PatternInv, AobRests, AobExact, Range
  <2> QED
    BY <2>1, <2>2
<1> QED
  BY <1>1, PatternBegins, PatternStep, PTL DEF Spec

(* The list of matches is never longer than kMaxResults, however many a chunk has. *)
THEOREM SpecAobTypeOK == Spec => []AobTypeOK
<1>1. ASSUME PatternInv PROVE AobTypeOK
  <2>1. CASE tool = "pattern"
    <3>1. AobInv
      BY <1>1, <2>1 DEF PatternInv
    <3>2. hits \in Seq(Int)
      <4>1. hits \in Seq(Addresses) /\ Len(hits) \in Nat /\ DOMAIN hits = 1 .. Len(hits)
        BY <3>1 DEF AobInv, AobTyped
      <4>2. \A i \in 1 .. Len(hits) : hits[i] \in Int
        <5>1. \A i \in 1 .. Len(hits) : hits[i] \in Addresses
          BY <4>1, ElementOfSeq
        <5>2. \A a \in Addresses : a \in Int
          BY AddressesAre
        <5> QED
          BY <5>1, <5>2
      <4>3. hits = [i \in 1 .. Len(hits) |-> hits[i]]
        BY <4>1
      <4>4. hits \in [1 .. Len(hits) -> Int]
        BY <4>2, <4>3
      <4> QED
        BY <4>1, <4>4, FunctionsAreSequences
    <3> QED
      BY <3>1, <3>2 DEF AobInv, AobTyped, FileKeeps, AobTypeOK
  <2>2. CASE tool # "pattern"
    <3>1. AobRests /\ searching = FALSE
      BY <1>1, <2>2 DEF PatternInv
    <3>2. hits \in Seq(Int) /\ Len(hits) <= MaxHits
      BY <3>1, AobLimits DEF AobRests
    <3> QED
      BY <3>1, <3>2, EverywhereIs DEF AobRests, AobTypeOK
  <2> QED
    BY <2>1, <2>2
<1> QED
  BY <1>1, PatternBegins, PatternStep, PTL DEF Spec

-----------------------------------------------------------------------------
(* The scan for values. *)

Block == [base : Nat, size : Nat, starts : Nat, bytes : Seq(Nat), active : [Types -> SUBSET Nat]]

\* A block is a part of the target, its candidates begin in what is its own and end within it.
SoundBlock(b) ==
    /\ b \in Block /\ b.size = Len(b.bytes) /\ b.starts <= b.size
    /\ \A x \in 0 .. (b.size - 1) : b.base + x \in Addresses
    /\ \A t \in Types : \A o \in b.active[t] : o < b.starts /\ o + Width[t] <= b.size

\* Blocks one after the other.
BlockList(s) ==
    /\ s \in Seq(Block) /\ \A i \in 1 .. Len(s) : SoundBlock(s[i])
    /\ \A i, j \in 1 .. Len(s) : i < j => s[i].base + s[i].starts <= s[j].base

\* Results one after the other, no cell twice.
InLine(s) == \A i, j \in 1 .. Len(s) : i < j => Before(s[i], s[j])

ChunkList(s) ==
    /\ s \in Seq(Chunk) /\ \A i \in 1 .. Len(s) : SoundChunk(s[i])
    /\ \A i, j \in 1 .. Len(s) : i < j => Ahead(s[i], s[j])

ScanTyped ==
    /\ scan \in ScanType \cup {None} /\ (scan # None => scan.types # {})
    /\ results \in Seq(ResultType) /\ Len(results) <= MaxResults
    /\ BlockList(blocks)
    /\ claim \in [in : SUBSET ResultType, out : SUBSET (Addresses \X Types)]

\* What holds when no request is at work.
ScanRests ==
    scan # None => /\ claim.in \subseteq Found
                   /\ \A r \in Found : <<r.address, r.type>> \notin claim.out
                   /\ InLine(results)
                   /\ scan.snapshot => results = <<>>

JobTyped ==
    /\ job \in JobType /\ job.types # {}
    /\ ~job.mixed /\ job.kind = "list" => \E t \in Types : job.types = {t}

\* How far each kind of request is.
ListWork ==
    job.kind = "list" =>
        /\ ChunkList(todo)
        /\ \A i \in 1 .. Len(results) : results[i].previous = job.wanted /\ results[i].type \in job.types
        /\ ~job.mixed => /\ InLine(results)
                         /\ \A i \in 1 .. Len(results), j \in 1 .. Len(todo) : results[i].address < todo[j].base
SnapshotWork ==
    job.kind = "snapshot" =>
        /\ ChunkList(todo) /\ results = <<>>
        /\ \A i \in 1 .. Len(blocks), j \in 1 .. Len(todo) : blocks[i].base + blocks[i].starts <= todo[j].base
EntriesWork ==
    job.kind = "entries" =>
        /\ scan # None /\ ~scan.snapshot
        /\ todo \in Seq(ResultType) /\ kept \in Seq(ResultType) /\ Len(kept) + Len(todo) <= MaxResults
        /\ InLine(todo) /\ InLine(kept)
        /\ \A i \in 1 .. Len(kept), j \in 1 .. Len(todo) : Before(kept[i], todo[j])
BlocksWork ==
    job.kind = "blocks" =>
        /\ scan # None /\ scan.snapshot /\ results = <<>>
        /\ BlockList(kept) /\ BlockList(todo)
        /\ \A i \in 1 .. Len(kept), j \in 1 .. Len(todo) : kept[i].base + kept[i].starts <= todo[j].base
Working == JobTyped /\ ListWork /\ SnapshotWork /\ EntriesWork /\ BlocksWork

\* A cell of one of some types lies in the own part of chunk c, in reach.
DueIn(c, a, t, types, small) ==
    /\ t \in types /\ c.base <= a /\ a < c.base + Primary(c) /\ a + Width[t] <= c.end
    /\ a % Stride(t, small) = 0 /\ Whole(<<a, t>>)
Due(c, a, t) == DueIn(c, a, t, job.types, byByte)

\* What is there now is what r has.
IsNow(r) == r.previous = ValueNow(r.address, r.type)

\* Block b has r's cell for a candidate, which stays.
Holds(b, r) ==
    \E o \in b.active[r.type] :
        /\ r.address = b.base + o /\ Whole(<<r.address, r.type>>)
        /\ Survives(r.type, r.previous, Number(SubSeq(b.bytes, o + 1, o + Width[r.type])))

\* Were nothing to change any more, r would come from x: a chunk, a result or a block ahead.
Comes(x, r) ==
    /\ job.kind = "list"     => Due(x, r.address, r.type) /\ r.previous = job.wanted
    /\ job.kind = "snapshot" => Due(x, r.address, r.type)
    /\ job.kind = "entries"  => /\ r.address = x.address /\ r.type = x.type /\ Whole(<<r.address, r.type>>)
                                /\ Survives(r.type, r.previous, x.previous)
    /\ job.kind = "blocks"   => Holds(x, r)
    /\ IsNow(r)

\* And it is not hidden behind a page out of reach.
Plain(x, r) ==
    /\ job.kind \in {"list", "snapshot"} => Open(x)
    /\ job.kind = "blocks" => lost = {} \/ (OnePage(<<r.address, r.type>>) /\ x.base % PageSize = 0)

\* What has come so far.
Has(r) ==
    /\ job.kind = "list"     => \E i \in 1 .. Len(results) : results[i] = r
    /\ job.kind = "snapshot" => \E i \in 1 .. Len(blocks) : r \in Held(blocks[i])
    /\ job.kind = "entries"  => \E i \in 1 .. Len(kept) : kept[i] = r
    /\ job.kind = "blocks"   => \E i \in 1 .. Len(kept) : r \in Held(kept[i])

InComes ==
    \A r \in claim.in : Has(r) \/ \E i \in 1 .. Len(todo) : Comes(todo[i], r) /\ Plain(todo[i], r)
OutStays ==
    \A r \in ResultType : <<r.address, r.type>> \in claim.out =>
        ~Has(r) /\ \A i \in 1 .. Len(todo) : ~Comes(todo[i], r)

ScanInv ==
    /\ TargetTyped /\ ScanTyped
    /\ IF job = None THEN ScanRests ELSE Working /\ InComes /\ OutStays

-----------------------------------------------------------------------------
(* Widths, numbers and bytes. *)

(* A finite set of numbers has a greatest one. *)
LEMMA MostIs ==
    ASSUME NEW S \in SUBSET Nat, IsFiniteSet(S), S # {}
    PROVE  Most(S) \in S /\ \A x \in S : x <= Most(S)
<1> DEFINE f == Ordered(S)
           n == Len(f)
<1>1. f \in Seq(S) /\ Increasing(f) /\ \A a \in S : \E i \in 1 .. n : f[i] = a
  BY OrderedIs, OrderedHas
<1>2. n \in Nat /\ DOMAIN f = 1 .. n /\ \A i \in 1 .. n : f[i] \in S
  BY <1>1, ElementOfSeq
<1> HIDE DEF f, n
<1>3. PICK a \in S : TRUE
  OBVIOUS
<1>4. n \in 1 .. n
  BY <1>1, <1>2, <1>3
<1>5. f[n] \in S /\ f[n] \in Nat
  BY <1>2, <1>4
<1>6. ASSUME NEW x \in S PROVE x <= f[n]
  <2>1. PICK i \in 1 .. n : f[i] = x
    BY <1>1
  <2>2. i = n \/ f[i] < f[n]
    BY <1>1, <1>2, <1>4 DEF Increasing
  <2> QED
    BY <1>5, <2>1, <2>2
<1> QED
  BY <1>5, <1>6 DEF Most

(* The types are finitely many, each of some width. *)
LEMMA TypesAre ==
    /\ Types \in SUBSET Nat /\ IsFiniteSet(Types) /\ Types # {}
    /\ \A t \in Types : Width[t] \in Nat \ {0}
<1>1. Width \in Seq(Nat \ {0}) /\ Width # <<>>
  BY WidthAssumption
<1>2. Len(Width) \in Nat /\ Types = 1 .. Len(Width) /\ \A t \in 1 .. Len(Width) : Width[t] \in Nat \ {0}
  BY <1>1, ElementOfSeq DEF Types
<1>3. 1 .. Len(Width) # {}
  <2>1. Len(Width) # 0
    BY <1>1, EmptySeq
  <2>2. 1 \in 1 .. Len(Width)
    BY <1>2, <2>1
  <2> QED
    BY <2>2
<1>4. IsFiniteSet(1 .. Len(Width))
  BY <1>2, FS_Interval
<1> QED
  BY <1>2, <1>3, <1>4

(* Bytes make a number. *)
LEMMA NumberIs ==
    ASSUME NEW bytes \in Seq(Nat)
    PROVE  Number(bytes) \in Nat
<1> DEFINE n == Len(bytes)
           Step(x, k) == x * Base + bytes[Len(bytes) + 1 - k]
           Is(g) == g = [k \in 0..n |-> IF k = 0 THEN 0 ELSE Step(g[k - 1], k)]
           after == CHOOSE g : Is(g)
           S == [k \in 0..n |-> Nat]
           G == [k \in 1..n |-> [x \in Nat |-> Step(x, k)]]
<1>1. Number(bytes) = after[n]
  BY DEF Loop, Number
<1> HIDE DEF after
<1>2. n \in Nat
  OBVIOUS
<1>3. ASSUME NEW k \in 1..n, NEW x \in Nat PROVE Step(x, k) \in Nat
  <2>1. n + 1 - k \in 1..n
    BY <1>2
  <2>2. bytes[n + 1 - k] \in Nat
    BY <2>1, ElementOfSeq
  <2>3. x * Base \in Nat
    BY WalkSizes
  <2> QED
    BY <2>2, <2>3
<1> HIDE DEF n, Step
<1>4. \A k \in 1..n : \A x \in S[k - 1] : G[k][x] = Step(x, k) /\ G[k][x] \in S[k]
  <2>1. \A k \in 1..n : k - 1 \in 0..n /\ k \in 0..n
    BY <1>2
  <2> QED
    BY <1>3, <2>1
<1>5. 0 \in S[0] /\ S[n] = Nat
  BY <1>2
<1> HIDE DEF S, G
<1>6. \E g : Is(g)
  <2>1. PICK f : Stages(f, n, 0, G, S)
    <3>1. Leads(n, 0, G, S)
      BY <1>4, <1>5 DEF Leads
    <3> QED
      BY <1>2, <3>1, StagesAre
  <2> DEFINE g == [k \in 0..n |-> f[k]]
  <2>2. ASSUME NEW k \in 0..n PROVE f[k] = IF k = 0 THEN 0 ELSE Step(g[k - 1], k)
    <3>1. CASE k # 0
      <4>1. k \in 1..n /\ k - 1 \in 0..n
        BY <1>2, <3>1
      <4> QED
        BY <2>1, <4>1, <1>4 DEF Stages
    <3> QED
      BY <3>1, <2>1 DEF Stages
  <2>3. Is(g)
    BY <2>2
  <2> QED
    BY <2>3
<1>7. Is(after)
  BY <1>6 DEF after
<1>8. after[0] = 0 /\ \A k \in 1..n : after[k] = Step(after[k - 1], k)
  <2>1. 0 \in 0..n /\ \A k \in 1..n : k \in 0..n /\ k # 0
    BY <1>2
  <2> QED
    BY <1>7, <2>1
<1>9. \A k \in 0..n : after[k] \in S[k]
  <2>1. after[0] \in S[0] /\ \A k \in 1..n : after[k - 1] \in S[k - 1] => after[k] \in S[k]
    <3>1. ASSUME NEW k \in 1..n, after[k - 1] \in S[k - 1] PROVE after[k] \in S[k]
      BY <1>4, <1>8, <3>1
    <3> QED
      BY <1>5, <1>8, <3>1
  <2> QED
    BY <1>2, <2>1, StagesStay
<1>10. n \in 0..n
  BY <1>2
<1> QED
  BY <1>1, <1>5, <1>9, <1>10

(* What is read is numbers. *)
LEMMA BytesAre ==
    ASSUME TargetTyped, NEW a \in Nat, NEW n \in Nat, \A k \in 0 .. (n - 1) : a + k \in Addresses
    PROVE  BytesAt(a, n) \in Seq(Nat) /\ Len(BytesAt(a, n)) = n
<1> DEFINE f == BytesAt(a, n)
<1>1. ASSUME NEW k \in 1 .. n PROVE memory[a + k - 1] \in Nat
  <2>1. k - 1 \in 0 .. (n - 1) /\ a + (k - 1) = a + k - 1
    OBVIOUS
  <2>2. a + k - 1 \in Addresses
    BY <2>1
  <2>3. memory[a + k - 1] \in 0 .. (Base - 1)
    BY <2>2 DEF TargetTyped
  <2> QED
    BY <2>3
<1>2. f = [k \in 1 .. n |-> memory[a + k - 1]]
  BY DEF BytesAt
<1>3. f \in [1 .. n -> Nat]
  BY <1>1, <1>2
<1> QED
  BY <1>3, FunctionsAreSequences

\* w bytes from place o on.
Part(s, o, w) == SubSeq(s, o + 1, o + w)

(* A part of what is read is what is read of that part. *)
LEMMA PartIs ==
    ASSUME NEW a \in Nat, NEW n \in Nat, NEW o \in Nat, NEW w \in Nat, o + w <= n
    PROVE  Part(BytesAt(a, n), o, w) = BytesAt(a + o, w)
<1>1. SubSeq(BytesAt(a, n), o + 1, o + w) = [k \in 1 .. (o + w - (o + 1) + 1) |-> BytesAt(a, n)[k + (o + 1) - 1]]
  BY DEF SubSeq
<1>2. o + w - (o + 1) + 1 = w
  OBVIOUS
<1>3. ASSUME NEW k \in 1 .. w PROVE BytesAt(a, n)[k + (o + 1) - 1] = memory[(a + o) + k - 1]
  <2>1. k + (o + 1) - 1 \in 1 .. n /\ k + (o + 1) - 1 = k + o /\ a + (k + o) - 1 = (a + o) + k - 1
    OBVIOUS
  <2> QED
    BY <2>1 DEF BytesAt
<1> QED
  BY <1>1, <1>2, <1>3 DEF BytesAt, Part

\* A cell all of whose bytes are memory.
InMemory(a, t) == a \in Nat /\ t \in Types /\ \A k \in 0 .. (Width[t] - 1) : a + k \in Addresses

(* The value of a cell is a number. *)
LEMMA ValueIs ==
    ASSUME TargetTyped, NEW a, NEW t, InMemory(a, t)
    PROVE  ValueNow(a, t) \in Nat
<1>1. a \in Nat /\ Width[t] \in Nat /\ \A k \in 0 .. (Width[t] - 1) : a + k \in Addresses
  BY TypesAre DEF InMemory
<1>2. BytesAt(a, Width[t]) \in Seq(Nat)
  BY <1>1, BytesAre
<1> QED
  BY <1>2, NumberIs DEF ValueNow

(* What is in reach is memory. *)
LEMMA WholeIs ==
    ASSUME NEW a \in Nat, NEW t \in Types
    PROVE  /\ Whole(<<a, t>>) <=> \A k \in 0 .. (Width[t] - 1) : InReach(a + k)
           /\ Whole(<<a, t>>) => InMemory(a, t)
<1>1. Width[t] \in Nat
  BY TypesAre
<1> DEFINE w == Width[t]
<1> HIDE DEF w
<1>2. ASSUME NEW x \in a .. (a + w - 1) PROVE \E k \in 0 .. (w - 1) : x = a + k
  <2>1. x - a \in 0 .. (w - 1) /\ x = a + (x - a)
    BY <1>1 DEF w
  <2> QED
    BY <2>1
<1>3. \A k \in 0 .. (w - 1) : a + k \in a .. (a + w - 1)
  BY <1>1 DEF w
<1>4. Whole(<<a, t>>) <=> \A x \in a .. (a + w - 1) : InReach(x)
  BY DEF Whole, Span, w
<1>5. Whole(<<a, t>>) <=> \A k \in 0 .. (w - 1) : InReach(a + k)
  BY <1>2, <1>3, <1>4
<1> QED
  BY <1>5 DEF InMemory, InReach, w

-----------------------------------------------------------------------------
(* What a chunk or a block holds. *)

\* s has each result of S once, in order.
Listed(s, S) ==
    /\ s \in Seq(S) /\ Cardinality(S) \in Nat /\ Len(s) = Cardinality(S) /\ InLine(s)
    /\ \A i \in 1 .. Len(s) : s[i] \in S
    /\ \A r \in S : \E i \in 1 .. Len(s) : s[i] = r

\* No cell twice.
Apart(S) == \A r, s \in S : r.address = s.address /\ r.type = s.type => r = s

(* Finitely many results, no cell twice, have an order. *)
LEMMA InOrderIs ==
    ASSUME NEW S, IsFiniteSet(S), \A r \in S : r.address \in Nat /\ r.type \in Nat, Apart(S)
    PROVE  Listed(InOrder(S), S)
<1> DEFINE R == {p \in S \X S : Before(p[1], p[2])}
           s == InOrder(S)
<1>1. \A c, d \in S : <<c, d>> \in R <=> Before(c, d)
  OBVIOUS
<1>2. \A c \in S : {d \in S : Before(d, c)} = {d \in S : <<d, c>> \in R}
  BY <1>1
<1>3. s = [i \in 1 .. Cardinality(S) |-> CHOOSE c \in S : Cardinality({d \in S : Before(d, c)}) = i - 1]
  BY DEF InOrder, OrderedBy
<1> HIDE DEF R, s
<1>4. ASSUME NEW c \in S, NEW d \in S, NEW e \in S
      PROVE  /\ <<c, c>> \notin R
             /\ c = d \/ <<c, d>> \in R \/ <<d, c>> \in R
             /\ <<c, d>> \in R /\ <<d, e>> \in R => <<c, e>> \in R
  <2>1. /\ c.address \in Nat /\ c.type \in Nat /\ d.address \in Nat /\ d.type \in Nat
        /\ e.address \in Nat /\ e.type \in Nat
    OBVIOUS
  <2>2. ~Before(c, c) /\ (Before(c, d) /\ Before(d, e) => Before(c, e))
    BY <2>1 DEF Before
  <2>3. (c.address = d.address /\ c.type = d.type) \/ Before(c, d) \/ Before(d, c)
    BY <2>1 DEF Before
  <2>4. c = d \/ Before(c, d) \/ Before(d, c)
    BY <2>3 DEF Apart
  <2> QED
    BY <1>1, <2>2, <2>4
<1>5. Orders(R, S)
  BY <1>4 DEF Orders
<1>6. s = ListOf(S, R)
  <2>1. \A i \in 1 .. Cardinality(S) :
          (CHOOSE c \in S : Cardinality({d \in S : Before(d, c)}) = i - 1)
          = CHOOSE c \in S : Cardinality({d \in S : <<d, c>> \in R}) = i - 1
    BY <1>2
  <2>2. ListOf(S, R) = [i \in 1 .. Cardinality(S) |->
            CHOOSE c \in S : Cardinality({d \in S : <<d, c>> \in R}) = i - 1]
    BY DEF ListOf
  <2> QED
    BY <1>3, <2>1, <2>2, Zenon
<1>7. ListsOnce(s, S, R)
  BY <1>5, <1>6, ListIs
<1>8. Listed(s, S)
  BY <1>1, <1>7 DEF ListsOnce, Listed, InLine
<1> QED
  BY <1>8 DEF s

(* A read reaches as far beyond a chunk as the widest of its values. *)
LEMMA OverlapIs ==
    ASSUME JobTyped
    PROVE  Overlap \in Nat /\ \A t \in job.types : t \in Types /\ Width[t] <= Overlap + 1
<1> DEFINE T == IF job.mixed THEN Types ELSE job.types
           W == {Width[t] : t \in T}
<1>1. job.types \in SUBSET Types /\ job.types # {}
  BY DEF JobTyped, JobType
<1>2. T \in SUBSET Types /\ T # {} /\ \A t \in job.types : t \in T
  BY <1>1, TypesAre
<1>3. Overlap = Most(W) - 1
  BY DEF Overlap, Widest
<1> HIDE DEF T
<1>4. W \in SUBSET (Nat \ {0}) /\ W # {} /\ W \in SUBSET Nat
  BY <1>2, TypesAre
<1>5. IsFiniteSet(W)
  <2> DEFINE f == [t \in T |-> Width[t]]
  <2>1. IsFiniteSet(T)
    BY <1>2, TypesAre, FS_Subset
  <2>2. W = {f[t] : t \in T}
    OBVIOUS
  <2> HIDE DEF f
  <2> QED
    BY <2>1, <2>2, ImageIs
<1>6. \A t \in T : Width[t] \in W
  OBVIOUS
<1> HIDE DEF W
<1>7. Most(W) \in W /\ \A x \in W : x <= Most(W)
  BY <1>4, <1>5, MostIs
<1>8. Most(W) \in Nat \ {0}
  BY <1>4, <1>7
<1> DEFINE m == Most(W)
<1>9. ASSUME NEW t \in job.types PROVE t \in Types /\ Width[t] <= m
  BY <1>2, <1>6, <1>7, <1>9
<1> HIDE DEF m
<1>10. m \in Nat \ {0} /\ Overlap = m - 1
  BY <1>3, <1>8 DEF m
<1>11. Overlap \in Nat /\ Overlap + 1 = m
  BY <1>10
<1> QED
  BY <1>9, <1>11

\* What block b knows of its candidate at o.
Known(b, o, t) == Number(SubSeq(b.bytes, o + 1, o + Width[t]))

(* The candidates of a block. *)
LEMMA HeldIs ==
    ASSUME NEW b, SoundBlock(b)
    PROVE  /\ \A r : r \in Held(b) <=> \E t \in Types : \E o \in b.active[t] : r = Result(b.base + o, t, Known(b, o, t))
           /\ \A r \in Held(b) : r \in ResultType /\ b.base <= r.address /\ r.address < b.base + b.starts
           /\ Apart(Held(b))
           /\ \A t \in Types : \A o \in b.active[t] :
                 /\ o \in Nat /\ o < b.starts /\ o + Width[t] <= b.size /\ Known(b, o, t) \in Nat
                 /\ Result(b.base + o, t, Known(b, o, t)) \in ResultType
                 /\ InMemory(b.base + o, t)
<1>1. /\ b \in Block /\ b.size = Len(b.bytes) /\ b.starts <= b.size
      /\ \A x \in 0 .. (b.size - 1) : b.base + x \in Addresses
      /\ \A t \in Types : \A o \in b.active[t] : o < b.starts /\ o + Width[t] <= b.size
  BY DEF SoundBlock
<1>2. b.base \in Nat /\ b.size \in Nat /\ b.starts \in Nat /\ b.bytes \in Seq(Nat) /\ b.active \in [Types -> SUBSET Nat]
  BY <1>1 DEF Block
<1>3. \A r : r \in Held(b) <=> \E t \in Types : \E o \in b.active[t] : r = Result(b.base + o, t, Known(b, o, t))
  BY DEF Held, Known
<1>4. ASSUME NEW t \in Types, NEW o \in b.active[t]
      PROVE  /\ o \in Nat /\ o < b.starts /\ o + Width[t] <= b.size /\ Known(b, o, t) \in Nat
             /\ Result(b.base + o, t, Known(b, o, t)) \in ResultType
             /\ InMemory(b.base + o, t)
  <2> DEFINE w == Width[t]
             n == b.size
             p == b.base
  <2>1. o \in Nat /\ o < b.starts /\ o + w <= n /\ w \in Nat \ {0} /\ n \in Nat /\ p \in Nat
    BY <1>1, <1>2, TypesAre
  <2>2. \A x \in 0 .. (n - 1) : p + x \in Addresses
    BY <1>1
  <2>3. b.bytes \in Seq(Nat) /\ Len(b.bytes) = n
    BY <1>1, <1>2
  <2> HIDE DEF w, n, p
  <2>4. SubSeq(b.bytes, o + 1, o + w) \in Seq(Nat)
    <3>1. o + w \in Nat /\ o <= o + w
      BY <2>1
    <3> QED
      BY <2>1, <2>3, <3>1, Slice
  <2>5. Known(b, o, t) \in Nat
    BY <2>4, NumberIs DEF Known, w
  <2>6. ASSUME NEW k \in 0 .. (w - 1) PROVE (p + o) + k \in Addresses
    <3>1. o + k \in 0 .. (n - 1) /\ p + (o + k) = (p + o) + k
      BY <2>1
    <3> QED
      BY <2>2, <3>1
  <2>7. p + o \in Nat /\ 0 \in 0 .. (w - 1) /\ (p + o) + 0 = p + o
    BY <2>1
  <2>8. p + o \in Addresses
    BY <2>6, <2>7
  <2>9. Result(p + o, t, Known(b, o, t)) \in ResultType
    BY <2>5, <2>8 DEF Result, ResultType
  <2> QED
    BY <2>1, <2>5, <2>6, <2>7, <2>9 DEF InMemory, w, n, p
<1>5. ASSUME NEW r \in Held(b) PROVE r \in ResultType /\ b.base <= r.address /\ r.address < b.base + b.starts
  <2>0. PICK t \in Types : \E o \in b.active[t] : r = Result(b.base + o, t, Known(b, o, t))
    BY <1>3
  <2>1. PICK o \in b.active[t] : r = Result(b.base + o, t, Known(b, o, t))
    BY <2>0
  <2>2. o \in Nat /\ o < b.starts /\ r \in ResultType
    BY <1>4, <2>1
  <2>3. r.address = b.base + o
    BY <2>1 DEF Result
  <2> QED
    BY <1>2, <2>2, <2>3
<1>6. ASSUME NEW r \in Held(b), NEW s \in Held(b), r.address = s.address, r.type = s.type PROVE r = s
  <2>0. PICK t \in Types : \E o \in b.active[t] : r = Result(b.base + o, t, Known(b, o, t))
    BY <1>3
  <2>1. PICK o \in b.active[t] : r = Result(b.base + o, t, Known(b, o, t))
    BY <2>0
  <2>20. PICK u \in Types : \E p \in b.active[u] : s = Result(b.base + p, u, Known(b, p, u))
    BY <1>3
  <2>2. PICK p \in b.active[u] : s = Result(b.base + p, u, Known(b, p, u))
    BY <2>20
  <2>3. t = u /\ b.base + o = b.base + p
    BY <1>6, <2>1, <2>2 DEF Result
  <2>4. o \in Nat /\ p \in Nat
    BY <1>4
  <2>5. o = p
    BY <1>2, <2>3, <2>4
  <2> QED
    BY <2>1, <2>2, <2>3, <2>5
<1> QED
  BY <1>3, <1>4, <1>5, <1>6 DEF Apart

(* What a read of a chunk has for candidates is due from it. *)
LEMMA CandidateIs ==
    ASSUME TargetTyped, JobTyped, NEW c, SoundChunk(c), NEW v \in ReadSet(c, Overlap),
           NEW t \in job.types, NEW o \in Candidates(v, t)
    PROVE  /\ o \in Nat /\ o < v.starts /\ o + Width[t] <= v.size /\ v.base \in Nat /\ t \in Types
           /\ Due(c, v.base + o, t) /\ ValueNow(v.base + o, t) \in Nat
           /\ Result(v.base + o, t, ValueNow(v.base + o, t)) \in ResultType
<1> DEFINE w == Width[t]
           own == Primary(c)
<1>1. /\ v.base \in Nat /\ v.size \in Nat \ {0} /\ v.starts \in Nat \ {0} /\ v.starts <= v.size
      /\ c.base <= v.base /\ v.base + v.starts <= c.base + own /\ v.base + v.size <= c.end
      /\ \A k \in 0 .. (v.size - 1) : InReach(v.base + k)
  BY OverlapIs, ReadsAre DEF SoundRead
<1>2. t \in Types /\ w \in Nat \ {0}
  BY OverlapIs, TypesAre
<1>3. o \in 0 .. (v.starts - 1) /\ (v.base + o) % Stride(t, byByte) = 0 /\ o + w <= v.size
  BY DEF Candidates
<1>4. c.base \in Nat /\ c.end \in Nat /\ own \in Nat
  BY PrimaryIs DEF SoundChunk, Chunk
<1> HIDE DEF w, own
<1> DEFINE a == v.base + o
<1>5. o \in Nat /\ o < v.starts /\ a \in Nat
  BY <1>1, <1>3
<1>6. ASSUME NEW k \in 0 .. (w - 1) PROVE InReach(a + k)
  <2>1. o + k \in 0 .. (v.size - 1) /\ v.base + (o + k) = a + k
    BY <1>1, <1>2, <1>3, <1>5
  <2> QED
    BY <1>1, <2>1
<1>7. c.base <= a /\ a < c.base + own /\ a + w <= c.end
  BY <1>1, <1>2, <1>3, <1>4
<1>8. a % Stride(t, byByte) = 0
  BY <1>3
<1> HIDE DEF a
<1>9. Whole(<<a, t>>) /\ InMemory(a, t)
  BY <1>2, <1>5, <1>6, WholeIs DEF w
<1>10. Due(c, a, t)
  BY <1>7, <1>8, <1>9 DEF Due, DueIn, w, own
<1>11. ValueNow(a, t) \in Nat
  BY <1>9, ValueIs
<1>12. a \in Addresses
  <2>1. 0 \in 0 .. (w - 1) /\ a + 0 = a
    BY <1>2, <1>5
  <2> QED
    BY <1>6, <2>1 DEF InReach
<1>13. Result(a, t, ValueNow(a, t)) \in ResultType
  BY <1>2, <1>11, <1>12 DEF Result, ResultType
<1> QED
  BY <1>1, <1>2, <1>3, <1>5, <1>10, <1>11, <1>13 DEF a, w

(* What is due from an open chunk, a read of it has for a candidate. *)
LEMMA CandidateFor ==
    ASSUME TargetTyped, JobTyped, NEW c, SoundChunk(c), Open(c), NEW a \in Nat, NEW t, Due(c, a, t)
    PROVE  \E v \in ReadSet(c, Overlap) : \E o \in Candidates(v, t) : a = v.base + o
<1> DEFINE w == Width[t]
<1>1. /\ t \in job.types /\ c.base <= a /\ a < c.base + Primary(c) /\ a + w <= c.end
      /\ a % Stride(t, byByte) = 0 /\ Whole(<<a, t>>)
  BY DEF Due, DueIn
<1>2. t \in Types /\ Overlap \in Nat /\ w <= Overlap + 1 /\ w \in Nat \ {0}
  BY <1>1, OverlapIs, TypesAre
<1>3. \A k \in 0 .. (w - 1) : InReach(a + k)
  BY <1>1, <1>2, WholeIs
<1>4. lost \in SUBSET Pages
  BY DEF TargetTyped
<1> HIDE DEF w
<1>5. PICK v \in ReadSet(c, Overlap) : v.base <= a /\ a < v.base + v.starts /\ a + w <= v.base + v.size
  BY <1>1, <1>2, <1>3, <1>4, ReadFor
<1>6. v.base \in Nat /\ v.starts \in Nat /\ v.size \in Nat
  BY <1>2, ReadsAre DEF SoundRead
<1> DEFINE o == a - v.base
<1>7. o \in 0 .. (v.starts - 1) /\ a = v.base + o /\ o + w <= v.size
  BY <1>2, <1>5, <1>6
<1>8. o \in Candidates(v, t)
  BY <1>1, <1>7 DEF Candidates, w
<1> QED
  BY <1>7, <1>8

\* What an exact scan finds of type t in read v.
HitSet(v, t) ==
    {Result(v.base + o, t, ValueNow(v.base + o, t)) :
        o \in {p \in Candidates(v, t) : ValueNow(v.base + p, t) = job.wanted}}

\* r is due from chunk c and has the value that is looked for.
Hit(c, r) == r \in ResultType /\ Due(c, r.address, r.type) /\ r.previous = job.wanted /\ IsNow(r)

(* The hits of one type in one read. *)
LEMMA HitsOfTypeIs ==
    ASSUME TargetTyped, JobTyped, NEW c, SoundChunk(c), NEW v \in ReadSet(c, Overlap), NEW t \in job.types
    PROVE  /\ Listed(HitsOfType(v, t), HitSet(v, t))
           /\ \A r \in HitSet(v, t) : Hit(c, r) /\ v.base <= r.address /\ r.address < v.base + v.starts
<1> DEFINE O == {p \in Candidates(v, t) : ValueNow(v.base + p, t) = job.wanted}
           f == [o \in O |-> Result(v.base + o, t, ValueNow(v.base + o, t))]
           H == HitSet(v, t)
<1>1. HitsOfType(v, t) = InOrder(H)
  BY DEF HitsOfType, HitSet
<1>2. H = {f[o] : o \in O}
  BY DEF HitSet
<1>3. \A o \in O : f[o] = Result(v.base + o, t, ValueNow(v.base + o, t))
  OBVIOUS
<1>4. O \in SUBSET Candidates(v, t) /\ \A o \in O : ValueNow(v.base + o, t) = job.wanted
  OBVIOUS
<1>5. IsFiniteSet(Candidates(v, t))
  <2>1. v.starts \in Nat /\ 0 \in Int /\ v.starts - 1 \in Int
    BY OverlapIs, ReadsAre DEF SoundRead
  <2>2. IsFiniteSet(0 .. (v.starts - 1))
    BY <2>1, FS_Interval
  <2>3. Candidates(v, t) \in SUBSET (0 .. (v.starts - 1))
    BY DEF Candidates
  <2> QED
    BY <2>2, <2>3, FS_Subset
<1> HIDE DEF O, f, H
<1>6. IsFiniteSet(H)
  <2>1. IsFiniteSet(O)
    BY <1>4, <1>5, FS_Subset
  <2> QED
    BY <1>2, <2>1, ImageIs
<1>7. ASSUME NEW o \in O
      PROVE  /\ f[o] \in ResultType /\ f[o].address = v.base + o /\ f[o].type = t
             /\ f[o].previous = ValueNow(v.base + o, t) /\ o \in Nat /\ o < v.starts /\ v.base \in Nat
             /\ Due(c, v.base + o, t) /\ ValueNow(v.base + o, t) = job.wanted
  <2>1. o \in Candidates(v, t) /\ ValueNow(v.base + o, t) = job.wanted
    BY <1>4
  <2>2. /\ o \in Nat /\ o < v.starts /\ v.base \in Nat /\ Due(c, v.base + o, t)
        /\ Result(v.base + o, t, ValueNow(v.base + o, t)) \in ResultType
    BY <2>1, CandidateIs
  <2>3. f[o] = Result(v.base + o, t, ValueNow(v.base + o, t))
    BY <1>3
  <2> QED
    BY <2>1, <2>2, <2>3 DEF Result
<1>8. ASSUME NEW r \in H
      PROVE  Hit(c, r) /\ v.base <= r.address /\ r.address < v.base + v.starts
  <2>1. PICK o \in O : r = f[o]
    BY <1>2
  <2>2. Hit(c, r)
    BY <1>7, <2>1 DEF Hit, IsNow
  <2>3. r.address = v.base + o /\ o \in Nat /\ o < v.starts /\ v.base \in Nat
    BY <1>7, <2>1
  <2>4. v.starts \in Nat
    BY OverlapIs, ReadsAre DEF SoundRead
  <2> QED
    BY <2>2, <2>3, <2>4
<1>9. Apart(H)
  <2>1. ASSUME NEW r \in H, NEW s \in H, r.address = s.address, r.type = s.type PROVE r = s
    <3>1. PICK o \in O : r = f[o]
      BY <1>2
    <3>2. PICK p \in O : s = f[p]
      BY <1>2
    <3>3. o \in Nat /\ p \in Nat /\ v.base \in Nat /\ v.base + o = v.base + p
      BY <1>7, <2>1, <3>1, <3>2
    <3>4. o = p
      BY <3>3
    <3> QED
      BY <3>1, <3>2, <3>4
  <2> QED
    BY <2>1 DEF Apart
<1>10. \A r \in H : r.address \in Nat /\ r.type \in Nat
  BY <1>8, AddressesAre, TypesAre DEF Hit, ResultType
<1>11. Listed(InOrder(H), H)
  BY <1>6, <1>9, <1>10, InOrderIs
<1> QED
  BY <1>1, <1>8, <1>11 DEF H

(* The hits of one read. *)
LEMMA HitsOfIs ==
    ASSUME TargetTyped, JobTyped, NEW c, SoundChunk(c), NEW v \in ReadSet(c, Overlap)
    PROVE  /\ HitsOf(v) \in Seq(ResultType)
           /\ \A i \in 1 .. Len(HitsOf(v)) : \E t \in job.types : HitsOf(v)[i] \in HitSet(v, t)
           /\ \A t \in job.types : \A r \in HitSet(v, t) : \E i \in 1 .. Len(HitsOf(v)) : HitsOf(v)[i] = r
           /\ (\E t \in Types : job.types = {t}) => InLine(HitsOf(v))
<1> DEFINE T == job.types
           n == Cardinality(T)
           f == Ordered(T)
           lists == [i \in 1 .. n |-> HitsOfType(v, f[i])]
           h == HitsOf(v)
<1>1. T \in SUBSET Nat /\ IsFiniteSet(T) /\ T \in SUBSET Types
  BY TypesAre, FS_Subset DEF JobTyped, JobType
<1>2. f \in Seq(T) /\ Len(f) = n /\ \A t \in T : \E i \in 1 .. Len(f) : f[i] = t
  BY <1>1, OrderedIs, OrderedHas
<1>3. n \in Nat
  BY <1>1, FS_CardinalityType
<1>4. \A i \in 1 .. n : f[i] \in T
  BY <1>2, ElementOfSeq
<1>5. h = Joined(lists)
  BY DEF HitsOf
<1>6. \A i \in 1 .. n : lists[i] = HitsOfType(v, f[i])
  OBVIOUS
<1>7. ASSUME NEW t \in T
      PROVE  /\ HitsOfType(v, t) \in Seq(ResultType) /\ InLine(HitsOfType(v, t))
             /\ \A i \in 1 .. Len(HitsOfType(v, t)) : HitsOfType(v, t)[i] \in HitSet(v, t)
             /\ \A r \in HitSet(v, t) : \E i \in 1 .. Len(HitsOfType(v, t)) : HitsOfType(v, t)[i] = r
  <2>1. Listed(HitsOfType(v, t), HitSet(v, t)) /\ \A r \in HitSet(v, t) : r \in ResultType
    BY HitsOfTypeIs DEF Hit
  <2>2. HitSet(v, t) \in SUBSET ResultType
    BY <2>1
  <2>3. HitsOfType(v, t) \in Seq(ResultType)
    BY <2>1, <2>2, SeqMonotonic DEF Listed
  <2> QED
    BY <2>1, <2>3 DEF Listed
<1>8. Len(lists) = n
  <2> DEFINE V == {HitsOfType(v, f[i]) : i \in 1 .. n}
  <2>1. lists \in [1 .. n -> V]
    OBVIOUS
  <2> HIDE DEF lists, V, n
  <2> QED
    BY <1>3, <2>1, FunctionsAreSequences
<1> HIDE DEF lists, f, h, n
<1>9. \A i \in 1 .. n : lists[i] \in Seq(ResultType)
  BY <1>4, <1>6, <1>7
<1>10. Joins(h, lists, n, ResultType)
  BY <1>3, <1>5, <1>8, <1>9, JoinedIs
<1>11. h \in Seq(ResultType)
  BY <1>10 DEF Joins
<1>12. ASSUME NEW i \in 1 .. Len(h) PROVE \E t \in job.types : h[i] \in HitSet(v, t)
  <2>1. PICK k \in 1 .. n : \E m \in 1 .. Len(lists[k]) : h[i] = lists[k][m]
    BY <1>10 DEF Joins
  <2> QED
    BY <1>4, <1>6, <1>7, <2>1
<1>13. ASSUME NEW t \in job.types, NEW r \in HitSet(v, t) PROVE \E i \in 1 .. Len(h) : h[i] = r
  <2>1. PICK k \in 1 .. n : f[k] = t
    BY <1>2
  <2>2. PICK m \in 1 .. Len(lists[k]) : lists[k][m] = r
    BY <1>6, <1>7, <2>1
  <2>3. \E i \in 1 .. Len(h) : h[i] = lists[k][m]
    BY <1>10 DEF Joins
  <2> QED
    BY <2>2, <2>3
<1>14. ASSUME NEW t \in Types, job.types = {t} PROVE InLine(h)
  <2>1. n = 1
    BY <1>14, FS_Singleton DEF n
  <2>2. ASSUME NEW i \in 1 .. Len(h), NEW j \in 1 .. Len(h), i < j PROVE Before(h[i], h[j])
    <3>0. InTurn(h[i], h[j], lists, n)
      BY <1>10, <2>2, JoinsInTurn
    <3>1. PICK k, l \in 1 .. n : \E m \in 1 .. Len(lists[k]) : \E o \in 1 .. Len(lists[l]) :
              /\ h[i] = lists[k][m] /\ h[j] = lists[l][o]
              /\ k < l \/ (k = l /\ m < o)
      BY <3>0 DEF InTurn
    <3>2. k = 1 /\ l = 1
      BY <2>1
    <3>3. PICK m \in 1 .. Len(lists[1]), o \in 1 .. Len(lists[1]) : h[i] = lists[1][m] /\ h[j] = lists[1][o] /\ m < o
      BY <3>1, <3>2
    <3>4. f[1] \in T /\ lists[1] = HitsOfType(v, f[1])
      BY <1>4, <1>6, <2>1
    <3>5. InLine(lists[1])
      BY <1>7, <3>4
    <3> QED
      BY <3>3, <3>5 DEF InLine
  <2> QED
    BY <2>2 DEF InLine
<1> QED
  BY <1>11, <1>12, <1>13, <1>14 DEF h

\* All the reads of a chunk, one after the other.
InTheirOrder(vs, c, overlap) ==
    /\ Len(vs) \in Nat /\ vs \in Seq(ReadSet(c, overlap)) /\ DOMAIN vs = 1 .. Len(vs)
    /\ \A i \in 1 .. Len(vs) : vs[i] \in ReadSet(c, overlap) /\ SoundRead(vs[i], c)
    /\ \A v \in ReadSet(c, overlap) : \E i \in 1 .. Len(vs) : vs[i] = v
    /\ \A i, j \in 1 .. Len(vs) : i < j => vs[i].base + vs[i].starts <= vs[j].base

(* A chunk is read so. *)
LEMMA ReadsInLine ==
    ASSUME NEW c, SoundChunk(c), NEW overlap \in Nat, NEW vs, vs = Visits(c, overlap)
    PROVE  InTheirOrder(vs, c, overlap)
<1> DEFINE S == ReadSet(c, overlap)
<1>1. /\ \A v \in S : SoundRead(v, c)
      /\ \A v, w \in S : v = w \/ v.base + v.starts <= w.base \/ w.base + w.starts <= v.base
  BY ReadsAre
<1>2. Climbs(vs, S)
  BY VisitsAre
<1> HIDE DEF S
<1>3. /\ vs \in Seq(S) /\ \A i \in 1 .. Len(vs) : vs[i] \in S
      /\ \A i, j \in 1 .. Len(vs) : i < j => vs[i].base < vs[j].base
      /\ \A v \in S : \E i \in 1 .. Len(vs) : vs[i] = v
  BY <1>2 DEF Climbs
<1>4. ASSUME NEW i \in 1 .. Len(vs), NEW j \in 1 .. Len(vs), i < j PROVE vs[i].base + vs[i].starts <= vs[j].base
  <2>1. vs[i].base < vs[j].base /\ vs[i] \in S /\ vs[j] \in S
    BY <1>3, <1>4
  <2>2. vs[i].base \in Nat /\ vs[j].base \in Nat /\ vs[i].starts \in Nat \ {0} /\ vs[j].starts \in Nat \ {0}
    BY <1>1, <2>1 DEF SoundRead
  <2>3. vs[i] = vs[j] \/ vs[i].base + vs[i].starts <= vs[j].base \/ vs[j].base + vs[j].starts <= vs[i].base
    BY <1>1, <2>1
  <2> QED
    BY <2>1, <2>2, <2>3
<1>5. Len(vs) \in Nat /\ DOMAIN vs = 1 .. Len(vs)
  BY <1>3
<1> QED
  BY <1>1, <1>3, <1>4, <1>5 DEF S, InTheirOrder

(* An exact scan finds in a chunk what is due from it, nothing else, and with one type in order. *)
LEMMA HitsAre ==
    ASSUME TargetTyped, JobTyped, NEW c, SoundChunk(c)
    PROVE  /\ Hits(c) \in Seq(ResultType)
           /\ \A i \in 1 .. Len(Hits(c)) : Hit(c, Hits(c)[i])
           /\ Open(c) => \A r : Hit(c, r) => \E i \in 1 .. Len(Hits(c)) : Hits(c)[i] = r
           /\ (\E t \in Types : job.types = {t}) => InLine(Hits(c))
<1> DEFINE vs == Visits(c, Overlap)
           n == Len(vs)
           lists == [i \in 1 .. n |-> HitsOf(vs[i])]
           h == Hits(c)
<1>1. Overlap \in Nat
  BY OverlapIs
<1>2. /\ n \in Nat
      /\ \A i \in 1 .. n : vs[i] \in ReadSet(c, Overlap) /\ SoundRead(vs[i], c)
      /\ \A v \in ReadSet(c, Overlap) : \E i \in 1 .. n : vs[i] = v
      /\ \A i, j \in 1 .. n : i < j => vs[i].base + vs[i].starts <= vs[j].base
  <2> HIDE DEF vs, n
  <2>1. InTheirOrder(vs, c, Overlap)
    BY <1>1, ReadsInLine DEF vs
  <2> QED
    BY <2>1 DEF n, InTheirOrder
<1>3. h = Joined(lists)
  BY DEF Hits
<1>4. \A i \in 1 .. n : lists[i] = HitsOf(vs[i])
  OBVIOUS
<1>5. Len(lists) = n
  <2> DEFINE V == {HitsOf(vs[i]) : i \in 1 .. n}
  <2>1. lists \in [1 .. n -> V]
    OBVIOUS
  <2> HIDE DEF lists, V, n
  <2> QED
    BY <1>2, <2>1, FunctionsAreSequences
<1> HIDE DEF lists, h, n, vs
<1>6. ASSUME NEW k \in 1 .. n
      PROVE  /\ lists[k] \in Seq(ResultType)
             /\ \A m \in 1 .. Len(lists[k]) : /\ Hit(c, lists[k][m])
                                              /\ vs[k].base <= lists[k][m].address
                                              /\ lists[k][m].address < vs[k].base + vs[k].starts
             /\ (\E t \in Types : job.types = {t}) => InLine(lists[k])
  <2>1. vs[k] \in ReadSet(c, Overlap) /\ lists[k] = HitsOf(vs[k])
    BY <1>2, <1>4
  <2>2. /\ lists[k] \in Seq(ResultType)
        /\ \A m \in 1 .. Len(lists[k]) : \E t \in job.types : lists[k][m] \in HitSet(vs[k], t)
        /\ (\E t \in Types : job.types = {t}) => InLine(lists[k])
    BY <2>1, HitsOfIs
  <2>3. ASSUME NEW m \in 1 .. Len(lists[k])
        PROVE  /\ Hit(c, lists[k][m])
               /\ vs[k].base <= lists[k][m].address
               /\ lists[k][m].address < vs[k].base + vs[k].starts
    <3>1. PICK t \in job.types : lists[k][m] \in HitSet(vs[k], t)
      BY <2>2
    <3> QED
      BY <2>1, <3>1, HitsOfTypeIs
  <2> QED
    BY <2>2, <2>3
<1>7. Joins(h, lists, n, ResultType)
  BY <1>2, <1>3, <1>5, <1>6, JoinedIs
<1>8. h \in Seq(ResultType)
  BY <1>7 DEF Joins
<1>9. ASSUME NEW i \in 1 .. Len(h) PROVE Hit(c, h[i])
  <2>1. PICK k \in 1 .. n : \E m \in 1 .. Len(lists[k]) : h[i] = lists[k][m]
    BY <1>7 DEF Joins
  <2> QED
    BY <1>6, <2>1
<1>10. ASSUME Open(c), NEW r, Hit(c, r) PROVE \E i \in 1 .. Len(h) : h[i] = r
  <2>1. r \in ResultType /\ Due(c, r.address, r.type) /\ r.previous = job.wanted /\ r.previous = ValueNow(r.address, r.type)
    BY <1>10 DEF Hit, IsNow
  <2>2. r.address \in Nat /\ r.type \in job.types
    BY <2>1, AddressesAre DEF ResultType, Due, DueIn
  <2> DEFINE a == r.address
             t == r.type
  <2>3. \E v \in ReadSet(c, Overlap) : \E o \in Candidates(v, t) : a = v.base + o
    <3> HIDE DEF a, t
    <3>1. Due(c, a, t) /\ a \in Nat
      BY <2>1, <2>2 DEF a, t
    <3> QED
      BY <1>10, <3>1, CandidateFor
  <2>4. PICK v \in ReadSet(c, Overlap) : \E o \in Candidates(v, t) : a = v.base + o
    BY <2>3
  <2>5. PICK o \in Candidates(v, t) : a = v.base + o
    BY <2>4
  <2>6. ValueNow(v.base + o, t) = job.wanted /\ r = Result(v.base + o, t, ValueNow(v.base + o, t))
    BY <2>1, <2>5 DEF ResultType, Result
  <2>7. r \in HitSet(v, t) /\ t \in job.types
    BY <2>2, <2>6 DEF HitSet
  <2>8. PICK k \in 1 .. n : vs[k] = v
    BY <1>2
  <2>9. PICK m \in 1 .. Len(lists[k]) : lists[k][m] = r
    BY <1>4, <2>7, <2>8, HitsOfIs
  <2>10. \E i \in 1 .. Len(h) : h[i] = lists[k][m]
    BY <1>7 DEF Joins
  <2> QED
    BY <2>9, <2>10
<1>11. ASSUME \E t \in Types : job.types = {t} PROVE InLine(h)
  <2>1. ASSUME NEW i \in 1 .. Len(h), NEW j \in 1 .. Len(h), i < j PROVE Before(h[i], h[j])
    <3>0. InTurn(h[i], h[j], lists, n)
      BY <1>7, <2>1, JoinsInTurn
    <3>1. PICK k, l \in 1 .. n : \E m \in 1 .. Len(lists[k]) : \E o \in 1 .. Len(lists[l]) :
              /\ h[i] = lists[k][m] /\ h[j] = lists[l][o]
              /\ k < l \/ (k = l /\ m < o)
      BY <3>0 DEF InTurn
    <3>2. PICK m \in 1 .. Len(lists[k]), o \in 1 .. Len(lists[l]) :
              /\ h[i] = lists[k][m] /\ h[j] = lists[l][o]
              /\ k < l \/ (k = l /\ m < o)
      BY <3>1
    <3>3. CASE k = l /\ m < o
      BY <1>6, <1>11, <3>2, <3>3 DEF InLine
    <3>4. CASE k < l
      <4>1. h[i].address < vs[k].base + vs[k].starts /\ vs[l].base <= h[j].address
        BY <1>6, <3>2
      <4>2. vs[k].base + vs[k].starts <= vs[l].base
        BY <1>2, <3>4
      <4>3. vs[k].base \in Nat /\ vs[k].starts \in Nat /\ vs[l].base \in Nat
        BY <1>2 DEF SoundRead
      <4>4. h[i].address \in Nat /\ h[j].address \in Nat
        BY <1>9, AddressesAre DEF Hit, ResultType
      <4> DEFINE x == h[i].address
                 y == vs[k].base + vs[k].starts
                 z == vs[l].base
                 u == h[j].address
      <4>5. x < y /\ z <= u
        BY <4>1
      <4>7. y <= z
        BY <4>2
      <4>8. x \in Nat /\ u \in Nat
        BY <4>4
      <4>9. z \in Nat
        BY <4>3
      <4>10. \A p, q \in Nat : p + q \in Nat
        OBVIOUS
      <4>11. y \in Nat
        BY <4>3, <4>10
      <4> HIDE DEF x, y, z, u
      <4>6. x < u
        BY <4>5, <4>7, <4>8, <4>9, <4>11
      <4> QED
        BY <4>6 DEF Before, x, u
    <3> QED
      BY <3>2, <3>3, <3>4
  <2> QED
    BY <2>1 DEF InLine
<1> QED
  BY <1>8, <1>9, <1>10, <1>11 DEF h

(* Two lists, one after the other. *)
LEMMA JoinedTwo ==
    ASSUME NEW T, NEW s \in Seq(T), NEW h \in Seq(T), NEW a, a = s \o h
    PROVE  /\ a \in Seq(T) /\ Len(s) \in Nat /\ Len(h) \in Nat /\ Len(a) = Len(s) + Len(h)
           /\ \A i \in 1 .. Len(s) : a[i] = s[i] /\ i \in 1 .. Len(a)
           /\ \A i \in 1 .. Len(h) : a[Len(s) + i] = h[i] /\ Len(s) + i \in 1 .. Len(a)
           /\ \A i \in 1 .. Len(a) : i \in 1 .. Len(s) \/ (i - Len(s) \in 1 .. Len(h) /\ a[i] = h[i - Len(s)])
OBVIOUS

(* What is left of a list without its first n. *)
LEMMA DroppedIs ==
    ASSUME NEW T, NEW s \in Seq(T), NEW n \in Nat, n <= Len(s), NEW d, d = SubSeq(s, n + 1, Len(s))
    PROVE  /\ d \in Seq(T) /\ Len(s) \in Nat /\ Len(d) \in Nat /\ Len(d) = Len(s) - n
           /\ \A i \in 1 .. Len(d) : d[i] = s[n + i] /\ n + i \in 1 .. Len(s)
           /\ \A j \in 1 .. Len(s) : j \in 1 .. n \/ (j - n \in 1 .. Len(d) /\ s[j] = d[j - n])
<1> DEFINE e == Len(s)
<1>1. e \in Nat /\ n <= e
  OBVIOUS
<1>2. /\ SubSeq(s, n + 1, e) \in Seq(T) /\ Len(SubSeq(s, n + 1, e)) = e - n
      /\ \A i \in 1 .. (e - n) : SubSeq(s, n + 1, e)[i] = s[n + i]
  BY <1>1, Slice
<1>3. d \in Seq(T) /\ Len(d) = e - n /\ \A i \in 1 .. (e - n) : d[i] = s[n + i]
  BY <1>2
<1> HIDE DEF e
<1>4. \A i \in 1 .. (e - n) : n + i \in 1 .. e
  BY <1>1
<1>5. \A j \in 1 .. e : j \in 1 .. n \/ (j - n \in 1 .. (e - n) /\ j = n + (j - n))
  BY <1>1
<1>6. \A j \in 1 .. e : j \in 1 .. n \/ (j - n \in 1 .. (e - n) /\ s[j] = d[j - n])
  <2> TAKE j \in 1 .. e
  <2>1. CASE j \notin 1 .. n
    <3>1. j - n \in 1 .. (e - n) /\ j = n + (j - n)
      BY <1>5, <2>1
    <3> QED
      BY <1>3, <3>1
  <2> QED
    BY <2>1
<1> QED
  BY <1>1, <1>3, <1>4, <1>6 DEF e

(* The tail of a list is the list without its first. *)
LEMMA TailIs ==
    ASSUME NEW T, NEW s \in Seq(T), s # <<>>
    PROVE  Len(s) \in Nat \ {0} /\ Tail(s) = SubSeq(s, 1 + 1, Len(s)) /\ Head(s) = s[1] /\ 1 \in 1 .. Len(s)
<1>1. Len(s) \in Nat \ {0}
  BY EmptySeq
<1>2. Tail(s) = SubSeq(s, 2, Len(s))
  BY TailIsSubSeq
<1> QED
  BY <1>1, <1>2

(* Lists in line, one ahead of the other. *)
LEMMA InLineOn ==
    ASSUME NEW T, NEW s \in Seq(T), NEW h \in Seq(T), InLine(s), InLine(h),
           \A i \in 1 .. Len(s), j \in 1 .. Len(h) : Before(s[i], h[j])
    PROVE  InLine(s \o h)
<1> DEFINE a == s \o h
           p == Len(s)
           q == Len(h)
<1>1. /\ p \in Nat /\ q \in Nat /\ Len(a) = p + q
      /\ \A i \in 1 .. p : a[i] = s[i]
      /\ \A i \in 1 .. Len(a) : i \in 1 .. p \/ (i - p \in 1 .. q /\ a[i] = h[i - p])
  BY JoinedTwo
<1> HIDE DEF a, p, q
<1>2. ASSUME NEW i \in 1 .. Len(a), NEW j \in 1 .. Len(a), i < j PROVE Before(a[i], a[j])
  <2>1. CASE i \in 1 .. p /\ j \in 1 .. p
    BY <1>1, <1>2, <2>1 DEF InLine, p
  <2>2. CASE i \in 1 .. p /\ j - p \in 1 .. q /\ a[j] = h[j - p]
    BY <1>1, <2>2 DEF p, q
  <2>3. CASE i - p \in 1 .. q /\ a[i] = h[i - p] /\ j - p \in 1 .. q /\ a[j] = h[j - p]
    <3>1. i - p < j - p
      BY <1>1, <1>2
    <3> QED
      BY <2>3, <3>1 DEF InLine, q
  <2>4. ~(j \in 1 .. p /\ ~(i \in 1 .. p))
    BY <1>1, <1>2
  <2> QED
    BY <1>1, <2>1, <2>2, <2>3, <2>4
<1> QED
  BY <1>2 DEF InLine, a

(* A part of a list in line. *)
LEMMA InLinePart ==
    ASSUME NEW T, NEW s \in Seq(T), InLine(s), NEW m \in Nat, NEW e \in Nat, m <= e, e <= Len(s)
    PROVE  InLine(SubSeq(s, m + 1, e))
<1> DEFINE d == SubSeq(s, m + 1, e)
           n == Len(s)
<1>1. Len(d) = e - m /\ \A i \in 1 .. (e - m) : d[i] = s[m + i]
  BY Slice
<1>2. n \in Nat /\ e <= n
  OBVIOUS
<1> HIDE DEF d, n
<1>3. \A i, j \in 1 .. (e - m) : i < j => m + i \in 1 .. n /\ m + j \in 1 .. n /\ m + i < m + j
  BY <1>2
<1>4. \A i, j \in 1 .. (e - m) : i < j => Before(s[m + i], s[m + j])
  BY <1>3 DEF InLine, n
<1>5. InLine(d)
  BY <1>1, <1>4 DEF InLine
<1> QED
  BY <1>5 DEF d

(* A block more. *)
LEMMA BlocksOn ==
    ASSUME NEW s, BlockList(s), NEW h, BlockList(h),
           \A i \in 1 .. Len(s), j \in 1 .. Len(h) : s[i].base + s[i].starts <= h[j].base
    PROVE  BlockList(s \o h)
<1> DEFINE a == s \o h
           p == Len(s)
           q == Len(h)
<1>1. s \in Seq(Block) /\ h \in Seq(Block)
  BY DEF BlockList
<1>2. /\ a \in Seq(Block) /\ p \in Nat /\ q \in Nat /\ Len(a) = p + q
      /\ \A i \in 1 .. p : a[i] = s[i]
      /\ \A i \in 1 .. Len(a) : i \in 1 .. p \/ (i - p \in 1 .. q /\ a[i] = h[i - p])
  BY <1>1, JoinedTwo
<1> HIDE DEF a, p, q
<1>3. ASSUME NEW i \in 1 .. Len(a) PROVE SoundBlock(a[i])
  BY <1>2, <1>3 DEF BlockList, p, q
<1>4. ASSUME NEW i \in 1 .. Len(a), NEW j \in 1 .. Len(a), i < j PROVE a[i].base + a[i].starts <= a[j].base
  <2>1. CASE i \in 1 .. p /\ j \in 1 .. p
    BY <1>2, <1>4, <2>1 DEF BlockList, p
  <2>2. CASE i \in 1 .. p /\ j - p \in 1 .. q /\ a[j] = h[j - p]
    BY <1>2, <2>2 DEF p, q
  <2>3. CASE i - p \in 1 .. q /\ a[i] = h[i - p] /\ j - p \in 1 .. q /\ a[j] = h[j - p]
    <3>1. i - p < j - p
      BY <1>2, <1>4
    <3> QED
      BY <2>3, <3>1 DEF BlockList, q
  <2>4. ~(j \in 1 .. p /\ ~(i \in 1 .. p))
    BY <1>2, <1>4
  <2> QED
    BY <1>2, <2>1, <2>2, <2>3, <2>4
<1>5. BlockList(a)
  BY <1>2, <1>3, <1>4 DEF BlockList
<1> QED
  BY <1>5 DEF a

(* Without its first a list of blocks still is one. *)
LEMMA BlocksLeft ==
    ASSUME NEW s, BlockList(s), s # <<>>
    PROVE  BlockList(Tail(s))
<1> DEFINE d == Tail(s)
<1>1. s \in Seq(Block) /\ 1 \in Nat
  BY DEF BlockList
<1>2. Len(s) \in Nat \ {0} /\ d = SubSeq(s, 1 + 1, Len(s))
  BY <1>1, TailIs
<1>3. d \in Seq(Block) /\ Len(d) \in Nat /\ \A i \in 1 .. Len(d) : d[i] = s[1 + i] /\ 1 + i \in 1 .. Len(s)
  BY <1>1, <1>2, DroppedIs
<1> HIDE DEF d
<1>4. \A i, j \in 1 .. Len(d) : i < j => 1 + i < 1 + j
  BY <1>3
<1>5. \A i \in 1 .. Len(d) : SoundBlock(d[i])
  BY <1>3 DEF BlockList
<1>6. \A i, j \in 1 .. Len(d) : i < j => d[i].base + d[i].starts <= d[j].base
  BY <1>3, <1>4 DEF BlockList
<1>7. BlockList(d)
  BY <1>3, <1>5, <1>6 DEF BlockList
<1> QED
  BY <1>7 DEF d

(* Without its first a list of chunks still is one. *)
LEMMA ChunksLeft ==
    ASSUME NEW s, ChunkList(s), s # <<>>
    PROVE  ChunkList(Tail(s))
<1> DEFINE d == Tail(s)
<1>1. s \in Seq(Chunk) /\ 1 \in Nat
  BY DEF ChunkList
<1>2. Len(s) \in Nat \ {0} /\ d = SubSeq(s, 1 + 1, Len(s))
  BY <1>1, TailIs
<1>3. d \in Seq(Chunk) /\ Len(d) \in Nat /\ \A i \in 1 .. Len(d) : d[i] = s[1 + i] /\ 1 + i \in 1 .. Len(s)
  BY <1>1, <1>2, DroppedIs
<1> HIDE DEF d
<1>4. \A i, j \in 1 .. Len(d) : i < j => 1 + i < 1 + j
  BY <1>3
<1>5. \A i \in 1 .. Len(d) : SoundChunk(d[i])
  BY <1>3 DEF ChunkList
<1>6. \A i, j \in 1 .. Len(d) : i < j => Ahead(d[i], d[j])
  BY <1>3, <1>4 DEF ChunkList
<1>7. ChunkList(d)
  BY <1>3, <1>5, <1>6 DEF ChunkList
<1> QED
  BY <1>7 DEF d

(* The block a read leaves. *)
LEMMA BlockOfIs ==
    ASSUME TargetTyped, JobTyped, NEW c, SoundChunk(c), NEW v \in ReadSet(c, Overlap), NEW b, b = BlockOf(v)
    PROVE  /\ SoundBlock(b) /\ b.base = v.base /\ b.starts = v.starts
           /\ \A r \in Held(b) : r \in ResultType /\ Due(c, r.address, r.type) /\ IsNow(r)
           /\ \A r \in ResultType : \A o \in Candidates(v, r.type) :
                 r.type \in job.types /\ r.address = v.base + o /\ IsNow(r) => r \in Held(b)
<1>1. /\ v.base \in Nat /\ v.size \in Nat \ {0} /\ v.starts \in Nat \ {0} /\ v.starts <= v.size
      /\ \A k \in 0 .. (v.size - 1) : InReach(v.base + k)
  BY OverlapIs, ReadsAre DEF SoundRead
<1> DEFINE act == [t \in Types |-> IF t \in job.types THEN Candidates(v, t) ELSE {}]
           bytes == BytesAt(v.base, v.size)
<1>2. b = [base |-> v.base, size |-> v.size, starts |-> v.starts, bytes |-> bytes, active |-> act]
  BY DEF BlockOf
<1>3. b.base = v.base /\ b.size = v.size /\ b.starts = v.starts /\ b.bytes = bytes /\ b.active = act
  BY <1>2
<1>4. \A k \in 0 .. (v.size - 1) : v.base + k \in Addresses
  BY <1>1 DEF InReach
<1>5. bytes \in Seq(Nat) /\ Len(bytes) = v.size
  BY <1>1, <1>4, BytesAre
<1>6. ASSUME NEW t \in Types, NEW o \in act[t]
      PROVE  t \in job.types /\ o \in Candidates(v, t)
  BY <1>6
<1>7. \A t \in job.types : t \in Types /\ act[t] = Candidates(v, t)
  BY OverlapIs
<1>8. \A t \in Types : act[t] \in SUBSET Nat
  <2>1. ASSUME NEW t \in Types, NEW o \in act[t] PROVE o \in Nat
    <3>1. t \in job.types /\ o \in Candidates(v, t)
      BY <1>6
    <3> QED
      BY <3>1, CandidateIs
  <2> QED
    BY <2>1
<1>9. act \in [Types -> SUBSET Nat]
  BY <1>8
<1> HIDE DEF act, bytes
<1>10. b \in Block
  BY <1>1, <1>2, <1>5, <1>9 DEF Block
<1>11. ASSUME NEW t \in Types, NEW o \in b.active[t] PROVE o < b.starts /\ o + Width[t] <= b.size
  <2>1. t \in job.types /\ o \in Candidates(v, t)
    BY <1>3, <1>6
  <2> QED
    BY <1>3, <2>1, CandidateIs
<1>12. SoundBlock(b)
  <2>1. b.size = Len(b.bytes) /\ b.starts <= b.size
    BY <1>1, <1>3, <1>5
  <2>2. \A x \in 0 .. (b.size - 1) : b.base + x \in Addresses
    BY <1>3, <1>4
  <2> QED
    BY <1>10, <1>11, <2>1, <2>2 DEF SoundBlock
<1>13. ASSUME NEW t \in job.types, NEW o \in Candidates(v, t) PROVE Known(b, o, t) = ValueNow(v.base + o, t)
  <2>1. o \in Nat /\ o + Width[t] <= v.size /\ t \in Types
    BY CandidateIs
  <2>2. Width[t] \in Nat
    BY <2>1, TypesAre
  <2> DEFINE w == Width[t]
  <2>3. SubSeq(BytesAt(v.base, v.size), o + 1, o + w) = BytesAt(v.base + o, w)
    <3> DEFINE x == v.base
               n == v.size
    <3>1. o \in Nat /\ w \in Nat /\ o + w <= n /\ x \in Nat /\ n \in Nat
      BY <1>1, <2>1, <2>2
    <3> HIDE DEF w, x, n
    <3>2. Part(BytesAt(x, n), o, w) = BytesAt(x + o, w)
      BY <3>1, PartIs
    <3> QED
      BY <3>2 DEF Part, x, n
  <2> QED
    BY <1>3, <2>3 DEF Known, ValueNow, bytes
<1>14. ASSUME NEW r \in Held(b) PROVE r \in ResultType /\ Due(c, r.address, r.type) /\ IsNow(r)
  <2>1. PICK t \in Types : \E o \in b.active[t] : r = Result(b.base + o, t, Known(b, o, t))
    BY <1>12, HeldIs
  <2>2. PICK o \in b.active[t] : r = Result(b.base + o, t, Known(b, o, t))
    BY <2>1
  <2>3. t \in job.types /\ o \in Candidates(v, t)
    BY <1>3, <1>6
  <2>4. r = Result(v.base + o, t, ValueNow(v.base + o, t))
    BY <1>3, <1>13, <2>2, <2>3
  <2>5. r \in ResultType /\ Due(c, v.base + o, t)
    BY <2>3, <2>4, CandidateIs
  <2>6. r.address = v.base + o /\ r.type = t /\ r.previous = ValueNow(v.base + o, t)
    BY <2>4 DEF Result
  <2> QED
    BY <2>5, <2>6 DEF IsNow
<1>15. ASSUME NEW r \in ResultType, NEW o \in Candidates(v, r.type),
              r.type \in job.types, r.address = v.base + o, IsNow(r)
       PROVE  r \in Held(b)
  <2> DEFINE t == r.type
  <2>1. t \in Types /\ o \in b.active[t]
    BY <1>3, <1>7, <1>15
  <2>2. r.previous = Known(b, o, t)
    BY <1>13, <1>15 DEF IsNow
  <2>3. r = Result(b.base + o, t, Known(b, o, t))
    BY <1>3, <1>15, <2>2 DEF Result, ResultType
  <2> QED
    BY <1>12, <2>1, <2>3, HeldIs
<1> QED
  BY <1>3, <1>12, <1>14, <1>15

(* The blocks a chunk leaves have what is due from it, with its value, and nothing else. *)
LEMMA BlocksOfIs ==
    ASSUME TargetTyped, JobTyped, NEW c, SoundChunk(c), NEW vs, vs = Visits(c, Overlap),
           NEW bs, bs = [i \in DOMAIN vs |-> BlockOf(vs[i])]
    PROVE  /\ BlockList(bs)
           /\ \A i \in 1 .. Len(bs) : c.base <= bs[i].base /\ bs[i].base + bs[i].starts <= c.base + Primary(c)
           /\ \A i \in 1 .. Len(bs) : \A r \in Held(bs[i]) : Due(c, r.address, r.type) /\ IsNow(r)
           /\ Open(c) => \A r \in ResultType : Due(c, r.address, r.type) /\ IsNow(r) =>
                            \E i \in 1 .. Len(bs) : r \in Held(bs[i])
<1> DEFINE n == Len(vs)
<1>1. /\ n \in Nat /\ DOMAIN vs = 1 .. n
      /\ \A i \in 1 .. n : vs[i] \in ReadSet(c, Overlap) /\ SoundRead(vs[i], c)
      /\ \A v \in ReadSet(c, Overlap) : \E i \in 1 .. n : vs[i] = v
      /\ \A i, j \in 1 .. n : i < j => vs[i].base + vs[i].starts <= vs[j].base
  <2>1. Overlap \in Nat
    BY OverlapIs
  <2>2. InTheirOrder(vs, c, Overlap)
    BY <2>1, ReadsInLine
  <2> QED
    BY <2>2 DEF InTheirOrder
<1> HIDE DEF n
<1>2. \A i \in 1 .. n : bs[i] = BlockOf(vs[i])
  BY <1>1
<1>3. ASSUME NEW i \in 1 .. n
      PROVE  /\ SoundBlock(bs[i]) /\ bs[i].base = vs[i].base /\ bs[i].starts = vs[i].starts
             /\ \A r \in Held(bs[i]) : Due(c, r.address, r.type) /\ IsNow(r)
             /\ bs[i] \in Block
  BY <1>1, <1>2, BlockOfIs DEF SoundBlock
<1>4. bs \in Seq(Block) /\ Len(bs) = n
  <2>1. bs = [i \in 1 .. n |-> bs[i]]
    BY <1>1
  <2>2. bs \in [1 .. n -> Block]
    BY <1>3, <2>1
  <2> QED
    BY <1>1, <2>2, FunctionsAreSequences
<1>5. BlockList(bs)
  BY <1>1, <1>3, <1>4 DEF BlockList
<1>6. \A i \in 1 .. n : c.base <= bs[i].base /\ bs[i].base + bs[i].starts <= c.base + Primary(c)
  BY <1>1, <1>3 DEF SoundRead
<1>7. ASSUME Open(c), NEW r \in ResultType, Due(c, r.address, r.type), IsNow(r)
      PROVE  \E i \in 1 .. n : r \in Held(bs[i])
  <2> DEFINE a == r.address
             t == r.type
  <2>1. a \in Nat /\ t \in job.types /\ Due(c, a, t)
    BY <1>7, AddressesAre DEF ResultType, Due, DueIn
  <2>2. \E v \in ReadSet(c, Overlap) : \E o \in Candidates(v, t) : a = v.base + o
    <3> HIDE DEF a, t
    <3> QED
      BY <1>7, <2>1, CandidateFor
  <2>3. PICK v \in ReadSet(c, Overlap) : \E o \in Candidates(v, t) : a = v.base + o
    BY <2>2
  <2>4. PICK o \in Candidates(v, t) : a = v.base + o
    BY <2>3
  <2>5. PICK i \in 1 .. n : vs[i] = v
    BY <1>1
  <2>6. r \in Held(bs[i])
    BY <1>2, <1>7, <2>1, <2>4, <2>5, BlockOfIs
  <2> QED
    BY <2>6
<1> QED
  BY <1>3, <1>4, <1>5, <1>6, <1>7

-----------------------------------------------------------------------------
(* The step common to all requests. *)

(* What is in memory is the same while memory is. *)
LEMMA SameValue ==
    ASSUME memory' = memory, NEW a, NEW t
    PROVE  ValueNow(a, t)' = ValueNow(a, t)
BY DEF ValueNow, BytesAt

(* What is to come is the same while its value and the request are. *)
LEMMA StillComes ==
    ASSUME UNCHANGED <<lost, partial, byByte, job>>, NEW x, NEW r,
           ValueNow(r.address, r.type)' = ValueNow(r.address, r.type)
    PROVE  Comes(x, r)' <=> Comes(x, r)
<1>1. ASSUME NEW a, NEW t PROVE Whole(<<a, t>>)' <=> Whole(<<a, t>>)
  BY DEF Whole, InReach
<1>2. ASSUME NEW a, NEW t PROVE Due(x, a, t)' <=> Due(x, a, t)
  BY <1>1 DEF Due, DueIn
<1>3. ASSUME NEW t, NEW now, NEW before PROVE Survives(t, now, before)' <=> Survives(t, now, before)
  BY DEF Survives
<1>4. Holds(x, r)' <=> Holds(x, r)
  BY <1>1, <1>3 DEF Holds
<1>5. IsNow(r)' <=> IsNow(r)
  BY DEF IsNow
<1>6. job' = job
  OBVIOUS
<1> QED
  BY <1>1, <1>2, <1>3, <1>4, <1>5, <1>6 DEF Comes

(* And so it is while the target is. *)
LEMMA SameComes ==
    ASSUME UNCHANGED <<memory, lost, partial, byByte, job>>, NEW x, NEW r
    PROVE  Comes(x, r)' <=> Comes(x, r)
BY SameValue, StillComes

(* And so is what is plain to see. *)
LEMMA SamePlain ==
    ASSUME UNCHANGED <<lost, partial, job>>, NEW x, NEW r
    PROVE  Plain(x, r)' <=> Plain(x, r)
BY DEF Plain, Open

(* What comes from what is ahead then. *)
LEMMA ComesThen ==
    ASSUME NEW i, NEW x, todo'[i] = x, NEW r
    PROVE  (Comes(todo[i], r))' <=> Comes(x, r)'
BY DEF Comes, Due, DueIn, Holds, Survives

(* And what is plain to see. *)
LEMMA PlainThen ==
    ASSUME NEW i, NEW x, todo'[i] = x, NEW r
    PROVE  (Plain(todo[i], r))' <=> Plain(x, r)'
BY DEF Plain, Open

(* A step that takes the first few of what is ahead, has what came of them and no more, *)
(* keeps what must come and what must not.                                              *)
LEMMA StepOn ==
    ASSUME ScanTyped, InComes, OutStays, UNCHANGED <<memory, lost, partial, byByte, job, claim>>,
           NEW T, todo \in Seq(T), NEW n \in Nat, n <= Len(todo), todo' = SubSeq(todo, n + 1, Len(todo)),
           \A r \in ResultType : Has(r) => Has(r)',
           \A r \in ResultType : \A i \in 1 .. n : Comes(todo[i], r) /\ Plain(todo[i], r) => Has(r)',
           \A r \in ResultType : Has(r)' => Has(r) \/ \E i \in 1 .. n : Comes(todo[i], r)
    PROVE  InComes' /\ OutStays'
<1>1. claim' = claim /\ \A r \in claim.in : r \in ResultType
  BY DEF ScanTyped
<1>2. /\ Len(todo) \in Nat /\ Len(todo') \in Nat
      /\ \A i \in 1 .. Len(todo') : todo'[i] = todo[n + i] /\ n + i \in 1 .. Len(todo)
      /\ \A j \in 1 .. Len(todo) : j \in 1 .. n \/ (j - n \in 1 .. Len(todo') /\ todo[j] = todo'[j - n])
  BY DroppedIs
<1>3. ASSUME NEW r \in claim.in
      PROVE  (Has(r) \/ \E i \in 1 .. Len(todo) : Comes(todo[i], r) /\ Plain(todo[i], r))'
  <2>1. CASE Has(r)
    BY <1>1, <2>1
  <2>2. CASE \E i \in 1 .. Len(todo) : Comes(todo[i], r) /\ Plain(todo[i], r)
    <3>1. PICK j \in 1 .. Len(todo) : Comes(todo[j], r) /\ Plain(todo[j], r)
      BY <2>2
    <3>2. CASE j \in 1 .. n
      BY <1>1, <3>1, <3>2
    <3>3. CASE j - n \in 1 .. Len(todo') /\ todo[j] = todo'[j - n]
      <4>1. PICK x : x = todo[j]
        OBVIOUS
      <4>2. Comes(x, r)' /\ Plain(x, r)'
        BY <3>1, <4>1, SameComes, SamePlain
      <4>3. PICK i : i = j - n
        OBVIOUS
      <4>4. i \in 1 .. Len(todo') /\ todo'[i] = x
        BY <3>3, <4>1, <4>3
      <4>5. (Comes(todo[i], r) /\ Plain(todo[i], r))'
        BY <4>2, <4>4, ComesThen, PlainThen
      <4> QED
        BY <4>4, <4>5
    <3> QED
      BY <1>2, <3>2, <3>3
  <2> QED
    BY <2>1, <2>2 DEF InComes
<1>4. ASSUME NEW r \in ResultType, <<r.address, r.type>> \in claim.out
      PROVE  (~Has(r) /\ \A i \in 1 .. Len(todo) : ~Comes(todo[i], r))'
  <2>1. ~Has(r) /\ \A i \in 1 .. Len(todo) : ~Comes(todo[i], r)
    BY <1>4 DEF OutStays
  <2>2. ~Has(r)'
    <3>1. \A i \in 1 .. n : i \in 1 .. Len(todo)
      BY <1>2
    <3> QED
      BY <2>1, <3>1
  <2>3. ASSUME NEW i \in 1 .. Len(todo') PROVE (~Comes(todo[i], r))'
    <3>1. PICK x : x = todo'[i]
      OBVIOUS
    <3>2. ~Comes(x, r)
      BY <1>2, <2>1, <3>1
    <3>3. ~Comes(x, r)'
      BY <3>2, SameComes
    <3> QED
      BY <3>1, <3>3, ComesThen
  <2> QED
    BY <2>2, <2>3
<1>5. InComes'
  BY <1>1, <1>3 DEF InComes
<1>6. OutStays'
  BY <1>1, <1>4 DEF OutStays
<1> QED
  BY <1>5, <1>6

(* A walk that a user asks for is one. *)
LEMMA WalksAre ==
    ASSUME NEW walk \in Walks, NEW flags \in {walk.flags, walk.flags \cup {"writable"}}
    PROVE  [walk EXCEPT !.flags = flags] \in WalkType
<1> DEFINE e(F, r) == [flags |-> F, low |-> r.low, high |-> r.high]
<1>1. walk \in {e(F, r) : F \in SUBSET {"writable"}, r \in Ranges}
  BY DEF Walks
<1> HIDE DEF e
<1>2. \E F \in SUBSET {"writable"}, r \in Ranges : walk = e(F, r)
  BY <1>1
<1>3. PICK F \in SUBSET {"writable"}, r \in Ranges : walk = [flags |-> F, low |-> r.low, high |-> r.high]
  BY <1>2 DEF e
<1>4. r.low \in Nat /\ r.high \in Nat
  BY RangesAreTyped
<1>5. flags \in SUBSET {"writable", "executable"}
  BY <1>3
<1>6. [walk EXCEPT !.flags = flags] = [flags |-> flags, low |-> r.low, high |-> r.high]
  BY <1>3
<1> QED
  BY <1>4, <1>5, <1>6 DEF WalkType

(* The cells of a walk that are in reach are due from its chunks, and no others. *)
LEMMA CellsAreDue ==
    ASSUME NEW walk \in WalkType, NEW types \in SUBSET Types, NEW small, NEW cs, cs = Chunks(walk)
    PROVE  /\ ChunkList(cs)
           /\ Thorough(walk) => \A a, t : <<a, t>> \in CellsIn(types, small, walk) /\ Whole(<<a, t>>) =>
                \E i \in 1 .. Len(cs) : DueIn(cs[i], a, t, types, small) /\ Open(cs[i])
           /\ \A i \in 1 .. Len(cs) : \A a \in Addresses : \A t : DueIn(cs[i], a, t, types, small) =>
                <<a, t>> \in CellsIn(types, small, walk) /\ Whole(<<a, t>>)
<1> DEFINE S == ChunkSet(walk)
<1>1. Climbs(cs, S)
  BY ChunksAre
<1>2. \A c \in S : /\ SoundChunk(c)
                   /\ walk.low % PageSize = 0 => c.base % PageSize = 0
                   /\ \E r \in Allowed(walk) : r.base <= c.base /\ c.end = r.end
  BY ChunkSetIs
<1>3. \A c, d \in S : c = d \/ Ahead(c, d) \/ Ahead(d, c)
  BY ChunkSetIs
<1>4. \A r \in Allowed(walk) : r.base \in Nat /\ r.end \in Nat
  BY AllowedAre DEF SoundRegion, Region
<1> HIDE DEF S
<1>5. ChunkList(cs)
  <2>1. cs \in Seq(S) /\ \A i \in 1 .. Len(cs) : cs[i] \in S
    BY <1>1 DEF Climbs
  <2>2. \A i \in 1 .. Len(cs) : SoundChunk(cs[i])
    BY <1>2, <2>1
  <2>3. S \in SUBSET Chunk
    BY <1>2 DEF SoundChunk
  <2>4. cs \in Seq(Chunk)
    BY <2>1, <2>3, SeqMonotonic
  <2>5. ASSUME NEW i \in 1 .. Len(cs), NEW j \in 1 .. Len(cs), i < j PROVE Ahead(cs[i], cs[j])
    <3>1. cs[i].base < cs[j].base
      BY <1>1, <2>5 DEF Climbs
    <3>2. cs[i] \in S /\ cs[j] \in S /\ SoundChunk(cs[i]) /\ SoundChunk(cs[j])
      BY <2>1, <2>2
    <3>3. cs[i].base \in Nat /\ cs[j].base \in Nat /\ Primary(cs[j]) \in Nat
      BY <3>2, PrimaryIs DEF SoundChunk, Chunk
    <3>4. ~Ahead(cs[j], cs[i])
      BY <3>1, <3>3 DEF Ahead
    <3>5. cs[i] # cs[j]
      BY <3>1, <3>3
    <3> QED
      BY <1>3, <3>2, <3>4, <3>5
  <2> QED
    BY <2>2, <2>4, <2>5 DEF ChunkList
<1>6. ASSUME Thorough(walk), NEW a, NEW t, <<a, t>> \in CellsIn(types, small, walk), Whole(<<a, t>>)
      PROVE  \E i \in 1 .. Len(cs) : DueIn(cs[i], a, t, types, small) /\ Open(cs[i])
  <2>1. /\ a \in Addresses /\ t \in types /\ a % Stride(t, small) = 0
        /\ WithinOne(Span(a, t), walk)
    BY <1>6 DEF CellsIn
  <2>2. PICK r \in Allowed(walk) : Span(a, t) \subseteq r.base .. (r.end - 1)
    BY <2>1 DEF WithinOne
  <2> DEFINE w == Width[t]
  <2>3. a \in Nat /\ w \in Nat \ {0} /\ r.base \in Nat /\ r.end \in Nat
    BY <1>4, <2>1, AddressesAre, TypesAre
  <2>4. Span(a, t) = a .. (a + w - 1)
    BY DEF Span
  <2> HIDE DEF w
  <2>5. a \in r.base .. (r.end - 1) /\ a + w <= r.end
    <3>1. a \in a .. (a + w - 1) /\ a + w - 1 \in a .. (a + w - 1)
      BY <2>3
    <3>2. a \in r.base .. (r.end - 1) /\ a + w - 1 \in r.base .. (r.end - 1)
      BY <2>2, <2>4, <3>1
    <3> QED
      BY <2>3, <3>2
  <2>6. PICK c \in S : c.end = r.end /\ c.base <= a /\ a < c.base + Primary(c)
    BY <2>5, ChunkFor DEF S
  <2>7. DueIn(c, a, t, types, small)
    BY <1>6, <2>1, <2>5, <2>6 DEF DueIn, w
  <2>8. Open(c)
    BY <1>2, <1>6 DEF Thorough, Open
  <2>9. \E i \in 1 .. Len(cs) : cs[i] = c
    BY <1>1 DEF Climbs
  <2> QED
    BY <2>7, <2>8, <2>9
<1>7. ASSUME NEW i \in 1 .. Len(cs), NEW a \in Addresses, NEW t, DueIn(cs[i], a, t, types, small)
      PROVE  <<a, t>> \in CellsIn(types, small, walk) /\ Whole(<<a, t>>)
  <2> DEFINE c == cs[i]
             w == Width[t]
  <2>1. c \in S
    BY <1>1 DEF Climbs
  <2>2. PICK r \in Allowed(walk) : r.base <= c.base /\ c.end = r.end
    BY <1>2, <2>1
  <2>3. /\ t \in types /\ c.base <= a /\ a + w <= c.end
        /\ a % Stride(t, small) = 0 /\ Whole(<<a, t>>)
    BY <1>7 DEF DueIn
  <2>4. c.base \in Nat /\ c.end \in Nat
    BY <1>2, <2>1 DEF SoundChunk, Chunk
  <2>5. a \in Nat /\ w \in Nat \ {0} /\ r.base \in Nat /\ r.end \in Nat
    BY <1>4, <2>3, AddressesAre, TypesAre
  <2>6. Span(a, t) = a .. (a + w - 1)
    BY DEF Span
  <2> HIDE DEF c, w
  <2>7. a .. (a + w - 1) \subseteq r.base .. (r.end - 1)
    BY <2>2, <2>3, <2>4, <2>5
  <2>8. WithinOne(Span(a, t), walk)
    BY <2>6, <2>7 DEF WithinOne
  <2>9. <<a, t>> \in Addresses \X types
    BY <2>3
  <2> QED
    BY <2>3, <2>8, <2>9 DEF CellsIn
<1> QED
  BY <1>5, <1>6, <1>7

(* What is due is the same while the pages in reach are. *)
LEMMA SameDue ==
    ASSUME lost' = lost, NEW x, NEW a, NEW t, NEW types, NEW small
    PROVE  DueIn(x, a, t, types, small)' <=> DueIn(x, a, t, types, small)
BY DEF DueIn, Whole, InReach

(* A request is none that is missing. *)
LEMMA JobIs == ASSUME NEW j \in JobType PROVE j # None
BY NoneIsNoJob

(* An empty list of any kind. *)
LEMMA EmptyIs ==
    /\ \A T : <<>> \in Seq(T)
    /\ Len(<<>>) = 0 /\ 1 .. Len(<<>>) = {} /\ DOMAIN <<>> = {}
    /\ BlockList(<<>>) /\ InLine(<<>>) /\ ChunkList(<<>>)
<1>1. /\ \A T : <<>> \in Seq(T)
      /\ Len(<<>>) = 0 /\ 1 .. Len(<<>>) = {} /\ DOMAIN <<>> = {}
  OBVIOUS
<1> QED
  BY <1>1 DEF BlockList, InLine, ChunkList

(* A first scan begins with all of its chunks ahead. *)
LEMMA BeginFirstKeeps ==
    ASSUME ScanInv, NEW kind \in {"list", "snapshot"}, NEW types \in SUBSET Types, types # {},
           NEW mixed \in BOOLEAN, NEW wanted \in Wanted \cup {None}, NEW small, NEW walk \in WalkType,
           kind = "list" => (~mixed => \E t \in Types : types = {t}),
           NEW mode, mode = (IF kind = "list" THEN "exact" ELSE "all"),
           BeginFirst(kind, types, mixed, wanted, small),
           todo' = Chunks(walk), claim' = ClaimFirst(types, small, walk, mode, wanted)
    PROVE  ScanInv'
<1> DEFINE j == [kind |-> kind, types |-> types, mixed |-> mixed, mode |-> "exact", wanted |-> wanted]
           cs == Chunks(walk)
           found == {c \in CellsIn(types, small, walk) :
                        Whole(c) /\ (mode = "all" \/ ValueNow(c[1], c[2]) = wanted)}
<1>1. /\ byByte' = small /\ scan' = None /\ results' = <<>> /\ blocks' = <<>> /\ kept' = <<>>
      /\ job' = j /\ memory' = memory /\ lost' = lost /\ partial' = partial
  BY DEF BeginFirst, NoSnapshot, target
<1>2. TargetTyped /\ TargetTyped'
  BY <1>1 DEF ScanInv, TargetTyped
<1>3. j \in JobType /\ j # None /\ j.kind = kind /\ j.types = types /\ j.mixed = mixed /\ j.wanted = wanted
  BY JobIs DEF JobType, Modes
<1>4. cs = todo'
  OBVIOUS
<1>5. /\ ChunkList(cs)
      /\ Thorough(walk) => \A a, t : <<a, t>> \in CellsIn(types, small, walk) /\ Whole(<<a, t>>) =>
           \E i \in 1 .. Len(cs) : DueIn(cs[i], a, t, types, small) /\ Open(cs[i])
      /\ \A i \in 1 .. Len(cs) : \A a \in Addresses : \A t : DueIn(cs[i], a, t, types, small) =>
           <<a, t>> \in CellsIn(types, small, walk) /\ Whole(<<a, t>>)
  BY CellsAreDue
<1>6. /\ claim'.in = IF Thorough(walk) THEN {Result(c[1], c[2], ValueNow(c[1], c[2])) : c \in found} ELSE {}
      /\ claim'.out = (Addresses \X Types) \ found
      /\ claim' = [in |-> claim'.in, out |-> claim'.out]
  BY DEF ClaimFirst
<1>7. \A c \in found : /\ c = <<c[1], c[2]>> /\ c \in CellsIn(types, small, walk) /\ Whole(c)
                       /\ mode = "all" \/ ValueNow(c[1], c[2]) = wanted
                       /\ c[1] \in Addresses /\ c[2] \in types
  BY DEF CellsIn
<1>8. \A a, t : <<a, t>> \in CellsIn(types, small, walk) /\ Whole(<<a, t>>)
                /\ (mode = "all" \/ ValueNow(a, t) = wanted) => <<a, t>> \in found
  OBVIOUS
<1> HIDE DEF j, cs, found
<1>9. ASSUME NEW r \in claim'.in
      PROVE  \E c \in found : Thorough(walk) /\ r = Result(c[1], c[2], ValueNow(c[1], c[2]))
  BY <1>6
<1>10. ASSUME NEW c \in found PROVE Result(c[1], c[2], ValueNow(c[1], c[2])) \in ResultType
  <2>1. c[1] \in Nat /\ c[2] \in Types /\ Whole(<<c[1], c[2]>>)
    BY <1>7, AddressesAre
  <2>2. ValueNow(c[1], c[2]) \in Nat
    BY <1>2, <2>1, WholeIs, ValueIs
  <2> QED
    BY <1>7, <2>1, <2>2 DEF Result, ResultType
<1>11. ScanTyped'
  <2>1. claim'.in \in SUBSET ResultType /\ claim'.out \in SUBSET (Addresses \X Types)
    BY <1>6, <1>9, <1>10
  <2>2. claim' \in [in : SUBSET ResultType, out : SUBSET (Addresses \X Types)]
    BY <1>6, <2>1
  <2>3. results' \in Seq(ResultType) /\ Len(results') <= MaxResults
    BY <1>1, EmptyIs, ScanLimits
  <2>4. BlockList(blocks)'
    BY <1>1, EmptyIs
  <2> QED
    BY <1>1, <2>2, <2>3, <2>4 DEF ScanTyped
<1>12. Working'
  <2>1. JobTyped'
    BY <1>1, <1>3 DEF JobTyped
  <2>2. results' = <<>> /\ blocks' = <<>> /\ 1 .. Len(results') = {} /\ 1 .. Len(blocks') = {}
    BY <1>1, EmptyIs
  <2>3. ChunkList(todo)'
    BY <1>4, <1>5
  <2>4. ListWork'
    BY <2>2, <2>3 DEF ListWork, InLine
  <2>5. SnapshotWork'
    BY <2>2, <2>3 DEF SnapshotWork
  <2>6. job'.kind # "entries" /\ job'.kind # "blocks"
    BY <1>1, <1>3
  <2> QED
    BY <2>1, <2>4, <2>5, <2>6 DEF Working, EntriesWork, BlocksWork
<1>13. ASSUME NEW x, NEW r
       PROVE  Comes(x, r)' <=> /\ DueIn(x, r.address, r.type, types, small)
                               /\ r.previous = ValueNow(r.address, r.type)
                               /\ kind = "list" => r.previous = wanted
  <2>1. IsNow(r)' <=> r.previous = ValueNow(r.address, r.type)
    BY <1>1, SameValue DEF IsNow
  <2>2. Due(x, r.address, r.type)' <=> DueIn(x, r.address, r.type, types, small)'
    BY <1>1, <1>3 DEF Due, DueIn
  <2>3. DueIn(x, r.address, r.type, types, small)' <=> DueIn(x, r.address, r.type, types, small)
    BY <1>1, SameDue
  <2> QED
    BY <1>1, <1>3, <2>1, <2>2, <2>3 DEF Comes
<1>14. ASSUME NEW x, NEW r PROVE Plain(x, r)' <=> Open(x)
  BY <1>1, <1>3 DEF Plain, Open
<1>15. InComes'
  <2>1. ASSUME NEW r \in claim'.in
        PROVE  (\E i \in 1 .. Len(todo) : Comes(todo[i], r) /\ Plain(todo[i], r))'
    <3>1. PICK c \in found : Thorough(walk) /\ r = Result(c[1], c[2], ValueNow(c[1], c[2]))
      BY <1>9
    <3>2. PICK a, t : a = c[1] /\ t = c[2]
      OBVIOUS
    <3>3. <<a, t>> \in CellsIn(types, small, walk) /\ Whole(<<a, t>>) /\ (mode = "all" \/ ValueNow(a, t) = wanted)
      BY <1>7, <3>2
    <3>4. r.address = a /\ r.type = t /\ r.previous = ValueNow(a, t)
      BY <3>1, <3>2 DEF Result
    <3>5. PICK i \in 1 .. Len(cs) : DueIn(cs[i], a, t, types, small) /\ Open(cs[i])
      BY <1>5, <3>1, <3>3
    <3>6. PICK x : x = cs[i]
      OBVIOUS
    <3>7. Comes(x, r)' /\ Plain(x, r)'
      BY <1>13, <1>14, <3>3, <3>4, <3>5, <3>6
    <3>8. todo'[i] = x /\ i \in 1 .. Len(todo')
      BY <1>4, <3>6
    <3>9. (Comes(todo[i], r) /\ Plain(todo[i], r))'
      BY <3>7, <3>8, ComesThen, PlainThen
    <3> QED
      BY <3>8, <3>9
  <2> QED
    BY <2>1 DEF InComes
<1>16. OutStays'
  <2>1. ASSUME NEW r \in ResultType, <<r.address, r.type>> \in claim'.out
        PROVE  (~Has(r) /\ \A i \in 1 .. Len(todo) : ~Comes(todo[i], r))'
    <3>1. ~Has(r)'
      BY <1>1, <1>3, EmptyIs DEF Has
    <3>2. ASSUME NEW i \in 1 .. Len(todo') PROVE (~Comes(todo[i], r))'
      <4>1. PICK x : x = todo'[i]
        OBVIOUS
      <4>2. SUFFICES ~Comes(x, r)'
        BY <4>1, ComesThen
      <4>3. SUFFICES ASSUME DueIn(x, r.address, r.type, types, small),
                            r.previous = ValueNow(r.address, r.type), kind = "list" => r.previous = wanted
                     PROVE  FALSE
        BY <1>13
      <4>4. r.address \in Addresses /\ i \in 1 .. Len(cs) /\ x = cs[i]
        BY <1>4, <4>1 DEF ResultType
      <4>5. <<r.address, r.type>> \in CellsIn(types, small, walk) /\ Whole(<<r.address, r.type>>)
        BY <1>5, <4>3, <4>4
      <4>6. mode = "all" \/ ValueNow(r.address, r.type) = wanted
        BY <4>3
      <4>7. <<r.address, r.type>> \in found
        BY <1>8, <4>5, <4>6
      <4> QED
        BY <1>6, <2>1, <4>7
    <3> QED
      BY <3>1, <3>2
  <2> QED
    BY <2>1 DEF OutStays
<1>17. job' # None
  BY <1>1, <1>3
<1> QED
  BY <1>2, <1>11, <1>12, <1>15, <1>16, <1>17 DEF ScanInv

-----------------------------------------------------------------------------
(* First scans. *)

(* An exact first scan begins. *)
LEMMA FirstScanExactKeeps ==
    ASSUME ScanInv, NEW v \in Wanted, NEW types \in SUBSET Types, NEW small \in BOOLEAN, NEW walk \in Walks,
           FirstScanExact(v, types, small, walk)
    PROVE  ScanInv'
<1>1. /\ types # {} /\ todo' = Chunks(walk)
      /\ claim' = ClaimFirst(types, small, walk, "exact", v)
      /\ \E mixed \in BOOLEAN : (~mixed => Cardinality(types) = 1) /\ BeginFirst("list", types, mixed, v, small)
  BY DEF FirstScanExact
<1>2. PICK mixed \in BOOLEAN : (~mixed => Cardinality(types) = 1) /\ BeginFirst("list", types, mixed, v, small)
  BY <1>1
<1>3. ~mixed => \E t \in Types : types = {t}
  <2>1. IsFiniteSet(types)
    BY TypesAre, FS_Subset
  <2>2. Cardinality(types) = 1 => \E t : types = {t}
    BY <2>1, FS_Singleton
  <2> QED
    BY <1>2, <2>2
<1>4. walk \in WalkType
  <2>1. [walk EXCEPT !.flags = walk.flags] \in WalkType
    BY WalksAre
  <2>2. [walk EXCEPT !.flags = walk.flags] = walk
    <3> DEFINE e(F, r) == [flags |-> F, low |-> r.low, high |-> r.high]
    <3>1. walk \in {e(F, r) : F \in SUBSET {"writable"}, r \in Ranges}
      BY DEF Walks
    <3> HIDE DEF e
    <3>2. \E F \in SUBSET {"writable"}, r \in Ranges : walk = e(F, r)
      BY <3>1
    <3>3. \E F, l, h : walk = [flags |-> F, low |-> l, high |-> h]
      BY <3>2 DEF e
    <3> QED
      BY <3>3
  <2> QED
    BY <2>1, <2>2
<1> QED
  BY <1>1, <1>2, <1>3, <1>4, BeginFirstKeeps

(* A first scan for every value begins. *)
LEMMA FirstScanUnknownKeeps ==
    ASSUME ScanInv, NEW types \in SUBSET Types, NEW smart \in BOOLEAN, NEW small \in BOOLEAN, NEW options \in Walks,
           FirstScanUnknown(types, smart, small, options)
    PROVE  ScanInv'
<1> DEFINE flags == IF smart THEN options.flags \cup {"writable"} ELSE options.flags
           walk == [options EXCEPT !.flags = flags]
<1>1. /\ types = Types \/ Cardinality(types) = 1
      /\ BeginFirst("snapshot", types, types = Types, None, small)
      /\ todo' = Chunks(walk) /\ claim' = ClaimFirst(types, small, walk, "all", None)
  BY DEF FirstScanUnknown
<1>2. walk \in WalkType
  <2>1. flags \in {options.flags, options.flags \cup {"writable"}}
    OBVIOUS
  <2> HIDE DEF flags
  <2> QED
    BY <2>1, WalksAre
<1> HIDE DEF walk, flags
<1>3. types # {}
  <2>1. IsFiniteSet(types)
    BY TypesAre, FS_Subset
  <2>2. Cardinality(types) = 1 => \E t : types = {t}
    BY <2>1, FS_Singleton
  <2> QED
    BY <1>1, <2>2, TypesAre
<1>4. PICK mixed \in BOOLEAN : mixed <=> types = Types
  OBVIOUS
<1>5. mixed = (types = Types)
  BY <1>4, Zenon
<1>6. BeginFirst("snapshot", types, mixed, None, small)
  BY <1>1, <1>5
<1> QED
  BY <1>1, <1>2, <1>3, <1>6, BeginFirstKeeps

(* A scan that is forgotten leaves nothing. *)
LEMMA ForgetKeeps ==
    ASSUME ScanInv, Forget, UNCHANGED <<target, byByte>>
    PROVE  ScanInv'
<1>1. /\ scan' = None /\ results' = <<>> /\ blocks' = <<>> /\ job' = None /\ claim' = NoClaim
      /\ memory' = memory /\ lost' = lost /\ partial' = partial
  BY DEF Forget, NoSnapshot, target
<1>2. TargetTyped'
  BY <1>1 DEF ScanInv, TargetTyped
<1>3. ScanTyped'
  <2>1. results' \in Seq(ResultType) /\ Len(results') <= MaxResults
    BY <1>1, EmptyIs, ScanLimits
  <2>2. BlockList(blocks)'
    BY <1>1, EmptyIs
  <2>3. claim' \in [in : SUBSET ResultType, out : SUBSET (Addresses \X Types)]
    BY <1>1 DEF NoClaim
  <2> QED
    BY <1>1, <2>1, <2>2, <2>3 DEF ScanTyped
<1>4. ScanRests'
  BY <1>1 DEF ScanRests
<1> QED
  BY <1>1, <1>2, <1>3, <1>4 DEF ScanInv

\* The request at work, with nothing but its own state to change.
Goes == ScanInv /\ job # None /\ UNCHANGED <<target, byByte, job>>

(* At work the target and the request stay as they are typed. *)
LEMMA GoesIs ==
    ASSUME Goes
    PROVE  /\ TargetTyped /\ TargetTyped' /\ ScanTyped /\ Working /\ JobTyped /\ JobTyped' /\ InComes /\ OutStays
           /\ UNCHANGED <<memory, lost, partial, byByte, job>>
           /\ job \in JobType /\ job.kind \in {"list", "snapshot", "entries", "blocks"}
<1>1. UNCHANGED <<memory, lost, partial, byByte, job>>
  BY DEF Goes, target
<1>2. TargetTyped /\ ScanTyped /\ Working /\ InComes /\ OutStays
  BY DEF Goes, ScanInv
<1>3. TargetTyped'
  BY <1>1, <1>2 DEF TargetTyped
<1>4. JobTyped /\ JobTyped'
  BY <1>1, <1>2 DEF Working, JobTyped
<1> QED
  BY <1>1, <1>2, <1>3, <1>4 DEF JobTyped, JobType

(* A chunk of an exact scan. *)
LEMMA ScanChunkKeeps == ASSUME ScanInv, ScanChunk PROVE ScanInv'
<1> DEFINE c == Head(todo)
           hs == Hits(c)
           all == results \o hs
<1>1. /\ job # None /\ job.kind = "list" /\ todo # <<>>
      /\ UNCHANGED <<target, scan, byByte, blocks, job, kept, requests>>
      /\ IF Len(all) > MaxResults
         THEN results' = SubSeq(all, 1, MaxResults) /\ todo' = <<>> /\ claim' = [claim EXCEPT !.in = {}]
         ELSE results' = all /\ todo' = Tail(todo) /\ claim' = claim
  BY DEF ScanChunk
<1>2. Goes
  BY <1>1 DEF Goes
<1>3. /\ TargetTyped /\ TargetTyped' /\ ScanTyped /\ Working /\ JobTyped /\ JobTyped' /\ InComes /\ OutStays
      /\ UNCHANGED <<memory, lost, partial, byByte, job>>
      /\ scan' = scan /\ blocks' = blocks
  BY <1>1, <1>2, GoesIs
<1>4. /\ ChunkList(todo)
      /\ \A i \in 1 .. Len(results) : results[i].previous = job.wanted /\ results[i].type \in job.types
      /\ ~job.mixed => /\ InLine(results)
                       /\ \A i \in 1 .. Len(results), j \in 1 .. Len(todo) : results[i].address < todo[j].base
  BY <1>1, <1>3 DEF Working, ListWork
<1>5. todo \in Seq(Chunk) /\ results \in Seq(ResultType)
  BY <1>3, <1>4 DEF ChunkList, ScanTyped
<1>6. /\ Len(todo) \in Nat \ {0} /\ Tail(todo) = SubSeq(todo, 1 + 1, Len(todo)) /\ c = todo[1] /\ 1 \in 1 .. Len(todo)
  BY <1>1, <1>5, TailIs
<1>7. SoundChunk(c)
  BY <1>4, <1>6 DEF ChunkList
<1>8. c.base \in Nat /\ Primary(c) \in Nat
  BY <1>7, PrimaryIs DEF SoundChunk, Chunk
<1>9. /\ hs \in Seq(ResultType)
      /\ \A i \in 1 .. Len(hs) : Hit(c, hs[i])
      /\ Open(c) => \A r : Hit(c, r) => \E i \in 1 .. Len(hs) : hs[i] = r
      /\ (\E t \in Types : job.types = {t}) => InLine(hs)
  BY <1>3, <1>7, HitsAre
<1>10. \A i \in 1 .. Len(hs) : /\ hs[i].previous = job.wanted /\ hs[i].type \in job.types
                              /\ c.base <= hs[i].address /\ hs[i].address < c.base + Primary(c)
  BY <1>9 DEF Hit, Due, DueIn
<1> HIDE DEF c, hs
<1> DEFINE p == Len(results)
<1>11. /\ all \in Seq(ResultType) /\ p \in Nat /\ Len(hs) \in Nat /\ Len(all) = p + Len(hs)
       /\ \A i \in 1 .. p : all[i] = results[i] /\ i \in 1 .. Len(all)
       /\ \A i \in 1 .. Len(hs) : all[p + i] = hs[i] /\ p + i \in 1 .. Len(all)
       /\ \A i \in 1 .. Len(all) : i \in 1 .. p \/ (i - p \in 1 .. Len(hs) /\ all[i] = hs[i - p])
  BY <1>5, <1>9, JoinedTwo
<1> HIDE DEF p
<1>12. \A i \in 1 .. Len(all) : all[i].previous = job.wanted /\ all[i].type \in job.types
  <2> TAKE i \in 1 .. Len(all)
  <2>1. CASE i \in 1 .. p
    BY <1>4, <1>11, <2>1 DEF p
  <2>2. CASE i - p \in 1 .. Len(hs) /\ all[i] = hs[i - p]
    BY <1>10, <2>2
  <2> QED
    BY <1>11, <2>1, <2>2
<1>13. ASSUME ~job.mixed PROVE InLine(all)
  <2>1. \E t \in Types : job.types = {t}
    BY <1>1, <1>3, <1>13 DEF JobTyped
  <2>2. InLine(hs) /\ InLine(results)
    BY <1>4, <1>9, <1>13, <2>1
  <2>3. ASSUME NEW i \in 1 .. Len(results), NEW j \in 1 .. Len(hs) PROVE Before(results[i], hs[j])
    <3>1. results[i].address < c.base /\ c.base <= hs[j].address
      BY <1>4, <1>6, <1>10, <1>13
    <3>2. results[i].address \in Nat /\ hs[j].address \in Nat
      <4>1. results[i] \in ResultType /\ hs[j] \in ResultType
        BY <1>5, <1>9, ElementOfSeq
      <4> QED
        BY <4>1, AddressesAre DEF ResultType
    <3>3. results[i].address < hs[j].address
      BY <1>8, <3>1, <3>2
    <3> QED
      BY <3>3 DEF Before
  <2> QED
    BY <1>5, <1>9, <2>2, <2>3, InLineOn
<1>14. \A r : Has(r) <=> \E i \in 1 .. p : results[i] = r
  BY <1>1 DEF Has, p
<1>15. \A r : Has(r)' <=> \E i \in 1 .. Len(results') : results'[i] = r
  BY <1>1 DEF Has
<1>16. \A i \in 1 .. Len(hs) : Comes(c, hs[i]) /\ hs[i] \in ResultType
  BY <1>1, <1>9 DEF Comes, Hit
<1>17. ASSUME NEW i \in 1 .. Len(all) PROVE Has(all[i]) \/ Comes(c, all[i])
  <2>1. CASE i \in 1 .. p
    BY <1>11, <1>14, <2>1
  <2>2. CASE i - p \in 1 .. Len(hs) /\ all[i] = hs[i - p]
    BY <1>16, <2>2
  <2> QED
    BY <1>11, <2>1, <2>2
<1>18. JobTyped' /\ job'.kind = "list" /\ job' = job
  BY <1>1, <1>3
<1>19. CASE Len(all) <= MaxResults
  <2>1. results' = all /\ todo' = Tail(todo) /\ claim' = claim
    BY <1>1, <1>11, <1>19, ScanLimits
  <2>2. ScanTyped'
    BY <1>3, <1>11, <1>19, <2>1 DEF ScanTyped
  <2>3. ChunkList(todo')
    BY <1>1, <1>4, <2>1, ChunksLeft
  <2>4. ASSUME ~job.mixed, NEW i \in 1 .. Len(all), NEW j \in 1 .. Len(todo') PROVE all[i].address < todo'[j].base
    <3>1. todo'[j] = todo[1 + j] /\ 1 + j \in 1 .. Len(todo) /\ j \in Nat
      BY <1>5, <1>6, <2>1, DroppedIs
    <3>2. CASE i \in 1 .. p
      BY <1>4, <1>11, <2>4, <3>1, <3>2 DEF p
    <3>3. CASE i - p \in 1 .. Len(hs) /\ all[i] = hs[i - p]
      <4>1. hs[i - p].address < c.base + Primary(c)
        BY <1>10, <3>3
      <4>2. Ahead(c, todo[1 + j])
        <5>1. 1 < 1 + j
          BY <3>1
        <5> QED
          BY <1>4, <1>6, <3>1, <5>1 DEF ChunkList
      <4>3. hs[i - p].address \in Nat /\ todo[1 + j].base \in Nat
        <5>1. hs[i - p] \in ResultType
          BY <1>16, <3>3
        <5>2. todo[1 + j] \in Chunk
          BY <1>5, <3>1, ElementOfSeq
        <5> QED
          BY <5>1, <5>2, AddressesAre DEF ResultType, Chunk
      <4> DEFINE x == hs[i - p].address
                 y == c.base + Primary(c)
                 z == todo[1 + j].base
      <4>4. x < y /\ y <= z
        BY <4>1, <4>2 DEF Ahead
      <4>5. x \in Nat /\ z \in Nat
        BY <4>3
      <4>6. y \in Nat
        BY <1>8
      <4> HIDE DEF x, y, z
      <4>7. x < z
        BY <4>4, <4>5, <4>6
      <4> QED
        BY <3>1, <3>3, <4>7 DEF x, z
    <3> QED
      BY <1>11, <3>2, <3>3
  <2>5. ListWork'
    BY <1>12, <1>13, <1>18, <2>1, <2>3, <2>4 DEF ListWork
  <2>6. Working'
    BY <1>18, <2>5 DEF Working, SnapshotWork, EntriesWork, BlocksWork
  <2>7. \A r \in ResultType : Has(r) => Has(r)'
    BY <1>11, <1>14, <1>15, <2>1
  <2>8. ASSUME NEW r \in ResultType, NEW i \in 1 .. 1, Comes(todo[i], r), Plain(todo[i], r) PROVE Has(r)'
    <3>1. i = 1
      OBVIOUS
    <3>2. Comes(c, r) /\ Plain(c, r)
      BY <1>6, <2>8, <3>1
    <3>3. Open(c) /\ Hit(c, r)
      BY <1>1, <3>2 DEF Comes, Plain, Hit
    <3>4. PICK j \in 1 .. Len(hs) : hs[j] = r
      BY <1>9, <3>3
    <3>5. all[p + j] = r /\ p + j \in 1 .. Len(all)
      BY <1>11, <3>4
    <3> QED
      BY <1>15, <2>1, <3>5
  <2>9. ASSUME NEW r \in ResultType, Has(r)' PROVE Has(r) \/ \E i \in 1 .. 1 : Comes(todo[i], r)
    <3>1. Has(r) \/ Comes(c, r)
      BY <1>15, <1>17, <2>1, <2>9
    <3>2. 1 \in 1 .. 1
      OBVIOUS
    <3> QED
      BY <1>6, <3>1, <3>2
  <2>10. 1 \in Nat /\ 1 <= Len(todo) /\ todo' = SubSeq(todo, 1 + 1, Len(todo))
    BY <1>6, <2>1
  <2>11. InComes' /\ OutStays'
    BY <1>3, <1>5, <2>1, <2>7, <2>8, <2>9, <2>10, StepOn
  <2> QED
    BY <1>1, <1>3, <2>2, <2>6, <2>11 DEF ScanInv
<1>20. CASE ~(Len(all) <= MaxResults)
  <2>1. Len(all) > MaxResults /\ 0 + 1 = 1 /\ MaxResults - 0 = MaxResults /\ \A i \in 1 .. MaxResults : 0 + i = i
    BY <1>11, <1>20, ScanLimits
  <2>2. results' = SubSeq(all, 0 + 1, MaxResults) /\ todo' = <<>> /\ claim' = [claim EXCEPT !.in = {}]
    BY <1>1, <2>1
  <2>3. 0 \in Nat /\ 0 <= MaxResults /\ MaxResults <= Len(all) /\ MaxResults \in Nat
    BY <1>11, <2>1, ScanLimits
  <2>4. /\ results' \in Seq(ResultType) /\ Len(results') = MaxResults
        /\ \A i \in 1 .. MaxResults : results'[i] = all[i]
    <3> HIDE DEF all
    <3>1. SubSeq(all, 0 + 1, MaxResults) \in Seq(ResultType) /\ Len(SubSeq(all, 0 + 1, MaxResults)) = MaxResults - 0
      BY <1>11, <2>3, Slice
    <3>2. \A i \in 1 .. (MaxResults - 0) : SubSeq(all, 0 + 1, MaxResults)[i] = all[0 + i]
      BY <1>11, <2>3, Slice
    <3> QED
      BY <2>1, <2>2, <3>1, <3>2
  <2>5. claim'.in = {} /\ claim'.out = claim.out /\ claim' \in [in : SUBSET ResultType, out : SUBSET (Addresses \X Types)]
    BY <1>3, <2>2 DEF ScanTyped
  <2>6. ScanTyped'
    BY <1>3, <2>3, <2>4, <2>5 DEF ScanTyped
  <2>7. \A i \in 1 .. MaxResults : i \in 1 .. Len(all)
    BY <2>3
  <2>8. ~job.mixed => InLine(results')
    BY <1>11, <1>13, <2>2, <2>3, InLinePart
  <2>9. ListWork'
    BY <1>12, <1>18, <2>2, <2>4, <2>7, <2>8, EmptyIs DEF ListWork
  <2>10. Working'
    BY <1>18, <2>9 DEF Working, SnapshotWork, EntriesWork, BlocksWork
  <2>11. InComes'
    BY <2>5 DEF InComes
  <2>12. ASSUME NEW r \in ResultType, <<r.address, r.type>> \in claim.out
         PROVE  ~Has(r)'
    <3>1. ~Has(r) /\ ~Comes(c, r)
      BY <1>3, <1>6, <2>12 DEF OutStays
    <3>2. SUFFICES ASSUME NEW i \in 1 .. MaxResults, all[i] = r PROVE FALSE
      BY <1>15, <2>4
    <3> QED
      BY <1>17, <2>7, <3>1, <3>2
  <2>13. OutStays'
    BY <2>2, <2>5, <2>12, EmptyIs DEF OutStays
  <2> QED
    BY <1>1, <1>3, <2>6, <2>10, <2>11, <2>13 DEF ScanInv
<1> QED
  BY <1>19, <1>20

(* The end of an exact scan. *)
LEMMA ScanEndsKeeps == ASSUME ScanInv, ScanEnds PROVE ScanInv'
<1> DEFINE S == {results[i] : i \in DOMAIN results}
           n == Len(results)
<1>1. /\ job # None /\ job.kind = "list" /\ todo = <<>> /\ job' = None
      /\ scan' = [mixed |-> job.mixed, snapshot |-> FALSE, types |-> job.types]
      /\ results' = IF job.mixed THEN InOrder(S) ELSE results
      /\ memory' = memory /\ lost' = lost /\ partial' = partial /\ blocks' = blocks /\ claim' = claim
  BY DEF ScanEnds, target
<1>2. TargetTyped /\ ScanTyped /\ JobTyped /\ ListWork /\ InComes /\ OutStays
  BY <1>1 DEF ScanInv, Working
<1>3. /\ results \in Seq(ResultType) /\ n <= MaxResults /\ n \in Nat /\ DOMAIN results = 1 .. n
      /\ \A i \in 1 .. n : results[i] \in ResultType
  BY <1>2, LenProperties, ElementOfSeq DEF ScanTyped
<1>4. \A r : r \in S <=> \E i \in 1 .. n : results[i] = r
  BY <1>3
<1>5. S \in SUBSET ResultType
  BY <1>3, <1>4
<1>6. \A r \in S : r.previous = job.wanted
  BY <1>1, <1>2, <1>4 DEF ListWork
<1>7. IsFiniteSet(S) /\ Cardinality(S) \in Nat /\ Cardinality(S) <= n
  <2>1. S = {results[i] : i \in 1 .. n}
    BY <1>3
  <2> HIDE DEF S, n
  <2>2. 1 \in Int /\ n \in Int /\ (IF 1 > n THEN 0 ELSE n - 1 + 1) = n
    BY <1>3
  <2>3. IsFiniteSet(1 .. n) /\ Cardinality(1 .. n) = n
    BY <2>2, FS_Interval
  <2> QED
    BY <2>1, <2>3, ImageIs
<1> HIDE DEF S
<1>8. Apart(S)
  <2> SUFFICES ASSUME NEW r \in S, NEW s \in S, r.address = s.address, r.type = s.type PROVE r = s
    BY DEF Apart
  <2>1. r \in ResultType /\ s \in ResultType /\ r.previous = s.previous
    BY <1>5, <1>6
  <2> QED
    BY <2>1 DEF ResultType
<1>9. /\ results' \in Seq(ResultType) /\ Len(results') <= MaxResults /\ InLine(results')
      /\ \A r : r \in S <=> \E i \in 1 .. Len(results') : results'[i] = r
  <2>1. CASE job.mixed
    <3>1. \A r \in S : r.address \in Nat /\ r.type \in Nat
      BY <1>5, AddressesAre, TypesAre DEF ResultType
    <3>2. Listed(InOrder(S), S)
      BY <1>7, <1>8, <3>1, InOrderIs
    <3>3. results' = InOrder(S)
      BY <1>1, <2>1
    <3>4. /\ results' \in Seq(S) /\ Len(results') = Cardinality(S) /\ InLine(results')
          /\ \A r : r \in S <=> \E i \in 1 .. Len(results') : results'[i] = r
      BY <3>2, <3>3 DEF Listed
    <3>5. results' \in Seq(ResultType)
      BY <1>5, <3>4, SeqMonotonic
    <3> QED
      BY <1>3, <1>7, <3>4, <3>5, ScanLimits
  <2>2. CASE ~job.mixed
    BY <1>1, <1>2, <1>3, <1>4, <2>2 DEF ListWork
  <2> QED
    BY <2>1, <2>2
<1>10. scan' # None => Found' = S
  <2>1. DOMAIN results' = 1 .. Len(results')
    BY <1>9, LenProperties
  <2>2. ~scan'.snapshot
    BY <1>1
  <2> QED
    BY <1>9, <2>1, <2>2 DEF Found
<1>11. 1 .. Len(todo) = {}
  BY <1>1, EmptyIs
<1>12. \A r \in claim.in : r \in S
  BY <1>1, <1>2, <1>4, <1>11 DEF InComes, Has
<1>13. \A r \in S : <<r.address, r.type>> \notin claim.out
  BY <1>1, <1>2, <1>4, <1>5 DEF OutStays, Has
<1>14. ScanRests'
  BY <1>1, <1>9, <1>10, <1>12, <1>13 DEF ScanRests
<1>15. ScanTyped'
  <2>1. scan' \in ScanType /\ scan'.types # {}
    BY <1>1, <1>2 DEF ScanType, JobTyped, JobType
  <2> QED
    BY <1>1, <1>2, <1>9, <2>1 DEF ScanTyped
<1>16. TargetTyped'
  BY <1>1, <1>2 DEF TargetTyped
<1> QED
  BY <1>1, <1>14, <1>15, <1>16 DEF ScanInv

(* A chunk of a snapshot. *)
LEMMA SnapshotChunkKeeps == ASSUME ScanInv, SnapshotChunk PROVE ScanInv'
<1> DEFINE c == Head(todo)
           vs == Visits(c, Overlap)
           bs == [i \in DOMAIN vs |-> BlockOf(vs[i])]
<1>1. /\ job # None /\ job.kind = "snapshot" /\ todo # <<>>
      /\ UNCHANGED <<target, scan, byByte, results, job, kept, requests, claim>>
      /\ blocks' = blocks \o bs /\ todo' = Tail(todo)
  BY DEF SnapshotChunk
<1>2. Goes
  BY <1>1 DEF Goes
<1>3. /\ TargetTyped /\ TargetTyped' /\ ScanTyped /\ Working /\ JobTyped /\ JobTyped' /\ InComes /\ OutStays
      /\ UNCHANGED <<memory, lost, partial, byByte, job>>
      /\ scan' = scan /\ results' = results /\ claim' = claim
  BY <1>1, <1>2, GoesIs
<1>4. /\ ChunkList(todo) /\ results = <<>>
      /\ \A i \in 1 .. Len(blocks), j \in 1 .. Len(todo) : blocks[i].base + blocks[i].starts <= todo[j].base
  BY <1>1, <1>3 DEF Working, SnapshotWork
<1>5. todo \in Seq(Chunk) /\ BlockList(blocks) /\ blocks \in Seq(Block)
  BY <1>3, <1>4 DEF ChunkList, ScanTyped, BlockList
<1>6. /\ Len(todo) \in Nat \ {0} /\ Tail(todo) = SubSeq(todo, 1 + 1, Len(todo)) /\ c = todo[1] /\ 1 \in 1 .. Len(todo)
  BY <1>1, <1>5, TailIs
<1>7. SoundChunk(c)
  BY <1>4, <1>6 DEF ChunkList
<1>8. c.base \in Nat /\ Primary(c) \in Nat
  BY <1>7, PrimaryIs DEF SoundChunk, Chunk
<1>9. /\ BlockList(bs)
      /\ \A i \in 1 .. Len(bs) : c.base <= bs[i].base /\ bs[i].base + bs[i].starts <= c.base + Primary(c)
      /\ \A i \in 1 .. Len(bs) : \A r \in Held(bs[i]) : Due(c, r.address, r.type) /\ IsNow(r)
      /\ Open(c) => \A r \in ResultType : Due(c, r.address, r.type) /\ IsNow(r) =>
                       \E i \in 1 .. Len(bs) : r \in Held(bs[i])
  BY <1>3, <1>7, BlocksOfIs
<1> HIDE DEF c, bs
<1>10. bs \in Seq(Block)
  BY <1>9 DEF BlockList
<1> DEFINE p == Len(blocks)
           all == blocks'
<1>11. all = blocks \o bs
  BY <1>1
<1> HIDE DEF all
<1>12. /\ all \in Seq(Block) /\ p \in Nat /\ Len(bs) \in Nat /\ Len(all) = p + Len(bs)
       /\ \A i \in 1 .. p : all[i] = blocks[i] /\ i \in 1 .. Len(all)
       /\ \A i \in 1 .. Len(bs) : all[p + i] = bs[i] /\ p + i \in 1 .. Len(all)
       /\ \A i \in 1 .. Len(all) : i \in 1 .. p \/ (i - p \in 1 .. Len(bs) /\ all[i] = bs[i - p])
  BY <1>5, <1>10, <1>11, JoinedTwo
<1> HIDE DEF p
<1>13. BlockList(all)
  <2>1. ASSUME NEW i \in 1 .. Len(blocks), NEW j \in 1 .. Len(bs) PROVE blocks[i].base + blocks[i].starts <= bs[j].base
    <3>1. blocks[i].base + blocks[i].starts <= c.base /\ c.base <= bs[j].base
      BY <1>4, <1>6, <1>9
    <3>2. blocks[i] \in Block /\ bs[j] \in Block
      BY <1>5, <1>10, ElementOfSeq
    <3> DEFINE x == blocks[i].base + blocks[i].starts
               y == bs[j].base
    <3>3. x \in Nat /\ y \in Nat /\ x <= c.base /\ c.base <= y
      BY <3>1, <3>2 DEF Block
    <3> HIDE DEF x, y
    <3>4. x <= y
      BY <1>8, <3>3
    <3> QED
      BY <3>4 DEF x, y
  <2> QED
    BY <1>5, <1>9, <1>11, <2>1, BlocksOn
<1>14. \A r : Has(r) <=> \E i \in 1 .. p : r \in Held(blocks[i])
  BY <1>1 DEF Has, p
<1>15. \A r : Has(r)' <=> \E i \in 1 .. Len(all) : r \in Held(all[i])
  <2> TAKE r
  <2>1. Has(r)' <=> \E i \in 1 .. Len(blocks') : r \in Held(blocks'[i])
    BY <1>1 DEF Has, Held
  <2> QED
    BY <2>1 DEF all
<1>16. ScanTyped'
  BY <1>3, <1>13 DEF ScanTyped, all
<1>17. ASSUME NEW i \in 1 .. Len(all), NEW j \in 1 .. Len(todo') PROVE all[i].base + all[i].starts <= todo'[j].base
  <2>1. todo'[j] = todo[1 + j] /\ 1 + j \in 1 .. Len(todo) /\ j \in Nat
    BY <1>1, <1>5, <1>6, DroppedIs
  <2>2. CASE i \in 1 .. p
    BY <1>4, <1>12, <2>1, <2>2 DEF p
  <2>3. CASE i - p \in 1 .. Len(bs) /\ all[i] = bs[i - p]
    <3> DEFINE x == bs[i - p].base + bs[i - p].starts
               y == c.base + Primary(c)
               z == todo[1 + j].base
    <3>1. x <= y
      BY <1>9, <2>3
    <3>2. y <= z
      <4>1. 1 < 1 + j
        BY <2>1
      <4>2. Ahead(todo[1], todo[1 + j])
        BY <1>4, <1>6, <2>1, <4>1 DEF ChunkList
      <4> QED
        BY <1>6, <4>2 DEF Ahead
    <3>3. x \in Nat
      <4>1. bs[i - p] \in Block
        BY <1>10, <2>3, ElementOfSeq
      <4> QED
        BY <4>1 DEF Block
    <3>4. y \in Nat
      BY <1>8
    <3>5. z \in Nat
      <4>1. todo[1 + j] \in Chunk
        BY <1>5, <2>1, ElementOfSeq
      <4> QED
        BY <4>1 DEF Chunk
    <3> HIDE DEF x, y, z
    <3>6. x <= z
      BY <3>1, <3>2, <3>3, <3>4, <3>5
    <3> QED
      BY <2>1, <2>3, <3>6 DEF x, z
  <2> QED
    BY <1>12, <2>2, <2>3
<1>18. Working'
  <2>1. ChunkList(todo')
    BY <1>1, <1>4, ChunksLeft
  <2>2. SnapshotWork'
    BY <1>3, <1>4, <1>17, <2>1 DEF SnapshotWork, all
  <2>3. job'.kind = "snapshot"
    BY <1>1
  <2> QED
    BY <1>3, <2>2, <2>3 DEF Working, ListWork, EntriesWork, BlocksWork
<1>19. ASSUME NEW r \in ResultType, Has(r) PROVE Has(r)'
  BY <1>12, <1>14, <1>15, <1>19
<1>20. ASSUME NEW r \in ResultType, NEW i \in 1 .. 1, Comes(todo[i], r), Plain(todo[i], r) PROVE Has(r)'
  <2>1. i = 1
    OBVIOUS
  <2>2. Comes(c, r) /\ Plain(c, r)
    BY <1>6, <1>20, <2>1
  <2>3. Open(c) /\ Due(c, r.address, r.type) /\ IsNow(r)
    BY <1>1, <2>2 DEF Comes, Plain
  <2>4. PICK j \in 1 .. Len(bs) : r \in Held(bs[j])
    BY <1>9, <2>3
  <2> QED
    BY <1>12, <1>15, <2>4
<1>21. ASSUME NEW r \in ResultType, Has(r)' PROVE Has(r) \/ \E i \in 1 .. 1 : Comes(todo[i], r)
  <2>1. PICK i \in 1 .. Len(all) : r \in Held(all[i])
    BY <1>15, <1>21
  <2>2. CASE i \in 1 .. p
    BY <1>12, <1>14, <2>1, <2>2
  <2>3. CASE i - p \in 1 .. Len(bs) /\ all[i] = bs[i - p]
    <3>1. Due(c, r.address, r.type) /\ IsNow(r)
      BY <1>9, <2>1, <2>3
    <3>2. Comes(c, r)
      BY <1>1, <3>1 DEF Comes
    <3>3. 1 \in 1 .. 1
      OBVIOUS
    <3> QED
      BY <1>6, <3>2, <3>3
  <2> QED
    BY <1>12, <2>2, <2>3
<1>22. 1 \in Nat /\ 1 <= Len(todo) /\ todo' = SubSeq(todo, 1 + 1, Len(todo))
  BY <1>1, <1>6
<1>23. InComes' /\ OutStays'
  BY <1>3, <1>5, <1>19, <1>20, <1>21, <1>22, StepOn
<1> QED
  BY <1>1, <1>3, <1>16, <1>18, <1>23 DEF ScanInv

(* The end of a snapshot. *)
LEMMA SnapshotEndsKeeps == ASSUME ScanInv, SnapshotEnds PROVE ScanInv'
<1>1. /\ job # None /\ job.kind = "snapshot" /\ todo = <<>> /\ job' = None
      /\ scan' = [mixed |-> job.mixed, snapshot |-> TRUE, types |-> job.types]
      /\ memory' = memory /\ lost' = lost /\ partial' = partial
      /\ results' = results /\ blocks' = blocks /\ claim' = claim
  BY DEF SnapshotEnds, target
<1>2. TargetTyped /\ ScanTyped /\ JobTyped /\ SnapshotWork /\ InComes /\ OutStays
  BY <1>1 DEF ScanInv, Working
<1>3. results = <<>> /\ InLine(results)
  BY <1>1, <1>2, EmptyIs DEF SnapshotWork
<1>4. DOMAIN blocks = 1 .. Len(blocks) /\ \A i \in 1 .. Len(blocks) : SoundBlock(blocks[i])
  BY <1>2, LenProperties DEF ScanTyped, BlockList
<1>5. ASSUME NEW r PROVE (\E i \in 1 .. Len(blocks) : r \in Held(blocks[i])) <=> Has(r)
  BY <1>1 DEF Has
<1>6. scan' # None => \A r : r \in Found' <=> Has(r)
  <2>1. scan'.snapshot
    BY <1>1
  <2>2. scan' # None => Found' = UNION {Held(blocks[i]) : i \in DOMAIN blocks}
    BY <1>1, <2>1 DEF Found, Held
  <2>3. \A r : r \in UNION {Held(blocks[i]) : i \in DOMAIN blocks} <=> \E i \in DOMAIN blocks : r \in Held(blocks[i])
    OBVIOUS
  <2> QED
    BY <1>4, <1>5, <2>2, <2>3
<1>7. \A r : Has(r) => r \in ResultType
  BY <1>4, <1>5, HeldIs
<1>8. 1 .. Len(todo) = {}
  BY <1>1, EmptyIs
<1>9. \A r \in claim.in : Has(r)
  BY <1>2, <1>8 DEF InComes
<1>10. \A r : Has(r) => <<r.address, r.type>> \notin claim.out
  BY <1>2, <1>7 DEF OutStays
<1>11. ScanRests'
  BY <1>1, <1>3, <1>6, <1>9, <1>10 DEF ScanRests
<1>12. ScanTyped'
  <2>1. scan' \in ScanType /\ scan'.types # {}
    BY <1>1, <1>2 DEF ScanType, JobTyped, JobType
  <2> QED
    BY <1>1, <1>2, <2>1 DEF ScanTyped
<1>13. TargetTyped'
  BY <1>1, <1>2 DEF TargetTyped
<1> QED
  BY <1>1, <1>11, <1>12, <1>13 DEF ScanInv

(* A snapshot file that fails. *)
LEMMA StorageFailsKeeps == ASSUME ScanInv, StorageFails PROVE ScanInv'
BY ForgetKeeps DEF StorageFails

(* A scan that is given up. *)
LEMMA ClearKeeps == ASSUME ScanInv, Clear PROVE ScanInv'
BY ForgetKeeps DEF Clear

-----------------------------------------------------------------------------
(* Refinements of a list. *)

(* What is found is in the list, or in a block of the snapshot. *)
LEMMA FoundIs ==
    ASSUME ScanTyped
    PROVE  /\ scan # None /\ ~scan.snapshot => \A r : r \in Found <=> \E i \in 1 .. Len(results) : results[i] = r
           /\ scan # None /\ scan.snapshot => \A r : r \in Found <=> \E i \in 1 .. Len(blocks) : r \in Held(blocks[i])
           /\ Found \subseteq ResultType
<1>1. DOMAIN results = 1 .. Len(results) /\ DOMAIN blocks = 1 .. Len(blocks)
  BY LenProperties DEF ScanTyped, BlockList
<1>2. ASSUME scan # None, ~scan.snapshot PROVE \A r : r \in Found <=> \E i \in 1 .. Len(results) : results[i] = r
  <2>1. Found = {results[i] : i \in DOMAIN results}
    BY <1>2 DEF Found
  <2> QED
    BY <1>1, <2>1
<1>3. ASSUME scan # None, scan.snapshot PROVE \A r : r \in Found <=> \E i \in 1 .. Len(blocks) : r \in Held(blocks[i])
  <2>1. Found = UNION {Held(blocks[i]) : i \in DOMAIN blocks}
    BY <1>3 DEF Found
  <2> QED
    BY <1>1, <2>1
<1>4. scan = None => Found = {}
  BY DEF Found
<1>5. \A i \in 1 .. Len(results) : results[i] \in ResultType
  BY ElementOfSeq DEF ScanTyped
<1>6. \A i \in 1 .. Len(blocks) : \A r \in Held(blocks[i]) : r \in ResultType
  BY HeldIs DEF ScanTyped, BlockList
<1> QED
  BY <1>2, <1>3, <1>4, <1>5, <1>6

(* A block with fewer candidates, or with other bytes, is a block still. *)
LEMMA NarrowBlock ==
    ASSUME NEW b, SoundBlock(b), NEW live \in [Types -> SUBSET Nat], \A t \in Types : live[t] \subseteq b.active[t],
           NEW content \in Seq(Nat), Len(content) = b.size,
           NEW d, d = [base |-> b.base, size |-> b.size, starts |-> b.starts, bytes |-> content, active |-> live]
    PROVE  SoundBlock(d) /\ d.base = b.base /\ d.starts = b.starts /\ d.active = live /\ d.bytes = content
<1>1. d.base = b.base /\ d.size = b.size /\ d.starts = b.starts /\ d.bytes = content /\ d.active = live
  OBVIOUS
<1>2. d \in Block
  BY DEF SoundBlock, Block
<1> QED
  BY <1>1, <1>2 DEF SoundBlock

(* What a user turns off leaves the list, the snapshot and the claim. *)
LEMMA DisableMixedTypeKeeps ==
    ASSUME ScanInv, NEW t \in Types, DisableMixedType(t)
    PROVE  ScanInv'
<1> DEFINE P == {i \in DOMAIN results : results[i].type # t}
           new == [i \in DOMAIN blocks |-> [blocks[i] EXCEPT !.active[t] = {}]]
<1>1. /\ job = None /\ job' = None /\ scan # None /\ scan' = scan
      /\ blocks' = new /\ results' = Chosen(results, P)
      /\ claim' = [in |-> {r \in claim.in : r.type # t}, out |-> claim.out \cup (Addresses \X {t})]
      /\ memory' = memory /\ lost' = lost /\ partial' = partial
  BY DEF DisableMixedType, Request, target
<1>2. TargetTyped /\ ScanTyped /\ ScanRests
  BY <1>1 DEF ScanInv
<1>3. /\ results \in Seq(ResultType) /\ DOMAIN results = 1 .. Len(results) /\ Len(results) <= MaxResults
      /\ blocks \in Seq(Block) /\ DOMAIN blocks = 1 .. Len(blocks) /\ Len(blocks) \in Nat
      /\ \A i \in 1 .. Len(blocks) : SoundBlock(blocks[i]) /\ blocks[i] \in Block
  BY <1>2, LenProperties, ElementOfSeq DEF ScanTyped, BlockList
<1>4. Picks(results', results, P, ResultType)
  <2>1. P \in SUBSET (1 .. Len(results))
    BY <1>3
  <2> HIDE DEF P
  <2> QED
    BY <1>1, <1>3, <2>1, ChosenIs
<1>5. \A i \in P : i \in 1 .. Len(results) /\ results[i].type # t
  BY <1>3
<1>6. \A i \in 1 .. Len(results) : results[i].type # t => i \in P
  BY <1>3
<1> HIDE DEF P
<1>7. \A r : (\E i \in 1 .. Len(results') : results'[i] = r) <=> (\E i \in 1 .. Len(results) : results[i] = r) /\ r.type # t
  <2>1. (\A i \in 1 .. Len(results') : \E p \in P : results'[i] = results[p])
        /\ (\A p \in P : \E i \in 1 .. Len(results') : results'[i] = results[p])
    BY <1>4 DEF Picks
  <2> TAKE r
  <2>2. ASSUME NEW i \in 1 .. Len(results'), results'[i] = r PROVE (\E k \in 1 .. Len(results) : results[k] = r) /\ r.type # t
    BY <1>5, <2>1, <2>2
  <2>3. ASSUME NEW k \in 1 .. Len(results), results[k] = r, r.type # t PROVE \E i \in 1 .. Len(results') : results'[i] = r
    BY <1>6, <2>1, <2>3
  <2> QED
    BY <2>2, <2>3
<1>8. InLine(results')
  <2>1. InLine(results)
    BY <1>1, <1>2 DEF ScanRests
  <2> SUFFICES ASSUME NEW i \in 1 .. Len(results'), NEW j \in 1 .. Len(results'), i < j
               PROVE  Before(results'[i], results'[j])
    BY DEF InLine
  <2>2. PICK p \in P, q \in P : p < q /\ results'[i] = results[p] /\ results'[j] = results[q]
    BY <1>4 DEF Picks
  <2> QED
    BY <1>5, <2>1, <2>2 DEF InLine
<1>9. results' \in Seq(ResultType) /\ Len(results') \in Nat /\ Len(results') <= Len(results) /\ Len(results') <= MaxResults
  BY <1>3, <1>4, LenProperties, ScanLimits DEF Picks
<1>10. scan.snapshot => results' = <<>>
  <2> SUFFICES ASSUME scan.snapshot PROVE results' = <<>>
    OBVIOUS
  <2>1. Len(results) = 0
    BY <1>1, <1>2, EmptyIs DEF ScanRests
  <2>2. Len(results') = 0
    BY <1>9, <2>1
  <2> QED
    BY <1>9, <2>2, EmptySeq
<1>11. new \in Seq(Block) /\ Len(new) = Len(blocks) /\ \A i \in 1 .. Len(blocks) : new[i] = [blocks[i] EXCEPT !.active[t] = {}]
  <2>1. \A i \in 1 .. Len(blocks) : [blocks[i] EXCEPT !.active[t] = {}] \in Block
    BY <1>3 DEF Block
  <2>2. new \in [1 .. Len(blocks) -> Block]
    BY <1>3, <2>1
  <2> QED
    BY <1>3, <2>2, FunctionsAreSequences
<1> HIDE DEF new
<1>12. ASSUME NEW i \in 1 .. Len(blocks)
       PROVE  /\ SoundBlock(new[i]) /\ new[i].base = blocks[i].base /\ new[i].starts = blocks[i].starts
              /\ \A r : r \in Held(new[i]) <=> r \in Held(blocks[i]) /\ r.type # t
  <2> DEFINE b == blocks[i]
             live == [b.active EXCEPT ![t] = {}]
             d == [base |-> b.base, size |-> b.size, starts |-> b.starts, bytes |-> b.bytes, active |-> live]
  <2>1. SoundBlock(b) /\ b \in Block
    BY <1>3
  <2>2. new[i] = d
    BY <1>11, <2>1 DEF Block
  <2>3. live \in [Types -> SUBSET Nat] /\ (\A u \in Types : live[u] \subseteq b.active[u])
        /\ (\A u \in Types : u # t => live[u] = b.active[u]) /\ live[t] = {}
    BY <2>1 DEF Block
  <2>4. b.bytes \in Seq(Nat) /\ Len(b.bytes) = b.size
    BY <2>1 DEF SoundBlock, Block
  <2> HIDE DEF b, live
  <2>5. SoundBlock(d) /\ d.base = b.base /\ d.starts = b.starts /\ d.active = live /\ d.bytes = b.bytes
    BY <2>1, <2>3, <2>4, NarrowBlock
  <2> HIDE DEF d
  <2>6. \A u \in Types : \A o : Known(d, o, u) = Known(b, o, u)
    BY <2>5 DEF Known
  <2>7. \A r : r \in Held(d) <=> \E u \in Types : \E o \in live[u] : r = Result(b.base + o, u, Known(b, o, u))
    BY <2>5, <2>6, HeldIs
  <2>8. \A r : r \in Held(b) <=> \E u \in Types : \E o \in b.active[u] : r = Result(b.base + o, u, Known(b, o, u))
    BY <2>1, HeldIs
  <2>9. \A r, u, o : r = Result(b.base + o, u, Known(b, o, u)) => r.type = u
    BY DEF Result
  <2>10. \A r : r \in Held(d) <=> r \in Held(b) /\ r.type # t
    <3> TAKE r
    <3>1. ASSUME r \in Held(d) PROVE r \in Held(b) /\ r.type # t
      BY <2>3, <2>7, <2>8, <2>9, <3>1
    <3>2. ASSUME r \in Held(b), r.type # t PROVE r \in Held(d)
      BY <2>3, <2>7, <2>8, <2>9, <3>2
    <3> QED
      BY <3>1, <3>2
  <2> QED
    BY <2>2, <2>5, <2>10 DEF b
<1>13. BlockList(new)
  <2>1. \A i, j \in 1 .. Len(blocks) : i < j => blocks[i].base + blocks[i].starts <= blocks[j].base
    BY <1>2 DEF ScanTyped, BlockList
  <2> QED
    BY <1>11, <1>12, <2>1 DEF BlockList
<1>14. ScanTyped'
  <2>1. claim' \in [in : SUBSET ResultType, out : SUBSET (Addresses \X Types)]
    BY <1>1, <1>2 DEF ScanTyped
  <2> QED
    BY <1>1, <1>2, <1>9, <1>13, <2>1 DEF ScanTyped
<1>15. \A r : r \in Found' <=> r \in Found /\ r.type # t
  <2>1. /\ scan' # None /\ ~scan'.snapshot => \A r : r \in Found' <=> \E i \in 1 .. Len(results') : results'[i] = r
        /\ scan' # None /\ scan'.snapshot => \A r : r \in Found' <=> (\E i \in 1 .. Len(blocks) : r \in Held(blocks[i]))'
    <3>1. DOMAIN results' = 1 .. Len(results') /\ DOMAIN blocks' = 1 .. Len(blocks')
      BY <1>1, <1>3, <1>9, <1>11, LenProperties
    <3>2. scan' # None /\ ~scan'.snapshot => Found' = {results'[i] : i \in DOMAIN results'}
      BY DEF Found
    <3>3. scan' # None /\ scan'.snapshot => Found' = (UNION {Held(blocks[i]) : i \in DOMAIN blocks})'
      BY DEF Found
    <3>4. \A r : r \in (UNION {Held(blocks[i]) : i \in DOMAIN blocks})' <=> (\E i \in DOMAIN blocks : r \in Held(blocks[i]))'
      OBVIOUS
    <3>5. \A r : (\E i \in DOMAIN blocks : r \in Held(blocks[i]))' <=> (\E i \in 1 .. Len(blocks) : r \in Held(blocks[i]))'
      BY <3>1
    <3> QED
      BY <3>1, <3>2, <3>3, <3>4, <3>5
  <2>2. /\ scan # None /\ ~scan.snapshot => \A r : r \in Found <=> \E i \in 1 .. Len(results) : results[i] = r
        /\ scan # None /\ scan.snapshot => \A r : r \in Found <=> \E i \in 1 .. Len(blocks) : r \in Held(blocks[i])
    BY <1>2, FoundIs
  <2>3. \A r : (\E i \in 1 .. Len(blocks) : r \in Held(blocks[i]))' <=> \E i \in 1 .. Len(new) : r \in Held(new[i])
    BY <1>1 DEF Held
  <2>4. \A r : (\E i \in 1 .. Len(new) : r \in Held(new[i])) <=> (\E i \in 1 .. Len(blocks) : r \in Held(blocks[i])) /\ r.type # t
    BY <1>11, <1>12
  <2> QED
    BY <1>1, <1>7, <2>1, <2>2, <2>3, <2>4
<1>16. Found \subseteq ResultType
  BY <1>2, FoundIs
<1>17. claim'.in = {r \in claim.in : r.type # t} /\ claim'.out = claim.out \cup (Addresses \X {t})
  BY <1>1
<1>18. ScanRests'
  <2>1. claim'.in \subseteq Found'
    BY <1>1, <1>2, <1>15, <1>17 DEF ScanRests
  <2>2. \A r \in Found' : <<r.address, r.type>> \notin claim'.out
    BY <1>1, <1>2, <1>15, <1>17 DEF ScanRests
  <2> QED
    BY <1>1, <1>8, <1>10, <2>1, <2>2 DEF ScanRests
<1>19. TargetTyped'
  BY <1>1, <1>2 DEF TargetTyped
<1> QED
  BY <1>1, <1>14, <1>18, <1>19 DEF ScanInv

\* A candidate that a refinement beginning now is to keep.
Stays(q, mode, v) ==
    /\ Whole(<<q.address, q.type>>)
    /\ NeedsValue(mode) => q.type \in Fits(v)
    /\ Matches(mode, ValueNow(q.address, q.type), q.previous, v)

(* What a refinement beginning now claims. *)
LEMMA ClaimNextIs ==
    ASSUME TargetTyped, ScanTyped, NEW mode, NEW v, NEW k, k = ClaimNext(mode, v)
    PROVE  /\ k \in [in : SUBSET ResultType, out : SUBSET (Addresses \X Types)]
           /\ \A r \in k.in : \E q \in Found :
                 /\ Stays(q, mode, v) /\ r.address = q.address /\ r.type = q.type /\ r.previous = ValueNow(q.address, q.type)
                 /\ \/ ~scan.snapshot \/ lost = {}
                    \/ OnePage(<<q.address, q.type>>) /\ \A i \in DOMAIN blocks : blocks[i].base % PageSize = 0
           /\ \A q \in Found : Stays(q, mode, v) => <<q.address, q.type>> \notin k.out
<1> DEFINE stay == {r \in Found : /\ Whole(<<r.address, r.type>>)
                                  /\ NeedsValue(mode) => r.type \in Fits(v)
                                  /\ Matches(mode, ValueNow(r.address, r.type), r.previous, v)}
           firm == {r \in stay : \/ ~scan.snapshot \/ lost = {}
                                 \/ /\ OnePage(<<r.address, r.type>>)
                                    /\ \A i \in DOMAIN blocks : blocks[i].base % PageSize = 0}
           e(r) == Result(r.address, r.type, ValueNow(r.address, r.type))
           cells == {<<r.address, r.type>> : r \in stay}
<1>1. k = [in |-> {e(r) : r \in firm}, out |-> (Addresses \X Types) \ cells]
  BY DEF ClaimNext
<1>2. \A q : q \in stay <=> q \in Found /\ Stays(q, mode, v)
  BY DEF Stays
<1>3. \A q \in firm : /\ q \in stay
                      /\ \/ ~scan.snapshot \/ lost = {}
                         \/ OnePage(<<q.address, q.type>>) /\ \A i \in DOMAIN blocks : blocks[i].base % PageSize = 0
  OBVIOUS
<1>4. \A q \in stay : <<q.address, q.type>> \in cells
  OBVIOUS
<1>5. \A q : e(q).address = q.address /\ e(q).type = q.type /\ e(q).previous = ValueNow(q.address, q.type)
  BY DEF Result
<1>6. ASSUME NEW q \in stay PROVE e(q) \in ResultType
  <2>1. q \in ResultType /\ Whole(<<q.address, q.type>>)
    BY <1>2, <1>6, FoundIs DEF Stays
  <2>2. q.address \in Nat /\ q.address \in Addresses /\ q.type \in Types
    BY <2>1, AddressesAre DEF ResultType
  <2>3. ValueNow(q.address, q.type) \in Nat
    BY <2>1, <2>2, WholeIs, ValueIs
  <2> QED
    BY <2>2, <2>3 DEF Result, ResultType
<1> HIDE DEF stay, firm, e, cells
<1>7. k.in = {e(r) : r \in firm} /\ k.out = (Addresses \X Types) \ cells
  BY <1>1
<1>8. k \in [in : SUBSET ResultType, out : SUBSET (Addresses \X Types)]
  <2>1. k.in \in SUBSET ResultType /\ k.out \in SUBSET (Addresses \X Types)
    BY <1>3, <1>6, <1>7
  <2> QED
    BY <1>1, <1>7, <2>1
<1>9. ASSUME NEW r \in k.in
      PROVE  \E q \in Found :
                 /\ Stays(q, mode, v) /\ r.address = q.address /\ r.type = q.type /\ r.previous = ValueNow(q.address, q.type)
                 /\ \/ ~scan.snapshot \/ lost = {}
                    \/ OnePage(<<q.address, q.type>>) /\ \A i \in DOMAIN blocks : blocks[i].base % PageSize = 0
  <2>1. PICK q \in firm : r = e(q)
    BY <1>7
  <2>2. q \in Found /\ Stays(q, mode, v)
    BY <1>2, <1>3, <2>1
  <2> QED
    BY <1>3, <1>5, <2>1, <2>2
<1>10. ASSUME NEW q \in Found, Stays(q, mode, v) PROVE <<q.address, q.type>> \notin k.out
  BY <1>2, <1>4, <1>7, <1>10
<1> QED
  BY <1>8, <1>9, <1>10

(* What would come of what is ahead of a refinement beginning now. *)
LEMMA NextComes ==
    ASSUME NEW mode, NEW v, memory' = memory, lost' = lost, partial' = partial, job'.mode = mode, job'.wanted = v, NEW x, NEW r
    PROVE  /\ job'.kind = "entries" => (Comes(x, r)' <=>
                 /\ r.address = x.address /\ r.type = x.type /\ Stays(x, mode, v)
                 /\ r.previous = ValueNow(x.address, x.type))
           /\ job'.kind = "blocks" => (Comes(x, r)' <=>
                 \E o \in x.active[r.type] :
                    /\ r.address = x.base + o /\ r.previous = ValueNow(r.address, r.type)
                    /\ Stays(Result(x.base + o, r.type, Known(x, o, r.type)), mode, v))
           /\ Plain(x, r)' <=> /\ job'.kind \in {"list", "snapshot"} => Open(x)
                               /\ job'.kind = "blocks" => lost = {} \/ (OnePage(<<r.address, r.type>>) /\ x.base % PageSize = 0)
<1>1. IsNow(r)' <=> r.previous = ValueNow(r.address, r.type)
  BY SameValue DEF IsNow
<1>2. \A a, t : Whole(<<a, t>>)' <=> Whole(<<a, t>>)
  BY DEF Whole, InReach
<1>3. \A t, now, before : Survives(t, now, before)' <=> (NeedsValue(mode) => t \in Fits(v)) /\ Matches(mode, now, before, v)
  BY DEF Survives
<1>4. ASSUME job'.kind = "entries"
      PROVE  Comes(x, r)' <=> /\ r.address = x.address /\ r.type = x.type /\ Stays(x, mode, v)
                              /\ r.previous = ValueNow(x.address, x.type)
  <2>1. Comes(x, r)' <=> /\ r.address = x.address /\ r.type = x.type /\ Whole(<<r.address, r.type>>)'
                         /\ Survives(r.type, r.previous, x.previous)' /\ IsNow(r)'
    BY <1>4 DEF Comes
  <2> QED
    BY <1>1, <1>2, <1>3, <2>1 DEF Stays
<1>5. ASSUME job'.kind = "blocks"
      PROVE  Comes(x, r)' <=>
                 \E o \in x.active[r.type] :
                    /\ r.address = x.base + o /\ r.previous = ValueNow(r.address, r.type)
                    /\ Stays(Result(x.base + o, r.type, Known(x, o, r.type)), mode, v)
  <2>1. Comes(x, r)' <=> Holds(x, r)' /\ IsNow(r)'
    BY <1>5 DEF Comes
  <2>2. Holds(x, r)' <=> \E o \in x.active[r.type] :
                            /\ r.address = x.base + o /\ Whole(<<r.address, r.type>>)'
                            /\ Survives(r.type, r.previous, Known(x, o, r.type))'
    BY DEF Holds, Known
  <2>3. \A a, t, n : Stays(Result(a, t, n), mode, v) <=>
                       Whole(<<a, t>>) /\ (NeedsValue(mode) => t \in Fits(v)) /\ Matches(mode, ValueNow(a, t), n, v)
    BY DEF Stays, Result
  <2> QED
    BY <1>1, <1>2, <1>3, <2>1, <2>2, <2>3
<1>6. Plain(x, r)' <=> /\ job'.kind \in {"list", "snapshot"} => Open(x)
                       /\ job'.kind = "blocks" => lost = {} \/ (OnePage(<<r.address, r.type>>) /\ x.base % PageSize = 0)
  BY DEF Plain, Open, OnePage
<1> QED
  BY <1>4, <1>5, <1>6

(* A refinement begins with all of the list or of the snapshot ahead. *)
LEMMA NextScanKeeps ==
    ASSUME ScanInv, NEW mode \in Modes, NEW v \in Wanted \cup {None}, NextScan(mode, v)
    PROVE  ScanInv'
<1> DEFINE j == [kind |-> IF scan.snapshot THEN "blocks" ELSE "entries",
                 types |-> scan.types, mixed |-> scan.mixed, mode |-> mode, wanted |-> v]
<1>1. /\ job = None /\ scan # None /\ job' = j /\ todo' = (IF scan.snapshot THEN blocks ELSE results) /\ kept' = <<>>
      /\ claim' = ClaimNext(mode, v)
      /\ scan' = scan /\ results' = results /\ blocks' = blocks
      /\ memory' = memory /\ lost' = lost /\ partial' = partial
  BY DEF NextScan, Request, target
<1>2. TargetTyped /\ ScanTyped /\ ScanRests
  BY <1>1 DEF ScanInv
<1>3. /\ j \in JobType /\ j # None /\ j.kind = (IF scan.snapshot THEN "blocks" ELSE "entries")
      /\ j.mode = mode /\ j.wanted = v /\ j.types # {}
  <2>1. scan \in ScanType /\ scan.types # {}
    BY <1>1, <1>2 DEF ScanTyped
  <2>2. j \in JobType
    BY <2>1 DEF JobType, ScanType
  <2> QED
    BY <2>1, <2>2, JobIs
<1> HIDE DEF j
<1>4. /\ claim' \in [in : SUBSET ResultType, out : SUBSET (Addresses \X Types)]
      /\ \A r \in claim'.in : \E q \in Found :
            /\ Stays(q, mode, v) /\ r.address = q.address /\ r.type = q.type /\ r.previous = ValueNow(q.address, q.type)
            /\ \/ ~scan.snapshot \/ lost = {}
               \/ OnePage(<<q.address, q.type>>) /\ \A i \in DOMAIN blocks : blocks[i].base % PageSize = 0
      /\ \A q \in Found : Stays(q, mode, v) => <<q.address, q.type>> \notin claim'.out
  BY <1>1, <1>2, ClaimNextIs
<1>5. /\ results \in Seq(ResultType) /\ Len(results) <= MaxResults /\ Len(results) \in Nat
      /\ BlockList(blocks) /\ DOMAIN blocks = 1 .. Len(blocks) /\ \A i \in 1 .. Len(blocks) : SoundBlock(blocks[i])
  BY <1>2, LenProperties DEF ScanTyped, BlockList
<1>6. ScanTyped'
  BY <1>1, <1>2, <1>4 DEF ScanTyped
<1>7. JobTyped'
  BY <1>1, <1>3 DEF JobTyped
<1>8. 1 .. Len(kept') = {} /\ Len(kept') = 0 /\ kept' \in Seq(ResultType) /\ BlockList(kept') /\ InLine(kept')
  BY <1>1, EmptyIs
<1>9. \A r : ~Has(r)'
  BY <1>1, <1>3, <1>8 DEF Has
<1>10. memory' = memory /\ lost' = lost /\ partial' = partial /\ job'.mode = mode /\ job'.wanted = v
  BY <1>1, <1>3
<1>11. CASE ~scan.snapshot
  <2>1. job'.kind = "entries" /\ todo' = results
    BY <1>1, <1>3, <1>11
  <2>2. EntriesWork'
    BY <1>1, <1>2, <1>5, <1>8, <1>11, <2>1 DEF EntriesWork, ScanRests
  <2>3. Working'
    BY <1>7, <2>1, <2>2 DEF Working, ListWork, SnapshotWork, BlocksWork
  <2>4. \A r : r \in Found <=> \E i \in 1 .. Len(results) : results[i] = r
    BY <1>1, <1>2, <1>11, FoundIs
  <2>5. ASSUME NEW x, NEW r PROVE Comes(x, r)' <=> /\ r.address = x.address /\ r.type = x.type /\ Stays(x, mode, v)
                                                   /\ r.previous = ValueNow(x.address, x.type)
    BY <1>10, <2>1, NextComes
  <2>6. ASSUME NEW x, NEW r PROVE Plain(x, r)'
    BY <1>10, <2>1, NextComes
  <2>7. ASSUME NEW r \in claim'.in PROVE (\E i \in 1 .. Len(todo) : Comes(todo[i], r) /\ Plain(todo[i], r))'
    <3>1. PICK q \in Found : Stays(q, mode, v) /\ r.address = q.address /\ r.type = q.type /\ r.previous = ValueNow(q.address, q.type)
      BY <1>4, <2>7
    <3>2. PICK i \in 1 .. Len(results) : results[i] = q
      BY <2>4
    <3>3. Comes(q, r)' /\ Plain(q, r)'
      BY <2>5, <2>6, <3>1
    <3>4. todo'[i] = q /\ i \in 1 .. Len(todo')
      BY <2>1, <3>2
    <3>5. (Comes(todo[i], r) /\ Plain(todo[i], r))'
      BY <3>3, <3>4, ComesThen, PlainThen
    <3> QED
      BY <3>4, <3>5
  <2>8. InComes'
    BY <2>7 DEF InComes
  <2>9. ASSUME NEW r \in ResultType, <<r.address, r.type>> \in claim'.out, NEW i \in 1 .. Len(todo') PROVE (~Comes(todo[i], r))'
    <3>1. PICK x : x = todo'[i]
      OBVIOUS
    <3>2. x \in Found
      BY <2>1, <2>4, <3>1
    <3>3. ~Comes(x, r)'
      BY <1>4, <2>5, <2>9, <3>2
    <3> QED
      BY <3>1, <3>3, ComesThen
  <2>10. OutStays'
    BY <1>9, <2>9 DEF OutStays
  <2> QED
    BY <1>1, <1>2, <1>3, <1>6, <2>3, <2>8, <2>10 DEF ScanInv, TargetTyped
<1>12. CASE scan.snapshot
  <2>1. job'.kind = "blocks" /\ todo' = blocks
    BY <1>1, <1>3, <1>12
  <2>2. BlocksWork'
    BY <1>1, <1>2, <1>5, <1>8, <1>12, <2>1 DEF BlocksWork, ScanRests
  <2>3. Working'
    BY <1>7, <2>1, <2>2 DEF Working, ListWork, SnapshotWork, EntriesWork
  <2>4. \A r : r \in Found <=> \E i \in 1 .. Len(blocks) : r \in Held(blocks[i])
    BY <1>1, <1>2, <1>12, FoundIs
  <2>5. ASSUME NEW x, NEW r
        PROVE  Comes(x, r)' <=> \E o \in x.active[r.type] :
                                   /\ r.address = x.base + o /\ r.previous = ValueNow(r.address, r.type)
                                   /\ Stays(Result(x.base + o, r.type, Known(x, o, r.type)), mode, v)
    BY <1>10, <2>1, NextComes
  <2>6. ASSUME NEW x, NEW r
        PROVE  Plain(x, r)' <=> lost = {} \/ (OnePage(<<r.address, r.type>>) /\ x.base % PageSize = 0)
    BY <1>10, <2>1, NextComes
  <2>7. ASSUME NEW r \in claim'.in PROVE (\E i \in 1 .. Len(todo) : Comes(todo[i], r) /\ Plain(todo[i], r))'
    <3>1. PICK q \in Found :
            /\ Stays(q, mode, v) /\ r.address = q.address /\ r.type = q.type /\ r.previous = ValueNow(q.address, q.type)
            /\ \/ ~scan.snapshot \/ lost = {}
               \/ OnePage(<<q.address, q.type>>) /\ \A i \in DOMAIN blocks : blocks[i].base % PageSize = 0
      BY <1>4, <2>7
    <3>2. PICK i \in 1 .. Len(blocks) : q \in Held(blocks[i])
      BY <2>4
    <3>3. PICK b : b = blocks[i]
      OBVIOUS
    <3>4. SoundBlock(b)
      BY <1>5, <3>3
    <3>5. \E t \in Types : \E o \in b.active[t] : q = Result(b.base + o, t, Known(b, o, t))
      BY <3>2, <3>3, <3>4, HeldIs
    <3>6. PICK t \in Types : \E o \in b.active[t] : q = Result(b.base + o, t, Known(b, o, t))
      BY <3>5
    <3>7. PICK o \in b.active[t] : q = Result(b.base + o, t, Known(b, o, t))
      BY <3>6
    <3>8. q.address = b.base + o /\ q.type = t
      BY <3>7 DEF Result
    <3>9. Comes(b, r)'
      BY <2>5, <3>1, <3>7, <3>8
    <3>10. Plain(b, r)'
      BY <1>5, <1>12, <2>6, <3>1, <3>3
    <3>11. todo'[i] = b /\ i \in 1 .. Len(todo')
      BY <2>1, <3>3
    <3>12. (Comes(todo[i], r) /\ Plain(todo[i], r))'
      BY <3>9, <3>10, <3>11, ComesThen, PlainThen
    <3> QED
      BY <3>11, <3>12
  <2>8. InComes'
    BY <2>7 DEF InComes
  <2>9. ASSUME NEW r \in ResultType, <<r.address, r.type>> \in claim'.out, NEW i \in 1 .. Len(todo') PROVE (~Comes(todo[i], r))'
    <3>1. PICK b : b = todo'[i]
      OBVIOUS
    <3>2. SoundBlock(b) /\ b = blocks[i] /\ i \in 1 .. Len(blocks)
      BY <1>5, <2>1, <3>1
    <3>3. ASSUME NEW o \in b.active[r.type], r.address = b.base + o,
                 Stays(Result(b.base + o, r.type, Known(b, o, r.type)), mode, v)
          PROVE  FALSE
      <4>1. PICK q : q = Result(b.base + o, r.type, Known(b, o, r.type))
        OBVIOUS
      <4>2. r.type \in Types
        BY DEF ResultType
      <4>3. q \in Held(b)
        BY <3>2, <3>3, <4>1, <4>2, HeldIs
      <4>4. q \in Found /\ q.address = r.address /\ q.type = r.type
        BY <2>4, <3>2, <3>3, <4>1, <4>3 DEF Result
      <4> QED
        BY <1>4, <2>9, <3>3, <4>1, <4>4
    <3>4. ~Comes(b, r)'
      BY <2>5, <3>3
    <3> QED
      BY <3>1, <3>4, ComesThen
  <2>10. OutStays'
    BY <1>9, <2>9 DEF OutStays
  <2> QED
    BY <1>1, <1>2, <1>3, <1>6, <2>3, <2>8, <2>10 DEF ScanInv, TargetTyped
<1> QED
  BY <1>11, <1>12

(* The entries of one page are the first few of the list. *)
LEMMA PageGroupIs ==
    ASSUME NEW T, todo \in Seq(T), todo # <<>>
    PROVE  \E n \in 1 .. Len(todo) :
              /\ PageGroup \in Seq(T) /\ Len(PageGroup) = n /\ DOMAIN PageGroup = 1 .. n
              /\ \A i \in 1 .. n : PageGroup[i] = todo[i]
<1> DEFINE page(r) == r.address \div PageSize
           others == {i \in DOMAIN todo : page(todo[i]) # page(todo[1])}
           m == IF others = {} THEN Len(todo) ELSE Least(others) - 1
<1>1. PageGroup = SubSeq(todo, 1, m)
  BY DEF PageGroup
<1>2. Len(todo) \in Nat \ {0} /\ DOMAIN todo = 1 .. Len(todo)
  BY EmptySeq, LenProperties
<1>3. \A i \in others : i \in 2 .. Len(todo)
  BY <1>2
<1> HIDE DEF others
<1>4. m \in 1 .. Len(todo)
  <2>1. CASE others = {}
    BY <1>2, <2>1
  <2>2. CASE others # {}
    <3>1. \E i \in others : \A j \in others : i <= j
      BY <1>3, <2>2, LeastIs
    <3>2. Least(others) \in others
      BY <3>1 DEF Least
    <3> QED
      BY <1>2, <1>3, <2>2, <3>2
  <2> QED
    BY <2>1, <2>2
<1> HIDE DEF m
<1>5. SubSeq(todo, 0 + 1, m) \in Seq(T) /\ Len(SubSeq(todo, 0 + 1, m)) = m - 0
      /\ \A i \in 1 .. (m - 0) : SubSeq(todo, 0 + 1, m)[i] = todo[0 + i]
  <2>1. 0 \in Nat /\ m \in Nat /\ 0 <= m /\ m <= Len(todo)
    BY <1>2, <1>4
  <2> QED
    BY <2>1, Slice
<1>6. 0 + 1 = 1 /\ m - 0 = m /\ \A i \in 1 .. m : 0 + i = i
  BY <1>4
<1>7. PageGroup \in Seq(T) /\ Len(PageGroup) = m /\ \A i \in 1 .. m : PageGroup[i] = todo[i]
  BY <1>1, <1>5, <1>6
<1>8. DOMAIN PageGroup = 1 .. m
  BY <1>7, LenProperties
<1> QED
  BY <1>4, <1>7, <1>8

\* How far the entries of a page reach, and how much of that is read.
Extent == Most({r.address + Width[r.type] : r \in Range(PageGroup)})
Came == Arrive(todo[1].address, Extent - todo[1].address)

(* An entry can be read, with its page or by itself, exactly when its bytes are in reach. *)
LEMMA EntryReadIs ==
    ASSUME todo \in Seq(ResultType), InLine(todo), NEW n \in 1 .. Len(todo),
           PageGroup \in Seq(ResultType), Len(PageGroup) = n, DOMAIN PageGroup = 1 .. n,
           \A i \in 1 .. n : PageGroup[i] = todo[i],
           NEW i \in 1 .. n, NEW r, r = todo[i]
    PROVE  EntryRead(r, todo[1].address, Came) <=> Whole(<<r.address, r.type>>)
<1> DEFINE from == todo[1].address
           w == Width[r.type]
           a == r.address
           size == Extent - from
           end(q) == q.address + Width[q.type]
           ends == {end(q) : q \in Range(PageGroup)}
<1>1. n \in Nat /\ \A k \in 1 .. n : k \in 1 .. Len(todo) /\ k \in Nat
  BY LenProperties
<1>2. \A k \in 1 .. n : todo[k] \in ResultType
  BY <1>1, ElementOfSeq
<1>3. \A k \in 1 .. n : todo[k].address \in Nat /\ todo[k].type \in Types /\ end(todo[k]) \in Nat
  <2> TAKE k \in 1 .. n
  <2>1. todo[k].address \in Nat /\ todo[k].type \in Types
    BY <1>2, AddressesAre DEF ResultType
  <2>2. Width[todo[k].type] \in Nat
    BY <2>1, TypesAre
  <2> QED
    BY <2>1, <2>2
<1>4. 1 \in 1 .. n
  BY <1>1
<1>5. from \in Nat /\ a \in Nat /\ r.type \in Types /\ w \in Nat \ {0}
  BY <1>3, <1>4, TypesAre
<1>6. from <= a
  <2>1. CASE i = 1
    BY <1>5, <2>1
  <2>2. CASE i # 1
    <3>1. 1 < i /\ 1 \in 1 .. Len(todo) /\ i \in 1 .. Len(todo)
      BY <1>1, <1>4, <2>2
    <3>2. Before(todo[1], todo[i])
      BY <3>1 DEF InLine
    <3>3. from < a \/ from = a
      BY <3>2 DEF Before
    <3> QED
      BY <1>5, <3>3
  <2> QED
    BY <2>1, <2>2
<1>7. Range(PageGroup) = {todo[k] : k \in 1 .. n}
  BY DEF Range
<1>8. ends = {end(todo[k]) : k \in 1 .. n}
  <2> HIDE DEF end
  <2> QED
    BY <1>7
<1>9. ends \in SUBSET Nat /\ IsFiniteSet(ends) /\ ends # {} /\ end(r) \in ends
  <2> DEFINE f == [k \in 1 .. n |-> end(todo[k])]
  <2> HIDE DEF end
  <2>1. ends = {f[k] : k \in 1 .. n}
    BY <1>8
  <2>2. IsFiniteSet(1 .. n)
    BY <1>1, FS_Interval
  <2>3. ends \in SUBSET Nat /\ end(r) \in ends
    BY <1>3, <1>8
  <2> HIDE DEF f, ends
  <2>4. IsFiniteSet(ends)
    BY <2>1, <2>2, ImageIs
  <2> QED
    BY <2>3, <2>4
<1>10. Extent = Most(ends)
  BY DEF Extent
<1> HIDE DEF ends
<1>11. Extent \in Nat /\ end(r) <= Extent
  BY <1>9, <1>10, MostIs
<1>12. size \in Nat /\ a + w <= Extent
  BY <1>5, <1>6, <1>11
<1>13. Whole(<<r.address, r.type>>) <=> \A k \in 0 .. (w - 1) : InReach(a + k)
  BY <1>5, WholeIs
<1>14. Came = Arrive(from, size)
  BY DEF Came
<1>15. EntryRead(r, from, Came) <=> (a + w <= from + Came \/ Arrive(a, w) = w)
  BY DEF EntryRead
<1> HIDE DEF from, w, a, size, end
<1>16. Came \in 0 .. size /\ \A k \in 0 .. (Came - 1) : InReach(from + k)
  BY <1>5, <1>12, <1>14, ArriveIs
<1>17. Arrive(a, w) \in 0 .. w /\ (\A k \in 0 .. (Arrive(a, w) - 1) : InReach(a + k))
       /\ ((\A k \in 0 .. (w - 1) : InReach(a + k)) => Arrive(a, w) = w)
  BY <1>5, ArriveIs
<1>18. ASSUME a + w <= from + Came PROVE \A k \in 0 .. (w - 1) : InReach(a + k)
  <2> TAKE k \in 0 .. (w - 1)
  <2> DEFINE x == a - from + k
  <2>1. x \in 0 .. (Came - 1) /\ from + x = a + k
    BY <1>5, <1>6, <1>12, <1>16, <1>18
  <2> QED
    BY <1>16, <2>1
<1>19. EntryRead(r, from, Came) <=> \A k \in 0 .. (w - 1) : InReach(a + k)
  BY <1>15, <1>17, <1>18
<1> QED
  BY <1>13, <1>19 DEF from

\* What a page of the list leaves.
Left ==
    Chosen([i \in DOMAIN PageGroup |-> Renewed(PageGroup[i])],
           {i \in DOMAIN PageGroup : /\ EntryRead(PageGroup[i], todo[1].address, Came)
                                     /\ Survives(PageGroup[i].type, ValueNow(PageGroup[i].address, PageGroup[i].type),
                                                 PageGroup[i].previous)})

(* Its entries that survive, each with its value now. *)
LEMMA PageLeaves ==
    ASSUME TargetTyped, job.kind = "entries", todo \in Seq(ResultType), InLine(todo), NEW n \in 1 .. Len(todo),
           PageGroup \in Seq(ResultType), Len(PageGroup) = n, DOMAIN PageGroup = 1 .. n,
           \A i \in 1 .. n : PageGroup[i] = todo[i]
    PROVE  /\ Left \in Seq(ResultType) /\ InLine(Left) /\ Len(Left) \in Nat /\ Len(Left) <= n
           /\ \A i \in 1 .. Len(Left) : \E p \in 1 .. n :
                 Left[i].address = todo[p].address /\ Left[i].type = todo[p].type /\ Comes(todo[p], Left[i])
           /\ \A p \in 1 .. n : \A r \in ResultType : Comes(todo[p], r) => \E i \in 1 .. Len(Left) : Left[i] = r
<1>1. PICK fresh : fresh = [i \in DOMAIN PageGroup |-> Renewed(PageGroup[i])]
  OBVIOUS
<1>2. PICK P : P = {i \in DOMAIN PageGroup : /\ EntryRead(PageGroup[i], todo[1].address, Came)
                                             /\ Survives(PageGroup[i].type, ValueNow(PageGroup[i].address, PageGroup[i].type),
                                                         PageGroup[i].previous)}
  OBVIOUS
<1>3. PICK h : h = Chosen(fresh, P)
  OBVIOUS
<1>4. h = Left
  BY <1>1, <1>2, <1>3 DEF Left
<1>5. /\ n \in Nat /\ \A p \in 1 .. n : p \in 1 .. Len(todo) /\ p \in Nat /\ todo[p] \in ResultType
  BY LenProperties, ElementOfSeq
<1>6. fresh = [i \in 1 .. n |-> Renewed(todo[i])]
  BY <1>1
<1>7. \A p : p \in P <=> /\ p \in 1 .. n /\ Whole(<<todo[p].address, todo[p].type>>)
                         /\ Survives(todo[p].type, ValueNow(todo[p].address, todo[p].type), todo[p].previous)
  <2> DEFINE stays(r) == /\ EntryRead(r, todo[1].address, Came)
                         /\ Survives(r.type, ValueNow(r.address, r.type), r.previous)
  <2>1. P = {i \in DOMAIN PageGroup : stays(PageGroup[i])}
    BY <1>2
  <2>2. \A r : stays(r) <=> EntryRead(r, todo[1].address, Came) /\ Survives(r.type, ValueNow(r.address, r.type), r.previous)
    OBVIOUS
  <2> HIDE DEF stays
  <2>3. \A p : p \in P <=> p \in 1 .. n /\ stays(todo[p])
    BY <2>1
  <2>4. \A p \in 1 .. n : EntryRead(todo[p], todo[1].address, Came) <=> Whole(<<todo[p].address, todo[p].type>>)
    BY EntryReadIs
  <2> QED
    BY <2>2, <2>3, <2>4
<1> DEFINE T == {fresh[i] : i \in 1 .. n}
<1>8. /\ fresh \in Seq(T) /\ Len(fresh) = n
      /\ \A p \in 1 .. n : fresh[p] = Renewed(todo[p])
  <2>1. fresh \in [1 .. n -> T]
    BY <1>6
  <2> QED
    BY <1>5, <1>6, <2>1, FunctionsAreSequences
<1>9. P \in SUBSET (1 .. n)
  BY <1>7
<1> HIDE DEF T
<1>10. Picks(h, fresh, P, T)
  BY <1>8, <1>9, <1>3, ChosenIs
<1>11. ASSUME NEW p \in 1 .. n
      PROVE  /\ fresh[p].address = todo[p].address /\ fresh[p].type = todo[p].type
             /\ fresh[p].previous = ValueNow(todo[p].address, todo[p].type)
             /\ fresh[p] = [address |-> todo[p].address, type |-> todo[p].type,
                            previous |-> ValueNow(todo[p].address, todo[p].type)]
  <2>1. todo[p] \in ResultType
    BY <1>5
  <2>2. fresh[p] = [todo[p] EXCEPT !.previous = ValueNow(todo[p].address, todo[p].type)]
    BY <1>8 DEF Renewed
  <2> QED
    BY <2>1, <2>2 DEF ResultType
<1>12. ASSUME NEW p \in P PROVE fresh[p] \in ResultType /\ Comes(todo[p], fresh[p])
  <2>1. p \in 1 .. n /\ todo[p] \in ResultType
    BY <1>5, <1>7
  <2>2. Whole(<<todo[p].address, todo[p].type>>)
        /\ Survives(todo[p].type, ValueNow(todo[p].address, todo[p].type), todo[p].previous)
    BY <1>7
  <2>3. todo[p].address \in Addresses /\ todo[p].address \in Nat /\ todo[p].type \in Types
    BY <2>1, AddressesAre DEF ResultType
  <2>4. ValueNow(todo[p].address, todo[p].type) \in Nat
    BY <2>2, <2>3, WholeIs, ValueIs
  <2>5. fresh[p] \in ResultType
    <3>1. \A a \in Addresses, t \in Types, v \in Nat : [address |-> a, type |-> t, previous |-> v] \in ResultType
      BY DEF ResultType
    <3> QED
      BY <1>11, <2>1, <2>3, <2>4, <3>1
  <2>6. IsNow(fresh[p])
    BY <1>11, <2>1 DEF IsNow
  <2>7. Comes(todo[p], fresh[p])
    BY <1>11, <2>1, <2>2, <2>6 DEF Comes
  <2> QED
    BY <2>5, <2>7
<1>13. Len(h) \in Nat /\ Len(h) <= n /\ h \in Seq(T)
      /\ (\A i \in 1 .. Len(h) : \E p \in P : h[i] = fresh[p])
      /\ (\A p \in P : \E i \in 1 .. Len(h) : h[i] = fresh[p])
      /\ (\A i, j \in 1 .. Len(h) : i < j => \E p, q \in P : p < q /\ h[i] = fresh[p] /\ h[j] = fresh[q])
  BY <1>8, <1>10 DEF Picks
<1>14. h \in Seq(ResultType)
  <2>1. \A i \in 1 .. Len(h) : h[i] \in ResultType
    BY <1>12, <1>13
  <2> QED
    BY <1>13, <2>1, EachOf
<1>15. InLine(h)
  <2> SUFFICES ASSUME NEW i \in 1 .. Len(h), NEW j \in 1 .. Len(h), i < j PROVE Before(h[i], h[j])
    BY DEF InLine
  <2>1. PICK p \in P, q \in P : p < q /\ h[i] = fresh[p] /\ h[j] = fresh[q]
    BY <1>13
  <2>2. p \in 1 .. n /\ q \in 1 .. n
    BY <1>9
  <2>3. Before(todo[p], todo[q])
    BY <1>5, <2>1, <2>2 DEF InLine
  <2>4. /\ h[i].address = todo[p].address /\ h[i].type = todo[p].type
        /\ h[j].address = todo[q].address /\ h[j].type = todo[q].type
    BY <1>11, <2>1, <2>2
  <2> QED
    BY <2>3, <2>4 DEF Before
<1>16. ASSUME NEW i \in 1 .. Len(h)
       PROVE  \E p \in 1 .. n : h[i].address = todo[p].address /\ h[i].type = todo[p].type /\ Comes(todo[p], h[i])
  <2>1. PICK p \in P : h[i] = fresh[p]
    BY <1>13
  <2>2. p \in 1 .. n
    BY <1>9
  <2> QED
    BY <1>11, <1>12, <2>1, <2>2
<1>17. ASSUME NEW p \in 1 .. n, NEW r \in ResultType, Comes(todo[p], r) PROVE \E i \in 1 .. Len(h) : h[i] = r
  <2>1. /\ r.address = todo[p].address /\ r.type = todo[p].type /\ Whole(<<r.address, r.type>>)
        /\ Survives(r.type, r.previous, todo[p].previous) /\ r.previous = ValueNow(r.address, r.type)
    BY <1>17 DEF Comes, IsNow
  <2>2. p \in P
    BY <1>7, <2>1
  <2>3. fresh[p] = r
    BY <1>11, <2>1 DEF ResultType
  <2> QED
    BY <1>13, <2>2, <2>3
<1> QED
  BY <1>13, <1>14, <1>15, <1>16, <1>17, <1>4

(* A page of a refined list. *)
LEMMA RefinePageKeeps == ASSUME ScanInv, RefinePage PROVE ScanInv'
<1> DEFINE h == Left
<1>1. /\ job # None /\ job.kind = "entries" /\ todo # <<>>
      /\ UNCHANGED <<target, scan, byByte, results, blocks, job, requests, claim>>
      /\ kept' = kept \o h /\ todo' = SubSeq(todo, Len(PageGroup) + 1, Len(todo))
  BY DEF RefinePage, Left, Came, Extent
<1>2. Goes
  BY <1>1 DEF Goes
<1>3. /\ TargetTyped /\ TargetTyped' /\ ScanTyped /\ Working /\ JobTyped /\ JobTyped' /\ InComes /\ OutStays
      /\ UNCHANGED <<memory, lost, partial, byByte, job>>
      /\ scan' = scan /\ results' = results /\ blocks' = blocks /\ claim' = claim
  BY <1>1, <1>2, GoesIs
<1>4. /\ scan # None /\ ~scan.snapshot
      /\ todo \in Seq(ResultType) /\ kept \in Seq(ResultType) /\ Len(kept) + Len(todo) <= MaxResults
      /\ InLine(todo) /\ InLine(kept)
      /\ \A i \in 1 .. Len(kept), j \in 1 .. Len(todo) : Before(kept[i], todo[j])
  BY <1>1, <1>3 DEF Working, EntriesWork
<1>5. PICK n \in 1 .. Len(todo) : /\ PageGroup \in Seq(ResultType) /\ Len(PageGroup) = n /\ DOMAIN PageGroup = 1 .. n
                                 /\ \A i \in 1 .. n : PageGroup[i] = todo[i]
  BY <1>1, <1>4, PageGroupIs
<1>6. /\ h \in Seq(ResultType) /\ InLine(h) /\ Len(h) \in Nat /\ Len(h) <= n
      /\ \A i \in 1 .. Len(h) : \E p \in 1 .. n :
            h[i].address = todo[p].address /\ h[i].type = todo[p].type /\ Comes(todo[p], h[i])
      /\ \A p \in 1 .. n : \A r \in ResultType : Comes(todo[p], r) => \E i \in 1 .. Len(h) : h[i] = r
  BY <1>1, <1>3, <1>4, <1>5, PageLeaves
<1> HIDE DEF h
<1>7. Len(todo) \in Nat /\ Len(kept) \in Nat /\ n \in Nat /\ n <= Len(todo) /\ todo' = SubSeq(todo, n + 1, Len(todo))
  BY <1>1, <1>4, <1>5, LenProperties
<1>8. /\ todo' \in Seq(ResultType) /\ Len(todo') = Len(todo) - n
      /\ \A j \in 1 .. Len(todo') : todo'[j] = todo[n + j] /\ n + j \in 1 .. Len(todo)
  BY <1>4, <1>7, DroppedIs
<1>9. \A p \in 1 .. n : p \in 1 .. Len(todo) /\ \A j \in 1 .. Len(todo') : p < n + j
  BY <1>7, <1>8
<1> DEFINE p == Len(kept)
           all == kept'
<1>10. all = kept \o h
  BY <1>1
<1> HIDE DEF all
<1>11. /\ all \in Seq(ResultType) /\ p \in Nat /\ Len(all) = p + Len(h)
       /\ \A i \in 1 .. p : all[i] = kept[i] /\ i \in 1 .. Len(all)
       /\ \A i \in 1 .. Len(h) : all[p + i] = h[i] /\ p + i \in 1 .. Len(all)
       /\ \A i \in 1 .. Len(all) : i \in 1 .. p \/ (i - p \in 1 .. Len(h) /\ all[i] = h[i - p])
  BY <1>4, <1>6, <1>10, JoinedTwo
<1>12. InLine(all)
  <2>1. ASSUME NEW i \in 1 .. Len(kept), NEW j \in 1 .. Len(h) PROVE Before(kept[i], h[j])
    <3>1. PICK q \in 1 .. n : h[j].address = todo[q].address /\ h[j].type = todo[q].type
      BY <1>6
    <3>2. Before(kept[i], todo[q])
      BY <1>4, <1>9
    <3> QED
      BY <3>1, <3>2 DEF Before
  <2> QED
    BY <1>4, <1>6, <1>10, <2>1, InLineOn
<1>13. InLine(todo')
  <2>1. Len(todo) \in Nat /\ Len(todo) <= Len(todo)
    BY <1>7
  <2> QED
    BY <1>4, <1>7, <2>1, InLinePart
<1>14. ASSUME NEW i \in 1 .. Len(all), NEW j \in 1 .. Len(todo') PROVE Before(all[i], todo'[j])
  <2>1. CASE i \in 1 .. p
    BY <1>4, <1>8, <1>11, <2>1 DEF p
  <2>2. CASE i - p \in 1 .. Len(h) /\ all[i] = h[i - p]
    <3>1. PICK q \in 1 .. n : h[i - p].address = todo[q].address /\ h[i - p].type = todo[q].type
      BY <1>6, <2>2
    <3>2. Before(todo[q], todo[n + j])
      BY <1>4, <1>8, <1>9 DEF InLine
    <3> QED
      BY <1>8, <2>2, <3>1, <3>2 DEF Before
  <2> QED
    BY <1>11, <2>1, <2>2
<1>15. Len(all) + Len(todo') <= MaxResults
  <2> DEFINE x == Len(kept)
             y == Len(todo)
             z == Len(h)
             u == Len(all)
             w == Len(todo')
  <2>1. x + y <= MaxResults /\ z <= n /\ u = x + z /\ w = y - n /\ n <= y
    BY <1>4, <1>6, <1>7, <1>8, <1>11
  <2>2. x \in Nat /\ y \in Nat /\ z \in Nat /\ n \in Nat /\ MaxResults \in Nat
    BY <1>6, <1>7, ScanLimits
  <2> HIDE DEF x, y, z, u, w
  <2>3. u + w <= MaxResults
    BY <2>1, <2>2
  <2> QED
    BY <2>3 DEF u, w
<1>16. Working'
  <2>1. EntriesWork'
    BY <1>3, <1>4, <1>8, <1>11, <1>12, <1>13, <1>14, <1>15 DEF EntriesWork, all
  <2>2. job'.kind = "entries"
    BY <1>1
  <2> QED
    BY <1>3, <2>1, <2>2 DEF Working, ListWork, SnapshotWork, BlocksWork
<1>17. ScanTyped'
  BY <1>3 DEF ScanTyped
<1>18. \A r : Has(r) <=> \E i \in 1 .. p : kept[i] = r
  BY <1>1 DEF Has
<1>19. \A r : Has(r)' <=> \E i \in 1 .. Len(all) : all[i] = r
  BY <1>1 DEF Has, all
<1> HIDE DEF p
<1>20. ASSUME NEW r \in ResultType, Has(r) PROVE Has(r)'
  BY <1>11, <1>18, <1>19, <1>20
<1>21. ASSUME NEW r \in ResultType, NEW i \in 1 .. n, Comes(todo[i], r), Plain(todo[i], r) PROVE Has(r)'
  <2>1. PICK j \in 1 .. Len(h) : h[j] = r
    BY <1>6, <1>21
  <2> QED
    BY <1>11, <1>19, <2>1
<1>22. ASSUME NEW r \in ResultType, Has(r)' PROVE Has(r) \/ \E i \in 1 .. n : Comes(todo[i], r)
  <2>1. PICK i \in 1 .. Len(all) : all[i] = r
    BY <1>19, <1>22
  <2>2. CASE i \in 1 .. p
    BY <1>11, <1>18, <2>1, <2>2
  <2>3. CASE i - p \in 1 .. Len(h) /\ all[i] = h[i - p]
    BY <1>6, <2>1, <2>3
  <2> QED
    BY <1>11, <2>2, <2>3
<1>23. InComes' /\ OutStays'
  BY <1>3, <1>4, <1>7, <1>20, <1>21, <1>22, StepOn
<1> QED
  BY <1>1, <1>3, <1>16, <1>17, <1>23 DEF ScanInv

(* The end of a refined list. *)
LEMMA RefineEndsKeeps == ASSUME ScanInv, RefineEnds PROVE ScanInv'
<1>1. /\ job # None /\ job.kind = "entries" /\ todo = <<>> /\ results' = kept /\ job' = None
      /\ scan' = scan /\ blocks' = blocks /\ claim' = claim
      /\ memory' = memory /\ lost' = lost /\ partial' = partial
  BY DEF RefineEnds, target
<1>2. TargetTyped /\ ScanTyped /\ EntriesWork /\ InComes /\ OutStays
  BY <1>1 DEF ScanInv, Working
<1>3. scan # None /\ ~scan.snapshot /\ kept \in Seq(ResultType) /\ Len(kept) + Len(todo) <= MaxResults /\ InLine(kept)
  BY <1>1, <1>2 DEF EntriesWork
<1>4. 1 .. Len(todo) = {} /\ Len(todo) = 0 /\ Len(kept) \in Nat /\ DOMAIN kept = 1 .. Len(kept)
      /\ \A i \in 1 .. Len(kept) : kept[i] \in ResultType
  BY <1>1, <1>3, EmptyIs, LenProperties, ElementOfSeq
<1>5. \A r : Has(r) <=> \E i \in 1 .. Len(kept) : kept[i] = r
  BY <1>1 DEF Has
<1>6. \A r : r \in Found' <=> Has(r)
  <2>1. Found' = {results'[i] : i \in DOMAIN results'}
    BY <1>1, <1>3 DEF Found
  <2> QED
    BY <1>1, <1>4, <1>5, <2>1
<1>7. \A r \in claim.in : Has(r)
  BY <1>2, <1>4 DEF InComes
<1>8. \A r : Has(r) => <<r.address, r.type>> \notin claim.out
  BY <1>2, <1>4, <1>5 DEF OutStays
<1>9. ScanRests'
  <2>1. claim'.in \subseteq Found' /\ \A r \in Found' : <<r.address, r.type>> \notin claim'.out
    BY <1>1, <1>6, <1>7, <1>8
  <2> QED
    BY <1>1, <1>3, <2>1 DEF ScanRests
<1>10. ScanTyped'
  <2>1. Len(kept) <= MaxResults
    BY <1>3, <1>4, ScanLimits
  <2> QED
    BY <1>1, <1>2, <1>3, <2>1 DEF ScanTyped
<1> QED
  BY <1>1, <1>2, <1>9, <1>10 DEF ScanInv, TargetTyped

-----------------------------------------------------------------------------
(* Refinements of a snapshot. *)

\* Bytes o to o + n of block b are in one of its parts that could be read.
Arrived(b, o, n) == \E s \in Segments(b) : s.offset <= o /\ o + n <= s.offset + s.size

\* The part of a block that the first read brings, and that of a page read by itself.
Segment(o, n) == [offset |-> o, size |-> n]
PageOf(b, o) == Arrive(b.base + o, Least({PageSize, b.size - o}))

(* A read ends early at a byte out of reach, or at once. *)
LEMMA ArriveEnds ==
    ASSUME NEW a \in Nat, NEW n \in Nat
    PROVE  Arrive(a, n) = n \/ Arrive(a, n) = 0 \/ (partial /\ ~InReach(a + Arrive(a, n)))
<1>1. ~partial => Arrive(a, n) = n \/ Arrive(a, n) = 0
  BY DEF Arrive
<1>2. Arrive(a, n) \in 0 .. n /\ (partial /\ Arrive(a, n) < n => ~InReach(a + Arrive(a, n)))
  BY ArriveIs
<1> QED
  BY <1>1, <1>2

(* The parts of a block that could be read are what one read brings, and pages. *)
LEMMA SegmentsAre ==
    ASSUME NEW b, SoundBlock(b), NEW got, got = Arrive(b.base, b.size)
    PROVE  /\ \A s : s \in Segments(b) <=>
                 /\ s = Segment(0, got) \/ \E o \in Steps(got, b.size, PageSize) : s = Segment(o, PageOf(b, o))
                 /\ s.size > 0
           /\ got \in 0 .. b.size /\ b.base \in Nat /\ b.size \in Nat
           /\ \A o \in Steps(got, b.size, PageSize) :
                 /\ o \in Nat /\ got <= o /\ o < b.size /\ (o - got) % PageSize = 0
                 /\ Least({PageSize, b.size - o}) = IF PageSize <= b.size - o THEN PageSize ELSE b.size - o
           /\ \A s \in Segments(b) :
                 /\ s.offset \in Nat /\ s.size \in Nat \ {0} /\ s.offset + s.size <= b.size
                 /\ \A k \in 0 .. (s.size - 1) : InReach(b.base + s.offset + k)
<1> DEFINE pages == {Segment(o, PageOf(b, o)) : o \in Steps(got, b.size, PageSize)}
<1>1. b.base \in Nat /\ b.size \in Nat /\ PageSize \in Nat \ {0}
  BY WalkSizes DEF SoundBlock, Block
<1>2. Segments(b) = {s \in {Segment(0, got)} \cup pages : s.size > 0}
  BY DEF Segments, Segment, PageOf
<1>3. \A s : s \in Segments(b) <=>
          /\ s = Segment(0, got) \/ \E o \in Steps(got, b.size, PageSize) : s = Segment(o, PageOf(b, o))
          /\ s.size > 0
  BY <1>2
<1>4. got \in 0 .. b.size /\ \A k \in 0 .. (got - 1) : InReach(b.base + k)
  BY <1>1, ArriveIs
<1>5. ASSUME NEW o \in Steps(got, b.size, PageSize)
      PROVE  /\ o \in Nat /\ got <= o /\ o < b.size /\ (o - got) % PageSize = 0
             /\ Least({PageSize, b.size - o}) = IF PageSize <= b.size - o THEN PageSize ELSE b.size - o
  <2>1. o \in got .. (b.size - 1) /\ (o - got) % PageSize = 0
    BY DEF Steps
  <2>2. o \in Nat /\ got <= o /\ o < b.size
    BY <1>1, <1>4, <2>1
  <2>3. b.size - o \in Int /\ PageSize \in Int
    BY <1>1, <2>2
  <2> QED
    BY <2>1, <2>2, <2>3, LeastOfTwo
<1>6. ASSUME NEW o \in Steps(got, b.size, PageSize)
      PROVE  /\ PageOf(b, o) \in Nat /\ o + PageOf(b, o) <= b.size
             /\ \A k \in 0 .. (PageOf(b, o) - 1) : InReach(b.base + o + k)
  <2> DEFINE n == Least({PageSize, b.size - o})
             a == b.base + o
  <2>1. n \in Nat /\ o + n <= b.size /\ a \in Nat /\ o \in Nat
    <3>1. n = IF PageSize <= b.size - o THEN PageSize ELSE b.size - o
      BY <1>5
    <3>2. o \in Nat /\ o < b.size
      BY <1>5
    <3> HIDE DEF n
    <3> QED
      BY <1>1, <3>1, <3>2
  <2>2. PageOf(b, o) = Arrive(a, n)
    BY DEF PageOf
  <2> HIDE DEF n, a
  <2>3. Arrive(a, n) \in 0 .. n /\ \A k \in 0 .. (Arrive(a, n) - 1) : InReach(a + k)
    BY <2>1, ArriveIs
  <2>4. PageOf(b, o) \in Nat /\ o + PageOf(b, o) <= b.size
    BY <1>1, <2>1, <2>2, <2>3
  <2> QED
    BY <2>2, <2>3, <2>4 DEF a
<1>7. ASSUME NEW s \in Segments(b)
      PROVE  /\ s.offset \in Nat /\ s.size \in Nat \ {0} /\ s.offset + s.size <= b.size
             /\ \A k \in 0 .. (s.size - 1) : InReach(b.base + s.offset + k)
  <2>1. CASE s = Segment(0, got)
    <3>1. s.offset = 0 /\ s.size = got /\ s.size > 0
      BY <1>3, <2>1 DEF Segment
    <3>2. \A k \in 0 .. (got - 1) : b.base + 0 + k = b.base + k
      BY <1>1
    <3> QED
      BY <1>1, <1>4, <3>1, <3>2
  <2>2. ASSUME NEW o \in Steps(got, b.size, PageSize), s = Segment(o, PageOf(b, o))
        PROVE  /\ s.offset \in Nat /\ s.size \in Nat \ {0} /\ s.offset + s.size <= b.size
               /\ \A k \in 0 .. (s.size - 1) : InReach(b.base + s.offset + k)
    <3>1. s.offset = o /\ s.size = PageOf(b, o) /\ s.size > 0
      BY <1>3, <2>2 DEF Segment
    <3>2. PageOf(b, o) \in Nat /\ o \in Nat
      BY <1>5, <1>6
    <3>3. \A n \in Nat : n > 0 => n \in Nat \ {0}
      OBVIOUS
    <3>4. s.size \in Nat \ {0}
      BY <3>1, <3>2, <3>3
    <3> QED
      BY <1>6, <3>1, <3>2, <3>4
  <2> QED
    BY <1>3, <2>1, <2>2
<1> QED
  BY <1>1, <1>3, <1>4, <1>5, <1>7

(* What is in reach, and not hidden, is in one of the parts. *)
LEMMA SegmentFor ==
    ASSUME NEW b, SoundBlock(b), NEW o \in Nat, NEW w \in Nat \ {0}, o + w <= b.size,
           \A k \in 0 .. (w - 1) : InReach(b.base + o + k),
           \/ lost = {}
           \/ /\ b.base % PageSize = 0
              /\ \A k \in 0 .. (w - 1) : (b.base + o + k) \div PageSize = (b.base + o) \div PageSize
    PROVE  Arrived(b, o, w)
<1>1. PICK got : got = Arrive(b.base, b.size)
  OBVIOUS
<1>2. /\ \A s : s \in Segments(b) <=>
                 /\ s = Segment(0, got) \/ \E x \in Steps(got, b.size, PageSize) : s = Segment(x, PageOf(b, x))
                 /\ s.size > 0
      /\ got \in 0 .. b.size /\ b.base \in Nat /\ b.size \in Nat
      /\ \A x \in Steps(got, b.size, PageSize) :
            /\ x \in Nat /\ got <= x /\ x < b.size /\ (x - got) % PageSize = 0
            /\ Least({PageSize, b.size - x}) = IF PageSize <= b.size - x THEN PageSize ELSE b.size - x
  BY <1>1, SegmentsAre
<1>3. PageSize \in Nat \ {0} /\ \A x \in 0 .. (b.size - 1) : b.base + x \in Addresses
  BY WalkSizes DEF SoundBlock
<1>4. CASE o + w <= got
  <2>1. Segment(0, got).offset = 0 /\ Segment(0, got).size = got
    BY DEF Segment
  <2>2. got > 0 /\ 0 <= o /\ o + w <= 0 + got
    BY <1>2, <1>4
  <2>3. Segment(0, got) \in Segments(b)
    BY <1>2, <2>1, <2>2
  <2> QED
    BY <2>1, <2>2, <2>3 DEF Arrived
<1>5. CASE got < o + w
  <2>1. got < b.size /\ got \in Nat
    BY <1>2, <1>5
  <2>2. got = 0 \/ (partial /\ ~InReach(b.base + got))
    BY <1>1, <1>2, <2>1, ArriveEnds
  <2>3. lost # {}
    <3> SUFFICES ASSUME lost = {} PROVE FALSE
      OBVIOUS
    <3>1. \A k \in 0 .. (b.size - 1) : InReach(b.base + k)
      BY <1>3 DEF InReach
    <3>2. Arrive(b.base, b.size) = b.size
      BY <1>2, <3>1, ArriveIs
    <3> QED
      BY <1>1, <1>2, <2>1, <3>2
  <2>4. /\ b.base % PageSize = 0
        /\ \A k \in 0 .. (w - 1) : (b.base + o + k) \div PageSize = (b.base + o) \div PageSize
    BY <2>3
  <2>5. got <= o
    <3> SUFFICES ASSUME o < got PROVE FALSE
      BY <2>1
    <3> DEFINE k == got - o
    <3>1. k \in 0 .. (w - 1) /\ b.base + o + k = b.base + got /\ got # 0
      BY <1>2, <1>5, <2>1
    <3> QED
      BY <2>2, <3>1
  <2>6. (b.base + got) % PageSize = 0
    <3>1. CASE got = 0
      BY <1>2, <2>4, <3>1
    <3>2. CASE got # 0
      <4> DEFINE a == b.base + (got - 1)
      <4>1. a \in Nat /\ a + 1 = b.base + got /\ got - 1 \in 0 .. (got - 1) /\ got \in 0 .. (b.size - 1)
        BY <1>2, <2>1, <3>2
      <4>2. InReach(a)
        BY <1>1, <1>2, <4>1, ArriveIs
      <4>3. ~InReach(a + 1) /\ a + 1 \in Addresses
        BY <1>3, <2>2, <3>2, <4>1
      <4>4. a \div PageSize # (a + 1) \div PageSize
        BY <4>2, <4>3 DEF InReach
      <4>5. (a + 1) % PageSize = 0
        <5> HIDE DEF a
        <5> QED
          BY <1>3, <4>1, <4>4, PageBegins
      <4> QED
        BY <4>1, <4>5
    <3> QED
      BY <3>1, <3>2
  <2>7. \E x \in Steps(got, b.size, PageSize) : x <= o /\ o < x + PageSize
    <3>1. o \in got .. (b.size - 1) /\ b.size \in Int
      BY <1>2, <2>5
    <3> QED
      BY <1>3, <2>1, <3>1, StepsCover
  <2>8. PICK x \in Steps(got, b.size, PageSize) : x <= o /\ o < x + PageSize
    BY <2>7
  <2> DEFINE n == Least({PageSize, b.size - x})
             a == b.base + x
             c == b.base + o
  <2>9. /\ x \in Nat /\ got <= x /\ x < b.size /\ (x - got) % PageSize = 0
        /\ n = IF PageSize <= b.size - x THEN PageSize ELSE b.size - x
    BY <1>2
  <2>18. PageOf(b, x) = Arrive(a, n)
    BY DEF PageOf
  <2> HIDE DEF n
  <2>10. n \in Nat /\ x + n <= b.size /\ n <= PageSize /\ a \in Nat /\ c \in Nat /\ a <= c /\ c < a + PageSize
    BY <1>2, <1>3, <2>8, <2>9
  <2>11. a % PageSize = 0
    <3> DEFINE y == b.base + got
               z == x - got
    <3>1. y \in Nat /\ z \in Nat /\ a = y + z /\ y % PageSize = 0 /\ z % PageSize = 0
      BY <1>2, <2>1, <2>6, <2>9
    <3> HIDE DEF y, z, a
    <3> QED
      BY <1>3, <3>1, MultiplesAdd
  <2>12. c \div PageSize = a \div PageSize
    <3> HIDE DEF a, c
    <3> QED
      BY <1>3, <2>10, <2>11, SamePage
  <2>13. ASSUME NEW k \in 0 .. (n - 1) PROVE InReach(a + k)
    <3> DEFINE q == a + k
    <3>1. q \in Nat /\ a <= q /\ q < a + PageSize
      BY <1>3, <2>10
    <3>5. x + k \in 0 .. (b.size - 1) /\ q = b.base + (x + k)
      BY <1>2, <2>9, <2>10
    <3>2. q \in Addresses
      BY <1>3, <3>5
    <3>3. q \div PageSize = a \div PageSize
      <4> HIDE DEF a, q
      <4> QED
        BY <1>3, <2>10, <2>11, <3>1, SamePage
    <3>4. InReach(c)
      <4>1. 0 \in 0 .. (w - 1) /\ b.base + o + 0 = c
        BY <1>2
      <4> QED
        BY <4>1
    <3> QED
      BY <2>12, <3>2, <3>3, <3>4 DEF InReach
  <2>14. PageOf(b, x) = n
    <3> HIDE DEF a
    <3> QED
      BY <2>10, <2>13, <2>18, ArriveIs
  <2>15. o + w <= x + n
    <3>1. CASE n = b.size - x
      BY <1>2, <2>9, <3>1
    <3>2. CASE n = PageSize
      <4> SUFFICES ASSUME x + PageSize < o + w PROVE FALSE
        BY <1>3, <2>9, <3>2
      <4> DEFINE k == x + PageSize - o
                 e == a + PageSize
      <4>1. k \in 0 .. (w - 1)
        BY <1>3, <2>8, <2>9
      <4>5. b.base + o + k = e /\ e \in Nat
        BY <1>2, <1>3, <2>9
      <4>2. e \div PageSize = a \div PageSize
        BY <2>4, <2>12, <4>1, <4>5
      <4>3. e \div PageSize = a \div PageSize + 1
        <5> HIDE DEF a
        <5>1. a \in Nat /\ PageSize \in Nat \ {0}
          BY <1>3, <2>10
        <5> QED
          BY <5>1, NextPage
      <4>4. a \div PageSize \in Int
        BY <1>3, <2>10
      <4> QED
        BY <4>2, <4>3, <4>4
    <3> QED
      BY <2>9, <3>1, <3>2
  <2>16. Segment(x, n).offset = x /\ Segment(x, n).size = n /\ n > 0
    <3>1. n > 0
      BY <1>2, <1>3, <2>9
    <3> QED
      BY <3>1 DEF Segment
  <2>17. Segment(x, n) \in Segments(b)
    BY <1>2, <2>8, <2>14, <2>16
  <2> QED
    BY <2>8, <2>15, <2>16, <2>17 DEF Arrived
<1> QED
  BY <1>2, <1>4, <1>5

(* A refined block has the bytes that are there now wherever it could be read. *)
LEMMA NewBytesAre ==
    ASSUME TargetTyped, NEW b, SoundBlock(b)
    PROVE  /\ NewBytes(b) \in Seq(Nat) /\ Len(NewBytes(b)) = b.size
           /\ \A o \in Nat, w \in Nat : Arrived(b, o, w) => SubSeq(NewBytes(b), o + 1, o + w) = BytesAt(b.base + o, w)
<1> DEFINE read(k) == \E s \in Segments(b) : k - 1 \in s.offset .. (s.offset + s.size - 1)
           nb == [k \in 1 .. b.size |-> IF read(k) THEN memory[b.base + k - 1] ELSE b.bytes[k]]
<1>1. NewBytes(b) = nb
  BY DEF NewBytes
<1>2. /\ b.base \in Nat /\ b.size \in Nat /\ b.bytes \in Seq(Nat) /\ Len(b.bytes) = b.size
      /\ \A x \in 0 .. (b.size - 1) : b.base + x \in Addresses
  BY DEF SoundBlock, Block
<1>3. \A s \in Segments(b) : s.offset \in Nat /\ s.size \in Nat \ {0} /\ s.offset + s.size <= b.size
  BY SegmentsAre
<1>4. ASSUME NEW k \in 1 .. b.size PROVE memory[b.base + k - 1] \in Nat /\ b.bytes[k] \in Nat
  <2>1. k - 1 \in 0 .. (b.size - 1) /\ b.base + (k - 1) = b.base + k - 1
    BY <1>2
  <2>2. b.base + k - 1 \in Addresses
    BY <1>2, <2>1
  <2>3. memory[b.base + k - 1] \in 0 .. (Base - 1)
    BY <2>2 DEF TargetTyped
  <2>4. b.bytes[k] \in Nat
    BY <1>2, ElementOfSeq
  <2> QED
    BY <2>3, <2>4, WalkSizes
<1> HIDE DEF read
<1>5. nb \in Seq(Nat) /\ Len(nb) = b.size
  <2>1. nb \in [1 .. b.size -> Nat]
    BY <1>4
  <2> QED
    <3> HIDE DEF nb
    <3> QED
      BY <1>2, <2>1, FunctionsAreSequences
<1>6. ASSUME NEW o \in Nat, NEW w \in Nat, Arrived(b, o, w)
      PROVE  SubSeq(nb, o + 1, o + w) = BytesAt(b.base + o, w)
  <2>1. PICK s \in Segments(b) : s.offset <= o /\ o + w <= s.offset + s.size
    BY <1>6 DEF Arrived
  <2>2. SubSeq(nb, o + 1, o + w) = [k \in 1 .. (o + w - (o + 1) + 1) |-> nb[k + (o + 1) - 1]]
    <3> HIDE DEF nb
    <3> QED
      BY DEF SubSeq
  <2>3. o + w - (o + 1) + 1 = w
    OBVIOUS
  <2>4. ASSUME NEW k \in 1 .. w PROVE nb[k + (o + 1) - 1] = memory[(b.base + o) + k - 1]
    <3> DEFINE p == k + (o + 1) - 1
    <3>1. p \in 1 .. b.size /\ p = k + o /\ p - 1 \in s.offset .. (s.offset + s.size - 1)
      <4> DEFINE x == s.offset
                 y == s.size
                 z == b.size
      <4>1. x \in Nat /\ y \in Nat /\ z \in Nat /\ x + y <= z /\ x <= o /\ o + w <= x + y
        BY <1>2, <1>3, <2>1
      <4> HIDE DEF x, y, z
      <4>2. p \in 1 .. z /\ p = k + o /\ p - 1 \in x .. (x + y - 1)
        BY <4>1
      <4> QED
        BY <4>2 DEF x, y, z
    <3>2. read(p)
      BY <3>1 DEF read
    <3>3. b.base + p - 1 = (b.base + o) + k - 1
      BY <1>2, <3>1
    <3> HIDE DEF p
    <3>4. nb[p] = memory[b.base + p - 1]
      BY <3>1, <3>2
    <3> QED
      BY <3>3, <3>4 DEF p
  <2> HIDE DEF nb
  <2> QED
    BY <2>2, <2>3, <2>4 DEF BytesAt
<1> QED
  BY <1>1, <1>5, <1>6

(* The candidates that remain are those that can be read and survive. *)
LEMMA RemainingIs ==
    ASSUME TargetTyped, job.mode \in Modes, NEW b, SoundBlock(b), NEW t \in Types, NEW o
    PROVE  o \in Remaining(b, t) <=> /\ o \in b.active[t] /\ Arrived(b, o, Width[t])
                                     /\ Survives(t, ValueNow(b.base + o, t), Known(b, o, t))
<1> DEFINE w == Width[t]
           whole == Segments(b) = {[offset |-> 0, size |-> b.size]}
           same == whole /\ BytesAt(b.base, b.size) = b.bytes
           looks(x) == \E s \in Segments(b) : /\ x >= s.offset /\ x < Least({s.offset + s.size, b.starts})
                                              /\ x + w <= s.offset + s.size
           stays(x) == Survives(t, ValueNow(b.base + x, t), Known(b, x, t))
<1>1. Remaining(b, t) = IF NeedsValue(job.mode) /\ t \notin Fits(job.wanted) THEN {}
                        ELSE IF same /\ job.mode = "unchanged" THEN b.active[t]
                        ELSE IF same /\ job.mode \in {"changed", "increased", "decreased"} THEN {}
                        ELSE {x \in b.active[t] : looks(x) /\ stays(x)}
  BY DEF Remaining, Known
<1>2. /\ w \in Nat \ {0} /\ b.base \in Nat /\ b.size \in Nat /\ b.starts \in Nat
      /\ b.bytes \in Seq(Nat) /\ Len(b.bytes) = b.size
      /\ \A x \in b.active[t] : x \in Nat /\ x < b.starts /\ x + w <= b.size /\ Known(b, x, t) \in Nat /\ InMemory(b.base + x, t)
  BY TypesAre, HeldIs DEF SoundBlock, Block
<1>3. \A s \in Segments(b) : s.offset \in Nat /\ s.size \in Nat \ {0} /\ s.offset + s.size <= b.size
  BY SegmentsAre
<1> SUFFICES ASSUME o \in b.active[t]
             PROVE  o \in Remaining(b, t) <=> Arrived(b, o, w) /\ stays(o)
  BY <1>1
<1> HIDE DEF w, stays
<1>4. looks(o) <=> Arrived(b, o, w)
  <2>1. ASSUME NEW s \in Segments(b)
        PROVE  (o >= s.offset /\ o < Least({s.offset + s.size, b.starts}) /\ o + w <= s.offset + s.size)
               <=> (s.offset <= o /\ o + w <= s.offset + s.size)
    <3> DEFINE e == s.offset + s.size
    <3>1. e \in Int /\ b.starts \in Int
      BY <1>2, <1>3
    <3>2. Least({e, b.starts}) = IF e <= b.starts THEN e ELSE b.starts
      BY <3>1, LeastOfTwo
    <3>3. s.offset \in Nat /\ o \in Nat /\ o < b.starts
      BY <1>2, <1>3
    <3> DEFINE x == s.offset
               y == b.starts
    <3>4. x \in Nat /\ y \in Int /\ e \in Int /\ o \in Nat /\ w \in Nat /\ o < y
      BY <1>2, <3>1, <3>3
    <3> HIDE DEF e, x, y
    <3>5. (o >= x /\ o < (IF e <= y THEN e ELSE y) /\ o + w <= e) <=> (x <= o /\ o + w <= e)
      <4>1. o + w <= e => o < e
        BY <1>2, <3>4
      <4> QED
        BY <3>4, <4>1
    <3>6. Least({e, y}) = IF e <= y THEN e ELSE y
      BY <3>2 DEF y
    <3> QED
      BY <3>5, <3>6 DEF e, x, y
  <2> QED
    BY <2>1 DEF Arrived
<1> HIDE DEF looks
<1>5. ASSUME same PROVE /\ Arrived(b, o, w) /\ ValueNow(b.base + o, t) = Known(b, o, t)
  <2>1. [offset |-> 0, size |-> b.size] \in Segments(b)
    BY <1>5
  <2>2. Arrived(b, o, w)
    <3>1. 0 <= o /\ o + w <= 0 + b.size
      BY <1>2
    <3> QED
      BY <2>1, <3>1 DEF Arrived
  <2>3. SubSeq(BytesAt(b.base, b.size), o + 1, o + w) = BytesAt(b.base + o, w)
    <3> DEFINE x == b.base
               n == b.size
    <3>1. o \in Nat /\ w \in Nat /\ o + w <= n /\ x \in Nat /\ n \in Nat
      BY <1>2
    <3> HIDE DEF x, n
    <3>2. Part(BytesAt(x, n), o, w) = BytesAt(x + o, w)
      BY <3>1, PartIs
    <3> QED
      BY <3>2 DEF Part, x, n
  <2>4. Known(b, o, t) = Number(BytesAt(b.base + o, w))
    BY <1>5, <2>3 DEF Known, w
  <2> QED
    BY <2>2, <2>4 DEF ValueNow, w
<1>6. ValueNow(b.base + o, t) \in Nat /\ Known(b, o, t) \in Nat
  BY <1>2, ValueIs
<1> HIDE DEF same
<1>7. CASE NeedsValue(job.mode) /\ t \notin Fits(job.wanted)
  BY <1>1, <1>7 DEF stays, Survives
<1>8. CASE ~(NeedsValue(job.mode) /\ t \notin Fits(job.wanted)) /\ same /\ job.mode = "unchanged"
  <2>1. stays(o)
    BY <1>5, <1>8 DEF stays, Survives, Matches
  <2> QED
    BY <1>1, <1>5, <1>8, <2>1
<1>9. CASE ~(NeedsValue(job.mode) /\ t \notin Fits(job.wanted)) /\ same /\ job.mode \in {"changed", "increased", "decreased"}
  <2> DEFINE x == ValueNow(b.base + o, t)
             y == Known(b, o, t)
  <2>1. x = y /\ x \in Nat /\ y \in Nat
    BY <1>5, <1>6, <1>9
  <2> HIDE DEF x, y
  <2>2. ~(x # y) /\ ~(x > y) /\ ~(x < y)
    BY <2>1
  <2>3. ~Matches(job.mode, x, y, job.wanted)
    BY <1>9, <2>2 DEF Matches
  <2>4. ~stays(o)
    BY <2>3 DEF stays, Survives, x, y
  <2> QED
    BY <1>1, <1>9, <2>4
<1>10. CASE /\ ~(NeedsValue(job.mode) /\ t \notin Fits(job.wanted))
            /\ ~(same /\ job.mode = "unchanged")
            /\ ~(same /\ job.mode \in {"changed", "increased", "decreased"})
  <2>1. Remaining(b, t) = {x \in b.active[t] : looks(x) /\ stays(x)}
    BY <1>1, <1>10
  <2> QED
    BY <1>4, <2>1
<1> QED
  BY <1>7, <1>8, <1>9, <1>10

\* A block as its refinement leaves it.
Refined(b) == [b EXCEPT !.active = [t \in Types |-> Remaining(b, t)], !.bytes = NewBytes(b)]

(* The candidates of a refined block are those that come of it, as far as they can be read. *)
LEMMA RefinedIs ==
    ASSUME TargetTyped, job.mode \in Modes, job.kind = "blocks", NEW b, SoundBlock(b), NEW d, d = Refined(b)
    PROVE  /\ SoundBlock(d) /\ d.base = b.base /\ d.starts = b.starts
           /\ \A r \in Held(d) : r \in ResultType /\ Comes(b, r)
           /\ \A r \in ResultType : Comes(b, r) /\ Plain(b, r) => r \in Held(d)
<1> DEFINE live == [t \in Types |-> Remaining(b, t)]
           nb == NewBytes(b)
<1>1. /\ nb \in Seq(Nat) /\ Len(nb) = b.size
      /\ \A o \in Nat, w \in Nat : Arrived(b, o, w) => SubSeq(nb, o + 1, o + w) = BytesAt(b.base + o, w)
  BY NewBytesAre
<1>2. \A t \in Types : \A o : o \in live[t] <=> /\ o \in b.active[t] /\ Arrived(b, o, Width[t])
                                               /\ Survives(t, ValueNow(b.base + o, t), Known(b, o, t))
  BY RemainingIs
<1>3. b \in Block /\ b.active \in [Types -> SUBSET Nat] /\ b.base \in Nat /\ b.size \in Nat
  BY DEF SoundBlock, Block
<1>4. d = [base |-> b.base, size |-> b.size, starts |-> b.starts, bytes |-> nb, active |-> live]
  BY <1>3 DEF Refined, Block
<1>5. live \in [Types -> SUBSET Nat] /\ \A t \in Types : live[t] \subseteq b.active[t]
  <2>1. \A t \in Types : Remaining(b, t) \subseteq b.active[t]
    BY <1>2
  <2>2. \A t \in Types : b.active[t] \in SUBSET Nat
    BY <1>3
  <2> QED
    BY <2>1, <2>2
<1> HIDE DEF live, nb
<1>6. SoundBlock(d) /\ d.base = b.base /\ d.starts = b.starts /\ d.active = live /\ d.bytes = nb
  BY <1>1, <1>4, <1>5, NarrowBlock
<1>7. \A t \in Types : \A o \in b.active[t] :
         o \in Nat /\ o + Width[t] <= b.size /\ Width[t] \in Nat \ {0} /\ InMemory(b.base + o, t)
  BY HeldIs, TypesAre
<1>8. \A t \in Types : \A o \in live[t] : Known(d, o, t) = ValueNow(b.base + o, t)
  <2> TAKE t \in Types
  <2> TAKE o \in live[t]
  <2> DEFINE w == Width[t]
  <2>1. o \in Nat /\ w \in Nat /\ Arrived(b, o, w)
    BY <1>2, <1>7
  <2>2. SubSeq(nb, o + 1, o + w) = BytesAt(b.base + o, w)
    BY <1>1, <2>1
  <2> QED
    BY <1>6, <2>2 DEF Known, ValueNow
<1>9. ASSUME NEW r \in Held(d) PROVE r \in ResultType /\ Comes(b, r)
  <2>1. r \in ResultType /\ \E t \in Types : \E o \in live[t] : r = Result(b.base + o, t, Known(d, o, t))
    BY <1>6, HeldIs
  <2>2. PICK t \in Types : \E o \in live[t] : r = Result(b.base + o, t, Known(d, o, t))
    BY <2>1
  <2>3. PICK o \in live[t] : r = Result(b.base + o, t, Known(d, o, t))
    BY <2>2
  <2>4. r.address = b.base + o /\ r.type = t /\ r.previous = ValueNow(b.base + o, t)
    BY <1>8, <2>3 DEF Result
  <2>5. o \in b.active[t] /\ Arrived(b, o, Width[t]) /\ Survives(t, ValueNow(b.base + o, t), Known(b, o, t))
    BY <1>2, <2>3
  <2>6. Whole(<<b.base + o, t>>)
    <3> DEFINE w == Width[t]
               a == b.base + o
    <3>1. PICK s \in Segments(b) : s.offset <= o /\ o + w <= s.offset + s.size
      BY <2>5 DEF Arrived
    <3>2. s.offset \in Nat /\ s.size \in Nat \ {0} /\ \A k \in 0 .. (s.size - 1) : InReach(b.base + s.offset + k)
      BY SegmentsAre
    <3>3. o \in Nat /\ w \in Nat /\ a \in Nat
      BY <1>3, <1>7, <2>5
    <3>4. ASSUME NEW k \in 0 .. (w - 1) PROVE InReach(a + k)
      <4> DEFINE q == o - s.offset + k
      <4>1. q \in 0 .. (s.size - 1) /\ b.base + s.offset + q = a + k
        BY <1>3, <3>1, <3>2, <3>3
      <4> QED
        BY <3>2, <4>1
    <3> HIDE DEF a
    <3> QED
      BY <3>3, <3>4, WholeIs DEF a
  <2>7. Holds(b, r)
    BY <2>4, <2>5, <2>6 DEF Holds, Known
  <2>8. IsNow(r)
    BY <2>4 DEF IsNow
  <2> QED
    BY <2>1, <2>7, <2>8 DEF Comes
<1>10. ASSUME NEW r \in ResultType, Comes(b, r), Plain(b, r) PROVE r \in Held(d)
  <2> DEFINE t == r.type
             w == Width[t]
  <2>1. Holds(b, r) /\ IsNow(r) /\ t \in Types
    BY <1>10 DEF Comes, ResultType
  <2>2. PICK o \in b.active[t] : /\ r.address = b.base + o /\ Whole(<<r.address, t>>)
                                /\ Survives(t, r.previous, Known(b, o, t))
    BY <2>1 DEF Holds, Known
  <2>3. r.previous = ValueNow(b.base + o, t)
    BY <2>1, <2>2 DEF IsNow
  <2>4. o \in Nat /\ o + w <= b.size /\ w \in Nat \ {0} /\ b.base + o \in Nat
    BY <1>3, <1>7, <2>1
  <2> HIDE DEF w
  <2>5. \A k \in 0 .. (w - 1) : InReach(b.base + o + k)
    BY <2>1, <2>2, <2>4, WholeIs DEF w
  <2>6. \/ lost = {}
        \/ /\ b.base % PageSize = 0
           /\ \A k \in 0 .. (w - 1) : (b.base + o + k) \div PageSize = (b.base + o) \div PageSize
    <3>1. lost = {} \/ (OnePage(<<r.address, t>>) /\ b.base % PageSize = 0)
      BY <1>10 DEF Plain
    <3>2. ASSUME OnePage(<<r.address, t>>), NEW k \in 0 .. (w - 1)
          PROVE  (b.base + o + k) \div PageSize = (b.base + o) \div PageSize
      <4> DEFINE a == b.base + o
      <4>1. \A x \in Span(a, t) : x \div PageSize = a \div PageSize
        BY <2>2, <3>2 DEF OnePage
      <4>2. Span(a, t) = a .. (a + w - 1)
        BY DEF Span, w
      <4> HIDE DEF a
      <4>3. a + k \in a .. (a + w - 1)
        BY <2>4 DEF a
      <4> QED
        BY <4>1, <4>2, <4>3 DEF a
    <3> QED
      BY <3>1, <3>2
  <2>7. Arrived(b, o, w)
    BY <2>4, <2>5, <2>6, SegmentFor
  <2>8. o \in live[t]
    BY <1>2, <2>1, <2>2, <2>3, <2>7 DEF w
  <2>9. r = Result(b.base + o, t, Known(d, o, t))
    BY <1>8, <2>1, <2>2, <2>3, <2>8 DEF Result, ResultType
  <2>10. \E u \in Types : \E x \in d.active[u] : r = Result(d.base + x, u, Known(d, x, u))
    BY <1>6, <2>1, <2>8, <2>9
  <2> QED
    BY <1>6, <2>10, HeldIs
<1> QED
  BY <1>6, <1>9, <1>10

(* A block of a refined snapshot. *)
LEMMA RefineBlockKeeps == ASSUME ScanInv, RefineBlock PROVE ScanInv'
<1> DEFINE b == Head(todo)
           d == Refined(b)
           n == Len(kept)
<1>1. /\ job # None /\ job.kind = "blocks" /\ todo # <<>>
      /\ UNCHANGED <<target, scan, byByte, results, blocks, job, requests, claim>>
      /\ kept' = Append(kept, d) /\ todo' = Tail(todo)
  BY DEF RefineBlock, Refined
<1>2. Goes
  BY <1>1 DEF Goes
<1>3. /\ TargetTyped /\ TargetTyped' /\ ScanTyped /\ Working /\ JobTyped /\ JobTyped' /\ InComes /\ OutStays
      /\ UNCHANGED <<memory, lost, partial, byByte, job>>
      /\ scan' = scan /\ results' = results /\ blocks' = blocks /\ claim' = claim
  BY <1>1, <1>2, GoesIs
<1>4. /\ scan # None /\ scan.snapshot /\ results = <<>>
      /\ BlockList(kept) /\ BlockList(todo)
      /\ \A i \in 1 .. n, j \in 1 .. Len(todo) : kept[i].base + kept[i].starts <= todo[j].base
  BY <1>1, <1>3 DEF Working, BlocksWork
<1>5. todo \in Seq(Block) /\ kept \in Seq(Block) /\ n \in Nat
  BY <1>4, LenProperties DEF BlockList
<1>6. /\ Len(todo) \in Nat \ {0} /\ Tail(todo) = SubSeq(todo, 1 + 1, Len(todo)) /\ b = todo[1] /\ 1 \in 1 .. Len(todo)
  BY <1>1, <1>5, TailIs
<1>7. SoundBlock(b)
  BY <1>4, <1>6 DEF BlockList
<1>8. job.mode \in Modes
  BY <1>3 DEF JobTyped, JobType
<1> HIDE DEF b
<1>9. /\ SoundBlock(d) /\ d.base = b.base /\ d.starts = b.starts
      /\ \A r \in Held(d) : r \in ResultType /\ Comes(b, r)
      /\ \A r \in ResultType : Comes(b, r) /\ Plain(b, r) => r \in Held(d)
  <2> HIDE DEF d
  <2>1. d = Refined(b)
    BY DEF d
  <2> QED
    BY <1>1, <1>3, <1>7, <1>8, <2>1, RefinedIs
<1> HIDE DEF d
<1> DEFINE all == kept'
<1>10. all = Append(kept, d) /\ d \in Block
  BY <1>1, <1>9 DEF SoundBlock
<1> HIDE DEF all, n
<1>11. /\ all \in Seq(Block) /\ Len(all) = n + 1 /\ all[n + 1] = d
       /\ \A i \in 1 .. n : all[i] = kept[i] /\ i \in 1 .. Len(all)
       /\ \A i \in 1 .. Len(all) : i \in 1 .. n \/ i = n + 1
       /\ n + 1 \in 1 .. Len(all)
  BY <1>5, <1>10, AppendProperties DEF n
<1>12. \A i \in 1 .. n : /\ SoundBlock(kept[i]) /\ kept[i].base + kept[i].starts <= d.base
                         /\ \A j \in 1 .. n : i < j => kept[i].base + kept[i].starts <= kept[j].base
  BY <1>4, <1>6, <1>9 DEF BlockList, n
<1>13. BlockList(all)
  <2>1. \A i \in 1 .. Len(all) : SoundBlock(all[i])
    BY <1>9, <1>11, <1>12
  <2>2. ASSUME NEW i \in 1 .. Len(all), NEW j \in 1 .. Len(all), i < j PROVE all[i].base + all[i].starts <= all[j].base
    <3>1. i \in 1 .. n /\ (j \in 1 .. n \/ j = n + 1)
      BY <1>5, <1>11, <2>2
    <3> QED
      BY <1>11, <1>12, <2>2, <3>1
  <2> QED
    BY <1>11, <2>1, <2>2 DEF BlockList
<1>14. /\ todo' \in Seq(Block) /\ Len(todo') = Len(todo) - 1
       /\ \A j \in 1 .. Len(todo') : todo'[j] = todo[1 + j] /\ 1 + j \in 1 .. Len(todo) /\ 1 < 1 + j
  BY <1>1, <1>5, <1>6, DroppedIs
<1>15. ASSUME NEW i \in 1 .. Len(all), NEW j \in 1 .. Len(todo') PROVE all[i].base + all[i].starts <= todo'[j].base
  <2>1. CASE i \in 1 .. n
    BY <1>4, <1>11, <1>14, <2>1 DEF n
  <2>2. CASE i = n + 1
    <3>1. todo[1].base + todo[1].starts <= todo[1 + j].base
      BY <1>4, <1>6, <1>14 DEF BlockList
    <3> QED
      BY <1>6, <1>9, <1>11, <1>14, <2>2, <3>1
  <2> QED
    BY <1>11, <2>1, <2>2
<1>16. Working'
  <2>1. BlockList(todo')
    BY <1>1, <1>4, BlocksLeft
  <2>2. BlocksWork'
    BY <1>3, <1>4, <1>13, <1>15, <2>1 DEF BlocksWork, all
  <2>3. job'.kind = "blocks"
    BY <1>1
  <2> QED
    BY <1>3, <2>2, <2>3 DEF Working, ListWork, SnapshotWork, EntriesWork
<1>17. ScanTyped'
  BY <1>3 DEF ScanTyped
<1>18. \A r : Has(r) <=> \E i \in 1 .. n : r \in Held(kept[i])
  BY <1>1 DEF Has, n
<1>19. \A r : Has(r)' <=> \E i \in 1 .. Len(all) : r \in Held(all[i])
  <2> TAKE r
  <2>1. Has(r)' <=> \E i \in 1 .. Len(kept') : r \in Held(kept'[i])
    BY <1>1 DEF Has, Held
  <2> QED
    BY <2>1 DEF all
<1>20. ASSUME NEW r \in ResultType, Has(r) PROVE Has(r)'
  BY <1>11, <1>18, <1>19, <1>20
<1>21. ASSUME NEW r \in ResultType, NEW i \in 1 .. 1, Comes(todo[i], r), Plain(todo[i], r) PROVE Has(r)'
  <2>1. i = 1
    OBVIOUS
  <2>2. Comes(b, r) /\ Plain(b, r)
    BY <1>6, <1>21, <2>1
  <2> QED
    BY <1>9, <1>11, <1>19, <2>2
<1>22. ASSUME NEW r \in ResultType, Has(r)' PROVE Has(r) \/ \E i \in 1 .. 1 : Comes(todo[i], r)
  <2>1. PICK i \in 1 .. Len(all) : r \in Held(all[i])
    BY <1>19, <1>22
  <2>2. CASE i \in 1 .. n
    BY <1>11, <1>18, <2>1, <2>2
  <2>3. CASE i = n + 1
    <3>1. Comes(b, r)
      BY <1>9, <1>11, <2>1, <2>3
    <3>2. 1 \in 1 .. 1
      OBVIOUS
    <3> QED
      BY <1>6, <3>1, <3>2
  <2> QED
    BY <1>11, <2>2, <2>3
<1>23. 1 \in Nat /\ 1 <= Len(todo) /\ todo' = SubSeq(todo, 1 + 1, Len(todo))
  BY <1>1, <1>6
<1>24. InComes' /\ OutStays'
  BY <1>3, <1>5, <1>20, <1>21, <1>22, <1>23, StepOn
<1> QED
  BY <1>1, <1>3, <1>16, <1>17, <1>24 DEF ScanInv

(* The candidates of all blocks are no more than are counted, and no cell twice. *)
LEMMA SurvivorsAre ==
    ASSUME BlockList(kept)
    PROVE  /\ IsFiniteSet(Survivors) /\ Cardinality(Survivors) \in Nat /\ Cardinality(Survivors) <= SurvivorCount
           /\ Survivors \subseteq ResultType /\ Apart(Survivors)
           /\ \A r : r \in Survivors <=> \E i \in 1 .. Len(kept) : r \in Held(kept[i])
           /\ SurvivorCount \in Nat
<1> DEFINE n == Len(kept)
           of(i, t) == {<<i, t, o>> : o \in kept[i].active[t]}
           S == {of(i, t) : i \in DOMAIN kept, t \in Types}
           all == UNION S
<1>1. n \in Nat /\ DOMAIN kept = 1 .. n /\ \A i \in 1 .. n : SoundBlock(kept[i])
  BY LenProperties DEF BlockList
<1>2. SurvivorCount = Cardinality(all)
  BY DEF SurvivorCount
<1>3. \A r : r \in Survivors <=> \E i \in 1 .. n : r \in Held(kept[i])
  BY <1>1 DEF Survivors
<1>4. ASSUME NEW i \in 1 .. n, NEW t \in Types PROVE IsFiniteSet(of(i, t))
  <2> DEFINE A == kept[i].active[t]
             f == [o \in A |-> <<i, t, o>>]
             m == kept[i].starts
  <2>1. \A o \in A : o \in Nat /\ o < m
    BY <1>1, HeldIs
  <2>2. m \in Nat
    BY <1>1 DEF SoundBlock, Block
  <2> HIDE DEF A, m
  <2>3. IsFiniteSet(A)
    <3>1. IsFiniteSet(0 .. m)
      BY <2>2, FS_Interval
    <3>2. A \in SUBSET (0 .. m)
      BY <2>1, <2>2
    <3> QED
      BY <3>1, <3>2, FS_Subset
  <2>4. of(i, t) = {f[o] : o \in A}
    BY DEF A
  <2> HIDE DEF f, of
  <2> QED
    BY <2>3, <2>4, ImageIs
<1>5. IsFiniteSet(S)
  <2> DEFINE D == (1 .. n) \X Types
             f == [x \in D |-> of(x[1], x[2])]
  <2>1. IsFiniteSet(1 .. n)
    BY <1>1, FS_Interval
  <2>2. IsFiniteSet(D)
    BY <2>1, TypesAre, FS_Product
  <2>3. S = {f[x] : x \in D}
    <3> HIDE DEF of
    <3>1. ASSUME NEW i \in 1 .. n, NEW t \in Types PROVE <<i, t>> \in D /\ f[<<i, t>>] = of(i, t)
      OBVIOUS
    <3>2. ASSUME NEW x \in D PROVE x[1] \in 1 .. n /\ x[2] \in Types /\ f[x] = of(x[1], x[2])
      OBVIOUS
    <3>3. \A y : y \in S <=> \E i \in 1 .. n : \E t \in Types : y = of(i, t)
      BY <1>1
    <3> HIDE DEF f, D, S
    <3>4. ASSUME NEW y \in S PROVE \E x \in D : y = f[x]
      <4>1. PICK i \in 1 .. n : \E t \in Types : y = of(i, t)
        BY <3>3
      <4>2. PICK t \in Types : y = of(i, t)
        BY <4>1
      <4> QED
        BY <3>1, <4>2
    <3>5. ASSUME NEW x \in D PROVE f[x] \in S
      BY <3>2, <3>3
    <3> QED
      BY <3>4, <3>5
  <2> HIDE DEF D, f, S
  <2> QED
    BY <2>2, <2>3, ImageIs
<1>6. IsFiniteSet(all)
  <2>1. \A y \in S : IsFiniteSet(y)
    <3> HIDE DEF of
    <3>1. \A y \in S : \E i \in 1 .. n : \E t \in Types : y = of(i, t)
      BY <1>1
    <3> HIDE DEF S
    <3> QED
      BY <1>4, <3>1
  <2> HIDE DEF S
  <2> QED
    BY <1>5, <2>1, FS_UNION
<1>7. \A x : x \in all <=> \E i \in 1 .. n : \E t \in Types : \E o \in kept[i].active[t] : x = <<i, t, o>>
  <2>1. \A x : x \in all <=> \E i \in 1 .. n : \E t \in Types : x \in of(i, t)
    <3> HIDE DEF of
    <3> QED
      BY <1>1
  <2>2. \A i, t, x : x \in of(i, t) <=> \E o \in kept[i].active[t] : x = <<i, t, o>>
    OBVIOUS
  <2> HIDE DEF all, of
  <2> QED
    BY <2>1, <2>2
<1> HIDE DEF all, S, of
<1> DEFINE e(i, t, o) == Result(kept[i].base + o, t, Known(kept[i], o, t))
           g == [x \in all |-> e(x[1], x[2], x[3])]
<1>8. Survivors = {g[x] : x \in all}
  <2>1. \A r : r \in Survivors <=> \E i \in 1 .. n : \E t \in Types : \E o \in kept[i].active[t] : r = e(i, t, o)
    BY <1>1, <1>3, HeldIs
  <2> HIDE DEF e
  <2>2. ASSUME NEW i \in 1 .. n, NEW t \in Types, NEW o \in kept[i].active[t]
        PROVE  <<i, t, o>> \in all /\ g[<<i, t, o>>] = e(i, t, o)
    BY <1>7
  <2>3. ASSUME NEW x \in all
        PROVE  \E i \in 1 .. n : \E t \in Types : \E o \in kept[i].active[t] : g[x] = e(i, t, o)
    <3>1. PICK i \in 1 .. n : \E t \in Types : \E o \in kept[i].active[t] : x = <<i, t, o>>
      BY <1>7
    <3>2. PICK t \in Types : \E o \in kept[i].active[t] : x = <<i, t, o>>
      BY <3>1
    <3>3. PICK o \in kept[i].active[t] : x = <<i, t, o>>
      BY <3>2
    <3>4. g[x] = e(i, t, o)
      BY <2>2, <3>3
    <3> QED
      BY <3>4
  <2> HIDE DEF g
  <2>4. ASSUME NEW r \in Survivors PROVE \E x \in all : r = g[x]
    <3>1. PICK i \in 1 .. n : \E t \in Types : \E o \in kept[i].active[t] : r = e(i, t, o)
      BY <2>1
    <3>2. PICK t \in Types : \E o \in kept[i].active[t] : r = e(i, t, o)
      BY <3>1
    <3>3. PICK o \in kept[i].active[t] : r = e(i, t, o)
      BY <3>2
    <3> QED
      BY <2>2, <3>3
  <2>5. ASSUME NEW x \in all PROVE g[x] \in Survivors
    BY <2>1, <2>3
  <2> QED
    BY <2>4, <2>5
<1> HIDE DEF g, e
<1>9. /\ IsFiniteSet(Survivors) /\ Cardinality(Survivors) \in Nat /\ Cardinality(all) \in Nat
      /\ Cardinality(Survivors) <= Cardinality(all)
  BY <1>6, <1>8, ImageIs
<1>10. Survivors \subseteq ResultType
  BY <1>1, <1>3, HeldIs
<1>11. Apart(Survivors)
  <2> SUFFICES ASSUME NEW r \in Survivors, NEW s \in Survivors, r.address = s.address, r.type = s.type PROVE r = s
    BY DEF Apart
  <2>1. PICK i \in 1 .. n : r \in Held(kept[i])
    BY <1>3
  <2>2. PICK j \in 1 .. n : s \in Held(kept[j])
    BY <1>3
  <2>3. ASSUME NEW k \in 1 .. n, NEW m \in 1 .. n, k < m, NEW x \in Held(kept[k]), NEW y \in Held(kept[m])
        PROVE  x.address # y.address
    <3>1. x.address < kept[k].base + kept[k].starts /\ kept[m].base <= y.address /\ x \in ResultType /\ y \in ResultType
      BY <1>1, HeldIs
    <3>2. kept[k].base + kept[k].starts <= kept[m].base
      BY <2>3 DEF BlockList
    <3> DEFINE u == kept[k].base + kept[k].starts
               v == kept[m].base
    <3>3. u \in Nat /\ v \in Nat /\ x.address \in Nat /\ y.address \in Nat
      <4>1. kept[k] \in Block /\ kept[m] \in Block
        BY <1>1 DEF SoundBlock
      <4>2. \A b \in Block : b.base \in Nat /\ b.starts \in Nat
        BY DEF Block
      <4>3. kept[k].base \in Nat /\ kept[k].starts \in Nat /\ kept[m].base \in Nat
        BY <4>1, <4>2
      <4>4. u \in Nat /\ v \in Nat
        BY <4>3
      <4> QED
        BY <3>1, <4>4, AddressesAre DEF ResultType
    <3>4. x.address < u /\ u <= v /\ v <= y.address
      BY <3>1, <3>2
    <3> HIDE DEF u, v
    <3> QED
      BY <3>3, <3>4
  <2>4. i = j
    <3>1. ~(i < j) /\ ~(j < i)
      BY <2>1, <2>2, <2>3
    <3> QED
      BY <1>1, <3>1
  <2>5. Apart(Held(kept[i]))
    BY <1>1, HeldIs
  <2> QED
    BY <2>1, <2>2, <2>4, <2>5 DEF Apart
<1> QED
  BY <1>2, <1>3, <1>9, <1>10, <1>11

(* The end of a refined snapshot, which may become a list. *)
LEMMA RefineSnapshotEndsKeeps == ASSUME ScanInv, RefineSnapshotEnds PROVE ScanInv'
<1>1. /\ job # None /\ job.kind = "blocks" /\ todo = <<>> /\ job' = None /\ claim' = claim
      /\ memory' = memory /\ lost' = lost /\ partial' = partial
      /\ \/ /\ SurvivorCount <= MaxResults /\ results' = InOrder(Survivors) /\ blocks' = <<>>
            /\ scan' = [scan EXCEPT !.snapshot = FALSE]
         \/ results' = <<>> /\ blocks' = kept /\ scan' = scan
  BY DEF RefineSnapshotEnds, NoSnapshot, target
<1>2. TargetTyped /\ ScanTyped /\ BlocksWork /\ InComes /\ OutStays
  BY <1>1 DEF ScanInv, Working
<1>3. scan # None /\ scan.snapshot /\ BlockList(kept)
  BY <1>1, <1>2 DEF BlocksWork
<1>4. /\ IsFiniteSet(Survivors) /\ Cardinality(Survivors) \in Nat /\ Cardinality(Survivors) <= SurvivorCount
      /\ Survivors \subseteq ResultType /\ Apart(Survivors)
      /\ \A r : r \in Survivors <=> \E i \in 1 .. Len(kept) : r \in Held(kept[i])
      /\ SurvivorCount \in Nat
  BY <1>3, SurvivorsAre
<1>5. \A r : Has(r) <=> r \in Survivors
  BY <1>1, <1>4 DEF Has
<1>6. 1 .. Len(todo) = {}
  BY <1>1, EmptyIs
<1>7. \A r \in claim.in : r \in Survivors
  BY <1>2, <1>5, <1>6 DEF InComes
<1>8. \A r \in Survivors : <<r.address, r.type>> \notin claim.out
  BY <1>2, <1>4, <1>5 DEF OutStays
<1>9. scan \in ScanType /\ scan.types # {}
  BY <1>2, <1>3 DEF ScanTyped
<1>10. CASE /\ SurvivorCount <= MaxResults /\ results' = InOrder(Survivors) /\ blocks' = <<>>
            /\ scan' = [scan EXCEPT !.snapshot = FALSE]
  <2>1. \A r \in Survivors : r.address \in Nat /\ r.type \in Nat
    BY <1>4, AddressesAre, TypesAre DEF ResultType
  <2>2. Listed(results', Survivors)
    BY <1>4, <1>10, <2>1, InOrderIs
  <2>3. /\ results' \in Seq(Survivors) /\ Len(results') = Cardinality(Survivors) /\ InLine(results')
        /\ \A r : r \in Survivors <=> \E i \in 1 .. Len(results') : results'[i] = r
        /\ DOMAIN results' = 1 .. Len(results')
    BY <2>2, LenProperties DEF Listed
  <2>4. results' \in Seq(ResultType)
    BY <1>4, <2>3, SeqMonotonic
  <2>5. Len(results') <= MaxResults
    BY <1>4, <1>10, <2>3, ScanLimits
  <2>6. scan' \in ScanType /\ scan'.types # {} /\ ~scan'.snapshot
    BY <1>9, <1>10 DEF ScanType
  <2>7. ScanTyped'
    BY <1>1, <1>2, <1>10, <2>4, <2>5, <2>6, EmptyIs DEF ScanTyped
  <2>8. scan' # None => \A r : r \in Found' <=> r \in Survivors
    <3>1. scan' # None => Found' = {results'[i] : i \in DOMAIN results'}
      BY <2>6 DEF Found
    <3> QED
      BY <2>3, <3>1
  <2>9. ScanRests'
    BY <1>1, <1>7, <1>8, <2>3, <2>6, <2>8 DEF ScanRests
  <2> QED
    BY <1>1, <1>2, <2>7, <2>9 DEF ScanInv, TargetTyped
<1>11. CASE results' = <<>> /\ blocks' = kept /\ scan' = scan
  <2>1. ScanTyped'
    BY <1>1, <1>2, <1>3, <1>11, EmptyIs, ScanLimits DEF ScanTyped
  <2>2. \A r : r \in Found' <=> r \in Survivors
    <3>1. Found' = UNION {Held(kept[i]) : i \in DOMAIN kept}
      BY <1>3, <1>11 DEF Found, Held
    <3> QED
      BY <3>1 DEF Survivors
  <2>3. ScanRests'
    BY <1>1, <1>7, <1>8, <1>11, <2>2, EmptyIs DEF ScanRests
  <2> QED
    BY <1>1, <1>2, <2>1, <2>3 DEF ScanInv, TargetTyped
<1> QED
  BY <1>1, <1>10, <1>11

-----------------------------------------------------------------------------
(* The target, and all steps together. *)

(* At rest a step that leaves the scan alone leaves it as it is. *)
LEMMA RestStays ==
    ASSUME ScanInv, job = None, TargetTyped', UNCHANGED <<scan, results, blocks, job, claim>>
    PROVE  ScanInv'
<1>1. ScanTyped' /\ ScanRests'
  BY DEF ScanInv, ScanTyped, ScanRests, Found, Held
<1> QED
  BY <1>1 DEF ScanInv

(* And a request at work is as far as it was. *)
LEMMA WorkStays ==
    ASSUME Working, UNCHANGED <<scan, results, blocks, job, todo, kept>>
    PROVE  Working'
BY DEF Working, JobTyped, ListWork, SnapshotWork, EntriesWork, BlocksWork

(* What has come is the same. *)
LEMMA HasStays ==
    ASSUME UNCHANGED <<results, blocks, job, kept>>, NEW r
    PROVE  Has(r)' <=> Has(r)
BY DEF Has, Held

(* The target writes a byte. *)
LEMMA TargetWritesKeeps ==
    ASSUME ScanInv, NEW a \in Addresses, NEW b \in 0 .. (Base - 1), TargetWrites(a, b)
    PROVE  ScanInv'
<1>1. /\ memory' = [memory EXCEPT ![a] = b] /\ lost' = lost /\ partial' = partial
      /\ claim' = (IF job = None THEN claim ELSE Untouched({a}))
      /\ UNCHANGED <<scan, byByte, results, blocks, job, todo, kept>>
  BY DEF TargetWrites, WriteByte, Change
<1>2. TargetTyped /\ ScanTyped
  BY DEF ScanInv
<1>3. TargetTyped'
  BY <1>1, <1>2 DEF TargetTyped
<1>4. CASE job = None
  BY <1>1, <1>3, <1>4, RestStays
<1>5. CASE job # None
  <2>1. Working /\ InComes /\ OutStays
    BY <1>5 DEF ScanInv
  <2>2. /\ claim'.in = {r \in claim.in : Span(r.address, r.type) \cap {a} = {}}
        /\ claim'.out = {c \in claim.out : Span(c[1], c[2]) \cap {a} = {}}
        /\ claim' = [in |-> claim'.in, out |-> claim'.out]
    BY <1>1, <1>5 DEF Untouched
  <2>3. claim \in [in : SUBSET ResultType, out : SUBSET (Addresses \X Types)]
    BY <1>2 DEF ScanTyped
  <2>4. ScanTyped'
    <3>1. claim'.in \in SUBSET ResultType /\ claim'.out \in SUBSET (Addresses \X Types)
      BY <2>2, <2>3
    <3>2. claim' \in [in : SUBSET ResultType, out : SUBSET (Addresses \X Types)]
      BY <2>2, <3>1
    <3> QED
      BY <1>1, <1>2, <3>2 DEF ScanTyped
  <2>5. Working'
    BY <1>1, <2>1, WorkStays
  <2>6. ASSUME NEW r \in ResultType, Span(r.address, r.type) \cap {a} = {}
        PROVE  ValueNow(r.address, r.type)' = ValueNow(r.address, r.type)
    <3> DEFINE x == r.address
               w == Width[r.type]
    <3>1. x \in Nat /\ w \in Nat
      BY AddressesAre, TypesAre DEF ResultType
    <3>2. Span(x, r.type) = x .. (x + w - 1)
      BY DEF Span
    <3> HIDE DEF x, w
    <3>3. \A k \in 1 .. w : x + k - 1 # a
      <4>1. \A k \in 1 .. w : x + k - 1 \in x .. (x + w - 1)
        BY <3>1
      <4>2. a \notin x .. (x + w - 1)
        BY <2>6, <3>2 DEF x
      <4> QED
        BY <4>1, <4>2
    <3>4. \A k \in 1 .. w : memory'[x + k - 1] = memory[x + k - 1]
      BY <1>1, <1>2, <3>3 DEF TargetTyped
    <3>5. BytesAt(x, w)' = BytesAt(x, w)
      BY <3>4 DEF BytesAt
    <3> QED
      BY <3>5 DEF ValueNow, x, w
  <2>7. ASSUME NEW r \in ResultType, Span(r.address, r.type) \cap {a} = {}, NEW i \in 1 .. Len(todo)
        PROVE  /\ (Comes(todo[i], r))' <=> Comes(todo[i], r)
               /\ (Plain(todo[i], r))' <=> Plain(todo[i], r)
    <3>1. PICK x : x = todo[i]
      OBVIOUS
    <3>2. todo'[i] = x
      BY <1>1, <3>1
    <3>3. Comes(x, r)' <=> Comes(x, r)
      BY <1>1, <2>6, <2>7, StillComes
    <3>4. Plain(x, r)' <=> Plain(x, r)
      BY <1>1, SamePlain
    <3> QED
      BY <3>1, <3>2, <3>3, <3>4, ComesThen, PlainThen
  <2>8. ASSUME NEW r PROVE Has(r)' <=> Has(r)
    BY <1>1, HasStays
  <2>9. InComes'
    <3>1. ASSUME NEW r \in claim'.in PROVE (Has(r) \/ \E i \in 1 .. Len(todo) : Comes(todo[i], r) /\ Plain(todo[i], r))'
      <4>1. r \in claim.in /\ r \in ResultType /\ Span(r.address, r.type) \cap {a} = {}
        BY <2>2, <2>3
      <4>2. Has(r) \/ \E i \in 1 .. Len(todo) : Comes(todo[i], r) /\ Plain(todo[i], r)
        BY <2>1, <4>1 DEF InComes
      <4>3. \A i \in 1 .. Len(todo) : i \in 1 .. Len(todo')
        BY <1>1
      <4> QED
        BY <2>7, <2>8, <4>1, <4>2, <4>3
    <3> QED
      BY <3>1 DEF InComes
  <2>10. OutStays'
    <3>1. ASSUME NEW r \in ResultType, <<r.address, r.type>> \in claim'.out
          PROVE  (~Has(r) /\ \A i \in 1 .. Len(todo) : ~Comes(todo[i], r))'
      <4>1. <<r.address, r.type>> \in claim.out /\ Span(r.address, r.type) \cap {a} = {}
        BY <2>2, <3>1
      <4>2. ~Has(r) /\ \A i \in 1 .. Len(todo) : ~Comes(todo[i], r)
        BY <2>1, <4>1 DEF OutStays
      <4>3. \A i \in 1 .. Len(todo') : i \in 1 .. Len(todo)
        BY <1>1
      <4> QED
        BY <2>7, <2>8, <4>1, <4>2, <4>3
    <3> QED
      BY <3>1 DEF OutStays
  <2> QED
    BY <1>1, <1>3, <1>5, <2>4, <2>5, <2>9, <2>10 DEF ScanInv
<1> QED
  BY <1>4, <1>5

(* A page of the target goes or comes back. *)
LEMMA TargetPagesKeeps ==
    ASSUME ScanInv, NEW p \in Pages, TargetPages(p)
    PROVE  ScanInv'
<1>1. /\ memory' = memory /\ partial' = partial /\ (lost' = lost \cup {p} \/ lost' = lost \ {p})
      /\ claim' = (IF job = None THEN claim ELSE NoClaim)
      /\ UNCHANGED <<scan, byByte, results, blocks, job, todo, kept>>
  BY DEF TargetPages, LosePage, RegainPage, Change
<1>2. TargetTyped /\ ScanTyped
  BY DEF ScanInv
<1>3. TargetTyped'
  BY <1>1, <1>2 DEF TargetTyped
<1>4. CASE job = None
  BY <1>1, <1>3, <1>4, RestStays
<1>5. CASE job # None
  <2>1. claim'.in = {} /\ claim'.out = {} /\ claim' \in [in : SUBSET ResultType, out : SUBSET (Addresses \X Types)]
    BY <1>1, <1>5 DEF NoClaim
  <2>2. ScanTyped'
    BY <1>1, <1>2, <2>1 DEF ScanTyped
  <2>3. Working
    BY <1>5 DEF ScanInv
  <2>4. Working'
    BY <1>1, <2>3, WorkStays
  <2>5. InComes' /\ OutStays'
    BY <2>1 DEF InComes, OutStays
  <2> QED
    BY <1>1, <1>3, <1>5, <2>2, <2>4, <2>5 DEF ScanInv
<1> QED
  BY <1>4, <1>5

(* At first nothing is scanned. *)
LEMMA ScanBegins == Init => ScanInv /\ job = None
<1> SUFFICES ASSUME Init PROVE ScanInv /\ job = None
  OBVIOUS
<1>1. /\ scan = None /\ results = <<>> /\ blocks = <<>> /\ job = None /\ claim = NoClaim
  BY DEF Init, ScanInit
<1>2. memory \in Memories /\ lost \in Gaps \cup {{}} /\ partial = (lost # {})
  <2>1. (CHOOSE m \in Memories : TRUE) \in Memories
    BY TargetBeginnings
  <2> QED
    BY <2>1 DEF Init
<1>3. TargetTyped
  BY <1>2, TargetBeginnings DEF TargetTyped
<1>4. ScanTyped
  <2>1. <<>> \in Seq(ResultType) /\ Len(<<>>) = 0 /\ 0 <= MaxResults
    BY ScanLimits
  <2>2. BlockList(<<>>)
    BY EmptyIs DEF BlockList
  <2> QED
    BY <1>1, <2>1, <2>2 DEF ScanTyped, NoClaim
<1>5. ScanRests
  BY <1>1 DEF ScanRests
<1> QED
  BY <1>1, <1>3, <1>4, <1>5 DEF ScanInv

(* A step of the scan for values keeps its invariant. *)
LEMMA ScanStep == ASSUME ScanInv, ScanNext PROVE ScanInv'
<1>1. ASSUME NEW t \in Types, DisableMixedType(t) PROVE ScanInv'
  BY <1>1, DisableMixedTypeKeeps
<1>2. ASSUME NEW v \in Wanted, NEW types \in SUBSET Types, NEW small \in BOOLEAN, NEW walk \in Walks,
             FirstScanExact(v, types, small, walk)
      PROVE  ScanInv'
  BY <1>2, FirstScanExactKeeps
<1>3. ASSUME NEW types \in SUBSET Types, NEW smart \in BOOLEAN, NEW small \in BOOLEAN, NEW options \in Walks,
             FirstScanUnknown(types, smart, small, options)
      PROVE  ScanInv'
  BY <1>3, FirstScanUnknownKeeps
<1>4. ASSUME NEW mode \in Modes, NEW v \in Wanted \cup {None}, NextScan(mode, v) PROVE ScanInv'
  BY <1>4, NextScanKeeps
<1>5. ASSUME NEW a \in Addresses, NEW b \in 0 .. (Base - 1), TargetWrites(a, b) PROVE ScanInv'
  BY <1>5, TargetWritesKeeps
<1>6. ASSUME NEW p \in Pages, TargetPages(p) PROVE ScanInv'
  BY <1>6, TargetPagesKeeps
<1> QED
  BY <1>1, <1>2, <1>3, <1>4, <1>5, <1>6, ClearKeeps, ScanChunkKeeps, ScanEndsKeeps, SnapshotChunkKeeps,
     SnapshotEndsKeeps, RefinePageKeeps, RefineEndsKeeps, RefineBlockKeeps, RefineSnapshotEndsKeeps, StorageFailsKeeps
  DEF ScanNext

(* Without a step everything stays. *)
LEMMA ScanStays == ASSUME ScanInv, UNCHANGED <<target, scanVars>> PROVE ScanInv'
<1>1. UNCHANGED <<memory, lost, partial, scan, byByte, results, blocks, job, todo, kept, claim>>
  BY DEF target, scanVars
<1>2. TargetTyped'
  BY <1>1 DEF ScanInv, TargetTyped
<1>3. CASE job = None
  BY <1>1, <1>2, <1>3, RestStays
<1>4. CASE job # None
  <2>1. ScanTyped /\ Working /\ InComes /\ OutStays
    BY <1>4 DEF ScanInv
  <2>2. Working'
    BY <1>1, <2>1, WorkStays
  <2>3. ScanTyped'
    BY <1>1, <2>1 DEF ScanTyped
  <2>4. ASSUME NEW r, NEW i \in 1 .. Len(todo)
        PROVE  /\ (Comes(todo[i], r))' <=> Comes(todo[i], r)
               /\ (Plain(todo[i], r))' <=> Plain(todo[i], r)
    <3>1. PICK x : x = todo[i]
      OBVIOUS
    <3>2. todo'[i] = x
      BY <1>1, <3>1
    <3>3. (Comes(x, r)' <=> Comes(x, r)) /\ (Plain(x, r)' <=> Plain(x, r))
      BY <1>1, SameComes, SamePlain
    <3> QED
      BY <3>1, <3>2, <3>3, ComesThen, PlainThen
  <2>5. ASSUME NEW r PROVE Has(r)' <=> Has(r)
    BY <1>1, HasStays
  <2>6. \A i : i \in 1 .. Len(todo) <=> i \in 1 .. Len(todo')
    BY <1>1
  <2>7. InComes'
    BY <1>1, <2>1, <2>4, <2>5, <2>6 DEF InComes
  <2>8. OutStays'
    BY <1>1, <2>1, <2>4, <2>5, <2>6 DEF OutStays
  <2> QED
    BY <1>1, <1>2, <1>4, <2>2, <2>3, <2>7, <2>8 DEF ScanInv
<1> QED
  BY <1>3, <1>4

\* One tool at a time: a scan for values is at work only in its own behaviours.
ToolsInv == PatternInv /\ ScanInv /\ (tool # "values" => job = None)

(* At first no tool is at work. *)
LEMMA ToolsBegin == Init => ToolsInv
BY PatternBegins, ScanBegins DEF ToolsInv

(* Every step keeps what holds of the tools. *)
LEMMA ToolsStep == ASSUME ToolsInv, [Next]_vars PROVE ToolsInv'
<1>1. PatternInv'
  BY PatternStep DEF ToolsInv
<1>2. /\ tool' = tool
      /\ tool = "values" => ScanNext \/ UNCHANGED <<target, scanVars>>
      /\ tool # "values" => UNCHANGED scanVars
      /\ tool \notin {"values", "pattern"} => UNCHANGED target
  BY DEF Next, vars
<1>3. CASE tool = "values"
  <2>1. ScanInv'
    BY <1>2, <1>3, ScanStep, ScanStays DEF ToolsInv
  <2> QED
    BY <1>1, <1>2, <1>3, <2>1 DEF ToolsInv
<1>4. CASE tool # "values"
  <2>1. UNCHANGED <<scan, results, blocks, job, claim>> /\ job = None
    BY <1>2, <1>4 DEF scanVars, ToolsInv
  <2>2. TargetTyped'
    <3>1. CASE tool = "pattern"
      BY <1>1, <1>2, <3>1 DEF PatternInv, AobInv
    <3>2. CASE tool # "pattern"
      BY <1>2, <1>4, <3>2 DEF ToolsInv, ScanInv, TargetTyped, target
    <3> QED
      BY <3>1, <3>2
  <2>3. ScanInv'
    BY <2>1, <2>2, RestStays DEF ToolsInv
  <2> QED
    BY <1>1, <1>2, <2>1, <2>3 DEF ToolsInv
<1> QED
  BY <1>3, <1>4

(* MemoryScanner finds what is there to find and nothing else: when a scan or a refinement *)
(* is done, its list or snapshot has every cell that matched and that the target left      *)
(* alone meanwhile, with the value it has, no cell that did not match, and a list is in    *)
(* order; and so does the search for a pattern.                                            *)
THEOREM SpecFindsExactly == Spec => []FindsExactly
<1>1. ASSUME ToolsInv PROVE ScanExact
  <2> SUFFICES ASSUME job = None, scan # None
               PROVE  /\ claim.in \subseteq Found
                      /\ \A r \in Found : <<r.address, r.type>> \notin claim.out
                      /\ \A i \in 1 .. (Len(results) - 1) : Before(results[i], results[i + 1])
                      /\ scan.snapshot => results = <<>>
    BY DEF ScanExact
  <2>1. ScanTyped /\ ScanRests
    BY <1>1 DEF ToolsInv, ScanInv
  <2>2. Len(results) \in Nat /\ InLine(results)
    BY <2>1 DEF ScanTyped, ScanRests
  <2>3. \A i \in 1 .. (Len(results) - 1) : i \in 1 .. Len(results) /\ i + 1 \in 1 .. Len(results) /\ i < i + 1
    BY <2>2
  <2>4. \A i \in 1 .. (Len(results) - 1) : Before(results[i], results[i + 1])
    BY <2>2, <2>3 DEF InLine
  <2> QED
    BY <2>1, <2>4 DEF ScanRests
<1>2. Spec => []ScanExact
  BY <1>1, ToolsBegin, ToolsStep, PTL DEF Spec
<1> QED
  BY <1>2, SpecAobExact, PTL DEF FindsExactly

(* Every variable of the tools keeps its type and every list its limit (kMaxResults, the   *)
(* limit of a search for pointers), and a block's size is that of the bytes it keeps.      *)
THEOREM SpecTypeOK == Spec => []TypeOK
<1>1. ASSUME ToolsInv
      PROVE  memory \in [Addresses -> 0 .. (Base - 1)] /\ lost \subseteq Pages /\ partial \in BOOLEAN /\ ScanTypeOK
  <2>1. TargetTyped /\ ScanTyped
    BY <1>1 DEF ToolsInv, ScanInv
  <2>2. \A i \in DOMAIN blocks : blocks[i].size = Len(blocks[i].bytes)
    <3>1. DOMAIN blocks = 1 .. Len(blocks)
      BY <2>1 DEF ScanTyped, BlockList
    <3> QED
      BY <2>1, <3>1 DEF ScanTyped, BlockList, SoundBlock
  <2> QED
    BY <2>1, <2>2 DEF TargetTyped, ScanTyped, ScanTypeOK
<1>2. Spec => [](memory \in [Addresses -> 0 .. (Base - 1)] /\ lost \subseteq Pages /\ partial \in BOOLEAN /\ ScanTypeOK)
  BY <1>1, ToolsBegin, ToolsStep, PTL DEF Spec
<1> QED
  BY <1>2, SpecAobTypeOK, SpecPointerTypeOK, PTL DEF TypeOK
=============================================================================
