--------------------------------- MODULE Walk ---------------------------------
(***************************************************************************)
(* The memory of the target process and the walk over it that the value    *)
(* scanner (visitReadableMemory of src/src/MemoryScanner.cpp) and the      *)
(* pattern scanner (AobScanner::scan) share line for line: the allowed     *)
(* regions one after the other, each in chunks, each chunk read with some  *)
(* bytes beyond its end, page by page where the large read fell short.     *)
(*                                                                         *)
(* A page may be out of reach although its region is readable: it was      *)
(* unmapped or protected between the query and the read.  A read that      *)
(* meets such a page either delivers the bytes before it or none, as the   *)
(* system likes; the choice is made once.                                  *)
(***************************************************************************)
EXTENDS Order, Sequences, SequencesExt

CONSTANTS Regions,     \* ascending records of base, end (exclusive) and flags
          Ranges,      \* the addresses a user may ask for: records of low and high (inclusive)
          ChunkSize, PageSize,
          Base,        \* how many values a byte has
          MaxChanges   \* bound: what the target does meanwhile

ASSUME WalkSizes ==
    /\ ChunkSize \in Nat \ {0} /\ PageSize \in Nat \ {0} /\ Base \in Nat \ {0}
    /\ ChunkSize % PageSize = 0
ASSUME RegionsAscend ==
    /\ Regions \in Seq([base : Nat, end : Nat, flags : SUBSET {"writable", "executable"}])
    /\ \A i \in DOMAIN Regions : Regions[i].base < Regions[i].end /\ Regions[i].base % PageSize = 0
    /\ \A i, j \in DOMAIN Regions : i < j => Regions[i].end <= Regions[j].base
ASSUME RangesAreTyped == Ranges \subseteq [low : Nat, high : Nat]

VARIABLES memory,   \* the bytes of the target
          lost,     \* the pages out of reach
          partial,  \* a read that falls short delivers what is before the gap
          changes

target == <<memory, lost, partial, changes>>

Addresses == UNION {r.base .. (r.end - 1) : r \in {Regions[i] : i \in DOMAIN Regions}}
Pages == {a \div PageSize : a \in Addresses}

Least(S) == CHOOSE x \in S : \A y \in S : x <= y
Most(S) == CHOOSE x \in S : \A y \in S : y <= x

\* Where steps of length d begin that take one from a to b.
Steps(a, b, d) == {x \in a .. (b - 1) : (x - a) % d = 0}

InReach(a) == a \in Addresses /\ a \div PageSize \notin lost

\* ReadProcessMemory: how many bytes of a read arrive.
Arrive(base, size) ==
    LET gaps == {k \in 0 .. (size - 1) : ~InReach(base + k)} IN
    IF gaps = {} THEN size ELSE IF partial THEN Least(gaps) ELSE 0

BytesAt(a, size) == [k \in 1 .. size |-> memory[a + k - 1]]

-----------------------------------------------------------------------------
\* A walk is a range of addresses and the flags a region needs, like "writable".
Walks == {[flags |-> F, low |-> r.low, high |-> r.high] : F \in SUBSET {"writable"}, r \in Ranges}

\* What of a region is walked.
Clipped(r, walk) == [r EXCEPT !.base = IF @ < walk.low THEN walk.low ELSE @,
                              !.end = IF @ > walk.high + 1 THEN walk.high + 1 ELSE @]

\* regionAllowed
Allowed(walk) ==
    {r \in {Clipped(Regions[i], walk) : i \in DOMAIN Regions} : r.base < r.end /\ walk.flags \subseteq r.flags}

WithinOne(span, walk) == \E r \in Allowed(walk) : span \subseteq r.base .. (r.end - 1)

\* Nothing in reach is hidden from a walk: all is in reach, or reads bring what is before a
\* gap and the pages that are read one by one are those that come and go.
Thorough(walk) == lost = {} \/ (partial /\ walk.low % PageSize = 0)

Lower(a, b) == a.base < b.base

ChunksOf(r) == {[base |-> a, end |-> r.end] : a \in Steps(r.base, r.end, ChunkSize)}
Chunks(walk) == OrderedBy(UNION {ChunksOf(r) : r \in Allowed(walk)}, Lower)

\* How much of a chunk is its own; what a read has beyond is the next one's.
Primary(chunk) == Least({ChunkSize, chunk.end - chunk.base})

\* One read and what the callback gets of it: candidates start in the first starts bytes.
Visit(at, primary, end, overlap) ==
    LET got == Arrive(at, Least({end - at, primary + overlap})) IN
    [base |-> at, size |-> got, starts |-> Least({primary, got})]

\* Mutant: the retry has no bytes beyond the page.
RetriesBare(chunk, from, overlap) ==
    {Visit(chunk.base + o, Least({PageSize, Primary(chunk) - o}), chunk.end, 0) :
        o \in Steps(from, Primary(chunk), PageSize)}

\* The retry page by page begins where the large read fell short.
Retries(chunk, from, overlap) ==
    {Visit(chunk.base + o, Least({PageSize, Primary(chunk) - o}), chunk.end, overlap) :
        o \in Steps(from, Primary(chunk), PageSize)}

Visits(chunk, overlap) ==
    LET large == Visit(chunk.base, Primary(chunk), chunk.end, overlap)
        small == IF large.size < Primary(chunk) THEN Retries(chunk, large.size, overlap) ELSE {}
    IN  OrderedBy({v \in {large} \cup small : v.size > 0}, Lower)

-----------------------------------------------------------------------------
(* The target goes on while it is scanned.                                 *)

Change == changes < MaxChanges /\ changes' = changes + 1 /\ UNCHANGED partial

WriteByte(a, b) ==
    /\ Change
    /\ memory[a] # b
    /\ memory' = [memory EXCEPT ![a] = b]
    /\ UNCHANGED lost

LosePage(p) ==
    /\ Change
    /\ p \notin lost /\ lost' = lost \cup {p}
    /\ UNCHANGED memory

RegainPage(p) ==
    /\ Change
    /\ p \in lost /\ lost' = lost \ {p}
    /\ UNCHANGED memory
=============================================================================
