------------------------------ MODULE MemoryScan ------------------------------
(***************************************************************************)
(* MemoryScanner (src/src/MemoryScanner.cpp): the scan for a value or for  *)
(* every value, its list or its snapshot file, and their refinement.       *)
(*                                                                         *)
(* The scanner works chunk by chunk, then page by page of the list or      *)
(* block by block of the snapshot; the target writes its memory between    *)
(* any two of those steps, and pages of it come and go.  The types differ  *)
(* by their width alone: signs, fractions and the float tolerance are left *)
(* out.  The snapshot file may fail to be written or read.                 *)
(***************************************************************************)
EXTENDS Walk

CONSTANTS Width,       \* the width of each type, in the order of valueTypeIndex
          Wanted,      \* the values a user may look for
          MaxResults,  \* kMaxResults
          MaxRequests, \* bound: requests to the scanner
          None

ASSUME ScanLimits == MaxResults \in Nat /\ MaxRequests \in Nat
ASSUME WidthAssumption == Width \in Seq(Nat \ {0}) /\ Width # <<>>

VARIABLES scan,     \* hasScan_, mixedScanActive_, unknownSnapshotActive_ and type_
          byByte,   \* options_.alignment
          results,  \* results_
          blocks,   \* snapshot_, with the bytes of the file
          job,      \* the request being worked on
          todo,     \* the chunks, results or blocks still ahead
          kept,     \* results or blocks that are done
          requests,
          claim     \* what the finished request must have found; read by properties only

scanVars == <<scan, byByte, results, blocks, job, todo, kept, requests, claim>>

Types == DOMAIN Width
Fits(v) == {t \in Types : v < Base^Width[t]}
Modes == {"exact", "changed", "unchanged", "increased", "decreased", "bigger", "smaller"}
NeedsValue(mode) == mode \in {"exact", "bigger", "smaller"}

JobType == [kind : {"list", "snapshot", "entries", "blocks"}, types : SUBSET Types, mixed : BOOLEAN,
            mode : Modes, wanted : Wanted \cup {None}]
ASSUME NoneIsNoJob == None \notin JobType

\* The bytes of a cell as an unsigned number, the lowest first.
Number(bytes) == Loop(0, Len(bytes), LAMBDA n, k : n * Base + bytes[Len(bytes) + 1 - k])

\* scanMatches
Matches(mode, now, before, wanted) ==
    CASE mode = "exact"     -> now = wanted
      [] mode = "changed"   -> now # before
      [] mode = "unchanged" -> now = before
      [] mode = "increased" -> now > before
      [] mode = "decreased" -> now < before
      [] mode = "bigger"    -> now > wanted
      [] mode = "smaller"   -> now < wanted

Stride(t, small) == IF small THEN 1 ELSE Width[t]

Before(r, s) == r.address < s.address \/ (r.address = s.address /\ r.type < s.type)
InOrder(S) == OrderedBy(S, Before)

Result(a, t, v) == [address |-> a, type |-> t, previous |-> v]
ValueNow(a, t) == Number(BytesAt(a, Width[t]))

-----------------------------------------------------------------------------
(* What a correct request finds, for the properties.  A cell is an address *)
(* and a type; it counts while all its bytes are within one allowed        *)
(* region.  claim.in are results that must be there, claim.out cells that  *)
(* must not; whatever the target touches meanwhile is claimed no more.     *)

NoClaim == [in |-> {}, out |-> {}]
Span(a, t) == a .. (a + Width[t] - 1)
CellsIn(types, small, walk) ==
    {c \in Addresses \X types : c[1] % Stride(c[2], small) = 0 /\ WithinOne(Span(c[1], c[2]), walk)}
Whole(c) == \A a \in Span(c[1], c[2]) : InReach(a)
OnePage(c) == \A a \in Span(c[1], c[2]) : a \div PageSize = c[1] \div PageSize

ClaimFirst(types, small, walk, mode, wanted) ==
    LET found == {c \in CellsIn(types, small, walk) :
                    Whole(c) /\ (mode = "all" \/ ValueNow(c[1], c[2]) = wanted)}
    IN  [in  |-> IF Thorough(walk) THEN {Result(c[1], c[2], ValueNow(c[1], c[2])) : c \in found} ELSE {},
         out |-> (Addresses \X Types) \ found]

\* What a block of a snapshot knows of its candidates.
Held(b) ==
    UNION {{Result(b.base + o, t, Number(SubSeq(b.bytes, o + 1, o + Width[t]))) : o \in b.active[t]} : t \in Types}

\* The candidates, in a list or in a snapshot.
Found ==
    IF scan = None THEN {}
    ELSE IF ~scan.snapshot THEN {results[i] : i \in DOMAIN results}
    ELSE UNION {Held(blocks[i]) : i \in DOMAIN blocks}

ClaimNext(mode, wanted) ==
    LET stay  == {r \in Found : /\ Whole(<<r.address, r.type>>)
                                /\ NeedsValue(mode) => r.type \in Fits(wanted)
                                /\ Matches(mode, ValueNow(r.address, r.type), r.previous, wanted)}
        \* A snapshot block that is read page by page loses what lies across two pages, and the
        \* pages count from where the block begins.
        sure  == {r \in stay : \/ ~scan.snapshot \/ lost = {}
                              \/ /\ OnePage(<<r.address, r.type>>)
                                 /\ \A i \in DOMAIN blocks : blocks[i].base % PageSize = 0}
    IN  [in  |-> {Result(r.address, r.type, ValueNow(r.address, r.type)) : r \in sure},
         out |-> (Addresses \X Types) \ {<<r.address, r.type>> : r \in stay}]

Untouched(touched) ==
    [in  |-> {r \in claim.in : Span(r.address, r.type) \cap touched = {}},
     out |-> {c \in claim.out : Span(c[1], c[2]) \cap touched = {}}]

-----------------------------------------------------------------------------
(* Requests that end at once.                                              *)

NoSnapshot == blocks' = <<>>

\* clear
Forget ==
    /\ scan' = None /\ results' = <<>> /\ NoSnapshot
    /\ job' = None /\ todo' = <<>> /\ kept' = <<>>
    /\ claim' = NoClaim

Request == job = None /\ requests < MaxRequests /\ requests' = requests + 1

\* setProcess, NewScan
Clear ==
    /\ Request /\ scan # None
    /\ Forget
    /\ UNCHANGED <<target, byByte>>

DisableMixedType(t) ==
    /\ Request /\ scan # None /\ scan.mixed
    /\ blocks' = [i \in DOMAIN blocks |-> [blocks[i] EXCEPT !.active[t] = {}]]
    /\ results' = Chosen(results, {i \in DOMAIN results : results[i].type # t})
    /\ claim' = [in |-> {r \in claim.in : r.type # t}, out |-> claim.out \cup (Addresses \X {t})]
    /\ UNCHANGED <<target, scan, byByte, job, todo, kept>>

-----------------------------------------------------------------------------
(* First scans.  The list of types is one type, or all that take the value.*)

BeginFirst(kind, types, mixed, wanted, small) ==
    /\ Request
    /\ byByte' = small
    /\ scan' = None /\ results' = <<>> /\ NoSnapshot /\ kept' = <<>>
    /\ job' = [kind |-> kind, types |-> types, mixed |-> mixed, mode |-> "exact", wanted |-> wanted]
    /\ UNCHANGED <<target>>

\* setOptions, then firstScan or firstScanAllExact
FirstScanExact(v, types, small, walk) ==
    /\ job = None
    /\ types # {} /\ types \subseteq Fits(v)
    /\ types = Fits(v) \/ Cardinality(types) = 1
    /\ \E mixed \in BOOLEAN :
         /\ mixed => types = Fits(v)
         /\ ~mixed => Cardinality(types) = 1
         /\ BeginFirst("list", types, mixed, v, small)
    /\ todo' = Chunks(walk)
    /\ claim' = ClaimFirst(types, small, walk, "exact", v)

\* firstScanUnknown and firstScanAllUnknown; the smart ones look at writable memory only,
\* whatever the options say.
FirstScanUnknown(types, smart, small, options) ==
    LET walk == [options EXCEPT !.flags = IF smart THEN @ \cup {"writable"} ELSE @] IN
    /\ job = None
    /\ types = Types \/ Cardinality(types) = 1
    /\ BeginFirst("snapshot", types, types = Types, None, small)
    /\ todo' = Chunks(walk)
    /\ claim' = ClaimFirst(types, small, walk, "all", None)

Widest(types) == Most({Width[t] : t \in types})

\* A scan of one type reads as many bytes beyond a chunk as its values may need, one of all
\* types as many as the widest.
Overlap == Widest(IF job.mixed THEN Types ELSE job.types) - 1

\* visitCandidates: the stride counts from address zero, not from the buffer.
Candidates(v, t) ==
    {o \in 0 .. (v.starts - 1) : (v.base + o) % Stride(t, byByte) = 0 /\ o + Width[t] <= v.size}

HitsOfType(v, t) ==
    InOrder({Result(v.base + o, t, ValueNow(v.base + o, t)) :
                o \in {p \in Candidates(v, t) : ValueNow(v.base + p, t) = job.wanted}})
HitsOf(v) == Joined([i \in 1 .. Cardinality(job.types) |-> HitsOfType(v, Ordered(job.types)[i])])
Hits(chunk) ==
    LET visits == Visits(chunk, Overlap) IN Joined([i \in 1 .. Len(visits) |-> HitsOf(visits[i])])

\* One chunk of an exact scan; the walk ends at the last chunk or at the result limit.
ScanChunk ==
    /\ job # None /\ job.kind = "list" /\ todo # <<>>
    /\ LET all == results \o Hits(Head(todo)) IN
         IF Len(all) > MaxResults
         THEN /\ results' = SubSeq(all, 1, MaxResults) /\ todo' = <<>>
              /\ claim' = [claim EXCEPT !.in = {}]
         ELSE results' = all /\ todo' = Tail(todo) /\ UNCHANGED claim
    /\ UNCHANGED <<target, scan, byByte, blocks, job, kept, requests>>

ScanEnds ==
    /\ job # None /\ job.kind = "list" /\ todo = <<>>
    /\ scan' = [mixed |-> job.mixed, snapshot |-> FALSE, types |-> job.types]
    /\ results' = IF job.mixed THEN InOrder({results[i] : i \in DOMAIN results}) ELSE results
    /\ job' = None
    /\ UNCHANGED <<target, byByte, blocks, todo, kept, requests, claim>>

\* A block keeps the bytes of a visit and, by type, the candidates still alive in it.
BlockOf(v) ==
    [base |-> v.base, size |-> v.size, starts |-> v.starts, bytes |-> BytesAt(v.base, v.size),
     active |-> [t \in Types |-> IF t \in job.types THEN Candidates(v, t) ELSE {}]]

SnapshotChunk ==
    /\ job # None /\ job.kind = "snapshot" /\ todo # <<>>
    /\ LET visits == Visits(Head(todo), Overlap) IN
         blocks' = blocks \o [i \in DOMAIN visits |-> BlockOf(visits[i])]
    /\ todo' = Tail(todo)
    /\ UNCHANGED <<target, scan, byByte, results, job, kept, requests, claim>>

SnapshotEnds ==
    /\ job # None /\ job.kind = "snapshot" /\ todo = <<>>
    /\ scan' = [mixed |-> job.mixed, snapshot |-> TRUE, types |-> job.types]
    /\ job' = None
    /\ UNCHANGED <<target, byByte, results, blocks, todo, kept, requests, claim>>

\* The snapshot file cannot be written, or read again.
StorageFails ==
    /\ job # None /\ job.kind \in {"snapshot", "blocks"}
    /\ Forget
    /\ UNCHANGED <<target, byByte, requests>>

-----------------------------------------------------------------------------
(* Refinements.                                                            *)

\* nextScan and nextScanMixed: what they refuse leaves everything as it was.
NextScan(mode, v) ==
    /\ Request /\ scan # None
    /\ IF NeedsValue(mode) THEN v # None /\ (IF scan.mixed THEN Fits(v) # {} ELSE scan.types \subseteq Fits(v))
                           ELSE v = None
    /\ job' = [kind |-> IF scan.snapshot THEN "blocks" ELSE "entries",
               types |-> scan.types, mixed |-> scan.mixed, mode |-> mode, wanted |-> v]
    /\ todo' = IF scan.snapshot THEN blocks ELSE results
    /\ kept' = <<>>
    /\ claim' = ClaimNext(mode, v)
    /\ UNCHANGED <<target, scan, byByte, results, blocks>>

\* A value that does not fit the type of a candidate drops the candidate.
Survives(t, now, before) ==
    /\ NeedsValue(job.mode) => t \in Fits(job.wanted)
    /\ Matches(job.mode, now, before, job.wanted)

\* The entries at the head of the list that begin in the page of the first.
PageGroup ==
    LET page(r) == r.address \div PageSize
        others  == {i \in DOMAIN todo : page(todo[i]) # page(todo[1])}
    IN  SubSeq(todo, 1, IF others = {} THEN Len(todo) ELSE Least(others) - 1)

\* An entry the page read does not cover is read by itself.
EntryRead(r, from, arrived) ==
    \/ r.address + Width[r.type] <= from + arrived
    \/ Arrive(r.address, Width[r.type]) = Width[r.type]

Renewed(r) == [r EXCEPT !.previous = ValueNow(r.address, r.type)]

\* One page of nextScanTyped and nextScanMixedInternal: its entries are read together, as
\* far as the last of them reaches.
RefinePage ==
    /\ job # None /\ job.kind = "entries" /\ todo # <<>>
    /\ LET from    == todo[1].address
           arrived == Arrive(from, Most({r.address + Width[r.type] : r \in Range(PageGroup)}) - from)
           stays(r) == /\ EntryRead(r, from, arrived)
                       /\ Survives(r.type, ValueNow(r.address, r.type), r.previous)
           fresh == [i \in DOMAIN PageGroup |-> Renewed(PageGroup[i])]
       IN /\ kept' = kept \o Chosen(fresh, {i \in DOMAIN PageGroup : stays(PageGroup[i])})
          /\ todo' = SubSeq(todo, Len(PageGroup) + 1, Len(todo))
    /\ UNCHANGED <<target, scan, byByte, results, blocks, job, requests, claim>>

RefineEnds ==
    /\ job # None /\ job.kind = "entries" /\ todo = <<>>
    /\ results' = kept
    /\ job' = None /\ kept' = <<>>
    /\ UNCHANGED <<target, scan, byByte, blocks, todo, requests, claim>>

\* The parts of a block that could be read: as much as one read brings, then page by page,
\* without any bytes beyond the page.
Segments(b) ==
    LET got   == Arrive(b.base, b.size)
        pages == {[offset |-> o, size |-> Arrive(b.base + o, Least({PageSize, b.size - o}))] :
                    o \in Steps(got, b.size, PageSize)}
    IN  {s \in {[offset |-> 0, size |-> got]} \cup pages : s.size > 0}

\* Bytes that could not be read stay as they were.
NewBytes(b) ==
    [k \in 1 .. b.size |->
        IF \E s \in Segments(b) : k - 1 \in s.offset .. (s.offset + s.size - 1)
        THEN memory[b.base + k - 1] ELSE b.bytes[k]]

\* The candidates of type t that stay in block b.  A block without any change needs no look
\* when the mode asks for change or for none.
Remaining(b, t) ==
    LET whole == Segments(b) = {[offset |-> 0, size |-> b.size]}
        same  == whole /\ BytesAt(b.base, b.size) = b.bytes
        seen(o) == \E s \in Segments(b) :
                      /\ o >= s.offset /\ o < Least({s.offset + s.size, b.starts})
                      /\ o + Width[t] <= s.offset + s.size
    IN  IF NeedsValue(job.mode) /\ t \notin Fits(job.wanted) THEN {}
        ELSE IF same /\ job.mode = "unchanged" THEN b.active[t]
        ELSE IF same /\ job.mode \in {"changed", "increased", "decreased"} THEN {}
        ELSE {o \in b.active[t] : /\ seen(o)
                                  /\ Survives(t, ValueNow(b.base + o, t),
                                              Number(SubSeq(b.bytes, o + 1, o + Width[t])))}

RefineBlock ==
    /\ job # None /\ job.kind = "blocks" /\ todo # <<>>
    /\ LET b == Head(todo) IN
         kept' = Append(kept, [b EXCEPT !.active = [t \in Types |-> Remaining(b, t)],
                                        !.bytes = NewBytes(b)])
    /\ todo' = Tail(todo)
    /\ UNCHANGED <<target, scan, byByte, results, blocks, job, requests, claim>>

Survivors == UNION {Held(kept[i]) : i \in DOMAIN kept}

\* candidates of all blocks, counted block by block and type by type
SurvivorCount ==
    Cardinality(UNION {{<<i, t, o>> : o \in kept[i].active[t]} : i \in DOMAIN kept, t \in Types})

\* The snapshot becomes a list as soon as the candidates fit one and memory is there for it.
RefineSnapshotEnds ==
    /\ job # None /\ job.kind = "blocks" /\ todo = <<>>
    /\ \/ /\ SurvivorCount <= MaxResults
          /\ results' = InOrder(Survivors)
          /\ NoSnapshot
          /\ scan' = [scan EXCEPT !.snapshot = FALSE]
       \/ /\ results' = <<>>
          /\ blocks' = kept
          /\ UNCHANGED scan
    /\ job' = None /\ kept' = <<>>
    /\ UNCHANGED <<target, byByte, todo, requests, claim>>

-----------------------------------------------------------------------------
(* The target, beside the scanner.                                         *)

TargetWrites(a, b) ==
    /\ WriteByte(a, b)
    /\ claim' = IF job = None THEN claim ELSE Untouched({a})
    /\ UNCHANGED <<scan, byByte, results, blocks, job, todo, kept, requests>>

TargetPages(p) ==
    /\ LosePage(p) \/ RegainPage(p)
    /\ claim' = IF job = None THEN claim ELSE NoClaim
    /\ UNCHANGED <<scan, byByte, results, blocks, job, todo, kept, requests>>

ScanInit ==
    /\ scan = None /\ results = <<>> /\ blocks = <<>>
    /\ byByte = FALSE
    /\ job = None /\ todo = <<>> /\ kept = <<>>
    /\ requests = 0 /\ claim = NoClaim

ScanNext ==
    \/ Clear
    \/ \E t \in Types : DisableMixedType(t)
    \/ \E v \in Wanted, types \in SUBSET Types, small \in BOOLEAN, walk \in Walks :
         FirstScanExact(v, types, small, walk)
    \/ \E types \in SUBSET Types, smart, small \in BOOLEAN, options \in Walks :
         FirstScanUnknown(types, smart, small, options)
    \/ \E mode \in Modes, v \in Wanted \cup {None} : NextScan(mode, v)
    \/ ScanChunk \/ ScanEnds \/ SnapshotChunk \/ SnapshotEnds
    \/ RefinePage \/ RefineEnds \/ RefineBlock \/ RefineSnapshotEnds \/ StorageFails
    \/ \E a \in Addresses, b \in 0 .. (Base - 1) : TargetWrites(a, b)
    \/ \E p \in Pages : TargetPages(p)

-----------------------------------------------------------------------------
ResultType == [address : Addresses, type : Types, previous : Nat]
ScanType == [mixed : BOOLEAN, snapshot : BOOLEAN, types : SUBSET Types]

ScanTypeOK ==
    /\ scan \in ScanType \cup {None}
    /\ results \in Seq(ResultType) /\ Len(results) <= MaxResults
    /\ \A i \in DOMAIN blocks : blocks[i].size = Len(blocks[i].bytes)

(* When a request is done, the list or the snapshot holds exactly the cells that match,  *)
(* each with the value it had, whatever chunk, page or region boundary they lie at and   *)
(* whichever pages could not be read, except for cells the target touched while the      *)
(* request ran; and a list is in order, no cell twice, since #i is the i-th result.      *)
ScanExact ==
    job = None /\ scan # None =>
        /\ claim.in \subseteq Found
        /\ \A r \in Found : <<r.address, r.type>> \notin claim.out
        /\ \A i \in 1 .. (Len(results) - 1) : Before(results[i], results[i + 1])
        /\ scan.snapshot => results = <<>>
=============================================================================
