------------------------------- MODULE ToolsMC -------------------------------
(***************************************************************************)
(* The instance of Tools that TLC checks.                                  *)
(*                                                                         *)
(* Values and patterns: bytes of one bit in two regions, the second only   *)
(* executable and cut by the range; a chunk of two pages and a rest, so    *)
(* that cells lie across pages, chunks and regions; one page may be out of *)
(* reach from the start.                                                   *)
(*                                                                         *)
(* Pointers: four slots, the module's in memory that cannot be written.    *)
(* Either any memory at all and one command, or two worlds of a restarted  *)
(* target, with a map of the other one captured earlier, and a few         *)
(* commands, or one command and a write in its midst.                      *)
(***************************************************************************)
EXTENDS Tools

MCRegions == <<[base |-> 0, end |-> 6, flags |-> {"writable"}],
               [base |-> 6, end |-> 8, flags |-> {"executable"}]>>
MCRanges == {[low |-> 0, high |-> 6]}
MCMemories == {[a \in 0 .. 7 |-> IF a \in {3, 4, 7} THEN 1 ELSE 0]}
MCGaps == {{}, {0}}
MCWidth == <<1, 2>>
MCPatterns == {<<{0, 1}, {1}>>, <<{1}, {0, 1}, {0}>>}
MCModuleBases == {0, 3, Nothing}

MCParts == <<{0}, {1, 2, 3}>>
Default == [mode |-> "auto", depth |-> 3, offset |-> 1, negative |-> 1, perNode |-> 8, work |-> 50,
            chains |-> 8, index |-> 8, writable |-> FALSE]
MCOptions == {Default,
              [Default EXCEPT !.mode = "targeted"],
              [Default EXCEPT !.writable = TRUE, !.negative = 2],
              [Default EXCEPT !.mode = "indexed", !.chains = 2],
              [Default EXCEPT !.mode = "targeted", !.perNode = 1, !.negative = 0],
              [Default EXCEPT !.work = 3],
              [Default EXCEPT !.index = 3, !.depth = 2]}

Row(s) == [a \in Slots |-> s[a + 1]]
MCWorlds == {[memory |-> Row(<<2, 4, 3, 1>>), base |-> 0], [memory |-> Row(<<2, 3, 3, 0>>), base |-> 1]}

Earlier(w) ==
    [base |-> w.base, target |-> 2,
     entries |-> {[value |-> w.memory[a], address |-> a] : a \in {b \in Slots : w.memory[b] \in Slots}},
     complete |-> TRUE, truth |-> {[memory |-> w.memory, base |-> w.base, target |-> 2]}]

Begin(w, maps0, scans0, writes0, losses0) ==
    [slots |-> w.memory, base |-> w.base, saved |-> maps0, scans |-> scans0, writes |-> writes0,
     losses |-> losses0]
MCBeginnings ==
    {Begin([memory |-> m, base |-> 0], {}, MaxScans - 1, MaxWrites, MaxLosses) : m \in [Slots -> PointerValues]} \cup
    {Begin(wv[1], {Earlier(wv[2])}, 0, MaxWrites, MaxLosses) : wv \in {x \in MCWorlds \X MCWorlds : x[1] # x[2]}} \cup
    {Begin(w, {}, MaxScans - 1, 0, 0) : w \in MCWorlds}
=============================================================================
