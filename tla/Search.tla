------------------------------- MODULE Search -------------------------------
(***************************************************************************)
(* From a source file to what the agent sees of it: the file is chunked,   *)
(* a search returns chunks in the order of their scores, Assemble packs    *)
(* them into a budget (the first in full, the rest as skeletons, the last  *)
(* evicted), and the agent reads back, with read_file, a body that a       *)
(* skeleton left out, following its path:start-end anchor.                 *)
(***************************************************************************)
EXTENDS Gold, Tools

CONSTANTS
  TopK,        \* chunks of a search
  Budget,      \* the assembly budget
  HeaderCost,  \* tokens of a chunk's path:start-end header
  Separator,   \* tokens of blockSep, between two blocks
  Placeholder  \* tokens of the line that stands for a body

ASSUME SearchAssumption ==
  /\ TopK \in Nat \ {0} /\ Budget \in Nat
  /\ HeaderCost \in Nat /\ Separator \in Nat /\ Placeholder \in Nat

VARIABLES
  pc,       \* "index", "search", "assemble", "context", "read" or "end"
  ranked,   \* the chunks retrieved, best first
  context,  \* the blocks of the assembled text
  counts,   \* FullCount, SkeletonCount, Dropped
  anchor,   \* the span the agent reads back
  next,     \* the line it asks for next
  seen      \* the lines read_file has returned

vars == <<file, chunks, pc, ranked, context, counts, anchor, next, seen>>
reading == <<anchor, next, seen>>

-----------------------------------------------------------------------------
(* Skeletons                                                               *)

ContentSize(c) ==
  IF Verbatim(c) THEN Size(c.start, c.last) ELSE HeaderSize(c.header)

FullBlock(c) ==
  [chunk |-> c, shown |-> c.start .. c.last, anchors |-> {},
   size |-> HeaderCost + ContentSize(c)]

(* Whole functions among the statements of a chunk's text.                 *)
Targets(c) ==
  LET top == {[u EXCEPT !.last = Least(@, c.last)] : u \in ToSet(Units(c.start, c.last))}
  IN  {u \in top : What(u) = "def" /\ u.def < u.last}

(* The first paragraph of a docstring, its first line here, is kept.       *)
DocLines(u) == IF file[u.def + 1].what = "doc" THEN {u.def + 1} ELSE {}

(* Fault: the anchors count from the start of the chunk.                   *)
SkeletonFromTop(c) ==
  LET targets == Targets(c)
      bodies == UNION {(u.def + 1 .. u.last) \ DocLines(u) : u \in targets}
      shown == (c.start .. c.last) \ bodies
  IN  [chunk |-> c, shown |-> shown,
       anchors |-> {<<u.first - c.start + 1, u.last - c.start + 1>> : u \in targets},
       size |-> HeaderCost + MapThenSumSet(LAMBDA i : Cost[file[i].what], shown)
                  + Placeholder * Cardinality(targets)]

Skeleton(c) ==
  LET targets == Targets(c)
      bodies == UNION {(u.def + 1 .. u.last) \ DocLines(u) : u \in targets}
      shown == (c.start .. c.last) \ bodies
  IN  [chunk |-> c, shown |-> shown,
       anchors |-> {<<u.first, u.last>> : u \in targets},
       size |-> HeaderCost + MapThenSumSet(LAMBDA i : Cost[file[i].what], shown)
                  + Placeholder * Cardinality(targets)]

(* The text of a chunk that is not one whole unit may fail to parse; such  *)
(* a chunk, and a class header, is left as it is.                          *)
WholeUnit(c) == c.last = Unit(c.start).last

Skeletons(c) ==
  IF ~ Verbatim(c) THEN {FullBlock(c)}
  ELSE IF WholeUnit(c) THEN {Skeleton(c)}
  ELSE {Skeleton(c), FullBlock(c)}

(* The blocks joined, with a separator before each but the first.          *)
TextSize(bs) ==
  MapThenSumSet(LAMBDA k : bs[k].size, DOMAIN bs)
    + Separator * Cardinality(DOMAIN bs \ {1})

-----------------------------------------------------------------------------
(* Assemble                                                                *)

FullBudget == (Budget * 3) \div 5

(* Fault: each chunk is compared with the share on its own.                *)
FullsEach(r) ==
  LET blocks == [k \in DOMAIN r |-> FullBlock(r[k])]
      within == {n \in DOMAIN r : \A m \in 2 .. n : blocks[m].size <= FullBudget}
  IN  SubSeq(blocks, 1, Max(within))

(* The top chunk, and those after it up to the first that would cross the  *)
(* share of full bodies.                                                   *)
Fulls(r) ==
  LET blocks == [k \in DOMAIN r |-> FullBlock(r[k])]
      within == {n \in DOMAIN r :
                   \A m \in 2 .. n : TextSize(SubSeq(blocks, 1, m)) <= FullBudget}
  IN  SubSeq(blocks, 1, Max(within))

(* The last skeletons are evicted until the text fits.                     *)
Kept(fulls, skels) ==
  LET within == {n \in DOMAIN skels :
                   TextSize(fulls \o SubSeq(skels, 1, n)) <= Budget}
  IN  SubSeq(skels, 1, Max(within \union {0}))

Rendered(cs) ==
  {bs \in [DOMAIN cs -> UNION {Skeletons(cs[k]) : k \in DOMAIN cs}] :
     \A k \in DOMAIN cs : bs[k] \in Skeletons(cs[k])}

-----------------------------------------------------------------------------
Init ==
  /\ ChunkerInit
  /\ pc = "index" /\ ranked = <<>>
  /\ context = <<>> /\ counts = [full |-> 0, skeleton |-> 0, dropped |-> 0]
  /\ anchor = <<>> /\ next = 0 /\ seen = {}

Index ==
  /\ pc = "index" /\ ChunkFile /\ pc' = "search"
  /\ UNCHANGED <<ranked, context, counts, reading>>

(* Any chunks of the file in any order, as the scores have it.             *)
Retrieve ==
  /\ pc = "search"
  /\ ranked' \in {r \in BoundedSeq(ToSet(chunks), TopK) : IsInjective(r)}
  /\ pc' = IF ranked' = <<>> THEN "end" ELSE "assemble"
  /\ UNCHANGED <<file, chunks, context, counts, reading>>

Assemble ==
  /\ pc = "assemble"
  /\ LET fulls == Fulls(ranked)
     IN  \E skels \in Rendered(SubSeq(ranked, Len(fulls) + 1, Len(ranked))) :
           LET kept == Kept(fulls, skels)
           IN  /\ context' = fulls \o kept
               /\ counts' = [full |-> Len(fulls), skeleton |-> Len(kept),
                             dropped |-> Len(skels) - Len(kept)]
  /\ pc' = "context"
  /\ UNCHANGED <<file, chunks, ranked, reading>>

(* The agent follows an anchor.                                            *)
FollowAnchor ==
  /\ pc = "context"
  /\ \E b \in ToSet(context) : anchor' \in b.anchors
  /\ next' = anchor'[1] /\ seen' = {}
  /\ pc' = "read"
  /\ UNCHANGED <<file, chunks, ranked, context, counts>>

(* It asks for the lines it has not seen, under any of the aliases, with   *)
(* or without the end; read_file may return fewer.                         *)
FileLines == Len(file) + 1

Aliases(n) == {<<n, 0, 0>>, <<0, n, 0>>, <<0, 0, n>>}

ReadFile ==
  /\ pc = "read"
  /\ \E starts \in Aliases(next), ends \in Aliases(anchor[2]) \union {<<0, 0, 0>>} :
       LET end == EndLine(starts, ends, FileLines)
       IN  /\ ~ PastEOF(starts, FileLines)
           /\ seen' = seen \union (StartLine(starts) .. end)
           /\ next' = end + 1
           /\ pc' = IF end >= anchor[2] THEN "end" ELSE "read"
  /\ UNCHANGED <<file, chunks, ranked, context, counts, anchor>>

Next == Index \/ Retrieve \/ Assemble \/ FollowAnchor \/ ReadFile
Spec == Init /\ [][Next]_vars

-----------------------------------------------------------------------------
Indexed == pc # "index"

(* Every function, method and class ParsePython reports is in the index:   *)
(* each line of a function is in the text of exactly one chunk, whatever   *)
(* was split or merged, and a class has a header over its span that begins *)
(* with its first line.  (cast.go: capToBudget drops signatures because    *)
(* "each method also has its own chunk".)                                  *)
QuotedBy(i) ==
  {k \in DOMAIN chunks : Verbatim(chunks[k]) /\ i \in chunks[k].start .. chunks[k].last}

SymbolsIndexed ==
  Indexed => \A s \in Symbols :
    CASE s.kind \in {"function", "method"} ->
           \A i \in s.start .. s.end : Cardinality(QuotedBy(i)) = 1
      [] s.kind = "class" ->
           \E c \in ToSet(chunks) :
             ~ Verbatim(c) /\ Span(s) = Span(c) /\ c.header[1][1] = s.start
      [] OTHER -> TRUE

(* A chunk exceeds the budget only where nothing smaller can be cut: a     *)
(* signature, a single line, the first line of a header.                   *)
WithinBudget ==
  Indexed => \A c \in ToSet(chunks) :
    \/ ContentSize(c) <= MaxTokens
    \/ Verbatim(c) /\ (c.start = c.last \/ c.end > c.last)
    \/ ~ Verbatim(c) /\ Len(c.header) = 1

(* The context exceeds its budget only by a top chunk that stands alone.   *)
ContextFits ==
  pc \in {"context", "read"} =>
    \/ TextSize(context) <= Budget
    \/ Len(context) = 1 /\ counts.full = 1

(* What the context leaves out can be read back: each line of a chunk is   *)
(* shown or in the span of an anchor, which does not reach beyond it, and  *)
(* following the anchor, in however many calls, returns the whole span.    *)
OmissionsRecoverable ==
  /\ \A b \in ToSet(context) : Verbatim(b.chunk) =>
       b.shown \union UNION {a[1] .. a[2] : a \in b.anchors}
         = b.chunk.start .. b.chunk.last
  /\ pc = "end" /\ anchor # <<>> => anchor[1] .. anchor[2] \subseteq seen

(* Gold is "code that a correct retrieval should surface" (tasks.go): a    *)
(* search that returned every chunk has recall 1 for any hunk's symbol.    *)
GoldRetrievable ==
  Indexed => \A n \in HunkSymbols :
    LET r == Recall(GoldFromPatch({n}), ToSet(chunks)) IN r.hits = r.of
=============================================================================
