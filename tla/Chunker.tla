------------------------------ MODULE Chunker -------------------------------
(***************************************************************************)
(* chunk.File: the chunks of one Python source file, as they are indexed.  *)
(*                                                                         *)
(* A file is a sequence of lines, each with its indentation and what it    *)
(* is; a statement is a line and the deeper lines that follow it, so that  *)
(* the syntax tree is read off the indentation.  A line costs as many      *)
(* tokens as its kind says and a text costs the sum of its lines.          *)
(***************************************************************************)
EXTENDS Integers, Sequences, FiniteSets, FiniteSetsExt, SequencesExt

CONSTANTS
  Files,     \* the files to chunk
  Cost,      \* tokens of a line, by what it is
  MaxTokens, \* Options.MaxChunkTokens
  Merges     \* the values of Options.Merge

Whats == {"deco", "def", "class", "doc", "assign", "text"}
Line == [depth : Nat, what : Whats, name : STRING]

(* Indented as Python asks, and no decorator without its definition.       *)
WellFormed(f) ==
  /\ f # <<>> /\ f[1].depth = 0
  /\ \A i \in DOMAIN f :
       LET next == f[IF i < Len(f) THEN i + 1 ELSE 1] IN
       /\ f[i].what = "deco" =>
            /\ i < Len(f)
            /\ next.what \in {"deco", "def", "class"} /\ next.depth = f[i].depth
       /\ f[i].what \in {"def", "class"} => next.depth = f[i].depth + 1
       /\ next.depth <= f[i].depth + 1

ASSUME ChunkerAssumption ==
  /\ Files \subseteq Seq(Line)
  /\ \A f \in Files : WellFormed(f)
  /\ Cost \in [Whats -> Nat \ {0}]
  /\ MaxTokens \in Nat \ {0}
  /\ Merges \subseteq BOOLEAN

VARIABLES
  file,      \* the source
  chunks     \* its chunks, <<>> before File returns

-----------------------------------------------------------------------------
(* The syntax tree.  A unit is a statement with the decorators above it.   *)

Size(a, b) == MapThenSumSet(LAMBDA i : Cost[file[i].what], a .. b)
Fits(a, b) == Size(a, b) <= MaxTokens

LastLine(i) ==
  CHOOSE j \in i .. Len(file) :
    /\ \A k \in i + 1 .. j : file[k].depth > file[i].depth
    /\ j < Len(file) => file[j + 1].depth <= file[i].depth

DefLine(i) ==
  CHOOSE j \in i .. Len(file) :
    file[j].what # "deco" /\ \A k \in i .. j - 1 : file[k].what = "deco"

Unit(i) == [first |-> i, def |-> DefLine(i), last |-> LastLine(DefLine(i))]

Lines(a, b) == [k \in 1 .. b - a + 1 |-> a + k - 1]

Begins(i, a) ==
  file[i].depth = file[a].depth /\ (i > a => file[i - 1].what # "deco")

(* The statements of the block on lines a .. b.                            *)
Units(a, b) ==
  LET Add(us, i) == IF Begins(i, a) THEN Append(us, Unit(i)) ELSE us
  IN  FoldLeft(Add, <<>>, Lines(a, b))

What(u) == file[u.def].what
Members(u) == Units(u.def + 1, u.last)

(* Of the statements only classes are descended into, so that a definition *)
(* that is visited and indented is in a class.                             *)
InClass(u) == file[u.def].depth > 0

-----------------------------------------------------------------------------
(* A chunk has the text of lines start .. last; end is the line its last   *)
(* byte is on.  A class header has the text of header instead: each of its *)
(* lines is a line of the file, or several that were collapsed into one.   *)

EmitBytes(a, b, kind) ==
  [kind |-> kind, start |-> a, last |-> b, end |-> b, header |-> <<>>]

(* Windows of whole lines that fit, the leaf fallback.                     *)
ExtendWindow(ws, i) ==
  IF ws # <<>> /\ Fits(Last(ws)[1], i)
  THEN Append(Front(ws), <<Last(ws)[1], i>>)
  ELSE Append(ws, <<i, i>>)

LineSplit(a, b, kind) ==
  LET ws == FoldLeft(ExtendWindow, <<>>, Lines(a, b))
  IN  [k \in DOMAIN ws |-> EmitBytes(ws[k][1], ws[k][2], kind)]

(* Fault: the group before an oversized statement is forgotten.            *)
GroupStatementUnflushed(acc, u) ==
  IF ~ Fits(u.first, u.last)
  THEN [out |-> acc.out \o LineSplit(u.first, u.last, acc.kind),
        open |-> <<>>, kind |-> acc.kind]
  ELSE IF acc.open # <<>> /\ Fits(acc.open[1].start, u.last)
  THEN [acc EXCEPT !.open = <<EmitBytes(acc.open[1].start, u.last, acc.kind)>>]
  ELSE [out |-> acc.out \o acc.open,
        open |-> <<EmitBytes(u.first, u.last, acc.kind)>>, kind |-> acc.kind]

(* One more statement of a block: a statement over the budget is split by  *)
(* lines, after which a new group begins.  acc.open holds the group.       *)
GroupStatement(acc, u) ==
  IF ~ Fits(u.first, u.last)
  THEN [out |-> acc.out \o acc.open \o LineSplit(u.first, u.last, acc.kind),
        open |-> <<>>, kind |-> acc.kind]
  ELSE IF acc.open # <<>> /\ Fits(acc.open[1].start, u.last)
  THEN [acc EXCEPT !.open = <<EmitBytes(acc.open[1].start, u.last, acc.kind)>>]
  ELSE [out |-> acc.out \o acc.open,
        open |-> <<EmitBytes(u.first, u.last, acc.kind)>>, kind |-> acc.kind]

SplitBlock(units, kind) ==
  LET acc == FoldLeft(GroupStatement,
                      [out |-> <<>>, open |-> <<>>, kind |-> kind], units)
  IN  acc.out \o acc.open

(* The signature of a split function ends where its body starts, after the *)
(* indentation of the body's first line.                                   *)
SplitFunc(u, kind) ==
  <<[EmitBytes(u.first, u.def, kind) EXCEPT !.end = u.def + 1]>>
    \o SplitBlock(Members(u), kind)

EmitFunc(u, kind) ==
  IF Fits(u.first, u.last) THEN <<EmitBytes(u.first, u.last, kind)>>
  ELSE SplitFunc(u, kind)

-----------------------------------------------------------------------------
(* Class headers                                                           *)

EachLine(a, b) == [k \in 1 .. b - a + 1 |-> <<a + k - 1, a + k - 1>>]

(* What a member of a class adds to its header.                            *)
MemberLines(u) ==
  CASE What(u) \in {"def", "class"} -> EachLine(u.first, u.def)
    [] What(u) = "assign"           -> EachLine(u.first, u.last)
    [] What(u) = "doc"              -> <<<<u.first, u.last>>>>
    [] OTHER                        -> <<>>

HeaderSize(ls) ==
  MapThenSumSet(LAMBDA k : Size(ls[k][1], ls[k][2]), DOMAIN ls)

CapToBudget(ls) ==
  LET fitting == {n \in DOMAIN ls : HeaderSize(SubSeq(ls, 1, n)) <= MaxTokens}
  IN  SubSeq(ls, 1, Max(fitting \union {1}))

ClassHeader(u) ==
  LET added == [k \in DOMAIN Members(u) |-> MemberLines(Members(u)[k])]
  IN  [kind |-> "class_header", start |-> u.first, last |-> u.last,
       end |-> u.last,
       header |-> CapToBudget(EachLine(u.first, u.def) \o FlattenSeq(added))]

-----------------------------------------------------------------------------
(* The chunks of the unit that begins at line i.  Definitions inside other *)
(* statements are not visited.                                             *)
Emit[i \in 1 .. Len(file)] ==
  LET u == Unit(i)
  IN  IF What(u) = "class" THEN
        FlattenSeq([k \in DOMAIN Members(u) |-> Emit[Members(u)[k].first]])
          \o <<ClassHeader(u)>>
      ELSE IF What(u) = "def" THEN
        EmitFunc(u, IF InClass(u) THEN "method" ELSE "function")
      ELSE <<>>

Walk ==
  LET units == Units(1, Len(file))
  IN  FlattenSeq([k \in DOMAIN units |-> Emit[units[k].first]])

Verbatim(c) == c.header = <<>>

(* Fault: only the size of the chunk that is added counts.                 *)
MergeIntoAny(merged, c) ==
  IF /\ merged # <<>> /\ Verbatim(c) /\ Verbatim(Last(merged))
     /\ c.kind = Last(merged).kind
     /\ Fits(c.start, c.last)
  THEN Append(Front(merged),
              [Last(merged) EXCEPT !.last = c.last, !.end = c.end])
  ELSE Append(merged, c)

MergeInto(merged, c) ==
  IF /\ merged # <<>> /\ Verbatim(c) /\ Verbatim(Last(merged))
     /\ c.kind = Last(merged).kind
     /\ Fits(Last(merged).start, c.last)
  THEN Append(Front(merged),
              [Last(merged) EXCEPT !.last = c.last, !.end = c.end])
  ELSE Append(merged, c)

MergeSameKind(out) == FoldLeft(MergeInto, <<>>, out)

FileChunks(merge) == IF merge THEN MergeSameKind(Walk) ELSE Walk

ChunkerInit == file \in Files /\ chunks = <<>>

ChunkFile ==
  /\ \E merge \in Merges : chunks' = FileChunks(merge)
  /\ UNCHANGED file
=============================================================================
