-------------------------------- MODULE Gold --------------------------------
(***************************************************************************)
(* The gold spans of generated tasks and the recall they are scored with:  *)
(* ParsePython's symbols, the symbols a patch's hunk headers name, and     *)
(* whether the chunks retrieved overlap their spans.                       *)
(***************************************************************************)
EXTENDS Chunker

SymbolOf(u, kind) ==
  [name |-> file[u.def].name, kind |-> kind, start |-> u.first, end |-> u.last]

Assigned(u) == SymbolOf(u, "variable")

(* A function, or a class with the methods and classes in it, or an        *)
(* assignment of the module: the symbols of the unit that begins at line i.*)
SymbolsOf[i \in 1 .. Len(file)] ==
  LET u == Unit(i)
  IN  IF What(u) = "class" THEN
        {SymbolOf(u, "class")} \union UNION {SymbolsOf[m.first] : m \in ToSet(Members(u))}
      ELSE IF What(u) = "def" THEN
        {SymbolOf(u, IF InClass(u) THEN "method" ELSE "function")}
      ELSE IF What(u) = "assign" /\ ~ InClass(u) THEN {Assigned(u)}
      ELSE {}

Symbols == UNION {SymbolsOf[u.first] : u \in ToSet(Units(1, Len(file)))}

(* The names a hunk header may carry: those of any enclosing definition.   *)
HunkSymbols == {file[i].name : i \in {j \in 1 .. Len(file) :
                                        file[j].what \in {"def", "class"}}}

Span(s) == [start |-> s.start, end |-> s.end]
GoldFromPatch(wants) == {Span(s) : s \in {t \in Symbols : t.name \in wants}}

GoldHit(g, retrieved) ==
  \E c \in retrieved : c.start <= g.end /\ g.start <= c.end

Recall(gold, retrieved) ==
  [hits |-> Cardinality({g \in gold : GoldHit(g, retrieved)}),
   of |-> Cardinality(gold)]
=============================================================================
