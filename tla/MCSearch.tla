------------------------------ MODULE MCSearch ------------------------------
(***************************************************************************)
(* Files of one or two of these pieces: functions of every size, with      *)
(* docstrings, decorators and inner functions, classes, nested classes,    *)
(* assignments and definitions inside other statements.                    *)
(***************************************************************************)
EXTENDS Search

Text(depth) == [depth |-> depth, what |-> "text", name |-> "-"]
Of(depth, what) == [depth |-> depth, what |-> what, name |-> "-"]
Def(depth, name) == [depth |-> depth, what |-> "def", name |-> name]
Class(depth, name) == [depth |-> depth, what |-> "class", name |-> name]
Assign(depth, name) == [depth |-> depth, what |-> "assign", name |-> name]

Pieces == {
  <<Def(0, "f"), Text(1)>>,
  <<Of(0, "deco"), Def(0, "g"), Of(1, "doc"), Text(2), Text(1), Text(1)>>,
  <<Def(0, "g"), Text(1), Text(2), Text(2), Text(1), Assign(1, "x")>>,
  <<Def(0, "f"), Def(1, "in"), Text(2), Text(1), Text(1)>>,
  <<Assign(0, "f")>>,
  <<Text(0), Def(1, "f"), Text(2)>>,
  <<Class(0, "C"), Of(1, "doc"), Text(2), Assign(1, "x"), Def(1, "m"), Text(2)>>,
  <<Of(0, "deco"), Class(0, "C"), Def(1, "m"), Text(2), Text(1),
    Of(1, "deco"), Def(1, "f"), Of(2, "doc"), Text(2)>>,
  <<Class(0, "C"), Def(1, "m"), Text(2), Class(1, "D"), Def(2, "m"), Text(3),
    Def(1, "n"), Text(2)>>}

MCFiles == Pieces \union {p \o q : p, q \in Pieces}

MCCost == [what \in Whats |-> CASE what \in {"def", "class"} -> 1
                                [] what = "assign" -> 6
                                [] OTHER -> 2]
=============================================================================
