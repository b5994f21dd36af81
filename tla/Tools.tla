------------------------------- MODULE Tools --------------------------------
(***************************************************************************)
(* read_file: the span of lines one call returns.                          *)
(***************************************************************************)
EXTENDS Integers

CONSTANT MaxLines  \* readFileTool.maxLines

ASSUME ToolsAssumption == MaxLines \in Nat \ {0}

(* The first of three aliases that is set.                                 *)
FirstPositive(a) ==
  IF a[1] > 0 THEN a[1] ELSE IF a[2] > 0 THEN a[2]
  ELSE IF a[3] > 0 THEN a[3] ELSE 0

Least(a, b) == IF a <= b THEN a ELSE b
Most(a, b) == IF a >= b THEN a ELSE b

StartLine(starts) == Most(FirstPositive(starts), 1)

(* No end given: a window of MaxLines from the start.                      *)
EndAsked(starts, ends) ==
  IF FirstPositive(ends) <= 0 THEN StartLine(starts) + MaxLines - 1
  ELSE FirstPositive(ends)

EndLine(starts, ends, lines) ==
  LET start == StartLine(starts)
      inFile == Least(EndAsked(starts, ends), lines)
  IN  Least(Most(inFile, start), start + MaxLines - 1)

PastEOF(starts, lines) == StartLine(starts) > lines
=============================================================================
