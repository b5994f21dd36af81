---------------------------- MODULE MCCompressor ----------------------------
(***************************************************************************)
(* A single pass over every history of up to three rounds: an action and   *)
(* one or two observations each, small or large, some already summarized   *)
(* or dropped by an earlier pass.                                          *)
(***************************************************************************)
EXTENDS Compressor

CONSTANT MaxRounds

Said(role) == [role |-> role, form |-> "orig", size |-> 1, compressed |-> FALSE]

Observed ==
  {[role |-> "tool", form |-> "orig", size |-> n, compressed |-> FALSE] : n \in {1, 5}}
  \union {[role |-> "tool", form |-> "orig", size |-> 5, compressed |-> TRUE],
          [role |-> "tool", form |-> "summary", size |-> 2, compressed |-> TRUE],
          [role |-> "tool", form |-> "marker", size |-> MarkerTokens, compressed |-> TRUE]}

Fresh == {t \in Observed : t.form = "orig" /\ ~ t.compressed}

Round(S) == {<<Said("assistant"), a>> : a \in S}
              \union {<<Said("assistant"), a, b>> : a, b \in S}

(* Rounds that passes have been over, then the last one, which is fresh.   *)
Older[n \in 0 .. MaxRounds] ==
  IF n = 0 THEN {<<Said("user")>>}
  ELSE {h \o r : h \in Older[n - 1], r \in Round(Observed)}

Histories == {h \o r : h \in Older[MaxRounds - 1], r \in Round(Fresh)}

Init == history \in Histories /\ PassInit

Spec == Init /\ [][Pass]_vars
=============================================================================
