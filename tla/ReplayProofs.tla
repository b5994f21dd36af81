---------------------------- MODULE ReplayProofs ----------------------------
(***************************************************************************)
(* The replay of a recorded run is the live loop over again, for any       *)
(* budget, sizes, calls and summaries; and what the baseline pays.         *)
(*                                                                         *)
(* The folds of the replay are taken apart into their steps: r[k] is the   *)
(* state after message k, p[i] the one after the first loop has been at    *)
(* turn i, d[i] the same for the second.  A summarizer is a function q of  *)
(* the turn and its size; the invariant speaks of every q that agrees with *)
(* what the live summarizer has said so far, hence also of the one that    *)
(* the finished recording gives.                                           *)
(***************************************************************************)
EXTENDS Replay, AgentLoopProofs

Summarizer == [Nat \X Nat -> Nat]

(* Turn as[k] is always given the summary the live run made of it, ss[k].  *)
Agrees(q, as, ss) ==
  \A k \in DOMAIN ss : k \in DOMAIN as /\ \A z \in Nat : q[<<as[k], z>>] = ss[k]

(* SummarizeTurn with the summarizer q.                                    *)
Condense(q, s, i) ==
  IF Pass!OverBudget(s.turns) /\ i \in Pass!Summarizable(s.turns)
  THEN LET n == q[<<i, s.turns[i].size>>]
           condensed == [s.turns EXCEPT ![i].form = "summary", ![i].size = n]
       IN  State([(IF n < s.turns[i].size THEN condensed ELSE s.turns)
                    EXCEPT ![i].compressed = TRUE],
                 Append(s.charged, i))
  ELSE s

Condenses(q, s, p, n) == p[0] = s /\ \A i \in 1 .. n : p[i] = Condense(q, p[i - 1], i)
Drops(s, d, n) == d[0] = s /\ \A i \in 1 .. n : d[i] = DropTurn(d[i - 1], i)

(* A pass over s ends with t.                                              *)
Ends(q, s, t) ==
  IF Budget = 0 THEN t = s
  ELSE \E p, d : /\ Condenses(q, s, p, Len(s.turns))
                 /\ Drops(p[Len(s.turns)], d, Len(s.turns))
                 /\ t = d[Len(s.turns)]

Grown(ms, s, k) == State(Append(s.turns, TurnsOf(ms)[k]), s.charged)

PromptsAfter(ms, r, k) ==
  IF ms[k].role = "assistant" THEN Append(r.prompts, Blocks(r.state.turns)) ELSE r.prompts

Nothing == [prompts |-> <<>>, state |-> State(<<>>, <<>>)]

(* The first m messages of ms are replayed, in the arm c.                  *)
Replays(q, c, ms, r, m) ==
  /\ r[0] = Nothing
  /\ \A k \in 1 .. m :
       /\ r[k].prompts = PromptsAfter(ms, r[k - 1], k)
       /\ IF c /\ RoundEnds(ms, k)
          THEN Ends(q, Grown(ms, r[k - 1].state, k), r[k].state)
          ELSE r[k].state = Grown(ms, r[k - 1].state, k)

-----------------------------------------------------------------------------
(* The invariant                                                           *)

(* The messages are those of the history, as they came: the goal, and the  *)
(* model's before a round can end.                                         *)
RecordedInv ==
  /\ recorded \in Seq(Message) /\ Len(recorded) = Len(msgs)
  /\ \A k \in 1 .. Len(msgs) :
       recorded[k].role = msgs[k].role /\ (recorded[k].role = "user" <=> k = 1)
  /\ pc \in {"calls", "compress"} \/ (pc = "done" /\ stop # "error") =>
       \E k \in 1 .. Len(msgs) : recorded[k].role = "assistant"
  /\ pc = "compress" => compressing

SaidInv ==
  /\ said \in Seq(Nat) /\ Len(said) <= Len(asked)
  /\ phase # "failed" /\ (pc = "done" => stop # "error") => Len(said) = Len(asked)

(* The pass of the live loop and that of the replay, which begins with s.  *)
Along(q, s) ==
  /\ s.turns = TurnsOf(msgs)
  /\ phase = "idle" => s = State(TurnsOf(msgs), asked)
  /\ phase = "summarize" =>
       /\ Budget # 0
       /\ \A p : Condenses(q, s, p, Len(msgs)) =>
            \E i \in 0 .. Len(msgs) :
              p[i] = State(work, asked) /\ \A j \in 1 .. i : j \notin Pass!Summarizable(work)
  /\ phase = "drop" =>
       /\ Budget # 0
       /\ \A p, d : Condenses(q, s, p, Len(msgs)) /\ Drops(p[Len(msgs)], d, Len(msgs)) =>
            \E i \in 0 .. Len(msgs) :
              d[i] = State(work, asked) /\ \A j \in 1 .. i : j \notin Pass!Droppable(work)
  /\ phase = "done" => \A t : Ends(q, s, t) => t = State(work, asked)

(* Between two rounds the replay is where the live loop is; during a round *)
(* it is once it has added the last message; and in the end it has sent    *)
(* the same prompts and charged what the live loop asked for.              *)
Follows(q) ==
  LET m == Len(recorded) IN
  /\ pc = "generate" =>
       \A r : Replays(q, compressing, recorded, r, m) =>
         r[m].prompts = sent /\ r[m].state = State(TurnsOf(msgs), asked)
  /\ pc \in {"calls", "compress"} =>
       \A r : Replays(q, compressing, recorded, r, m - 1) =>
         /\ PromptsAfter(recorded, r[m - 1], m) = sent
         /\ \A s : s = Grown(recorded, r[m - 1].state, m) => Along(q, s)
  /\ pc = "done" /\ stop # "error" =>
       \A r : Replays(q, compressing, recorded, r, m) =>
         r[m].prompts = sent /\ IsPrefix(asked, r[m].state.charged)

ReplayInv ==
  /\ IInv /\ RecordedInv /\ SaidInv
  /\ \A q \in Summarizer : Agrees(q, asked, said) => Follows(q)

-----------------------------------------------------------------------------
(* The steps of a pass                                                     *)

LEMMA StateParts ==
  ASSUME NEW t, NEW c
  PROVE  State(t, c).turns = t /\ State(t, c).charged = c
BY DEF State

LEMMA SameState ==
  ASSUME NEW t, NEW c, NEW u, NEW e, t = u, c = e
  PROVE  State(t, c) = State(u, e)
OBVIOUS

(* A loop that finds nothing to do at the turns after i ends as it is.     *)
LEMMA CondenseRests ==
  ASSUME NEW q, NEW s, NEW p, NEW n \in Nat, Condenses(q, s, p, n),
         NEW i \in 0 .. n, NEW l \in i .. n, NEW x, p[i] = x,
         ~ Pass!OverBudget(x.turns) \/ \A j \in i + 1 .. l : j \notin Pass!Summarizable(x.turns)
  PROVE  p[l] = x
<1> DEFINE N == {k \in Nat : i + k <= l => p[i + k] = x}
<1>1. 0 \in N
  OBVIOUS
<1>2. ASSUME NEW k \in Nat, k \in N
      PROVE  k + 1 \in N
  <2> SUFFICES ASSUME i + (k + 1) <= l
               PROVE  p[i + (k + 1)] = x
    OBVIOUS
  <2> DEFINE j == i + (k + 1)
  <2>1. j \in 1 .. n /\ j \in i + 1 .. l /\ j - 1 = i + k /\ i + k <= l
    OBVIOUS
  <2>2. p[j - 1] = x
    BY <1>2, <2>1
  <2> HIDE DEF j, N
  <2>3. p[j] = Condense(q, x, j)
    BY <2>1, <2>2 DEF Condenses
  <2> QED
    BY <2>1, <2>3 DEF Condense, j
<1>3. Nat \subseteq N
  <2> HIDE DEF N
  <2> QED
    BY <1>1, <1>2, NatSet
<1>4. l - i \in Nat /\ i + (l - i) = l
  OBVIOUS
<1> QED
  BY <1>3, <1>4

LEMMA DropRests ==
  ASSUME NEW s, NEW d, NEW n \in Nat, Drops(s, d, n),
         NEW i \in 0 .. n, NEW l \in i .. n, NEW x, d[i] = x,
         ~ Pass!OverBudget(x.turns) \/ \A j \in i + 1 .. l : j \notin Pass!Droppable(x.turns)
  PROVE  d[l] = x
<1> DEFINE N == {k \in Nat : i + k <= l => d[i + k] = x}
<1>1. 0 \in N
  OBVIOUS
<1>2. ASSUME NEW k \in Nat, k \in N
      PROVE  k + 1 \in N
  <2> SUFFICES ASSUME i + (k + 1) <= l
               PROVE  d[i + (k + 1)] = x
    OBVIOUS
  <2> DEFINE j == i + (k + 1)
  <2>1. j \in 1 .. n /\ j \in i + 1 .. l /\ j - 1 = i + k /\ i + k <= l
    OBVIOUS
  <2>2. d[j - 1] = x
    BY <1>2, <2>1
  <2> HIDE DEF j, N
  <2>3. d[j] = DropTurn(x, j)
    BY <2>1, <2>2 DEF Drops
  <2> QED
    BY <2>1, <2>3 DEF DropTurn, j
<1>3. Nat \subseteq N
  <2> HIDE DEF N
  <2> QED
    BY <1>1, <1>2, NatSet
<1>4. l - i \in Nat /\ i + (l - i) = l
  OBVIOUS
<1> QED
  BY <1>3, <1>4

(* The replay's loop arrives at the turn the live one takes next.          *)
LEMMA CondenseOldest ==
  ASSUME NEW q, NEW s, NEW p, NEW n \in Nat, Condenses(q, s, p, n),
         NEW w, NEW c, DOMAIN w = 1 .. n, NEW i \in 0 .. n, p[i] = State(w, c),
         \A j \in 1 .. i : j \notin Pass!Summarizable(w),
         NEW o \in Pass!Summarizable(w), \A j \in Pass!Summarizable(w) : o <= j
  PROVE  o \in 1 .. n /\ p[o] = Condense(q, State(w, c), o)
<1>1. o \in 1 .. n /\ i < o
  BY DEF Pass!Summarizable, Pass!Observations
<1>2. o - 1 \in i .. n /\ \A j \in i + 1 .. o - 1 : j \notin Pass!Summarizable(w)
  BY <1>1
<1>3. p[o - 1] = State(w, c)
  BY <1>2, CondenseRests, StateParts
<1> QED
  BY <1>1, <1>3 DEF Condenses

LEMMA DropTheOldest ==
  ASSUME NEW s, NEW d, NEW n \in Nat, Drops(s, d, n),
         NEW w, NEW c, DOMAIN w = 1 .. n, NEW i \in 0 .. n, d[i] = State(w, c),
         \A j \in 1 .. i : j \notin Pass!Droppable(w),
         NEW o \in Pass!Droppable(w), \A j \in Pass!Droppable(w) : o <= j
  PROVE  o \in 1 .. n /\ d[o] = DropTurn(State(w, c), o)
<1>1. o \in 1 .. n /\ i < o
  BY DEF Pass!Droppable, Pass!Observations
<1>2. o - 1 \in i .. n /\ \A j \in i + 1 .. o - 1 : j \notin Pass!Droppable(w)
  BY <1>1
<1>3. d[o - 1] = State(w, c)
  BY <1>2, DropRests, StateParts
<1> QED
  BY <1>1, <1>3 DEF Drops

(* What a turn of either loop leaves to be done.                           *)
LEMMA Shrinks ==
  ASSUME NEW n \in Nat, NEW w, NEW v, DOMAIN w = 1 .. n, DOMAIN v = 1 .. n,
         \A j \in 1 .. n : v[j].role = w[j].role,
         NEW o \in 1 .. n, \A j \in 1 .. n : j # o => v[j] = w[j]
  PROVE  /\ v[o].compressed => Pass!Summarizable(v) \subseteq Pass!Summarizable(w) \ {o}
         /\ v[o].form = "marker" => Pass!Droppable(v) \subseteq Pass!Droppable(w) \ {o}
<1>1. Pass!Protected(v) = Pass!Protected(w)
  BY ProtectedByRole
<1>2. \A j \in Pass!Observations(v) :
        /\ j \in 1 .. n /\ v[j].form # "marker"
        /\ j # o => j \in Pass!Observations(w)
  BY <1>1 DEF Pass!Observations
<1>3. \A j \in Pass!Observations(w) : j \in 1 .. n
  BY DEF Pass!Observations
<1>4. v[o].form = "marker" => Pass!Droppable(v) \subseteq Pass!Droppable(w) \ {o}
  BY <1>2, <1>3 DEF Pass!Droppable
<1>5. ASSUME v[o].compressed, NEW j \in Pass!Summarizable(v)
      PROVE  j \in Pass!Summarizable(w) /\ j # o
  <2>1. j \in Pass!Observations(v) /\ ~ v[j].compressed
    BY DEF Pass!Summarizable
  <2>2. j # o /\ j \in Pass!Observations(w) /\ v[j] = w[j]
    BY <1>2, <1>5, <2>1
  <2> QED
    BY <2>2 DEF Pass!Summarizable
<1> QED
  BY <1>4, <1>5

(* What the pass works on.                                                 *)
LEMMA WorkFacts ==
  ASSUME IInv, phase \in {"summarize", "drop", "done"}
  PROVE  /\ work \in Seq(Pass!Turn) /\ Len(work) = Len(msgs) /\ Len(msgs) \in Nat
         /\ DOMAIN work = 1 .. Len(msgs) /\ DOMAIN msgs = 1 .. Len(msgs)
         /\ Len(TurnsOf(msgs)) = Len(msgs) /\ DOMAIN TurnsOf(msgs) = 1 .. Len(msgs)
         /\ \A i \in 1 .. Len(msgs) : work[i].role = msgs[i].role
<1>1. work \in Seq(Pass!Turn) /\ msgs \in Seq(Message)
  BY DEF IInv, TypeOK, Pass!PassVarsOK
<1>2. Len(work) = Len(msgs) /\ \A i \in DOMAIN msgs : work[i].role = msgs[i].role
  BY DEF IInv, CopyOfHistory, Pass!Working
<1> QED
  BY <1>1, <1>2, Turns

(* What the live loop makes of turn o, and what the replay does.           *)
Summed(w, o, n, v) ==
  IF n < w[o].size
  THEN v = [w EXCEPT ![o].compressed = TRUE, ![o].form = "summary", ![o].size = n]
  ELSE v = [w EXCEPT ![o].compressed = TRUE]

Resummed(w, o, kept) ==
  [(IF kept < w[o].size THEN [w EXCEPT ![o].form = "summary", ![o].size = kept] ELSE w)
     EXCEPT ![o].compressed = TRUE]

(* The summary the replay makes is the one the live loop made.             *)
LEMMA SameSummary ==
  ASSUME NEW w \in Seq(Pass!Turn), NEW o \in DOMAIN w, NEW n \in Nat, NEW v,
         Summed(w, o, n, v), NEW kept, kept = v[o].size
  PROVE  /\ v = Resummed(w, o, kept)
         /\ v \in Seq(Pass!Turn) /\ Len(v) = Len(w) /\ DOMAIN v = DOMAIN w
         /\ v[o].compressed /\ v[o].size \in Nat
         /\ \A j \in DOMAIN w : v[j].role = w[j].role
         /\ \A j \in DOMAIN w : j # o => v[j] = w[j]
<1>1. w[o] \in Pass!Turn /\ w[o].size \in Nat
  <2>1. w[o] \in Pass!Turn
    OBVIOUS
  <2> QED
    BY <2>1 DEF Pass!Turn
<1>2. CASE n < w[o].size
  <2>1. kept = n
    <3>1. v[o] = [w[o] EXCEPT !.compressed = TRUE, !.form = "summary", !.size = n]
      BY <1>2 DEF Summed
    <3> QED
      BY <1>1, <3>1 DEF Pass!Turn
  <2>2. v = Resummed(w, o, kept)
    BY <1>1, <1>2, <2>1 DEF Pass!Turn, Summed, Resummed
  <2>3. v[o] = [w[o] EXCEPT !.compressed = TRUE, !.form = "summary", !.size = n]
    BY <1>2 DEF Summed
  <2>4. v = [w EXCEPT ![o] = v[o]]
    BY <1>2 DEF Summed
  <2>5. v[o] \in Pass!Turn /\ v[o].role = w[o].role /\ v[o].compressed /\ v[o].size \in Nat
    BY <1>1, <2>3 DEF Pass!Turn, Pass!Form
  <2>6. v \in Seq(Pass!Turn) /\ Len(v) = Len(w) /\ DOMAIN v = DOMAIN w
    BY <2>4, <2>5
  <2>7. \A j \in DOMAIN w : j # o => v[j] = w[j]
    BY <2>4
  <2> QED
    BY <1>2, <2>1, <2>2, <2>5, <2>6, <2>7
<1>3. CASE ~ n < w[o].size
  <2>1. v = [w EXCEPT ![o].compressed = TRUE]
    BY <1>3 DEF Summed
  <2>2. kept = w[o].size
    BY <1>1, <2>1 DEF Pass!Turn
  <2>3. v[o] = [w[o] EXCEPT !.compressed = TRUE]
    BY <2>1
  <2>4. v = [w EXCEPT ![o] = v[o]]
    BY <2>1
  <2>5. v[o] \in Pass!Turn /\ v[o].role = w[o].role /\ v[o].compressed /\ v[o].size \in Nat
    BY <1>1, <2>3 DEF Pass!Turn
  <2>6. v \in Seq(Pass!Turn) /\ Len(v) = Len(w) /\ DOMAIN v = DOMAIN w
    BY <2>4, <2>5
  <2>7. \A j \in DOMAIN w : j # o => v[j] = w[j]
    BY <2>4
  <2>8. ~ (kept < w[o].size)
    BY <1>1, <2>2
  <2>9. v = Resummed(w, o, kept)
    BY <2>1, <2>8 DEF Resummed
  <2> QED
    BY <2>5, <2>6, <2>7, <2>9
<1> QED
  BY <1>2, <1>3

-----------------------------------------------------------------------------
(* A pass of the live loop, with that of the replay                        *)

LEMMA BeginAlong ==
  ASSUME IInv, CompressStep, Pass!Begin, NEW q, NEW s, Along(q, s)
  PROVE  Along(q, s)'
<1> DEFINE n == Len(msgs)
<1>1. /\ UNCHANGED <<msgs, asked>> /\ TurnsOf(msgs)' = TurnsOf(msgs) /\ phase = "idle"
      /\ work' = TurnsOf(msgs) /\ n' = n
      /\ phase' = IF Budget = 0 \/ ~ Pass!OverBudget(TurnsOf(msgs)) THEN "done" ELSE "summarize"
  BY PassFrame DEF Pass!Begin
<1>2. s = State(TurnsOf(msgs), asked) /\ s.turns = TurnsOf(msgs)
  BY <1>1 DEF Along
<1>3. n \in Nat /\ Len(s.turns) = n
  BY <1>2, Turns DEF IInv, TypeOK
<1>4. s = State(work, asked)'
  BY <1>1, <1>2
<1>5. ASSUME phase' = "summarize", NEW p, Condenses(q, s, p, n)
      PROVE  \E i \in 0 .. n : p[i] = State(work, asked)' /\ \A j \in 1 .. i : j \notin Pass!Summarizable(work')
  <2>1. 0 \in 0 .. n /\ p[0] = State(work, asked)' /\ 1 .. 0 = {}
    BY <1>3, <1>4, <1>5 DEF Condenses
  <2> QED
    BY <2>1
<1>6. ASSUME phase' = "done", NEW t, Ends(q, s, t)
      PROVE  t = s
  <2>1. CASE Budget = 0
    BY <1>6, <2>1 DEF Ends
  <2>2. CASE Budget # 0
    <3>1. ~ Pass!OverBudget(s.turns)
      BY <1>1, <1>2, <1>6, <2>2
    <3>2. PICK p, d : Condenses(q, s, p, n) /\ Drops(p[n], d, n) /\ t = d[n]
      BY <1>3, <1>6, <2>2 DEF Ends
    <3>3. 0 \in 0 .. n /\ n \in 0 .. n /\ p[0] = s /\ d[0] = p[n]
      BY <1>3, <3>2 DEF Condenses, Drops
    <3>4. p[n] = s
      BY <1>3, <3>1, <3>2, <3>3, CondenseRests
    <3>5. d[n] = s
      BY <1>3, <3>1, <3>2, <3>3, <3>4, DropRests
    <3> QED
      BY <3>2, <3>5
  <2> QED
    BY <2>1, <2>2
<1>7. phase' = "summarize" => Budget # 0
  BY <1>1
<1> QED
  BY <1>1, <1>2, <1>4, <1>5, <1>6, <1>7 DEF Along

LEMMA SummarizeAlong ==
  ASSUME IInv, CompressStep, NEW m \in SummaryTokens, Pass!SummarizeOldest(m), Remember,
         Len(said) = Len(asked), said \in Seq(Nat),
         NEW q, Agrees(q, asked, said)', NEW s, Along(q, s)
  PROVE  Along(q, s)'
<1> DEFINE n == Len(msgs)
           o == Pass!Oldest(Pass!Summarizable(work))
<1>1. /\ UNCHANGED <<msgs, phase>> /\ TurnsOf(msgs)' = TurnsOf(msgs) /\ phase = "summarize"
      /\ Pass!OverBudget(work) /\ Pass!Summarizable(work) # {}
      /\ asked' = Append(asked, o) /\ n' = n
      /\ Summed(work, o, m, work')
  BY PassFrame DEF Pass!SummarizeOldest, Summed
<1>2. /\ work \in Seq(Pass!Turn) /\ Len(work) = n /\ n \in Nat /\ DOMAIN work = 1 .. n
  BY <1>1, WorkFacts
<1>3. o \in Pass!Summarizable(work) /\ \A j \in Pass!Summarizable(work) : o <= j
  <2>1. Pass!Summarizable(work) \subseteq Nat
    BY <1>2 DEF Pass!Summarizable, Pass!Observations
  <2> QED
    BY <1>1, <2>1, OldestIsLeast
<1>4. o \in DOMAIN work
  BY <1>3 DEF Pass!Summarizable, Pass!Observations
<1> HIDE DEF o
<1>5. m \in Nat /\ asked \in Seq(Nat)
  BY LoopAssumption DEF IInv, TypeOK, Pass!PassVarsOK
<1> DEFINE kept == work'[o].size
<1>6. Kept = kept /\ asked'[Len(asked')] = o /\ Len(asked') = Len(asked) + 1
  BY <1>1, <1>5 DEF Kept
<1>7. said' = Append(said, kept)
  BY <1>1, <1>5, <1>6 DEF Remember
<1>8. /\ work' = Resummed(work, o, kept)
      /\ work' \in Seq(Pass!Turn) /\ Len(work') = Len(work) /\ DOMAIN work' = DOMAIN work
      /\ work'[o].compressed /\ kept \in Nat
      /\ \A j \in DOMAIN work : work'[j].role = work[j].role
      /\ \A j \in DOMAIN work : j # o => work'[j] = work[j]
  <2>1. kept = work'[o].size
    OBVIOUS
  <2> HIDE DEF kept
  <2>2. /\ work \in Seq(Pass!Turn) /\ o \in DOMAIN work /\ m \in Nat
        /\ Summed(work, o, m, work')
    BY <1>1, <1>2, <1>4, <1>5
  <2> QED
    BY ONLY <2>1, <2>2, SameSummary
<1> HIDE DEF kept
<1>9. q[<<o, work[o].size>>] = kept
  <2>1. Len(said') \in DOMAIN said' /\ Len(said') = Len(asked') /\ said'[Len(said')] = kept
    BY <1>6, <1>7, <1>8
  <2>2. work[o].size \in Nat
    <3>1. work[o] \in Pass!Turn
      BY <1>2, <1>4
    <3> QED
      BY <3>1 DEF Pass!Turn
  <2>3. \A k \in DOMAIN said' : \A z \in Nat : q[<<asked'[k], z>>] = said'[k]
    BY DEF Agrees
  <2> QED
    BY <1>6, <2>1, <2>2, <2>3
<1>10. Condense(q, State(work, asked), o) = State(work', asked')
  <2>1. /\ Pass!OverBudget(State(work, asked).turns)
        /\ o \in Pass!Summarizable(State(work, asked).turns)
        /\ State(work, asked).turns = work /\ State(work, asked).charged = asked
    BY <1>1, <1>3, StateParts
  <2>2. Condense(q, State(work, asked), o) =
          State(Resummed(work, o, kept), Append(asked, o))
    BY <1>9, <2>1 DEF Condense, Resummed
  <2> QED
    BY <1>1, <1>8, <2>2
<1>11. Pass!Summarizable(work') \subseteq Pass!Summarizable(work) \ {o}
  <2>1. /\ o \in 1 .. n /\ n \in Nat /\ DOMAIN work = 1 .. n /\ DOMAIN work' = 1 .. n
        /\ \A j \in 1 .. n : work'[j].role = work[j].role
        /\ \A j \in 1 .. n : j # o => work'[j] = work[j]
        /\ work'[o].compressed
    BY <1>2, <1>4, <1>8
  <2> HIDE DEF n
  <2> QED
    BY ONLY <2>1, Shrinks
<1>12. ASSUME NEW p, Condenses(q, s, p, n)
       PROVE  \E i \in 0 .. n : p[i] = State(work', asked') /\ \A j \in 1 .. i : j \notin Pass!Summarizable(work')
  <2>1. PICK i \in 0 .. n : p[i] = State(work, asked) /\ \A j \in 1 .. i : j \notin Pass!Summarizable(work)
    BY <1>1, <1>12 DEF Along
  <2>2. o \in 1 .. n /\ p[o] = State(work', asked')
    BY <1>2, <1>3, <1>10, <1>12, <2>1, CondenseOldest
  <2>3. \A j \in 1 .. o : j \notin Pass!Summarizable(work')
    BY <1>3, <1>11, <2>2
  <2> QED
    BY <2>2, <2>3
<1>13. s.turns = TurnsOf(msgs) /\ Budget # 0
  BY <1>1 DEF Along
<1> QED
  BY <1>1, <1>12, <1>13 DEF Along

LEMMA StopAlong ==
  ASSUME IInv, CompressStep, Pass!StopSummarizing, NEW q, NEW s, Along(q, s)
  PROVE  Along(q, s)'
<1> DEFINE n == Len(msgs)
<1>1. /\ UNCHANGED <<msgs, work, asked>> /\ TurnsOf(msgs)' = TurnsOf(msgs) /\ n' = n
      /\ phase = "summarize" /\ phase' = "drop"
      /\ ~ Pass!OverBudget(work) \/ Pass!Summarizable(work) = {}
  BY PassFrame DEF Pass!StopSummarizing
<1>2. n \in Nat
  BY <1>1, WorkFacts
<1>3. ASSUME NEW p, NEW d, Condenses(q, s, p, n), Drops(p[n], d, n)
      PROVE  \E i \in 0 .. n : d[i] = State(work, asked) /\ \A j \in 1 .. i : j \notin Pass!Droppable(work)
  <2>1. PICK i \in 0 .. n : p[i] = State(work, asked)
    BY <1>1, <1>3 DEF Along
  <2>2. n \in i .. n
    BY <1>2
  <2>3. p[n] = State(work, asked)
    BY <1>1, <1>2, <1>3, <2>1, <2>2, CondenseRests, StateParts
  <2>4. 0 \in 0 .. n /\ d[0] = State(work, asked) /\ 1 .. 0 = {}
    BY <1>2, <1>3, <2>3 DEF Drops
  <2> QED
    BY <2>4
<1>4. s.turns = TurnsOf(msgs) /\ Budget # 0
  BY <1>1 DEF Along
<1> QED
  BY <1>1, <1>3, <1>4 DEF Along

LEMMA DropAlong ==
  ASSUME IInv, CompressStep, Pass!DropOldest, NEW q, NEW s, Along(q, s)
  PROVE  Along(q, s)'
<1> DEFINE n == Len(msgs)
           o == Pass!Oldest(Pass!Droppable(work))
<1>1. /\ UNCHANGED <<msgs, phase, asked>> /\ TurnsOf(msgs)' = TurnsOf(msgs) /\ phase = "drop"
      /\ Pass!OverBudget(work) /\ Pass!Droppable(work) # {} /\ n' = n
      /\ work' = [work EXCEPT ![o].form = "marker", ![o].size = MarkerTokens]
  BY PassFrame DEF Pass!DropOldest
<1>2. /\ work \in Seq(Pass!Turn) /\ n \in Nat /\ DOMAIN work = 1 .. n
  BY <1>1, WorkFacts
<1>3. o \in Pass!Droppable(work) /\ \A j \in Pass!Droppable(work) : o <= j
  <2>1. Pass!Droppable(work) \subseteq Nat
    BY <1>2 DEF Pass!Droppable, Pass!Observations
  <2> QED
    BY <1>1, <2>1, OldestIsLeast
<1>4. o \in DOMAIN work
  BY <1>3 DEF Pass!Droppable, Pass!Observations
<1> HIDE DEF o
<1>5. work[o] \in Pass!Turn
  BY <1>2, <1>4
<1>6. work'[o] = [work[o] EXCEPT !.form = "marker", !.size = MarkerTokens]
      /\ DOMAIN work' = 1 .. n /\ \A j \in 1 .. n : j # o => work'[j] = work[j]
  BY <1>1, <1>2, <1>4
<1>7. work'[o].form = "marker" /\ work'[o].role = work[o].role
  BY <1>5, <1>6 DEF Pass!Turn
<1>8. Pass!Droppable(work') \subseteq Pass!Droppable(work) \ {o}
  <2>1. \A j \in 1 .. n : work'[j].role = work[j].role
    BY <1>6, <1>7
  <2> QED
    BY <1>2, <1>4, <1>6, <1>7, <2>1, Shrinks
<1>9. DropTurn(State(work, asked), o) = State(work', asked)
  BY <1>1, <1>3, StateParts DEF DropTurn
<1>10. ASSUME NEW p, NEW d, Condenses(q, s, p, n), Drops(p[n], d, n)
       PROVE  \E i \in 0 .. n : d[i] = State(work', asked) /\ \A j \in 1 .. i : j \notin Pass!Droppable(work')
  <2>1. PICK i \in 0 .. n : d[i] = State(work, asked) /\ \A j \in 1 .. i : j \notin Pass!Droppable(work)
    BY <1>1, <1>10 DEF Along
  <2>2. o \in 1 .. n /\ d[o] = State(work', asked)
    BY <1>2, <1>3, <1>9, <1>10, <2>1, DropTheOldest
  <2>3. \A j \in 1 .. o : j \notin Pass!Droppable(work')
    BY <1>3, <1>8, <2>2
  <2> QED
    BY <2>2, <2>3
<1>11. s.turns = TurnsOf(msgs) /\ Budget # 0
  BY <1>1 DEF Along
<1> QED
  BY <1>1, <1>10, <1>11 DEF Along

LEMMA FinishAlong ==
  ASSUME IInv, CompressStep, Pass!Finish, NEW q, NEW s, Along(q, s)
  PROVE  Along(q, s)'
<1> DEFINE n == Len(msgs)
<1>1. /\ UNCHANGED <<msgs, work, asked>> /\ TurnsOf(msgs)' = TurnsOf(msgs) /\ n' = n
      /\ phase = "drop" /\ phase' = "done"
      /\ ~ Pass!OverBudget(work) \/ Pass!Droppable(work) = {}
  BY PassFrame DEF Pass!Finish
<1>2. n \in Nat /\ s.turns = TurnsOf(msgs) /\ Budget # 0 /\ Len(s.turns) = n
  BY <1>1, WorkFacts DEF Along
<1>3. ASSUME NEW t, Ends(q, s, t)
      PROVE  t = State(work, asked)
  <2>1. PICK p, d : Condenses(q, s, p, n) /\ Drops(p[n], d, n) /\ t = d[n]
    BY <1>2, <1>3 DEF Ends
  <2>2. PICK i \in 0 .. n : d[i] = State(work, asked)
    BY <1>1, <2>1 DEF Along
  <2>3. n \in i .. n
    BY <1>2
  <2>4. d[n] = State(work, asked)
    BY <1>1, <1>2, <2>1, <2>2, <2>3, DropRests, StateParts
  <2> QED
    BY <2>1, <2>4
<1> QED
  BY <1>1, <1>2, <1>3 DEF Along

-----------------------------------------------------------------------------
(* What is charged only grows                                              *)

Extends(c, e) ==
  /\ e \in Seq(Nat) /\ Len(c) <= Len(e)
  /\ \A k \in 1 .. Len(c) : e[k] = c[k]

LEMMA ExtendsPrefix ==
  ASSUME NEW c \in Seq(Nat), NEW e, Extends(c, e)
  PROVE  IsPrefix(c, e)
<1>1. Len(c) \in Nat /\ e \in Seq(Nat) /\ Len(e) \in Nat /\ Len(c) <= Len(e)
  BY DEF Extends
<1>2. SubSeq(c, 1, Len(c)) = SubSeq(e, 1, Len(c))
  BY <1>1 DEF Extends
<1> QED
  BY <1>1, <1>2 DEF IsPrefix

LEMMA CondenseExtends ==
  ASSUME NEW c \in Seq(Nat), NEW q, NEW s, NEW i \in Nat, Extends(c, s.charged)
  PROVE  Extends(c, Condense(q, s, i).charged)
<1>1. Condense(q, s, i).charged \in {s.charged, Append(s.charged, i)}
  <2> DEFINE n == q[<<i, s.turns[i].size>>]
             w == [(IF n < s.turns[i].size
                    THEN [s.turns EXCEPT ![i].form = "summary", ![i].size = n] ELSE s.turns)
                     EXCEPT ![i].compressed = TRUE]
             due == Pass!OverBudget(s.turns) /\ i \in Pass!Summarizable(s.turns)
  <2>1. Condense(q, s, i) = IF due THEN State(w, Append(s.charged, i)) ELSE s
    BY Zenon DEF Condense
  <2> HIDE DEF w, due
  <2>2. State(w, Append(s.charged, i)).charged = Append(s.charged, i)
    BY StateParts, Zenon
  <2>3. CASE due
    BY <2>1, <2>2, <2>3
  <2>4. CASE ~ due
    BY <2>1, <2>4
  <2> QED
    BY <2>3, <2>4
<1>2. s.charged \in Seq(Nat) /\ Len(c) \in Nat
  BY DEF Extends
<1>3. Extends(c, Append(s.charged, i))
  BY <1>2 DEF Extends
<1> QED
  BY <1>1, <1>3

LEMMA DropExtends ==
  ASSUME NEW s, NEW i
  PROVE  DropTurn(s, i).charged = s.charged
BY StateParts DEF DropTurn

LEMMA EndsExtends ==
  ASSUME NEW q, NEW s, NEW t, s.charged \in Seq(Nat), Len(s.turns) \in Nat, Ends(q, s, t)
  PROVE  IsPrefix(s.charged, t.charged)
<1> DEFINE c == s.charged
           n == Len(s.turns)
<1>1. Extends(c, s.charged)
  BY DEF Extends
<1>2. CASE Budget = 0
  BY <1>1, <1>2, ExtendsPrefix DEF Ends
<1>3. CASE Budget # 0
  <2>1. PICK p, d : Condenses(q, s, p, n) /\ Drops(p[n], d, n) /\ t = d[n]
    BY <1>3 DEF Ends
  <2> DEFINE N == {k \in Nat : k <= n => Extends(c, p[k].charged)}
             M == {k \in Nat : k <= n => Extends(c, d[k].charged)}
  <2> HIDE DEF n, c
  <2>2. 0 \in N
    BY <1>1, <2>1 DEF Condenses
  <2>3. ASSUME NEW k \in Nat, k \in N
        PROVE  k + 1 \in N
    <3> SUFFICES ASSUME k + 1 <= n
                 PROVE  Extends(c, p[k + 1].charged)
      OBVIOUS
    <3>1. n \in Nat /\ c \in Seq(Nat)
      BY DEF n, c
    <3>2. k + 1 \in 1 .. n /\ (k + 1) - 1 = k /\ k <= n /\ k + 1 \in Nat
      BY <3>1
    <3>3. p[k + 1] = Condense(q, p[k], k + 1)
      BY <2>1, <3>2 DEF Condenses
    <3> QED
      BY <2>3, <3>1, <3>2, <3>3, CondenseExtends
  <2>4. Nat \subseteq N
    <3> HIDE DEF N
    <3> QED
      BY <2>2, <2>3, NatSet
  <2>5. Extends(c, d[0].charged)
    <3>1. n \in Nat
      BY DEF n
    <3> QED
      BY <2>1, <2>4, <3>1 DEF Drops
  <2>6. ASSUME NEW k \in Nat, k \in M
        PROVE  k + 1 \in M
    <3> SUFFICES ASSUME k + 1 <= n
                 PROVE  Extends(c, d[k + 1].charged)
      OBVIOUS
    <3>1. n \in Nat
      BY DEF n
    <3>2. k + 1 \in 1 .. n /\ (k + 1) - 1 = k /\ k <= n
      BY <3>1
    <3>3. d[k + 1] = DropTurn(d[k], k + 1)
      BY <2>1, <3>2 DEF Drops
    <3> QED
      BY <2>6, <3>2, <3>3, DropExtends
  <2>7. Nat \subseteq M
    <3>1. 0 \in M
      BY <2>5
    <3> HIDE DEF M
    <3> QED
      BY <2>6, <3>1, NatSet
  <2>8. Extends(c, t.charged)
    <3>1. n \in Nat
      BY DEF n
    <3> QED
      BY <2>1, <2>7, <3>1
  <2> QED
    BY <2>8, ExtendsPrefix DEF c
<1> QED
  BY <1>2, <1>3

-----------------------------------------------------------------------------
(* One more message                                                        *)

TurnOf(x) == [role |-> x.role, form |-> x.form, size |-> x.size, compressed |-> x.compressed]

LEMMA TurnsGrow ==
  ASSUME NEW ms \in Seq(Message), NEW x \in Message
  PROVE  /\ TurnsOf(Append(ms, x)) = Append(TurnsOf(ms), TurnOf(x))
         /\ TurnsOf(Append(ms, x))[Len(ms) + 1] = TurnOf(x)
         /\ \A k \in 1 .. Len(ms) : TurnsOf(Append(ms, x))[k] = TurnsOf(ms)[k]
<1> DEFINE a == Append(ms, x)
<1>1. /\ DOMAIN ms = 1 .. Len(ms) /\ Len(ms) \in Nat /\ DOMAIN a = 1 .. (Len(ms) + 1)
      /\ a[Len(ms) + 1] = x /\ \A k \in 1 .. Len(ms) : a[k] = ms[k]
  OBVIOUS
<1> HIDE DEF a
<1>2. TurnsOf(ms) = [k \in 1 .. Len(ms) |-> TurnOf(ms[k])]
  BY <1>1 DEF TurnsOf, TurnOf
<1>3. TurnsOf(a) = [k \in 1 .. Len(ms) + 1 |-> TurnOf(a[k])]
  BY <1>1 DEF TurnsOf, TurnOf
<1>4. Append(TurnsOf(ms), TurnOf(x)) = [k \in 1 .. Len(ms) + 1 |->
                                         IF k <= Len(ms) THEN TurnOf(ms[k]) ELSE TurnOf(x)]
  <2> DEFINE T == {TurnOf(m) : m \in Message}
  <2>1. \A k \in 1 .. Len(ms) : ms[k] \in Message
    BY <1>1
  <2>2. TurnsOf(ms) \in Seq(T) /\ Len(TurnsOf(ms)) = Len(ms) /\ TurnOf(x) \in T
    BY <1>1, <1>2, <2>1
  <2> HIDE DEF T
  <2> QED
    BY <1>1, <1>2, <2>2
<1>5. \A k \in 1 .. Len(ms) + 1 : TurnOf(a[k]) = IF k <= Len(ms) THEN TurnOf(ms[k]) ELSE TurnOf(x)
  BY <1>1
<1>6. TurnsOf(a) = Append(TurnsOf(ms), TurnOf(x))
  BY <1>3, <1>4, <1>5
<1>7. TurnsOf(a)[Len(ms) + 1] = TurnOf(x) /\ \A k \in 1 .. Len(ms) : TurnsOf(a)[k] = TurnsOf(ms)[k]
  BY <1>1, <1>2, <1>3, <1>5
<1> QED
  BY <1>6, <1>7 DEF a

(* What was replayed before is replayed the same, but for whether the last *)
(* message ended a round.                                                  *)
LEMMA ReplaysBefore ==
  ASSUME NEW ms \in Seq(Message), ms # <<>>, NEW x \in Message, NEW q, NEW c, NEW r
  PROVE  LET m == Len(ms)
             more == Append(ms, x)
         IN  /\ Replays(q, c, more, r, m - 1) => Replays(q, c, ms, r, m - 1)
             /\ x.role # "tool" /\ Replays(q, c, more, r, m) => Replays(q, c, ms, r, m)
             /\ PromptsAfter(more, r[m - 1], m) = PromptsAfter(ms, r[m - 1], m)
             /\ \A s : Grown(more, s, m) = Grown(ms, s, m)
<1> DEFINE m == Len(ms)
           more == Append(ms, x)
<1>1. /\ m \in Nat /\ m # 0 /\ Len(more) = m + 1 /\ more[m + 1] = x
      /\ \A k \in 1 .. m : more[k] = ms[k]
  OBVIOUS
<1>2. \A k \in 1 .. m : TurnsOf(more)[k] = TurnsOf(ms)[k]
  BY TurnsGrow
<1> HIDE DEF m, more
<1>3. ASSUME NEW k \in 1 .. m
      PROVE  /\ \A y : PromptsAfter(more, y, k) = PromptsAfter(ms, y, k)
             /\ \A s : Grown(more, s, k) = Grown(ms, s, k)
             /\ k < m \/ x.role # "tool" => RoundEnds(more, k) = RoundEnds(ms, k)
  <2>1. more[k] = ms[k]
    BY <1>1
  <2>2. k < m => k + 1 \in 1 .. m /\ k < m + 1 /\ more[k + 1] = ms[k + 1]
    BY <1>1
  <2>3. ~ (k < m) => k = m
    BY <1>1
  <2>4. (k < m \/ x.role # "tool") => RoundEnds(more, k) = RoundEnds(ms, k)
    BY <1>1, <2>1, <2>2, <2>3 DEF RoundEnds, m
  <2> QED
    BY <1>2, <2>1, <2>4 DEF PromptsAfter, Grown
<1>4. ASSUME NEW l \in 0 .. m, Replays(q, c, more, r, l), l < m \/ x.role # "tool"
      PROVE  Replays(q, c, ms, r, l)
  <2>1. r[0] = Nothing
    BY <1>4 DEF Replays
  <2>2. ASSUME NEW k \in 1 .. l
        PROVE  /\ r[k].prompts = PromptsAfter(ms, r[k - 1], k)
               /\ IF c /\ RoundEnds(ms, k)
                  THEN Ends(q, Grown(ms, r[k - 1].state, k), r[k].state)
                  ELSE r[k].state = Grown(ms, r[k - 1].state, k)
    <3>1. k \in 1 .. m /\ (k < m \/ x.role # "tool")
      BY <1>1, <1>4
    <3>2. /\ r[k].prompts = PromptsAfter(more, r[k - 1], k)
          /\ IF c /\ RoundEnds(more, k)
             THEN Ends(q, Grown(more, r[k - 1].state, k), r[k].state)
             ELSE r[k].state = Grown(more, r[k - 1].state, k)
      BY <1>4 DEF Replays
    <3> QED
      BY <1>3, <3>1, <3>2
  <2> QED
    BY <2>1, <2>2 DEF Replays
<1>5. m - 1 \in 0 .. m /\ m \in 0 .. m /\ m - 1 < m /\ m \in 1 .. m
  BY <1>1
<1>6. /\ PromptsAfter(more, r[m - 1], m) = PromptsAfter(ms, r[m - 1], m)
      /\ \A s : Grown(more, s, m) = Grown(ms, s, m)
  BY <1>3, <1>5
<1> QED
  BY <1>4, <1>5, <1>6 DEF m, more

-----------------------------------------------------------------------------
(* The steps of the loop                                                   *)

LEMMA OneOf ==
  ASSUME NEW ms \in Seq(Message), NEW k \in 1 .. Len(ms)
  PROVE  SubSeq(ms, k, k) = <<ms[k]>>
<1>1. SubSeq(ms, k, k) = [j \in 1 .. 1 |-> ms[k + j - 1]]
  OBVIOUS
<1>2. \A j \in 1 .. 1 : k + j - 1 = k
  OBVIOUS
<1> QED
  BY <1>1, <1>2

LEMMA OneMore ==
  ASSUME NEW ms \in Seq(Message), NEW x \in Message
  PROVE  /\ Append(ms, x) \in Seq(Message) /\ Append(ms, x) # <<>>
         /\ Len(ms) \in Nat /\ Len(Append(ms, x)) = Len(ms) + 1
         /\ Append(ms, x)[Len(ms) + 1] = x /\ (Len(ms) + 1) - 1 = Len(ms)
OBVIOUS

LEMMA RecordNoted ==
  ASSUME RecordedInv, msgs \in Seq(Message), msgs' \in Seq(Message), Remember
  PROVE  /\ Len(msgs') = Len(msgs) => recorded' = recorded
         /\ \A x \in Message : msgs' = Append(msgs, x) => recorded' = Append(recorded, x)
<1> DEFINE m == Len(msgs)
<1>1. /\ recorded \in Seq(Message) /\ Len(recorded) = m /\ m \in Nat
      /\ recorded' = recorded \o SubSeq(msgs', m + 1, Len(msgs'))
  BY DEF RecordedInv, Remember
<1>2. ASSUME Len(msgs') = m
      PROVE  recorded' = recorded
  <2>1. SubSeq(msgs', m + 1, m) = <<>>
    BY <1>1, <1>2
  <2> QED
    BY <1>1, <1>2, <2>1
<1>3. ASSUME NEW x \in Message, msgs' = Append(msgs, x)
      PROVE  recorded' = Append(recorded, x)
  <2>1. Len(msgs') = m + 1 /\ msgs'[m + 1] = x
    BY <1>1, <1>3
  <2>2. SubSeq(msgs', m + 1, m + 1) = <<x>>
    BY <1>1, <2>1, OneOf
  <2>3. recorded \o <<x>> = Append(recorded, x)
    BY <1>1
  <2> QED
    BY <1>1, <2>1, <2>2, <2>3
<1> QED
  BY <1>2, <1>3

(* A recording that ends within a round: the replay adds the last message, *)
(* and perhaps compresses once more.                                       *)
LEMMA RoundAdded ==
  ASSUME NEW q, NEW c, NEW ms \in Seq(Message), ms # <<>>, NEW r,
         Replays(q, c, ms, r, Len(ms))
  PROVE  LET m == Len(ms)
             s == Grown(ms, r[m - 1].state, m)
         IN  /\ Replays(q, c, ms, r, m - 1)
             /\ r[m].prompts = PromptsAfter(ms, r[m - 1], m)
             /\ IF c /\ RoundEnds(ms, m) THEN Ends(q, s, r[m].state) ELSE r[m].state = s
<1> DEFINE m == Len(ms)
<1>1. m \in 1 .. m /\ \A k \in 1 .. m - 1 : k \in 1 .. m
  OBVIOUS
<1> HIDE DEF m
<1> QED
  BY <1>1 DEF Replays, m

LEMMA Concludes ==
  ASSUME NEW q, NEW c, NEW ms \in Seq(Message), ms # <<>>, NEW r,
         Replays(q, c, ms, r, Len(ms)),
         Grown(ms, r[Len(ms) - 1].state, Len(ms)).charged \in Seq(Nat),
         Len(Grown(ms, r[Len(ms) - 1].state, Len(ms)).turns) \in Nat
  PROVE  /\ r[Len(ms)].prompts = PromptsAfter(ms, r[Len(ms) - 1], Len(ms))
         /\ IsPrefix(Grown(ms, r[Len(ms) - 1].state, Len(ms)).charged, r[Len(ms)].state.charged)
<1> DEFINE m == Len(ms)
           s == Grown(ms, r[m - 1].state, m)
<1>1. s.charged \in Seq(Nat) /\ Len(s.turns) \in Nat
  OBVIOUS
<1>2. /\ r[m].prompts = PromptsAfter(ms, r[m - 1], m)
      /\ Ends(q, s, r[m].state) \/ r[m].state = s
  BY RoundAdded
<1> HIDE DEF s
<1>3. CASE Ends(q, s, r[m].state)
  BY <1>1, <1>2, <1>3, EndsExtends DEF s
<1>4. CASE r[m].state = s
  <2>1. IsPrefix(s.charged, s.charged)
    <3>1. Extends(s.charged, s.charged)
      BY <1>1 DEF Extends
    <3> QED
      BY <1>1, <3>1, ExtendsPrefix
  <2> QED
    BY <1>1, <1>2, <1>4, <2>1 DEF s
<1> QED
  BY <1>2, <1>3, <1>4

(* A summarizer that agrees with what has been said agreed before.         *)
LEMMA AgreedBefore ==
  ASSUME asked \in Seq(Nat), said \in Seq(Nat), Len(said) <= Len(asked),
         asked' = asked \/ (\E i : asked' = Append(asked, i)),
         said' = said \/ (\E n : said' = Append(said, n)),
         NEW q, Agrees(q, asked, said)'
  PROVE  Agrees(q, asked, said)
<1>1. Agrees(q, asked', said')
  OBVIOUS
<1> SUFFICES ASSUME NEW k \in DOMAIN said
             PROVE  k \in DOMAIN asked /\ \A z \in Nat : q[<<asked[k], z>>] = said[k]
  BY DEF Agrees
<1>2. k \in 1 .. Len(said) /\ k \in DOMAIN asked
  OBVIOUS
<1>3. k \in DOMAIN said' /\ said'[k] = said[k]
  BY <1>2
<1>4. asked'[k] = asked[k]
  BY <1>2
<1> QED
  BY <1>1, <1>2, <1>3, <1>4 DEF Agrees

LEMMA GenerateFollows ==
  ASSUME IInv, RecordedInv, NEW calls \in CallLists, Generate(calls), Remember,
         compressing' = compressing, NEW q, Follows(q)
  PROVE  Follows(q)'
<1> DEFINE m == Len(recorded)
           x == Assistant(calls)
           T == TurnsOf(msgs)
<1>1. /\ pc = "generate" /\ msgs' = Append(msgs, x) /\ turn' = turn + 1
      /\ pc' \in {"calls", "done"} /\ UNCHANGED passVars /\ phase = "idle" /\ asked' = asked
      /\ phase' = "idle"
  BY DEF Generate, Stop, IInv, LoopInOrder, passVars
<1>2. /\ msgs \in Seq(Message) /\ x \in Message /\ x.role = "assistant"
      /\ asked \in Seq(Nat) /\ turn \in Nat
  BY MessageTypes DEF AsWritten, IInv, TypeOK, Pass!PassVarsOK
<1>3. /\ recorded \in Seq(Message) /\ Len(msgs) = m /\ m \in Nat /\ msgs # <<>> /\ recorded # <<>>
  BY <1>2 DEF RecordedInv, IInv, RoundsGrow, InRounds
<1> HIDE DEF x
<1>4. recorded' = Append(recorded, x) /\ msgs' \in Seq(Message)
  BY <1>1, <1>2, RecordNoted
<1>5. sent' = Append(sent, Blocks(T))
  <2>1. turn' > turn
    BY <1>1, <1>2
  <2> QED
    BY <2>1 DEF Remember
<1>6. /\ recorded' \in Seq(Message) /\ Len(recorded') = m + 1 /\ recorded' # <<>>
      /\ recorded'[m + 1] = x /\ (m + 1) - 1 = m /\ Len(recorded') - 1 = m
  BY <1>2, <1>3, <1>4, OneMore
<1>7. /\ TurnsOf(msgs') = Append(T, TurnOf(x)) /\ TurnsOf(recorded')[m + 1] = TurnOf(x)
      /\ Len(TurnsOf(msgs')) \in Nat
  <2>1. Len(TurnsOf(msgs')) = Len(msgs')
    BY <1>4 DEF TurnsOf
  <2> QED
    BY <1>1, <1>2, <1>3, <1>4, <2>1, TurnsGrow
<1>8. ASSUME NEW r, Replays(q, compressing, recorded', r, m)
      PROVE  /\ PromptsAfter(recorded', r[m], m + 1) = sent'
             /\ Grown(recorded', r[m].state, m + 1) = State(TurnsOf(msgs'), asked)
  <2>1. Replays(q, compressing, recorded, r, m)
    BY <1>2, <1>3, <1>4, <1>8, ReplaysBefore
  <2>2. r[m].prompts = sent /\ r[m].state = State(T, asked)
    BY <1>1, <2>1 DEF Follows
  <2>3. PromptsAfter(recorded', r[m], m + 1) = Append(sent, Blocks(T))
    BY <1>2, <1>6, <2>2, StateParts DEF PromptsAfter
  <2>4. Grown(recorded', r[m].state, m + 1) = State(Append(T, TurnOf(x)), asked)
    BY <1>7, <2>2, StateParts DEF Grown
  <2> QED
    BY <1>5, <1>7, <2>3, <2>4
<1> HIDE DEF m, T
<1>9. ASSUME NEW r, Replays(q, compressing, recorded', r, Len(recorded'))
      PROVE  r[Len(recorded')].prompts = sent' /\ IsPrefix(asked, r[Len(recorded')].state.charged)
  <2>1. Replays(q, compressing, recorded', r, Len(recorded') - 1)
    BY <1>6, <1>9, RoundAdded
  <2>2. PromptsAfter(recorded', r[Len(recorded') - 1], Len(recorded')) = sent'
        /\ Grown(recorded', r[Len(recorded') - 1].state, Len(recorded')) = State(TurnsOf(msgs'), asked)
    BY <1>6, <1>8, <2>1
  <2>3. /\ Grown(recorded', r[Len(recorded') - 1].state, Len(recorded')).charged = asked
        /\ Grown(recorded', r[Len(recorded') - 1].state, Len(recorded')).turns = TurnsOf(msgs')
    BY <2>2, StateParts
  <2>4. recorded' \in Seq(Message) /\ recorded' # <<>> /\ asked \in Seq(Nat)
    BY <1>2, <1>6
  <2>5. Len(TurnsOf(msgs')) \in Nat
    BY <1>7
  <2> QED
    BY <1>9, <2>2, <2>3, <2>4, <2>5, Concludes
<1>10. ASSUME NEW r, Replays(q, compressing, recorded', r, Len(recorded') - 1)
       PROVE  /\ PromptsAfter(recorded', r[Len(recorded') - 1], Len(recorded')) = sent'
              /\ \A s : s = Grown(recorded', r[Len(recorded') - 1].state, Len(recorded'))
                         => Along(q, s)'
  <2>1. /\ PromptsAfter(recorded', r[Len(recorded') - 1], Len(recorded')) = sent'
        /\ Grown(recorded', r[Len(recorded') - 1].state, Len(recorded'))
             = State(TurnsOf(msgs'), asked')
    BY <1>1, <1>6, <1>8, <1>10
  <2>2. \A s : s = State(TurnsOf(msgs'), asked') => Along(q, s)'
    BY <1>1, StateParts DEF Along
  <2> QED
    BY <2>1, <2>2
<1> QED
  BY <1>1, <1>9, <1>10 DEF Follows

LEMMA AnswerFollows ==
  ASSUME IInv, RecordedInv, NEW n \in ResultTokens \union {ShortTokens}, AnswerCall(n), Remember,
         compressing' = compressing, NEW q, Follows(q)
  PROVE  Follows(q)'
<1> DEFINE m == Len(recorded)
           x == ToolResult(<<turn, next>>, n)
           T == TurnsOf(msgs)
<1>1. /\ pc = "calls" /\ msgs' = Append(msgs, x) /\ turn' = turn
      /\ pc' = pc /\ UNCHANGED passVars /\ phase = "idle" /\ asked' = asked
      /\ phase' = "idle"
  BY DEF AnswerCall, IInv, LoopInOrder, passVars
<1>2. /\ msgs \in Seq(Message) /\ x \in Message /\ x.role = "tool" /\ turn \in Nat
  <2>1. msgs \in Seq(Message) /\ turn \in Nat /\ <<turn, next>> \in Nat \X Nat /\ n \in Nat
    BY LoopAssumption DEF IInv, TypeOK, ShortTokens
  <2> QED
    BY <2>1, MessageTypes DEF AsWritten
<1>3. /\ recorded \in Seq(Message) /\ Len(msgs) = m /\ m \in Nat /\ msgs # <<>> /\ recorded # <<>>
      /\ m \in 1 .. m /\ m < m + 1 /\ m - 1 \in Nat
  BY <1>2 DEF RecordedInv, IInv, RoundsGrow, InRounds
<1> HIDE DEF x
<1>4. recorded' = Append(recorded, x) /\ msgs' \in Seq(Message)
  BY <1>1, <1>2, RecordNoted
<1>5. sent' = sent
  <2>1. ~ (turn' > turn)
    BY <1>1, <1>2
  <2> QED
    BY <2>1 DEF Remember
<1>6. /\ recorded' \in Seq(Message) /\ Len(recorded') = m + 1
      /\ recorded'[m + 1] = x /\ (m + 1) - 1 = m /\ Len(recorded') - 1 = m
  BY <1>2, <1>3, <1>4, OneMore
<1>7. TurnsOf(msgs') = Append(T, TurnOf(x)) /\ TurnsOf(recorded')[m + 1] = TurnOf(x)
  BY <1>1, <1>2, <1>3, <1>4, TurnsGrow
<1>8. ~ RoundEnds(recorded', m)
  BY <1>2, <1>3, <1>6 DEF RoundEnds
<1>9. ASSUME NEW r, Replays(q, compressing, recorded', r, m)
      PROVE  /\ PromptsAfter(recorded', r[m], m + 1) = sent'
             /\ Grown(recorded', r[m].state, m + 1) = State(TurnsOf(msgs'), asked)
  <2> DEFINE s == Grown(recorded, r[m - 1].state, m)
  <2>1. Replays(q, compressing, recorded', r, m - 1)
    <3>1. \A k \in 1 .. m - 1 : k \in 1 .. m
      BY <1>3
    <3> QED
      BY <1>9, <3>1 DEF Replays
  <2>2. Replays(q, compressing, recorded, r, m - 1)
    BY <1>2, <1>3, <1>4, <2>1, ReplaysBefore
  <2>3. PromptsAfter(recorded, r[m - 1], m) = sent /\ Along(q, s)
    BY <1>1, <2>2 DEF Follows
  <2>4. s = State(T, asked)
    BY <1>1, <2>3 DEF Along
  <2>5. /\ PromptsAfter(recorded', r[m - 1], m) = PromptsAfter(recorded, r[m - 1], m)
        /\ Grown(recorded', r[m - 1].state, m) = s
    BY <1>2, <1>3, <1>4, ReplaysBefore
  <2>6. /\ r[m].prompts = PromptsAfter(recorded', r[m - 1], m)
        /\ r[m].state = Grown(recorded', r[m - 1].state, m)
    BY <1>3, <1>8, <1>9 DEF Replays
  <2>7. r[m].prompts = sent /\ r[m].state = State(T, asked)
    BY <2>3, <2>4, <2>5, <2>6
  <2>8. PromptsAfter(recorded', r[m], m + 1) = sent
    BY <1>2, <1>6, <2>7 DEF PromptsAfter
  <2>9. Grown(recorded', r[m].state, m + 1) = State(Append(T, TurnOf(x)), asked)
    BY <1>7, <2>7, StateParts DEF Grown
  <2> QED
    BY <1>5, <1>7, <2>8, <2>9
<1> HIDE DEF m, T
<1>10. ASSUME NEW r, Replays(q, compressing, recorded', r, Len(recorded') - 1)
       PROVE  /\ PromptsAfter(recorded', r[Len(recorded') - 1], Len(recorded')) = sent'
              /\ \A s : s = Grown(recorded', r[Len(recorded') - 1].state, Len(recorded'))
                         => Along(q, s)'
  <2>1. /\ PromptsAfter(recorded', r[Len(recorded') - 1], Len(recorded')) = sent'
        /\ Grown(recorded', r[Len(recorded') - 1].state, Len(recorded'))
             = State(TurnsOf(msgs'), asked')
    BY <1>1, <1>6, <1>9, <1>10
  <2>2. \A s : s = State(TurnsOf(msgs'), asked') => Along(q, s)'
    BY <1>1, StateParts DEF Along
  <2> QED
    BY <2>1, <2>2
<1> QED
  BY <1>1, <1>10 DEF Follows

(* Where the replay ends up with the round that the live loop is in.       *)
LEMMA RoundOver ==
  ASSUME IInv, RecordedInv, pc \in {"calls", "compress"}, NEW q, Follows(q),
         NEW r, Replays(q, compressing, recorded, r, Len(recorded))
  PROVE  LET m == Len(recorded)
             s == Grown(recorded, r[m - 1].state, m)
         IN  /\ r[m].prompts = sent /\ Along(q, s) /\ s.turns = TurnsOf(msgs)
             /\ IF compressing THEN Ends(q, s, r[m].state) ELSE r[m].state = s
<1> DEFINE m == Len(recorded)
           s == Grown(recorded, r[m - 1].state, m)
<1>1. /\ recorded \in Seq(Message) /\ Len(msgs) = m /\ m \in Nat
      /\ \A k \in 1 .. m : recorded[k].role = "user" <=> k = 1
  BY DEF RecordedInv
<1>2. PICK k \in 1 .. m : recorded[k].role = "assistant"
  BY <1>1 DEF RecordedInv
<1>3. m \in 1 .. m /\ m # 1 /\ recorded # <<>>
  BY <1>1, <1>2
<1>4. RoundEnds(recorded, m)
  BY <1>1, <1>3 DEF RoundEnds
<1>5. /\ Replays(q, compressing, recorded, r, m - 1)
      /\ r[m].prompts = PromptsAfter(recorded, r[m - 1], m)
      /\ IF compressing THEN Ends(q, s, r[m].state) ELSE r[m].state = s
  BY <1>1, <1>3, <1>4, RoundAdded
<1>6. PromptsAfter(recorded, r[m - 1], m) = sent /\ Along(q, s)
  BY <1>5 DEF Follows
<1> QED
  BY <1>5, <1>6 DEF Along

LEMMA AfterCallsFollows ==
  ASSUME IInv, RecordedInv, AfterCalls, Remember, compressing' = compressing, NEW q, Follows(q)
  PROVE  Follows(q)'
<1> DEFINE m == Len(recorded)
           T == TurnsOf(msgs)
<1>1. /\ pc = "calls" /\ msgs' = msgs /\ turn' = turn /\ phase = "idle" /\ phase' = "idle"
      /\ asked' = asked /\ work' = work
      /\ pc' \in {"done", "compress"} \/ (pc' = "generate" /\ ~ compressing)
  BY DEF AfterCalls, Stop, EndTurn, IInv, LoopInOrder, passVars
<1>2. msgs \in Seq(Message) /\ turn \in Nat /\ asked \in Seq(Nat) /\ Len(T) \in Nat
  BY Turns DEF IInv, TypeOK, Pass!PassVarsOK
<1>3. recorded' = recorded /\ sent' = sent /\ TurnsOf(msgs') = T
  <2>1. recorded' = recorded
    BY <1>1, <1>2, RecordNoted
  <2>2. ~ (turn' > turn)
    BY <1>1, <1>2
  <2> QED
    BY <1>1, <2>1, <2>2 DEF Remember
<1>4. ASSUME NEW r, Replays(q, compressing, recorded, r, m)
      PROVE  /\ r[m].prompts = sent /\ IsPrefix(asked, r[m].state.charged)
             /\ ~ compressing => r[m].state = State(T, asked)
  <2> DEFINE s == Grown(recorded, r[m - 1].state, m)
  <2>1. /\ r[m].prompts = sent /\ Along(q, s) /\ s.turns = T
        /\ IF compressing THEN Ends(q, s, r[m].state) ELSE r[m].state = s
    BY <1>1, <1>4, RoundOver
  <2>2. s = State(T, asked) /\ s.charged = asked
    BY <1>1, <2>1, StateParts DEF Along
  <2> HIDE DEF s
  <2>3. IsPrefix(asked, r[m].state.charged)
    <3>1. CASE compressing
      BY <1>2, <2>1, <2>2, <3>1, EndsExtends
    <3>2. CASE ~ compressing
      <4>1. Extends(asked, asked)
        BY <1>2 DEF Extends
      <4> QED
        BY <1>2, <2>1, <2>2, <3>2, <4>1, ExtendsPrefix
    <3> QED
      BY <3>1, <3>2
  <2> QED
    BY <2>1, <2>2, <2>3
<1>5. ASSUME NEW r, Replays(q, compressing, recorded, r, m - 1)
      PROVE  /\ PromptsAfter(recorded, r[m - 1], m) = sent
             /\ \A s : s = Grown(recorded, r[m - 1].state, m) => Along(q, s)'
  <2>1. /\ PromptsAfter(recorded, r[m - 1], m) = sent
        /\ Along(q, Grown(recorded, r[m - 1].state, m))
    BY <1>1, <1>5 DEF Follows
  <2>2. ASSUME NEW s, Along(q, s)
        PROVE  Along(q, s)'
    BY <1>1, <1>3, <2>2 DEF Along
  <2> QED
    BY <2>1, <2>2
<1> HIDE DEF T
<1>6. pc' = "generate" => \A r : Replays(q, compressing', recorded', r, Len(recorded')) =>
        r[Len(recorded')].prompts = sent' /\ r[Len(recorded')].state = State(TurnsOf(msgs'), asked')
  BY <1>1, <1>3, <1>4
<1>7. \A r : Replays(q, compressing', recorded', r, Len(recorded')) =>
        r[Len(recorded')].prompts = sent' /\ IsPrefix(asked', r[Len(recorded')].state.charged)
  BY <1>1, <1>3, <1>4
<1>8. \A r : Replays(q, compressing', recorded', r, Len(recorded') - 1) =>
        /\ PromptsAfter(recorded', r[Len(recorded') - 1], Len(recorded')) = sent'
        /\ \A s : s = Grown(recorded', r[Len(recorded') - 1].state, Len(recorded')) => Along(q, s)'
  BY <1>1, <1>3, <1>5
<1> QED
  BY <1>6, <1>7, <1>8 DEF Follows

LEMMA WriteBackFollows ==
  ASSUME IInv, RecordedInv, WriteBack, Remember, compressing' = compressing, NEW q, Follows(q)
  PROVE  Follows(q)'
<1> DEFINE m == Len(recorded)
<1>1. /\ pc = "compress" /\ phase = "done" /\ turn' = turn /\ asked' = asked
      /\ pc' \in {"done", "generate"}
  BY DEF WriteBack, PassReset, EndTurn, Stop
<1>2. msgs \in Seq(Message) /\ turn \in Nat /\ asked \in Seq(Nat) /\ compressing
  BY <1>1 DEF IInv, TypeOK, Pass!PassVarsOK, RecordedInv
<1>3. recorded' = recorded /\ sent' = sent /\ TurnsOf(msgs') = work
  <2>1. recorded' = recorded
    BY <1>2, RecordNoted, WriteBackEffect
  <2>2. ~ (turn' > turn)
    BY <1>1, <1>2
  <2>3. TurnsOf(msgs') = work
    BY WriteBackEffect
  <2> QED
    BY <2>1, <2>2, <2>3 DEF Remember
<1>4. ASSUME NEW r, Replays(q, compressing, recorded, r, m)
      PROVE  r[m].prompts = sent /\ r[m].state = State(work, asked)
  <2> DEFINE s == Grown(recorded, r[m - 1].state, m)
  <2>1. r[m].prompts = sent /\ Along(q, s) /\ Ends(q, s, r[m].state)
    BY <1>1, <1>2, <1>4, RoundOver
  <2> QED
    BY <1>1, <2>1 DEF Along
<1>5. IsPrefix(asked, State(work, asked).charged)
  <2>1. Extends(asked, asked)
    BY <1>2 DEF Extends
  <2> QED
    BY <1>2, <2>1, ExtendsPrefix, StateParts
<1>6. \A r : Replays(q, compressing', recorded', r, Len(recorded')) =>
        /\ r[Len(recorded')].prompts = sent'
        /\ r[Len(recorded')].state = State(TurnsOf(msgs'), asked')
        /\ IsPrefix(asked', r[Len(recorded')].state.charged)
  BY <1>1, <1>3, <1>4, <1>5
<1> QED
  BY <1>1, <1>6 DEF Follows

(* A step of the pass: the live loop and the replay stay together.         *)
LEMMA PassFollows ==
  ASSUME IInv, RecordedInv, SaidInv, CompressStep, Remember, compressing' = compressing,
         NEW q, Agrees(q, asked, said)', Follows(q)
  PROVE  Follows(q)'
<1> DEFINE m == Len(recorded)
<1>1. /\ UNCHANGED msgs /\ turn' = turn /\ pc = "compress" /\ pc' = "compress"
      /\ TurnsOf(msgs') = TurnsOf(msgs)
  BY PassFrame
<1>2. msgs \in Seq(Message) /\ turn \in Nat
  BY DEF IInv, TypeOK
<1>3. recorded' = recorded /\ sent' = sent
  <2>1. recorded' = recorded
    BY <1>1, <1>2, RecordNoted
  <2>2. ~ (turn' > turn)
    BY <1>1, <1>2
  <2> QED
    BY <2>1, <2>2 DEF Remember
<1>4. said \in Seq(Nat) /\ (phase # "failed" => Len(said) = Len(asked))
  BY <1>1 DEF SaidInv
<1>5. ASSUME NEW s, Along(q, s)
      PROVE  Along(q, s)'
  <2>1. CASE Pass!Begin
    BY <1>5, <2>1, BeginAlong
  <2>2. ASSUME NEW n \in SummaryTokens, Pass!SummarizeOldest(n)
        PROVE  Along(q, s)'
    <3>1. phase # "failed"
      BY <2>2 DEF Pass!SummarizeOldest
    <3> QED
      BY <1>4, <1>5, <2>2, <3>1, SummarizeAlong
  <2>3. CASE Pass!SummarizeFails
    <3>1. phase' = "failed"
      BY <2>3 DEF Pass!SummarizeFails
    <3> QED
      BY <1>1, <1>5, <3>1 DEF Along
  <2>4. CASE Pass!StopSummarizing
    BY <1>5, <2>4, StopAlong
  <2>5. CASE Pass!DropOldest
    BY <1>5, <2>5, DropAlong
  <2>6. CASE Pass!Finish
    BY <1>5, <2>6, FinishAlong
  <2> QED
    BY <2>1, <2>2, <2>3, <2>4, <2>5, <2>6 DEF CompressStep, Pass!Pass
<1>6. ASSUME NEW r, Replays(q, compressing, recorded, r, m - 1)
      PROVE  /\ PromptsAfter(recorded, r[m - 1], m) = sent
             /\ \A s : s = Grown(recorded, r[m - 1].state, m) => Along(q, s)'
  <2>1. /\ PromptsAfter(recorded, r[m - 1], m) = sent
        /\ Along(q, Grown(recorded, r[m - 1].state, m))
    BY <1>1, <1>6 DEF Follows
  <2> QED
    BY <1>5, <2>1
<1>7. \A r : Replays(q, compressing', recorded', r, Len(recorded') - 1) =>
        /\ PromptsAfter(recorded', r[Len(recorded') - 1], Len(recorded')) = sent'
        /\ \A s : s = Grown(recorded', r[Len(recorded') - 1].state, Len(recorded')) => Along(q, s)'
  BY <1>3, <1>6
<1> QED
  BY <1>1, <1>7 DEF Follows

LEMMA SummarizerAsked ==
  ASSUME IInv, CompressStep, NEW n \in SummaryTokens, Pass!SummarizeOldest(n), IInv'
  PROVE  /\ Kept \in Nat /\ phase = "summarize" /\ phase' = "summarize"
         /\ \E i : asked' = Append(asked, i)
<1>1. /\ phase = "summarize" /\ phase' = "summarize"
      /\ asked' = Append(asked, Pass!Oldest(Pass!Summarizable(work)))
      /\ pc' = "compress" /\ msgs' = msgs
  BY PassFrame DEF Pass!SummarizeOldest
<1>2. asked \in Seq(Nat) /\ msgs \in Seq(Message) /\ work' \in Seq(Pass!Turn)
  BY DEF IInv, TypeOK, Pass!PassVarsOK
<1>3. Len(work') = Len(msgs)
  BY <1>1 DEF IInv, CopyOfHistory, Pass!Working
<1>4. Len(asked') \in DOMAIN asked'
  BY <1>1, <1>2
<1>5. asked'[Len(asked')] \in DOMAIN msgs
  BY <1>1, <1>4 DEF IInv, AskedMarked
<1>6. work'[asked'[Len(asked')]] \in Pass!Turn
  BY <1>2, <1>3, <1>5
<1> QED
  BY <1>1, <1>6 DEF Kept, Pass!Turn

(* What a step adds to the calls of the summarizer and to its answers.     *)
LEMMA SaidGrows ==
  ASSUME IInv, SaidInv, ReplayNext, IInv'
  PROVE  /\ SaidInv'
         /\ asked' = asked \/ \E i : asked' = Append(asked, i)
         /\ said' = said \/ \E n : said' = Append(said, n)
<1>1. asked \in Seq(Nat) /\ said \in Seq(Nat) /\ Len(said) <= Len(asked)
  BY DEF IInv, TypeOK, Pass!PassVarsOK, SaidInv
<1>2. said' = IF Len(asked') > Len(asked) /\ phase' # "failed" THEN Append(said, Kept) ELSE said
  BY DEF ReplayNext, Remember
<1>3. Step
  BY DEF ReplayNext, Next
<1>4. ASSUME asked' = asked, phase' # "failed" /\ (pc' = "done" => stop' # "error") =>
                               phase # "failed" /\ (pc = "done" => stop # "error")
      PROVE  SaidInv' /\ said' = said
  <2>1. said' = said
    BY <1>1, <1>2, <1>4
  <2> QED
    BY <1>1, <1>4, <2>1 DEF SaidInv
<1>5. CASE CompressStep
  <2>1. /\ pc = "compress" /\ pc' = "compress"
    BY <1>5, PassFrame
  <2>2. ASSUME NEW n \in SummaryTokens, Pass!SummarizeOldest(n)
        PROVE  SaidInv' /\ (\E i : asked' = Append(asked, i)) /\ (\E k : said' = Append(said, k))
    <3>1. /\ Kept \in Nat /\ phase # "failed" /\ phase' # "failed"
      BY <1>5, <2>2, SummarizerAsked
    <3>2. PICK i : asked' = Append(asked, i)
      BY <1>5, <2>2, SummarizerAsked
    <3>3. Len(asked') = Len(asked) + 1 /\ Len(asked) = Len(said)
      BY <1>1, <2>1, <3>1, <3>2 DEF SaidInv
    <3>4. said' = Append(said, Kept)
      BY <1>1, <1>2, <3>1, <3>3
    <3>5. said' \in Seq(Nat) /\ Len(said') = Len(asked')
      BY <1>1, <3>1, <3>3, <3>4
    <3>6. SaidInv'
      BY <1>1, <3>3, <3>5 DEF SaidInv
    <3> QED
      BY <3>2, <3>4, <3>6
  <2>3. ASSUME Pass!SummarizeFails
        PROVE  SaidInv' /\ (\E i : asked' = Append(asked, i)) /\ said' = said
    <3>1. phase' = "failed" /\ \E i : asked' = Append(asked, i)
      BY <2>3 DEF Pass!SummarizeFails
    <3>2. said' = said /\ Len(asked') = Len(asked) + 1
      BY <1>1, <1>2, <3>1
    <3> QED
      BY <1>1, <3>1, <3>2 DEF SaidInv
  <2>4. ASSUME Pass!Begin \/ Pass!StopSummarizing \/ Pass!DropOldest \/ Pass!Finish
        PROVE  SaidInv' /\ asked' = asked /\ said' = said
    <3>1. asked' = asked /\ phase # "failed"
      BY <2>4 DEF Pass!Begin, Pass!StopSummarizing, Pass!DropOldest, Pass!Finish
    <3> QED
      BY <1>4, <2>1, <3>1
  <2> QED
    BY <1>5, <2>2, <2>3, <2>4 DEF CompressStep, Pass!Pass
<1>6. CASE ~ CompressStep
  <2>1. asked' = asked
    BY <1>3, <1>6 DEF Step, Generate, GenerateFails, AnswerCall, AfterCalls, WriteBack,
       CompressFails, PassReset, passVars
  <2>2. pc # "done"
    BY <1>3, <1>6 DEF Step, Generate, GenerateFails, AnswerCall, AfterCalls, WriteBack, CompressFails
  <2>3. (phase' # "failed" /\ (pc' = "done" => stop' # "error")) => phase # "failed"
    BY <1>3, <1>6 DEF Step, Generate, GenerateFails, AnswerCall, AfterCalls, WriteBack,
       CompressFails, Stop, passVars
  <2> QED
    BY <1>4, <2>1, <2>2, <2>3
<1> QED
  BY <1>5, <1>6

(* The messages of the recording are those of the history.                 *)
LEMMA RecordedGrows ==
  ASSUME IInv, RecordedInv, NEW x \in Message, x.role # "user", msgs' = Append(msgs, x), Remember,
         x.role = "assistant" \/ pc = "calls", pc' # "compress"
  PROVE  RecordedInv'
<1>1. msgs \in Seq(Message) /\ msgs # <<>>
  BY DEF IInv, TypeOK, RoundsGrow, InRounds
<1>2. /\ recorded \in Seq(Message) /\ Len(recorded) = Len(msgs) /\ Len(msgs) \in Nat \ {0}
      /\ \A k \in 1 .. Len(msgs) :
           recorded[k].role = msgs[k].role /\ (recorded[k].role = "user" <=> k = 1)
  BY <1>1 DEF RecordedInv
<1>3. /\ msgs' \in Seq(Message) /\ Len(msgs') = Len(msgs) + 1 /\ msgs'[Len(msgs) + 1] = x
      /\ \A k \in 1 .. Len(msgs) : msgs'[k] = msgs[k]
  BY <1>1
<1>4. recorded' = Append(recorded, x)
  BY <1>1, <1>3, RecordNoted
<1>5. /\ recorded' \in Seq(Message) /\ Len(recorded') = Len(msgs) + 1 /\ recorded'[Len(msgs) + 1] = x
      /\ \A k \in 1 .. Len(msgs) : recorded'[k] = recorded[k]
  BY <1>2, <1>4
<1>6. \E k \in 1 .. Len(msgs) + 1 : recorded'[k].role = "assistant"
  <2>1. CASE x.role = "assistant"
    BY <1>2, <1>5, <2>1
  <2>2. CASE pc = "calls"
    <3>1. PICK k \in 1 .. Len(msgs) : recorded[k].role = "assistant"
      BY <2>2 DEF RecordedInv
    <3> QED
      BY <1>2, <1>5, <3>1
  <2> QED
    BY <2>1, <2>2
<1>7. ASSUME NEW k \in 1 .. Len(msgs) + 1
      PROVE  recorded'[k].role = msgs'[k].role /\ (recorded'[k].role = "user" <=> k = 1)
  <2>1. CASE k = Len(msgs) + 1
    BY <1>2, <1>3, <1>5, <2>1
  <2>2. CASE k # Len(msgs) + 1
    <3>1. k \in 1 .. Len(msgs)
      BY <1>2, <2>2
    <3> QED
      BY <1>2, <1>3, <1>5, <3>1
  <2> QED
    BY <2>1, <2>2
<1> QED
  BY <1>3, <1>5, <1>6, <1>7 DEF RecordedInv

LEMMA RecordedStays ==
  ASSUME IInv, RecordedInv, msgs' \in Seq(Message), Len(msgs') = Len(msgs),
         \A k \in 1 .. Len(msgs) : msgs'[k].role = msgs[k].role, Remember,
         pc \in {"calls", "compress"} \/ (pc' = "done" /\ stop' = "error"),
         pc' = "compress" => compressing'
  PROVE  RecordedInv'
<1>1. recorded' = recorded
  BY RecordNoted DEF IInv, TypeOK
<1> QED
  BY <1>1 DEF RecordedInv

LEMMA StepKeeps ==
  ASSUME ReplayInv, ReplayNext, IInv'
  PROVE  ReplayInv'
<1>1. /\ IInv /\ RecordedInv /\ SaidInv /\ Remember /\ Step /\ compressing' = compressing
      /\ msgs \in Seq(Message) /\ msgs' \in Seq(Message)
  BY DEF ReplayInv, ReplayNext, Next, IInv, TypeOK
<1>2. /\ SaidInv'
      /\ asked' = asked \/ \E i : asked' = Append(asked, i)
      /\ said' = said \/ \E n : said' = Append(said, n)
  BY <1>1, SaidGrows
<1>3. ASSUME NEW q \in Summarizer, Agrees(q, asked, said)'
      PROVE  Follows(q)
  <2>1. asked \in Seq(Nat) /\ said \in Seq(Nat) /\ Len(said) <= Len(asked)
    BY <1>1 DEF IInv, TypeOK, Pass!PassVarsOK, SaidInv
  <2>2. Agrees(q, asked, said)
    BY <1>2, <1>3, <2>1, AgreedBefore
  <2> QED
    BY <2>2 DEF ReplayInv
<1>4. SUFFICES RecordedInv' /\ \A q \in Summarizer : Agrees(q, asked, said)' => Follows(q)'
  BY <1>2, IInv' DEF ReplayInv
<1>5. ASSUME NEW calls \in CallLists, Generate(calls)
      PROVE  RecordedInv' /\ \A q \in Summarizer : Agrees(q, asked, said)' => Follows(q)'
  <2>1. /\ Assistant(calls) \in Message /\ Assistant(calls).role = "assistant"
        /\ msgs' = Append(msgs, Assistant(calls)) /\ pc' # "compress"
    BY <1>5, MessageTypes DEF AsWritten, Generate, Stop
  <2> QED
    BY <1>1, <1>3, <1>5, <2>1, RecordedGrows, GenerateFollows
<1>6. ASSUME NEW n \in ResultTokens \union {ShortTokens}, AnswerCall(n)
      PROVE  RecordedInv' /\ \A q \in Summarizer : Agrees(q, asked, said)' => Follows(q)'
  <2> DEFINE x == ToolResult(<<turn, next>>, n)
  <2>1. turn \in Nat /\ <<turn, next>> \in Nat \X Nat /\ n \in Nat
    BY <1>1, LoopAssumption DEF IInv, TypeOK, ShortTokens
  <2>2. x \in Message /\ x.role = "tool"
    BY <2>1, MessageTypes DEF AsWritten
  <2>3. msgs' = Append(msgs, x) /\ pc' # "compress" /\ pc = "calls"
    BY <1>6 DEF AnswerCall
  <2> HIDE DEF x
  <2> QED
    BY <1>1, <1>3, <1>6, <2>2, <2>3, RecordedGrows, AnswerFollows
<1>7. CASE AfterCalls
  <2>1. msgs' = msgs /\ pc = "calls" /\ (pc' = "compress" => compressing')
    BY <1>1, <1>7 DEF AfterCalls, Stop, EndTurn
  <2> QED
    BY <1>1, <1>3, <1>7, <2>1, RecordedStays, AfterCallsFollows
<1>8. CASE CompressStep
  <2>1. msgs' = msgs /\ pc = "compress" /\ compressing
    BY <1>1, <1>8, PassFrame DEF RecordedInv
  <2> QED
    BY <1>1, <1>3, <1>8, <2>1, RecordedStays, PassFollows
<1>9. CASE WriteBack
  <2>1. pc = "compress" /\ pc' # "compress"
    BY <1>9 DEF WriteBack, EndTurn, Stop
  <2>2. /\ Len(msgs') = Len(msgs)
        /\ \A k \in 1 .. Len(msgs) : msgs'[k].role = msgs[k].role
    BY <1>1, <1>9, WriteBackEffect
  <2> QED
    BY <1>1, <1>3, <1>9, <2>1, <2>2, RecordedStays, WriteBackFollows
<1>10. CASE GenerateFails \/ CompressFails
  <2>1. msgs' = msgs /\ pc' = "done" /\ stop' = "error"
    BY <1>10 DEF GenerateFails, CompressFails, Stop
  <2>2. RecordedInv'
    BY <1>1, <2>1, RecordedStays
  <2> QED
    BY <2>1, <2>2 DEF Follows
<1> QED
  BY <1>1, <1>5, <1>6, <1>7, <1>8, <1>9, <1>10 DEF Step

LEMMA StutterKeeps ==
  ASSUME ReplayInv, UNCHANGED replayVars
  PROVE  ReplayInv'
<1>1. UNCHANGED <<compressing, msgs, pc, turn, next, submitted, answered, stop, outSummarized,
                  outDropped, work, phase, summarized, dropped, asked, recorded, sent, said>>
  BY DEF replayVars, vars, loopVars, passVars
<1>2. IInv'
  BY <1>1, NextKeeps DEF ReplayInv, vars, loopVars, passVars
<1>3. RecordedInv' /\ SaidInv'
  BY <1>1 DEF ReplayInv, RecordedInv, SaidInv
<1>4. TurnsOf(msgs)' = TurnsOf(msgs)
  BY <1>1
<1>5. ASSUME NEW q, NEW s, Along(q, s)
      PROVE  Along(q, s)'
  BY <1>1, <1>4, <1>5 DEF Along
<1>6. ASSUME NEW q \in Summarizer, Agrees(q, asked, said)'
      PROVE  Follows(q)'
  <2>1. Follows(q)
    BY <1>1, <1>6 DEF ReplayInv
  <2> QED
    BY <1>1, <1>4, <1>5, <2>1 DEF Follows
<1> QED
  BY <1>2, <1>3, <1>6 DEF ReplayInv

LEMMA InitReplayInv == ReplayInit => ReplayInv
<1> SUFFICES ASSUME ReplayInit
             PROVE  ReplayInv
  OBVIOUS
<1>1. IInv
  BY InitIInv DEF ReplayInit
<1>2. /\ msgs = <<Goal>> /\ recorded = <<Goal>> /\ sent = <<>> /\ said = <<>> /\ asked = <<>>
      /\ pc = "generate" /\ phase = "idle"
  BY DEF ReplayInit, Init, Pass!PassInit
<1>3. Goal \in Message /\ Goal.role = "user"
  BY MessageTypes DEF AsWritten
<1>4. Len(msgs) = 1 /\ 1 .. Len(msgs) = {1} /\ recorded[1] = Goal /\ msgs[1] = Goal
  BY <1>2
<1>5. RecordedInv /\ SaidInv
  BY <1>2, <1>3, <1>4 DEF RecordedInv, SaidInv
<1>6. ASSUME NEW q, NEW r, Replays(q, compressing, recorded, r, 1)
      PROVE  r[1].prompts = sent /\ r[1].state = State(TurnsOf(msgs), asked)
  <2>1. ~ RoundEnds(recorded, 1)
    BY <1>2, <1>3, <1>4 DEF RoundEnds
  <2>2. /\ r[0] = Nothing /\ r[1].prompts = PromptsAfter(recorded, r[0], 1)
        /\ r[1].state = Grown(recorded, r[0].state, 1)
    <3>1. 1 \in 1 .. 1 /\ 1 - 1 = 0
      OBVIOUS
    <3> QED
      BY <1>6, <2>1, <3>1 DEF Replays
  <2>3. r[1].prompts = <<>>
    BY <1>2, <1>3, <1>4, <2>2 DEF PromptsAfter, Nothing
  <2>4. TurnsOf(msgs) = Append(<<>>, TurnsOf(msgs)[1])
    <3>1. TurnsOf(msgs) = <<TurnsOf(msgs)[1]>>
      BY <1>2, <1>4 DEF TurnsOf
    <3> QED
      BY <3>1
  <2>5. r[1].state = State(Append(<<>>, TurnsOf(recorded)[1]), <<>>)
    <3>1. r[0].state = State(<<>>, <<>>)
      BY <2>2 DEF Nothing
    <3>2. r[0].state.turns = <<>> /\ r[0].state.charged = <<>>
      BY <3>1, StateParts
    <3> QED
      BY <2>2, <3>2 DEF Grown
  <2> QED
    BY <1>2, <2>3, <2>4, <2>5
<1>7. \A q : Follows(q)
  BY <1>2, <1>4, <1>6 DEF Follows
<1> QED
  BY <1>1, <1>5, <1>7 DEF ReplayInv

(* The replay of what is recorded so far is where the live loop is, at     *)
(* every place of the loop and of a pass.                                  *)
THEOREM ReplayInvariant == ReplaySpec => []ReplayInv
<1>1. ReplayInv /\ [ReplayNext]_replayVars => ReplayInv'
  <2>1. ReplayInv /\ ReplayNext => IInv'
    BY NextKeeps DEF ReplayInv, ReplayNext
  <2> QED
    BY <2>1, StepKeeps, StutterKeeps
<1> QED
  BY InitReplayInv, <1>1, PTL DEF ReplaySpec

-----------------------------------------------------------------------------
(* The folds of the replay, step by step                                   *)

States == [turns : Seq(Pass!Turn), charged : Seq(Nat)]

(* What holds of the first of a chain and of each after the one before.    *)
LEMMA Chain ==
  ASSUME NEW n \in Nat, NEW R, NEW p, p[0] \in R,
         \A k \in 1 .. n : p[k - 1] \in R => p[k] \in R
  PROVE  \A k \in 0 .. n : p[k] \in R
<1> DEFINE N == {k \in Nat : k <= n => p[k] \in R}
<1>1. 0 \in N
  OBVIOUS
<1>2. ASSUME NEW k \in Nat, k \in N
      PROVE  k + 1 \in N
  <2>1. k + 1 <= n => k + 1 \in 1 .. n /\ (k + 1) - 1 = k /\ k <= n
    OBVIOUS
  <2> QED
    BY <1>2, <2>1
<1>3. Nat \subseteq N
  <2> HIDE DEF N
  <2> QED
    BY <1>1, <1>2, NatSet
<1> QED
  BY <1>3

LEMMA StateType ==
  ASSUME NEW t \in Seq(Pass!Turn), NEW c \in Seq(Nat)
  PROVE  State(t, c) \in States
BY DEF State, States

LEMMA Replaced ==
  ASSUME NEW w \in Seq(Pass!Turn), NEW i \in DOMAIN w, NEW x \in Pass!Turn
  PROVE  /\ [w EXCEPT ![i] = x] \in Seq(Pass!Turn)
         /\ DOMAIN [w EXCEPT ![i] = x] = DOMAIN w
OBVIOUS

LEMMA DropType ==
  ASSUME NEW s \in States, NEW i \in Nat
  PROVE  DropTurn(s, i) \in States
<1>1. s.turns \in Seq(Pass!Turn) /\ s.charged \in Seq(Nat)
  BY DEF States
<1>2. CASE i \in Pass!Droppable(s.turns)
  <2>1. i \in DOMAIN s.turns /\ s.turns[i] \in Pass!Turn
    BY <1>1, <1>2 DEF Pass!Droppable, Pass!Observations
  <2>2. [s.turns[i] EXCEPT !.form = "marker", !.size = MarkerTokens] \in Pass!Turn
    BY <2>1, LoopAssumption, MarkerMade
  <2>3. [s.turns EXCEPT ![i].form = "marker", ![i].size = MarkerTokens] \in Seq(Pass!Turn)
    <3>1. [s.turns EXCEPT ![i].form = "marker", ![i].size = MarkerTokens]
            = [s.turns EXCEPT ![i] = [s.turns[i] EXCEPT !.form = "marker", !.size = MarkerTokens]]
      OBVIOUS
    <3>2. [s.turns EXCEPT ![i] = [s.turns[i] EXCEPT !.form = "marker", !.size = MarkerTokens]]
            \in Seq(Pass!Turn)
      BY <1>1, <2>1, <2>2, Replaced
    <3> QED
      BY <3>1, <3>2
  <2> QED
    BY <1>1, <2>3, StateType DEF DropTurn
<1> QED
  BY <1>2 DEF DropTurn

(* What the recording knows of a summary is a size.                        *)
LEMMA SummaryType ==
  ASSUME asked \in Seq(Nat), said \in Seq(Nat), NEW i \in Nat, NEW z \in Nat
  PROVE  SummaryOf(i, z) \in Nat
<1>1. \A k \in DOMAIN said : said[k] \in Nat
  OBVIOUS
<1> QED
  BY <1>1 DEF SummaryOf

LEMMA SummarizeType ==
  ASSUME asked \in Seq(Nat), said \in Seq(Nat), NEW s \in States, NEW i \in Nat
  PROVE  SummarizeTurn(s, i) \in States
<1>1. s.turns \in Seq(Pass!Turn) /\ s.charged \in Seq(Nat)
  BY DEF States
<1>2. CASE i \in Pass!Summarizable(s.turns)
  <2> DEFINE t == s.turns[i]
             n == SummaryOf(i, t.size)
             w == IF n < t.size THEN [s.turns EXCEPT ![i].form = "summary", ![i].size = n] ELSE s.turns
  <2>1. i \in DOMAIN s.turns /\ t \in Pass!Turn
    BY <1>1, <1>2 DEF Pass!Summarizable, Pass!Observations
  <2>2. t.size \in Nat
    BY <2>1 DEF Pass!Turn
  <2>3. n \in Nat
    BY <2>2, SummaryType
  <2> HIDE DEF n
  <2>4. w \in Seq(Pass!Turn) /\ i \in DOMAIN w
    <3>1. [t EXCEPT !.form = "summary", !.size = n] \in Pass!Turn
      BY <2>1, <2>3 DEF Pass!Turn, Pass!Form
    <3>2. [s.turns EXCEPT ![i].form = "summary", ![i].size = n]
            = [s.turns EXCEPT ![i] = [t EXCEPT !.form = "summary", !.size = n]]
      OBVIOUS
    <3>3. i \in DOMAIN s.turns
      BY <2>1
    <3> HIDE DEF t
    <3>4. /\ [s.turns EXCEPT ![i].form = "summary", ![i].size = n] \in Seq(Pass!Turn)
          /\ i \in DOMAIN [s.turns EXCEPT ![i].form = "summary", ![i].size = n]
      BY <1>1, <3>1, <3>2, <3>3, Replaced
    <3> QED
      BY <1>1, <3>3, <3>4
  <2> HIDE DEF w
  <2>5. [w EXCEPT ![i].compressed = TRUE] \in Seq(Pass!Turn)
    <3>1. w[i] \in Pass!Turn
      BY <2>4
    <3>2. [w[i] EXCEPT !.compressed = TRUE] \in Pass!Turn
      BY <3>1, MarkMade
    <3>3. [w EXCEPT ![i].compressed = TRUE] = [w EXCEPT ![i] = [w[i] EXCEPT !.compressed = TRUE]]
      OBVIOUS
    <3> QED
      BY <2>4, <3>2, <3>3
  <2>6. Append(s.charged, i) \in Seq(Nat)
    BY <1>1
  <2>7. SummarizeTurn(s, i) \in {s, State([w EXCEPT ![i].compressed = TRUE], Append(s.charged, i))}
    BY DEF SummarizeTurn, w, n
  <2> QED
    BY <2>5, <2>6, <2>7, StateType
<1> QED
  BY <1>2 DEF SummarizeTurn

LEMMA DropSteps ==
  ASSUME NEW s \in States, NEW t \in Seq(Pass!Turn)
  PROVE  \E p : /\ p[0] = s /\ p[Len(t)] = FoldLeft(DropTurn, s, Indices(t))
                /\ \A k \in 1 .. Len(t) : p[k] = DropTurn(p[k - 1], k)
                /\ \A k \in 0 .. Len(t) : p[k] \in States
<1> DEFINE n == Len(t)
           u == Indices(t)
           T == Nat
           R == States
           f == [xr \in T \X R |-> DropTurn(xr[2], xr[1])]
           Eq(h, S) == h[S] = IF S = {} THEN s ELSE DropTurn(h[S \ {Max(S)}], u[Max(S)])
<1>1. /\ n \in Nat /\ u \in Seq(T) /\ DOMAIN u = 1 .. n /\ s \in R
      /\ \A k \in 1 .. n : u[k] = k /\ k \in T
  BY DEF Indices
<1>2. \A x \in T, r \in R : DropTurn(r, x) \in R
  BY DropType
<1> HIDE DEF u
<1>3. PICK h \in [SUBSET DOMAIN u -> R] : FoldsLeft(h, u, f, s)
  <2>1. StepsIn(f, T, R)
    BY <1>2 DEF StepsIn
  <2> HIDE DEF f, R, T, n
  <2> QED
    BY <1>1, <2>1, FoldLeftExists
<1>4. ASSUME NEW S \in SUBSET DOMAIN u
      PROVE  Eq(h, S)
  <2>1. h[S] = IF S = {} THEN s ELSE f[<<u[Max(S)], h[S \ {Max(S)}]>>]
    BY <1>3, Zenon DEF FoldsLeft
  <2>2. CASE S = {}
    BY <2>1, <2>2
  <2>3. CASE S # {}
    <3> HIDE DEF R, T, n
    <3>1. Max(S) \in S
      BY <1>1, <2>3, MaxIsMember
    <3>2. u[Max(S)] \in T /\ h[S \ {Max(S)}] \in R
      BY <1>1, <3>1
    <3> QED
      BY <2>1, <2>3, <3>2
  <2> QED
    BY <2>2, <2>3
<1> DEFINE iter == CHOOSE h_1 : h_1 = [S \in SUBSET DOMAIN u |->
                     IF S = {} THEN s ELSE DropTurn(h_1[S \ {Max(S)}], u[Max(S)])]
<1>5. FoldLeft(DropTurn, s, Indices(t)) = iter[DOMAIN u]
  BY Zenon DEF FoldLeft, MapThenFoldSet, u
<1>6. h = [S \in SUBSET DOMAIN u |-> IF S = {} THEN s ELSE DropTurn(h[S \ {Max(S)}], u[Max(S)])]
  BY <1>4
<1>7. iter = [S \in SUBSET DOMAIN u |-> IF S = {} THEN s ELSE DropTurn(iter[S \ {Max(S)}], u[Max(S)])]
  BY <1>6, Zenon
<1> HIDE DEF iter, n, T
<1>8. ASSUME NEW k \in 1 .. n
      PROVE  iter[1 .. k] = DropTurn(iter[1 .. k - 1], k)
  <2>1. k \in Nat /\ k # 0 /\ k \in 1 .. k /\ 1 .. k \subseteq 1 .. n
    BY <1>1
  <2>2. 1 .. k \in SUBSET DOMAIN u /\ 1 .. k # {}
    BY <1>1, <2>1
  <2>3. Max(1 .. k) = k /\ (1 .. k) \ {k} = 1 .. k - 1 /\ u[k] = k
    BY <1>1, <2>1, Prefix
  <2>4. iter[1 .. k] = DropTurn(iter[(1 .. k) \ {Max(1 .. k)}], u[Max(1 .. k)])
    BY <1>7, <2>2, Zenon
  <2> QED
    BY <2>2, <2>3, <2>4
<1>9. iter[1 .. 0] = s
  BY <1>7
<1> DEFINE p == [k \in 0 .. n |-> iter[1 .. k]]
<1>10. /\ p[0] = s /\ p[n] = FoldLeft(DropTurn, s, Indices(t))
       /\ \A k \in 1 .. n : p[k] = DropTurn(p[k - 1], k)
  <2>1. \A k \in 0 .. n : p[k] = iter[1 .. k]
    OBVIOUS
  <2>2. 0 \in 0 .. n /\ n \in 0 .. n /\ \A k \in 1 .. n : k \in 0 .. n /\ k - 1 \in 0 .. n
    BY <1>1
  <2> HIDE DEF p
  <2> QED
    BY <1>1, <1>5, <1>8, <1>9, <2>1, <2>2
<1> HIDE DEF p, R
<1>11. \A k \in 0 .. n : p[k] \in R
  <2>1. ASSUME NEW k \in 1 .. n, p[k - 1] \in R
        PROVE  p[k] \in R
    BY <1>1, <1>2, <1>10, <2>1
  <2> QED
    BY <1>1, <1>10, <2>1, Chain
<1> QED
  BY <1>10, <1>11 DEF n, R

LEMMA SummarizeSteps ==
  ASSUME asked \in Seq(Nat), said \in Seq(Nat),
         NEW s \in States, NEW t \in Seq(Pass!Turn)
  PROVE  \E p : /\ p[0] = s /\ p[Len(t)] = FoldLeft(SummarizeTurn, s, Indices(t))
                /\ \A k \in 1 .. Len(t) : p[k] = SummarizeTurn(p[k - 1], k)
                /\ \A k \in 0 .. Len(t) : p[k] \in States
<1> DEFINE n == Len(t)
           u == Indices(t)
           T == Nat
           R == States
           f == [xr \in T \X R |-> SummarizeTurn(xr[2], xr[1])]
           Eq(h, S) == h[S] = IF S = {} THEN s ELSE SummarizeTurn(h[S \ {Max(S)}], u[Max(S)])
<1>1. /\ n \in Nat /\ u \in Seq(T) /\ DOMAIN u = 1 .. n /\ s \in R
      /\ \A k \in 1 .. n : u[k] = k /\ k \in T
  BY DEF Indices
<1>2. \A x \in T, r \in R : SummarizeTurn(r, x) \in R
  BY SummarizeType
<1> HIDE DEF u
<1>3. PICK h \in [SUBSET DOMAIN u -> R] : FoldsLeft(h, u, f, s)
  <2>1. StepsIn(f, T, R)
    BY <1>2 DEF StepsIn
  <2> HIDE DEF f, R, T, n
  <2> QED
    BY <1>1, <2>1, FoldLeftExists
<1>4. ASSUME NEW S \in SUBSET DOMAIN u
      PROVE  Eq(h, S)
  <2>1. h[S] = IF S = {} THEN s ELSE f[<<u[Max(S)], h[S \ {Max(S)}]>>]
    BY <1>3, Zenon DEF FoldsLeft
  <2>2. CASE S = {}
    BY <2>1, <2>2
  <2>3. CASE S # {}
    <3> HIDE DEF R, T, n
    <3>1. Max(S) \in S
      BY <1>1, <2>3, MaxIsMember
    <3>2. u[Max(S)] \in T /\ h[S \ {Max(S)}] \in R
      BY <1>1, <3>1
    <3> QED
      BY <2>1, <2>3, <3>2
  <2> QED
    BY <2>2, <2>3
<1> DEFINE iter == CHOOSE h_1 : h_1 = [S \in SUBSET DOMAIN u |->
                     IF S = {} THEN s ELSE SummarizeTurn(h_1[S \ {Max(S)}], u[Max(S)])]
<1>5. FoldLeft(SummarizeTurn, s, Indices(t)) = iter[DOMAIN u]
  BY Zenon DEF FoldLeft, MapThenFoldSet, u
<1>6. h = [S \in SUBSET DOMAIN u |-> IF S = {} THEN s ELSE SummarizeTurn(h[S \ {Max(S)}], u[Max(S)])]
  BY <1>4
<1>7. iter = [S \in SUBSET DOMAIN u |-> IF S = {} THEN s ELSE SummarizeTurn(iter[S \ {Max(S)}], u[Max(S)])]
  BY <1>6, Zenon
<1> HIDE DEF iter, n, T
<1>8. ASSUME NEW k \in 1 .. n
      PROVE  iter[1 .. k] = SummarizeTurn(iter[1 .. k - 1], k)
  <2>1. k \in Nat /\ k # 0 /\ k \in 1 .. k /\ 1 .. k \subseteq 1 .. n
    BY <1>1
  <2>2. 1 .. k \in SUBSET DOMAIN u /\ 1 .. k # {}
    BY <1>1, <2>1
  <2>3. Max(1 .. k) = k /\ (1 .. k) \ {k} = 1 .. k - 1 /\ u[k] = k
    BY <1>1, <2>1, Prefix
  <2>4. iter[1 .. k] = SummarizeTurn(iter[(1 .. k) \ {Max(1 .. k)}], u[Max(1 .. k)])
    BY <1>7, <2>2, Zenon
  <2> QED
    BY <2>2, <2>3, <2>4
<1>9. iter[1 .. 0] = s
  BY <1>7
<1> DEFINE p == [k \in 0 .. n |-> iter[1 .. k]]
<1>10. /\ p[0] = s /\ p[n] = FoldLeft(SummarizeTurn, s, Indices(t))
       /\ \A k \in 1 .. n : p[k] = SummarizeTurn(p[k - 1], k)
  <2>1. \A k \in 0 .. n : p[k] = iter[1 .. k]
    OBVIOUS
  <2>2. 0 \in 0 .. n /\ n \in 0 .. n /\ \A k \in 1 .. n : k \in 0 .. n /\ k - 1 \in 0 .. n
    BY <1>1
  <2> HIDE DEF p
  <2> QED
    BY <1>1, <1>5, <1>8, <1>9, <2>1, <2>2
<1> HIDE DEF p, R
<1>11. \A k \in 0 .. n : p[k] \in R
  <2>1. ASSUME NEW k \in 1 .. n, p[k - 1] \in R
        PROVE  p[k] \in R
    BY <1>1, <1>2, <1>10, <2>1
  <2> QED
    BY <1>1, <1>10, <2>1, Chain
<1> QED
  BY <1>10, <1>11 DEF n, R

(* The summarizer that the recording gives.                                *)
Recalled == [x \in Nat \X Nat |-> SummaryOf(x[1], x[2])]

LEMMA RecalledAgrees ==
  ASSUME IInv, SaidInv
  PROVE  /\ Recalled \in Summarizer /\ Agrees(Recalled, asked, said)
         /\ \A i, z \in Nat : Recalled[<<i, z>>] = SummaryOf(i, z)
<1>1. /\ asked \in Seq(Nat) /\ said \in Seq(Nat) /\ Len(said) <= Len(asked) /\ SummarizedOnce
  BY DEF IInv, TypeOK, Pass!PassVarsOK, SaidInv
<1>2. \A x \in Nat \X Nat : x[1] \in Nat /\ x[2] \in Nat /\ SummaryOf(x[1], x[2]) \in Nat
  BY <1>1, SummaryType
<1>3. Recalled \in Summarizer /\ \A i, z \in Nat : Recalled[<<i, z>>] = SummaryOf(i, z)
  <2>1. Recalled \in [Nat \X Nat -> Nat]
    BY <1>2 DEF Recalled
  <2>2. ASSUME NEW i \in Nat, NEW z \in Nat
        PROVE  Recalled[<<i, z>>] = SummaryOf(i, z)
    <3>1. <<i, z>> \in Nat \X Nat /\ <<i, z>>[1] = i /\ <<i, z>>[2] = z
      OBVIOUS
    <3> QED
      BY <3>1 DEF Recalled
  <2> QED
    BY <2>1, <2>2 DEF Summarizer
<1>4. ASSUME NEW k \in DOMAIN said, NEW z \in Nat
      PROVE  k \in DOMAIN asked /\ Recalled[<<asked[k], z>>] = said[k]
  <2>1. k \in DOMAIN asked /\ asked[k] \in Nat /\ \A j \in DOMAIN said : j \in DOMAIN asked
    BY <1>1
  <2> DEFINE j == CHOOSE j \in DOMAIN said : asked[j] = asked[k]
  <2>2. j \in DOMAIN said /\ asked[j] = asked[k]
    OBVIOUS
  <2>3. SummaryOf(asked[k], z) = said[j]
    BY DEF SummaryOf
  <2> HIDE DEF j
  <2>4. j = k
    BY <1>1, <2>1, <2>2 DEF SummarizedOnce
  <2> QED
    BY <1>3, <2>1, <2>3, <2>4
<1>5. \A k \in DOMAIN said : k \in DOMAIN asked
  BY <1>1
<1> QED
  BY <1>3, <1>4, <1>5 DEF Agrees

(* A pass of the replay.                                                   *)
LEMMA CompressedEnds ==
  ASSUME asked \in Seq(Nat), said \in Seq(Nat), NEW s \in States
  PROVE  /\ Compressed(s) \in States
         /\ \A q : (\A i, z \in Nat : q[<<i, z>>] = SummaryOf(i, z)) => Ends(q, s, Compressed(s))
<1>1. s.turns \in Seq(Pass!Turn) /\ Len(s.turns) \in Nat
  BY DEF States
<1>2. CASE Budget = 0
  BY <1>2 DEF Compressed, Ends
<1>3. CASE Budget # 0
  <2> DEFINE n == Len(s.turns)
  <2>1. PICK p : /\ p[0] = s /\ p[n] = FoldLeft(SummarizeTurn, s, Indices(s.turns))
                 /\ \A k \in 1 .. n : p[k] = SummarizeTurn(p[k - 1], k)
                 /\ \A k \in 0 .. n : p[k] \in States
    BY <1>1, SummarizeSteps, Zenon
  <2>2. n \in 0 .. n /\ \A k \in 1 .. n : k - 1 \in 0 .. n /\ k \in Nat
    BY <1>1
  <2>3. PICK d : /\ d[0] = p[n] /\ d[n] = FoldLeft(DropTurn, p[n], Indices(s.turns))
                 /\ \A k \in 1 .. n : d[k] = DropTurn(d[k - 1], k)
                 /\ \A k \in 0 .. n : d[k] \in States
    <3>1. p[n] \in States
      BY <2>1, <2>2
    <3> QED
      BY <1>1, <3>1, DropSteps, Zenon
  <2>4. Compressed(s) = d[n]
    BY <1>3, <2>1, <2>3, Zenon DEF Compressed
  <2>5. d[n] \in States /\ Drops(p[n], d, n)
    BY <2>2, <2>3 DEF Drops
  <2>6. ASSUME NEW q, \A i, z \in Nat : q[<<i, z>>] = SummaryOf(i, z)
        PROVE  Condenses(q, s, p, n)
    <3>1. ASSUME NEW k \in 1 .. n
          PROVE  p[k] = Condense(q, p[k - 1], k)
      <4>1. p[k] = SummarizeTurn(p[k - 1], k) /\ p[k - 1] \in States /\ k \in Nat
        BY <2>1, <2>2
      <4>2. ASSUME k \in Pass!Summarizable(p[k - 1].turns)
            PROVE  q[<<k, p[k - 1].turns[k].size>>] = SummaryOf(k, p[k - 1].turns[k].size)
        <5>1. p[k - 1].turns \in Seq(Pass!Turn) /\ k \in DOMAIN p[k - 1].turns
          BY <4>1, <4>2 DEF States, Pass!Summarizable, Pass!Observations
        <5>2. p[k - 1].turns[k] \in Pass!Turn
          BY <5>1
        <5>3. p[k - 1].turns[k].size \in Nat
          BY <5>2 DEF Pass!Turn
        <5> QED
          BY <2>6, <4>1, <5>3
      <4> QED
        BY <4>1, <4>2 DEF SummarizeTurn, Condense
    <3> QED
      BY <2>1, <3>1 DEF Condenses
  <2> HIDE DEF n
  <2>7. \A q : (\A i, z \in Nat : q[<<i, z>>] = SummaryOf(i, z)) =>
          Condenses(q, s, p, n) /\ Drops(p[n], d, n) /\ Compressed(s) = d[n]
    BY <2>4, <2>5, <2>6
  <2> QED
    BY <1>3, <2>4, <2>5, <2>7 DEF Ends, n
<1> QED
  BY <1>2, <1>3

Block == [role : {"user", "assistant", "tool"}, form : Pass!Form, size : Nat]
Prompt == Seq(Block)
Progress == [prompts : Seq(Prompt), state : States]

LEMMA BlocksType ==
  ASSUME NEW t \in Seq(Pass!Turn)
  PROVE  Blocks(t) \in Prompt /\ Len(Blocks(t)) = Len(t)
<1>1. \A i \in DOMAIN t : t[i] \in Pass!Turn
  OBVIOUS
<1>2. \A i \in DOMAIN t : [role |-> t[i].role, form |-> t[i].form, size |-> t[i].size] \in Block
  BY <1>1 DEF Pass!Turn, Block
<1>3. DOMAIN t = 1 .. Len(t) /\ Len(t) \in Nat
  OBVIOUS
<1> QED
  BY <1>2, <1>3 DEF Blocks, Prompt

LEMMA TurnsTypes ==
  ASSUME NEW ms \in Seq(Message), NEW k \in DOMAIN ms
  PROVE  TurnsOf(ms)[k] \in Pass!Turn /\ TurnsOf(ms)[k] = TurnOf(ms[k])
<1>1. ms[k] \in Message
  OBVIOUS
<1> QED
  BY <1>1 DEF TurnsOf, TurnOf, Message, Pass!Turn, Pass!Form

LEMMA MessageType ==
  ASSUME asked \in Seq(Nat), said \in Seq(Nat), NEW ms \in Seq(Message), NEW c,
         NEW r \in Progress, NEW k \in DOMAIN ms
  PROVE  /\ ReplayMessage(ms, c, r, k) \in Progress
         /\ Grown(ms, r.state, k) \in States
         /\ ReplayMessage(ms, c, r, k).prompts = PromptsAfter(ms, r, k)
         /\ ReplayMessage(ms, c, r, k).state =
              IF c /\ RoundEnds(ms, k) THEN Compressed(Grown(ms, r.state, k))
              ELSE Grown(ms, r.state, k)
<1>1. /\ r.prompts \in Seq(Prompt) /\ r.state.turns \in Seq(Pass!Turn)
      /\ r.state.charged \in Seq(Nat)
  BY DEF Progress, States
<1>2. Grown(ms, r.state, k) \in States
  <2>1. TurnsOf(ms)[k] \in Pass!Turn
    BY TurnsTypes
  <2>2. Append(r.state.turns, TurnsOf(ms)[k]) \in Seq(Pass!Turn)
    BY <1>1, <2>1
  <2> QED
    BY <1>1, <2>2, StateType DEF Grown
<1>3. Compressed(Grown(ms, r.state, k)) \in States
  BY <1>2, CompressedEnds
<1>4. PromptsAfter(ms, r, k) \in Seq(Prompt)
  <2>1. Blocks(r.state.turns) \in Prompt
    BY <1>1, BlocksType
  <2> QED
    BY <1>1, <2>1 DEF PromptsAfter
<1>5. ReplayMessage(ms, c, r, k) =
        [prompts |-> PromptsAfter(ms, r, k),
         state |-> IF c /\ RoundEnds(ms, k) THEN Compressed(Grown(ms, r.state, k))
                   ELSE Grown(ms, r.state, k)]
  BY DEF ReplayMessage, PromptsAfter, Grown, EndRound
<1> QED
  BY <1>2, <1>3, <1>4, <1>5 DEF Progress

LEMMA NothingType == Nothing \in Progress
<1>1. <<>> \in Seq(Pass!Turn) /\ <<>> \in Seq(Nat) /\ <<>> \in Seq(Prompt)
  OBVIOUS
<1>2. State(<<>>, <<>>) \in States
  BY <1>1, StateType
<1> QED
  BY <1>1, <1>2 DEF Nothing, Progress

LEMMA ReplaySteps ==
  ASSUME asked \in Seq(Nat), said \in Seq(Nat), NEW ms \in Seq(Message), NEW c
  PROVE  \E p : /\ p[0] = Nothing /\ p[Len(ms)] = ReplayPrompts(ms, c)
                /\ \A k \in 1 .. Len(ms) : p[k] = ReplayMessage(ms, c, p[k - 1], k)
                /\ \A k \in 0 .. Len(ms) : p[k] \in Progress
<1> DEFINE n == Len(ms)
           u == Indices(ms)
           T == DOMAIN ms
           R == Progress
           f == [xr \in T \X R |-> ReplayMessage(ms, c, xr[2], xr[1])]
           Eq(h, S) == h[S] = IF S = {} THEN Nothing ELSE ReplayMessage(ms, c, h[S \ {Max(S)}], u[Max(S)])
<1>1. /\ n \in Nat /\ u \in Seq(T) /\ DOMAIN u = 1 .. n /\ Nothing \in R
      /\ \A k \in 1 .. n : u[k] = k /\ k \in T
  BY NothingType DEF Indices
<1>2. \A x \in T, r \in R : ReplayMessage(ms, c, r, x) \in R
  BY MessageType
<1> HIDE DEF u
<1>3. PICK h \in [SUBSET DOMAIN u -> R] : FoldsLeft(h, u, f, Nothing)
  <2>1. StepsIn(f, T, R)
    BY <1>2 DEF StepsIn
  <2> HIDE DEF f, R, T, n
  <2> QED
    BY <1>1, <2>1, FoldLeftExists
<1>4. ASSUME NEW S \in SUBSET DOMAIN u
      PROVE  Eq(h, S)
  <2>1. h[S] = IF S = {} THEN Nothing ELSE f[<<u[Max(S)], h[S \ {Max(S)}]>>]
    BY <1>3, Zenon DEF FoldsLeft
  <2>2. CASE S = {}
    BY <2>1, <2>2
  <2>3. CASE S # {}
    <3> HIDE DEF R, T, n
    <3>0. n \in Nat /\ S \subseteq Nat /\ \A x \in S : x <= n
      BY <1>1
    <3>1. Max(S) \in S
      BY <2>3, <3>0, MaxIsMember
    <3>2. u[Max(S)] \in T /\ h[S \ {Max(S)}] \in R
      BY <1>1, <3>1
    <3> QED
      BY <2>1, <2>3, <3>2
  <2> QED
    BY <2>2, <2>3
<1> DEFINE iter == CHOOSE h_1 : h_1 = [S \in SUBSET DOMAIN u |->
                     IF S = {} THEN Nothing ELSE ReplayMessage(ms, c, h_1[S \ {Max(S)}], u[Max(S)])]
<1>5. ReplayPrompts(ms, c) = iter[DOMAIN u]
  BY Zenon DEF FoldLeft, MapThenFoldSet, u, ReplayPrompts, Nothing
<1>6. h = [S \in SUBSET DOMAIN u |-> IF S = {} THEN Nothing ELSE ReplayMessage(ms, c, h[S \ {Max(S)}], u[Max(S)])]
  BY <1>4
<1>7. iter = [S \in SUBSET DOMAIN u |-> IF S = {} THEN Nothing ELSE ReplayMessage(ms, c, iter[S \ {Max(S)}], u[Max(S)])]
  BY <1>6, Zenon
<1> HIDE DEF iter, n, T
<1>8. ASSUME NEW k \in 1 .. n
      PROVE  iter[1 .. k] = ReplayMessage(ms, c, iter[1 .. k - 1], k)
  <2>1. k \in Nat /\ k # 0 /\ k \in 1 .. k /\ 1 .. k \subseteq 1 .. n
    BY <1>1
  <2>2. 1 .. k \in SUBSET DOMAIN u /\ 1 .. k # {}
    BY <1>1, <2>1
  <2>3. Max(1 .. k) = k /\ (1 .. k) \ {k} = 1 .. k - 1 /\ u[k] = k
    BY <1>1, <2>1, Prefix
  <2>4. iter[1 .. k] = ReplayMessage(ms, c, iter[(1 .. k) \ {Max(1 .. k)}], u[Max(1 .. k)])
    BY <1>7, <2>2, Zenon
  <2> QED
    BY <2>2, <2>3, <2>4
<1>9. iter[1 .. 0] = Nothing
  BY <1>7
<1> DEFINE p == [k \in 0 .. n |-> iter[1 .. k]]
<1>10. /\ p[0] = Nothing /\ p[n] = ReplayPrompts(ms, c)
       /\ \A k \in 1 .. n : p[k] = ReplayMessage(ms, c, p[k - 1], k)
  <2>1. \A k \in 0 .. n : p[k] = iter[1 .. k]
    OBVIOUS
  <2>2. 0 \in 0 .. n /\ n \in 0 .. n /\ \A k \in 1 .. n : k \in 0 .. n /\ k - 1 \in 0 .. n
    BY <1>1
  <2> HIDE DEF p
  <2> QED
    BY <1>1, <1>5, <1>8, <1>9, <2>1, <2>2
<1> HIDE DEF p, R
<1>11. \A k \in 0 .. n : p[k] \in R
  <2>1. ASSUME NEW k \in 1 .. n, p[k - 1] \in R
        PROVE  p[k] \in R
    BY <1>1, <1>2, <1>10, <2>1
  <2> QED
    BY <1>1, <1>10, <2>1, Chain
<1> QED
  BY <1>10, <1>11 DEF n, R

(* A finished recording is replayed to what the live loop has done.        *)
LEMMA ReplayExact ==
  ASSUME ReplayInv, pc = "done", stop # "error"
  PROVE  /\ ReplayPrompts(recorded, compressing).prompts = sent
         /\ IsPrefix(asked, ReplayPrompts(recorded, compressing).state.charged)
<1> DEFINE m == Len(recorded)
           c == compressing
           q == Recalled
<1>1. /\ asked \in Seq(Nat) /\ said \in Seq(Nat) /\ recorded \in Seq(Message)
  BY DEF ReplayInv, RecordedInv, SaidInv, IInv, TypeOK, Pass!PassVarsOK
<1>2. PICK r : /\ r[0] = Nothing /\ r[m] = ReplayPrompts(recorded, c)
               /\ \A k \in 1 .. m : r[k] = ReplayMessage(recorded, c, r[k - 1], k)
               /\ \A k \in 0 .. m : r[k] \in Progress
  BY <1>1, ReplaySteps
<1>3. \A i, z \in Nat : q[<<i, z>>] = SummaryOf(i, z)
  BY RecalledAgrees DEF ReplayInv
<1> HIDE DEF q, c
<1>4. ASSUME NEW k \in 1 .. m
      PROVE  /\ r[k].prompts = PromptsAfter(recorded, r[k - 1], k)
             /\ IF c /\ RoundEnds(recorded, k)
                THEN Ends(q, Grown(recorded, r[k - 1].state, k), r[k].state)
                ELSE r[k].state = Grown(recorded, r[k - 1].state, k)
  <2>1. k \in DOMAIN recorded /\ k - 1 \in 0 .. m
    BY <1>1
  <2>2. r[k] = ReplayMessage(recorded, c, r[k - 1], k) /\ r[k - 1] \in Progress
    BY <1>2, <2>1
  <2>3. /\ Grown(recorded, r[k - 1].state, k) \in States
        /\ r[k].prompts = PromptsAfter(recorded, r[k - 1], k)
        /\ r[k].state = IF c /\ RoundEnds(recorded, k)
                        THEN Compressed(Grown(recorded, r[k - 1].state, k))
                        ELSE Grown(recorded, r[k - 1].state, k)
    <3>1. recorded \in Seq(Message) /\ k \in DOMAIN recorded /\ r[k - 1] \in Progress
      BY <1>1, <2>1, <2>2
    <3>2. /\ Grown(recorded, r[k - 1].state, k) \in States
          /\ ReplayMessage(recorded, c, r[k - 1], k).prompts = PromptsAfter(recorded, r[k - 1], k)
          /\ ReplayMessage(recorded, c, r[k - 1], k).state
               = IF c /\ RoundEnds(recorded, k)
                 THEN Compressed(Grown(recorded, r[k - 1].state, k))
                 ELSE Grown(recorded, r[k - 1].state, k)
      BY ONLY <1>1, <3>1, MessageType
    <3> QED
      BY <2>2, <3>2
  <2>4. Ends(q, Grown(recorded, r[k - 1].state, k), Compressed(Grown(recorded, r[k - 1].state, k)))
    BY <1>1, <1>3, <2>3, CompressedEnds
  <2> QED
    BY <2>3, <2>4
<1>5. Replays(q, c, recorded, r, m)
  BY <1>2, <1>4 DEF Replays
<1>6. Follows(q)
  BY RecalledAgrees DEF ReplayInv, q
<1>7. r[m].prompts = sent /\ IsPrefix(asked, r[m].state.charged)
  BY <1>5, <1>6 DEF Follows, c
<1> QED
  BY <1>2, <1>7 DEF c

(* A recorded run replayed sends, turn by turn, the very prompts the live  *)
(* loop sent, in either arm.                                               *)
THEOREM ReplaysTheorem == ReplaySpec => []ReplaysLivePrompts
<1>1. ReplayInv => ReplaysLivePrompts
  BY ReplayExact DEF ReplaysLivePrompts, Finished
<1> QED
  BY <1>1, ReplayInvariant, PTL

(* The replay charges every summarizer call of the live loop, in its order. *)
THEOREM OverheadTheorem == ReplaySpec => []OverheadNotUnderstated
<1>1. ASSUME ReplayInv
      PROVE  OverheadNotUnderstated
  <2> SUFFICES ASSUME Finished, compressing
               PROVE  IsPrefix(asked, ReplayPrompts(recorded, TRUE).state.charged)
    BY DEF OverheadNotUnderstated
  <2>1. compressing = TRUE
    BY <1>1 DEF ReplayInv, IInv, TypeOK
  <2> QED
    BY <1>1, <2>1, ReplayExact DEF Finished
<1> QED
  BY <1>1, ReplayInvariant, PTL

-----------------------------------------------------------------------------
(* What the baseline pays                                                  *)

LEMMA TotalType ==
  ASSUME NEW t \in Prompt
  PROVE  Pass!Total(t) \in Nat
<1> DEFINE w == [i \in DOMAIN t |-> t[i].size]
           Sum(h) == [s \in SUBSET DOMAIN w |->
                        IF s = {} THEN 0
                        ELSE w[CHOOSE x \in s : TRUE] + h[s \ {CHOOSE x \in s : TRUE}]]
<1>1. IsFiniteSet(DOMAIN w) /\ w \in [DOMAIN w -> Nat]
  <2>1. DOMAIN w = 1 .. Len(t) /\ Len(t) \in Nat /\ \A i \in 1 .. Len(t) : t[i] \in Block
    BY DEF Prompt
  <2>2. \A i \in 1 .. Len(t) : t[i].size \in Nat
    BY <2>1 DEF Block
  <2>3. IsFiniteSet(DOMAIN w)
    <3>1. IsFiniteSet(1 .. Len(t))
      BY <2>1, FS_Interval
    <3> QED
      BY <2>1, <3>1
  <2>4. \A i \in DOMAIN w : w[i] \in Nat
    BY <2>1, <2>2
  <2>5. w \in [DOMAIN w -> Nat]
    BY <2>4
  <2> QED
    BY <2>3, <2>5
<1>2. Pass!Total(t) = (CHOOSE h : h = Sum(h))[DOMAIN w]
  BY Zenon DEF Pass!Total, Pass!SumFunction, Pass!SumFunctionOnSet, Pass!FoldFunctionOnSet,
     Pass!MapThenFoldSet
<1> HIDE DEF w
<1>3. (\E g : Sums(g, DOMAIN w, w)) /\ \A h : Sums(h, DOMAIN w, w) => h[DOMAIN w] \in Nat
  BY <1>1, SumFacts
<1>4. (\E g : g = Sum(g)) /\ \A h : h = Sum(h) => h[DOMAIN w] \in Nat
  BY <1>3 DEF Sums
<1> QED
  BY <1>2, <1>4, Zenon

(* b has what a has, and perhaps more.                                     *)
Prefixed(a, b) == Len(a) <= Len(b) /\ \A k \in 1 .. Len(a) : b[k] = a[k]

LEMMA CommonPrefix ==
  ASSUME NEW a \in Prompt, NEW b \in Prompt, Prefixed(a, b)
  PROVE  LongestCommonPrefix({a, b}) = a
<1> DEFINE C == CommonPrefixes({a, b})
           l == LongestCommonPrefix({a, b})
<1>1. Len(a) \in Nat /\ Len(b) \in Nat /\ Len(a) <= Len(b) /\ a \in Seq(Block) /\ b \in Seq(Block)
  BY DEF Prompt, Prefixed
<1>2. SubSeq(a, 1, Len(a)) = a /\ SubSeq(b, 1, Len(a)) = a
  BY <1>1 DEF Prefixed
<1>3. a \in Prefixes(a)
  <2>1. Len(a) \in 0 .. Len(a)
    BY <1>1
  <2> QED
    BY <1>2, <2>1 DEF Prefixes
<1>4. a \in C
  <2>1. IsPrefix(a, a) /\ IsPrefix(a, b)
    BY <1>1, <1>2 DEF IsPrefix
  <2> QED
    BY <1>3, <2>1 DEF CommonPrefixes
<1>5. ASSUME NEW x \in C
      PROVE  /\ Len(x) \in Nat /\ Len(x) <= Len(a)
             /\ Len(x) = Len(a) => x = a
  <2>1. IsPrefix(x, a) /\ (x \in Prefixes(a) \/ x \in Prefixes(b))
    BY <1>5 DEF CommonPrefixes
  <2>2. x \in Seq(Block)
    <3>1. ASSUME NEW y \in Seq(Block), x \in Prefixes(y)
          PROVE  x \in Seq(Block)
      <4>1. PICK j \in 0 .. Len(y) : x = SubSeq(y, 1, j)
        BY <3>1 DEF Prefixes
      <4> QED
        BY <4>1
    <3> QED
      BY <1>1, <2>1, <3>1
  <2>3. SubSeq(x, 1, Len(x)) = x
    BY <2>2
  <2>4. Len(x) \in Nat /\ Len(x) <= Len(a) /\ x = SubSeq(a, 1, Len(x))
    BY <2>1, <2>2, <2>3 DEF IsPrefix
  <2>5. Len(x) = Len(a) => x = SubSeq(a, 1, Len(a))
    BY <2>4
  <2> QED
    BY <1>2, <2>4, <2>5
<1>6. l = CHOOSE x \in C : \A y \in C : Len(y) <= Len(x)
  BY Zenon DEF LongestCommonPrefix
<1>7. \E x \in C : \A y \in C : Len(y) <= Len(x)
  BY <1>4, <1>5
<1> HIDE DEF C, l
<1>8. l \in C /\ \A y \in C : Len(y) <= Len(l)
  BY <1>6, <1>7, Zenon
<1>9. Len(l) <= Len(a) /\ Len(a) <= Len(l) /\ Len(l) \in Nat
  BY <1>4, <1>5, <1>8
<1> QED
  BY <1>1, <1>5, <1>8, <1>9 DEF l

LEMMA InputSteps ==
  ASSUME NEW prompts \in Seq(Prompt)
  PROVE  \E p : /\ p[0] = 0 /\ p[Len(prompts)] = Input(prompts)
                /\ \A k \in 1 .. Len(prompts) : p[k] = p[k - 1] + PromptTokens(prompts[k])
                /\ \A k \in 0 .. Len(prompts) : p[k] \in Nat
<1> DEFINE n == Len(prompts)
           u == prompts
           T == Prompt
           R == Nat
           f == [xr \in T \X R |-> xr[2] + PromptTokens(xr[1])]
           Eq(h, S) == h[S] = IF S = {} THEN 0 ELSE h[S \ {Max(S)}] + PromptTokens(u[Max(S)])
<1>1. /\ n \in Nat /\ u \in Seq(T) /\ DOMAIN u = 1 .. n /\ 0 \in R
      /\ \A k \in 1 .. n : u[k] = prompts[k] /\ prompts[k] \in T
  OBVIOUS
<1>2. \A x \in T, r \in R : r + PromptTokens(x) \in R
  BY TotalType, ReplayAssumption DEF PromptTokens
<1> HIDE DEF u
<1>3. PICK h \in [SUBSET DOMAIN u -> R] : FoldsLeft(h, u, f, 0)
  <2>1. StepsIn(f, T, R)
    BY <1>2 DEF StepsIn
  <2> HIDE DEF f, R, T, n
  <2> QED
    BY <1>1, <2>1, FoldLeftExists
<1>4. ASSUME NEW S \in SUBSET DOMAIN u
      PROVE  Eq(h, S)
  <2>1. h[S] = IF S = {} THEN 0 ELSE f[<<u[Max(S)], h[S \ {Max(S)}]>>]
    BY <1>3, Zenon DEF FoldsLeft
  <2>2. CASE S = {}
    BY <2>1, <2>2
  <2>3. CASE S # {}
    <3> HIDE DEF R, T, n
    <3>0. n \in Nat /\ S \subseteq Nat /\ \A x \in S : x <= n
      BY <1>1
    <3>1. Max(S) \in S
      BY <2>3, <3>0, MaxIsMember
    <3>2. u[Max(S)] \in T /\ h[S \ {Max(S)}] \in R
      BY <1>1, <3>1
    <3> QED
      BY <2>1, <2>3, <3>2
  <2> QED
    BY <2>2, <2>3
<1> DEFINE iter == CHOOSE h_1 : h_1 = [S \in SUBSET DOMAIN u |->
                     IF S = {} THEN 0 ELSE h_1[S \ {Max(S)}] + PromptTokens(u[Max(S)])]
<1>5. Input(prompts) = iter[DOMAIN u]
  BY Zenon DEF FoldLeft, MapThenFoldSet, u, Input
<1>6. h = [S \in SUBSET DOMAIN u |-> IF S = {} THEN 0 ELSE h[S \ {Max(S)}] + PromptTokens(u[Max(S)])]
  BY <1>4
<1>7. iter = [S \in SUBSET DOMAIN u |-> IF S = {} THEN 0 ELSE iter[S \ {Max(S)}] + PromptTokens(u[Max(S)])]
  BY <1>6, Zenon
<1> HIDE DEF iter, n, T
<1>8. ASSUME NEW k \in 1 .. n
      PROVE  iter[1 .. k] = iter[1 .. k - 1] + PromptTokens(prompts[k])
  <2>1. k \in Nat /\ k # 0 /\ k \in 1 .. k /\ 1 .. k \subseteq 1 .. n
    BY <1>1
  <2>2. 1 .. k \in SUBSET DOMAIN u /\ 1 .. k # {}
    BY <1>1, <2>1
  <2>3. Max(1 .. k) = k /\ (1 .. k) \ {k} = 1 .. k - 1 /\ u[k] = prompts[k]
    BY <1>1, <2>1, Prefix
  <2>4. iter[1 .. k] = iter[(1 .. k) \ {Max(1 .. k)}] + PromptTokens(u[Max(1 .. k)])
    BY <1>7, <2>2, Zenon
  <2> QED
    BY <2>2, <2>3, <2>4
<1>9. iter[1 .. 0] = 0
  BY <1>7
<1> DEFINE p == [k \in 0 .. n |-> iter[1 .. k]]
<1>10. /\ p[0] = 0 /\ p[n] = Input(prompts)
       /\ \A k \in 1 .. n : p[k] = p[k - 1] + PromptTokens(prompts[k])
  <2>1. \A k \in 0 .. n : p[k] = iter[1 .. k]
    OBVIOUS
  <2>2. 0 \in 0 .. n /\ n \in 0 .. n /\ \A k \in 1 .. n : k \in 0 .. n /\ k - 1 \in 0 .. n
    BY <1>1
  <2> HIDE DEF p
  <2> QED
    BY <1>1, <1>5, <1>8, <1>9, <2>1, <2>2
<1> HIDE DEF p, R
<1>11. \A k \in 0 .. n : p[k] \in R
  <2>1. ASSUME NEW k \in 1 .. n, p[k - 1] \in R
        PROVE  p[k] \in R
    BY <1>1, <1>2, <1>10, <2>1
  <2> QED
    BY <1>1, <1>10, <2>1, Chain
<1> QED
  BY <1>10, <1>11 DEF n, R

LEMMA CachedSteps ==
  ASSUME NEW prompts \in Seq(Prompt), \A k \in DOMAIN prompts : CachedOf(prompts, k) \in Nat
  PROVE  \E p : /\ p[0] = 0 /\ p[Len(prompts)] = Cached(prompts)
                /\ \A k \in 1 .. Len(prompts) : p[k] = p[k - 1] + CachedOf(prompts, k)
                /\ \A k \in 0 .. Len(prompts) : p[k] \in Nat
<1> DEFINE n == Len(prompts)
           u == Indices(prompts)
           T == DOMAIN prompts
           R == Nat
           f == [xr \in T \X R |-> xr[2] + CachedOf(prompts, xr[1])]
           Eq(h, S) == h[S] = IF S = {} THEN 0 ELSE h[S \ {Max(S)}] + CachedOf(prompts, u[Max(S)])
<1>1. /\ n \in Nat /\ u \in Seq(T) /\ DOMAIN u = 1 .. n /\ 0 \in R
      /\ \A k \in 1 .. n : u[k] = k /\ k \in T
  BY DEF Indices
<1>2. \A x \in T, r \in R : r + CachedOf(prompts, x) \in R
  OBVIOUS
<1> HIDE DEF u
<1>3. PICK h \in [SUBSET DOMAIN u -> R] : FoldsLeft(h, u, f, 0)
  <2>1. StepsIn(f, T, R)
    BY <1>2 DEF StepsIn
  <2> HIDE DEF f, R, T, n
  <2> QED
    BY <1>1, <2>1, FoldLeftExists
<1>4. ASSUME NEW S \in SUBSET DOMAIN u
      PROVE  Eq(h, S)
  <2>1. h[S] = IF S = {} THEN 0 ELSE f[<<u[Max(S)], h[S \ {Max(S)}]>>]
    BY <1>3, Zenon DEF FoldsLeft
  <2>2. CASE S = {}
    BY <2>1, <2>2
  <2>3. CASE S # {}
    <3> HIDE DEF R, T, n
    <3>0. n \in Nat /\ S \subseteq Nat /\ \A x \in S : x <= n
      BY <1>1
    <3>1. Max(S) \in S
      BY <2>3, <3>0, MaxIsMember
    <3>2. u[Max(S)] \in T /\ h[S \ {Max(S)}] \in R
      BY <1>1, <3>1
    <3> QED
      BY <2>1, <2>3, <3>2
  <2> QED
    BY <2>2, <2>3
<1> DEFINE iter == CHOOSE h_1 : h_1 = [S \in SUBSET DOMAIN u |->
                     IF S = {} THEN 0 ELSE h_1[S \ {Max(S)}] + CachedOf(prompts, u[Max(S)])]
<1>5. Cached(prompts) = iter[DOMAIN u]
  BY Zenon DEF FoldLeft, MapThenFoldSet, u, Cached
<1>6. h = [S \in SUBSET DOMAIN u |-> IF S = {} THEN 0 ELSE h[S \ {Max(S)}] + CachedOf(prompts, u[Max(S)])]
  BY <1>4
<1>7. iter = [S \in SUBSET DOMAIN u |-> IF S = {} THEN 0 ELSE iter[S \ {Max(S)}] + CachedOf(prompts, u[Max(S)])]
  BY <1>6, Zenon
<1> HIDE DEF iter, n, T
<1>8. ASSUME NEW k \in 1 .. n
      PROVE  iter[1 .. k] = iter[1 .. k - 1] + CachedOf(prompts, k)
  <2>1. k \in Nat /\ k # 0 /\ k \in 1 .. k /\ 1 .. k \subseteq 1 .. n
    BY <1>1
  <2>2. 1 .. k \in SUBSET DOMAIN u /\ 1 .. k # {}
    BY <1>1, <2>1
  <2>3. Max(1 .. k) = k /\ (1 .. k) \ {k} = 1 .. k - 1 /\ u[k] = k
    BY <1>1, <2>1, Prefix
  <2>4. iter[1 .. k] = iter[(1 .. k) \ {Max(1 .. k)}] + CachedOf(prompts, u[Max(1 .. k)])
    BY <1>7, <2>2, Zenon
  <2> QED
    BY <2>2, <2>3, <2>4
<1>9. iter[1 .. 0] = 0
  BY <1>7
<1> DEFINE p == [k \in 0 .. n |-> iter[1 .. k]]
<1>10. /\ p[0] = 0 /\ p[n] = Cached(prompts)
       /\ \A k \in 1 .. n : p[k] = p[k - 1] + CachedOf(prompts, k)
  <2>1. \A k \in 0 .. n : p[k] = iter[1 .. k]
    OBVIOUS
  <2>2. 0 \in 0 .. n /\ n \in 0 .. n /\ \A k \in 1 .. n : k \in 0 .. n /\ k - 1 \in 0 .. n
    BY <1>1
  <2> HIDE DEF p
  <2> QED
    BY <1>1, <1>5, <1>8, <1>9, <2>1, <2>2
<1> HIDE DEF p, R
<1>11. \A k \in 0 .. n : p[k] \in R
  <2>1. ASSUME NEW k \in 1 .. n, p[k - 1] \in R
        PROVE  p[k] \in R
    BY <1>1, <1>2, <1>10, <2>1
  <2> QED
    BY <1>1, <1>10, <2>1, Chain
<1> QED
  BY <1>10, <1>11 DEF n, R

(* Prompts that each go on where the one before ends cost, fresh, what the *)
(* last one costs.                                                         *)
LEMMA PaidOnce ==
  ASSUME NEW prompts \in Seq(Prompt), prompts # <<>>,
         \A k \in 1 .. Len(prompts) : k > 1 => Prefixed(prompts[k - 1], prompts[k])
  PROVE  Fresh(prompts) = PromptTokens(Last(prompts))
<1> DEFINE n == Len(prompts)
<1>1. n \in Nat /\ n # 0 /\ DOMAIN prompts = 1 .. n /\ \A k \in 1 .. n : prompts[k] \in Prompt
  OBVIOUS
<1>2. ASSUME NEW k \in 1 .. n
      PROVE  /\ CachedOf(prompts, k) = IF k = 1 THEN 0 ELSE PromptTokens(prompts[k - 1])
             /\ CachedOf(prompts, k) \in Nat
  <2>1. CASE k = 1
    BY <2>1 DEF CachedOf
  <2>2. CASE k # 1
    <3>1. k - 1 \in 1 .. n /\ k > 1
      BY <1>1, <2>2
    <3>2. LongestCommonPrefix({prompts[k - 1], prompts[k]}) = prompts[k - 1]
      BY <1>1, <3>1, CommonPrefix
    <3>3. CachedOf(prompts, k) = PromptTokens(prompts[k - 1])
      BY <2>2, <3>2 DEF CachedOf, PromptTokens
    <3>4. PromptTokens(prompts[k - 1]) \in Nat
      BY <1>1, <3>1, TotalType, ReplayAssumption DEF PromptTokens
    <3> QED
      BY <2>2, <3>3, <3>4
  <2> QED
    BY <2>1, <2>2
<1>3. PICK a : /\ a[0] = 0 /\ a[n] = Input(prompts)
               /\ \A k \in 1 .. n : a[k] = a[k - 1] + PromptTokens(prompts[k])
               /\ \A k \in 0 .. n : a[k] \in Nat
  BY InputSteps
<1>4. PICK b : /\ b[0] = 0 /\ b[n] = Cached(prompts)
               /\ \A k \in 1 .. n : b[k] = b[k - 1] + CachedOf(prompts, k)
               /\ \A k \in 0 .. n : b[k] \in Nat
  <2>1. \A k \in DOMAIN prompts : CachedOf(prompts, k) \in Nat
    BY <1>1, <1>2
  <2> HIDE DEF n
  <2> QED
    BY <2>1, CachedSteps DEF n
<1>5. \A k \in 1 .. n : PromptTokens(prompts[k]) \in Nat
  BY <1>1, TotalType, ReplayAssumption DEF PromptTokens
<1> HIDE DEF n
<1> DEFINE N == {k \in Nat : k < n => a[k + 1] - b[k + 1] = PromptTokens(prompts[k + 1])}
<1>6. 0 \in N
  <2>1. 1 \in 1 .. n /\ 1 - 1 = 0
    BY <1>1
  <2>2. a[1] = 0 + PromptTokens(prompts[1]) /\ b[1] = 0 + 0
    BY <1>2, <1>3, <1>4, <2>1
  <2>3. PromptTokens(prompts[1]) \in Nat
    BY <1>5, <2>1
  <2> QED
    BY <2>2, <2>3
<1>7. ASSUME NEW k \in Nat, k \in N
      PROVE  k + 1 \in N
  <2> SUFFICES ASSUME k + 1 < n
               PROVE  a[(k + 1) + 1] - b[(k + 1) + 1] = PromptTokens(prompts[(k + 1) + 1])
    OBVIOUS
  <2> DEFINE i == k + 1
             j == i + 1
  <2>1. /\ i \in 1 .. n /\ j \in 1 .. n /\ j - 1 = i /\ j # 1 /\ k < n
        /\ i \in 0 .. n
    BY <1>1
  <2>2. a[i] - b[i] = PromptTokens(prompts[i])
    BY <1>7, <2>1
  <2> HIDE DEF i, j
  <2>3. a[j] = a[i] + PromptTokens(prompts[j])
    BY <1>3, <2>1
  <2>4. b[j] = b[i] + PromptTokens(prompts[i])
    BY <1>2, <1>4, <2>1
  <2>5. a[i] \in Nat /\ b[i] \in Nat /\ PromptTokens(prompts[j]) \in Nat
    BY <1>3, <1>4, <1>5, <2>1
  <2>6. a[j] - b[j] = PromptTokens(prompts[j])
    BY <2>2, <2>3, <2>4, <2>5
  <2> QED
    BY <2>6 DEF i, j
<1>8. n - 1 \in N
  <2>1. Nat \subseteq N
    <3> HIDE DEF N
    <3> QED
      BY <1>6, <1>7, NatSet
  <2>2. n - 1 \in Nat
    BY <1>1
  <2> HIDE DEF N
  <2> QED
    BY <2>1, <2>2
<1>9. a[n] - b[n] = PromptTokens(prompts[n])
  <2>1. n - 1 < n /\ (n - 1) + 1 = n
    BY <1>1
  <2>2. a[(n - 1) + 1] - b[(n - 1) + 1] = PromptTokens(prompts[(n - 1) + 1])
    BY <1>8, <2>1
  <2> QED
    BY <2>1, <2>2
<1> QED
  BY <1>3, <1>4, <1>9 DEF Fresh, Last, n

LEMMA PrefixedOn ==
  ASSUME NEW a \in Prompt, NEW b \in Prompt, NEW c \in Prompt, Prefixed(a, b), Prefixed(b, c)
  PROVE  Prefixed(a, c)
<1>1. Len(a) \in Nat /\ Len(b) \in Nat /\ Len(c) \in Nat
  BY DEF Prompt
<1> QED
  BY <1>1 DEF Prefixed

LEMMA BlocksGrow ==
  ASSUME NEW t \in Seq(Pass!Turn), NEW x \in Pass!Turn
  PROVE  Prefixed(Blocks(t), Blocks(Append(t, x)))
<1>1. /\ Append(t, x) \in Seq(Pass!Turn) /\ Len(Append(t, x)) = Len(t) + 1 /\ Len(t) \in Nat
      /\ DOMAIN t = 1 .. Len(t) /\ DOMAIN Append(t, x) = 1 .. Len(t) + 1
      /\ \A k \in 1 .. Len(t) : Append(t, x)[k] = t[k]
  OBVIOUS
<1>2. Len(Blocks(t)) = Len(t) /\ Len(Blocks(Append(t, x))) = Len(t) + 1
  BY <1>1, BlocksType
<1>3. ASSUME NEW k \in 1 .. Len(t)
      PROVE  Blocks(Append(t, x))[k] = Blocks(t)[k]
  <2>1. k \in DOMAIN t /\ k \in DOMAIN Append(t, x) /\ Append(t, x)[k] = t[k]
    BY <1>1
  <2> QED
    BY <2>1 DEF Blocks
<1> QED
  BY <1>1, <1>2, <1>3 DEF Prefixed

(* In the baseline every prompt goes on where the one before ends.         *)
Growing(x) ==
  /\ x \in Progress
  /\ \A k \in 1 .. Len(x.prompts) : k > 1 => Prefixed(x.prompts[k - 1], x.prompts[k])
  /\ x.prompts # <<>> => Prefixed(x.prompts[Len(x.prompts)], Blocks(x.state.turns))

LEMMA GrowsOn ==
  ASSUME asked \in Seq(Nat), said \in Seq(Nat), NEW ms \in Seq(Message),
         NEW x, Growing(x), NEW k \in DOMAIN ms
  PROVE  LET y == ReplayMessage(ms, FALSE, x, k)
         IN  /\ Growing(y)
             /\ x.prompts # <<>> \/ ms[k].role = "assistant" => y.prompts # <<>>
<1> DEFINE y == ReplayMessage(ms, FALSE, x, k)
           t == x.state.turns
           b == Blocks(t)
           n == Len(x.prompts)
<1>1. /\ x \in Progress /\ x.prompts \in Seq(Prompt) /\ t \in Seq(Pass!Turn) /\ n \in Nat
  BY DEF Growing, Progress, States
<1>2. /\ y \in Progress /\ y.prompts = PromptsAfter(ms, x, k) /\ y.state = Grown(ms, x.state, k)
  BY <1>1, MessageType
<1>3. y.state.turns = Append(t, TurnsOf(ms)[k]) /\ TurnsOf(ms)[k] \in Pass!Turn
  <2>1. y.state.turns = Grown(ms, x.state, k).turns
    BY <1>2
  <2>2. Grown(ms, x.state, k).turns = Append(t, TurnsOf(ms)[k])
    BY StateParts DEF Grown
  <2> QED
    BY <2>1, <2>2, TurnsTypes
<1>4. /\ b \in Prompt /\ Blocks(y.state.turns) \in Prompt /\ Prefixed(b, Blocks(y.state.turns))
  <2>1. Append(t, TurnsOf(ms)[k]) \in Seq(Pass!Turn)
    BY <1>1, <1>3
  <2> QED
    BY <1>1, <1>3, <2>1, BlocksType, BlocksGrow
<1>5. /\ \A i \in 1 .. n : x.prompts[i] \in Prompt
      /\ \A i \in 1 .. n : i > 1 => Prefixed(x.prompts[i - 1], x.prompts[i])
      /\ n # 0 => Prefixed(x.prompts[n], b)
      /\ x.prompts # <<>> <=> n # 0
  BY <1>1 DEF Growing
<1> HIDE DEF y, b, t
<1>6. CASE ms[k].role = "assistant"
  <2>1. y.prompts = Append(x.prompts, b)
    BY <1>2, <1>6 DEF PromptsAfter, b, t
  <2>2. /\ Len(y.prompts) = n + 1 /\ y.prompts[n + 1] = b /\ y.prompts # <<>>
        /\ \A i \in 1 .. n : y.prompts[i] = x.prompts[i]
    <3>1. x.prompts \in Seq(Prompt) /\ b \in Prompt /\ n = Len(x.prompts)
      BY <1>1, <1>4
    <3> QED
      BY ONLY <2>1, <3>1
  <2>3. ASSUME NEW i \in 1 .. n + 1, i > 1
        PROVE  Prefixed(y.prompts[i - 1], y.prompts[i])
    <3>1. CASE i = n + 1
      <4>1. n # 0 /\ n \in 1 .. n /\ i - 1 = n
        BY <1>1, <2>3, <3>1
      <4> QED
        BY <1>5, <2>2, <3>1, <4>1
    <3>2. CASE i # n + 1
      <4>1. i \in 1 .. n /\ i - 1 \in 1 .. n
        BY <1>1, <2>3, <3>2
      <4> QED
        BY <1>5, <2>2, <2>3, <4>1
    <3> QED
      BY <3>1, <3>2
  <2> QED
    BY <1>2, <1>4, <2>2, <2>3 DEF Growing, y
<1>7. CASE ms[k].role # "assistant"
  <2>1. y.prompts = x.prompts
    BY <1>2, <1>7 DEF PromptsAfter
  <2>2. n # 0 => Prefixed(x.prompts[n], Blocks(y.state.turns))
    <3>1. ASSUME n # 0
          PROVE  Prefixed(x.prompts[n], Blocks(y.state.turns))
      <4>1. n \in 1 .. n
        BY <1>1, <3>1
      <4> QED
        BY <1>4, <1>5, <3>1, <4>1, PrefixedOn
    <3> QED
      BY <3>1
  <2> QED
    BY <1>2, <1>5, <1>7, <2>1, <2>2 DEF Growing, y
<1> QED
  BY <1>6, <1>7

LEMMA BaselinePays ==
  ASSUME ReplayInv, pc = "done", stop # "error"
  PROVE  LET prompts == ReplayPrompts(recorded, FALSE).prompts
         IN  Fresh(prompts) = PromptTokens(Last(prompts))
<1> DEFINE m == Len(recorded)
<1>1. /\ asked \in Seq(Nat) /\ said \in Seq(Nat) /\ recorded \in Seq(Message)
      /\ m \in Nat /\ DOMAIN recorded = 1 .. m
  BY DEF ReplayInv, RecordedInv, SaidInv, IInv, TypeOK, Pass!PassVarsOK
<1>2. PICK r : /\ r[0] = Nothing /\ r[m] = ReplayPrompts(recorded, FALSE)
               /\ \A k \in 1 .. m : r[k] = ReplayMessage(recorded, FALSE, r[k - 1], k)
               /\ \A k \in 0 .. m : r[k] \in Progress
  BY <1>1, ReplaySteps
<1>3. PICK l \in 1 .. m : recorded[l].role = "assistant"
  BY DEF ReplayInv, RecordedInv
<1> HIDE DEF m
<1> DEFINE N == {k \in Nat : k <= m => Growing(r[k]) /\ (l <= k => r[k].prompts # <<>>)}
<1>4. 0 \in N
  <2>1. r[0].prompts = <<>>
    BY <1>2 DEF Nothing
  <2>2. Growing(r[0])
    BY <1>2, <2>1, NothingType DEF Growing
  <2> QED
    BY <1>1, <2>2
<1>5. ASSUME NEW k \in Nat, k \in N
      PROVE  k + 1 \in N
  <2> SUFFICES ASSUME k + 1 <= m
               PROVE  Growing(r[k + 1]) /\ (l <= k + 1 => r[k + 1].prompts # <<>>)
    OBVIOUS
  <2> DEFINE j == k + 1
  <2>1. j \in 1 .. m /\ j - 1 = k /\ k <= m /\ (l <= j => l <= k \/ l = j)
    BY <1>1
  <2>2. Growing(r[k]) /\ (l <= k => r[k].prompts # <<>>)
    BY <1>5, <2>1
  <2> HIDE DEF j
  <2>3. r[j] = ReplayMessage(recorded, FALSE, r[k], j) /\ j \in DOMAIN recorded
    BY <1>1, <1>2, <2>1
  <2>4. Growing(r[j]) /\ (r[k].prompts # <<>> \/ recorded[j].role = "assistant" => r[j].prompts # <<>>)
    BY <1>1, <2>2, <2>3, GrowsOn
  <2>5. l <= j => r[j].prompts # <<>>
    BY <1>3, <2>1, <2>2, <2>4
  <2> QED
    BY <2>4, <2>5 DEF j
<1>6. m \in N
  <2> HIDE DEF N
  <2> QED
    BY <1>1, <1>4, <1>5, NatSet
<1>7. Growing(r[m]) /\ r[m].prompts # <<>>
  BY <1>1, <1>6
<1>8. r[m].prompts \in Seq(Prompt)
  BY <1>7 DEF Growing, Progress
<1>9. Fresh(r[m].prompts) = PromptTokens(Last(r[m].prompts))
  BY <1>7, <1>8, PaidOnce DEF Growing
<1> QED
  BY <1>2, <1>9

(* Without compression what is fresh adds up to the last prompt: a message *)
(* is paid in full when it is first sent, and comes from the cache after.  *)
THEOREM BaselineTheorem == ReplaySpec => []BaselinePaysOnce
<1>1. ReplayInv => BaselinePaysOnce
  BY BaselinePays DEF BaselinePaysOnce, Finished
<1> QED
  BY <1>1, ReplayInvariant, PTL
=============================================================================
