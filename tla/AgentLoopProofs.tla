-------------------------- MODULE AgentLoopProofs ---------------------------
(***************************************************************************)
(* For any budget, cap on turns and sizes: the inductive invariant IInv of *)
(* AgentLoop, and from it that no observation is summarized twice in a     *)
(* run, that the history is in whole rounds whenever it is sent or stored, *)
(* that the oldest context goes first in every pass, that the model gets a *)
(* prompt within the budget wherever that can be, and that compression     *)
(* changes nothing in the history but the contents of old results.         *)
(*                                                                         *)
(* The argument: a pass works on a copy that differs from the history only *)
(* in observations it may touch (CopyOfHistory), so writing it back does   *)
(* no more; and what was summarized bears a mark that the copy and the     *)
(* history keep (AskedMarked), so it is never chosen again.                *)
(***************************************************************************)
EXTENDS AgentLoop, DataLemmas

LEMMA OldestIsLeast ==
  ASSUME NEW S, S \subseteq Nat, S # {}
  PROVE  Pass!Oldest(S) \in S /\ \A j \in S : Pass!Oldest(S) <= j
BY LeastExists DEF Pass!Oldest

(* What is protected depends on the roles alone.                           *)
LEMMA ProtectedByRole ==
  ASSUME NEW s, NEW t, DOMAIN s = DOMAIN t, \A i \in DOMAIN s : s[i].role = t[i].role,
         NEW n \in Nat, DOMAIN s = 1 .. n
  PROVE  Pass!Protected(s) = Pass!Protected(t)
<1>1. \A i \in DOMAIN s : i \in Nat /\ \A j \in 1 .. i : j \in DOMAIN s
  OBVIOUS
<1> QED
  BY <1>1 DEF Pass!Protected

(* After a turn that is not protected and has an action before it there is *)
(* an action, too.                                                         *)
LEMMA LaterAction ==
  ASSUME NEW t, NEW n \in Nat, DOMAIN t = 1 .. n,
         NEW i \in DOMAIN t, i \notin Pass!Protected(t),
         NEW h \in DOMAIN t, h < i, t[h].role = "assistant"
  PROVE  \E j \in DOMAIN t : j > i /\ t[j].role = "assistant"
<1> SUFFICES ASSUME \A j \in DOMAIN t : t[j].role = "assistant" => j <= i
             PROVE  FALSE
  OBVIOUS
<1> DEFINE S == {k \in Nat : k <= n /\ n - k \in DOMAIN t /\ t[n - k].role = "assistant"}
<1>1. n - h \in Nat /\ n - h <= n /\ n - (n - h) = h
  OBVIOUS
<1>2. S \subseteq Nat /\ S # {}
  BY <1>1
<1>3. PICK k \in S : \A m \in S : k <= m
  BY <1>2, LeastExists
<1>4. n - k \in 1 .. i /\ t[n - k].role = "assistant"
  BY <1>3
<1>5. ASSUME NEW j \in DOMAIN t, j > n - k, t[j].role = "assistant"
      PROVE  FALSE
  <2>1. n - j \in Nat /\ n - j <= n /\ n - (n - j) = j
    OBVIOUS
  <2>2. n - j \in S
    BY <1>5, <2>1
  <2> QED
    BY <1>3, <1>5, <2>2
<1> QED
  BY <1>4, <1>5 DEF Pass!Protected

(* The turns handed to the compressor, place by place.                     *)
LEMMA Turns ==
  ASSUME msgs \in Seq(Message)
  PROVE  /\ TurnsOf(msgs) \in Seq(Pass!Turn) /\ Len(TurnsOf(msgs)) = Len(msgs)
         /\ DOMAIN TurnsOf(msgs) = DOMAIN msgs /\ DOMAIN msgs = 1 .. Len(msgs)
         /\ \A i \in DOMAIN msgs :
              /\ TurnsOf(msgs)[i] = [role |-> msgs[i].role, form |-> msgs[i].form,
                                     size |-> msgs[i].size, compressed |-> msgs[i].compressed]
              /\ TurnsOf(msgs)[i] \in Pass!Turn /\ msgs[i] \in Message
<1>1. \A i \in DOMAIN msgs : msgs[i] \in Message
  OBVIOUS
<1>2. \A i \in DOMAIN msgs : TurnsOf(msgs)[i] \in Pass!Turn
  BY <1>1 DEF TurnsOf, Message, Pass!Turn, Pass!Form
<1>3. TurnsOf(msgs) = [i \in 1 .. Len(msgs) |-> TurnsOf(msgs)[i]]
  BY DEF TurnsOf
<1>4. Len(msgs) \in Nat /\ DOMAIN msgs = 1 .. Len(msgs)
  OBVIOUS
<1>5. TurnsOf(msgs) \in Seq(Pass!Turn) /\ Len(TurnsOf(msgs)) = Len(msgs)
  BY <1>2, <1>3, <1>4
<1> QED
  BY <1>1, <1>2, <1>4, <1>5 DEF TurnsOf

(* What the loops make of a turn.                                          *)
LEMMA MarkMade ==
  ASSUME NEW t \in Pass!Turn
  PROVE  /\ [t EXCEPT !.compressed = TRUE] \in Pass!Turn
         /\ [t EXCEPT !.compressed = TRUE].role = t.role
         /\ [t EXCEPT !.compressed = TRUE].form = t.form
         /\ [t EXCEPT !.compressed = TRUE].compressed
BY DEF Pass!Turn

LEMMA SummaryMade ==
  ASSUME NEW t \in Pass!Turn, NEW n \in Nat
  PROVE  LET s == [t EXCEPT !.compressed = TRUE, !.form = "summary", !.size = n]
         IN  s \in Pass!Turn /\ s.role = t.role /\ s.form = "summary" /\ s.compressed
BY DEF Pass!Turn, Pass!Form

LEMMA MarkerMade ==
  ASSUME NEW t \in Pass!Turn, NEW n \in Nat
  PROVE  LET s == [t EXCEPT !.form = "marker", !.size = n]
         IN  /\ s \in Pass!Turn /\ s.role = t.role /\ s.form = "marker"
             /\ s.compressed = t.compressed
BY DEF Pass!Turn, Pass!Form

(* Counting places of a history of n turns.                                *)
LEMMA Places ==
  ASSUME NEW n \in Nat, NEW A, A \subseteq 1 .. n
  PROVE  /\ Cardinality(A) \in Nat
         /\ \A i \in 1 .. n : Cardinality(A \union {i}) =
              IF i \in A THEN Cardinality(A) ELSE Cardinality(A) + 1
         /\ \A B \in SUBSET A : Cardinality(B) \in Nat /\ Cardinality(B) <= Cardinality(A)
<1>1. IsFiniteSet(1 .. n)
  BY FS_Interval
<1>2. IsFiniteSet(A)
  BY <1>1, FS_Subset
<1> QED
  BY <1>2, FS_CardinalityType, FS_AddElement, FS_Subset

-----------------------------------------------------------------------------
(* The copy during a pass                                                  *)

(* The observations of the copy are those of the history not dropped yet.  *)
LEMMA CopyObservations ==
  ASSUME IInv, Pass!Working
  PROVE  /\ work \in Seq(Pass!Turn) /\ Len(work) = Len(msgs)
         /\ DOMAIN work = DOMAIN msgs /\ DOMAIN msgs = 1 .. Len(msgs)
         /\ Pass!Observations(work) =
              {i \in Pass!Observations(TurnsOf(msgs)) : work[i].form # "marker"}
<1> DEFINE H == TurnsOf(msgs)
<1>1. /\ msgs \in Seq(Message) /\ work \in Seq(Pass!Turn)
  BY DEF IInv, TypeOK, Pass!PassVarsOK
<1>2. Len(work) = Len(msgs) /\ DOMAIN work = DOMAIN msgs /\ DOMAIN H = DOMAIN msgs
      /\ DOMAIN msgs = 1 .. Len(msgs) /\ Len(msgs) \in Nat
  BY <1>1, Turns DEF IInv, CopyOfHistory
<1>3. \A i \in DOMAIN msgs : H[i].role = msgs[i].role /\ work[i].role = H[i].role
  <2>1. \A i \in DOMAIN msgs : H[i].role = msgs[i].role
    BY <1>1, Turns
  <2>2. \A i \in DOMAIN msgs : work[i].role = msgs[i].role
    BY DEF IInv, CopyOfHistory
  <2> QED
    BY <2>1, <2>2
<1>4. Pass!Protected(work) = Pass!Protected(H)
  BY <1>2, <1>3, ProtectedByRole
<1>5. \A i \in DOMAIN msgs : work[i] # H[i] => i \in Pass!Observations(H)
  BY DEF IInv, CopyOfHistory
<1> HIDE DEF H
<1>6. Pass!Observations(work) = {i \in Pass!Observations(H) : work[i].form # "marker"}
  BY <1>2, <1>3, <1>4, <1>5 DEF Pass!Observations
<1> QED
  BY <1>1, <1>2, <1>6 DEF H

(* What a pass leaves alone.                                               *)
LEMMA PassFrame ==
  ASSUME CompressStep
  PROVE  /\ UNCHANGED <<msgs, pc, turn, next, submitted, answered, stop, outSummarized, outDropped>>
         /\ pc = "compress" /\ TurnsOf(msgs)' = TurnsOf(msgs)
BY DEF CompressStep, loopVars, TurnsOf

(* What each step of a pass must keep.                                     *)
PassKept ==
  /\ Pass!PassVarsOK /\ CopyOfHistory /\ AskedMarked /\ SummarizedOnce /\ OldestFirst
  /\ CountsKept

LEMMA BeginStep ==
  ASSUME IInv, CompressStep, Pass!Begin
  PROVE  PassKept'
<1> DEFINE H == TurnsOf(msgs)
<1>1. msgs \in Seq(Message)
  BY DEF IInv, TypeOK
<1>2. /\ UNCHANGED <<msgs, pc>> /\ H' = H /\ pc = "compress"
      /\ phase = "idle" /\ work' = H /\ UNCHANGED asked
      /\ phase' \in {"done", "summarize"} /\ summarized' = 0 /\ dropped' = 0
      /\ phase' = "done" => Budget = 0 \/ ~ Pass!OverBudget(H)
  BY PassFrame DEF Pass!Begin
<1>3. /\ H \in Seq(Pass!Turn) /\ Len(H) = Len(msgs) /\ DOMAIN H = DOMAIN msgs
      /\ \A i \in DOMAIN msgs : /\ H[i].role = msgs[i].role /\ H[i].form = msgs[i].form
                                /\ H[i].compressed = msgs[i].compressed
  BY <1>1, Turns
<1>4. Pass!PassVarsOK'
  BY <1>2, <1>3 DEF IInv, TypeOK, Pass!PassVarsOK
<1>5. CopyOfHistory'
  <2> HIDE DEF H
  <2>1. \A i \in DOMAIN msgs : work'[i] = H[i]
    BY <1>2
  <2> QED
    BY <1>2, <1>3, <2>1, LoopAssumption DEF CopyOfHistory, H
<1>6. AskedMarked' /\ SummarizedOnce'
  BY <1>2, <1>3 DEF IInv, AskedMarked, SummarizedOnce
<1>7. OldestFirst'
  <2>1. \A j \in Pass!Observations(H) : j \in DOMAIN H /\ H[j].form # "marker"
    BY DEF Pass!Observations
  <2> QED
    BY <1>2, <2>1 DEF OldestFirst, Pass!OldestFirst
<1>8. CountsKept'
  <2>1. InForm(H, "marker") = InForm(msgs, "marker") /\ InForm(H, "summary") = InForm(msgs, "summary")
        /\ Marked(H) = Marked(msgs)
    BY <1>3 DEF InForm, Marked
  <2>2. CountsOf(H, outSummarized, outDropped)
    BY <2>1 DEF IInv, CountsKept, CountsOf
  <2>3. outSummarized + 0 = outSummarized /\ outDropped + 0 = outDropped
    BY DEF IInv, TypeOK
  <2>4. UNCHANGED <<outSummarized, outDropped>>
    BY PassFrame
  <2> QED
    BY <1>2, <2>2, <2>3, <2>4 DEF IInv, CountsKept, CountsOf, InForm, Marked
<1> QED
  BY <1>4, <1>5, <1>6, <1>7, <1>8 DEF PassKept

(* The oldest observation without a mark gets one, and perhaps a summary.  *)
LEMMA SummarizeStep ==
  ASSUME IInv, CompressStep, NEW n \in SummaryTokens, Pass!SummarizeOldest(n)
  PROVE  PassKept'
<1> DEFINE H == TurnsOf(msgs)
           Obs == Pass!Observations(H)
           i == Pass!Oldest(Pass!Summarizable(work))
<1>1. /\ UNCHANGED <<msgs, pc>> /\ H' = H /\ pc = "compress" /\ n \in Nat
      /\ phase = "summarize" /\ phase' = "summarize" /\ dropped' = dropped
      /\ asked' = Append(asked, i)
  BY PassFrame, LoopAssumption DEF Pass!SummarizeOldest
<1>2. /\ work \in Seq(Pass!Turn) /\ Len(work) = Len(msgs)
      /\ DOMAIN work = DOMAIN msgs /\ DOMAIN msgs = 1 .. Len(msgs) /\ Len(msgs) \in Nat
      /\ Pass!Observations(work) = {k \in Obs : work[k].form # "marker"}
  BY <1>1, CopyObservations, Turns DEF Pass!Working, IInv, TypeOK
<1>3. Obs \subseteq DOMAIN msgs
  BY Turns DEF IInv, TypeOK, Pass!Observations
<1>4. i \in Pass!Summarizable(work) /\ \A k \in Pass!Summarizable(work) : i <= k
  <2>1. Pass!Summarizable(work) \subseteq Pass!Observations(work)
    BY DEF Pass!Summarizable
  <2>2. Pass!Observations(work) \subseteq 1 .. Len(msgs)
    BY <1>2, <1>3
  <2>3. Pass!Summarizable(work) \subseteq Nat
    BY <2>1, <2>2
  <2>4. Pass!Summarizable(work) # {}
    BY DEF Pass!SummarizeOldest
  <2> QED
    BY <2>3, <2>4, OldestIsLeast
<1>5. i \in Obs /\ i \in DOMAIN msgs /\ work[i].form # "marker" /\ ~ work[i].compressed
  BY <1>2, <1>3, <1>4 DEF Pass!Summarizable
<1>6. work[i] \in Pass!Turn
  BY <1>2, <1>5
<1> HIDE DEF i, H
<1>7. PICK t \in Pass!Turn :
        /\ work' = [work EXCEPT ![i] = t]
        /\ t.role = work[i].role /\ t.compressed /\ t.form # "marker"
        /\ \/ t.form = "summary" /\ summarized' = summarized + 1
           \/ t.form = work[i].form /\ summarized' = summarized
  <2>1. CASE n < work[i].size
    <3>1. work' = [work EXCEPT ![i].compressed = TRUE, ![i].form = "summary", ![i].size = n]
      BY <2>1 DEF Pass!SummarizeOldest, i
    <3> DEFINE t == [work[i] EXCEPT !.compressed = TRUE, !.form = "summary", !.size = n]
    <3>2. work' = [work EXCEPT ![i] = t]
      BY <1>2, <1>5, <3>1
    <3>3. t \in Pass!Turn /\ t.role = work[i].role /\ t.form = "summary" /\ t.compressed
      BY <1>1, <1>6, SummaryMade
    <3>4. summarized' = summarized + 1
      BY <2>1 DEF Pass!SummarizeOldest, i
    <3> HIDE DEF t
    <3> QED
      BY <3>2, <3>3, <3>4
  <2>2. CASE ~ (n < work[i].size)
    <3>1. work' = [work EXCEPT ![i].compressed = TRUE]
      BY <2>2 DEF Pass!SummarizeOldest, i
    <3> DEFINE t == [work[i] EXCEPT !.compressed = TRUE]
    <3>2. work' = [work EXCEPT ![i] = t]
      BY <1>2, <1>5, <3>1
    <3>3. t \in Pass!Turn /\ t.role = work[i].role /\ t.form = work[i].form /\ t.compressed
      BY <1>6, MarkMade
    <3>4. summarized' = summarized
      BY <2>2 DEF Pass!SummarizeOldest, i
    <3> HIDE DEF t
    <3> QED
      BY <1>5, <3>2, <3>3, <3>4
  <2> QED
    BY <2>1, <2>2
<1>8. /\ work' \in Seq(Pass!Turn) /\ Len(work') = Len(msgs)
      /\ work'[i] = t /\ \A k \in DOMAIN msgs : k # i => work'[k] = work[k]
  BY <1>2, <1>5, <1>7
<1>9. Pass!PassVarsOK'
  <2>1. summarized' \in Nat
    BY DEF Pass!SummarizeOldest, IInv, TypeOK, Pass!PassVarsOK
  <2>2. asked' \in Seq(Nat)
    BY <1>1, <1>2, <1>5 DEF IInv, TypeOK, Pass!PassVarsOK
  <2> QED
    BY <1>1, <1>8, <2>1, <2>2 DEF IInv, TypeOK, Pass!PassVarsOK
<1>10. CopyOfHistory'
  BY <1>1, <1>5, <1>7, <1>8 DEF IInv, CopyOfHistory, Pass!Working, H
<1>11. AskedMarked' /\ SummarizedOnce'
  <2>1. \A a \in DOMAIN asked : asked[a] \in DOMAIN msgs /\ work[asked[a]].compressed
    BY <1>1 DEF IInv, AskedMarked
  <2>2. asked \in Seq(Nat)
    BY DEF IInv, TypeOK, Pass!PassVarsOK
  <2>3. /\ DOMAIN asked' = DOMAIN asked \union {Len(asked) + 1}
        /\ asked'[Len(asked) + 1] = i
        /\ \A a \in DOMAIN asked : asked'[a] = asked[a] /\ a # Len(asked) + 1
    BY <1>1, <2>2
  <2>4. AskedMarked'
    BY <1>1, <1>5, <1>7, <1>8, <2>1, <2>3 DEF AskedMarked
  <2>5. SummarizedOnce'
    BY <1>5, <2>1, <2>3 DEF IInv, SummarizedOnce
  <2> QED
    BY <2>4, <2>5
<1>12. OldestFirst'
  <2> SUFFICES ASSUME NEW j \in Obs, NEW k \in Obs, k < j
               PROVE  /\ work'[j].form = "marker" => work'[k].form = "marker"
                      /\ work'[j].compressed /\ ~ H[j].compressed =>
                           work'[k].compressed \/ H[k].size <= MinSummarizeTokens
    BY <1>1 DEF OldestFirst, Pass!OldestFirst, H
  <2>1. /\ work[j].form = "marker" => work[k].form = "marker"
        /\ work[j].compressed /\ ~ H[j].compressed =>
              work[k].compressed \/ H[k].size <= MinSummarizeTokens
    BY <1>1 DEF IInv, OldestFirst, Pass!OldestFirst, Pass!Working, H
  <2>2. j \in DOMAIN msgs /\ k \in DOMAIN msgs /\ k \in Nat /\ j \in Nat
    BY <1>2, <1>3
  <2>3. work'[j].form = "marker" => work'[k].form = "marker"
    BY <1>5, <1>7, <1>8, <2>1, <2>2
  <2>4. CASE j # i
    BY <1>7, <1>8, <2>1, <2>2, <2>3, <2>4
  <2>5. CASE j = i /\ ~ work[k].compressed
    <3>1. work[k] = H[k] /\ k # i
      BY <1>1, <2>2, <2>5 DEF IInv, CopyOfHistory, Pass!Working, H
    <3>2. k \in Pass!Observations(work)
      BY <1>2, <3>1 DEF Pass!Observations, H
    <3>3. k \notin Pass!Summarizable(work)
      BY <1>4, <2>2, <2>5 DEF i
    <3>4. work[k].size <= MinSummarizeTokens
      BY <2>5, <3>2, <3>3 DEF Pass!Summarizable
    <3> QED
      BY <2>3, <3>1, <3>4
  <2>6. CASE j = i /\ work[k].compressed
    BY <1>8, <2>2, <2>3, <2>6
  <2> QED
    BY <2>4, <2>5, <2>6
<1>13. CountsKept'
  <2>1. /\ InForm(work, "marker") \subseteq 1 .. Len(msgs)
        /\ InForm(work, "summary") \subseteq 1 .. Len(msgs)
        /\ Marked(work) \subseteq 1 .. Len(msgs) /\ DOMAIN work' = DOMAIN work
    BY <1>2, <1>7 DEF InForm, Marked
  <2>2. InForm(work', "marker") = InForm(work, "marker")
    BY <1>2, <1>5, <1>7, <1>8, <2>1 DEF InForm
  <2>3. Marked(work') = Marked(work) \union {i} /\ i \notin Marked(work)
    BY <1>2, <1>5, <1>7, <1>8, <2>1 DEF Marked
  <2>4. \/ /\ InForm(work', "summary") \subseteq InForm(work, "summary") \union {i}
           /\ summarized' = summarized + 1
        \/ InForm(work', "summary") = InForm(work, "summary") /\ summarized' = summarized
    BY <1>2, <1>5, <1>7, <1>8, <2>1 DEF InForm
  <2>5. i \in 1 .. Len(msgs) /\ InForm(work, "summary") \union {i} \subseteq 1 .. Len(msgs)
    BY <1>2, <1>5, <2>1
  <2>6. /\ Cardinality(Marked(work')) = Cardinality(Marked(work)) + 1
        /\ Cardinality(Marked(work)) \in Nat
    BY <1>2, <2>1, <2>3, <2>5, Places
  <2>7. /\ Cardinality(InForm(work, "summary")) \in Nat
        /\ Cardinality(InForm(work, "summary") \union {i}) <= Cardinality(InForm(work, "summary")) + 1
    BY <1>2, <2>1, <2>5, Places
  <2>8. InForm(work', "summary") \subseteq InForm(work, "summary") \union {i} =>
          /\ Cardinality(InForm(work', "summary")) \in Nat
          /\ Cardinality(InForm(work', "summary")) <= Cardinality(InForm(work, "summary") \union {i})
          /\ Cardinality(InForm(work, "summary") \union {i}) \in Nat
    BY <1>2, <2>5, Places
  <2>9. CountsOf(work, outSummarized + summarized, outDropped + dropped)
    BY <1>1 DEF IInv, CountsKept, Pass!Working
  <2>10. outSummarized \in Nat /\ summarized \in Nat
    BY DEF IInv, TypeOK, Pass!PassVarsOK
  <2>11. /\ Cardinality(InForm(work', "summary")) <= outSummarized + summarized'
         /\ outSummarized + summarized' <= Cardinality(Marked(work'))
    BY <2>4, <2>6, <2>7, <2>8, <2>9, <2>10 DEF CountsOf
  <2>12. CountsOf(work', outSummarized + summarized', outDropped + dropped')
    BY <1>1, <2>2, <2>9, <2>11 DEF CountsOf
  <2>13. UNCHANGED <<msgs, outSummarized, outDropped>>
    BY PassFrame
  <2> QED
    BY <2>12, <2>13 DEF IInv, CountsKept, CountsOf, InForm, Marked
<1> QED
  BY <1>9, <1>10, <1>11, <1>12, <1>13 DEF PassKept

LEMMA SummarizeFailsStep ==
  ASSUME IInv, CompressStep, Pass!SummarizeFails
  PROVE  PassKept'
<1> DEFINE i == Pass!Oldest(Pass!Summarizable(work))
<1>1. /\ UNCHANGED <<msgs, pc>> /\ pc = "compress" /\ phase = "summarize"
      /\ phase' = "failed" /\ work' = <<>> /\ summarized' = 0 /\ dropped' = dropped
      /\ asked' = Append(asked, i)
  BY PassFrame DEF Pass!SummarizeFails
<1>2. /\ DOMAIN msgs = 1 .. Len(msgs) /\ Len(msgs) \in Nat
      /\ Pass!Observations(work) \subseteq Pass!Observations(TurnsOf(msgs))
      /\ Pass!Observations(TurnsOf(msgs)) \subseteq DOMAIN msgs
  BY <1>1, CopyObservations, Turns DEF Pass!Working, IInv, TypeOK, Pass!Observations
<1>3. i \in Nat /\ ~ work[i].compressed
  <2>1. Pass!Summarizable(work) \subseteq Pass!Observations(work)
    BY DEF Pass!Summarizable
  <2>2. Pass!Summarizable(work) \subseteq Nat
    BY <1>2, <2>1
  <2>3. Pass!Summarizable(work) # {}
    BY DEF Pass!SummarizeFails
  <2>4. i \in Pass!Summarizable(work)
    BY <2>2, <2>3, OldestIsLeast
  <2> QED
    BY <2>2, <2>4 DEF Pass!Summarizable
<1> HIDE DEF i
<1>4. \A a \in DOMAIN asked : work[asked[a]].compressed
  BY <1>1 DEF IInv, AskedMarked
<1>5. asked \in Seq(Nat)
  BY DEF IInv, TypeOK, Pass!PassVarsOK
<1>6. /\ DOMAIN asked' = DOMAIN asked \union {Len(asked) + 1}
      /\ asked'[Len(asked) + 1] = i
      /\ \A a \in DOMAIN asked : asked'[a] = asked[a] /\ a # Len(asked) + 1
  BY <1>1, <1>5
<1>7. SummarizedOnce'
  BY <1>3, <1>4, <1>6 DEF IInv, SummarizedOnce
<1>8. Pass!PassVarsOK'
  BY <1>1, <1>3, <1>5 DEF IInv, TypeOK, Pass!PassVarsOK
<1>9. CopyOfHistory' /\ AskedMarked' /\ OldestFirst'
  BY <1>1 DEF CopyOfHistory, AskedMarked, OldestFirst, Pass!OldestFirst, Pass!Working
<1>10. CountsKept'
  BY <1>1, PassFrame DEF IInv, CountsKept, CountsOf, InForm, Marked, Pass!Working
<1> QED
  BY <1>7, <1>8, <1>9, <1>10 DEF PassKept

(* A loop ends: the copy stays as it is.                                   *)
LEMMA LoopEndStep ==
  ASSUME IInv, CompressStep, Pass!StopSummarizing \/ Pass!Finish
  PROVE  PassKept'
<1>1. /\ UNCHANGED <<msgs, pc, work, summarized, dropped, asked>>
      /\ TurnsOf(msgs)' = TurnsOf(msgs) /\ pc = "compress"
      /\ phase \in {"summarize", "drop"} /\ phase' \in {"drop", "done"}
      /\ phase' = "done" => ~ Pass!OverBudget(work) \/ Pass!Droppable(work) = {}
  BY PassFrame DEF Pass!StopSummarizing, Pass!Finish
<1>2. Pass!PassVarsOK' /\ AskedMarked' /\ SummarizedOnce'
  BY <1>1 DEF IInv, TypeOK, Pass!PassVarsOK, AskedMarked, SummarizedOnce
<1>3. CopyOfHistory'
  BY <1>1 DEF IInv, CopyOfHistory, Pass!Working, Pass!OverBudget, Pass!Droppable
<1>4. OldestFirst'
  BY <1>1 DEF IInv, OldestFirst, Pass!OldestFirst, Pass!Working
<1>5. CountsKept'
  BY <1>1, PassFrame DEF IInv, CountsKept, CountsOf, InForm, Marked, Pass!Working
<1> QED
  BY <1>2, <1>3, <1>4, <1>5 DEF PassKept

(* The oldest observation left becomes a marker.                           *)
LEMMA DropStep ==
  ASSUME IInv, CompressStep, Pass!DropOldest
  PROVE  PassKept'
<1> DEFINE H == TurnsOf(msgs)
           Obs == Pass!Observations(H)
           i == Pass!Oldest(Pass!Droppable(work))
           t == [work[i] EXCEPT !.form = "marker", !.size = MarkerTokens]
<1>1. /\ UNCHANGED <<msgs, pc, asked, summarized>> /\ H' = H /\ pc = "compress"
      /\ phase = "drop" /\ phase' = "drop" /\ dropped' = dropped + 1
      /\ work' = [work EXCEPT ![i].form = "marker", ![i].size = MarkerTokens]
  BY PassFrame DEF Pass!DropOldest
<1>2. /\ work \in Seq(Pass!Turn) /\ Len(work) = Len(msgs)
      /\ DOMAIN work = DOMAIN msgs /\ DOMAIN msgs = 1 .. Len(msgs) /\ Len(msgs) \in Nat
      /\ Pass!Observations(work) = {k \in Obs : work[k].form # "marker"}
  BY <1>1, CopyObservations, Turns DEF Pass!Working, IInv, TypeOK
<1>3. Obs \subseteq DOMAIN msgs
  BY Turns DEF IInv, TypeOK, Pass!Observations
<1>4. i \in Pass!Droppable(work) /\ \A k \in Pass!Droppable(work) : i <= k
  <2>1. Pass!Droppable(work) \subseteq 1 .. Len(msgs)
    BY <1>2, <1>3 DEF Pass!Droppable
  <2>2. Pass!Droppable(work) \subseteq Nat
    BY <2>1
  <2>3. Pass!Droppable(work) # {}
    BY DEF Pass!DropOldest
  <2> QED
    BY <2>2, <2>3, OldestIsLeast
<1>5. i \in Obs /\ i \in DOMAIN msgs /\ work[i].form # "marker"
  BY <1>2, <1>3, <1>4 DEF Pass!Droppable
<1>6. work[i] \in Pass!Turn
  BY <1>2, <1>5
<1> HIDE DEF i, H
<1>7. work' = [work EXCEPT ![i] = t]
  BY <1>1, <1>2, <1>5
<1>8. t \in Pass!Turn /\ t.role = work[i].role /\ t.form = "marker" /\ t.compressed = work[i].compressed
  BY <1>6, MarkerMade, LoopAssumption
<1> HIDE DEF t
<1>9. /\ work' \in Seq(Pass!Turn) /\ Len(work') = Len(msgs)
      /\ work'[i] = t /\ \A k \in DOMAIN msgs : k # i => work'[k] = work[k]
  BY <1>2, <1>5, <1>7, <1>8
<1>10. \A k \in DOMAIN msgs : work'[k].compressed = work[k].compressed
  BY <1>8, <1>9
<1>11. Pass!PassVarsOK'
  BY <1>1, <1>9 DEF IInv, TypeOK, Pass!PassVarsOK
<1>12. CopyOfHistory'
  BY <1>1, <1>5, <1>8, <1>9 DEF IInv, CopyOfHistory, Pass!Working, H
<1>13. AskedMarked' /\ SummarizedOnce'
  BY <1>1, <1>10 DEF IInv, AskedMarked, SummarizedOnce
<1>14. OldestFirst'
  <2> SUFFICES ASSUME NEW j \in Obs, NEW k \in Obs, k < j
               PROVE  /\ work'[j].form = "marker" => work'[k].form = "marker"
                      /\ work'[j].compressed /\ ~ H[j].compressed =>
                           work'[k].compressed \/ H[k].size <= MinSummarizeTokens
    BY <1>1 DEF OldestFirst, Pass!OldestFirst, H
  <2>1. /\ work[j].form = "marker" => work[k].form = "marker"
        /\ work[j].compressed /\ ~ H[j].compressed =>
              work[k].compressed \/ H[k].size <= MinSummarizeTokens
    BY <1>1 DEF IInv, OldestFirst, Pass!OldestFirst, Pass!Working, H
  <2>2. j \in DOMAIN msgs /\ k \in DOMAIN msgs /\ k \in Nat /\ j \in Nat
    BY <1>2, <1>3
  <2>3. j = i => work[k].form = "marker"
    BY <1>2, <1>4, <2>2 DEF Pass!Droppable
  <2> QED
    BY <1>8, <1>9, <1>10, <2>1, <2>2, <2>3
<1>15. CountsKept'
  <2>1. /\ InForm(work, "marker") \subseteq 1 .. Len(msgs)
        /\ InForm(work, "summary") \subseteq 1 .. Len(msgs)
        /\ DOMAIN work' = DOMAIN work
    BY <1>2, <1>7 DEF InForm
  <2>2. InForm(work', "marker") = InForm(work, "marker") \union {i} /\ i \notin InForm(work, "marker")
    BY <1>2, <1>5, <1>8, <1>9, <2>1 DEF InForm
  <2>3. Marked(work') = Marked(work)
    BY <1>2, <1>10, <2>1 DEF Marked
  <2>4. InForm(work', "summary") \subseteq InForm(work, "summary")
    BY <1>2, <1>8, <1>9, <2>1 DEF InForm
  <2>5. i \in 1 .. Len(msgs)
    BY <1>2, <1>5
  <2>6. /\ Cardinality(InForm(work', "marker")) = Cardinality(InForm(work, "marker")) + 1
        /\ Cardinality(InForm(work, "marker")) \in Nat
    BY <1>2, <2>1, <2>2, <2>5, Places
  <2>7. /\ Cardinality(InForm(work', "summary")) \in Nat /\ Cardinality(InForm(work, "summary")) \in Nat
        /\ Cardinality(InForm(work', "summary")) <= Cardinality(InForm(work, "summary"))
    BY <1>2, <2>1, <2>4, Places
  <2>8. CountsOf(work, outSummarized + summarized, outDropped + dropped)
    BY <1>1 DEF IInv, CountsKept, Pass!Working
  <2>9. outSummarized \in Nat /\ summarized \in Nat /\ outDropped \in Nat /\ dropped \in Nat
    BY DEF IInv, TypeOK, Pass!PassVarsOK
  <2>10. outDropped + (dropped + 1) = Cardinality(InForm(work', "marker"))
    BY <2>6, <2>8, <2>9 DEF CountsOf
  <2>11. Cardinality(InForm(work', "summary")) <= outSummarized + summarized
    BY <2>7, <2>8, <2>9 DEF CountsOf
  <2>12. CountsOf(work', outSummarized + summarized, outDropped + (dropped + 1))
    BY <2>3, <2>8, <2>10, <2>11 DEF CountsOf
  <2>13. UNCHANGED <<msgs, outSummarized, outDropped>>
    BY PassFrame
  <2> QED
    BY <1>1, <2>12, <2>13 DEF IInv, CountsKept, CountsOf, InForm, Marked
<1> QED
  BY <1>11, <1>12, <1>13, <1>14, <1>15 DEF PassKept

-----------------------------------------------------------------------------
(* The loop                                                                *)

(* No pass is running.                                                     *)
LEMMA NoPass ==
  ASSUME phase = "idle"
  PROVE  CopyOfHistory /\ OldestFirst
BY DEF CopyOfHistory, OldestFirst, Pass!OldestFirst, Pass!Working

(* A message comes as it was written, without a mark.                      *)
AsWritten(m) == m \in Message /\ m.form = "orig" /\ ~ m.compressed

LEMMA MessageTypes ==
  /\ AsWritten(Goal) /\ Goal.role = "user"
  /\ \A calls \in CallLists : AsWritten(Assistant(calls)) /\ Assistant(calls).role = "assistant"
  /\ \A call \in Nat \X Nat, n \in Nat :
       AsWritten(ToolResult(call, n)) /\ ToolResult(call, n).role = "tool"
<1>1. AsWritten(Goal) /\ Goal.role = "user"
  BY DEF AsWritten, Goal, Message, NoCall, ShortTokens
<1>2. ASSUME NEW calls \in CallLists
      PROVE  AsWritten(Assistant(calls)) /\ Assistant(calls).role = "assistant"
  BY LoopAssumption DEF AsWritten, Assistant, Goal, Message, NoCall, ShortTokens
<1>3. ASSUME NEW call \in Nat \X Nat, NEW n \in Nat
      PROVE  AsWritten(ToolResult(call, n)) /\ ToolResult(call, n).role = "tool"
  <2>1. ASSUME NEW m \in Message
        PROVE  LET w == [m EXCEPT !.role = "tool", !.answers = call, !.size = n]
               IN  /\ w \in Message /\ w.role = "tool"
                   /\ w.form = m.form /\ w.compressed = m.compressed
    BY DEF Message
  <2> QED
    BY <1>1, <2>1 DEF AsWritten, ToolResult
<1> QED
  BY <1>1, <1>2, <1>3

(* One more message: what is there stays.                                  *)
LEMMA AppendKeeps ==
  ASSUME msgs \in Seq(Message), NEW m, AsWritten(m), msgs' = Append(msgs, m)
  PROVE  /\ msgs' \in Seq(Message) /\ Len(msgs') = Len(msgs) + 1
         /\ DOMAIN msgs' = DOMAIN msgs \union {Len(msgs) + 1}
         /\ msgs'[Len(msgs) + 1] = m
         /\ \A i \in DOMAIN msgs : i < Len(msgs) + 1 /\ msgs'[i] = msgs[i]
BY DEF AsWritten

LEMMA AppendCounts ==
  ASSUME IInv, NEW m, AsWritten(m), msgs' = Append(msgs, m), phase' = "idle",
         UNCHANGED <<outSummarized, outDropped>>
  PROVE  CountsKept'
<1>1. msgs \in Seq(Message)
  BY DEF IInv, TypeOK
<1>2. /\ DOMAIN msgs' = DOMAIN msgs \union {Len(msgs) + 1}
      /\ msgs'[Len(msgs) + 1] = m
      /\ \A i \in DOMAIN msgs : msgs'[i] = msgs[i]
  BY <1>1, AppendKeeps
<1>3. m.form = "orig" /\ ~ m.compressed
  BY DEF AsWritten
<1>4. InForm(msgs', "marker") = InForm(msgs, "marker")
  BY <1>2, <1>3 DEF InForm
<1>5. InForm(msgs', "summary") = InForm(msgs, "summary")
  BY <1>2, <1>3 DEF InForm
<1>6. Marked(msgs') = Marked(msgs)
  BY <1>2, <1>3 DEF Marked
<1>7. CountsOf(msgs', outSummarized, outDropped)
  BY <1>4, <1>5, <1>6 DEF IInv, CountsKept, CountsOf
<1> QED
  BY <1>7 DEF CountsKept, CountsOf, InForm, Marked, Pass!Working

-----------------------------------------------------------------------------
(* The history is in rounds                                                *)

(* The greatest of a set of places is the one no other is beyond.          *)
LEMMA LastIs ==
  ASSUME NEW S, S \subseteq Nat, NEW a \in S, \A i \in S : i <= a
  PROVE  Max(S) = a
<1>1. a \in S /\ \A y \in S : a >= y
  OBVIOUS
<1>2. Max(S) \in S /\ \A y \in S : Max(S) >= y
  BY <1>1, Zenon DEF Max
<1>3. Max(S) \in Nat /\ a \in Nat /\ Max(S) <= a /\ a <= Max(S)
  BY <1>1, <1>2
<1> QED
  BY <1>3

(* Once the calls of the last message are answered all messages have their *)
(* results.                                                                *)
LEMMA AllAnswered ==
  ASSUME IInv, pc = "calls" => next > Len(Calls)
  PROVE  \A i \in DOMAIN msgs : msgs[i].role = "assistant" => Complete(i)
<1>1. CASE pc # "calls"
  BY <1>1 DEF IInv, RoundsGrow
<1>2. CASE pc = "calls"
  <2> DEFINE a == LastAction
  <2>1. /\ a \in DOMAIN msgs /\ Len(msgs) + 1 = a + next
        /\ next <= Len(msgs[a].calls) + 1 /\ next > Len(msgs[a].calls)
        /\ \A k \in 1 .. (next - 1) :
             msgs[a + k].role = "tool" /\ msgs[a + k].answers = <<turn, k>>
        /\ turn # 0
    BY <1>2 DEF IInv, RoundsGrow, Calls
  <2>2. /\ msgs \in Seq(Message) /\ next \in Nat /\ Len(msgs) \in Nat /\ a \in Nat /\ turn \in Nat
        /\ Len(msgs[a].calls) \in Nat
    <3>1. msgs \in Seq(Message) /\ next \in Nat /\ turn \in Nat
      BY LoopAssumption DEF IInv, TypeOK
    <3>2. msgs[a] \in Message /\ a \in Nat
      BY <2>1, <3>1
    <3>3. msgs[a].calls \in Seq(CallKind)
      BY <3>2 DEF Message
    <3> QED
      BY <3>1, <3>2, <3>3
  <2> HIDE DEF a
  <2>3. next - 1 = Len(msgs[a].calls)
    BY <2>1, <2>2
  <2>4. Complete(a)
    <3>1. a + Len(msgs[a].calls) <= Len(msgs) /\ turn \in 1 .. turn
      BY <2>1, <2>2, <2>3
    <3>2. \A k \in 1 .. Len(msgs[a].calls) :
            msgs[a + k].role = "tool" /\ msgs[a + k].answers = <<turn, k>>
      BY <2>1, <2>3
    <3> QED
      BY <3>1, <3>2 DEF Complete
  <2>5. \A i \in DOMAIN msgs : msgs[i].role = "assistant" /\ i # a =>
          Complete(i)
    BY DEF IInv, RoundsGrow, a
  <2> QED
    BY <2>4, <2>5
<1> QED
  BY <1>1, <1>2

(* Nothing moves when no message changes its role, its calls or what it    *)
(* answers.                                                                *)
LEMMA RoundsStay ==
  ASSUME IInv, Len(msgs') = Len(msgs), DOMAIN msgs' = DOMAIN msgs,
         \A i \in DOMAIN msgs : /\ msgs'[i].role = msgs[i].role
                                /\ msgs'[i].calls = msgs[i].calls
                                /\ msgs'[i].answers = msgs[i].answers,
         turn' = turn, pc' # "calls", pc = "calls" => next > Len(Calls)
  PROVE  RoundsGrow'
<1>1. /\ msgs \in Seq(Message) /\ Len(msgs) \in Nat /\ DOMAIN msgs = 1 .. Len(msgs)
      /\ \A i \in DOMAIN msgs : Len(msgs[i].calls) \in Nat
  <2>1. msgs \in Seq(Message)
    BY DEF IInv, TypeOK
  <2>2. \A i \in DOMAIN msgs : msgs[i] \in Message
    BY <2>1
  <2>3. \A i \in DOMAIN msgs : msgs[i].calls \in Seq(CallKind)
    BY <2>2 DEF Message
  <2> QED
    BY <2>1, <2>3
<1>2. InRounds'
  <2>1. msgs' # <<>> /\ msgs'[1].role = "user"
    BY <1>1 DEF IInv, RoundsGrow, InRounds
  <2>2. \A j \in 2 .. Len(msgs) : \E i \in 2 .. j :
          msgs[i].role = "assistant" /\ j \in i .. (i + Len(msgs[i].calls))
    BY DEF IInv, RoundsGrow, InRounds, Round
  <2>3. \A j \in 2 .. Len(msgs) : \A i \in 2 .. j : i \in DOMAIN msgs
    BY <1>1
  <2>4. \A j \in 2 .. Len(msgs') : \E i \in 2 .. j :
          msgs'[i].role = "assistant" /\ j \in i .. (i + Len(msgs'[i].calls))
    BY <2>2, <2>3
  <2> QED
    BY <2>1, <2>4 DEF InRounds, Round
<1>3. ASSUME NEW i \in DOMAIN msgs', msgs'[i].role = "assistant"
      PROVE  Complete(i)'
  <2> DEFINE n == Len(msgs[i].calls)
  <2>1. Complete(i) /\ Len(msgs'[i].calls) = n /\ n \in Nat /\ i \in Nat
    BY <1>1, <1>3, AllAnswered
  <2>2. i + n <= Len(msgs')
    BY <2>1 DEF Complete
  <2>3. PICK t \in 1 .. turn : \A k \in 1 .. n :
          msgs[i + k].role = "tool" /\ msgs[i + k].answers = <<t, k>>
    BY <2>1 DEF Complete
  <2> HIDE DEF n
  <2>4. \A k \in 1 .. n : i + k \in DOMAIN msgs
    BY <1>1, <2>1, <2>2
  <2>5. \A k \in 1 .. n : msgs'[i + k].role = "tool" /\ msgs'[i + k].answers = <<t, k>>
    BY <2>3, <2>4
  <2>6. t \in 1 .. turn'
    OBVIOUS
  <2> QED
    BY <2>1, <2>2, <2>5, <2>6 DEF Complete
<1> QED
  BY <1>2, <1>3 DEF RoundsGrow

(* One more message leaves the rounds that were there.                     *)
LEMMA RoundsBefore ==
  ASSUME IInv, NEW m, AsWritten(m), msgs' = Append(msgs, m), turn' >= turn, turn' \in Nat
  PROVE  /\ msgs' # <<>> /\ msgs'[1].role = "user"
         /\ \A j \in 2 .. Len(msgs) : \E i \in 2 .. j :
              msgs'[i].role = "assistant" /\ j \in i .. (i + Len(msgs'[i].calls))
         /\ \A i \in DOMAIN msgs : Complete(i) => Complete(i)'
<1>1. /\ msgs \in Seq(Message) /\ Len(msgs) \in Nat /\ DOMAIN msgs = 1 .. Len(msgs)
      /\ turn \in Nat
  BY LoopAssumption DEF IInv, TypeOK
<1>2. /\ msgs' \in Seq(Message) /\ Len(msgs') = Len(msgs) + 1
      /\ DOMAIN msgs' = DOMAIN msgs \union {Len(msgs) + 1}
      /\ \A i \in DOMAIN msgs : msgs'[i] = msgs[i]
  BY <1>1, AppendKeeps
<1>3. msgs' # <<>> /\ msgs'[1].role = "user"
  BY <1>1, <1>2 DEF IInv, RoundsGrow, InRounds
<1>4. ASSUME NEW j \in 2 .. Len(msgs)
      PROVE  \E i \in 2 .. j : msgs'[i].role = "assistant" /\ j \in i .. (i + Len(msgs'[i].calls))
  <2>1. PICK i \in 2 .. j : msgs[i].role = "assistant" /\ j \in i .. (i + Len(msgs[i].calls))
    BY DEF IInv, RoundsGrow, InRounds, Round
  <2>2. i \in DOMAIN msgs
    BY <1>1
  <2> QED
    BY <1>2, <2>1, <2>2
<1>5. ASSUME NEW i \in DOMAIN msgs, Complete(i)
      PROVE  Complete(i)'
  <2> DEFINE n == Len(msgs[i].calls)
  <2>1. /\ Len(msgs'[i].calls) = n /\ i \in Nat /\ n \in Nat
    <3>1. msgs[i] \in Message /\ msgs'[i] = msgs[i] /\ i \in Nat
      BY <1>1, <1>2
    <3>2. msgs[i].calls \in Seq(CallKind)
      BY <3>1 DEF Message
    <3> QED
      BY <3>1, <3>2
  <2>2. i + n <= Len(msgs)
    BY <1>5 DEF Complete
  <2>3. PICK t \in 1 .. turn : \A k \in 1 .. n :
          msgs[i + k].role = "tool" /\ msgs[i + k].answers = <<t, k>>
    BY <1>5 DEF Complete
  <2> HIDE DEF n
  <2>4. \A k \in 1 .. n : i + k \in DOMAIN msgs
    BY <1>1, <2>1, <2>2
  <2>5. \A k \in 1 .. n : msgs'[i + k].role = "tool" /\ msgs'[i + k].answers = <<t, k>>
    BY <1>2, <2>3, <2>4
  <2>6. t \in 1 .. turn' /\ i + n <= Len(msgs')
    BY <1>1, <1>2, <2>1, <2>2
  <2> QED
    BY <2>1, <2>5, <2>6 DEF Complete
<1> QED
  BY <1>3, <1>4, <1>5

(* The model's message opens a round.                                      *)
LEMMA RoundOpens ==
  ASSUME IInv, NEW calls \in CallLists, Generate(calls)
  PROVE  RoundsGrow'
<1> DEFINE m == Assistant(calls)
           a == Len(msgs) + 1
<1>1. /\ pc = "generate" /\ msgs' = Append(msgs, m) /\ turn' = turn + 1 /\ next' = 1
      /\ calls = <<>> \/ pc' = "calls"
      /\ msgs \in Seq(Message) /\ Len(msgs) \in Nat /\ DOMAIN msgs = 1 .. Len(msgs)
      /\ turn \in Nat
  BY LoopAssumption DEF Generate, Stop, IInv, TypeOK
<1>2. /\ AsWritten(m) /\ m.role = "assistant" /\ m.calls = calls /\ Len(calls) \in Nat
  <2>1. AsWritten(m) /\ m.role = "assistant"
    BY MessageTypes
  <2>2. m.calls = calls
    BY DEF Assistant, Goal
  <2>3. calls \in Seq(CallKind)
    BY LoopAssumption
  <2> QED
    BY <2>1, <2>2, <2>3
<1> HIDE DEF m
<1>3. /\ msgs' \in Seq(Message) /\ Len(msgs') = a /\ DOMAIN msgs' = DOMAIN msgs \union {a}
      /\ msgs'[a] = m /\ \A i \in DOMAIN msgs : i < a /\ msgs'[i] = msgs[i]
      /\ a \in Nat
  BY <1>1, <1>2, AppendKeeps
<1>4. Len(msgs) >= 1
  BY <1>1 DEF IInv, RoundsGrow, InRounds
<1>5. /\ msgs' # <<>> /\ msgs'[1].role = "user"
      /\ \A j \in 2 .. Len(msgs) : \E i \in 2 .. j :
           msgs'[i].role = "assistant" /\ j \in i .. (i + Len(msgs'[i].calls))
      /\ \A i \in DOMAIN msgs : Complete(i) => Complete(i)'
  <2>1. turn' >= turn /\ turn' \in Nat
    BY <1>1
  <2> QED
    BY <1>1, <1>2, <2>1, RoundsBefore
<1>6. InRounds'
  <2>1. a \in 2 .. a /\ msgs'[a].role = "assistant" /\ a \in a .. (a + Len(msgs'[a].calls))
    <3>1. a \in Nat /\ a >= 2
      BY <1>1, <1>4
    <3>2. msgs'[a].role = "assistant" /\ Len(msgs'[a].calls) \in Nat
      BY <1>2, <1>3
    <3> HIDE DEF a
    <3> QED
      BY <3>1, <3>2
  <2>2. \A j \in 2 .. Len(msgs') : j \in 2 .. Len(msgs) \/ j = a
    BY <1>1, <1>3
  <2> QED
    BY <1>5, <2>1, <2>2 DEF InRounds, Round
<1>7. LastAction' = a
  <2>1. LastAction' = Max({i \in DOMAIN msgs' : msgs'[i].role = "assistant"})
    BY DEF LastAction
  <2>2. \A i \in DOMAIN msgs' : i \in Nat /\ i <= a
    BY <1>1, <1>3
  <2> QED
    BY <1>2, <1>3, <2>1, <2>2, LastIs
<1>8. ASSUME NEW i \in DOMAIN msgs', msgs'[i].role = "assistant", pc' = "calls" => i # a
      PROVE  Complete(i)'
  <2>1. CASE i \in DOMAIN msgs
    <3>1. msgs[i].role = "assistant"
      BY <1>3, <1>8, <2>1
    <3>2. Complete(i)
      BY <1>1, <2>1, <3>1, AllAnswered
    <3> QED
      BY <1>5, <2>1, <3>2
  <2>2. CASE i = a
    <3>1. Len(msgs'[a].calls) = 0
      BY <1>1, <1>2, <1>3, <1>8, <2>2
    <3>2. 1 \in 1 .. turn' /\ a + 0 <= Len(msgs')
      BY <1>1, <1>3
    <3> QED
      BY <2>2, <3>1, <3>2 DEF Complete
  <2> QED
    BY <1>3, <2>1, <2>2
<1>9. pc' = "calls" =>
        /\ a \in DOMAIN msgs' /\ msgs'[a].role = "assistant"
        /\ \A i \in DOMAIN msgs' : msgs'[i].role = "assistant" => i <= a
        /\ turn' # 0 /\ next' <= Len(Calls') + 1 /\ Len(msgs') + 1 = a + next'
        /\ \A k \in 1 .. (next' - 1) :
             msgs'[a + k].role = "tool" /\ msgs'[a + k].answers = <<turn', k>>
  <2>1. Calls' = calls
    BY <1>2, <1>3, <1>7 DEF Calls
  <2> QED
    BY <1>1, <1>2, <1>3, <2>1
<1> HIDE DEF a
<1> QED
  BY <1>6, <1>7, <1>8, <1>9 DEF RoundsGrow

(* A result joins the last round.                                          *)
LEMMA RoundContinues ==
  ASSUME IInv, NEW n \in ResultTokens \union {ShortTokens}, AnswerCall(n)
  PROVE  RoundsGrow'
<1> DEFINE m == ToolResult(<<turn, next>>, n)
           a == LastAction
           b == Len(msgs) + 1
<1>1. /\ pc = "calls" /\ pc' = "calls" /\ msgs' = Append(msgs, m) /\ turn' = turn
      /\ next' = next + 1 /\ next <= Len(Calls)
      /\ msgs \in Seq(Message) /\ Len(msgs) \in Nat /\ DOMAIN msgs = 1 .. Len(msgs)
      /\ turn \in Nat /\ next \in Nat /\ next >= 1
  BY LoopAssumption DEF AnswerCall, IInv, TypeOK
<1>2. AsWritten(m) /\ m.role = "tool" /\ m.answers = <<turn, next>>
  <2>1. AsWritten(m) /\ m.role = "tool"
    BY <1>1, MessageTypes, LoopAssumption DEF ShortTokens
  <2> QED
    BY <2>1 DEF ToolResult, Goal
<1> HIDE DEF m
<1>3. /\ msgs' \in Seq(Message) /\ Len(msgs') = b /\ DOMAIN msgs' = DOMAIN msgs \union {b}
      /\ msgs'[b] = m /\ \A i \in DOMAIN msgs : i < b /\ msgs'[i] = msgs[i]
      /\ b \in Nat
  BY <1>1, <1>2, AppendKeeps
<1>4. /\ a \in DOMAIN msgs /\ msgs[a].role = "assistant"
      /\ \A i \in DOMAIN msgs : msgs[i].role = "assistant" => i <= a
      /\ turn # 0 /\ b = a + next
      /\ \A k \in 1 .. (next - 1) :
           msgs[a + k].role = "tool" /\ msgs[a + k].answers = <<turn, k>>
  BY <1>1 DEF IInv, RoundsGrow
<1>5. /\ msgs' # <<>> /\ msgs'[1].role = "user"
      /\ \A j \in 2 .. Len(msgs) : \E i \in 2 .. j :
           msgs'[i].role = "assistant" /\ j \in i .. (i + Len(msgs'[i].calls))
      /\ \A i \in DOMAIN msgs : Complete(i) => Complete(i)'
  <2>1. turn' >= turn /\ turn' \in Nat
    BY <1>1
  <2> QED
    BY <1>1, <1>2, <2>1, RoundsBefore
<1>6. LastAction' = a
  <2> DEFINE S == {i \in DOMAIN msgs' : msgs'[i].role = "assistant"}
  <2>1. LastAction' = Max(S)
    BY DEF LastAction
  <2> HIDE DEF a
  <2>2. S \subseteq Nat /\ a \in S /\ \A i \in S : i <= a
    BY <1>1, <1>2, <1>3, <1>4
  <2> QED
    BY <2>1, <2>2, LastIs
<1>7. Calls' = Calls /\ Calls = msgs[a].calls /\ msgs'[a] = msgs[a] /\ Len(Calls) \in Nat
  <2>1. Calls' = Calls /\ Calls = msgs[a].calls /\ msgs'[a] = msgs[a]
    BY <1>3, <1>4, <1>6 DEF Calls
  <2>2. msgs[a] \in Message
    BY <1>1, <1>4
  <2>3. msgs[a].calls \in Seq(CallKind)
    BY <2>2 DEF Message
  <2> QED
    BY <2>1, <2>3
<1> HIDE DEF a
<1>8. InRounds'
  <2>1. a >= 2 /\ a \in Nat
    <3>1. a \in Nat /\ a >= 1 /\ a # 1
      BY <1>1, <1>4 DEF IInv, RoundsGrow, InRounds
    <3> QED
      BY <3>1
  <2>2. a \in 2 .. b /\ msgs'[a].role = "assistant" /\ b \in a .. (a + Len(msgs'[a].calls))
    BY <1>1, <1>3, <1>4, <1>7, <2>1
  <2>3. \A j \in 2 .. Len(msgs') : j \in 2 .. Len(msgs) \/ j = b
    BY <1>1, <1>3
  <2> QED
    BY <1>5, <2>2, <2>3 DEF InRounds, Round
<1>9. ASSUME NEW i \in DOMAIN msgs', msgs'[i].role = "assistant", i # a
      PROVE  Complete(i)'
  <2>1. i \in DOMAIN msgs /\ msgs[i].role = "assistant"
    BY <1>2, <1>3, <1>9
  <2>2. Complete(i)
    BY <1>9, <2>1 DEF IInv, RoundsGrow, a
  <2> QED
    BY <1>5, <2>1, <2>2
<1>10. /\ a \in DOMAIN msgs' /\ msgs'[a].role = "assistant"
       /\ \A i \in DOMAIN msgs' : msgs'[i].role = "assistant" => i <= a
       /\ turn' # 0 /\ next' <= Len(Calls') + 1 /\ Len(msgs') + 1 = a + next'
       /\ \A k \in 1 .. (next' - 1) :
            msgs'[a + k].role = "tool" /\ msgs'[a + k].answers = <<turn', k>>
  <2>1. a \in DOMAIN msgs' /\ msgs'[a].role = "assistant" /\ a \in Nat
    BY <1>1, <1>3, <1>4
  <2>2. \A i \in DOMAIN msgs' : msgs'[i].role = "assistant" => i <= a
    BY <1>2, <1>3, <1>4
  <2>3. turn' # 0 /\ next' <= Len(Calls') + 1 /\ Len(msgs') + 1 = a + next'
    <3>1. turn' # 0
      BY <1>1, <1>4
    <3>2. next + 1 <= Len(Calls) + 1
      BY <1>1, <1>7
    <3>3. b + 1 = a + (next + 1)
      <4>1. b \in Nat /\ next \in Nat /\ b = a + next
        BY <1>1, <1>3, <1>4
      <4> HIDE DEF b
      <4> QED
        BY <2>1, <4>1
    <3> QED
      BY <1>1, <1>3, <1>7, <3>1, <3>2, <3>3
  <2>4. ASSUME NEW k \in 1 .. (next' - 1)
        PROVE  msgs'[a + k].role = "tool" /\ msgs'[a + k].answers = <<turn', k>>
    <3>1. CASE k = next
      BY <1>1, <1>2, <1>3, <1>4, <3>1
    <3>2. CASE k # next
      <4>1. k \in 1 .. (next - 1) /\ a + k \in DOMAIN msgs
        BY <1>1, <1>3, <1>4, <2>1, <3>2
      <4> QED
        BY <1>1, <1>3, <1>4, <4>1
    <3> QED
      BY <3>1, <3>2
  <2> QED
    BY <2>1, <2>2, <2>3, <2>4
<1> HIDE DEF b
<1> QED
  BY <1>1, <1>6, <1>8, <1>9, <1>10 DEF RoundsGrow

-----------------------------------------------------------------------------
(* The steps                                                               *)

LEMMA PassStep ==
  ASSUME IInv, CompressStep, compressing' = compressing
  PROVE  IInv'
<1>1. PassKept'
  BY BeginStep, SummarizeStep, SummarizeFailsStep, LoopEndStep, DropStep
     DEF CompressStep, Pass!Pass
<1>2. TypeOK'
  BY <1>1, PassFrame DEF PassKept, IInv, TypeOK
<1>3. LoopInOrder' /\ PromptWithinBudget'
  BY PassFrame DEF IInv, LoopInOrder, PromptWithinBudget
<1>4. RoundsGrow'
  BY PassFrame, RoundsStay
<1> QED
  BY <1>1, <1>2, <1>3, <1>4 DEF PassKept, IInv

LEMMA GenerateStep ==
  ASSUME IInv, compressing' = compressing, NEW calls \in CallLists, Generate(calls)
  PROVE  IInv'
<1>1. /\ pc = "generate" /\ pc' \in {"calls", "done"} /\ phase = "idle"
      /\ UNCHANGED passVars /\ turn' = turn + 1 /\ turn < MaxTurns
      /\ msgs \in Seq(Message) /\ msgs' = Append(msgs, Assistant(calls))
      /\ stop' \in {stop, "no_tool_call"}
  BY DEF Generate, IInv, TypeOK, LoopInOrder, Stop
<1>2. AsWritten(Assistant(calls)) /\ Assistant(calls).role = "assistant"
  BY MessageTypes
<1>3. /\ msgs' \in Seq(Message) /\ Len(msgs') = Len(msgs) + 1
      /\ DOMAIN msgs' = DOMAIN msgs \union {Len(msgs) + 1}
      /\ msgs'[Len(msgs) + 1] = Assistant(calls)
      /\ \A i \in DOMAIN msgs : i < Len(msgs) + 1 /\ msgs'[i] = msgs[i]
  BY <1>1, <1>2, AppendKeeps
<1>4. TypeOK'
  <2>1. turn' \in 0 .. MaxTurns
    BY <1>1, LoopAssumption DEF IInv, TypeOK
  <2>2. /\ next' = 1 /\ submitted' = FALSE
        /\ answered' = answered /\ outSummarized' = outSummarized /\ outDropped' = outDropped
    BY DEF Generate
  <2>3. Pass!PassVarsOK'
    BY <1>1 DEF IInv, TypeOK, Pass!PassVarsOK, passVars
  <2>4. submitted' \in BOOLEAN /\ answered' \in BOOLEAN
    BY <2>2 DEF IInv, TypeOK
  <2>5. next' \in Nat \ {0} /\ outSummarized' \in Nat /\ outDropped' \in Nat
    BY <2>2 DEF IInv, TypeOK
  <2>6. /\ pc' \in {"generate", "calls", "compress", "done"}
        /\ stop' \in {"running", "submitted", "max_turns", "no_tool_call", "error"}
    BY <1>1 DEF IInv, TypeOK
  <2>7. compressing' \in BOOLEAN
    BY DEF IInv, TypeOK
  <2> QED
    BY <1>3, <2>1, <2>3, <2>4, <2>5, <2>6, <2>7, Zenon DEF TypeOK
<1>5. LoopInOrder'
  BY <1>1, <1>2, <1>3 DEF IInv, LoopInOrder, passVars
<1>6. AskedMarked' /\ SummarizedOnce'
  BY <1>1, <1>3 DEF IInv, AskedMarked, SummarizedOnce, passVars
<1>7. CopyOfHistory' /\ OldestFirst'
  BY <1>1 DEF CopyOfHistory, OldestFirst, Pass!OldestFirst, Pass!Working, passVars
<1>8. PromptWithinBudget'
  BY <1>1 DEF PromptWithinBudget
<1>9. CountsKept'
  <2>1. UNCHANGED <<outSummarized, outDropped>> /\ phase' = "idle"
    BY <1>1 DEF Generate, passVars
  <2> QED
    BY <1>1, <1>2, <2>1, AppendCounts
<1>10. RoundsGrow'
  BY RoundOpens
<1> QED
  BY <1>4, <1>5, <1>6, <1>7, <1>8, <1>9, <1>10 DEF IInv

LEMMA AnswerStep ==
  ASSUME IInv, compressing' = compressing, NEW n \in ResultTokens \union {ShortTokens},
         AnswerCall(n)
  PROVE  IInv'
<1> DEFINE m == ToolResult(<<turn, next>>, n)
<1>1. /\ pc = "calls" /\ pc' = pc /\ phase = "idle" /\ turn' = turn
      /\ UNCHANGED passVars /\ next' = next + 1
      /\ msgs \in Seq(Message) /\ msgs' = Append(msgs, m)
      /\ turn \in Nat /\ next \in Nat
  BY LoopAssumption DEF AnswerCall, IInv, TypeOK, LoopInOrder
<1>2. AsWritten(m) /\ m.role = "tool"
  BY <1>1, MessageTypes, LoopAssumption DEF ShortTokens
<1> HIDE DEF m
<1>3. /\ msgs' \in Seq(Message) /\ Len(msgs') = Len(msgs) + 1
      /\ DOMAIN msgs' = DOMAIN msgs \union {Len(msgs) + 1}
      /\ msgs'[Len(msgs) + 1] = m
      /\ \A i \in DOMAIN msgs : i < Len(msgs) + 1 /\ msgs'[i] = msgs[i]
  BY <1>1, <1>2, AppendKeeps
<1>4. submitted' \in BOOLEAN /\ answered' \in BOOLEAN
  BY DEF AnswerCall
<1>5. TypeOK'
  BY <1>1, <1>3, <1>4 DEF AnswerCall, IInv, TypeOK, Pass!PassVarsOK, passVars
<1>6. LoopInOrder'
  BY <1>1, <1>2, <1>3 DEF IInv, LoopInOrder, passVars
<1>7. AskedMarked' /\ SummarizedOnce'
  BY <1>1, <1>3 DEF IInv, AskedMarked, SummarizedOnce, passVars
<1>8. CopyOfHistory' /\ OldestFirst' /\ PromptWithinBudget'
  BY <1>1 DEF CopyOfHistory, OldestFirst, Pass!OldestFirst, Pass!Working, passVars, PromptWithinBudget
<1>9. CountsKept'
  <2>1. UNCHANGED <<outSummarized, outDropped>> /\ phase' = "idle"
    BY <1>1 DEF AnswerCall, passVars
  <2> QED
    BY <1>1, <1>2, <2>1, AppendCounts
<1>10. RoundsGrow'
  BY RoundContinues
<1> QED
  BY <1>5, <1>6, <1>7, <1>8, <1>9, <1>10 DEF IInv

(* Run ends, or goes on to compress or to call the model again.            *)
LEMMA TurnEnds ==
  ASSUME IInv, compressing' = compressing, GenerateFails \/ AfterCalls
  PROVE  IInv'
<1>1. /\ UNCHANGED <<msgs, turn, next, submitted, answered, outSummarized, outDropped, passVars>>
      /\ phase = "idle" /\ pc' \in {"done", "compress", "generate"}
      /\ pc' = "generate" => turn < MaxTurns /\ ~ compressing
      /\ stop' \in {stop, "error", "submitted", "max_turns"} /\ pc # "done"
  BY DEF GenerateFails, AfterCalls, EndTurn, Stop, IInv, LoopInOrder
<1>2. TypeOK'
  BY <1>1 DEF IInv, TypeOK, Pass!PassVarsOK, passVars
<1>3. LoopInOrder'
  BY <1>1 DEF IInv, LoopInOrder, passVars
<1>4. AskedMarked' /\ SummarizedOnce'
  BY <1>1 DEF IInv, AskedMarked, SummarizedOnce, passVars
<1>5. CopyOfHistory' /\ OldestFirst' /\ PromptWithinBudget'
  BY <1>1 DEF CopyOfHistory, OldestFirst, Pass!OldestFirst, Pass!Working, passVars, PromptWithinBudget
<1>6. CountsKept'
  BY <1>1 DEF IInv, CountsKept, CountsOf, InForm, Marked, Pass!Working, passVars
<1>7. RoundsGrow'
  <2>1. pc = "calls" => next > Len(Calls)
    BY DEF GenerateFails, AfterCalls
  <2> QED
    BY <1>1, <2>1, RoundsStay
<1> QED
  BY <1>2, <1>3, <1>4, <1>5, <1>6, <1>7 DEF IInv

LEMMA CompressFailsStep ==
  ASSUME IInv, compressing' = compressing, CompressFails
  PROVE  IInv'
<1>1. /\ UNCHANGED <<msgs, turn, next, submitted, answered, outSummarized, outDropped, asked>>
      /\ pc' = "done" /\ stop' = "error" /\ phase' = "idle" /\ work' = <<>>
      /\ summarized' = 0 /\ dropped' = 0
  BY DEF CompressFails, Stop, PassReset
<1>2. TypeOK'
  BY <1>1 DEF IInv, TypeOK, Pass!PassVarsOK
<1>3. LoopInOrder'
  BY <1>1 DEF IInv, LoopInOrder
<1>4. AskedMarked' /\ SummarizedOnce'
  BY <1>1 DEF IInv, AskedMarked, SummarizedOnce
<1>5. CopyOfHistory' /\ OldestFirst' /\ PromptWithinBudget'
  BY <1>1 DEF CopyOfHistory, OldestFirst, Pass!OldestFirst, Pass!Working, PromptWithinBudget
<1>6. CountsKept'
  BY <1>1 DEF IInv, CountsKept, CountsOf, InForm, Marked, Pass!Working
<1>7. RoundsGrow'
  <2>1. pc = "compress"
    BY DEF CompressFails
  <2> QED
    BY <1>1, <2>1, RoundsStay
<1> QED
  BY <1>2, <1>3, <1>4, <1>5, <1>6, <1>7 DEF IInv

(* What is written back into a message.                                    *)
LEMMA Written ==
  ASSUME NEW m \in Message, NEW t \in Pass!Turn
  PROVE  LET w == [m EXCEPT !.form = t.form, !.size = t.size, !.compressed = t.compressed]
         IN  /\ w \in Message /\ w.role = m.role
             /\ w.calls = m.calls /\ w.answers = m.answers
             /\ w.form = t.form /\ w.size = t.size /\ w.compressed = t.compressed
BY DEF Message, Pass!Turn, Pass!Form

LEMMA WrittenSame ==
  ASSUME NEW m \in Message
  PROVE  [m EXCEPT !.form = m.form, !.size = m.size, !.compressed = m.compressed] = m
BY DEF Message

(* The history becomes the copy, in what the copy has of it.               *)
LEMMA WriteBackEffect ==
  ASSUME IInv, WriteBack
  PROVE  /\ msgs' \in Seq(Message) /\ Len(msgs') = Len(msgs)
         /\ DOMAIN msgs' = DOMAIN msgs /\ DOMAIN msgs = 1 .. Len(msgs)
         /\ \A i \in DOMAIN msgs :
              /\ msgs'[i] = [msgs[i] EXCEPT !.form = work[i].form, !.size = work[i].size,
                                            !.compressed = work[i].compressed]
              /\ msgs'[i].role = msgs[i].role /\ msgs'[i].calls = msgs[i].calls
              /\ msgs'[i].answers = msgs[i].answers /\ msgs'[i].form = work[i].form
              /\ msgs'[i].size = work[i].size /\ msgs'[i].compressed = work[i].compressed
         /\ TurnsOf(msgs)' = work
<1> DEFINE W(i) == [msgs[i] EXCEPT !.form = work[i].form, !.size = work[i].size,
                                   !.compressed = work[i].compressed]
<1>1. phase = "done" /\ msgs' = [i \in DOMAIN msgs |-> W(i)]
  BY DEF WriteBack
<1>2. /\ work \in Seq(Pass!Turn) /\ Len(work) = Len(msgs) /\ Len(msgs) \in Nat
      /\ DOMAIN work = DOMAIN msgs /\ DOMAIN msgs = 1 .. Len(msgs)
  <2>1. Pass!Working
    BY <1>1 DEF Pass!Working
  <2>2. Len(msgs) \in Nat
    BY DEF IInv, TypeOK
  <2> QED
    BY <2>1, <2>2, CopyObservations
<1>0. \A i \in DOMAIN msgs : msgs[i] \in Message /\ work[i] \in Pass!Turn
  <2>1. \A i \in DOMAIN msgs : msgs[i] \in Message
    BY DEF IInv, TypeOK
  <2>2. \A i \in DOMAIN work : work[i] \in Pass!Turn
    BY <1>2
  <2> QED
    BY <1>2, <2>1, <2>2
<1>3. \A i \in DOMAIN msgs : /\ W(i) \in Message /\ W(i).role = msgs[i].role
                             /\ W(i).calls = msgs[i].calls
                             /\ W(i).answers = msgs[i].answers
                             /\ W(i).form = work[i].form /\ W(i).size = work[i].size
                             /\ W(i).compressed = work[i].compressed
  <2> SUFFICES ASSUME NEW i \in DOMAIN msgs
               PROVE  /\ W(i) \in Message /\ W(i).role = msgs[i].role
                      /\ W(i).calls = msgs[i].calls /\ W(i).answers = msgs[i].answers
                      /\ W(i).form = work[i].form /\ W(i).size = work[i].size
                      /\ W(i).compressed = work[i].compressed
    OBVIOUS
  <2> QED
    BY <1>0, Written
<1> HIDE DEF W
<1>4. msgs' \in Seq(Message) /\ Len(msgs') = Len(msgs) /\ DOMAIN msgs' = DOMAIN msgs
  BY <1>1, <1>2, <1>3
<1>5. \A i \in DOMAIN msgs : msgs'[i] = W(i)
  BY <1>1
<1>6. TurnsOf(msgs)' = work
  <2>1. \A i \in DOMAIN msgs : work[i].role = msgs[i].role /\ work[i] \in Pass!Turn
    BY <1>1, <1>2 DEF IInv, CopyOfHistory, Pass!Working
  <2>2. \A i \in DOMAIN msgs :
          work[i] = [role |-> work[i].role, form |-> work[i].form, size |-> work[i].size,
                     compressed |-> work[i].compressed]
    BY <2>1 DEF Pass!Turn
  <2>3. TurnsOf(msgs)' = [i \in DOMAIN msgs |-> work[i]]
    BY <1>3, <1>4, <1>5, <2>1, <2>2 DEF TurnsOf
  <2>4. work = [i \in DOMAIN msgs |-> work[i]]
    BY <1>2
  <2> QED
    BY <2>3, <2>4
<1> QED
  BY <1>2, <1>3, <1>4, <1>5, <1>6 DEF W

LEMMA WriteBackStep ==
  ASSUME IInv, compressing' = compressing, WriteBack
  PROVE  IInv'
<1>1. /\ pc = "compress" /\ phase = "done" /\ UNCHANGED <<turn, next, submitted, answered, asked>>
      /\ phase' = "idle" /\ work' = <<>> /\ summarized' = 0 /\ dropped' = 0
  BY DEF WriteBack, PassReset
<1>2. /\ pc' \in {"generate", "done"} /\ (pc' = "generate" => turn < MaxTurns)
      /\ stop' \in {stop, "max_turns"}
  BY DEF WriteBack, EndTurn, Stop
<1>3. TypeOK'
  <2>0. outSummarized' = outSummarized + summarized /\ outDropped' = outDropped + dropped
    BY DEF WriteBack
  <2>1. outSummarized' \in Nat /\ outDropped' \in Nat
    BY <2>0 DEF IInv, TypeOK, Pass!PassVarsOK
  <2>2. msgs' \in Seq(Message)
    BY WriteBackEffect
  <2>3. Pass!PassVarsOK'
    BY <1>1 DEF IInv, TypeOK, Pass!PassVarsOK
  <2> QED
    BY <1>1, <1>2, <2>1, <2>2, <2>3 DEF IInv, TypeOK
<1>0. /\ DOMAIN msgs' = DOMAIN msgs
      /\ \A i \in DOMAIN msgs : /\ msgs'[i].role = msgs[i].role
                                /\ msgs'[i].compressed = work[i].compressed
  BY WriteBackEffect
<1>4. LoopInOrder'
  BY <1>0, <1>1, <1>2 DEF IInv, LoopInOrder
<1>5. AskedMarked' /\ SummarizedOnce'
  BY <1>0, <1>1 DEF IInv, AskedMarked, SummarizedOnce
<1>6. CopyOfHistory' /\ OldestFirst'
  BY <1>1 DEF CopyOfHistory, OldestFirst, Pass!OldestFirst, Pass!Working
<1>7. PromptWithinBudget'
  <2>1. TurnsOf(msgs)' = work
    BY WriteBackEffect
  <2>2. Budget > 0 => ~ Pass!OverBudget(work) \/ Pass!Observations(work) = {}
    BY <1>1 DEF IInv, CopyOfHistory, Pass!Working, Pass!Droppable
  <2> QED
    BY <2>1, <2>2 DEF PromptWithinBudget, Pass!OverBudget, Pass!Observations
<1>8. CountsKept'
  <2>1. /\ DOMAIN work = DOMAIN msgs /\ DOMAIN msgs' = DOMAIN msgs
        /\ \A i \in DOMAIN msgs : /\ msgs'[i].form = work[i].form
                                  /\ msgs'[i].compressed = work[i].compressed
    BY <1>1, WriteBackEffect, CopyObservations DEF Pass!Working
  <2>2. /\ InForm(msgs', "marker") = InForm(work, "marker")
        /\ InForm(msgs', "summary") = InForm(work, "summary")
        /\ Marked(msgs') = Marked(work)
    BY <2>1 DEF InForm, Marked
  <2>3. CountsOf(work, outSummarized + summarized, outDropped + dropped)
    BY <1>1 DEF IInv, CountsKept, Pass!Working
  <2>4. outSummarized' = outSummarized + summarized /\ outDropped' = outDropped + dropped
    BY DEF WriteBack
  <2>5. CountsOf(msgs', outSummarized', outDropped')
    BY <2>2, <2>3, <2>4 DEF CountsOf
  <2> QED
    BY <1>1, <2>5 DEF CountsKept, CountsOf, InForm, Marked, Pass!Working
<1>9. RoundsGrow'
  BY <1>1, <1>2, WriteBackEffect, RoundsStay
<1> QED
  BY <1>3, <1>4, <1>5, <1>6, <1>7, <1>8, <1>9 DEF IInv

-----------------------------------------------------------------------------
LEMMA InitIInv == Init => IInv
<1> SUFFICES ASSUME Init PROVE IInv
  OBVIOUS
<1>1. /\ msgs = <<Goal>> /\ pc = "generate" /\ turn = 0 /\ phase = "idle"
      /\ work = <<>> /\ asked = <<>> /\ summarized = 0 /\ dropped = 0
  BY DEF Init, Pass!PassInit
<1>2. Goal \in Message /\ Goal.role = "user" /\ Goal.form = "orig" /\ ~ Goal.compressed
  BY MessageTypes DEF AsWritten
<1>3. msgs \in Seq(Message) /\ DOMAIN msgs = {1} /\ msgs[1].role = "user"
  BY <1>1, <1>2
<1>4. TypeOK
  <2>1. Pass!PassVarsOK
    BY <1>1 DEF Pass!PassVarsOK
  <2>2. turn \in 0 .. MaxTurns
    BY <1>1, LoopAssumption
  <2>3. /\ compressing \in BOOLEAN /\ next = 1 /\ submitted = FALSE /\ answered = FALSE
        /\ stop = "running" /\ outSummarized = 0 /\ outDropped = 0
    BY DEF Init
  <2>4. submitted \in BOOLEAN /\ answered \in BOOLEAN
    BY <2>3
  <2>5. next \in Nat \ {0} /\ outSummarized \in Nat /\ outDropped \in Nat
    BY <2>3
  <2>6. /\ pc \in {"generate", "calls", "compress", "done"}
        /\ stop \in {"running", "submitted", "max_turns", "no_tool_call", "error"}
    BY <1>1, <2>3
  <2>7. compressing \in BOOLEAN
    BY DEF Init
  <2> QED
    BY <1>3, <2>1, <2>2, <2>4, <2>5, <2>6, <2>7, Zenon DEF TypeOK
<1>5. LoopInOrder
  BY <1>1, <1>3, LoopAssumption DEF LoopInOrder
<1>6. AskedMarked /\ SummarizedOnce
  BY <1>1 DEF AskedMarked, SummarizedOnce
<1>7. CopyOfHistory /\ OldestFirst
  BY <1>1, NoPass
<1>8. PromptWithinBudget
  BY <1>3, Turns DEF PromptWithinBudget, Pass!Observations
<1>9. CountsKept
  <2>1. InForm(msgs, "marker") = {} /\ InForm(msgs, "summary") = {} /\ Marked(msgs) = {}
    BY <1>1, <1>2, <1>3 DEF InForm, Marked
  <2>2. outSummarized = 0 /\ outDropped = 0
    BY DEF Init
  <2>3. CountsOf(msgs, outSummarized, outDropped)
    BY <2>1, <2>2, FS_EmptySet DEF CountsOf
  <2> QED
    BY <1>1, <2>3 DEF CountsKept, Pass!Working
<1>10. RoundsGrow
  <2>1. Len(msgs) = 1 /\ msgs # <<>> /\ msgs[1].role = "user"
    BY <1>1, <1>2
  <2>2. InRounds
    BY <2>1 DEF InRounds
  <2> QED
    BY <1>1, <1>3, <2>2 DEF RoundsGrow
<1> QED
  BY <1>4, <1>5, <1>6, <1>7, <1>8, <1>9, <1>10 DEF IInv

LEMMA NextKeeps ==
  ASSUME IInv, [Next]_vars
  PROVE  IInv'
<1>1. CASE UNCHANGED vars
  <2>1. /\ UNCHANGED <<compressing, msgs, pc, turn, next, submitted, answered, stop,
                      outSummarized, outDropped, work, phase, summarized, dropped, asked>>
        /\ TurnsOf(msgs)' = TurnsOf(msgs)
    BY <1>1 DEF vars, loopVars, passVars, TurnsOf
  <2>2. TypeOK' /\ LoopInOrder' /\ AskedMarked' /\ SummarizedOnce'
    BY <2>1 DEF IInv, TypeOK, Pass!PassVarsOK, LoopInOrder, AskedMarked, SummarizedOnce
  <2>3. CopyOfHistory' /\ OldestFirst' /\ PromptWithinBudget'
    BY <2>1 DEF IInv, CopyOfHistory, OldestFirst, Pass!OldestFirst, Pass!Working,
       PromptWithinBudget, Pass!OverBudget, Pass!Droppable
  <2>4. CountsKept'
    BY <2>1 DEF IInv, CountsKept, CountsOf, InForm, Marked, Pass!Working
  <2>5. RoundsGrow'
    BY <2>1 DEF IInv, RoundsGrow, InRounds, Round, Complete, LastAction, Calls
  <2> QED
    BY <2>2, <2>3, <2>4, <2>5 DEF IInv
<1> QED
  BY <1>1, GenerateStep, TurnEnds, AnswerStep, PassStep, WriteBackStep, CompressFailsStep
     DEF Next, Step

(* The invariant from which the properties below follow.                   *)
THEOREM LoopInvariant == Spec => []IInv
<1>1. IInv /\ [Next]_vars => IInv'
  BY NextKeeps
<1> QED
  BY InitIInv, <1>1, PTL DEF Spec

(* Every variable of the loop and of the pass keeps its type: the turns    *)
(* never exceed their cap, whatever the model answers.                     *)
THEOREM TypeCorrect == Spec => []TypeOK
<1>1. IInv => TypeOK
  BY DEF IInv
<1> QED
  BY LoopInvariant, <1>1, PTL

(* What the provider is sent and what is stored are whole rounds, with one *)
(* result for each call, in order.                                         *)
THEOREM RoundsTheorem == Spec => []WholeRounds
<1>1. IInv => WholeRounds
  BY DEF IInv, RoundsGrow, WholeRounds
<1> QED
  BY LoopInvariant, <1>1, PTL

(* No observation is sent to the summarizer twice in a run.                *)
THEOREM SummarizedOnceTheorem == Spec => []SummarizedOnce
<1>1. IInv => SummarizedOnce
  BY DEF IInv
<1> QED
  BY LoopInvariant, <1>1, PTL

(* In every pass the oldest context goes first.                            *)
THEOREM OldestFirstTheorem == Spec => []OldestFirst
<1>1. IInv => OldestFirst
  BY DEF IInv
<1> QED
  BY LoopInvariant, <1>1, PTL

(* The model gets a history within the budget, or one that holds nothing   *)
(* more that could be dropped.                                             *)
THEOREM BudgetTheorem == Spec => []PromptWithinBudget
<1>1. IInv => PromptWithinBudget
  BY DEF IInv
<1> QED
  BY LoopInvariant, <1>1, PTL

(* The outcome's counts are what the transcript shows.                     *)
THEOREM CountsTheorem == Spec => []CountsMatchTranscript
<1>1. IInv => CountsMatchTranscript
  BY DEF IInv, CountsKept, CountsMatchTranscript
<1> QED
  BY LoopInvariant, <1>1, PTL

(* The part of HistoryOnlyCondensed about one message.                     *)
LEMMA CondensedStep ==
  ASSUME IInv, [Next]_vars
  PROVE  /\ Len(msgs') >= Len(msgs)
         /\ \A i \in DOMAIN msgs : msgs'[i] # msgs[i] =>
              /\ msgs[i].role = "tool" /\ msgs[i].form # "marker"
              /\ [msgs'[i] EXCEPT !.form = msgs[i].form, !.size = msgs[i].size,
                                  !.compressed = msgs[i].compressed] = msgs[i]
              /\ \E j \in DOMAIN msgs : j > i /\ msgs[j].role = "assistant"
<1>0. msgs \in Seq(Message) /\ Len(msgs) \in Nat
  BY DEF IInv, TypeOK
<1>1. CASE msgs' = msgs
  BY <1>0, <1>1
<1>2. ASSUME NEW calls \in CallLists, Generate(calls)
      PROVE  Len(msgs') >= Len(msgs) /\ \A i \in DOMAIN msgs : msgs'[i] = msgs[i]
  BY <1>0, <1>2, MessageTypes, AppendKeeps DEF Generate
<1>3. ASSUME NEW n \in ResultTokens \union {ShortTokens}, AnswerCall(n)
      PROVE  Len(msgs') >= Len(msgs) /\ \A i \in DOMAIN msgs : msgs'[i] = msgs[i]
  <2>1. AsWritten(ToolResult(<<turn, next>>, n))
    BY MessageTypes, LoopAssumption DEF ShortTokens, IInv, TypeOK
  <2> QED
    BY <1>0, <1>3, <2>1, AppendKeeps DEF AnswerCall
<1>4. CASE WriteBack
  <2>1. Len(msgs') >= Len(msgs)
    <3>1. Len(msgs') = Len(msgs)
      BY <1>4, WriteBackEffect
    <3> QED
      BY <1>0, <3>1
  <2> SUFFICES ASSUME NEW i \in DOMAIN msgs, msgs'[i] # msgs[i]
               PROVE  /\ msgs[i].role = "tool" /\ msgs[i].form # "marker"
                      /\ [msgs'[i] EXCEPT !.form = msgs[i].form, !.size = msgs[i].size,
                                          !.compressed = msgs[i].compressed] = msgs[i]
                      /\ \E j \in DOMAIN msgs : j > i /\ msgs[j].role = "assistant"
    BY <2>1
  <2> DEFINE H == TurnsOf(msgs)
  <2>2. /\ DOMAIN H = DOMAIN msgs /\ DOMAIN msgs = 1 .. Len(msgs)
        /\ \A k \in DOMAIN msgs : H[k].role = msgs[k].role /\ H[k].form = msgs[k].form
        /\ H[i] = [role |-> msgs[i].role, form |-> msgs[i].form,
                   size |-> msgs[i].size, compressed |-> msgs[i].compressed]
        /\ msgs[i] \in Message
    BY <1>0, Turns
  <2>3. msgs'[i] = [msgs[i] EXCEPT !.form = work[i].form, !.size = work[i].size,
                                   !.compressed = work[i].compressed]
    BY <1>4, WriteBackEffect
  <2>4. work[i] # H[i]
    <3> SUFFICES ASSUME work[i] = H[i] PROVE FALSE
      OBVIOUS
    <3>1. work[i].form = msgs[i].form /\ work[i].size = msgs[i].size
          /\ work[i].compressed = msgs[i].compressed
      BY <2>2
    <3> QED
      BY <2>2, <2>3, <3>1, WrittenSame
  <2>5. i \in Pass!Observations(H)
    BY <1>4, <2>4 DEF WriteBack, IInv, CopyOfHistory, Pass!Working
  <2> HIDE DEF H
  <2>6. i \notin Pass!Protected(H) /\ msgs[i].role = "tool" /\ msgs[i].form # "marker"
    BY <2>2, <2>5 DEF Pass!Observations
  <2>7. PICK h \in DOMAIN msgs : h < i /\ msgs[h].role = "assistant"
    BY <2>6 DEF IInv, LoopInOrder
  <2>8. \E j \in DOMAIN H : j > i /\ H[j].role = "assistant"
    BY <1>0, <2>2, <2>6, <2>7, LaterAction
  <2>9. [msgs'[i] EXCEPT !.form = msgs[i].form, !.size = msgs[i].size,
                         !.compressed = msgs[i].compressed] = msgs[i]
    BY <2>2, <2>3 DEF Message
  <2> QED
    BY <2>2, <2>6, <2>8, <2>9
<1> QED
  BY <1>1, <1>2, <1>3, <1>4 DEF Next, Step, GenerateFails, AfterCalls, CompressStep,
     CompressFails, loopVars, vars

(* A message keeps its place, its role, its calls and the call it answers; *)
(* only a result older than the last action is ever condensed.             *)
THEOREM CondensedTheorem == Spec => HistoryOnlyCondensed
<1>1. IInv /\ [Next]_vars =>
        [/\ Len(msgs') >= Len(msgs)
         /\ \A i \in DOMAIN msgs : msgs'[i] # msgs[i] =>
              /\ msgs[i].role = "tool" /\ msgs[i].form # "marker"
              /\ [msgs'[i] EXCEPT !.form = msgs[i].form, !.size = msgs[i].size,
                                  !.compressed = msgs[i].compressed] = msgs[i]
              /\ \E j \in DOMAIN msgs : j > i /\ msgs[j].role = "assistant"]_vars
  BY CondensedStep
<1> QED
  BY LoopInvariant, <1>1, PTL DEF Spec, HistoryOnlyCondensed
=============================================================================
