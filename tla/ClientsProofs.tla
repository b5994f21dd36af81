---------------------------- MODULE ClientsProofs ----------------------------
(***************************************************************************)
(* The safety properties of Clients, for every setting of the providers,   *)
(* any texts and any number of tries.                                      *)
(*                                                                         *)
(* The inductive invariant says where a call is (a batch begins where the  *)
(* one before it ended; what was counted while it was filled is the sum of *)
(* its tokens; and when it is posted the next text would be too much),     *)
(* that what came so far is at most a vector for each text before the      *)
(* batch, and each text's own if none is missing, and that the counters    *)
(* and the verdict are those of the answers to this request.               *)
(***************************************************************************)
EXTENDS Clients, DataLemmas

(* The count is the sum, and within the caps.                              *)
Filled ==
  /\ Taken <= MaxItems
  /\ tokens = BatchTokens(texts, from, to)
  /\ limits.tokens > 0 /\ Taken > 1 => tokens <= limits.tokens

(* There is no room for the next text.                                     *)
Packed ==
  to < Len(texts) =>
    \/ Taken = MaxItems
    \/ limits.tokens > 0 /\ BatchTokens(texts, from, to + 1) > limits.tokens

Place ==
  /\ client = "chat" => texts = <<>> /\ out = <<>> /\ pc \in {"send", "wait", "done"}
  /\ client = "embed" =>
       /\ pc = "batch" => from = to + 1
       /\ pc = "fill" => from <= Len(texts) /\ to >= from - 1 /\ Filled
       /\ pc \in {"send", "wait"} => from <= to /\ Filled /\ Packed
       /\ result = "ok" => from = Len(texts) + 1

OutSoFar ==
  ~ astray =>
    /\ Len(out) < from
    /\ Len(out) = from - 1 => \A k \in DOMAIN out : out[k] = k

Fate ==
  /\ pc # "done" <=> result = "running"
  /\ pc \in {"send", "wait"} => Len(answers) < MaxAttempts
  /\ pc \in {"send", "wait"} => \A i \in DOMAIN answers : answers[i].what \in Transient
  /\ pc = "wait" => Len(answers) > 0
  /\ Len(answers) <= MaxAttempts
  /\ \A i \in DOMAIN answers : answers[i].what \notin Transient => i = Len(answers)
  /\ Redraws = toolFails
  /\ toolFails > MaxToolUseRetries <=> result = "toolUse"
  /\ result = "gaveUp" => Len(answers) = MaxAttempts /\ Last(answers).what \in Transient
  /\ result \in {"refused", "unauthorized", "garbled"} => Last(answers).what = result

IInv == TypeOK /\ Place /\ OutSoFar /\ Fate /\ WaitsAsAsked

LEMMA Numbers ==
  /\ MaxAttempts \in Nat \ {0} /\ MaxToolUseRetries \in Nat
  /\ MaxDelay \in Nat \ {0} /\ Sizes \subseteq Nat /\ MaxTexts \in Nat
BY ClientsAssumption

-----------------------------------------------------------------------------
(* Batches                                                                 *)

(* A request's tokens are a sum over its texts.                            *)
LEMMA TokensAreSum ==
  ASSUME NEW s, NEW i \in Nat, NEW j \in Nat, \A k \in i .. j : s[k] \in Nat
  PROVE  \E h : /\ Sums(h, i .. j, [k \in i .. j |-> EstTokens(s[k])])
               /\ BatchTokens(s, i, j) = h[i .. j]
<1> DEFINE S == i .. j
           w == [x \in S |-> EstTokens(s[x])]
           Sum(h) == [t \in SUBSET S |->
                        IF t = {} THEN 0
                        ELSE EstTokens(s[CHOOSE x \in t : TRUE]) + h[t \ {CHOOSE x \in t : TRUE}]]
<1>1. IsFiniteSet(S)
  BY FS_Interval
<1>2. w \in [S -> Nat] /\ \A x \in S : w[x] = EstTokens(s[x])
  BY DEF EstTokens
<1>3. BatchTokens(s, i, j) = (CHOOSE h : h = Sum(h))[S]
  BY Zenon DEF BatchTokens, MapThenSumSet, MapThenFoldSet
<1> HIDE DEF S, w
<1>4. ASSUME NEW h
      PROVE  Sums(h, S, w) <=> h = Sum(h)
  <2>1. \A t \in SUBSET S : t # {} => w[CHOOSE x \in t : TRUE] = EstTokens(s[CHOOSE x \in t : TRUE])
    BY <1>2
  <2>2. [t \in SUBSET S |-> IF t = {} THEN 0
                           ELSE w[CHOOSE x \in t : TRUE] + h[t \ {CHOOSE x \in t : TRUE}]] = Sum(h)
    BY <2>1
  <2> QED
    BY <2>2 DEF Sums
<1>5. \E g : Sums(g, S, w)
  BY <1>1, <1>2, SumFacts
<1>6. Sums(CHOOSE h : h = Sum(h), S, w)
  <2>1. \E g : g = Sum(g)
    <3> HIDE DEF Sum
    <3> QED
      BY <1>4, <1>5
  <2> DEFINE q == CHOOSE h : h = Sum(h)
  <2>2. q = Sum(q)
    <3> HIDE DEF Sum
    <3> QED
      BY <2>1
  <2> HIDE DEF q
  <2>3. Sums(q, S, w)
    BY <1>4, <2>2
  <2> QED
    BY <2>3 DEF q
<1> QED
  BY <1>3, <1>6, Zenon DEF S, w

(* No texts have no tokens.                                                *)
LEMMA NoTokens ==
  ASSUME NEW s, NEW i \in Nat \ {0}
  PROVE  BatchTokens(s, i, i - 1) = 0
<1>1. i .. (i - 1) = {} /\ i \in Nat /\ i - 1 \in Nat /\ \A k \in i .. (i - 1) : s[k] \in Nat
  OBVIOUS
<1>2. PICK e : /\ Sums(e, i .. (i - 1), [k \in i .. (i - 1) |-> EstTokens(s[k])])
               /\ BatchTokens(s, i, i - 1) = e[i .. (i - 1)]
  BY <1>1, TokensAreSum, Zenon
<1>3. e[{}] = 0
  BY <1>1, <1>2 DEF Sums
<1> QED
  BY <1>1, <1>2, <1>3

(* A text more adds its own tokens.                                        *)
LEMMA TokensAdded ==
  ASSUME NEW s, NEW i \in Nat \ {0}, NEW j \in Nat, j >= i - 1,
         \A k \in i .. (j + 1) : s[k] \in Nat
  PROVE  /\ BatchTokens(s, i, j) \in Nat
         /\ BatchTokens(s, i, j + 1) = BatchTokens(s, i, j) + EstTokens(s[j + 1])
<1> DEFINE S == i .. (j + 1)
           T == i .. j
           w == [k \in S |-> EstTokens(s[k])]
           v == [k \in T |-> EstTokens(s[k])]
<1>1. T \in SUBSET S /\ S \ {j + 1} = T /\ j + 1 \in S /\ IsFiniteSet(S) /\ IsFiniteSet(T)
  BY FS_Interval
<1>2. w \in [S -> Nat] /\ v \in [T -> Nat] /\ (\A k \in T : v[k] = w[k]) /\ w[j + 1] = EstTokens(s[j + 1])
  BY <1>1 DEF EstTokens
<1>3. PICK h : Sums(h, S, w) /\ BatchTokens(s, i, j + 1) = h[S]
  <2>1. i \in Nat /\ j + 1 \in Nat
    OBVIOUS
  <2> QED
    BY <2>1, TokensAreSum, Zenon
<1>4. PICK g : Sums(g, T, v) /\ BatchTokens(s, i, j) = g[T]
  <2>1. i \in Nat /\ j \in Nat /\ \A k \in T : s[k] \in Nat
    BY <1>1
  <2> QED
    BY <2>1, TokensAreSum, Zenon
<1>5. h[S] = w[j + 1] + h[T]
  <2> HIDE DEF S, T, w, v
  <2>1. S \in SUBSET S
    OBVIOUS
  <2>2. h[S] = w[j + 1] + h[S \ {j + 1}]
    BY <1>1, <1>2, <1>3, <2>1, SumOfMember
  <2> QED
    BY <1>1, <2>2
<1>6. g[T] = h[T] /\ g[T] \in Nat
  <2> HIDE DEF S, T, w, v
  <2> QED
    BY <1>1, <1>2, <1>3, <1>4, SumsAgree, SumsType
<1>7. EstTokens(s[j + 1]) \in Nat
  BY <1>1 DEF EstTokens
<1> HIDE DEF S, T, w, v
<1> QED
  BY <1>2, <1>3, <1>4, <1>5, <1>6, <1>7

-----------------------------------------------------------------------------
(* The order of an answer                                                  *)

(* Numbers that increase from 0 .. n, n + 1 of them, are those numbers.    *)
LEMMA IncreasingIsIdentity ==
  ASSUME NEW n \in Nat, NEW h \in [1 .. (n + 1) -> 0 .. n],
         \A i, j \in 1 .. (n + 1) : i < j => h[i] < h[j]
  PROVE  \A i \in 1 .. (n + 1) : h[i] = i - 1
<1>1. ASSUME NEW i \in 1 .. (n + 1), h[i] < i - 1
      PROVE  FALSE
  <2> DEFINE B == {k \in 1 .. (n + 1) : h[k] < k - 1}
  <2>1. PICK k \in B : \A j \in B : k <= j
    <3>1. B \subseteq Nat /\ i \in B
      BY <1>1
    <3> HIDE DEF B
    <3> QED
      BY <3>1, LeastExists
  <2>2. k > 1 /\ k - 1 \in 1 .. (n + 1) /\ h[k - 1] < h[k]
    BY <2>1
  <2> QED
    BY <2>1, <2>2
<1>2. ASSUME NEW i \in 1 .. (n + 1), h[i] > i - 1
      PROVE  FALSE
  <2> DEFINE B == {d \in 0 .. n : h[n + 1 - d] > n - d}
  <2>1. n + 1 - i \in 0 .. n /\ n + 1 - (n + 1 - i) = i /\ n - (n + 1 - i) = i - 1
    OBVIOUS
  <2>2. PICK d \in B : \A j \in B : d <= j
    <3>1. B \subseteq Nat /\ n + 1 - i \in B
      BY <1>2, <2>1
    <3> HIDE DEF B
    <3> QED
      BY <3>1, LeastExists
  <2>3. d # 0
    BY <2>2
  <2>4. /\ n + 1 - d \in 1 .. (n + 1) /\ n + 2 - d \in 1 .. (n + 1) /\ d - 1 \in 0 .. n
        /\ n + 1 - (d - 1) = n + 2 - d
    BY <2>3
  <2>5. h[n + 1 - d] < h[n + 2 - d]
    BY <2>4
  <2>6. d - 1 \in B
    BY <2>2, <2>4, <2>5
  <2> QED
    <3>1. d \in Nat /\ ~ (d <= d - 1)
      BY <2>2
    <3> HIDE DEF B
    <3> QED
      BY <2>2, <2>6, <3>1
<1> QED
  BY <1>1, <1>2

(* What an answer holds: vectors of the batch's texts; none twice and no   *)
(* more than there are texts unless it holds a stray one.                  *)
LEMMA AnswerHolds ==
  ASSUME TypeOK, from <= to, NEW data \in Answers
  PROVE  \E m \in Nat :
           /\ data \in [1 .. m -> [index : Nat, embedding : from .. to]]
           /\ data \in Proper =>
                /\ m <= to - from + 1
                /\ \A i \in 1 .. m : data[i] = Item(data[i].index) /\ data[i].index \in 0 .. to - from
                /\ \A i, j \in 1 .. m : i # j => data[i] # data[j]
<1> DEFINE n == to - from
           I == {Item(i) : i \in 0 .. n}
           R == [index : Nat, embedding : from .. to]
<1>1. n \in Nat /\ from \in Nat /\ to \in Nat
  BY DEF TypeOK
<1>2. \A w \in I : w.index \in 0 .. n /\ w = Item(w.index) /\ w \in R
  BY <1>1 DEF Item
<1>3. IsFiniteSet(I) /\ Cardinality(I) = n + 1
  <2> DEFINE f == [i \in 0 .. n |-> Item(i)]
  <2>1. IsFiniteSet(0 .. n) /\ Cardinality(0 .. n) = n + 1
    BY <1>1, FS_Interval
  <2>2. f \in [0 .. n -> I] /\ \A w \in I : \E i \in 0 .. n : f[i] = w
    OBVIOUS
  <2>3. \A i, j \in 0 .. n : f[i] = f[j] => i = j
    BY DEF Item
  <2> HIDE DEF f, I
  <2>4. f \in Bijection(0 .. n, I)
    BY <2>2, <2>3, Fun_IsBij
  <2> QED
    BY <2>1, <2>4, FS_Bijection DEF ExistsBijection
<1>4. ASSUME NEW d \in Proper
      PROVE  \E m \in 0 .. n + 1 :
               /\ d \in [1 .. m -> I]
               /\ \A i, j \in 1 .. m : i # j => d[i] # d[j]
  <2>1. PICK S \in SUBSET I : d \in SetToSeqs(S)
    BY DEF Proper, SetToAllKPermutations
  <2>2. Cardinality(S) \in 0 .. n + 1
    <3> HIDE DEF I
    <3> QED
      BY <1>1, <1>3, FS_Subset, FS_CardinalityType
  <2> HIDE DEF I
  <2> QED
    BY <2>1, <2>2 DEF SetToSeqs
<1>5. CASE data \in Proper
  <2>1. PICK m \in 0 .. n + 1 : /\ data \in [1 .. m -> I]
                                 /\ \A i, j \in 1 .. m : i # j => data[i] # data[j]
    BY <1>4, <1>5
  <2>2. m \in Nat /\ m <= n + 1
    BY <1>1
  <2>3. data \in [1 .. m -> R]
    <3> HIDE DEF R, I
    <3> QED
      BY <1>2, <2>1
  <2>4. \A i \in 1 .. m : data[i] = Item(data[i].index) /\ data[i].index \in 0 .. n
    <3> HIDE DEF I
    <3> QED
      BY <1>2, <2>1
  <2> QED
    BY <2>1, <2>2, <2>3, <2>4
<1>6. CASE data \notin Proper
  <2>1. PICK x \in Stray, d \in Proper : data = <<x>> \o d
    BY <1>6 DEF Answers
  <2>2. x \in R
    BY <1>1 DEF Stray
  <2>3. PICK c \in 0 .. n + 1 : d \in [1 .. c -> I]
    BY <1>4
  <2> HIDE DEF R, I
  <2>4. c \in Nat /\ d \in [1 .. c -> R]
    BY <1>1, <1>2, <2>3
  <2>5. d \in Seq(R) /\ <<x>> \in Seq(R)
    BY <2>2, <2>4
  <2>6. data \in Seq(R)
    BY <2>1, <2>5
  <2>7. data \in [1 .. Len(data) -> R] /\ Len(data) \in Nat
    BY <2>6
  <2> QED
    BY <1>6, <2>7 DEF R
<1> QED
  BY <1>5, <1>6

(* What is appended to out: vectors of the batch's texts, and, of an       *)
(* answer with one for each text, each text's own.                         *)
LEMMA AnswerInOrder ==
  ASSUME TypeOK, from <= to, NEW data \in Answers, NEW s \in InOrder(data),
         NEW v, v = Vectors(s)
  PROVE  /\ v \in Seq(from .. to)
         /\ data \in Proper =>
              /\ Len(v) <= to - from + 1
              /\ Len(v) = to - from + 1 => \A k \in 1 .. Len(v) : v[k] = from + k - 1
<1> DEFINE n == to - from
           R == [index : Nat, embedding : from .. to]
<1>1. n \in Nat /\ from \in Nat /\ to \in Nat
  BY DEF TypeOK
<1>2. PICK m \in Nat :
        /\ data \in [1 .. m -> R]
        /\ data \in Proper =>
             /\ m <= n + 1
             /\ \A i \in 1 .. m : data[i] = Item(data[i].index) /\ data[i].index \in 0 .. n
             /\ \A i, j \in 1 .. m : i # j => data[i] # data[j]
  BY AnswerHolds
<1>3. DOMAIN data = 1 .. m
  BY <1>2
<1>4. PICK p \in Bijection(1 .. m, 1 .. m) :
        /\ s = [i \in 1 .. m |-> data[p[i]]]
        /\ \A i, j \in DOMAIN s : i < j => s[i].index <= s[j].index
  BY <1>3 DEF InOrder
<1>5. p \in [1 .. m -> 1 .. m] /\ \A i, j \in 1 .. m : p[i] = p[j] => i = j
  BY Fun_IsBij DEF Bijection, Injection, IsInjective
<1>6. DOMAIN s = 1 .. m /\ \A i \in 1 .. m : s[i] = data[p[i]] /\ s[i] \in R
  BY <1>2, <1>4, <1>5
<1>7. v = [k \in 1 .. m |-> s[k].embedding] /\ \A k \in 1 .. m : s[k].embedding \in from .. to
  BY <1>6 DEF Vectors
<1>8. v \in Seq(from .. to) /\ Len(v) = m
  <2> DEFINE Q == from .. to
  <2>1. v = [k \in 1 .. m |-> v[k]] /\ \A k \in 1 .. m : v[k] \in Q
    BY <1>7
  <2> HIDE DEF Q
  <2>2. v \in Seq(Q) /\ Len(v) = m
    BY <2>1
  <2> QED
    BY <2>2 DEF Q
<1>9. ASSUME data \in Proper, m = n + 1
      PROVE  \A k \in 1 .. m : v[k] = from + k - 1
  <2> DEFINE h == [k \in 1 .. (n + 1) |-> s[k].index]
  <2>1. \A k \in 1 .. m : s[k] = Item(s[k].index) /\ s[k].index \in 0 .. n
    <3>1. ASSUME NEW k \in 1 .. m
          PROVE  p[k] \in 1 .. m /\ s[k] = data[p[k]]
      BY <1>5, <1>6
    <3>2. ASSUME NEW i \in 1 .. m
          PROVE  data[i] = Item(data[i].index) /\ data[i].index \in 0 .. n
      BY <1>2, <1>9
    <3> HIDE DEF n
    <3> QED
      BY <3>1, <3>2
  <2>2. h \in [1 .. (n + 1) -> 0 .. n]
    BY <1>9, <2>1
  <2>3. ASSUME NEW i \in 1 .. (n + 1), NEW j \in 1 .. (n + 1), i < j
        PROVE  h[i] < h[j]
    <3>1. s[i] # s[j]
      <4>1. i \in 1 .. m /\ j \in 1 .. m /\ i # j
        BY <1>1, <1>9, <2>3
      <4>2. p[i] \in 1 .. m /\ p[j] \in 1 .. m /\ p[i] # p[j]
        BY <1>5, <4>1
      <4>3. data[p[i]] # data[p[j]]
        BY <1>2, <1>9, <4>2
      <4> QED
        BY <1>6, <4>1, <4>3
    <3>2. s[i].index # s[j].index
      BY <1>9, <2>1, <3>1
    <3>3. s[i].index <= s[j].index /\ s[i].index \in Int /\ s[j].index \in Int
      BY <1>4, <1>6, <1>9, <2>1, <2>3
    <3> QED
      BY <3>2, <3>3
  <2>4. \A i \in 1 .. (n + 1) : h[i] = i - 1
    <3> HIDE DEF h, n
    <3> QED
      BY <1>1, <2>2, <2>3, IncreasingIsIdentity
  <2>5. ASSUME NEW k \in 1 .. m
        PROVE  v[k] = from + k - 1
    <3>1. s[k].index = k - 1 /\ s[k] = Item(s[k].index)
      BY <1>9, <2>1, <2>4
    <3>2. s[k].embedding = from + (k - 1)
      BY <3>1 DEF Item
    <3> QED
      BY <1>1, <1>7, <3>2
  <2> QED
    BY <2>5
<1> QED
  BY <1>2, <1>8, <1>9

-----------------------------------------------------------------------------
(* Tries and waits                                                         *)

LEMMA PowerOfTwo ==
  ASSUME NEW n \in Nat
  PROVE  2 ^ n \in Nat \ {0}
<1>1. IsFiniteSet(1 .. n) /\ Cardinality(1 .. n) = n
  BY FS_Interval
<1>2. IsFiniteSet(SUBSET (1 .. n)) /\ Cardinality(SUBSET (1 .. n)) = 2 ^ n
  BY <1>1, FS_SUBSET
<1>3. {} \in SUBSET (1 .. n)
  OBVIOUS
<1> QED
  BY <1>2, <1>3, FS_EmptySet, FS_CardinalityType

(* The delays have the type and the bounds that waiting asks for.          *)
LEMMA Delays ==
  ASSUME NEW n \in Nat, NEW r \in Nat
  PROVE  /\ BaseDelay * 2 ^ n \in Nat \ {0}
         /\ Backoff(n) \in 1 .. MaxDelay /\ BusyWait(n, r) \in 1 .. MaxDelay
         /\ BusyWait(n, r) >= Backoff(n) /\ BusyWait(n, r) >= Min2(r, MaxDelay)
<1>1. 2 ^ n \in Nat \ {0}
  BY PowerOfTwo
<1>2. \A x, y \in Nat \ {0} : x * y \in Nat \ {0}
  OBVIOUS
<1>3. BaseDelay * 2 ^ n \in Nat \ {0}
  BY <1>1, <1>2, ClientsAssumption
<1> HIDE DEF Backoff
<1>4. Backoff(n) \in 1 .. MaxDelay
  BY <1>3, ClientsAssumption DEF Backoff, Min2
<1> QED
  BY <1>3, <1>4, ClientsAssumption DEF BusyWait, Min2, Max2

(* One answer more, and one redraw more if it is one.                      *)
LEMMA AnswerAdded ==
  ASSUME answers \in Seq(Answer), NEW a \in Answer, answers' = Append(answers, a)
  PROVE  /\ answers' \in Seq(Answer) /\ Len(answers') = Len(answers) + 1
         /\ DOMAIN answers' = 1 .. Len(answers')
         /\ \A i \in DOMAIN answers : answers'[i] = answers[i]
         /\ answers'[Len(answers')] = a /\ Last(answers') = a
         /\ DOMAIN answers = 1 .. Len(answers) /\ Len(answers) \in Nat
         /\ Redraws \in Nat
         /\ Redraws' = IF a.what = "toolUse" THEN Redraws + 1 ELSE Redraws
<1> DEFINE D == {i \in DOMAIN answers : answers[i].what = "toolUse"}
           E == {i \in DOMAIN answers' : answers'[i].what = "toolUse"}
           z == Len(answers) + 1
<1>1. /\ answers' \in Seq(Answer) /\ Len(answers') = z /\ DOMAIN answers' = 1 .. z
      /\ \A i \in DOMAIN answers : answers'[i] = answers[i]
      /\ answers'[z] = a /\ Len(answers) \in Nat /\ DOMAIN answers = 1 .. Len(answers)
  OBVIOUS
<1>2. Last(answers') = a
  BY <1>1 DEF Last
<1>3. D \in SUBSET (1 .. Len(answers)) /\ z \notin D
  BY <1>1
<1>4. E = IF a.what = "toolUse" THEN D \cup {z} ELSE D
  BY <1>1
<1>5. IsFiniteSet(D) /\ Cardinality(D) \in Nat
  <2>1. IsFiniteSet(1 .. Len(answers))
    BY <1>1, FS_Interval
  <2> HIDE DEF D
  <2>2. IsFiniteSet(D)
    BY <1>3, <2>1, FS_Subset
  <2> QED
    BY <2>2, FS_CardinalityType
<1>6. Cardinality(D \cup {z}) = Cardinality(D) + 1
  <2> HIDE DEF D, z
  <2> QED
    BY <1>3, <1>5, FS_AddElement
<1>7. Redraws = Cardinality(D) /\ Redraws' = Cardinality(E)
  BY DEF Redraws
<1>8. Redraws' = IF a.what = "toolUse" THEN Redraws + 1 ELSE Redraws
  <2> HIDE DEF D, E, z
  <2> QED
    BY <1>4, <1>6, <1>7
<1>9. Redraws \in Nat
  BY <1>5, <1>7
<1> QED
  BY <1>1, <1>2, <1>8, <1>9

-----------------------------------------------------------------------------
(* Steps                                                                   *)

LEMMA NoAnswers ==
  ASSUME answers' = <<>>
  PROVE  Redraws' = 0 /\ answers' \in Seq(Answer) /\ Len(answers') = 0 /\ DOMAIN answers' = {}
<1>1. {i \in DOMAIN answers' : answers'[i].what = "toolUse"} = {}
  OBVIOUS
<1> QED
  BY <1>1, FS_EmptySet DEF Redraws

LEMMA SameBatch ==
  ASSUME UNCHANGED <<callVars, from, to, tokens>>
  PROVE  Filled' = Filled /\ Packed' = Packed
BY DEF Filled, Packed, Taken, MaxItems, callVars, batchVars

LEMMA SameAnswers ==
  ASSUME answers' = answers
  PROVE  Redraws' = Redraws
BY DEF Redraws

LEMMA InitIInv == Init => IInv
<1> SUFFICES ASSUME Init
             PROVE  IInv
  OBVIOUS
<1>1. texts \in Seq(Nat)
  <2>1. PICK q \in BoundedSeq(Sizes, MaxTexts) : texts = [k \in DOMAIN q |-> Truncated(q[k], limits)]
    BY DEF Init
  <2>2. q \in Seq(Nat)
    <3>1. PICK m \in 0 .. MaxTexts : q \in [1 .. m -> Sizes]
      BY <2>1 DEF BoundedSeq, SeqOf
    <3>2. m \in Nat
      BY Numbers
    <3>3. q \in [1 .. m -> Nat]
      BY <3>1, Numbers
    <3> QED
      BY <3>2, <3>3
  <2>3. limits.chars \in Nat
    BY ClientsAssumption DEF Init
  <2>4. \A k \in DOMAIN q : Truncated(q[k], limits) \in Nat
    BY <2>2, <2>3 DEF Truncated, Min2
  <2> QED
    BY <2>1, <2>2, <2>4
<1>2. {i \in DOMAIN answers : answers[i].what = "toolUse"} = {}
  BY DEF Init
<1>3. Redraws = 0
  BY <1>2, FS_EmptySet DEF Redraws
<1>4. TypeOK
  <2>1. Len(texts) \in Nat
    BY <1>1
  <2>2. /\ out \in Seq(1 .. Len(texts)) /\ answers \in Seq(Answer)
        /\ toolFails \in 0 .. (MaxToolUseRetries + 1)
    BY Numbers DEF Init
  <2>3. pc \in {"batch", "fill", "send", "wait", "done"} /\ tokens \in Nat /\ astray \in BOOLEAN
    BY DEF Init
  <2>4. from \in 1 .. (Len(texts) + 1) /\ to \in 0 .. Len(texts) /\ delay \in Nat
    BY <2>1 DEF Init
  <2>5. client \in {"embed", "chat"} /\ limits \in Limits /\ canceled \in BOOLEAN /\ result = "running"
    BY DEF Init
  <2> QED
    BY <1>1, <2>2, <2>3, <2>4, <2>5 DEF TypeOK
<1>5. Place /\ OutSoFar /\ WaitsAsAsked
  BY DEF Init, Place, OutSoFar, WaitsAsAsked
<1>6. Fate
  BY <1>3, Numbers DEF Init, Fate
<1> QED
  BY <1>4, <1>5, <1>6 DEF IInv

LEMMA BeginBatchStep ==
  ASSUME IInv, BeginBatch
  PROVE  IInv'
<1>1. from \in 1 .. Len(texts) /\ Len(texts) \in Nat /\ to' = from - 1
  BY DEF IInv, TypeOK, BeginBatch
<1>2. client = "embed" /\ result = "running"
  BY DEF IInv, TypeOK, Place, Fate, BeginBatch
<1>3. TypeOK'
  BY <1>1 DEF IInv, TypeOK, BeginBatch, callVars, batchVars
<1>4. Filled'
  <2>1. MaxItems \in Nat \ {0} /\ MaxItems' = MaxItems
    BY ClientsAssumption DEF IInv, TypeOK, MaxItems, BeginBatch, callVars, batchVars
  <2>2. Taken' = 0
    BY <1>1 DEF Taken, BeginBatch
  <2>3. BatchTokens(texts, from, from - 1) = 0
    BY <1>1, NoTokens
  <2>4. BatchTokens(texts, from, to)' = BatchTokens(texts, from, from - 1)
    BY <1>1 DEF BeginBatch, callVars, batchVars
  <2> QED
    BY <2>1, <2>2, <2>3, <2>4 DEF Filled, BeginBatch
<1>5. Place'
  BY <1>1, <1>2, <1>4 DEF Place, BeginBatch, callVars, batchVars
<1>6. OutSoFar' /\ WaitsAsAsked'
  BY DEF IInv, OutSoFar, WaitsAsAsked, BeginBatch, callVars, batchVars
<1>7. Fate'
  BY SameAnswers DEF IInv, Fate, BeginBatch
<1> QED
  BY <1>3, <1>5, <1>6, <1>7 DEF IInv

(* What filling a batch starts from.                                       *)
LEMMA Filling ==
  ASSUME IInv, pc = "fill"
  PROVE  /\ client = "embed" /\ result = "running" /\ Filled
         /\ from \in 1 .. Len(texts) /\ Len(texts) \in Nat /\ to \in from - 1 .. Len(texts)
         /\ tokens \in Nat /\ limits.tokens \in Nat /\ MaxItems \in Nat \ {0} /\ Taken \in Nat
         /\ to < Len(texts) =>
              /\ EstTokens(texts[to + 1]) \in Nat
              /\ BatchTokens(texts, from, to + 1) = tokens + EstTokens(texts[to + 1])
<1>1. /\ client = "embed" /\ result = "running" /\ Filled
      /\ from \in 1 .. Len(texts) /\ Len(texts) \in Nat /\ to \in from - 1 .. Len(texts)
      /\ tokens \in Nat
  BY DEF IInv, TypeOK, Place, Fate
<1>2. limits.tokens \in Nat /\ MaxItems \in Nat \ {0} /\ Taken \in Nat
  BY <1>1, ClientsAssumption DEF IInv, TypeOK, MaxItems, Taken
<1>3. ASSUME to < Len(texts)
      PROVE  /\ EstTokens(texts[to + 1]) \in Nat
             /\ BatchTokens(texts, from, to + 1) = tokens + EstTokens(texts[to + 1])
  <2>1. \A k \in from .. (to + 1) : texts[k] \in Nat
    BY <1>1, <1>3 DEF IInv, TypeOK
  <2>2. from \in Nat \ {0} /\ to \in Nat /\ to >= from - 1 /\ texts[to + 1] \in Nat
    BY <1>1, <2>1
  <2> QED
    BY <1>1, <2>1, <2>2, TokensAdded DEF Filled, EstTokens
<1> QED
  BY <1>1, <1>2, <1>3

LEMMA TakeTextStep ==
  ASSUME IInv, TakeText
  PROVE  IInv'
<1>1. /\ client = "embed" /\ result = "running" /\ Filled
      /\ from \in 1 .. Len(texts) /\ Len(texts) \in Nat /\ to \in from - 1 .. Len(texts)
      /\ tokens \in Nat /\ limits.tokens \in Nat /\ MaxItems \in Nat \ {0} /\ Taken \in Nat
      /\ to < Len(texts) /\ EstTokens(texts[to + 1]) \in Nat
      /\ BatchTokens(texts, from, to + 1) = tokens + EstTokens(texts[to + 1])
  BY Filling DEF TakeText, Takes
<1>2. to' = to + 1 /\ tokens' = tokens + EstTokens(texts[to + 1]) /\ pc' = "fill"
  BY DEF TakeText
<1>3. TypeOK'
  BY <1>1, <1>2 DEF IInv, TypeOK, TakeText, callVars, batchVars
<1>4. Filled'
  <2>1. MaxItems' = MaxItems /\ limits' = limits
    BY DEF MaxItems, TakeText, callVars, batchVars
  <2>2. Taken' = Taken + 1
    BY <1>1, <1>2 DEF Taken, TakeText
  <2>3. BatchTokens(texts, from, to)' = tokens'
    BY <1>1, <1>2 DEF TakeText, callVars, batchVars
  <2> QED
    BY <1>1, <1>2, <2>1, <2>2, <2>3 DEF Filled, TakeText, Takes
<1>5. Place'
  BY <1>1, <1>2, <1>4 DEF Place, TakeText, callVars, batchVars
<1>6. OutSoFar' /\ WaitsAsAsked'
  BY DEF IInv, OutSoFar, WaitsAsAsked, TakeText, callVars, batchVars
<1>7. Fate'
  BY SameAnswers DEF IInv, Fate, TakeText
<1> QED
  BY <1>3, <1>5, <1>6, <1>7 DEF IInv

LEMMA PostBatchStep ==
  ASSUME IInv, PostBatch
  PROVE  IInv'
<1>1. /\ client = "embed" /\ result = "running" /\ Filled
      /\ from \in 1 .. Len(texts) /\ Len(texts) \in Nat /\ to \in from - 1 .. Len(texts)
      /\ tokens \in Nat /\ limits.tokens \in Nat /\ MaxItems \in Nat \ {0} /\ Taken \in Nat
      /\ to < Len(texts) =>
           /\ EstTokens(texts[to + 1]) \in Nat
           /\ BatchTokens(texts, from, to + 1) = tokens + EstTokens(texts[to + 1])
  BY Filling DEF PostBatch
<1>2. Taken # 0 /\ from <= to
  BY <1>1 DEF PostBatch, Takes, Taken
<1>3. to' = to /\ from' = from /\ tokens' = tokens
  BY <1>1, <1>2 DEF PostBatch, Max2
<1>4. Packed
  <2>1. ASSUME to < Len(texts), Taken # MaxItems
        PROVE  limits.tokens > 0 /\ BatchTokens(texts, from, to + 1) > limits.tokens
    <3>1. Taken < MaxItems /\ Taken > 0
      BY <1>1, <1>2, <2>1 DEF Filled
    <3> QED
      BY <1>1, <2>1, <3>1 DEF PostBatch, Takes
  <2> QED
    BY <2>1 DEF Packed
<1>5. TypeOK'
  BY <1>1, <1>3, NoAnswers, Numbers DEF IInv, TypeOK, PostBatch, callVars, batchVars
<1>6. Place'
  BY <1>1, <1>2, <1>3, <1>4, SameBatch DEF Place, PostBatch, callVars, batchVars
<1>7. OutSoFar' /\ WaitsAsAsked'
  BY <1>3 DEF IInv, OutSoFar, WaitsAsAsked, PostBatch, callVars, batchVars
<1>8. Fate'
  BY NoAnswers, Numbers DEF IInv, Fate, PostBatch, callVars, batchVars
<1> QED
  BY <1>5, <1>6, <1>7, <1>8 DEF IInv

LEMMA AllDoneStep ==
  ASSUME IInv, AllDone
  PROVE  IInv'
<1>1. Redraws' = Redraws
  BY SameAnswers DEF AllDone
<1>2. TypeOK'
  BY DEF IInv, TypeOK, AllDone, Return, callVars, batchVars
<1>3. Place'
  BY DEF IInv, TypeOK, Place, AllDone, Return, callVars, batchVars
<1>4. OutSoFar' /\ WaitsAsAsked'
  BY DEF IInv, OutSoFar, WaitsAsAsked, AllDone, Return, callVars, batchVars
<1>5. Fate'
  BY <1>1 DEF IInv, Fate, AllDone, Return, callVars, batchVars
<1> QED
  BY <1>2, <1>3, <1>4, <1>5 DEF IInv

(* A try that came to nothing, whatever the reason.  n is the number of    *)
(* failures like it before.                                                *)
LEMMA TryAgainStep ==
  ASSUME IInv, pc = "send", NEW a \in Answer, a.what \in Transient,
         NEW n, n = IF a.what = "toolUse" THEN toolFails ELSE Len(answers),
         NEW d \in 1 .. MaxDelay, d >= Backoff(n), d >= Min2(a.after, MaxDelay),
         toolFails' = IF a.what = "toolUse" THEN toolFails + 1 ELSE toolFails,
         toolFails' <= MaxToolUseRetries,
         TryAgain(a, d)
  PROVE  IInv'
<1>1. answers \in Seq(Answer) /\ answers' = Append(answers, a)
  BY DEF IInv, TypeOK, TryAgain
<1>2. /\ answers' \in Seq(Answer) /\ Len(answers') = Len(answers) + 1
      /\ DOMAIN answers' = 1 .. Len(answers')
      /\ \A i \in DOMAIN answers : answers'[i] = answers[i]
      /\ answers'[Len(answers')] = a /\ Last(answers') = a
      /\ DOMAIN answers = 1 .. Len(answers) /\ Len(answers) \in Nat
      /\ Redraws \in Nat
      /\ Redraws' = IF a.what = "toolUse" THEN Redraws + 1 ELSE Redraws
  BY <1>1, AnswerAdded
<1>3. toolFails \in Nat /\ toolFails = Redraws /\ Redraws' = toolFails'
  BY <1>2 DEF IInv, TypeOK, Fate
<1> DEFINE m == Len(answers)
<1>a. m < MaxAttempts /\ result = "running" /\ \A i \in DOMAIN answers : answers[i].what \in Transient
  BY DEF IInv, Fate
<1>b. /\ pc' \in {"wait", "done"} /\ delay' = d
      /\ pc' = "wait" => Len(answers') < MaxAttempts /\ result' = "running"
      /\ pc' = "done" => Len(answers') = MaxAttempts /\ result' = "gaveUp"
      /\ UNCHANGED <<client, limits, texts, from, to, tokens, out, astray, canceled>>
  BY <1>a DEF TryAgain, Return, callVars, batchVars
<1>c. toolFails' \in Nat /\ toolFails' \in 0 .. (MaxToolUseRetries + 1) /\ ~ (toolFails' > MaxToolUseRetries)
  <2>1. toolFails' \in Nat
    BY <1>3
  <2> QED
    BY <2>1, Numbers
<1>4. TypeOK'
  <2>1. delay' \in Nat
    BY <1>b, Numbers
  <2> QED
    BY <1>2, <1>b, <1>c, <2>1 DEF IInv, TypeOK
<1>5. Place'
  <2>1. Filled' = Filled /\ Packed' = Packed
    BY SameBatch DEF TryAgain, callVars, batchVars
  <2> QED
    BY <2>1 DEF IInv, Place, TryAgain, Return, callVars, batchVars, Fate
<1>6. OutSoFar'
  BY DEF IInv, OutSoFar, TryAgain, Return, callVars, batchVars
<1>7. Fate'
  <2>1. \A i \in DOMAIN answers' : answers'[i].what \in Transient
    BY <1>2, <1>a
  <2>2. m + 1 <= MaxAttempts /\ Len(answers') > 0
    BY <1>2, <1>a, Numbers
  <2>3. Last(answers)'.what \in Transient
    BY <1>2
  <2> QED
    BY <1>2, <1>3, <1>b, <1>c, <2>1, <2>2, <2>3 DEF Fate
<1>8. WaitsAsAsked'
  <2> DEFINE alike == {i \in DOMAIN answers' : answers'[i].what = "toolUse" \/ a.what # "toolUse"}
  <2>1. Cardinality(alike) - 1 = n /\ n \in Nat
    <3>1. CASE a.what = "toolUse"
      <4>1. alike = {i \in DOMAIN answers' : answers'[i].what = "toolUse"}
        BY <3>1
      <4>2. Cardinality(alike) = Redraws'
        BY <4>1 DEF Redraws
      <4> HIDE DEF alike
      <4> QED
        BY <1>2, <1>3, <3>1, <4>2
    <3>2. CASE a.what # "toolUse"
      <4>1. alike = 1 .. Len(answers')
        BY <1>2, <3>2
      <4>2. Cardinality(1 .. Len(answers')) = Len(answers')
        BY <1>2, FS_Interval
      <4> HIDE DEF alike
      <4> QED
        BY <1>2, <3>2, <4>1, <4>2
    <3> QED
      BY <3>1, <3>2
  <2>2. delay' = d /\ Last(answers)' = a
    BY <1>2 DEF TryAgain
  <2>3. WaitsAsAsked' =
          (pc' = "wait" =>
             /\ delay' > 0 /\ delay' <= MaxDelay
             /\ delay' >= Min2(a.after, MaxDelay)
             /\ delay' >= Min2(BaseDelay * 2 ^ (Cardinality(alike) - 1), MaxDelay))
    BY <2>2 DEF WaitsAsAsked
  <2>4. Backoff(n) = Min2(BaseDelay * 2 ^ n, MaxDelay)
    BY DEF Backoff
  <2>5. d > 0 /\ d <= MaxDelay
    BY Numbers
  <2> HIDE DEF alike, Backoff, Min2
  <2> QED
    BY <2>1, <2>2, <2>3, <2>4, <2>5
<1> QED
  BY <1>4, <1>5, <1>6, <1>7, <1>8 DEF IInv

LEMMA NoAnswerStep ==
  ASSUME IInv, NoAnswer
  PROVE  IInv'
<1> DEFINE a == [what |-> "none", after |-> 0]
           n == Len(answers)
           d == Backoff(n)
<1>1. n \in Nat /\ toolFails <= MaxToolUseRetries
  BY Numbers DEF IInv, TypeOK, Fate, NoAnswer
<1>2. d \in 1 .. MaxDelay
  BY <1>1, Delays
<1>3. d >= Backoff(n) /\ d >= Min2(a.after, MaxDelay)
  <2> HIDE DEF d
  <2>1. d \in Int /\ d >= 0
    BY <1>2
  <2> QED
    BY <2>1, Numbers DEF Min2, d
<1>4. a \in Answer /\ a.what \in Transient /\ a.what # "toolUse"
  BY DEF Answer, Transient
<1>5. pc = "send" /\ toolFails' = toolFails /\ TryAgain(a, d)
  BY DEF NoAnswer
<1> HIDE DEF a, d
<1> QED
  BY <1>1, <1>2, <1>3, <1>4, <1>5, TryAgainStep

LEMMA BusyStep ==
  ASSUME IInv, NEW r \in RetryAfters, Busy(r)
  PROVE  IInv'
<1> DEFINE a == [what |-> "busy", after |-> r]
           n == Len(answers)
           d == BusyWait(n, r)
<1>1. n \in Nat /\ toolFails <= MaxToolUseRetries /\ r \in Nat
  BY ClientsAssumption DEF IInv, TypeOK, Fate, Busy
<1>2. d \in 1 .. MaxDelay /\ d >= Backoff(n) /\ d >= Min2(a.after, MaxDelay)
  BY <1>1, Delays
<1>3. a \in Answer /\ a.what \in Transient /\ a.what # "toolUse"
  BY <1>1 DEF Answer, Transient
<1>4. pc = "send" /\ toolFails' = toolFails /\ TryAgain(a, d)
  BY DEF Busy
<1> HIDE DEF a, d
<1> QED
  BY <1>1, <1>2, <1>3, <1>4, TryAgainStep

(* The call ends with one answer more, which is not tried again.           *)
LEMMA EndStep ==
  ASSUME IInv, pc = "send", NEW a \in Answer, answers' = Append(answers, a),
         pc' = "done", UNCHANGED <<callVars, batchVars, delay, canceled>>,
         \/ /\ a.what = "toolUse" /\ toolFails' = toolFails + 1
            /\ toolFails' > MaxToolUseRetries /\ result' = "toolUse"
         \/ /\ a.what \in {"refused", "unauthorized", "garbled"} /\ toolFails' = toolFails
            /\ result' = a.what
         \/ a.what = "ok" /\ client = "chat" /\ toolFails' = toolFails /\ result' = "ok"
  PROVE  IInv'
<1>1. /\ answers' \in Seq(Answer) /\ Len(answers') = Len(answers) + 1
      /\ DOMAIN answers' = 1 .. Len(answers')
      /\ \A i \in DOMAIN answers : answers'[i] = answers[i]
      /\ answers'[Len(answers')] = a /\ Last(answers') = a
      /\ DOMAIN answers = 1 .. Len(answers) /\ Len(answers) \in Nat
      /\ Redraws \in Nat
      /\ Redraws' = IF a.what = "toolUse" THEN Redraws + 1 ELSE Redraws
  BY AnswerAdded DEF IInv, TypeOK
<1>2. /\ Len(answers) < MaxAttempts /\ toolFails \in Nat /\ toolFails = Redraws
      /\ ~ (toolFails > MaxToolUseRetries)
      /\ \A i \in DOMAIN answers : answers[i].what \in Transient
  BY DEF IInv, TypeOK, Fate
<1>3. /\ Redraws' = toolFails' /\ toolFails' \in 0 .. (MaxToolUseRetries + 1)
      /\ toolFails' > MaxToolUseRetries <=> result' = "toolUse"
  BY <1>1, <1>2, Numbers
<1>4. result' \in {"toolUse", "refused", "unauthorized", "garbled", "ok"}
  OBVIOUS
<1>5. TypeOK'
  BY <1>1, <1>3, <1>4 DEF IInv, TypeOK, callVars, batchVars
<1>6. Place'
  BY DEF IInv, Place, callVars, batchVars
<1>7. OutSoFar' /\ WaitsAsAsked'
  BY DEF IInv, OutSoFar, WaitsAsAsked, callVars, batchVars
<1>8. Fate'
  <2>1. Len(answers') <= MaxAttempts
    BY <1>1, <1>2, Numbers
  <2>2. \A i \in DOMAIN answers' : answers'[i].what \notin Transient => i = Len(answers')
    BY <1>1, <1>2
  <2>3. result' \in {"refused", "unauthorized", "garbled"} => Last(answers)'.what = result'
    BY <1>1
  <2> QED
    BY <1>3, <1>4, <2>1, <2>2, <2>3 DEF Fate
<1> QED
  BY <1>5, <1>6, <1>7, <1>8 DEF IInv

LEMMA ToolUseFailedStep ==
  ASSUME IInv, ToolUseFailed
  PROVE  IInv'
<1> DEFINE a == [what |-> "toolUse", after |-> 0]
           n == toolFails
           d == Backoff(n)
<1>1. n \in Nat /\ pc = "send" /\ toolFails' = toolFails + 1
  BY DEF IInv, TypeOK, ToolUseFailed
<1>2. d \in 1 .. MaxDelay
  BY <1>1, Delays
<1>3. d >= Backoff(n) /\ d >= Min2(a.after, MaxDelay)
  <2> HIDE DEF d
  <2>1. d \in Int /\ d >= 0
    BY <1>2
  <2> QED
    BY <2>1, Numbers DEF Min2, d
<1>4. a \in Answer /\ a.what \in Transient /\ a.what = "toolUse"
  BY DEF Answer, Transient
<1>5. CASE toolFails' <= MaxToolUseRetries /\ TryAgain(a, d)
  <2> HIDE DEF a, d
  <2> QED
    BY <1>1, <1>2, <1>3, <1>4, <1>5, TryAgainStep
<1>6. CASE /\ toolFails' > MaxToolUseRetries /\ Return("toolUse")
           /\ answers' = Append(answers, a)
           /\ UNCHANGED <<callVars, batchVars, delay, canceled>>
  <2> HIDE DEF a
  <2> QED
    BY <1>1, <1>4, <1>6, EndStep DEF Return
<1> QED
  BY <1>5, <1>6 DEF ToolUseFailed

LEMMA RejectedStep ==
  ASSUME IInv, NEW what \in {"refused", "unauthorized", "garbled"}, Rejected(what)
  PROVE  IInv'
<1> DEFINE a == [what |-> what, after |-> 0]
<1>1. a \in Answer /\ a.what = what
  BY DEF Answer
<1>2. /\ pc = "send" /\ answers' = Append(answers, a) /\ pc' = "done" /\ result' = what
      /\ toolFails' = toolFails /\ UNCHANGED <<callVars, batchVars, delay, canceled>>
  BY DEF Rejected, Return
<1> HIDE DEF a
<1> QED
  BY <1>1, <1>2, EndStep

LEMMA CompletedStep ==
  ASSUME IInv, Completed
  PROVE  IInv'
<1> DEFINE a == [what |-> "ok", after |-> 0]
<1>1. a \in Answer /\ a.what = "ok"
  BY DEF Answer
<1>2. /\ pc = "send" /\ client = "chat" /\ answers' = Append(answers, a)
      /\ pc' = "done" /\ result' = "ok"
      /\ toolFails' = toolFails /\ UNCHANGED <<callVars, batchVars, delay, canceled>>
  BY DEF Completed, Return
<1> HIDE DEF a
<1> QED
  BY <1>1, <1>2, EndStep

LEMMA EmbeddedStep ==
  ASSUME IInv, NEW data \in Answers, Embedded(data)
  PROVE  IInv'
<1> DEFINE a == [what |-> "ok", after |-> 0]
           n == Len(texts)
<1>s. PICK s \in InOrder(data) : out' = out \o Vectors(s)
  BY DEF Embedded
<1> DEFINE v == Vectors(s)
<1>1. a \in Answer /\ a.what = "ok" /\ answers' = Append(answers, a)
  BY DEF Answer, Embedded
<1>2. /\ pc = "send" /\ client = "embed" /\ out' = out \o v /\ from' = to + 1
      /\ pc' = "batch" /\ UNCHANGED <<callVars, to, tokens, toolFails, delay, canceled, result>>
      /\ astray' = (astray \/ data \notin Proper)
  BY <1>s DEF Embedded
<1>3. n \in Nat /\ from \in 1 .. n /\ to \in from .. n /\ out \in Seq(1 .. n)
  <2>1. from <= to /\ n \in Nat
    BY <1>2 DEF IInv, TypeOK, Place
  <2> QED
    BY <2>1 DEF IInv, TypeOK
<1>4. /\ v \in Seq(from .. to)
      /\ data \in Proper =>
           /\ Len(v) <= to - from + 1
           /\ Len(v) = to - from + 1 => \A k \in 1 .. Len(v) : v[k] = from + k - 1
  <2> HIDE DEF v
  <2>1. v = Vectors(s)
    BY DEF v
  <2>2. from <= to
    BY <1>3
  <2> QED
    BY <2>1, <2>2, AnswerInOrder DEF IInv
<1> HIDE DEF a, v
<1>5. /\ Len(v) \in Nat /\ Len(out) \in Nat /\ out' \in Seq(1 .. n)
      /\ Len(out') = Len(out) + Len(v) /\ DOMAIN out' = 1 .. Len(out')
      /\ \A k \in 1 .. Len(out) : out'[k] = out[k]
      /\ \A k \in 1 .. Len(out') : k > Len(out) => out'[k] = v[k - Len(out)]
  <2>1. v \in Seq(1 .. n)
    <3>1. \A k \in 1 .. Len(v) : v[k] \in 1 .. n
      BY <1>3, <1>4
    <3>2. Len(v) \in Nat /\ v = [k \in 1 .. Len(v) |-> v[k]]
      BY <1>4
    <3> QED
      BY <3>1, <3>2
  <2> QED
    BY <1>2, <1>3, <2>1
<1>6. OutSoFar'
  <2> SUFFICES ASSUME ~ astray'
               PROVE  OutSoFar'
    BY DEF OutSoFar
  <2>0. ~ astray /\ data \in Proper
    BY <1>2
  <2>1. Len(out) < from /\ (Len(out) = from - 1 => \A k \in 1 .. Len(out) : out[k] = k)
    BY <1>3, <2>0 DEF IInv, OutSoFar
  <2>2. Len(out') < from'
    BY <1>2, <1>3, <1>4, <1>5, <2>0, <2>1
  <2>3. ASSUME Len(out') = from' - 1, NEW k \in DOMAIN out'
        PROVE  out'[k] = k
    <3>1. Len(out) = from - 1 /\ Len(v) = to - from + 1
      <4>1. Len(out) + Len(v) = to /\ from \in Nat /\ to \in Nat
        BY <1>2, <1>3, <1>5, <2>3
      <4>2. Len(out) <= from - 1
        BY <1>5, <2>1, <4>1
      <4>3. Len(v) \in Nat /\ Len(v) <= to - from + 1 /\ Len(out) \in Nat
        BY <1>4, <1>5, <2>0
      <4>4. Len(out) = from - 1
        BY <4>1, <4>2, <4>3
      <4> QED
        BY <4>1, <4>3, <4>4
    <3>2. k \in Nat /\ k >= 1 /\ k <= Len(out')
      BY <1>5
    <3>3. CASE k <= Len(out)
      BY <1>5, <2>1, <3>1, <3>2, <3>3
    <3>4. CASE k > Len(out)
      <4>1. k - Len(out) \in 1 .. Len(v)
        BY <1>5, <3>2, <3>4
      <4>2. out'[k] = from + (k - Len(out)) - 1
        BY <1>4, <1>5, <2>0, <3>1, <3>4, <4>1
      <4> QED
        BY <1>3, <1>5, <3>1, <3>2, <4>2
    <3> QED
      BY <1>5, <3>2, <3>3, <3>4
  <2> QED
    BY <2>2, <2>3 DEF OutSoFar
<1>7. /\ answers' \in Seq(Answer) /\ Len(answers') = Len(answers) + 1
      /\ DOMAIN answers' = 1 .. Len(answers')
      /\ \A i \in DOMAIN answers : answers'[i] = answers[i]
      /\ answers'[Len(answers')] = a /\ Last(answers') = a
      /\ DOMAIN answers = 1 .. Len(answers) /\ Len(answers) \in Nat
      /\ Redraws \in Nat
      /\ Redraws' = IF a.what = "toolUse" THEN Redraws + 1 ELSE Redraws
  BY <1>1, AnswerAdded DEF IInv, TypeOK
<1>8. /\ Len(answers) < MaxAttempts /\ result = "running"
      /\ \A i \in DOMAIN answers : answers[i].what \in Transient
  BY <1>2 DEF IInv, Fate
<1>9. TypeOK'
  <2>1. from' \in 1 .. (n + 1) /\ n' = n
    BY <1>2, <1>3 DEF callVars, batchVars
  <2>2. astray' \in BOOLEAN
    BY <1>2
  <2> QED
    BY <1>2, <1>5, <1>7, <2>1, <2>2 DEF IInv, TypeOK, callVars, batchVars
<1>10. Place' /\ WaitsAsAsked'
  BY <1>2, <1>8 DEF IInv, Place, WaitsAsAsked, callVars, batchVars
<1>11. Fate'
  <2>1. Len(answers') <= MaxAttempts
    BY <1>7, <1>8, Numbers
  <2>2. \A i \in DOMAIN answers' : answers'[i].what \notin Transient => i = Len(answers')
    BY <1>7, <1>8
  <2>3. Redraws' = Redraws /\ toolFails' = toolFails /\ result' = result /\ pc' = "batch"
    BY <1>1, <1>2, <1>7
  <2> QED
    BY <1>8, <2>1, <2>2, <2>3 DEF IInv, Fate
<1> QED
  BY <1>6, <1>9, <1>10, <1>11 DEF IInv

LEMMA WaitStep ==
  ASSUME IInv, Waited \/ WaitCanceled
  PROVE  IInv'
<1>1. /\ UNCHANGED <<callVars, batchVars, toolFails, delay, canceled, answers>>
      /\ pc = "wait" /\ pc' \in {"send", "done"}
      /\ pc' = "send" => result' = result
      /\ pc' = "done" => result' = "canceled"
  BY DEF Waited, WaitCanceled, Return
<1>2. Redraws' = Redraws /\ Filled' = Filled /\ Packed' = Packed
  BY <1>1, SameAnswers, SameBatch DEF callVars, batchVars
<1>3. TypeOK'
  BY <1>1 DEF IInv, TypeOK, callVars, batchVars, Fate
<1>4. Place'
  BY <1>1, <1>2 DEF IInv, Place, callVars, batchVars, Fate
<1>5. OutSoFar' /\ WaitsAsAsked'
  BY <1>1 DEF IInv, OutSoFar, WaitsAsAsked, callVars, batchVars
<1>6. Fate'
  BY <1>1, <1>2 DEF IInv, Fate
<1> QED
  BY <1>3, <1>4, <1>5, <1>6 DEF IInv

(* The caller cancels, or nothing happens.                                 *)
LEMMA CancelStep ==
  ASSUME IInv, Cancel \/ UNCHANGED vars
  PROVE  IInv'
<1>1. /\ UNCHANGED <<callVars, batchVars, pc, toolFails, delay, result, answers>>
      /\ canceled' \in BOOLEAN
  BY DEF Cancel, vars, callVars, batchVars, IInv, TypeOK
<1>2. Redraws' = Redraws /\ Filled' = Filled /\ Packed' = Packed
  BY <1>1, SameAnswers, SameBatch DEF callVars, batchVars
<1>3. TypeOK'
  BY <1>1 DEF IInv, TypeOK, callVars, batchVars
<1>4. Place'
  BY <1>1, <1>2 DEF IInv, Place, callVars, batchVars
<1>5. OutSoFar' /\ WaitsAsAsked'
  BY <1>1 DEF IInv, OutSoFar, WaitsAsAsked, callVars, batchVars
<1>6. Fate'
  BY <1>1, <1>2 DEF IInv, Fate
<1> QED
  BY <1>3, <1>4, <1>5, <1>6 DEF IInv

LEMMA StepIInv == IInv /\ [Next]_vars => IInv'
BY BeginBatchStep, TakeTextStep, PostBatchStep, AllDoneStep, NoAnswerStep, BusyStep, ToolUseFailedStep, RejectedStep,
   EmbeddedStep, CompletedStep, WaitStep, CancelStep DEF Next, Step

-----------------------------------------------------------------------------
(* Theorems                                                                *)

(* The inductive invariant holds: batched, postEmbeddings and do, with any *)
(* provider and any caller.                                                *)
THEOREM CallInvariant == Spec => []IInv
<1>1. Init => IInv
  BY InitIInv
<1>2. IInv /\ [Next]_vars => IInv'
  BY StepIInv
<1> QED
  BY <1>1, <1>2, PTL DEF Spec

(* Every variable of a call keeps its type.                                *)
THEOREM TypeCorrect == Spec => []TypeOK
<1>1. IInv => TypeOK
  BY DEF IInv
<1> QED
  BY <1>1, CallInvariant, PTL

(* Vectors that a caller accepts are those of the texts, in their order.   *)
THEOREM AlignedTheorem == Spec => []AcceptedAligned
<1>1. IInv => AcceptedAligned
  <2> SUFFICES ASSUME IInv, result = "ok", ~ astray, Len(out) = Len(texts)
               PROVE  \A k \in DOMAIN out : out[k] = k
    BY DEF AcceptedAligned
  <2>1. CASE client = "chat"
    BY <2>1 DEF IInv, Place
  <2>2. CASE client = "embed"
    <3>1. from = Len(texts) + 1 /\ Len(texts) \in Nat
      BY <2>2 DEF IInv, TypeOK, Place
    <3> QED
      BY <3>1 DEF IInv, OutSoFar
  <2> QED
    BY <2>1, <2>2 DEF IInv, TypeOK
<1> QED
  BY <1>1, CallInvariant, PTL

(* Every request that the filling loop of batched ends up with carries a   *)
(* text, keeps to the caps where a text alone does and is as long as they  *)
(* allow: the loop's running count is the sum of the request's tokens.     *)
THEOREM RequestsTheorem == Spec => []RequestsFit
<1>1. IInv => RequestsFit
  BY DEF IInv, TypeOK, Place, Filled, Packed, Taken, RequestsFit
<1> QED
  BY <1>1, CallInvariant, PTL

(* No try comes sooner than the provider asked for, sooner than the        *)
(* backoff of the failures so far, or later than the cap.                  *)
THEOREM WaitsTheorem == Spec => []WaitsAsAsked
<1>1. IInv => WaitsAsAsked
  BY DEF IInv
<1> QED
  BY <1>1, CallInvariant, PTL

(* A call tries again, gives up and fails for the reasons the code gives.  *)
THEOREM RetriesTheorem == Spec => []RetriesJustified
<1>1. IInv => RetriesJustified
  BY Numbers DEF IInv, TypeOK, Fate, RetriesJustified
<1> QED
  BY <1>1, CallInvariant, PTL
=============================================================================
