---------------------------- MODULE SearchProofs ----------------------------
(***************************************************************************)
(* From a file to what the agent sees of it: proofs for every file, every  *)
(* tokenizer and every budget.                                             *)
(***************************************************************************)
EXTENDS Search, DataLemmas

-----------------------------------------------------------------------------
(* The lines of a file and its statements                                  *)

LEMMA FileFacts ==
  ASSUME file \in Files
  PROVE  /\ Len(file) \in Nat \ {0} /\ DOMAIN file = 1 .. Len(file)
         /\ \A i \in 1 .. Len(file) : file[i] \in Line /\ file[i].depth \in Nat
         /\ file[1].depth = 0
         /\ file[Len(file)].what \notin {"deco", "def", "class"}
         /\ \A i \in 1 .. Len(file) - 1 :
              /\ file[i].what = "deco" => file[i + 1].depth = file[i].depth
              /\ file[i].what \in {"def", "class"} => file[i + 1].depth = file[i].depth + 1
<1>1. file \in Seq(Line) /\ WellFormed(file)
  BY ChunkerAssumption
<1>2. Len(file) \in Nat /\ DOMAIN file = 1 .. Len(file) /\ file # <<>>
  BY <1>1 DEF WellFormed
<1>3. Len(file) # 0
  BY <1>1, <1>2
<1>4. \A i \in 1 .. Len(file) : file[i] \in Line /\ file[i].depth \in Nat
  <2>1. \A i \in 1 .. Len(file) : file[i] \in Line
    BY <1>1
  <2>2. \A l \in Line : l.depth \in Nat
    BY DEF Line
  <2> QED
    BY <2>1, <2>2
<1>5. file[1].depth = 0
  BY <1>1 DEF WellFormed
<1>6. ASSUME NEW i \in 1 .. Len(file)
      PROVE  LET after == file[IF i < Len(file) THEN i + 1 ELSE 1] IN
             /\ file[i].what = "deco" => i < Len(file) /\ after.depth = file[i].depth
             /\ file[i].what \in {"def", "class"} => after.depth = file[i].depth + 1
  BY <1>1, <1>2 DEF WellFormed
<1>7. file[Len(file)].what \notin {"deco", "def", "class"}
  BY <1>2, <1>3, <1>4, <1>5, <1>6
<1>8. ASSUME NEW i \in 1 .. Len(file) - 1
      PROVE  /\ file[i].what = "deco" => file[i + 1].depth = file[i].depth
             /\ file[i].what \in {"def", "class"} => file[i + 1].depth = file[i].depth + 1
  BY <1>2, <1>3, <1>6
<1> QED
  BY <1>2, <1>3, <1>4, <1>5, <1>7, <1>8

(* A statement has the lines up to the next one that is not deeper.        *)
LEMMA LastLineFacts ==
  ASSUME file \in Files, NEW i \in 1 .. Len(file)
  PROVE  /\ LastLine(i) \in i .. Len(file)
         /\ \A k \in i + 1 .. LastLine(i) : file[k].depth > file[i].depth
         /\ LastLine(i) < Len(file) => file[LastLine(i) + 1].depth <= file[i].depth
<1> DEFINE S == {j \in i .. Len(file) : \A k \in i + 1 .. j : file[k].depth > file[i].depth}
           m == Max(S)
<1>0. Len(file) \in Nat /\ \A k \in 1 .. Len(file) : file[k].depth \in Nat
  BY FileFacts
<1>1. i \in S /\ S \subseteq Nat /\ \A j \in S : j <= Len(file)
  BY <1>0
<1>2. m \in S /\ \A y \in S : y <= m
  BY <1>0, <1>1, MaxIsMember
<1>3. m < Len(file) => file[m + 1].depth <= file[i].depth
  <2> SUFFICES ASSUME m < Len(file), file[m + 1].depth > file[i].depth
               PROVE  FALSE
    BY <1>0, <1>2
  <2>1. m \in i .. Len(file) /\ m + 1 \in i .. Len(file)
    BY <1>0, <1>2
  <2>2. ASSUME NEW k \in i + 1 .. m + 1
        PROVE  file[k].depth > file[i].depth
    <3>1. k \in i + 1 .. m \/ k = m + 1
      BY <2>1
    <3> QED
      BY <1>2, <3>1
  <2>3. m + 1 \in S
    BY <2>1, <2>2
  <2> QED
    BY <1>0, <1>2, <2>1, <2>3
<1>4. \E j \in i .. Len(file) :
        /\ \A k \in i + 1 .. j : file[k].depth > file[i].depth
        /\ j < Len(file) => file[j + 1].depth <= file[i].depth
  BY <1>2, <1>3
<1> QED
  BY <1>4, Zenon DEF LastLine

(* Decorators are followed by the definition they are of.                  *)
LEMMA DefLineFacts ==
  ASSUME file \in Files, NEW i \in 1 .. Len(file)
  PROVE  /\ DefLine(i) \in i .. Len(file) /\ file[DefLine(i)].what # "deco"
         /\ \A k \in i .. DefLine(i) - 1 : file[k].what = "deco"
         /\ \A k \in i .. DefLine(i) : file[k].depth = file[i].depth
<1> DEFINE S == {j \in i .. Len(file) : file[j].what # "deco"}
<1>0. Len(file) \in Nat
  BY FileFacts
<1>1. S \subseteq Nat /\ Len(file) \in S
  BY FileFacts
<1>2. PICK j \in S : \A k \in S : j <= k
  BY <1>1, LeastExists
<1>3. \E d \in i .. Len(file) :
        file[d].what # "deco" /\ \A k \in i .. d - 1 : file[k].what = "deco"
  BY <1>0, <1>2
<1>4. /\ DefLine(i) \in i .. Len(file) /\ file[DefLine(i)].what # "deco"
      /\ \A k \in i .. DefLine(i) - 1 : file[k].what = "deco"
  BY <1>3, Zenon DEF DefLine
<1> HIDE DEF S
<1> DEFINE d == DefLine(i)
           T == {k \in i .. d : file[k].depth # file[i].depth}
<1>5. ASSUME T # {}
      PROVE  FALSE
  <2>1. T \subseteq Nat /\ d \in Nat
    BY <1>0, <1>4
  <2>2. PICK k \in T : \A y \in T : k <= y
    BY <1>5, <2>1, LeastExists
  <2>3. k # i /\ k - 1 \in i .. d - 1 /\ k - 1 \in 1 .. Len(file) - 1
    BY <1>0, <1>4, <2>2
  <2>4. file[k - 1].depth = file[i].depth
    BY <1>0, <2>1, <2>2, <2>3
  <2>5. file[(k - 1) + 1].depth = file[k - 1].depth
    BY <1>4, <2>3, FileFacts
  <2> QED
    BY <2>2, <2>3, <2>4, <2>5
<1> QED
  BY <1>4, <1>5

Whole == [first : Nat, def : Nat, last : Nat]

LEMMA UnitFacts ==
  ASSUME file \in Files, NEW i \in 1 .. Len(file)
  PROVE  /\ Unit(i) \in Whole /\ Unit(i).first = i
         /\ Unit(i).def \in i .. Len(file) /\ Unit(i).last \in Unit(i).def .. Len(file)
         /\ Unit(i).def = DefLine(i) /\ Unit(i).last = LastLine(DefLine(i))
<1>1. Len(file) \in Nat
  BY FileFacts
<1>2. DefLine(i) \in i .. Len(file) /\ DefLine(i) \in 1 .. Len(file)
  BY <1>1, DefLineFacts
<1>3. LastLine(DefLine(i)) \in DefLine(i) .. Len(file)
  BY <1>2, LastLineFacts
<1> QED
  BY <1>1, <1>2, <1>3 DEF Unit, Whole

(* The units of a block are collected line by line.                        *)
LEMMA UnitsSteps ==
  ASSUME file \in Files, NEW a \in 1 .. Len(file), NEW b \in a .. Len(file)
  PROVE  \E p : /\ p[0] = <<>> /\ p[b - a + 1] = Units(a, b)
                /\ \A k \in 1 .. b - a + 1 :
                     p[k] = IF Begins(a + k - 1, a) THEN Append(p[k - 1], Unit(a + k - 1))
                            ELSE p[k - 1]
<1> DEFINE n == b - a + 1
           s == Lines(a, b)
           T == 1 .. Len(file)
           R == Seq(Whole)
           X(us, i) == IF Begins(i, a) THEN Append(us, Unit(i)) ELSE us
           f == [xr \in T \X R |-> X(xr[2], xr[1])]
           Eq(h, S) == h[S] = IF S = {} THEN <<>> ELSE X(h[S \ {Max(S)}], s[Max(S)])
<1>0. Len(file) \in Nat /\ n \in Nat
  BY FileFacts
<1>1. s \in Seq(T) /\ DOMAIN s = 1 .. n /\ \A k \in 1 .. n : s[k] = a + k - 1
  BY <1>0 DEF Lines
<1>2. \A x \in T, r \in R : X(r, x) \in R
  BY UnitFacts
<1> HIDE DEF s
<1>3. PICK h \in [SUBSET DOMAIN s -> R] : FoldsLeft(h, s, f, <<>>)
  <2>1. StepsIn(f, T, R)
    BY <1>2 DEF StepsIn
  <2>2. <<>> \in R /\ s \in Seq(T)
    BY <1>1
  <2> HIDE DEF f, R, T
  <2> QED
    BY <2>1, <2>2, FoldLeftExists
<1>4. ASSUME NEW S \in SUBSET DOMAIN s
      PROVE  Eq(h, S)
  <2>0. h[S] = IF S = {} THEN <<>> ELSE f[<<s[Max(S)], h[S \ {Max(S)}]>>]
    BY <1>3, Zenon DEF FoldsLeft
  <2>1. CASE S = {}
    BY <2>0, <2>1
  <2>2. CASE S # {}
    <3>1. Max(S) \in S
      BY <1>0, <1>1, <2>2, MaxIsMember
    <3>2. s[Max(S)] \in T /\ h[S \ {Max(S)}] \in R
      BY <1>1, <3>1
    <3> QED
      BY <2>0, <2>2, <3>2
  <2> QED
    BY <2>1, <2>2
<1> DEFINE iter == CHOOSE h_1 : h_1 = [S \in SUBSET DOMAIN s |->
                     IF S = {} THEN <<>> ELSE X(h_1[S \ {Max(S)}], s[Max(S)])]
<1>5. Units(a, b) = iter[DOMAIN s]
  BY Zenon DEF Units, FoldLeft, MapThenFoldSet, s
<1>6. h = [S \in SUBSET DOMAIN s |-> IF S = {} THEN <<>> ELSE X(h[S \ {Max(S)}], s[Max(S)])]
  BY <1>4
<1>7. iter = [S \in SUBSET DOMAIN s |-> IF S = {} THEN <<>> ELSE X(iter[S \ {Max(S)}], s[Max(S)])]
  BY <1>6, Zenon
<1> HIDE DEF iter
<1>8. ASSUME NEW k \in 1 .. n
      PROVE  iter[1 .. k] = X(iter[1 .. k - 1], a + k - 1)
  <2>0. k \in Nat /\ 1 <= k /\ k <= n
    BY <1>0
  <2>1. 1 .. k \in SUBSET DOMAIN s /\ 1 .. k # {} /\ s[k] = a + k - 1
    <3>1. k \in 1 .. k /\ 1 .. k \subseteq 1 .. n
      BY <1>0, <2>0
    <3> QED
      BY <1>1, <3>1
  <2>2. Max(1 .. k) = k /\ (1 .. k) \ {k} = 1 .. k - 1
    BY <2>0, Prefix
  <2>3. iter[1 .. k] = X(iter[(1 .. k) \ {Max(1 .. k)}], s[Max(1 .. k)])
    BY <1>7, <2>1, Zenon
  <2> QED
    BY <2>1, <2>2, <2>3
<1>9. iter[1 .. 0] = <<>>
  BY <1>7
<1> DEFINE p == [k \in 0 .. n |-> iter[1 .. k]]
<1>10. /\ p[0] = <<>> /\ p[n] = Units(a, b)
       /\ \A k \in 1 .. n : p[k] = X(p[k - 1], a + k - 1)
  BY <1>0, <1>1, <1>5, <1>8, <1>9
<1> QED
  BY <1>10, Zenon
(* Units has each statement that begins on the lines, in their order.      *)
LEMMA UnitsFacts ==
  ASSUME file \in Files, NEW a \in 1 .. Len(file), NEW b \in a .. Len(file)
  PROVE  /\ Units(a, b) \in Seq(Whole)
         /\ \A j \in DOMAIN Units(a, b) :
              /\ Units(a, b)[j].first \in a .. b /\ Begins(Units(a, b)[j].first, a)
              /\ Units(a, b)[j] = Unit(Units(a, b)[j].first)
         /\ \A i \in a .. b : Begins(i, a) => \E j \in DOMAIN Units(a, b) : Units(a, b)[j].first = i
         /\ \A j, k \in DOMAIN Units(a, b) : j < k => Units(a, b)[j].first < Units(a, b)[k].first
<1> DEFINE n == b - a + 1
           Typed(us, k) == us \in Seq(Whole)
           Theirs(us, k) == \A j \in DOMAIN us :
             us[j].first \in a .. a + k - 1 /\ Begins(us[j].first, a) /\ us[j] = Unit(us[j].first)
           Complete(us, k) == \A i \in a .. a + k - 1 :
             Begins(i, a) => \E j \in DOMAIN us : us[j].first = i
           Ascending(us) == \A j, k \in DOMAIN us : j < k => us[j].first < us[k].first
           Q(us, k) == Typed(us, k) /\ Theirs(us, k) /\ Complete(us, k) /\ Ascending(us)
<1>0. Len(file) \in Nat /\ n \in Nat /\ a \in Nat /\ b = a + n - 1
  BY FileFacts
<1>1. PICK p : /\ p[0] = <<>> /\ p[n] = Units(a, b)
               /\ \A k \in 1 .. n :
                    p[k] = IF Begins(a + k - 1, a) THEN Append(p[k - 1], Unit(a + k - 1))
                           ELSE p[k - 1]
  BY UnitsSteps
<1> DEFINE N == {k \in Nat : k <= n => Q(p[k], k)}
<1>2. 0 \in N
  <2>1. a .. a + 0 - 1 = {}
    BY <1>0
  <2>2. Complete(<<>>, 0)
    BY <2>1
  <2>3. Typed(<<>>, 0) /\ Theirs(<<>>, 0) /\ Ascending(<<>>)
    OBVIOUS
  <2> HIDE DEF Typed, Theirs, Complete, Ascending
  <2> QED
    BY <1>1, <2>2, <2>3
<1>3. ASSUME NEW k \in Nat, k \in N
      PROVE  k + 1 \in N
  <2> SUFFICES ASSUME k + 1 <= n
               PROVE  Q(p[k + 1], k + 1)
    <3> HIDE DEF Q
    <3> QED
      OBVIOUS
  <2> DEFINE us == p[k]
             i == a + k
  <2>1. Q(us, k)
    <3> HIDE DEF Q
    <3>1. k <= n
      BY <1>0
    <3> QED
      BY <1>3, <3>1
  <2>2. i \in 1 .. Len(file) /\ i \in a .. b
    BY <1>0
  <2>3. p[k + 1] = IF Begins(i, a) THEN Append(us, Unit(i)) ELSE us
    <3>1. k + 1 \in 1 .. n /\ a + (k + 1) - 1 = a + k /\ (k + 1) - 1 = k
      BY <1>0
    <3> QED
      BY <1>1, <3>1
  <2>4. /\ \A x : x \in a .. a + (k + 1) - 1 <=> x \in a .. a + k - 1 \/ x = i
        /\ \A x \in a .. a + k - 1 : x < i
    BY <1>0
  <2> HIDE DEF us, i
  <2>5. CASE ~ Begins(i, a)
    BY <2>1, <2>3, <2>4, <2>5
  <2>6. CASE Begins(i, a)
    <3> DEFINE vs == Append(us, Unit(i))
    <3>1. us \in Seq(Whole) /\ Unit(i) \in Whole /\ Unit(i).first = i
      BY <2>1, <2>2, UnitFacts
    <3>2. /\ vs \in Seq(Whole) /\ Len(us) \in Nat /\ DOMAIN us = 1 .. Len(us)
          /\ DOMAIN vs = 1 .. Len(us) + 1
          /\ \A j \in DOMAIN us : vs[j] = us[j]
          /\ vs[Len(us) + 1] = Unit(i)
      BY <3>1
    <3> HIDE DEF vs
    <3>3. \A j \in DOMAIN vs : j \in DOMAIN us \/ j = Len(us) + 1
      BY <3>2
    <3>4. Theirs(vs, k + 1)
      BY <2>1, <2>4, <2>6, <3>1, <3>2, <3>3
    <3>5. Complete(vs, k + 1)
      <4> SUFFICES ASSUME NEW x \in a .. a + (k + 1) - 1, Begins(x, a)
                   PROVE  \E j \in DOMAIN vs : vs[j].first = x
        OBVIOUS
      <4>1. CASE x = i
        BY <3>1, <3>2, <4>1
      <4>2. CASE x \in a .. a + k - 1
        <5>1. PICK j \in DOMAIN us : us[j].first = x
          BY <2>1, <4>2
        <5> QED
          BY <3>2, <5>1
      <4> QED
        BY <2>4, <4>1, <4>2
    <3>6. Ascending(vs)
      <4> SUFFICES ASSUME NEW j \in DOMAIN vs, NEW m \in DOMAIN vs, j < m
                   PROVE  vs[j].first < vs[m].first
        OBVIOUS
      <4>1. j \in DOMAIN us
        BY <3>2
      <4>2. CASE m \in DOMAIN us
        BY <2>1, <3>2, <4>1, <4>2
      <4>3. CASE m = Len(us) + 1
        <5>1. us[j].first \in a .. a + k - 1
          BY <2>1, <4>1
        <5>2. us[j].first < i
          BY <2>4, <5>1
        <5> QED
          BY <3>1, <3>2, <4>1, <4>3, <5>2
      <4> QED
        BY <3>3, <4>2, <4>3
    <3> QED
      BY <2>3, <2>6, <3>2, <3>4, <3>5, <3>6 DEF vs
  <2> QED
    BY <2>5, <2>6
<1>4. Q(p[n], n)
  <2>1. Nat \subseteq N
    <3> HIDE DEF N
    <3> QED
      BY <1>2, <1>3, NatSet
  <2> HIDE DEF Q
  <2>2. n \in N /\ n <= n
    BY <1>0, <2>1
  <2> QED
    BY <2>2
<1> QED
  BY <1>0, <1>1, <1>4

-----------------------------------------------------------------------------
(* Blocks.  The whole file is one, and so is the body of a definition.     *)

Block(a, b) ==
  /\ a \in 1 .. Len(file) /\ b \in a .. Len(file)
  /\ \A i \in a .. b : file[i].depth >= file[a].depth
  /\ b < Len(file) => file[b + 1].depth < file[a].depth

LEMMA FileIsBlock ==
  ASSUME file \in Files
  PROVE  Block(1, Len(file))
BY FileFacts DEF Block

LEMMA BodyIsBlock ==
  ASSUME file \in Files, NEW i \in 1 .. Len(file), What(Unit(i)) \in {"def", "class"}
  PROVE  Block(Unit(i).def + 1, Unit(i).last)
<1> DEFINE d == Unit(i).def
           l == Unit(i).last
<1>0. Len(file) \in Nat /\ \A k \in 1 .. Len(file) : file[k].depth \in Nat
  BY FileFacts
<1>1. d \in i .. Len(file) /\ d \in 1 .. Len(file) /\ l = LastLine(d) /\ file[d].what \in {"def", "class"}
  BY <1>0, UnitFacts DEF What
<1>2. d # Len(file) /\ d \in 1 .. Len(file) - 1
  BY <1>0, <1>1, FileFacts
<1>3. file[d + 1].depth = file[d].depth + 1
  BY <1>1, <1>2, FileFacts
<1> HIDE DEF d
<1>4. /\ l \in d .. Len(file) /\ \A k \in d + 1 .. l : file[k].depth > file[d].depth
      /\ l < Len(file) => file[l + 1].depth <= file[d].depth
  BY <1>1, LastLineFacts
<1>5. l # d
  BY <1>0, <1>1, <1>2, <1>3, <1>4
<1> HIDE DEF l
<1>6. d + 1 \in 1 .. Len(file) /\ l \in d + 1 .. Len(file)
  BY <1>0, <1>2, <1>4, <1>5
<1>7. ASSUME NEW k \in d + 1 .. l
      PROVE  file[k].depth >= file[d + 1].depth
  <2>1. k \in 1 .. Len(file) /\ d \in 1 .. Len(file)
    BY <1>0, <1>1, <1>6
  <2>2. file[k].depth \in Nat /\ file[d].depth \in Nat /\ file[k].depth > file[d].depth
    BY <1>0, <1>4, <2>1
  <2> QED
    BY <1>3, <2>2
<1>8. l < Len(file) => file[l + 1].depth < file[d + 1].depth
  <2> SUFFICES ASSUME l < Len(file)
               PROVE  file[l + 1].depth < file[d + 1].depth
    OBVIOUS
  <2>1. l + 1 \in 1 .. Len(file) /\ d \in 1 .. Len(file)
    BY <1>0, <1>1, <1>6
  <2>2. file[l + 1].depth \in Nat /\ file[d].depth \in Nat /\ file[l + 1].depth <= file[d].depth
    BY <1>0, <1>4, <2>1
  <2>3. \A x, y \in Nat : x <= y => x < y + 1
    OBVIOUS
  <2> QED
    BY <1>3, <2>2, <2>3
<1> QED
  BY <1>6, <1>7, <1>8 DEF Block, d, l
(* A statement of a block ends in the block, and before the next begins.   *)
LEMMA UnitInBlock ==
  ASSUME file \in Files, NEW a, NEW b, Block(a, b), NEW i \in a .. b, Begins(i, a)
  PROVE  /\ i \in 1 .. Len(file) /\ Unit(i).last <= b
         /\ \A k \in i + 1 .. Unit(i).last : ~ Begins(k, a)
<1> DEFINE d == Unit(i).def
           l == Unit(i).last
<1>0. /\ Len(file) \in Nat /\ \A k \in 1 .. Len(file) : file[k].depth \in Nat
      /\ a \in 1 .. Len(file) /\ b \in a .. Len(file) /\ i \in 1 .. Len(file)
  BY FileFacts DEF Block
<1>1. /\ d \in i .. Len(file) /\ d \in 1 .. Len(file) /\ l \in d .. Len(file)
      /\ d = DefLine(i) /\ l = LastLine(d)
  BY <1>0, UnitFacts
<1>2. /\ \A k \in i .. d - 1 : file[k].what = "deco"
      /\ \A k \in i .. d : file[k].depth = file[i].depth
  BY <1>0, <1>1, DefLineFacts
<1>3. \A k \in d + 1 .. l : file[k].depth > file[d].depth
  BY <1>1, LastLineFacts
<1>4. file[i].depth = file[a].depth /\ file[d].depth = file[a].depth
  <2>1. d \in i .. d
    BY <1>0, <1>1
  <2> QED
    BY <1>2, <2>1 DEF Begins
<1> HIDE DEF d, l
<1>5. ASSUME l > b
      PROVE  FALSE
  <2>1. b < Len(file) /\ b + 1 \in i .. l /\ b + 1 \in 1 .. Len(file)
    BY <1>0, <1>1, <1>5
  <2>2. file[b + 1].depth < file[a].depth
    BY <2>1 DEF Block
  <2>3. b + 1 \in i .. d \/ b + 1 \in d + 1 .. l
    BY <1>0, <1>1, <2>1
  <2>4. file[b + 1].depth \in Nat /\ file[a].depth \in Nat
    BY <1>0, <2>1
  <2>5. file[b + 1].depth >= file[a].depth
    BY <1>2, <1>3, <1>4, <2>3, <2>4
  <2> QED
    BY <2>2, <2>4, <2>5
<1>6. ASSUME NEW k \in i + 1 .. l
      PROVE  ~ Begins(k, a)
  <2>1. k \in i + 1 .. d \/ k \in d + 1 .. l
    BY <1>0, <1>1
  <2>2. CASE k \in i + 1 .. d
    <3>1. k - 1 \in i .. d - 1 /\ k > a
      BY <1>0, <1>1, <2>2
    <3> QED
      BY <1>2, <3>1 DEF Begins
  <2>3. CASE k \in d + 1 .. l
    <3>1. k \in 1 .. Len(file)
      BY <1>0, <1>1, <2>3
    <3>2. file[k].depth > file[a].depth /\ file[k].depth \in Nat /\ file[a].depth \in Nat
      BY <1>0, <1>3, <1>4, <2>3, <3>1
    <3> QED
      BY <3>2 DEF Begins
  <2> QED
    BY <2>1, <2>2, <2>3
<1>7. l <= b
  BY <1>0, <1>1, <1>5
<1> QED
  BY <1>0, <1>6, <1>7 DEF l

(* Each line of a block is in one of its statements.                       *)
LEMMA LineInUnit ==
  ASSUME file \in Files, NEW a, NEW b, Block(a, b), NEW i \in a .. b
  PROVE  \E f \in a .. i : Begins(f, a) /\ i <= Unit(f).last
<1>0. /\ Len(file) \in Nat /\ \A k \in 1 .. Len(file) : file[k].depth \in Nat
      /\ a \in 1 .. Len(file) /\ b \in a .. Len(file) /\ i \in 1 .. Len(file)
  BY FileFacts DEF Block
<1> DEFINE S == {j \in a .. i : file[j].depth = file[a].depth}
           m == Max(S)
<1>1. m \in S /\ \A j \in S : j <= m
  <2>1. a \in S /\ S \subseteq Nat /\ i \in Nat /\ \A j \in S : j <= i
    BY <1>0
  <2> HIDE DEF S
  <2> QED
    BY <2>1, MaxIsMember
<1>2. ASSUME NEW k \in m + 1 .. i
      PROVE  file[k].depth > file[a].depth
  <2>1. k \in a .. b /\ k \in 1 .. Len(file) /\ k \in a .. i /\ k > m
    BY <1>0, <1>1
  <2>2. file[k].depth # file[a].depth
    BY <1>0, <1>1, <2>1
  <2>3. file[k].depth >= file[a].depth /\ file[k].depth \in Nat /\ file[a].depth \in Nat
    BY <1>0, <2>1 DEF Block
  <2> QED
    BY <2>2, <2>3
<1>3. m \in a .. i /\ m \in 1 .. Len(file) /\ file[m].depth = file[a].depth
  BY <1>0, <1>1
<1> HIDE DEF m, S
<1> DEFINE T == {j \in a .. m : \A k \in j .. m : file[k].depth = file[a].depth
                                                   /\ (k < m => file[k].what = "deco")}
<1>4. m \in T /\ T \subseteq Nat
  BY <1>0, <1>3
<1>5. PICK f \in T : \A j \in T : f <= j
  BY <1>4, LeastExists
<1>6. /\ f \in a .. m /\ f \in a .. i /\ f \in 1 .. Len(file)
      /\ \A k \in f .. m : file[k].depth = file[a].depth /\ (k < m => file[k].what = "deco")
  BY <1>0, <1>3, <1>5
<1>7. Begins(f, a)
  <2>1. f \in f .. m
    BY <1>0, <1>6
  <2>2. file[f].depth = file[a].depth
    BY <1>6, <2>1
  <2>3. ASSUME f > a, file[f - 1].what = "deco"
        PROVE  FALSE
    <3>1. f - 1 \in a .. m /\ f - 1 \in 1 .. Len(file) - 1 /\ (f - 1) + 1 = f
      BY <1>0, <1>3, <1>6, <2>3
    <3>2. file[f - 1].depth = file[f].depth
      BY <2>3, <3>1, FileFacts
    <3>3. \A k \in f - 1 .. m : k = f - 1 \/ k \in f .. m
      BY <1>0, <1>6
    <3>4. f - 1 \in T
      BY <1>6, <2>2, <2>3, <3>1, <3>2, <3>3
    <3> QED
      BY <1>0, <1>5, <1>6, <3>4
  <2> QED
    BY <2>2, <2>3 DEF Begins
<1> DEFINE d == Unit(f).def
           l == Unit(f).last
<1>8. /\ d \in f .. Len(file) /\ d \in 1 .. Len(file) /\ l \in d .. Len(file)
      /\ d = DefLine(f) /\ l = LastLine(d)
  BY <1>0, <1>6, UnitFacts
<1>9. file[d].what # "deco" /\ \A k \in f .. d - 1 : file[k].what = "deco"
  BY <1>6, <1>8, DefLineFacts
<1> HIDE DEF d, l, T
<1>10. d >= m
  <2> SUFFICES ASSUME d < m
               PROVE  FALSE
    BY <1>0, <1>3, <1>8
  <2>1. d \in f .. m
    BY <1>0, <1>3, <1>6, <1>8
  <2> QED
    BY <1>6, <1>9, <2>1
<1>11. i <= l
  <2> SUFFICES ASSUME i > l
               PROVE  FALSE
    BY <1>0, <1>8
  <2>1. CASE d > m
    <3>0. /\ f \in Nat /\ m \in Nat /\ d \in Nat /\ l \in Nat /\ i \in Nat /\ f <= m
          /\ m < d /\ d <= l /\ l < i /\ i <= Len(file) /\ 1 <= m
      <4>1. i \in Nat /\ i <= Len(file) /\ m \in Nat /\ 1 <= m /\ f \in Nat /\ f <= m
        BY <1>0, <1>3, <1>6
      <4>2. d \in Nat /\ l \in Nat /\ d <= l
        BY <1>0, <1>8
      <4> QED
        BY <2>1, <4>1, <4>2
    <3>1. m \in f .. d - 1 /\ m < i /\ m \in 1 .. Len(file) - 1 /\ m + 1 \in m + 1 .. i
      BY <1>0, <3>0
    <3>2. file[m + 1].depth = file[m].depth
      BY <1>9, <3>1, FileFacts
    <3>3. file[m + 1].depth > file[a].depth /\ file[a].depth \in Nat
      BY <1>0, <1>2, <3>1
    <3> QED
      BY <1>3, <3>2, <3>3
  <2>2. CASE d = m
    <3>1. l < Len(file) /\ l + 1 \in m + 1 .. i /\ l + 1 \in 1 .. Len(file)
      BY <1>0, <1>3, <1>8, <2>2
    <3>2. file[l + 1].depth <= file[m].depth
      BY <1>8, <2>2, <3>1, LastLineFacts
    <3>3. file[l + 1].depth > file[a].depth /\ file[a].depth \in Nat /\ file[l + 1].depth \in Nat
      BY <1>0, <1>2, <3>1
    <3> QED
      BY <1>3, <3>2, <3>3
  <2> QED
    BY <1>0, <1>3, <1>8, <1>10, <2>1, <2>2
<1> QED
  BY <1>6, <1>7, <1>11 DEF l

(* The statements of a block follow each other and leave no line out.      *)
LEMMA BlockUnits ==
  ASSUME file \in Files, NEW a, NEW b, Block(a, b)
  PROVE  /\ a \in 1 .. Len(file) /\ b \in a .. Len(file)
         /\ Units(a, b) \in Seq(Whole)
         /\ \A j \in DOMAIN Units(a, b) :
              /\ Units(a, b)[j].first \in a .. b /\ Units(a, b)[j].last <= b
              /\ Units(a, b)[j] = Unit(Units(a, b)[j].first)
         /\ \A j, k \in DOMAIN Units(a, b) : j < k => Units(a, b)[j].last < Units(a, b)[k].first
         /\ \A i \in a .. b : \E j \in DOMAIN Units(a, b) :
              i \in Units(a, b)[j].first .. Units(a, b)[j].last
<1> DEFINE us == Units(a, b)
<1>0. Len(file) \in Nat /\ a \in 1 .. Len(file) /\ b \in a .. Len(file)
  BY FileFacts DEF Block
<1>1. /\ us \in Seq(Whole)
      /\ \A j \in DOMAIN us : us[j].first \in a .. b /\ Begins(us[j].first, a)
                              /\ us[j] = Unit(us[j].first)
      /\ \A i \in a .. b : Begins(i, a) => \E j \in DOMAIN us : us[j].first = i
      /\ \A j, k \in DOMAIN us : j < k => us[j].first < us[k].first
  BY <1>0, UnitsFacts
<1> HIDE DEF us
<1>2. ASSUME NEW j \in DOMAIN us
      PROVE  /\ us[j].last <= b /\ us[j].last \in Nat
             /\ \A k \in us[j].first + 1 .. us[j].last : ~ Begins(k, a)
  <2>1. us[j].first \in a .. b /\ us[j].first \in 1 .. Len(file) /\ Begins(us[j].first, a)
    BY <1>0, <1>1
  <2>2. Unit(us[j].first).last \in Nat
    BY <2>1, UnitFacts DEF Whole
  <2> QED
    BY <1>1, <2>1, <2>2, UnitInBlock
<1>3. ASSUME NEW j \in DOMAIN us, NEW k \in DOMAIN us, j < k
      PROVE  us[j].last < us[k].first
  <2>1. us[j].first < us[k].first /\ us[j].first \in Nat /\ us[k].first \in Nat /\ us[j].last \in Nat
    BY <1>0, <1>1, <1>2, <1>3
  <2>2. Begins(us[k].first, a)
    BY <1>1
  <2>3. us[k].first \notin us[j].first + 1 .. us[j].last
    BY <1>2, <2>2
  <2> QED
    BY <2>1, <2>3
<1>4. ASSUME NEW i \in a .. b
      PROVE  \E j \in DOMAIN us : i \in us[j].first .. us[j].last
  <2>1. PICK f \in a .. i : Begins(f, a) /\ i <= Unit(f).last
    BY LineInUnit
  <2>2. f \in a .. b
    BY <1>0
  <2>3. PICK j \in DOMAIN us : us[j].first = f
    BY <1>1, <2>1, <2>2
  <2>4. us[j].last = Unit(f).last /\ us[j].last \in Nat
    BY <1>1, <1>2, <2>3
  <2> QED
    BY <1>0, <2>1, <2>3, <2>4
<1> QED
  BY <1>0, <1>1, <1>2, <1>3, <1>4 DEF us

-----------------------------------------------------------------------------
(* Chunks                                                                  *)

Row == (1 .. Len(file)) \X (1 .. Len(file))

Chunk == [kind : {"function", "method", "class_header"}, start : Nat, last : Nat,
          end : Nat, header : Seq(Row)]

(* It exceeds the budget only where nothing smaller can be cut.            *)
Small(c) ==
  \/ ContentSize(c) <= MaxTokens
  \/ Verbatim(c) /\ (c.start = c.last \/ c.end > c.last)
  \/ ~ Verbatim(c) /\ Len(c.header) = 1

Sound(c, lo, hi) == c \in Chunk /\ lo <= c.start /\ c.start <= c.last /\ c.last <= hi /\ Small(c)

(* The chunks of a stretch of lines: those with text of the file come in   *)
(* its order and do not overlap.                                           *)
Proper(s, lo, hi) ==
  /\ s \in Seq(Chunk)
  /\ \A k \in DOMAIN s : Sound(s[k], lo, hi)
  /\ \A j, k \in DOMAIN s :
       j < k /\ Verbatim(s[j]) /\ Verbatim(s[k]) => s[j].last < s[k].start

HasLine(s, i) == \E k \in DOMAIN s : Verbatim(s[k]) /\ i \in s[k].start .. s[k].last

LEMMA ChunkType ==
  ASSUME NEW c \in Chunk
  PROVE  c.start \in Nat /\ c.last \in Nat /\ c.end \in Nat /\ c.header \in Seq(Row)
BY DEF Chunk

LEMMA NoChunks ==
  ASSUME NEW lo, NEW hi
  PROVE  Proper(<<>>, lo, hi)
BY DEF Proper

LEMMA OneChunk ==
  ASSUME NEW c, NEW lo, NEW hi, Sound(c, lo, hi)
  PROVE  /\ Proper(<<c>>, lo, hi)
         /\ Verbatim(c) => \A i \in c.start .. c.last : HasLine(<<c>>, i)
<1>1. <<c>> \in Seq(Chunk) /\ DOMAIN <<c>> = {1} /\ <<c>>[1] = c
  BY DEF Sound
<1> QED
  BY <1>1 DEF Proper, HasLine

LEMMA MoreLines ==
  ASSUME NEW s, NEW lo \in Nat, NEW hi \in Nat, Proper(s, lo, hi),
         NEW m \in Nat, NEW n \in Nat, m <= lo, hi <= n
  PROVE  Proper(s, m, n)
<1>1. ASSUME NEW k \in DOMAIN s
      PROVE  Sound(s[k], m, n)
  <2>1. Sound(s[k], lo, hi) /\ s[k].start \in Nat /\ s[k].last \in Nat
    BY ChunkType DEF Proper, Sound
  <2> QED
    BY <2>1 DEF Sound
<1> QED
  BY <1>1 DEF Proper

(* Chunks of earlier lines and then of later ones.                         *)
LEMMA ProperConcat ==
  ASSUME NEW s, NEW t, NEW lo \in Nat, NEW m \in Nat, NEW n \in Nat, NEW hi \in Nat,
         Proper(s, lo, m), Proper(t, n, hi), lo <= n, m < n, m <= hi
  PROVE  /\ Proper(s \o t, lo, hi)
         /\ \A i : HasLine(s, i) \/ HasLine(t, i) => HasLine(s \o t, i)
<1> DEFINE st == s \o t
<1>1. s \in Seq(Chunk) /\ t \in Seq(Chunk)
  BY DEF Proper
<1>2. /\ st \in Seq(Chunk) /\ Len(s) \in Nat
      /\ \A k \in DOMAIN s : k \in DOMAIN st /\ st[k] = s[k] /\ k <= Len(s) /\ k \in Nat
      /\ \A k \in DOMAIN t : Len(s) + k \in DOMAIN st /\ st[Len(s) + k] = t[k]
      /\ \A k \in DOMAIN st : k \in Nat /\ (k \in DOMAIN s \/ (k - Len(s) \in DOMAIN t
                                            /\ k > Len(s) /\ st[k] = t[k - Len(s)]))
  <2>1. /\ Len(s) \in Nat /\ Len(t) \in Nat /\ st \in Seq(Chunk)
        /\ DOMAIN s = 1 .. Len(s) /\ DOMAIN t = 1 .. Len(t) /\ DOMAIN st = 1 .. Len(s) + Len(t)
        /\ \A k \in 1 .. Len(s) + Len(t) : st[k] = IF k <= Len(s) THEN s[k] ELSE t[k - Len(s)]
    BY <1>1
  <2> HIDE DEF st
  <2>2. \A k \in DOMAIN s : k \in DOMAIN st /\ st[k] = s[k] /\ k <= Len(s) /\ k \in Nat
    BY <2>1
  <2>3. ASSUME NEW k \in DOMAIN t
        PROVE  Len(s) + k \in DOMAIN st /\ st[Len(s) + k] = t[k]
    <3>1. k \in Nat /\ k >= 1 /\ Len(s) + k \in 1 .. Len(s) + Len(t) /\ (Len(s) + k) - Len(s) = k
      BY <2>1
    <3>2. st[Len(s) + k] = IF Len(s) + k <= Len(s) THEN s[Len(s) + k] ELSE t[(Len(s) + k) - Len(s)]
      BY <2>1, <3>1
    <3>3. ~ (Len(s) + k <= Len(s))
      <4>1. \A x, y \in Nat : y >= 1 => ~ (x + y <= x)
        OBVIOUS
      <4> QED
        BY <2>1, <3>1, <4>1
    <3> QED
      BY <2>1, <3>1, <3>2, <3>3
  <2>4. ASSUME NEW k \in DOMAIN st
        PROVE  k \in Nat /\ (k \in DOMAIN s \/ (k - Len(s) \in DOMAIN t
                                             /\ k > Len(s) /\ st[k] = t[k - Len(s)]))
    BY <2>1
  <2> QED
    BY <2>1, <2>2, <2>3, <2>4
<1>3. Proper(s, lo, hi) /\ Proper(t, lo, hi)
  BY MoreLines
<1> HIDE DEF st
<1>4. \A k \in DOMAIN st : Sound(st[k], lo, hi)
  BY <1>2, <1>3 DEF Proper
<1>5. ASSUME NEW j \in DOMAIN st, NEW k \in DOMAIN st, j < k, Verbatim(st[j]), Verbatim(st[k])
      PROVE  st[j].last < st[k].start
  <2>1. CASE k \in DOMAIN s
    BY <1>2, <1>3, <1>5, <2>1 DEF Proper
  <2>2. CASE k \notin DOMAIN s /\ j \in DOMAIN s
    <3>1. Sound(s[j], lo, m) /\ Sound(t[k - Len(s)], n, hi)
      BY <1>2, <2>2 DEF Proper
    <3>2. s[j].last <= m /\ n <= t[k - Len(s)].start /\ s[j].last \in Nat /\ t[k - Len(s)].start \in Nat
      BY <3>1, ChunkType DEF Sound
    <3> QED
      BY <1>2, <2>2, <3>2
  <2>3. CASE k \notin DOMAIN s /\ j \notin DOMAIN s
    <3>1. /\ j - Len(s) \in DOMAIN t /\ k - Len(s) \in DOMAIN t /\ j - Len(s) < k - Len(s)
          /\ st[j] = t[j - Len(s)] /\ st[k] = t[k - Len(s)]
      BY <1>2, <1>5, <2>3
    <3> QED
      BY <1>3, <1>5, <3>1 DEF Proper
  <2> QED
    BY <1>2, <1>5, <2>1, <2>2, <2>3
<1>6. \A i : HasLine(s, i) \/ HasLine(t, i) => HasLine(st, i)
  BY <1>2 DEF HasLine
<1> QED
  BY <1>2, <1>4, <1>5, <1>6 DEF st, Proper

(* A header may follow the chunks of the lines it stands for.              *)
LEMMA ThenHeader ==
  ASSUME NEW s, NEW c, NEW lo \in Nat, NEW hi \in Nat,
         Proper(s, lo, hi), Sound(c, lo, hi), ~ Verbatim(c)
  PROVE  /\ Proper(s \o <<c>>, lo, hi)
         /\ \A i : HasLine(s, i) => HasLine(s \o <<c>>, i)
<1> DEFINE st == s \o <<c>>
<1>1. s \in Seq(Chunk) /\ c \in Chunk
  BY DEF Proper, Sound
<1>2. /\ st \in Seq(Chunk) /\ Len(s) \in Nat
      /\ \A k \in DOMAIN s : k \in DOMAIN st /\ st[k] = s[k]
      /\ \A k \in DOMAIN st : k \in DOMAIN s \/ st[k] = c
  BY <1>1
<1> HIDE DEF st
<1> QED
  BY <1>2 DEF st, Proper, HasLine

LEMMA EmitBytesSound ==
  ASSUME NEW a \in Nat, NEW b \in Nat, a <= b, NEW kind \in {"function", "method"},
         Fits(a, b) \/ a = b
  PROVE  LET c == EmitBytes(a, b, kind)
         IN  Sound(c, a, b) /\ Verbatim(c) /\ c.start = a /\ c.last = b
<1> DEFINE c == EmitBytes(a, b, kind)
<1>1. c \in Chunk /\ Verbatim(c) /\ c.start = a /\ c.last = b
  BY DEF EmitBytes, Chunk, Verbatim
<1>2. Small(c)
  BY <1>1 DEF Small, Fits, ContentSize
<1> QED
  BY <1>1, <1>2 DEF Sound

-----------------------------------------------------------------------------
(* Splitting by lines                                                      *)

Window == Nat \X Nat

LEMMA WindowType ==
  ASSUME NEW ws \in Seq(Window), NEW i \in Nat
  PROVE  ExtendWindow(ws, i) \in Seq(Window)
<1>1. <<i, i>> \in Window
  BY DEF Window
<1>2. ASSUME ws # <<>>
      PROVE  Append(Front(ws), <<Last(ws)[1], i>>) \in Seq(Window)
  <2>1. Len(ws) \in Nat /\ Len(ws) # 0
    BY <1>2
  <2>2. ws[Len(ws)] \in Window /\ Front(ws) \in Seq(Window)
    BY <2>1 DEF Front
  <2>3. <<Last(ws)[1], i>> \in Window
    BY <2>2 DEF Window, Last
  <2> QED
    BY <2>2, <2>3
<1> QED
  BY <1>1, <1>2 DEF ExtendWindow

LEMMA WindowSteps ==
  ASSUME NEW a \in Nat, NEW b \in Nat, a <= b
  PROVE  \E p : /\ p[0] = <<>> /\ p[b - a + 1] = FoldLeft(ExtendWindow, <<>>, Lines(a, b))
                /\ \A k \in 1 .. b - a + 1 : p[k] = ExtendWindow(p[k - 1], a + k - 1)
<1> DEFINE n == b - a + 1
           s == Lines(a, b)
           R == Seq(Window)
           f == [xr \in Nat \X R |-> ExtendWindow(xr[2], xr[1])]
           Eq(h, S) == h[S] = IF S = {} THEN <<>> ELSE ExtendWindow(h[S \ {Max(S)}], s[Max(S)])
<1>1. s \in Seq(Nat) /\ n \in Nat /\ DOMAIN s = 1 .. n /\ \A k \in 1 .. n : s[k] = a + k - 1
  BY DEF Lines
<1> HIDE DEF s
<1>2. PICK h \in [SUBSET DOMAIN s -> R] : FoldsLeft(h, s, f, <<>>)
  <2>1. StepsIn(f, Nat, R)
    BY WindowType DEF StepsIn
  <2>2. <<>> \in R /\ s \in Seq(Nat)
    BY <1>1
  <2> HIDE DEF f, R
  <2> QED
    BY <2>1, <2>2, FoldLeftExists
<1>3. ASSUME NEW S \in SUBSET DOMAIN s
      PROVE  Eq(h, S)
  <2>1. h[S] = IF S = {} THEN <<>> ELSE f[<<s[Max(S)], h[S \ {Max(S)}]>>]
    BY <1>2, Zenon DEF FoldsLeft
  <2>2. CASE S = {}
    BY <2>1, <2>2
  <2>3. CASE S # {}
    <3>1. Max(S) \in S
      BY <1>1, <2>3, MaxIsMember
    <3>2. s[Max(S)] \in Nat /\ h[S \ {Max(S)}] \in R
      BY <1>1, <3>1
    <3> QED
      BY <2>1, <2>3, <3>2
  <2> QED
    BY <2>2, <2>3
<1> DEFINE iter == CHOOSE h_1 : h_1 = [S \in SUBSET DOMAIN s |->
                     IF S = {} THEN <<>> ELSE ExtendWindow(h_1[S \ {Max(S)}], s[Max(S)])]
<1>4. FoldLeft(ExtendWindow, <<>>, Lines(a, b)) = iter[DOMAIN s]
  BY Zenon DEF FoldLeft, MapThenFoldSet, s
<1>5. h = [S \in SUBSET DOMAIN s |-> IF S = {} THEN <<>>
                                      ELSE ExtendWindow(h[S \ {Max(S)}], s[Max(S)])]
  BY <1>3
<1>6. iter = [S \in SUBSET DOMAIN s |-> IF S = {} THEN <<>>
                                         ELSE ExtendWindow(iter[S \ {Max(S)}], s[Max(S)])]
  BY <1>5, Zenon
<1> HIDE DEF iter
<1>7. ASSUME NEW k \in 1 .. n
      PROVE  iter[1 .. k] = ExtendWindow(iter[1 .. k - 1], a + k - 1)
  <2>1. k \in Nat /\ k # 0 /\ k \in 1 .. k /\ 1 .. k \subseteq 1 .. n
    BY <1>1
  <2>2. 1 .. k \in SUBSET DOMAIN s /\ 1 .. k # {} /\ s[k] = a + k - 1
    BY <1>1, <2>1
  <2>3. Max(1 .. k) = k /\ (1 .. k) \ {k} = 1 .. k - 1
    BY <2>1, Prefix
  <2>4. iter[1 .. k] = ExtendWindow(iter[(1 .. k) \ {Max(1 .. k)}], s[Max(1 .. k)])
    BY <1>6, <2>2, Zenon
  <2> QED
    BY <2>2, <2>3, <2>4
<1>8. iter[1 .. 0] = <<>>
  BY <1>6
<1> DEFINE p == [k \in 0 .. n |-> iter[1 .. k]]
<1>9. /\ p[0] = <<>> /\ p[n] = FoldLeft(ExtendWindow, <<>>, Lines(a, b))
      /\ \A k \in 1 .. n : p[k] = ExtendWindow(p[k - 1], a + k - 1)
  <2>1. \A k \in 0 .. n : p[k] = iter[1 .. k]
    OBVIOUS
  <2>2. 0 \in 0 .. n /\ n \in 0 .. n /\ \A k \in 1 .. n : k \in 0 .. n /\ k - 1 \in 0 .. n
    BY <1>1
  <2> HIDE DEF p
  <2> QED
    BY <1>1, <1>4, <1>7, <1>8, <2>1, <2>2
<1> QED
  BY <1>9, Zenon

LEMMA AppendFacts ==
  ASSUME NEW T, NEW s \in Seq(T), NEW x \in T
  PROVE  /\ Append(s, x) \in Seq(T) /\ Len(s) \in Nat /\ DOMAIN s = 1 .. Len(s)
         /\ DOMAIN Append(s, x) = 1 .. Len(s) + 1 /\ Len(s) + 1 \in DOMAIN Append(s, x)
         /\ Append(s, x)[Len(s) + 1] = x
         /\ \A j \in DOMAIN s : j \in DOMAIN Append(s, x) /\ Append(s, x)[j] = s[j] /\ j < Len(s) + 1
         /\ \A j \in DOMAIN Append(s, x) : j \in DOMAIN s \/ j = Len(s) + 1
OBVIOUS

(* The last element of a sequence is replaced.                             *)
LEMMA LastReplaced ==
  ASSUME NEW T, NEW s \in Seq(T), s # <<>>, NEW x \in T
  PROVE  LET t == Append(Front(s), x)
         IN  /\ t \in Seq(T) /\ DOMAIN t = DOMAIN s /\ Len(s) \in DOMAIN s /\ Last(s) = s[Len(s)]
             /\ Len(s) \in Nat /\ DOMAIN s = 1 .. Len(s)
             /\ \A j \in DOMAIN s : t[j] = IF j = Len(s) THEN x ELSE s[j]
<1> DEFINE F == Front(s)
           t == Append(F, x)
<1>1. Len(s) \in Nat /\ Len(s) # 0 /\ DOMAIN s = 1 .. Len(s) /\ Len(s) \in 1 .. Len(s)
  OBVIOUS
<1>2. /\ F \in Seq(T) /\ Len(F) = Len(s) - 1
      /\ \A j \in 1 .. Len(s) - 1 : F[j] = s[j]
  BY <1>1 DEF Front
<1> HIDE DEF F
<1>3. /\ t \in Seq(T) /\ DOMAIN F = 1 .. Len(F) /\ DOMAIN t = 1 .. Len(F) + 1
      /\ t[Len(F) + 1] = x /\ \A j \in DOMAIN F : t[j] = F[j]
  BY <1>2, AppendFacts
<1>4. Len(F) + 1 = Len(s)
  BY <1>1, <1>2
<1> HIDE DEF t
<1>5. ASSUME NEW j \in DOMAIN s
      PROVE  t[j] = IF j = Len(s) THEN x ELSE s[j]
  <2>1. j = Len(s) \/ j \in 1 .. Len(s) - 1
    BY <1>1
  <2> QED
    BY <1>2, <1>3, <1>4, <2>1
<1>6. DOMAIN t = DOMAIN s
  <2>1. 1 .. Len(F) + 1 = 1 .. Len(s)
    BY <1>4, Zenon
  <2> QED
    BY <1>1, <1>3, <2>1, Zenon
<1>7. Last(s) = s[Len(s)]
  BY DEF Last
<1>8. /\ t \in Seq(T) /\ DOMAIN t = DOMAIN s /\ Len(s) \in DOMAIN s /\ Last(s) = s[Len(s)]
      /\ Len(s) \in Nat /\ DOMAIN s = 1 .. Len(s)
      /\ \A j \in DOMAIN s : t[j] = IF j = Len(s) THEN x ELSE s[j]
  BY <1>1, <1>3, <1>5, <1>6, <1>7, Zenon
<1> QED
  BY <1>8, Zenon DEF t, F

(* The windows over lines a .. e.                                          *)
Windows(ws, a, e) ==
  /\ ws \in Seq(Window)
  /\ \A j \in DOMAIN ws :
       /\ a <= ws[j][1] /\ ws[j][1] <= ws[j][2] /\ ws[j][2] <= e
       /\ ws[j][1] = ws[j][2] \/ Fits(ws[j][1], ws[j][2])
  /\ \A j, m \in DOMAIN ws : j < m => ws[j][2] < ws[m][1]
  /\ \A i \in a .. e : \E j \in DOMAIN ws : i \in ws[j][1] .. ws[j][2]

LEMMA ExtendWindowKeeps ==
  ASSUME NEW a \in Nat, NEW ws, NEW i \in Nat, a <= i, Windows(ws, a, i - 1)
  PROVE  Windows(ExtendWindow(ws, i), a, i)
<1>0. ws \in Seq(Window) /\ \A w \in Window : w[1] \in Nat /\ w[2] \in Nat
  BY DEF Windows, Window
<1>1. \A j \in DOMAIN ws : ws[j][1] \in Nat /\ ws[j][2] \in Nat /\ ws[j][2] < i
  BY <1>0 DEF Windows
<1>2. \A x \in a .. i : x \in a .. i - 1 \/ x = i
  OBVIOUS
<1>3. CASE ws # <<>> /\ Fits(Last(ws)[1], i)
  <2> DEFINE x == <<Last(ws)[1], i>>
             vs == Append(Front(ws), x)
             n == Len(ws)
  <2>1. n \in DOMAIN ws /\ Last(ws) = ws[n] /\ n \in Nat /\ DOMAIN ws = 1 .. n
    BY <1>0, <1>3 DEF Last
  <2>2. x \in Window /\ x[1] = ws[n][1] /\ x[2] = i
    BY <1>1, <2>1 DEF Window
  <2> HIDE DEF x
  <2>3. /\ vs \in Seq(Window) /\ DOMAIN vs = DOMAIN ws
        /\ \A j \in DOMAIN ws : vs[j] = IF j = n THEN x ELSE ws[j]
    BY <1>0, <1>3, <2>2, LastReplaced
  <2> HIDE DEF vs, n
  <2>4. ASSUME NEW j \in DOMAIN vs
        PROVE  /\ a <= vs[j][1] /\ vs[j][1] <= vs[j][2] /\ vs[j][2] <= i
               /\ vs[j][1] = vs[j][2] \/ Fits(vs[j][1], vs[j][2])
    <3>1. CASE j = n
      <4>1. a <= ws[n][1] /\ ws[n][1] <= ws[n][2] /\ ws[n][2] < i /\ ws[n][1] \in Nat /\ ws[n][2] \in Nat
        BY <1>1, <2>1 DEF Windows
      <4> QED
        BY <1>3, <2>1, <2>2, <2>3, <3>1, <4>1
    <3>2. CASE j # n
      BY <1>1, <2>3, <3>2 DEF Windows
    <3> QED
      BY <3>1, <3>2
  <2>5. ASSUME NEW j \in DOMAIN vs, NEW m \in DOMAIN vs, j < m
        PROVE  vs[j][2] < vs[m][1]
    <3>1. j # n /\ ws[j][2] < ws[m][1]
      BY <2>1, <2>3, <2>5 DEF Windows
    <3> QED
      BY <2>2, <2>3, <3>1
  <2>6. ASSUME NEW y \in a .. i
        PROVE  \E j \in DOMAIN vs : y \in vs[j][1] .. vs[j][2]
    <3>1. CASE y = i
      <4>1. x[1] <= i /\ x[1] \in Nat
        BY <1>1, <2>1, <2>2 DEF Windows
      <4> QED
        BY <2>1, <2>2, <2>3, <3>1, <4>1
    <3>2. CASE y \in a .. i - 1
      <4>1. PICK j \in DOMAIN ws : y \in ws[j][1] .. ws[j][2]
        BY <3>2 DEF Windows
      <4>2. CASE j = n
        BY <1>1, <2>1, <2>2, <2>3, <4>1, <4>2
      <4>3. CASE j # n
        BY <2>3, <4>1, <4>3
      <4> QED
        BY <4>2, <4>3
    <3> QED
      BY <1>2, <3>1, <3>2
  <2>7. ExtendWindow(ws, i) = vs
    BY <1>3 DEF ExtendWindow, vs, x
  <2> QED
    BY <2>3, <2>4, <2>5, <2>6, <2>7 DEF Windows
<1>4. CASE ~ (ws # <<>> /\ Fits(Last(ws)[1], i))
  <2> DEFINE x == <<i, i>>
             vs == Append(ws, x)
  <2>1. x \in Window /\ x[1] = i /\ x[2] = i
    BY DEF Window
  <2> HIDE DEF x
  <2>2. /\ vs \in Seq(Window) /\ Len(ws) \in Nat /\ Len(ws) + 1 \in DOMAIN vs /\ vs[Len(ws) + 1] = x
        /\ \A j \in DOMAIN ws : j \in DOMAIN vs /\ vs[j] = ws[j] /\ j < Len(ws) + 1 /\ j \in Nat
        /\ \A j \in DOMAIN vs : j \in DOMAIN ws \/ j = Len(ws) + 1
    BY <1>0, <2>1, AppendFacts
  <2> HIDE DEF vs
  <2>3. ASSUME NEW j \in DOMAIN vs
        PROVE  /\ a <= vs[j][1] /\ vs[j][1] <= vs[j][2] /\ vs[j][2] <= i
               /\ vs[j][1] = vs[j][2] \/ Fits(vs[j][1], vs[j][2])
    <3>1. CASE j = Len(ws) + 1
      BY <2>1, <2>2, <3>1
    <3>2. CASE j \in DOMAIN ws
      BY <1>1, <2>2, <3>2 DEF Windows
    <3> QED
      BY <2>2, <3>1, <3>2
  <2>4. ASSUME NEW j \in DOMAIN vs, NEW m \in DOMAIN vs, j < m
        PROVE  vs[j][2] < vs[m][1]
    <3>1. j \in DOMAIN ws
      BY <2>2, <2>4
    <3>2. CASE m \in DOMAIN ws
      BY <2>2, <2>4, <3>1, <3>2 DEF Windows
    <3>3. CASE m = Len(ws) + 1
      BY <1>1, <2>1, <2>2, <3>1, <3>3
    <3> QED
      BY <2>2, <3>2, <3>3
  <2>5. ASSUME NEW y \in a .. i
        PROVE  \E j \in DOMAIN vs : y \in vs[j][1] .. vs[j][2]
    <3>1. CASE y = i
      BY <2>1, <2>2, <3>1
    <3>2. CASE y \in a .. i - 1
      <4>1. PICK j \in DOMAIN ws : y \in ws[j][1] .. ws[j][2]
        BY <3>2 DEF Windows
      <4> QED
        BY <2>2, <4>1
    <3> QED
      BY <1>2, <3>1, <3>2
  <2>6. ExtendWindow(ws, i) = vs
    BY <1>4 DEF ExtendWindow, vs, x
  <2> QED
    BY <2>2, <2>3, <2>4, <2>5, <2>6 DEF Windows
<1> QED
  BY <1>3, <1>4

LEMMA LineSplitFacts ==
  ASSUME NEW a \in Nat, NEW b \in Nat, a <= b, NEW kind \in {"function", "method"}
  PROVE  Proper(LineSplit(a, b, kind), a, b) /\ \A i \in a .. b : HasLine(LineSplit(a, b, kind), i)
<1> DEFINE n == b - a + 1
           ws == FoldLeft(ExtendWindow, <<>>, Lines(a, b))
           cs == LineSplit(a, b, kind)
<1>1. PICK p : /\ p[0] = <<>> /\ p[n] = ws
               /\ \A k \in 1 .. n : p[k] = ExtendWindow(p[k - 1], a + k - 1)
  BY WindowSteps
<1> DEFINE N == {k \in Nat : k <= n => Windows(p[k], a, a + k - 1)}
<1>2. 0 \in N
  <2>1. a .. a + 0 - 1 = {}
    OBVIOUS
  <2>2. Windows(<<>>, a, a + 0 - 1)
    BY <2>1 DEF Windows
  <2> HIDE DEF n
  <2> QED
    BY <1>1, <2>2
<1>3. ASSUME NEW k \in Nat, k \in N
      PROVE  k + 1 \in N
  <2> SUFFICES ASSUME k + 1 <= n
               PROVE  Windows(p[k + 1], a, a + (k + 1) - 1)
    OBVIOUS
  <2>1. k + 1 \in 1 .. n /\ (k + 1) - 1 = k /\ a + (k + 1) - 1 = a + k /\ k <= n
        /\ (a + k) - 1 = a + k - 1 /\ a + k \in Nat /\ a <= a + k
    OBVIOUS
  <2>2. p[k + 1] = ExtendWindow(p[k], a + k) /\ Windows(p[k], a, (a + k) - 1)
    BY <1>1, <1>3, <2>1
  <2> QED
    BY <2>1, <2>2, ExtendWindowKeeps
<1>4. n \in N /\ n <= n
  <2> HIDE DEF N
  <2> QED
    BY <1>2, <1>3, NatSet
<1>5. Windows(ws, a, b)
  <2>1. a + n - 1 = b
    OBVIOUS
  <2> QED
    BY <1>1, <1>4, <2>1
<1>6. cs = [k \in DOMAIN ws |-> EmitBytes(ws[k][1], ws[k][2], kind)]
  BY DEF LineSplit
<1> HIDE DEF ws, cs, N
<1>7. ASSUME NEW k \in DOMAIN ws
      PROVE  Sound(cs[k], a, b) /\ Verbatim(cs[k]) /\ cs[k].start = ws[k][1] /\ cs[k].last = ws[k][2]
  <2>1. ws[k] \in Window
    BY <1>5 DEF Windows
  <2>2. /\ ws[k][1] \in Nat /\ ws[k][2] \in Nat /\ a <= ws[k][1] /\ ws[k][1] <= ws[k][2] /\ ws[k][2] <= b
        /\ ws[k][1] = ws[k][2] \/ Fits(ws[k][1], ws[k][2])
    BY <1>5, <2>1 DEF Windows, Window
  <2>3. cs[k] = EmitBytes(ws[k][1], ws[k][2], kind)
    BY <1>6
  <2>4. /\ Sound(cs[k], ws[k][1], ws[k][2]) /\ Verbatim(cs[k])
        /\ cs[k].start = ws[k][1] /\ cs[k].last = ws[k][2]
    BY <2>2, <2>3, EmitBytesSound
  <2> QED
    BY <2>2, <2>4 DEF Sound
<1>8. cs \in Seq(Chunk) /\ DOMAIN cs = DOMAIN ws
  <2>1. Len(ws) \in Nat /\ DOMAIN ws = 1 .. Len(ws)
    BY <1>5 DEF Windows
  <2>2. \A k \in DOMAIN ws : cs[k] \in Chunk
    BY <1>7 DEF Sound
  <2> QED
    BY <1>6, <2>1, <2>2
<1> QED
  <2>1. ASSUME NEW j \in DOMAIN cs, NEW k \in DOMAIN cs, j < k
        PROVE  cs[j].last < cs[k].start
    BY <1>5, <1>7, <1>8, <2>1 DEF Windows
  <2>2. Proper(cs, a, b)
    BY <1>7, <1>8, <2>1 DEF Proper
  <2>3. ASSUME NEW i \in a .. b
        PROVE  HasLine(cs, i)
    <3>1. PICK j \in DOMAIN ws : i \in ws[j][1] .. ws[j][2]
      BY <1>5 DEF Windows
    <3> QED
      BY <1>7, <1>8, <3>1 DEF HasLine
  <2> QED
    BY <2>2, <2>3 DEF cs

-----------------------------------------------------------------------------
(* Splitting by statements                                                 *)

FuncKind == {"function", "method"}
Stretch == {u \in Whole : u.first <= u.last}
Groups == [out : Seq(Chunk), open : Seq(Chunk), kind : FuncKind]

(* The statements on the lines L, all of a .. e, are in what is cut and in *)
(* the open group.                                                         *)
Grouped(acc, a, e, L, kind) ==
  /\ acc \in Groups /\ acc.kind = kind
  /\ \/ /\ acc.open = <<>>
        /\ Proper(acc.out, a, e)
        /\ \A i \in L : HasLine(acc.out, i)
     \/ \E x, y \in Nat :
          /\ acc.open = <<EmitBytes(x, y, kind)>>
          /\ a <= x /\ x <= y /\ y <= e /\ Fits(x, y)
          /\ Proper(acc.out, a, x - 1)
          /\ \A i \in L : HasLine(acc.out, i) \/ i \in x .. y

LEMMA GroupType ==
  ASSUME NEW acc \in Groups, NEW u \in Stretch
  PROVE  GroupStatement(acc, u) \in Groups
<1>1. /\ acc.out \in Seq(Chunk) /\ acc.open \in Seq(Chunk) /\ acc.kind \in FuncKind
      /\ acc = [out |-> acc.out, open |-> acc.open, kind |-> acc.kind]
  BY DEF Groups
<1>2. u.first \in Nat /\ u.last \in Nat /\ u.first <= u.last
  BY DEF Stretch, Whole
<1>3. CASE ~ Fits(u.first, u.last)
  <2>1. LineSplit(u.first, u.last, acc.kind) \in Seq(Chunk)
    BY <1>1, <1>2, LineSplitFacts DEF Proper, FuncKind
  <2>2. acc.out \o acc.open \o LineSplit(u.first, u.last, acc.kind) \in Seq(Chunk)
    BY <1>1, <2>1
  <2>3. GroupStatement(acc, u) = [out |-> acc.out \o acc.open \o LineSplit(u.first, u.last, acc.kind),
                                  open |-> <<>>, kind |-> acc.kind]
    BY <1>3 DEF GroupStatement
  <2> QED
    BY <1>1, <2>2, <2>3 DEF Groups
<1>4. CASE Fits(u.first, u.last) /\ acc.open # <<>> /\ Fits(acc.open[1].start, u.last)
  <2>1. acc.open[1] \in Chunk
    BY <1>1, <1>4
  <2>2. EmitBytes(acc.open[1].start, u.last, acc.kind) \in Chunk
    BY <1>1, <1>2, <2>1 DEF EmitBytes, Chunk, FuncKind
  <2>3. GroupStatement(acc, u)
          = [acc EXCEPT !.open = <<EmitBytes(acc.open[1].start, u.last, acc.kind)>>]
    BY <1>4 DEF GroupStatement
  <2> HIDE DEF GroupStatement
  <2>4. GroupStatement(acc, u)
          = [out |-> acc.out, open |-> <<EmitBytes(acc.open[1].start, u.last, acc.kind)>>,
             kind |-> acc.kind]
    BY <2>3 DEF Groups
  <2> QED
    BY <1>1, <2>2, <2>4 DEF Groups
<1>5. CASE Fits(u.first, u.last) /\ ~ (acc.open # <<>> /\ Fits(acc.open[1].start, u.last))
  <2>1. EmitBytes(u.first, u.last, acc.kind) \in Chunk
    BY <1>1, <1>2 DEF EmitBytes, Chunk, FuncKind
  <2>2. GroupStatement(acc, u) = [out |-> acc.out \o acc.open,
                                  open |-> <<EmitBytes(u.first, u.last, acc.kind)>>, kind |-> acc.kind]
    BY <1>5 DEF GroupStatement
  <2> QED
    BY <1>1, <2>1, <2>2 DEF Groups
<1> QED
  BY <1>3, <1>4, <1>5

(* The group may be closed at any time.                                    *)
LEMMA GroupCloses ==
  ASSUME NEW acc, NEW a \in Nat, NEW e \in Int, NEW L, NEW kind \in FuncKind, Grouped(acc, a, e, L, kind),
         a >= 1
  PROVE  Proper(acc.out \o acc.open, a, e) /\ \A i \in L : HasLine(acc.out \o acc.open, i)
<1>1. acc.out \in Seq(Chunk)
  BY DEF Grouped, Groups
<1>2. CASE acc.open = <<>>
  <2>1. acc.out \o acc.open = acc.out
    BY <1>1, <1>2
  <2>2. Proper(acc.out, a, e) /\ \A i \in L : HasLine(acc.out, i)
    BY <1>2 DEF Grouped
  <2> QED
    BY <2>1, <2>2
<1>3. CASE acc.open # <<>>
  <2>1. PICK x \in Nat, y \in Nat :
          /\ acc.open = <<EmitBytes(x, y, kind)>>
          /\ a <= x /\ x <= y /\ y <= e /\ Fits(x, y)
          /\ Proper(acc.out, a, x - 1)
          /\ \A i \in L : HasLine(acc.out, i) \/ i \in x .. y
    BY <1>3 DEF Grouped
  <2> DEFINE c == EmitBytes(x, y, kind)
  <2>2. Sound(c, x, y) /\ Verbatim(c) /\ c.start = x /\ c.last = y
    BY <2>1, EmitBytesSound DEF FuncKind
  <2> HIDE DEF c
  <2>3. Proper(<<c>>, x, y) /\ \A i \in x .. y : HasLine(<<c>>, i)
    BY <2>2, OneChunk
  <2>4. Proper(<<c>>, x, e)
    BY <2>1, <2>3, MoreLines
  <2>5. /\ Proper(acc.out \o <<c>>, a, e)
        /\ \A i : HasLine(acc.out, i) \/ HasLine(<<c>>, i) => HasLine(acc.out \o <<c>>, i)
    <3>1. x - 1 \in Nat /\ a \in Nat /\ e \in Nat /\ a <= x /\ x - 1 < x /\ x - 1 <= e
      BY <2>1
    <3> QED
      BY <2>1, <2>4, <3>1, ProperConcat
  <2> QED
    BY <2>1, <2>3, <2>5 DEF c
<1> QED
  BY <1>2, <1>3

LEMMA GroupKeeps ==
  ASSUME NEW acc, NEW a \in Nat, NEW e \in Nat, NEW L, NEW kind \in FuncKind, NEW u \in Stretch,
         Grouped(acc, a, e, L, kind), a >= 1, e < u.first, a <= u.first
  PROVE  Grouped(GroupStatement(acc, u), a, u.last, L \union (u.first .. u.last), kind)
<1> DEFINE next_acc == GroupStatement(acc, u)
           M == L \union (u.first .. u.last)
<1>0. u.first \in Nat /\ u.last \in Nat /\ u.first <= u.last
  BY DEF Stretch, Whole
<1>1. acc \in Groups /\ acc.kind = kind /\ next_acc \in Groups
  BY GroupType DEF Grouped
<1>2. Proper(acc.out \o acc.open, a, e) /\ \A i \in L : HasLine(acc.out \o acc.open, i)
  BY GroupCloses
<1>3. CASE ~ Fits(u.first, u.last)
  <2> DEFINE split == LineSplit(u.first, u.last, kind)
  <2>1. next_acc = [out |-> acc.out \o acc.open \o split, open |-> <<>>, kind |-> kind]
    BY <1>1, <1>3 DEF GroupStatement
  <2>2. Proper(split, u.first, u.last) /\ \A i \in u.first .. u.last : HasLine(split, i)
    BY <1>0, LineSplitFacts DEF FuncKind
  <2> HIDE DEF split
  <2>3. /\ Proper(acc.out \o acc.open \o split, a, u.last)
        /\ \A i : HasLine(acc.out \o acc.open, i) \/ HasLine(split, i)
                    => HasLine(acc.out \o acc.open \o split, i)
    BY <1>0, <1>2, <2>2, ProperConcat
  <2>4. \A i \in M : HasLine(acc.out \o acc.open \o split, i)
    BY <1>2, <2>2, <2>3
  <2> QED
    BY <1>1, <2>1, <2>3, <2>4 DEF Grouped
<1>4. CASE Fits(u.first, u.last) /\ acc.open # <<>> /\ Fits(acc.open[1].start, u.last)
  <2>1. PICK x \in Nat, y \in Nat :
          /\ acc.open = <<EmitBytes(x, y, kind)>>
          /\ a <= x /\ x <= y /\ y <= e /\ Fits(x, y)
          /\ Proper(acc.out, a, x - 1)
          /\ \A i \in L : HasLine(acc.out, i) \/ i \in x .. y
    BY <1>4 DEF Grouped
  <2>2. acc.open[1].start = x
    BY <2>1 DEF EmitBytes
  <2>3. next_acc = [acc EXCEPT !.open = <<EmitBytes(x, u.last, kind)>>] /\ Fits(x, u.last)
    BY <1>1, <1>4, <2>2 DEF GroupStatement
  <2>4. next_acc.open = <<EmitBytes(x, u.last, kind)>> /\ next_acc.out = acc.out /\ next_acc.kind = kind
    BY <1>1, <2>3 DEF Groups
  <2>5. \A i \in M : HasLine(acc.out, i) \/ i \in x .. u.last
    BY <1>0, <2>1
  <2>6. x <= u.last
    BY <1>0, <2>1
  <2> HIDE DEF next_acc
  <2> QED
    BY <1>0, <1>1, <2>1, <2>3, <2>4, <2>5, <2>6 DEF Grouped, next_acc
<1>5. CASE Fits(u.first, u.last) /\ ~ (acc.open # <<>> /\ Fits(acc.open[1].start, u.last))
  <2> DEFINE out == acc.out \o acc.open
  <2>1. next_acc = [out |-> out, open |-> <<EmitBytes(u.first, u.last, kind)>>, kind |-> kind]
    BY <1>1, <1>5 DEF GroupStatement
  <2>2. Proper(out, a, e) /\ \A i \in L : HasLine(out, i)
    BY <1>2
  <2> HIDE DEF out
  <2>3. Proper(out, a, u.first - 1)
    BY <1>0, <2>2, MoreLines
  <2>4. \A i \in M : HasLine(out, i) \/ i \in u.first .. u.last
    BY <2>2
  <2>5. /\ next_acc.open = <<EmitBytes(u.first, u.last, kind)>> /\ next_acc.out = out
        /\ next_acc.kind = kind
    BY <2>1
  <2> HIDE DEF next_acc
  <2> QED
    BY <1>0, <1>1, <1>5, <2>3, <2>4, <2>5 DEF Grouped, next_acc
<1> QED
  BY <1>3, <1>4, <1>5

LEMMA GroupSteps ==
  ASSUME NEW us \in Seq(Stretch), NEW base \in Groups
  PROVE  \E p : /\ p[0] = base /\ p[Len(us)] = FoldLeft(GroupStatement, base, us)
                /\ \A k \in 1 .. Len(us) : p[k] = GroupStatement(p[k - 1], us[k])
<1> DEFINE n == Len(us)
           f == [xr \in Stretch \X Groups |-> GroupStatement(xr[2], xr[1])]
           Eq(h, S) == h[S] = IF S = {} THEN base ELSE GroupStatement(h[S \ {Max(S)}], us[Max(S)])
<1>1. n \in Nat /\ DOMAIN us = 1 .. n /\ \A k \in 1 .. n : us[k] \in Stretch
  OBVIOUS
<1>2. PICK h \in [SUBSET DOMAIN us -> Groups] : FoldsLeft(h, us, f, base)
  <2>1. StepsIn(f, Stretch, Groups)
    BY GroupType DEF StepsIn
  <2> HIDE DEF f
  <2> QED
    BY <2>1, FoldLeftExists
<1>3. ASSUME NEW S \in SUBSET DOMAIN us
      PROVE  Eq(h, S)
  <2>1. h[S] = IF S = {} THEN base ELSE f[<<us[Max(S)], h[S \ {Max(S)}]>>]
    BY <1>2, Zenon DEF FoldsLeft
  <2>2. CASE S = {}
    BY <2>1, <2>2
  <2>3. CASE S # {}
    <3>1. Max(S) \in S
      BY <1>1, <2>3, MaxIsMember
    <3>2. us[Max(S)] \in Stretch /\ h[S \ {Max(S)}] \in Groups
      BY <1>1, <3>1
    <3> QED
      BY <2>1, <2>3, <3>2
  <2> QED
    BY <2>2, <2>3
<1> DEFINE iter == CHOOSE h_1 : h_1 = [S \in SUBSET DOMAIN us |->
                     IF S = {} THEN base ELSE GroupStatement(h_1[S \ {Max(S)}], us[Max(S)])]
<1>4. FoldLeft(GroupStatement, base, us) = iter[DOMAIN us]
  BY Zenon DEF FoldLeft, MapThenFoldSet
<1>5. h = [S \in SUBSET DOMAIN us |-> IF S = {} THEN base
                                       ELSE GroupStatement(h[S \ {Max(S)}], us[Max(S)])]
  BY <1>3
<1>6. iter = [S \in SUBSET DOMAIN us |-> IF S = {} THEN base
                                          ELSE GroupStatement(iter[S \ {Max(S)}], us[Max(S)])]
  BY <1>5, Zenon
<1> HIDE DEF iter
<1>7. ASSUME NEW k \in 1 .. n
      PROVE  iter[1 .. k] = GroupStatement(iter[1 .. k - 1], us[k])
  <2>1. k \in Nat /\ k # 0 /\ k \in 1 .. k /\ 1 .. k \subseteq 1 .. n
    BY <1>1
  <2>2. 1 .. k \in SUBSET DOMAIN us /\ 1 .. k # {}
    BY <1>1, <2>1
  <2>3. Max(1 .. k) = k /\ (1 .. k) \ {k} = 1 .. k - 1
    BY <2>1, Prefix
  <2>4. iter[1 .. k] = GroupStatement(iter[(1 .. k) \ {Max(1 .. k)}], us[Max(1 .. k)])
    BY <1>6, <2>2, Zenon
  <2> QED
    BY <2>2, <2>3, <2>4
<1>8. iter[1 .. 0] = base
  BY <1>6
<1> DEFINE p == [k \in 0 .. n |-> iter[1 .. k]]
<1>9. /\ p[0] = base /\ p[n] = FoldLeft(GroupStatement, base, us)
      /\ \A k \in 1 .. n : p[k] = GroupStatement(p[k - 1], us[k])
  <2>1. \A k \in 0 .. n : p[k] = iter[1 .. k]
    OBVIOUS
  <2>2. 0 \in 0 .. n /\ n \in 0 .. n /\ \A k \in 1 .. n : k \in 0 .. n /\ k - 1 \in 0 .. n
    BY <1>1
  <2> HIDE DEF p
  <2> QED
    BY <1>1, <1>4, <1>7, <1>8, <2>1, <2>2
<1> QED
  BY <1>9, Zenon

(* Statements that follow each other on lines a .. b.                      *)
Spaced(us, a, b) ==
  /\ us \in Seq(Stretch)
  /\ \A j \in DOMAIN us : a <= us[j].first /\ us[j].last <= b
  /\ \A j, k \in DOMAIN us : j < k => us[j].last < us[k].first

LEMMA SplitBlockFacts ==
  ASSUME NEW a \in Nat, NEW b \in Nat, NEW us, NEW kind \in FuncKind, 1 <= a, a <= b, Spaced(us, a, b)
  PROVE  /\ Proper(SplitBlock(us, kind), a, b)
         /\ \A j \in DOMAIN us : \A i \in us[j].first .. us[j].last : HasLine(SplitBlock(us, kind), i)
<1> DEFINE base == [out |-> <<>>, open |-> <<>>, kind |-> kind]
           n == Len(us)
           L(k) == UNION {us[j].first .. us[j].last : j \in 1 .. k}
           End(k) == IF k = 0 THEN a - 1 ELSE us[k].last
<1>1. us \in Seq(Stretch) /\ n \in Nat /\ DOMAIN us = 1 .. n
  BY DEF Spaced
<1>2. base \in Groups
  BY DEF Groups
<1>3. PICK p : /\ p[0] = base /\ p[n] = FoldLeft(GroupStatement, base, us)
               /\ \A k \in 1 .. n : p[k] = GroupStatement(p[k - 1], us[k])
  BY <1>1, <1>2, GroupSteps
<1>4. ASSUME NEW k \in 1 .. n
      PROVE  /\ us[k] \in Stretch /\ us[k].first \in Nat /\ us[k].last \in Nat
             /\ a <= us[k].first /\ us[k].first <= us[k].last /\ us[k].last <= b
  BY <1>1 DEF Spaced, Stretch, Whole
<1> DEFINE N == {k \in Nat : k <= n => Grouped(p[k], a, End(k), L(k), kind)}
<1>5. 0 \in N
  <2>1. L(0) = {} /\ End(0) = a - 1
    OBVIOUS
  <2>2. Proper(<<>>, a, a - 1)
    BY NoChunks
  <2>3. Grouped(base, a, a - 1, {}, kind)
    BY <1>2, <2>2 DEF Grouped
  <2> QED
    BY <1>3, <2>1, <2>3
<1>6. ASSUME NEW k \in Nat, k \in N
      PROVE  k + 1 \in N
  <2> SUFFICES ASSUME k + 1 <= n
               PROVE  Grouped(p[k + 1], a, End(k + 1), L(k + 1), kind)
    OBVIOUS
  <2> DEFINE u == us[k + 1]
  <2>1. k + 1 \in 1 .. n /\ (k + 1) - 1 = k /\ k <= n /\ k + 1 # 0
    BY <1>1
  <2>2. Grouped(p[k], a, End(k), L(k), kind)
    BY <1>6, <2>1
  <2>3. p[k + 1] = GroupStatement(p[k], u)
    BY <1>3, <2>1
  <2>4. u \in Stretch /\ a <= u.first /\ u.first \in Nat
    BY <1>4, <2>1
  <2>5. End(k) \in Nat /\ End(k) < u.first
    <3>1. CASE k = 0
      BY <2>4, <3>1
    <3>2. CASE k # 0
      <4>1. k \in 1 .. n /\ k < k + 1
        BY <2>1, <3>2
      <4>2. us[k].last < u.first /\ us[k].last \in Nat
        BY <1>1, <1>4, <2>1, <4>1 DEF Spaced
      <4> QED
        BY <3>2, <4>2
    <3> QED
      BY <3>1, <3>2
  <2>6. L(k + 1) = L(k) \union (u.first .. u.last)
    <3>1. \A j : j \in 1 .. k + 1 <=> j \in 1 .. k \/ j = k + 1
      OBVIOUS
    <3> HIDE DEF u
    <3> QED
      BY <3>1 DEF u
  <2>7. End(k + 1) = u.last
    BY <2>1
  <2> HIDE DEF u, End, L
  <2>8. Grouped(GroupStatement(p[k], u), a, u.last, L(k) \union (u.first .. u.last), kind)
    BY <2>2, <2>4, <2>5, GroupKeeps
  <2> QED
    BY <2>3, <2>6, <2>7, <2>8
<1>7. Grouped(p[n], a, End(n), L(n), kind)
  <2> HIDE DEF N
  <2>1. n \in N /\ n <= n
    BY <1>1, <1>5, <1>6, NatSet
  <2> QED
    BY <2>1 DEF N
<1>8. End(n) \in Int /\ End(n) <= b
  <2>1. CASE n = 0
    BY <2>1
  <2>2. CASE n # 0
    BY <1>1, <1>4, <2>2
  <2> QED
    BY <2>1, <2>2
<1> HIDE DEF End, L
<1>9. /\ SplitBlock(us, kind) = p[n].out \o p[n].open
      /\ Proper(SplitBlock(us, kind), a, End(n))
      /\ \A i \in L(n) : HasLine(SplitBlock(us, kind), i)
  <2>1. SplitBlock(us, kind) = p[n].out \o p[n].open
    BY <1>3 DEF SplitBlock
  <2>2. /\ Proper(p[n].out \o p[n].open, a, End(n))
        /\ \A i \in L(n) : HasLine(p[n].out \o p[n].open, i)
    BY <1>7, <1>8, GroupCloses
  <2> QED
    BY <2>1, <2>2
<1>10. Proper(SplitBlock(us, kind), a, b)
  <2>1. ASSUME NEW c, Sound(c, a, End(n))
        PROVE  Sound(c, a, b)
    BY <1>8, <2>1, ChunkType DEF Sound
  <2> QED
    BY <1>9, <2>1 DEF Proper
<1>11. ASSUME NEW j \in DOMAIN us, NEW i \in us[j].first .. us[j].last
       PROVE  i \in L(n)
  BY <1>1 DEF L
<1> QED
  BY <1>9, <1>10, <1>11

LEMMA BlockSpaced ==
  ASSUME file \in Files, NEW a, NEW b, Block(a, b)
  PROVE  Spaced(Units(a, b), a, b)
<1> DEFINE us == Units(a, b)
<1>1. /\ Len(file) \in Nat /\ a \in 1 .. Len(file) /\ b \in a .. Len(file)
      /\ us \in Seq(Whole)
      /\ \A j \in DOMAIN us : us[j].first \in a .. b /\ us[j].last <= b /\ us[j] = Unit(us[j].first)
      /\ \A j, k \in DOMAIN us : j < k => us[j].last < us[k].first
  BY FileFacts, BlockUnits
<1> HIDE DEF us
<1>2. ASSUME NEW j \in DOMAIN us
      PROVE  us[j] \in Stretch /\ a <= us[j].first
  <2>1. us[j].first \in 1 .. Len(file) /\ us[j].first \in Nat /\ a <= us[j].first /\ us[j] \in Whole
    BY <1>1
  <2>2. /\ Unit(us[j].first).def \in us[j].first .. Len(file)
        /\ Unit(us[j].first).last \in Unit(us[j].first).def .. Len(file)
    BY <2>1, UnitFacts
  <2>3. us[j].last = Unit(us[j].first).last
    BY <1>1
  <2>4. us[j].first <= us[j].last
    BY <1>1, <2>1, <2>2, <2>3
  <2> QED
    BY <2>1, <2>4 DEF Stretch
<1>3. us \in Seq(Stretch)
  BY <1>1, <1>2
<1> QED
  BY <1>1, <1>2, <1>3 DEF Spaced, us

(* A function's chunks have each of its lines.                             *)
LEMMA EmitFuncFacts ==
  ASSUME file \in Files, NEW i \in 1 .. Len(file), What(Unit(i)) = "def", NEW kind \in FuncKind
  PROVE  /\ Proper(EmitFunc(Unit(i), kind), i, Unit(i).last)
         /\ \A x \in i .. Unit(i).last : HasLine(EmitFunc(Unit(i), kind), x)
<1> DEFINE u == Unit(i)
           cs == EmitFunc(u, kind)
<1>1. /\ Len(file) \in Nat /\ i \in Nat /\ u.first = i /\ u.def \in Nat /\ u.last \in Nat
      /\ i <= u.def /\ u.def <= u.last /\ 1 <= i
  BY FileFacts, UnitFacts
<1> HIDE DEF u
<1>2. CASE Fits(u.first, u.last)
  <2> DEFINE c == EmitBytes(u.first, u.last, kind)
  <2>1. cs = <<c>>
    BY <1>2 DEF EmitFunc
  <2>2. Sound(c, i, u.last) /\ Verbatim(c) /\ c.start = i /\ c.last = u.last
    BY <1>1, <1>2, EmitBytesSound DEF FuncKind
  <2> HIDE DEF c
  <2>3. Proper(cs, i, u.last) /\ \A x \in i .. u.last : HasLine(cs, x)
    BY <2>1, <2>2, OneChunk
  <2> QED
    BY <2>3 DEF u
<1>3. CASE ~ Fits(u.first, u.last)
  <2> DEFINE c == [EmitBytes(u.first, u.def, kind) EXCEPT !.end = u.def + 1]
             rest == SplitBlock(Members(u), kind)
  <2>1. cs = <<c>> \o rest
    BY <1>3 DEF EmitFunc, SplitFunc
  <2>2. /\ c \in Chunk /\ Verbatim(c) /\ c.start = i /\ c.last = u.def /\ c.end = u.def + 1
    <3>1. c = [kind |-> kind, start |-> u.first, last |-> u.def, end |-> u.def + 1, header |-> <<>>]
      BY DEF EmitBytes
    <3> HIDE DEF c
    <3> QED
      BY <1>1, <3>1 DEF Chunk, Verbatim, FuncKind
  <2>3. Sound(c, i, u.def)
    BY <1>1, <2>2 DEF Sound, Small
  <2> HIDE DEF c
  <2>4. Proper(<<c>>, i, u.def) /\ \A x \in i .. u.def : HasLine(<<c>>, x)
    BY <2>2, <2>3, OneChunk
  <2>5. Block(u.def + 1, u.last)
    BY BodyIsBlock DEF u
  <2>6. u.def + 1 <= u.last /\ u.def + 1 \in Nat
    BY <1>1, <2>5 DEF Block
  <2>7. /\ Proper(rest, u.def + 1, u.last)
        /\ \A j \in DOMAIN Members(u) : \A x \in Members(u)[j].first .. Members(u)[j].last :
             HasLine(rest, x)
    BY <1>1, <2>5, <2>6, BlockSpaced, SplitBlockFacts DEF Members
  <2>8. ASSUME NEW x \in u.def + 1 .. u.last
        PROVE  HasLine(rest, x)
    <3>1. PICK j \in DOMAIN Members(u) : x \in Members(u)[j].first .. Members(u)[j].last
      BY <2>5, BlockUnits DEF Members
    <3> QED
      BY <2>7, <3>1
  <2> HIDE DEF rest
  <2>9. /\ Proper(<<c>> \o rest, i, u.last)
        /\ \A x : HasLine(<<c>>, x) \/ HasLine(rest, x) => HasLine(<<c>> \o rest, x)
    BY <1>1, <2>4, <2>6, <2>7, ProperConcat
  <2>10. ASSUME NEW x \in i .. u.last
         PROVE  HasLine(cs, x)
    <3>1. x \in i .. u.def \/ x \in u.def + 1 .. u.last
      BY <1>1
    <3> QED
      BY <2>1, <2>4, <2>8, <2>9, <3>1
  <2> QED
    BY <2>1, <2>9, <2>10 DEF u
<1> QED
  BY <1>2, <1>3

-----------------------------------------------------------------------------
(* FlattenSeq appends one sequence after the other.                        *)

LEMMA FlattenSteps ==
  ASSUME NEW T, NEW ss \in Seq(Seq(T))
  PROVE  \E p : /\ p[0] = <<>> /\ p[Len(ss)] = FlattenSeq(ss)
                /\ \A k \in 0 .. Len(ss) : p[k] \in Seq(T)
                /\ \A k \in 1 .. Len(ss) : p[k] = p[k - 1] \o ss[k]
<1> DEFINE n == Len(ss)
           R == Seq(T)
           f == [xr \in R \X R |-> xr[2] \o xr[1]]
           Eq(g) == g = [i \in 1 .. n |-> IF i = 1 THEN ss[i] ELSE g[i - 1] \o ss[i]]
<1>1. n \in Nat /\ DOMAIN ss = 1 .. n /\ \A k \in 1 .. n : ss[k] \in R
  OBVIOUS
<1>2. PICK h \in [SUBSET DOMAIN ss -> R] : FoldsLeft(h, ss, f, <<>>)
  <2>1. StepsIn(f, R, R)
    BY DEF StepsIn
  <2>2. <<>> \in R
    OBVIOUS
  <2> HIDE DEF f, R
  <2>3. ss \in Seq(R)
    BY DEF R
  <2> QED
    BY <2>1, <2>2, <2>3, FoldLeftExists
<1>3. ASSUME NEW k \in 1 .. n
      PROVE  h[1 .. k] = h[1 .. k - 1] \o ss[k] /\ h[1 .. k] \in R /\ h[1 .. k - 1] \in R
  <2>1. k \in Nat /\ k # 0 /\ k \in 1 .. k /\ 1 .. k \subseteq 1 .. n /\ 1 .. k - 1 \subseteq 1 .. n
    BY <1>1
  <2>2. 1 .. k \in SUBSET DOMAIN ss /\ 1 .. k # {} /\ 1 .. k - 1 \in SUBSET DOMAIN ss
    BY <1>1, <2>1
  <2>3. Max(1 .. k) = k /\ (1 .. k) \ {k} = 1 .. k - 1
    BY <2>1, Prefix
  <2>4. h[1 .. k] = f[<<ss[Max(1 .. k)], h[(1 .. k) \ {Max(1 .. k)}]>>]
    BY <1>2, <2>2, Zenon DEF FoldsLeft
  <2>5. h[1 .. k] = f[<<ss[k], h[1 .. k - 1]>>]
    BY <2>3, <2>4
  <2>6. ss[k] \in R /\ h[1 .. k - 1] \in R /\ h[1 .. k] \in R
    BY <1>1, <2>2
  <2> QED
    BY <2>5, <2>6
<1>4. h[1 .. 0] = <<>>
  <2>1. {} \in SUBSET DOMAIN ss /\ 1 .. 0 = {}
    OBVIOUS
  <2>2. h[{}] = <<>>
    BY <1>2, <2>1 DEF FoldsLeft
  <2> QED
    BY <2>1, <2>2
<1> DEFINE p == [k \in 0 .. n |-> h[1 .. k]]
<1>5. /\ p[0] = <<>>
      /\ \A k \in 1 .. n : p[k] = p[k - 1] \o ss[k] /\ p[k] \in R
  <2>1. \A k \in 0 .. n : p[k] = h[1 .. k]
    OBVIOUS
  <2>2. 0 \in 0 .. n /\ \A k \in 1 .. n : k \in 0 .. n /\ k - 1 \in 0 .. n
    BY <1>1
  <2> HIDE DEF p, R
  <2> QED
    BY <1>3, <1>4, <2>1, <2>2
<1>6. \A k \in 0 .. n : k = 0 \/ k \in 1 .. n
  BY <1>1
<1> HIDE DEF p
<1>7. p[n] = FlattenSeq(ss)
  <2>1. CASE n = 0
    <3>1. ss = <<>>
      BY <2>1
    <3> QED
      BY <1>5, <2>1, <3>1 DEF FlattenSeq
  <2>2. CASE n # 0
    <3> DEFINE g == CHOOSE g_1 : Eq(g_1)
               q == [i \in 1 .. n |-> p[i]]
    <3>0. p[1] = p[0] \o ss[1] /\ 1 \in 1 .. n
      <4>1. 1 \in 1 .. n /\ 1 - 1 = 0
        BY <1>1, <2>2
      <4>2. p[1] = p[1 - 1] \o ss[1]
        BY <1>5, <4>1
      <4> QED
        BY <4>1, <4>2
    <3>1. ASSUME NEW i \in 1 .. n
          PROVE  p[i] = IF i = 1 THEN ss[i] ELSE q[i - 1] \o ss[i]
      <4>1. CASE i = 1
        <5>1. p[1] = p[0] \o ss[1] /\ ss[1] \in Seq(T)
          BY <1>1, <3>0
        <5> QED
          BY <1>5, <4>1, <5>1
      <4>2. CASE i # 1
        <5>1. i - 1 \in 1 .. n
          BY <4>2
        <5> QED
          BY <1>5, <4>2, <5>1
      <4> QED
        BY <4>1, <4>2
    <3>2. Eq(q)
      BY <3>1
    <3> HIDE DEF q
    <3>3. Eq(g)
      BY <3>2, Zenon
    <3>4. FlattenSeq(ss) = g[n]
      BY <2>2, Zenon DEF FlattenSeq
    <3> HIDE DEF g
    <3>5. \A i \in 1 .. n : g[i] = IF i = 1 THEN ss[i] ELSE g[i - 1] \o ss[i]
      BY <3>3
    <3> DEFINE N == {k \in Nat : k + 1 <= n => g[k + 1] = p[k + 1]}
    <3>6. 0 \in N
      <4>1. 1 \in 1 .. n /\ ss[1] \in Seq(T)
        BY <1>1, <2>2
      <4>2. p[1] = p[0] \o ss[1]
        BY <3>0
      <4>3. g[1] = ss[1] /\ p[1] = ss[1]
        BY <1>5, <3>5, <4>1, <4>2
      <4> QED
        BY <4>3
    <3>7. ASSUME NEW k \in Nat, k \in N
          PROVE  k + 1 \in N
      <4> SUFFICES ASSUME (k + 1) + 1 <= n
                   PROVE  g[(k + 1) + 1] = p[(k + 1) + 1]
        OBVIOUS
      <4>1. (k + 1) + 1 \in 1 .. n /\ (k + 1) + 1 # 1 /\ ((k + 1) + 1) - 1 = k + 1 /\ k + 1 <= n
        BY <1>1
      <4>2. g[k + 1] = p[k + 1]
        BY <3>7, <4>1
      <4> DEFINE m == (k + 1) + 1
      <4>3. m \in 1 .. n /\ m # 1 /\ m - 1 = k + 1
        BY <4>1
      <4> HIDE DEF m
      <4>4. g[m] = g[m - 1] \o ss[m] /\ p[m] = p[m - 1] \o ss[m]
        BY <1>5, <3>5, <4>3
      <4>5. g[m] = p[m]
        BY <4>2, <4>3, <4>4
      <4> QED
        BY <4>5 DEF m
    <3>8. n - 1 \in N
      <4> HIDE DEF N
      <4>1. n - 1 \in Nat
        BY <1>1, <2>2
      <4> QED
        BY <3>6, <3>7, <4>1, NatSet
    <3>9. (n - 1) + 1 = n /\ n <= n
      BY <1>1
    <3>10. g[n] = p[n]
      BY <3>8, <3>9
    <3> QED
      BY <3>4, <3>10
  <2> QED
    BY <2>1, <2>2
<1>8. \A k \in 0 .. n : p[k] \in R
  <2>1. <<>> \in R
    OBVIOUS
  <2> HIDE DEF R
  <2> QED
    BY <1>5, <1>6, <2>1
<1> QED
  BY <1>5, <1>7, <1>8, Zenon

-----------------------------------------------------------------------------
(* Class headers: never empty, and over the budget only by one line.       *)

LEMMA EachLineFacts ==
  ASSUME NEW a \in 1 .. Len(file), NEW b \in 1 .. Len(file), a <= b, Len(file) \in Nat
  PROVE  /\ EachLine(a, b) \in Seq(Row) /\ Len(EachLine(a, b)) = b - a + 1
         /\ EachLine(a, b)[1] = <<a, a>>
<1>1. b - a + 1 \in Nat \ {0}
  OBVIOUS
<1>2. \A k \in 1 .. b - a + 1 : a + k - 1 \in 1 .. Len(file)
  OBVIOUS
<1>3. \A k \in 1 .. b - a + 1 : <<a + k - 1, a + k - 1>> \in Row
  BY <1>2 DEF Row
<1> DEFINE n == b - a + 1
           w(k) == <<a + k - 1, a + k - 1>>
<1>4. EachLine(a, b) = [k \in 1 .. n |-> w(k)] /\ w(1) = <<a, a>>
  BY DEF EachLine
<1> HIDE DEF n, w
<1>5. n \in Nat \ {0} /\ \A k \in 1 .. n : w(k) \in Row
  BY <1>1, <1>3 DEF n, w
<1>6. [k \in 1 .. n |-> w(k)] \in Seq(Row) /\ Len([k \in 1 .. n |-> w(k)]) = n
  BY <1>5
<1>7. 1 \in 1 .. n
  BY <1>5
<1> QED
  BY <1>4, <1>6, <1>7 DEF n

LEMMA MemberLinesType ==
  ASSUME file \in Files, NEW i \in 1 .. Len(file)
  PROVE  MemberLines(Unit(i)) \in Seq(Row)
<1> DEFINE u == Unit(i)
<1>1. /\ u.first \in 1 .. Len(file) /\ u.def \in 1 .. Len(file) /\ u.last \in 1 .. Len(file)
      /\ u.first <= u.def /\ u.first <= u.last /\ Len(file) \in Nat
  BY FileFacts, UnitFacts
<1> HIDE DEF u
<1>2. EachLine(u.first, u.def) \in Seq(Row) /\ EachLine(u.first, u.last) \in Seq(Row)
  BY <1>1, EachLineFacts
<1>3. <<<<u.first, u.last>>>> \in Seq(Row)
  BY <1>1 DEF Row
<1>4. <<>> \in Seq(Row)
  OBVIOUS
<1>5. MemberLines(u) \in Seq(Row)
  BY <1>2, <1>3, <1>4 DEF MemberLines
<1> QED
  BY <1>5 DEF u

LEMMA Capped ==
  ASSUME NEW ls \in Seq(Row), ls # <<>>
  PROVE  LET cs == CapToBudget(ls)
         IN  /\ cs \in Seq(Row) /\ cs # <<>> /\ cs[1] = ls[1]
             /\ Len(cs) = 1 \/ HeaderSize(cs) <= MaxTokens
<1> DEFINE Fit(n) == HeaderSize(SubSeq(ls, 1, n)) <= MaxTokens
           S == {n \in DOMAIN ls : Fit(n)} \union {1}
           m == Max(S)
<1>1. Len(ls) \in Nat /\ DOMAIN ls = 1 .. Len(ls) /\ Len(ls) >= 1
  OBVIOUS
<1>2. CapToBudget(ls) = SubSeq(ls, 1, m)
  BY Zenon DEF CapToBudget
<1> HIDE DEF Fit
<1>3. S \subseteq Nat /\ S # {} /\ \A x \in S : x <= Len(ls)
  BY <1>1
<1> HIDE DEF S
<1>4. m \in S
  BY <1>1, <1>3, MaxIsMember
<1>5. m \in 1 .. Len(ls) /\ (m = 1 \/ Fit(m))
  BY <1>1, <1>4 DEF S
<1> HIDE DEF m
<1>6. SubSeq(ls, 1, m) \in Seq(Row) /\ Len(SubSeq(ls, 1, m)) = m /\ SubSeq(ls, 1, m)[1] = ls[1]
  BY <1>1, <1>5
<1>7. SubSeq(ls, 1, m) # <<>>
  BY <1>5, <1>6
<1> QED
  BY <1>2, <1>5, <1>6, <1>7, Zenon DEF Fit

LEMMA ClassHeaderFacts ==
  ASSUME file \in Files, NEW i \in 1 .. Len(file), What(Unit(i)) = "class"
  PROVE  LET c == ClassHeader(Unit(i))
         IN  /\ Sound(c, i, Unit(i).last) /\ ~ Verbatim(c)
             /\ c.start = i /\ c.end = Unit(i).last /\ c.header[1][1] = i
<1> DEFINE u == Unit(i)
           ms == Members(u)
           own == EachLine(u.first, u.def)
           added == [k \in DOMAIN ms |-> MemberLines(ms[k])]
           rest == FlattenSeq(added)
           h == CapToBudget(own \o rest)
           c == ClassHeader(u)
<1>1. /\ u.first = i /\ i \in Nat /\ u.def \in Nat /\ u.last \in Nat
      /\ i <= u.def /\ u.def <= u.last /\ 1 <= i
  BY FileFacts, UnitFacts
<1>2. Block(u.def + 1, u.last)
  BY BodyIsBlock
<1>3. /\ ms \in Seq(Whole)
      /\ \A j \in DOMAIN ms : ms[j].first \in u.def + 1 .. u.last /\ ms[j] = Unit(ms[j].first)
      /\ u.last \in u.def + 1 .. Len(file)
  <2>1. ms = Units(u.def + 1, u.last)
    BY DEF Members
  <2> HIDE DEF ms, u
  <2> QED
    BY <1>2, <2>1, BlockUnits
<1>4. ASSUME NEW j \in DOMAIN ms
      PROVE  MemberLines(ms[j]) \in Seq(Row)
  <2>1. ms[j].first \in 1 .. Len(file) /\ ms[j] = Unit(ms[j].first)
    BY <1>1, <1>3, FileFacts
  <2> HIDE DEF ms
  <2>2. MemberLines(Unit(ms[j].first)) \in Seq(Row)
    BY <2>1, MemberLinesType
  <2> QED
    BY <2>1, <2>2
<1>5. own \in Seq(Row) /\ own # <<>> /\ own[1] = <<i, i>>
  <2>1. own = EachLine(i, u.def) /\ i <= u.def
    BY <1>1
  <2>r. u.def \in 1 .. Len(file) /\ Len(file) \in Nat
    BY FileFacts, UnitFacts
  <2> HIDE DEF own, u
  <2>2. own \in Seq(Row) /\ Len(own) = u.def - i + 1 /\ own[1] = <<i, i>>
    BY <2>1, <2>r, EachLineFacts
  <2>3. u.def - i + 1 # 0
    BY <1>1
  <2> QED
    BY <2>2, <2>3
<1>c. c = [kind |-> "class_header", start |-> u.first, last |-> u.last, end |-> u.last, header |-> h]
  BY Zenon DEF ClassHeader
<1> HIDE DEF ms, own, u
<1>6. added \in Seq(Seq(Row))
  <2>1. DOMAIN ms = 1 .. Len(ms) /\ Len(ms) \in Nat
    BY <1>3
  <2> DEFINE R == Seq(Row)
             ml(k) == MemberLines(ms[k])
  <2>2. \A k \in DOMAIN ms : ml(k) \in R
    BY <1>4
  <2> HIDE DEF R, ml
  <2>3. [k \in 1 .. Len(ms) |-> ml(k)] \in Seq(R)
    BY <2>1, <2>2
  <2> QED
    BY <2>1, <2>3 DEF ml, R
<1> HIDE DEF added
<1>7. rest \in Seq(Row)
  <2>1. PICK p : /\ p[0] = <<>> /\ p[Len(added)] = FlattenSeq(added)
                 /\ \A k \in 0 .. Len(added) : p[k] \in Seq(Row)
    BY <1>6, FlattenSteps
  <2>2. Len(added) \in 0 .. Len(added)
    BY <1>6
  <2> QED
    BY <2>1, <2>2
<1> HIDE DEF rest
<1>8. own \o rest \in Seq(Row) /\ own \o rest # <<>> /\ (own \o rest)[1] = <<i, i>>
  BY <1>5, <1>7
<1>9. /\ h \in Seq(Row) /\ h # <<>> /\ h[1] = <<i, i>>
      /\ Len(h) = 1 \/ HeaderSize(h) <= MaxTokens
  <2> DEFINE ls == own \o rest
  <2>1. ls \in Seq(Row) /\ ls # <<>> /\ ls[1] = <<i, i>>
    BY <1>8
  <2> HIDE DEF ls
  <2>2. LET cs == CapToBudget(ls)
        IN  /\ cs \in Seq(Row) /\ cs # <<>> /\ cs[1] = ls[1]
            /\ Len(cs) = 1 \/ HeaderSize(cs) <= MaxTokens
    BY <2>1, Capped
  <2> QED
    BY <2>1, <2>2, Zenon DEF ls
<1> HIDE DEF h
<1>10. c \in Chunk
  BY <1>c, <1>1, <1>9 DEF Chunk, Row
<1>11. c.header = h /\ c.start = i /\ c.last = u.last /\ c.end = u.last
  BY <1>c, <1>1
<1> HIDE DEF c
<1>12. ~ Verbatim(c)
  BY <1>9, <1>11 DEF Verbatim
<1>13. Small(c)
  BY <1>9, <1>11, <1>12 DEF Small, ContentSize
<1>14. Sound(c, i, u.last)
  BY <1>1, <1>10, <1>11, <1>13 DEF Sound
<1>15. c.header[1][1] = i
  BY <1>9, <1>11
<1> QED
  BY <1>11, <1>12, <1>14, <1>15, Zenon DEF c, u

-----------------------------------------------------------------------------
(* What a list of chunks has, and what it keeps when it is extended.       *)

HasHeader(s, i, l) ==
  \E k \in DOMAIN s :
    ~ Verbatim(s[k]) /\ s[k].start = i /\ s[k].end = l /\ s[k].header[1][1] = i

Keeps(s, t) ==
  /\ \A i : HasLine(s, i) => HasLine(t, i)
  /\ \A i, l : HasHeader(s, i, l) => HasHeader(t, i, l)

LEMMA PartKept ==
  ASSUME NEW s, NEW t, \A k \in DOMAIN s : \E j \in DOMAIN t : t[j] = s[k]
  PROVE  Keeps(s, t)
<1>1. ASSUME NEW i, HasLine(s, i)
      PROVE  HasLine(t, i)
  BY <1>1, Zenon DEF HasLine
<1>2. ASSUME NEW i, NEW l, HasHeader(s, i, l)
      PROVE  HasHeader(t, i, l)
  BY <1>2, Zenon DEF HasHeader
<1> QED
  BY <1>1, <1>2 DEF Keeps

LEMMA KeepsOn ==
  ASSUME NEW s, NEW t, NEW r, Keeps(s, t), Keeps(t, r)
  PROVE  Keeps(s, r)
BY Zenon DEF Keeps

LEMMA ConcatKeeps ==
  ASSUME NEW s \in Seq(Chunk), NEW t \in Seq(Chunk)
  PROVE  Keeps(s, s \o t) /\ Keeps(t, s \o t)
<1> DEFINE r == s \o t
<1>1. ASSUME NEW k \in DOMAIN s
      PROVE  k \in DOMAIN r /\ r[k] = s[k]
  OBVIOUS
<1>2. ASSUME NEW k \in DOMAIN t
      PROVE  Len(s) + k \in DOMAIN r /\ r[Len(s) + k] = t[k]
  OBVIOUS
<1> HIDE DEF r
<1>3. Keeps(s, r) /\ Keeps(t, r)
  BY <1>1, <1>2, PartKept
<1> QED
  BY <1>3 DEF r

(* The chunks of statements that follow one another, one after the other.  *)
LEMMA FlattenProper ==
  ASSUME NEW a \in Nat, NEW b \in Nat, 1 <= a, NEW us, Spaced(us, a, b),
         NEW ss \in Seq(Seq(Chunk)), DOMAIN ss = DOMAIN us,
         \A k \in DOMAIN us : Proper(ss[k], us[k].first, us[k].last)
  PROVE  /\ Proper(FlattenSeq(ss), a, b)
         /\ \A k \in DOMAIN us : Keeps(ss[k], FlattenSeq(ss))
<1> DEFINE n == Len(ss)
           End(k) == IF k = 0 THEN a - 1 ELSE us[k].last
<1>1. n \in Nat /\ DOMAIN us = 1 .. n /\ DOMAIN ss = 1 .. n
  OBVIOUS
<1>2. ASSUME NEW k \in 1 .. n
      PROVE  /\ us[k].first \in Nat /\ us[k].last \in Nat /\ us[k].first <= us[k].last
             /\ a <= us[k].first /\ us[k].last <= b
             /\ Proper(ss[k], us[k].first, us[k].last) /\ ss[k] \in Seq(Chunk)
  <2>1. us[k] \in Stretch
    BY <1>1 DEF Spaced
  <2>2. us[k].first \in Nat /\ us[k].last \in Nat /\ us[k].first <= us[k].last
    BY <2>1 DEF Stretch, Whole
  <2>3. k \in DOMAIN us
    BY <1>1
  <2>4. a <= us[k].first /\ us[k].last <= b
    BY <2>3 DEF Spaced
  <2>5. Proper(ss[k], us[k].first, us[k].last)
    BY <2>3
  <2>6. ss[k] \in Seq(Chunk)
    BY <1>1
  <2> QED
    BY <2>2, <2>4, <2>5, <2>6
<1>3. PICK p : /\ p[0] = <<>> /\ p[n] = FlattenSeq(ss)
               /\ \A k \in 0 .. n : p[k] \in Seq(Chunk)
               /\ \A k \in 1 .. n : p[k] = p[k - 1] \o ss[k]
  BY FlattenSteps
<1>4. ASSUME NEW k \in 0 .. n
      PROVE  End(k) \in Nat /\ End(k) >= a - 1 /\ (k < n => End(k) < us[k + 1].first)
  <2>1. CASE k = 0
    <3>1. End(k) = a - 1
      BY <2>1
    <3>2. k < n => k + 1 \in 1 .. n
      BY <1>1, <2>1
    <3> HIDE DEF End, n
    <3>3. k < n => a <= us[k + 1].first /\ us[k + 1].first \in Nat
      BY <1>2, <3>2
    <3>4. \A x \in Nat : a <= x => a - 1 < x
      OBVIOUS
    <3> QED
      BY <3>1, <3>3, <3>4
  <2>2. CASE k # 0
    <3>1. k \in 1 .. n /\ (k < n => k + 1 \in 1 .. n)
      BY <1>1, <2>2
    <3>2. k < n => us[k].last < us[k + 1].first
      <4>1. k \in DOMAIN us /\ (k < n => k + 1 \in DOMAIN us) /\ k < k + 1
        BY <1>1, <3>1
      <4>2. \A j, m \in DOMAIN us : j < m => us[j].last < us[m].first
        BY DEF Spaced
      <4> QED
        BY ONLY <4>1, <4>2
    <3>3. End(k) = us[k].last
      BY <2>2
    <3> HIDE DEF End, n
    <3>4. us[k].last \in Nat /\ us[k].first \in Nat /\ a <= us[k].first /\ us[k].first <= us[k].last
      BY <1>2, <3>1
    <3>5. \A x, y \in Nat : a <= x /\ x <= y => y >= a - 1
      OBVIOUS
    <3> QED
      BY <3>2, <3>3, <3>4, <3>5
  <2> QED
    BY <2>1, <2>2
<1> HIDE DEF n
<1> DEFINE Good(k) == Proper(p[k], a, End(k)) /\ \A j \in 1 .. k : Keeps(ss[j], p[k])
           N == {k \in Nat : k <= n => Good(k)}
<1>5. Good(0)
  BY <1>3, NoChunks
<1>6. ASSUME NEW k \in Nat, k + 1 <= n, Good(k)
      PROVE  Good(k + 1)
  <2> DEFINE m == k + 1
  <2>1. m \in 1 .. n /\ k \in 0 .. n /\ k < n /\ m - 1 = k /\ m # 0
    <3>1. k \in Nat /\ k + 1 <= n /\ n \in Nat
      BY <1>1, <1>6
    <3> HIDE DEF Good
    <3> QED
      BY <3>1
  <2>2. p[m] = p[k] \o ss[m] /\ p[k] \in Seq(Chunk)
    BY <1>3, <2>1
  <2>3. End(m) = us[m].last
    BY <2>1
  <2>4. End(k) \in Nat /\ End(k) < us[m].first /\ End(k) >= a - 1
    BY <1>4, <2>1
  <2> HIDE DEF End, m
  <2>5. /\ us[m].first \in Nat /\ us[m].last \in Nat /\ us[m].first <= us[m].last
        /\ a <= us[m].first /\ Proper(ss[m], us[m].first, us[m].last) /\ ss[m] \in Seq(Chunk)
    BY <1>2, <2>1
  <2>6. Proper(p[k], a, End(k))
    BY <1>6
  <2>7. End(k) <= us[m].last
    <3>1. \A x, y, z \in Nat : x < y /\ y <= z => x <= z
      OBVIOUS
    <3> QED
      BY <2>4, <2>5, <3>1
  <2>8. Proper(p[m], a, us[m].last)
    BY <2>2, <2>4, <2>5, <2>6, <2>7, ProperConcat
  <2>9. Keeps(p[k], p[m]) /\ Keeps(ss[m], p[m])
    BY <2>2, <2>5, ConcatKeeps
  <2>10. ASSUME NEW j \in 1 .. m
         PROVE  Keeps(ss[j], p[m])
    <3>1. CASE j = m
      BY <2>9, <3>1
    <3>2. CASE j # m
      <4>1. j \in 1 .. k
        BY <3>2 DEF m
      <4>2. Keeps(ss[j], p[k])
        BY <1>6, <4>1
      <4> QED
        BY <2>9, <4>2, KeepsOn
    <3> QED
      BY <3>1, <3>2
  <2> QED
    BY <2>3, <2>8, <2>10 DEF m
<1> HIDE DEF Good
<1>7. 0 \in N /\ \A k \in Nat : k \in N => k + 1 \in N
  BY <1>1, <1>5, <1>6
<1>8. Nat \subseteq N
  BY <1>7, NatSet
<1>9. Good(n)
  BY <1>1, <1>8
<1>10. Proper(p[n], a, End(n)) /\ \A j \in 1 .. n : Keeps(ss[j], p[n])
  BY <1>9 DEF Good
<1>11. Proper(p[n], a, b)
  <2>1. CASE n = 0
    BY <1>3, <2>1, NoChunks
  <2>2. CASE n # 0
    <3>1. n \in 1 .. n /\ End(n) = us[n].last
      BY <1>1, <2>2
    <3>2. End(n) \in Nat /\ End(n) <= b
      BY <1>2, <3>1
    <3> HIDE DEF End
    <3> QED
      BY <1>10, <3>2, MoreLines
  <2> QED
    BY <2>1, <2>2
<1> QED
  BY <1>1, <1>3, <1>10, <1>11

-----------------------------------------------------------------------------
(* The recursion over the file.  The chunks, and the symbols, of a unit are *)
(* those of the units in it, which begin further down: the recursions have  *)
(* a solution, and what holds of a unit when it holds of those below it     *)
(* holds of all.                                                            *)

MemberChunks(u, h) == [k \in DOMAIN Members(u) |-> h[Members(u)[k].first]]

EmitFrom(i, h) ==
  LET u == Unit(i)
  IN  IF What(u) = "class" THEN FlattenSeq(MemberChunks(u, h)) \o <<ClassHeader(u)>>
      ELSE IF What(u) = "def" THEN EmitFunc(u, IF InClass(u) THEN "method" ELSE "function")
      ELSE <<>>

LEMMA MemberFacts ==
  ASSUME file \in Files, NEW i \in 1 .. Len(file), What(Unit(i)) = "class"
  PROVE  /\ Members(Unit(i)) \in Seq(Whole)
         /\ Spaced(Members(Unit(i)), Unit(i).def + 1, Unit(i).last)
         /\ Unit(i).def \in i .. Len(file) /\ Unit(i).last \in Unit(i).def + 1 .. Len(file)
         /\ \A j \in DOMAIN Members(Unit(i)) :
              LET m == Members(Unit(i))[j]
              IN  m.first \in 1 .. Len(file) /\ m.first > i /\ m = Unit(m.first)
<1> DEFINE u == Unit(i)
<1>1. i \in Nat /\ 1 <= i /\ u.def \in i .. Len(file) /\ Len(file) \in Nat
  BY FileFacts, UnitFacts
<1>2. Members(u) = Units(u.def + 1, u.last)
  BY DEF Members
<1>3. Block(u.def + 1, u.last)
  BY BodyIsBlock
<1> HIDE DEF u
<1>4. /\ Members(u) \in Seq(Whole) /\ u.last \in u.def + 1 .. Len(file)
      /\ \A j \in DOMAIN Members(u) :
           Members(u)[j].first \in u.def + 1 .. u.last /\ Members(u)[j] = Unit(Members(u)[j].first)
  BY <1>2, <1>3, BlockUnits
<1>5. Spaced(Members(u), u.def + 1, u.last)
  BY <1>2, <1>3, BlockSpaced
<1>6. ASSUME NEW j \in DOMAIN Members(u)
      PROVE  Members(u)[j].first \in 1 .. Len(file) /\ Members(u)[j].first > i
  <2>1. Members(u)[j].first \in u.def + 1 .. u.last
    BY <1>4
  <2>2. \A x \in u.def + 1 .. u.last : x \in 1 .. Len(file) /\ x > i
    BY <1>1, <1>4
  <2> QED
    BY <2>1, <2>2
<1> QED
  BY <1>1, <1>4, <1>5, <1>6, Zenon DEF u

LEMMA EmitIs ==
  ASSUME file \in Files
  PROVE  \A i \in 1 .. Len(file) : Emit[i] = EmitFrom(i, Emit)
<1> DEFINE n == Len(file)
           R == Seq(Chunk)
           G == [ih \in (1 .. n) \X [1 .. n -> R] |-> EmitFrom(ih[1], ih[2])]
<1>1. n \in Nat
  BY FileFacts
<1>2. ASSUME NEW i \in 1 .. n, NEW h \in [1 .. n -> R]
      PROVE  EmitFrom(i, h) \in R
  <2> DEFINE u == Unit(i)
  <2>1. CASE What(u) = "def"
    <3>1. EmitFrom(i, h) = EmitFunc(u, IF InClass(u) THEN "method" ELSE "function")
      BY <2>1 DEF EmitFrom
    <3>2. (IF InClass(u) THEN "method" ELSE "function") \in FuncKind
      BY DEF FuncKind
    <3> QED
      BY <2>1, <3>1, <3>2, EmitFuncFacts DEF Proper
  <2>2. CASE What(u) = "class"
    <3>1. EmitFrom(i, h) = FlattenSeq(MemberChunks(u, h)) \o <<ClassHeader(u)>>
      BY <2>2 DEF EmitFrom
    <3>2. MemberChunks(u, h) \in Seq(R)
      BY <2>2, MemberFacts DEF MemberChunks
    <3>3. FlattenSeq(MemberChunks(u, h)) \in R
      <4> DEFINE ss == MemberChunks(u, h)
      <4> HIDE DEF ss
      <4>1. ss \in Seq(Seq(Chunk))
        BY <3>2 DEF ss
      <4>2. PICK p : p[Len(ss)] = FlattenSeq(ss) /\ \A k \in 0 .. Len(ss) : p[k] \in Seq(Chunk)
        BY <4>1, FlattenSteps
      <4> QED
        BY <4>1, <4>2 DEF ss
    <3>4. ClassHeader(u) \in Chunk
      BY <2>2, ClassHeaderFacts DEF Sound
    <3> HIDE DEF u
    <3> QED
      BY <3>1, <3>3, <3>4
  <2>3. CASE What(u) \notin {"def", "class"}
    BY <2>3 DEF EmitFrom
  <2> QED
    BY <2>1, <2>2, <2>3
<1>3. ASSUME NEW i \in 1 .. n, NEW h \in [1 .. n -> R], NEW k \in [1 .. n -> R],
             \A j \in 1 .. n : j > i => h[j] = k[j]
      PROVE  EmitFrom(i, h) = EmitFrom(i, k)
  <2>1. ASSUME What(Unit(i)) = "class"
        PROVE  MemberChunks(Unit(i), h) = MemberChunks(Unit(i), k)
    BY <1>3, <2>1, MemberFacts DEF MemberChunks
  <2> QED
    BY <2>1 DEF EmitFrom
<1> HIDE DEF R
<1>4. /\ \A i \in 1 .. n, h \in [1 .. n -> R] : G[<<i, h>>] = EmitFrom(i, h)
      /\ <<>> \in R
  BY DEF R
<1> HIDE DEF n, G
<1>5. ASSUME NEW i \in 1 .. n, NEW h \in [1 .. n -> R]
      PROVE  G[<<i, h>>] \in R
  <2>1. G[<<i, h>>] = EmitFrom(i, h)
    BY <1>4
  <2>2. EmitFrom(i, h) \in R
    BY <1>2
  <2> QED
    BY <2>1, <2>2
<1>e. ASSUME NEW i \in 1 .. n, NEW h \in [1 .. n -> R], NEW k \in [1 .. n -> R],
             \A j \in 1 .. n : j > i => h[j] = k[j]
      PROVE  G[<<i, h>>] = G[<<i, k>>]
  <2>1. G[<<i, h>>] = EmitFrom(i, h) /\ G[<<i, k>>] = EmitFrom(i, k)
    BY <1>4
  <2>2. EmitFrom(i, h) = EmitFrom(i, k)
    BY <1>3, <1>e
  <2> QED
    BY <2>1, <2>2
<1>r. <<>> \in R
  BY <1>4
<1>s. Into(G, n, R) /\ LooksAbove(G, n, R)
  BY <1>5, <1>e, Zenon DEF Into, LooksAbove
<1>6. PICK h \in [1 .. n -> R] : \A i \in 1 .. n : h[i] = G[<<i, h>>]
  BY <1>1, <1>r, <1>s, Downward DEF Solves
<1>7. h = [i \in 1 .. n |-> EmitFrom(i, h)]
  BY <1>4, <1>6
<1>8. Emit = [i \in 1 .. n |-> EmitFrom(i, Emit)]
  BY <1>7, Zenon DEF Emit, EmitFrom, MemberChunks, n
<1> DEFINE e == Emit
<1>9. e = [i \in 1 .. n |-> EmitFrom(i, e)]
  BY <1>8
<1> HIDE DEF e
<1>10. \A i \in 1 .. n : e[i] = EmitFrom(i, e)
  BY <1>9
<1> QED
  BY <1>10 DEF e, n

Symbol == [name : STRING, kind : {"function", "method", "class", "variable"}, start : Nat, end : Nat]

SymbolsFrom(i, h) ==
  LET u == Unit(i)
  IN  IF What(u) = "class" THEN
        {SymbolOf(u, "class")} \union UNION {h[m.first] : m \in ToSet(Members(u))}
      ELSE IF What(u) = "def" THEN
        {SymbolOf(u, IF InClass(u) THEN "method" ELSE "function")}
      ELSE IF What(u) = "assign" /\ ~ InClass(u) THEN {Assigned(u)}
      ELSE {}

LEMMA SymbolType ==
  ASSUME file \in Files, NEW i \in 1 .. Len(file),
         NEW kind \in {"function", "method", "class", "variable"}
  PROVE  /\ SymbolOf(Unit(i), kind) \in Symbol /\ SymbolOf(Unit(i), kind).kind = kind
         /\ SymbolOf(Unit(i), kind).start = i /\ SymbolOf(Unit(i), kind).end = Unit(i).last
<1> DEFINE u == Unit(i)
<1>1. u.first = i /\ i \in Nat /\ u.last \in Nat /\ u.def \in 1 .. Len(file)
  BY FileFacts, UnitFacts
<1> HIDE DEF u
<1>2. file[u.def].name \in STRING
  BY <1>1, FileFacts DEF Line
<1>3. /\ SymbolOf(u, kind) \in Symbol /\ SymbolOf(u, kind).kind = kind
      /\ SymbolOf(u, kind).start = i /\ SymbolOf(u, kind).end = u.last
  BY <1>1, <1>2 DEF SymbolOf, Symbol
<1> QED
  BY <1>3 DEF u

LEMMA SymbolsIs ==
  ASSUME file \in Files
  PROVE  \A i \in 1 .. Len(file) : SymbolsOf[i] = SymbolsFrom(i, SymbolsOf)
<1> DEFINE n == Len(file)
           R == SUBSET Symbol
           G == [ih \in (1 .. n) \X [1 .. n -> R] |-> SymbolsFrom(ih[1], ih[2])]
<1>1. n \in Nat
  BY FileFacts
<1>m. ASSUME NEW i \in 1 .. n, What(Unit(i)) = "class"
      PROVE  \A m \in ToSet(Members(Unit(i))) : m.first \in 1 .. n /\ m.first > i
  BY <1>m, MemberFacts DEF ToSet
<1>2. ASSUME NEW i \in 1 .. n, NEW h \in [1 .. n -> R]
      PROVE  SymbolsFrom(i, h) \in R
  <2> DEFINE u == Unit(i)
  <2>1. ASSUME NEW kind \in {"function", "method", "class", "variable"}
        PROVE  SymbolOf(u, kind) \in Symbol
    BY SymbolType
  <2>2. What(u) = "class" => UNION {h[m.first] : m \in ToSet(Members(u))} \in SUBSET Symbol
    BY <1>m
  <2> HIDE DEF u
  <2>3. CASE What(u) = "class"
    BY <2>1, <2>2, <2>3 DEF SymbolsFrom, u
  <2>4. CASE What(u) # "class"
    BY <2>1, <2>4 DEF SymbolsFrom, u, Assigned
  <2> QED
    BY <2>3, <2>4
<1>3. ASSUME NEW i \in 1 .. n, NEW h \in [1 .. n -> R], NEW k \in [1 .. n -> R],
             \A j \in 1 .. n : j > i => h[j] = k[j]
      PROVE  SymbolsFrom(i, h) = SymbolsFrom(i, k)
  <2>1. ASSUME What(Unit(i)) = "class"
        PROVE  UNION {h[m.first] : m \in ToSet(Members(Unit(i)))}
                 = UNION {k[m.first] : m \in ToSet(Members(Unit(i)))}
    BY <1>3, <1>m, <2>1
  <2> QED
    BY <2>1 DEF SymbolsFrom
<1> HIDE DEF R
<1>4. \A i \in 1 .. n, h \in [1 .. n -> R] : G[<<i, h>>] = SymbolsFrom(i, h)
  OBVIOUS
<1>r. {} \in R
  BY DEF R
<1> HIDE DEF n, G
<1>5. ASSUME NEW i \in 1 .. n, NEW h \in [1 .. n -> R]
      PROVE  G[<<i, h>>] \in R
  <2>1. G[<<i, h>>] = SymbolsFrom(i, h)
    BY <1>4
  <2>2. SymbolsFrom(i, h) \in R
    BY <1>2
  <2> QED
    BY <2>1, <2>2
<1>e. ASSUME NEW i \in 1 .. n, NEW h \in [1 .. n -> R], NEW k \in [1 .. n -> R],
             \A j \in 1 .. n : j > i => h[j] = k[j]
      PROVE  G[<<i, h>>] = G[<<i, k>>]
  <2>1. G[<<i, h>>] = SymbolsFrom(i, h) /\ G[<<i, k>>] = SymbolsFrom(i, k)
    BY <1>4
  <2>2. SymbolsFrom(i, h) = SymbolsFrom(i, k)
    BY <1>3, <1>e
  <2> QED
    BY <2>1, <2>2
<1>s. Into(G, n, R) /\ LooksAbove(G, n, R)
  BY <1>5, <1>e, Zenon DEF Into, LooksAbove
<1>6. PICK h \in [1 .. n -> R] : \A i \in 1 .. n : h[i] = G[<<i, h>>]
  BY <1>1, <1>r, <1>s, Downward DEF Solves
<1>7. h = [i \in 1 .. n |-> SymbolsFrom(i, h)]
  BY <1>4, <1>6
<1>8. SymbolsOf = [i \in 1 .. n |-> SymbolsFrom(i, SymbolsOf)]
  BY <1>7, Zenon DEF SymbolsOf, SymbolsFrom, n
<1> DEFINE e == SymbolsOf
<1>9. e = [i \in 1 .. n |-> SymbolsFrom(i, e)]
  BY <1>8
<1> HIDE DEF e
<1>10. \A i \in 1 .. n : e[i] = SymbolsFrom(i, e)
  BY <1>9
<1> QED
  BY <1>10 DEF e, n

(* The chunks s of a file have the code of the symbol y.                   *)
Finds(s, y) ==
  CASE y.kind \in {"function", "method"} -> \A i \in y.start .. y.end : HasLine(s, i)
    [] y.kind = "class" -> HasHeader(s, y.start, y.end)
    [] OTHER -> TRUE

LEMMA FindsOn ==
  ASSUME NEW s, NEW t, NEW y, Keeps(s, t), Finds(s, y)
  PROVE  Finds(t, y)
<1>1. CASE y.kind \in {"function", "method"}
  BY <1>1, Zenon DEF Finds, Keeps
<1>2. CASE y.kind = "class" /\ y.kind \notin {"function", "method"}
  BY <1>2 DEF Finds, Keeps
<1>3. CASE y.kind \notin {"class", "function", "method"}
  BY <1>3 DEF Finds
<1> QED
  BY <1>1, <1>2, <1>3

(* The chunks of each unit cover the symbols in it.                        *)
UnitCovered(i) ==
  /\ Proper(Emit[i], i, Unit(i).last)
  /\ \A y \in SymbolsOf[i] : y \in Symbol /\ Finds(Emit[i], y)

LEMMA Covered ==
  ASSUME file \in Files
  PROVE  \A i \in 1 .. Len(file) : UnitCovered(i)
<1> DEFINE n == Len(file)
           S == {i \in 1 .. n : UnitCovered(i)}
<1>1. n \in Nat
  BY FileFacts
<1>2. ASSUME NEW i \in 1 .. n, \A j \in 1 .. n : j > i => j \in S
      PROVE  UnitCovered(i)
  <2> DEFINE u == Unit(i)
             cs == Emit[i]
             ys == SymbolsOf[i]
  <2>1. cs = EmitFrom(i, Emit) /\ ys = SymbolsFrom(i, SymbolsOf)
    BY EmitIs, SymbolsIs
  <2>2. /\ u \in Whole /\ u.first = i /\ i \in Nat /\ 1 <= i /\ u.last \in Nat
        /\ u.def \in Nat /\ i <= u.def /\ u.def <= u.last
    BY FileFacts, UnitFacts
  <2>3. CASE What(u) = "def"
    <3> DEFINE kind == IF InClass(u) THEN "method" ELSE "function"
    <3>1. cs = EmitFunc(u, kind) /\ ys = {SymbolOf(u, kind)} /\ kind \in FuncKind
      BY <2>1, <2>3 DEF EmitFrom, SymbolsFrom, FuncKind
    <3> HIDE DEF kind
    <3>2. Proper(cs, i, u.last) /\ \A x \in i .. u.last : HasLine(cs, x)
      BY <2>3, <3>1, EmitFuncFacts
    <3>3. /\ SymbolOf(u, kind) \in Symbol /\ SymbolOf(u, kind).kind = kind
          /\ SymbolOf(u, kind).start = i /\ SymbolOf(u, kind).end = u.last
      BY <3>1, SymbolType DEF FuncKind
    <3>4. Finds(cs, SymbolOf(u, kind))
      BY <3>1, <3>2, <3>3 DEF Finds, FuncKind
    <3> QED
      BY <3>1, <3>2, <3>3, <3>4 DEF UnitCovered
  <2>4. CASE What(u) = "class"
    <3> DEFINE ms == Members(u)
               ss == MemberChunks(u, Emit)
               flat == FlattenSeq(ss)
               top == ClassHeader(u)
    <3>1. /\ ms \in Seq(Whole) /\ Spaced(ms, u.def + 1, u.last) /\ u.last >= u.def + 1
          /\ \A j \in DOMAIN ms : ms[j].first \in 1 .. n /\ ms[j].first > i /\ ms[j] = Unit(ms[j].first)
      BY <2>4, MemberFacts
    <3>2. ASSUME NEW j \in DOMAIN ms
          PROVE  /\ Proper(Emit[ms[j].first], ms[j].first, ms[j].last)
                 /\ \A y \in SymbolsOf[ms[j].first] : y \in Symbol /\ Finds(Emit[ms[j].first], y)
      <4>1. UnitCovered(ms[j].first)
        BY <1>2, <3>1
      <4> QED
        BY <3>1, <4>1 DEF UnitCovered
    <3>3. DOMAIN ss = DOMAIN ms /\ \A j \in DOMAIN ms : ss[j] = Emit[ms[j].first]
      BY DEF MemberChunks
    <3>4. ss \in Seq(Seq(Chunk))
      <4>1. ss = [j \in DOMAIN ms |-> ss[j]] /\ DOMAIN ms = 1 .. Len(ms) /\ Len(ms) \in Nat
        BY <3>1 DEF MemberChunks
      <4> HIDE DEF ss, ms
      <4>2. \A j \in DOMAIN ms : ss[j] \in Seq(Chunk)
        BY <3>2, <3>3 DEF Proper
      <4> QED
        BY <4>1, <4>2
    <3>5. /\ cs = flat \o <<top>>
          /\ ys = {SymbolOf(u, "class")} \union UNION {SymbolsOf[m.first] : m \in ToSet(ms)}
      BY <2>1, <2>4, Zenon DEF EmitFrom, SymbolsFrom
    <3> HIDE DEF ss, ms, top
    <3>6. \A k \in DOMAIN ms : Proper(ss[k], ms[k].first, ms[k].last)
      BY <3>2, <3>3
    <3>7. u.def + 1 \in Nat /\ 1 <= u.def + 1 /\ i <= u.def + 1 /\ u.last <= u.last
      BY <2>2
    <3>8. Proper(flat, u.def + 1, u.last) /\ \A k \in DOMAIN ms : Keeps(ss[k], flat)
      BY <2>2, <3>1, <3>3, <3>4, <3>6, <3>7, FlattenProper
    <3> HIDE DEF flat
    <3>9. Proper(flat, i, u.last)
      BY <2>2, <3>7, <3>8, MoreLines
    <3>10. /\ Sound(top, i, u.last) /\ ~ Verbatim(top)
           /\ top.start = i /\ top.end = u.last /\ top.header[1][1] = i
      BY <2>4, ClassHeaderFacts DEF top
    <3>11. Proper(cs, i, u.last)
      BY <2>2, <3>5, <3>9, <3>10, ThenHeader
    <3>12. flat \in Seq(Chunk) /\ <<top>> \in Seq(Chunk)
      BY <3>9, <3>10 DEF Proper, Sound
    <3>13. Keeps(flat, cs) /\ Keeps(<<top>>, cs)
      BY <3>5, <3>12, ConcatKeeps
    <3>14. /\ SymbolOf(u, "class") \in Symbol /\ SymbolOf(u, "class").kind = "class"
           /\ SymbolOf(u, "class").start = i /\ SymbolOf(u, "class").end = u.last
      BY SymbolType
    <3>15. HasHeader(<<top>>, i, u.last)
      <4>1. 1 \in DOMAIN <<top>> /\ <<top>>[1] = top
        OBVIOUS
      <4> QED
        BY <3>10, <4>1, Zenon DEF HasHeader
    <3>16. Finds(cs, SymbolOf(u, "class"))
      BY <3>13, <3>14, <3>15 DEF Finds, Keeps
    <3>17. ASSUME NEW m \in ToSet(ms), NEW y \in SymbolsOf[m.first]
           PROVE  y \in Symbol /\ Finds(cs, y)
      <4>1. PICK j \in DOMAIN ms : ms[j] = m
        BY DEF ToSet
      <4>2. y \in Symbol /\ Finds(ss[j], y)
        BY <3>2, <3>3, <3>17, <4>1
      <4>3. Keeps(ss[j], flat)
        BY <3>8
      <4> QED
        BY <3>13, <4>2, <4>3, FindsOn
    <3> QED
      BY <3>5, <3>11, <3>14, <3>16, <3>17 DEF UnitCovered
  <2>5. CASE What(u) \notin {"def", "class"}
    <3>1. cs = <<>>
      BY <2>1, <2>5 DEF EmitFrom
    <3>2. ys \subseteq {Assigned(u)}
      BY <2>1, <2>5 DEF SymbolsFrom
    <3>3. Assigned(u) \in Symbol /\ Assigned(u).kind = "variable"
      BY SymbolType DEF Assigned
    <3>4. Finds(cs, Assigned(u))
      BY <3>3 DEF Finds
    <3> QED
      BY <3>1, <3>2, <3>3, <3>4, NoChunks DEF UnitCovered
  <2> QED
    BY <2>3, <2>4, <2>5
<1>3. \A i \in 1 .. n : (\A j \in 1 .. n : j > i => j \in S) => i \in S
  BY <1>2
<1> HIDE DEF n, S
<1>4. \A i \in 1 .. n : i \in S
  BY <1>1, <1>3, DownwardInduction
<1> QED
  BY <1>4 DEF S, n

LEMMA WalkCovers ==
  ASSUME file \in Files
  PROVE  Proper(Walk, 1, Len(file)) /\ \A y \in Symbols : y \in Symbol /\ Finds(Walk, y)
<1> DEFINE us == Units(1, Len(file))
           ss == [k \in DOMAIN us |-> Emit[us[k].first]]
<1>1. Len(file) \in Nat \ {0} /\ 1 \in Nat /\ Len(file) \in Nat
  BY FileFacts
<1>2. Block(1, Len(file))
  BY FileIsBlock
<1>3. /\ us \in Seq(Whole)
      /\ \A j \in DOMAIN us : us[j].first \in 1 .. Len(file) /\ us[j] = Unit(us[j].first)
  BY <1>2, BlockUnits
<1>4. Spaced(us, 1, Len(file))
  BY <1>2, BlockSpaced
<1>5. Walk = FlattenSeq(ss) /\ Symbols = UNION {SymbolsOf[u.first] : u \in ToSet(us)}
  BY Zenon DEF Walk, Symbols
<1> HIDE DEF us
<1>6. ASSUME NEW j \in DOMAIN us
      PROVE  /\ Proper(ss[j], us[j].first, us[j].last) /\ ss[j] = Emit[us[j].first]
             /\ \A y \in SymbolsOf[us[j].first] : y \in Symbol /\ Finds(ss[j], y)
  <2>1. UnitCovered(us[j].first)
    BY <1>3, Covered
  <2>2. Unit(us[j].first).last = us[j].last
    BY <1>3
  <2> QED
    BY <2>1, <2>2 DEF UnitCovered
<1>7. ss \in Seq(Seq(Chunk)) /\ DOMAIN ss = DOMAIN us
  <2>1. DOMAIN us = 1 .. Len(us) /\ Len(us) \in Nat
    BY <1>3
  <2>2. \A j \in DOMAIN us : Emit[us[j].first] \in Seq(Chunk)
    BY <1>6 DEF Proper
  <2> QED
    BY <2>1, <2>2
<1> HIDE DEF ss
<1>8. Proper(FlattenSeq(ss), 1, Len(file)) /\ \A k \in DOMAIN us : Keeps(ss[k], FlattenSeq(ss))
  <2>1. \A k \in DOMAIN us : Proper(ss[k], us[k].first, us[k].last)
    BY <1>6
  <2>2. 1 <= 1
    OBVIOUS
  <2> QED
    BY <1>1, <1>4, <1>7, <2>1, <2>2, FlattenProper
<1>9. ASSUME NEW y \in Symbols
      PROVE  y \in Symbol /\ Finds(Walk, y)
  <2>1. PICK j \in DOMAIN us : y \in SymbolsOf[us[j].first]
    BY <1>5 DEF ToSet
  <2> QED
    BY <1>5, <1>6, <1>8, <2>1, FindsOn
<1> QED
  BY <1>5, <1>8, <1>9

-----------------------------------------------------------------------------
(* Merging: a merged chunk has the lines of the chunks it took in.         *)

LEMMA MergeKeeps ==
  ASSUME NEW lo \in Nat, NEW hi \in Nat, NEW ms, NEW c, Proper(ms, lo, hi), Sound(c, lo, hi),
         Verbatim(c) => \A j \in DOMAIN ms : Verbatim(ms[j]) => ms[j].last < c.start
  PROVE  /\ Proper(MergeInto(ms, c), lo, hi)
         /\ Keeps(ms, MergeInto(ms, c)) /\ Keeps(<<c>>, MergeInto(ms, c))
         /\ \A j \in DOMAIN MergeInto(ms, c) : Verbatim(MergeInto(ms, c)[j]) =>
              \/ Verbatim(c) /\ MergeInto(ms, c)[j].last = c.last
              \/ \E k \in DOMAIN ms : Verbatim(ms[k]) /\ MergeInto(ms, c)[j].last = ms[k].last
<1> DEFINE t == MergeInto(ms, c)
           n == Len(ms)
           Joins == /\ ms # <<>> /\ Verbatim(c) /\ Verbatim(Last(ms))
                    /\ c.kind = Last(ms).kind /\ Fits(Last(ms).start, c.last)
<1>1. /\ ms \in Seq(Chunk) /\ c \in Chunk
      /\ \A k \in DOMAIN ms : Sound(ms[k], lo, hi) /\ ms[k] \in Chunk
      /\ \A j, k \in DOMAIN ms : j < k /\ Verbatim(ms[j]) /\ Verbatim(ms[k]) => ms[j].last < ms[k].start
  BY DEF Proper, Sound
<1>2. CASE ~ Joins
  <2>1. t = Append(ms, c)
    BY <1>2, Zenon DEF MergeInto
  <2>2. /\ Append(ms, c) \in Seq(Chunk) /\ n \in Nat /\ DOMAIN ms = 1 .. n
        /\ DOMAIN Append(ms, c) = 1 .. n + 1 /\ n + 1 \in DOMAIN Append(ms, c)
        /\ Append(ms, c)[n + 1] = c
        /\ \A j \in DOMAIN ms : j \in DOMAIN Append(ms, c) /\ Append(ms, c)[j] = ms[j] /\ j < n + 1
        /\ \A j \in DOMAIN Append(ms, c) : j \in DOMAIN ms \/ j = n + 1
    BY <1>1, AppendFacts
  <2> HIDE DEF t, n, Joins
  <2>3. \A k \in DOMAIN t : Sound(t[k], lo, hi)
    BY <1>1, <2>1, <2>2
  <2>4. ASSUME NEW j \in DOMAIN t, NEW k \in DOMAIN t, j < k, Verbatim(t[j]), Verbatim(t[k])
        PROVE  t[j].last < t[k].start
    <3>1. j \in DOMAIN ms
      BY <2>1, <2>2, <2>4
    <3> QED
      BY <1>1, <2>1, <2>2, <2>4, <3>1
  <2>5. Proper(t, lo, hi)
    BY <2>1, <2>2, <2>3, <2>4 DEF Proper
  <2>6. Keeps(ms, t)
    BY <2>1, <2>2, PartKept
  <2>7. Keeps(<<c>>, t)
    <3>1. \A k \in DOMAIN <<c>> : <<c>>[k] = c
      OBVIOUS
    <3>2. \A k \in DOMAIN <<c>> : \E j \in DOMAIN t : t[j] = <<c>>[k]
      BY <2>1, <2>2, <3>1, Zenon
    <3> QED
      BY <3>2, PartKept
  <2>8. \A j \in DOMAIN t : Verbatim(t[j]) =>
              \/ Verbatim(c) /\ t[j].last = c.last
              \/ \E k \in DOMAIN ms : Verbatim(ms[k]) /\ t[j].last = ms[k].last
    BY <2>1, <2>2
  <2> QED
    BY <2>5, <2>6, <2>7, <2>8, Zenon DEF t
<1>3. CASE Joins
  <2> DEFINE d == Last(ms)
             x == [d EXCEPT !.last = c.last, !.end = c.end]
  <2>1. t = Append(Front(ms), x)
    BY <1>3, Zenon DEF MergeInto
  <2>2. ms # <<>> /\ Verbatim(c) /\ Verbatim(d) /\ c.kind = d.kind /\ Fits(d.start, c.last)
    BY <1>3
  <2>3. n \in DOMAIN ms /\ d = ms[n] /\ d \in Chunk /\ DOMAIN ms = 1 .. n /\ n \in Nat
    <3>1. n \in DOMAIN ms /\ d = ms[n] /\ DOMAIN ms = 1 .. n /\ n \in Nat
      BY <1>1, <2>2 DEF Last
    <3> QED
      BY <1>1, <3>1
  <2> HIDE DEF d, n, Joins, t
  <2>4. /\ x \in Chunk /\ x.start = d.start /\ x.last = c.last /\ x.header = <<>>
        /\ x.end = c.end
    BY <1>1, <2>2, <2>3 DEF Chunk, Verbatim
  <2>5. c.header = <<>> /\ d.header = <<>>
    BY <2>2 DEF Verbatim
  <2> HIDE DEF x
  <2>6. /\ lo <= d.start /\ d.start <= d.last /\ d.last < c.start /\ c.start <= c.last /\ c.last <= hi
        /\ d.start \in Nat /\ d.last \in Nat /\ c.start \in Nat /\ c.last \in Nat
    <3>1. d.last < c.start
      BY <2>2, <2>3
    <3>2. lo <= d.start /\ d.start <= d.last /\ c.start <= c.last /\ c.last <= hi
      BY <1>1, <2>3 DEF Sound
    <3>3. d.start \in Nat /\ d.last \in Nat /\ c.start \in Nat /\ c.last \in Nat
      BY <1>1, <2>3, ChunkType
    <3> QED
      BY <3>1, <3>2, <3>3
  <2>7. Verbatim(x) /\ Small(x)
    <3>1. Verbatim(x)
      BY <2>4 DEF Verbatim
    <3>2. ContentSize(x) = Size(d.start, c.last)
      BY <2>4, <3>1 DEF ContentSize
    <3> QED
      BY <2>2, <3>1, <3>2 DEF Small, Fits
  <2>8. Sound(x, lo, hi)
    BY <2>4, <2>6, <2>7 DEF Sound
  <2>9. /\ t \in Seq(Chunk) /\ DOMAIN t = DOMAIN ms
        /\ \A j \in DOMAIN ms : t[j] = IF j = n THEN x ELSE ms[j]
    BY <1>1, <2>1, <2>2, <2>4, LastReplaced DEF n
  <2>10. \A k \in DOMAIN t : Sound(t[k], lo, hi)
    BY <1>1, <2>8, <2>9
  <2>11. ASSUME NEW j \in DOMAIN t, NEW k \in DOMAIN t, j < k, Verbatim(t[j]), Verbatim(t[k])
         PROVE  t[j].last < t[k].start
    <3>1. j # n /\ t[j] = ms[j] /\ j \in DOMAIN ms /\ k \in DOMAIN ms
      BY <2>3, <2>9, <2>11
    <3>2. t[k].start = ms[k].start /\ Verbatim(ms[k])
      BY <2>2, <2>3, <2>4, <2>9, <2>11
    <3> QED
      BY <1>1, <2>11, <3>1, <3>2
  <2>12. Proper(t, lo, hi)
    BY <2>9, <2>10, <2>11 DEF Proper
  <2>13. ASSUME NEW k \in DOMAIN ms, ~ Verbatim(ms[k])
         PROVE  t[k] = ms[k]
    BY <2>2, <2>3, <2>9, <2>13
  <2>14. ASSUME NEW i, NEW k \in DOMAIN ms, Verbatim(ms[k]), i \in ms[k].start .. ms[k].last
         PROVE  Verbatim(t[k]) /\ i \in t[k].start .. t[k].last
    <3>1. CASE k = n
      <4>1. t[k] = x /\ i \in d.start .. d.last
        BY <2>3, <2>9, <2>14, <3>1
      <4> QED
        BY <2>4, <2>6, <2>7, <4>1
    <3>2. CASE k # n
      BY <2>9, <2>14, <3>2
    <3> QED
      BY <3>1, <3>2
  <2>15. Keeps(ms, t)
    <3>1. ASSUME NEW i, HasLine(ms, i)
          PROVE  HasLine(t, i)
      BY <2>9, <2>14, <3>1 DEF HasLine
    <3>2. ASSUME NEW i, NEW l, HasHeader(ms, i, l)
          PROVE  HasHeader(t, i, l)
      <4>1. PICK k \in DOMAIN ms : /\ ~ Verbatim(ms[k]) /\ ms[k].start = i /\ ms[k].end = l
                                   /\ ms[k].header[1][1] = i
        BY <3>2, Zenon DEF HasHeader
      <4>2. t[k] = ms[k] /\ k \in DOMAIN t
        BY <2>9, <2>13, <4>1
      <4> QED
        BY <4>1, <4>2, Zenon DEF HasHeader
    <3> QED
      BY <3>1, <3>2 DEF Keeps
  <2>16. Keeps(<<c>>, t)
    <3>1. DOMAIN <<c>> = {1} /\ <<c>>[1] = c
      OBVIOUS
    <3>2. ASSUME NEW i, HasLine(<<c>>, i)
          PROVE  HasLine(t, i)
      <4>1. i \in c.start .. c.last
        BY <3>1, <3>2 DEF HasLine
      <4>2. i \in x.start .. x.last
        BY <2>4, <2>6, <4>1
      <4> QED
        BY <2>3, <2>7, <2>9, <4>2 DEF HasLine
    <3>3. ASSUME NEW i, NEW l, HasHeader(<<c>>, i, l)
          PROVE  FALSE
      BY <2>2, <3>1, <3>3 DEF HasHeader
    <3> QED
      BY <3>2, <3>3, Zenon DEF Keeps
  <2>17. \A j \in DOMAIN t : Verbatim(t[j]) =>
              \/ Verbatim(c) /\ t[j].last = c.last
              \/ \E k \in DOMAIN ms : Verbatim(ms[k]) /\ t[j].last = ms[k].last
    BY <2>2, <2>4, <2>9
  <2> QED
    BY <2>12, <2>15, <2>16, <2>17, Zenon DEF t
<1> QED
  BY <1>2, <1>3

LEMMA MergeType ==
  ASSUME NEW ms \in Seq(Chunk), NEW c \in Chunk
  PROVE  MergeInto(ms, c) \in Seq(Chunk)
<1> DEFINE d == Last(ms)
           x == [d EXCEPT !.last = c.last, !.end = c.end]
<1>1. CASE MergeInto(ms, c) = Append(ms, c)
  BY <1>1
<1>2. CASE ms # <<>> /\ MergeInto(ms, c) = Append(Front(ms), x)
  <2>1. d \in Chunk
    BY <1>2 DEF Last
  <2>2. x \in Chunk
    BY <2>1 DEF Chunk
  <2> HIDE DEF x
  <2> QED
    BY <1>2, <2>2, LastReplaced
<1> QED
  BY <1>1, <1>2, Zenon DEF MergeInto

LEMMA MergeSteps ==
  ASSUME NEW out \in Seq(Chunk)
  PROVE  \E p : /\ p[0] = <<>> /\ p[Len(out)] = FoldLeft(MergeInto, <<>>, out)
                /\ \A k \in 1 .. Len(out) : p[k] = MergeInto(p[k - 1], out[k])
<1> DEFINE n == Len(out)
           f == [xr \in Chunk \X Seq(Chunk) |-> MergeInto(xr[2], xr[1])]
           Eq(h, S) == h[S] = IF S = {} THEN <<>> ELSE MergeInto(h[S \ {Max(S)}], out[Max(S)])
<1>1. n \in Nat /\ DOMAIN out = 1 .. n /\ \A k \in 1 .. n : out[k] \in Chunk
  OBVIOUS
<1>2. PICK h \in [SUBSET DOMAIN out -> Seq(Chunk)] : FoldsLeft(h, out, f, <<>>)
  <2>1. StepsIn(f, Chunk, Seq(Chunk))
    BY MergeType DEF StepsIn
  <2> HIDE DEF f
  <2>2. <<>> \in Seq(Chunk)
    OBVIOUS
  <2> QED
    BY <2>1, <2>2, FoldLeftExists
<1>3. ASSUME NEW S \in SUBSET DOMAIN out
      PROVE  Eq(h, S)
  <2>1. h[S] = IF S = {} THEN <<>> ELSE f[<<out[Max(S)], h[S \ {Max(S)}]>>]
    BY <1>2, Zenon DEF FoldsLeft
  <2>2. CASE S = {}
    BY <2>1, <2>2
  <2>3. CASE S # {}
    <3>1. Max(S) \in S
      BY <1>1, <2>3, MaxIsMember
    <3>2. out[Max(S)] \in Chunk /\ h[S \ {Max(S)}] \in Seq(Chunk)
      BY <1>1, <3>1
    <3> QED
      BY <2>1, <2>3, <3>2
  <2> QED
    BY <2>2, <2>3
<1> DEFINE iter == CHOOSE h_1 : h_1 = [S \in SUBSET DOMAIN out |->
                     IF S = {} THEN <<>> ELSE MergeInto(h_1[S \ {Max(S)}], out[Max(S)])]
<1>4. FoldLeft(MergeInto, <<>>, out) = iter[DOMAIN out]
  BY Zenon DEF FoldLeft, MapThenFoldSet
<1>5. h = [S \in SUBSET DOMAIN out |-> IF S = {} THEN <<>>
                                       ELSE MergeInto(h[S \ {Max(S)}], out[Max(S)])]
  BY <1>3
<1>6. iter = [S \in SUBSET DOMAIN out |-> IF S = {} THEN <<>>
                                          ELSE MergeInto(iter[S \ {Max(S)}], out[Max(S)])]
  BY <1>5, Zenon
<1> HIDE DEF iter
<1>7. ASSUME NEW k \in 1 .. n
      PROVE  iter[1 .. k] = MergeInto(iter[1 .. k - 1], out[k])
  <2>1. k \in Nat /\ k # 0 /\ k \in 1 .. k /\ 1 .. k \subseteq 1 .. n
    BY <1>1
  <2>2. 1 .. k \in SUBSET DOMAIN out /\ 1 .. k # {}
    BY <1>1, <2>1
  <2>3. Max(1 .. k) = k /\ (1 .. k) \ {k} = 1 .. k - 1
    BY <2>1, Prefix
  <2>4. iter[1 .. k] = MergeInto(iter[(1 .. k) \ {Max(1 .. k)}], out[Max(1 .. k)])
    BY <1>6, <2>2, Zenon
  <2> QED
    BY <2>2, <2>3, <2>4
<1>8. iter[1 .. 0] = <<>>
  BY <1>6
<1> DEFINE p == [k \in 0 .. n |-> iter[1 .. k]]
<1>9. /\ p[0] = <<>> /\ p[n] = FoldLeft(MergeInto, <<>>, out)
      /\ \A k \in 1 .. n : p[k] = MergeInto(p[k - 1], out[k])
  <2>1. \A k \in 0 .. n : p[k] = iter[1 .. k]
    OBVIOUS
  <2>2. 0 \in 0 .. n /\ n \in 0 .. n /\ \A k \in 1 .. n : k \in 0 .. n /\ k - 1 \in 0 .. n
    BY <1>1
  <2> HIDE DEF p
  <2> QED
    BY <1>1, <1>4, <1>7, <1>8, <2>1, <2>2
<1> QED
  BY <1>9, Zenon

LEMMA MergeFacts ==
  ASSUME NEW lo \in Nat, NEW hi \in Nat, NEW out, Proper(out, lo, hi)
  PROVE  Proper(MergeSameKind(out), lo, hi) /\ Keeps(out, MergeSameKind(out))
<1> DEFINE n == Len(out)
<1>1. /\ out \in Seq(Chunk) /\ n \in Nat /\ DOMAIN out = 1 .. n
      /\ \A k \in DOMAIN out : Sound(out[k], lo, hi)
      /\ \A j, k \in DOMAIN out :
           j < k /\ Verbatim(out[j]) /\ Verbatim(out[k]) => out[j].last < out[k].start
  BY DEF Proper
<1>2. PICK p : /\ p[0] = <<>> /\ p[n] = FoldLeft(MergeInto, <<>>, out)
               /\ \A k \in 1 .. n : p[k] = MergeInto(p[k - 1], out[k])
  BY <1>1, MergeSteps
<1> HIDE DEF n
<1> DEFINE Taken(k) == \A j \in 1 .. k : Keeps(<<out[j]>>, p[k])
           Ends(k) == \A j \in DOMAIN p[k] : Verbatim(p[k][j]) =>
                        \E m \in 1 .. k : Verbatim(out[m]) /\ p[k][j].last = out[m].last
           Good(k) == Proper(p[k], lo, hi) /\ Taken(k) /\ Ends(k)
           N == {k \in Nat : k <= n => Good(k)}
<1>3. Good(0)
  BY <1>2, NoChunks
<1>4. ASSUME NEW k \in Nat, k + 1 <= n, Good(k)
      PROVE  Good(k + 1)
  <2> DEFINE m == k + 1
             c == out[m]
             t == MergeInto(p[k], c)
  <2>1. k + 1 <= n /\ n \in Nat /\ k \in Nat
    BY <1>1, <1>4
  <2> HIDE DEF Good
  <2>2. m \in 1 .. n /\ m - 1 = k /\ m \in Nat
    BY <2>1
  <2>3. p[m] = t
    <3> HIDE DEF m
    <3> QED
      BY <1>2, <2>2
  <2>4. Proper(p[k], lo, hi) /\ Taken(k) /\ Ends(k)
    BY <1>4 DEF Good
  <2>5. \A j \in 1 .. k : j \in DOMAIN out /\ j < m
    BY <1>1, <2>1
  <2> HIDE DEF m
  <2>6. Sound(c, lo, hi)
    BY <1>1, <2>2
  <2>7. ASSUME Verbatim(c), NEW j \in DOMAIN p[k], Verbatim(p[k][j])
        PROVE  p[k][j].last < c.start
    <3>1. PICK i \in 1 .. k : Verbatim(out[i]) /\ p[k][j].last = out[i].last
      BY <2>4, <2>7
    <3> QED
      BY <1>1, <2>2, <2>5, <2>7, <3>1
  <2> HIDE DEF c
  <2>8. /\ Proper(t, lo, hi) /\ Keeps(p[k], t) /\ Keeps(<<c>>, t)
        /\ \A j \in DOMAIN t : Verbatim(t[j]) =>
             \/ Verbatim(c) /\ t[j].last = c.last
             \/ \E i \in DOMAIN p[k] : Verbatim(p[k][i]) /\ t[j].last = p[k][i].last
    BY <2>4, <2>6, <2>7, MergeKeeps
  <2> HIDE DEF t
  <2>9. \A j \in 1 .. m : j = m \/ j \in 1 .. k
    BY <2>1 DEF m
  <2>10. m \in 1 .. m /\ \A j \in 1 .. k : j \in 1 .. m
    BY <2>1 DEF m
  <2>11. Taken(m)
    <3>1. ASSUME NEW j \in 1 .. m
          PROVE  Keeps(<<out[j]>>, p[m])
      <4>1. CASE j = m
        BY <2>3, <2>8, <4>1 DEF c
      <4>2. CASE j \in 1 .. k
        <5>1. Keeps(<<out[j]>>, p[k])
          BY <2>4, <4>2
        <5> QED
          BY <2>3, <2>8, <5>1, KeepsOn
      <4> QED
        BY <2>9, <4>1, <4>2
    <3> QED
      BY <3>1
  <2>12. Ends(m)
    <3>1. ASSUME NEW j \in DOMAIN p[m], Verbatim(p[m][j])
          PROVE  \E i \in 1 .. m : Verbatim(out[i]) /\ p[m][j].last = out[i].last
      <4>1. CASE Verbatim(c) /\ t[j].last = c.last
        BY <2>3, <2>10, <4>1 DEF c
      <4>2. CASE \E i \in DOMAIN p[k] : Verbatim(p[k][i]) /\ t[j].last = p[k][i].last
        BY <2>3, <2>4, <2>10, <4>2
      <4> QED
        BY <2>3, <2>8, <3>1, <4>1, <4>2
    <3> QED
      BY <3>1
  <2>13. Good(m)
    BY <2>3, <2>8, <2>11, <2>12 DEF Good
  <2> QED
    BY <2>13 DEF m
<1> HIDE DEF Good
<1>5. 0 \in N /\ \A k \in Nat : k \in N => k + 1 \in N
  BY <1>1, <1>3, <1>4
<1>6. Nat \subseteq N
  BY <1>5, NatSet
<1>7. Good(n)
  BY <1>1, <1>6 DEF n
<1>8. MergeSameKind(out) = p[n]
  BY <1>2 DEF MergeSameKind
<1>9. Proper(p[n], lo, hi) /\ \A j \in 1 .. n : Keeps(<<out[j]>>, p[n])
  BY <1>7 DEF Good
<1>10. ASSUME NEW j \in DOMAIN out
       PROVE  Keeps(<<out[j]>>, p[n]) /\ 1 \in DOMAIN <<out[j]>> /\ <<out[j]>>[1] = out[j]
  BY <1>1, <1>9
<1>11. ASSUME NEW i, HasLine(out, i)
       PROVE  HasLine(p[n], i)
  <2>1. PICK j \in DOMAIN out : Verbatim(out[j]) /\ i \in out[j].start .. out[j].last
    BY <1>11, Zenon DEF HasLine
  <2>2. HasLine(<<out[j]>>, i)
    BY <1>10, <2>1, Zenon DEF HasLine
  <2> QED
    BY <1>10, <2>2, Zenon DEF Keeps
<1>12. ASSUME NEW i, NEW l, HasHeader(out, i, l)
       PROVE  HasHeader(p[n], i, l)
  <2>1. PICK j \in DOMAIN out : /\ ~ Verbatim(out[j]) /\ out[j].start = i /\ out[j].end = l
                                 /\ out[j].header[1][1] = i
    BY <1>12, Zenon DEF HasHeader
  <2>2. HasHeader(<<out[j]>>, i, l)
    BY <1>10, <2>1, Zenon DEF HasHeader
  <2> QED
    BY <1>10, <2>2, Zenon DEF Keeps
<1> QED
  BY <1>8, <1>9, <1>11, <1>12 DEF Keeps

(* What File returns covers the symbols, merged or not.                    *)
LEMMA FileChunksCover ==
  ASSUME file \in Files, NEW merge \in BOOLEAN
  PROVE  /\ Proper(FileChunks(merge), 1, Len(file))
         /\ \A y \in Symbols : y \in Symbol /\ Finds(FileChunks(merge), y)
<1>1. 1 \in Nat /\ Len(file) \in Nat
  BY FileFacts
<1>2. Proper(Walk, 1, Len(file)) /\ \A y \in Symbols : y \in Symbol /\ Finds(Walk, y)
  BY WalkCovers
<1>3. Proper(MergeSameKind(Walk), 1, Len(file)) /\ Keeps(Walk, MergeSameKind(Walk))
  BY <1>1, <1>2, MergeFacts
<1> QED
  BY <1>2, <1>3, FindsOn DEF FileChunks

-----------------------------------------------------------------------------
(* Sizes are numbers.                                                      *)

LEMMA SizeType ==
  ASSUME file \in Files, NEW a \in 1 .. Len(file), NEW b \in 1 .. Len(file)
  PROVE  Size(a, b) \in Nat
<1> DEFINE S == a .. b
           w == [x \in S |-> Cost[file[x].what]]
           Sum(h) == [t \in SUBSET S |->
                        IF t = {} THEN 0
                        ELSE Cost[file[CHOOSE x \in t : TRUE].what] + h[t \ {CHOOSE x \in t : TRUE}]]
<1>1. IsFiniteSet(S)
  <2>1. a \in Int /\ b \in Int
    BY FileFacts
  <2> QED
    BY <2>1, FS_Interval
<1>2. w \in [S -> Nat] /\ \A x \in S : w[x] = Cost[file[x].what]
  <2>1. \A x \in a .. b : x \in 1 .. Len(file)
    BY FileFacts
  <2>2. \A x \in a .. b : Cost[file[x].what] \in Nat
    BY <2>1, FileFacts, ChunkerAssumption DEF Line
  <2> QED
    BY <2>2
<1>3. Size(a, b) = (CHOOSE h : h = Sum(h))[S]
  BY Zenon DEF Size, MapThenSumSet, MapThenFoldSet
<1> HIDE DEF S, w
<1>4. ASSUME NEW h
      PROVE  Sums(h, S, w) <=> h = Sum(h)
  <2>1. \A t \in SUBSET S : t # {} =>
          w[CHOOSE x \in t : TRUE] = Cost[file[CHOOSE x \in t : TRUE].what]
    BY <1>2
  <2>2. [t \in SUBSET S |-> IF t = {} THEN 0
                           ELSE w[CHOOSE x \in t : TRUE] + h[t \ {CHOOSE x \in t : TRUE}]] = Sum(h)
    BY <2>1
  <2> QED
    BY <2>2 DEF Sums
<1>5. (\E g : Sums(g, S, w)) /\ \A h : Sums(h, S, w) => h[S] \in Nat
  BY <1>1, <1>2, SumFacts
<1>6. (\E g : g = Sum(g)) /\ \A h : h = Sum(h) => h[S] \in Nat
  BY <1>4, <1>5
<1> QED
  BY <1>3, <1>6, Zenon

LEMMA HeaderSizeType ==
  ASSUME file \in Files, NEW ls \in Seq(Row)
  PROVE  HeaderSize(ls) \in Nat
<1> DEFINE S == DOMAIN ls
           w == [x \in S |-> Size(ls[x][1], ls[x][2])]
           Sum(h) == [t \in SUBSET S |->
                        IF t = {} THEN 0
                        ELSE Size(ls[CHOOSE x \in t : TRUE][1], ls[CHOOSE x \in t : TRUE][2]) + h[t \ {CHOOSE x \in t : TRUE}]]
<1>1. IsFiniteSet(S)
  <2>1. S = 1 .. Len(ls) /\ Len(ls) \in Nat
    OBVIOUS
  <2> QED
    BY <2>1, FS_Interval
<1>2. w \in [S -> Nat] /\ \A x \in S : w[x] = Size(ls[x][1], ls[x][2])
  <2>1. ASSUME NEW x \in S
        PROVE  Size(ls[x][1], ls[x][2]) \in Nat
    <3>1. ls[x] \in Row
      OBVIOUS
    <3>2. ls[x][1] \in 1 .. Len(file) /\ ls[x][2] \in 1 .. Len(file)
      BY <3>1 DEF Row
    <3> QED
      BY <3>2, SizeType
  <2> QED
    BY <2>1
<1>3. HeaderSize(ls) = (CHOOSE h : h = Sum(h))[S]
  BY Zenon DEF HeaderSize, MapThenSumSet, MapThenFoldSet
<1> HIDE DEF S, w
<1>4. ASSUME NEW h
      PROVE  Sums(h, S, w) <=> h = Sum(h)
  <2>1. \A t \in SUBSET S : t # {} =>
          w[CHOOSE x \in t : TRUE] = Size(ls[CHOOSE x \in t : TRUE][1], ls[CHOOSE x \in t : TRUE][2])
    BY <1>2
  <2>2. [t \in SUBSET S |-> IF t = {} THEN 0
                           ELSE w[CHOOSE x \in t : TRUE] + h[t \ {CHOOSE x \in t : TRUE}]] = Sum(h)
    BY <2>1
  <2> QED
    BY <2>2 DEF Sums
<1>5. (\E g : Sums(g, S, w)) /\ \A h : Sums(h, S, w) => h[S] \in Nat
  BY <1>1, <1>2, SumFacts
<1>6. (\E g : g = Sum(g)) /\ \A h : h = Sum(h) => h[S] \in Nat
  BY <1>4, <1>5
<1> QED
  BY <1>3, <1>6, Zenon

LEMMA TextSizeType ==
  ASSUME NEW bs, NEW n \in Nat, DOMAIN bs = 1 .. n, \A k \in 1 .. n : bs[k].size \in Nat
  PROVE  TextSize(bs) \in Nat
<1> DEFINE S == DOMAIN bs
           w == [x \in S |-> bs[x].size]
           Sum(h) == [t \in SUBSET S |->
                        IF t = {} THEN 0
                        ELSE bs[CHOOSE x \in t : TRUE].size + h[t \ {CHOOSE x \in t : TRUE}]]
<1>1. IsFiniteSet(S)
  BY FS_Interval
<1>2. w \in [S -> Nat] /\ \A x \in S : w[x] = bs[x].size
  OBVIOUS
<1>3. TextSize(bs) = (CHOOSE h : h = Sum(h))[S] + Separator * Cardinality(S \ {1})
  BY Zenon DEF TextSize, MapThenSumSet, MapThenFoldSet
<1>7. Separator \in Nat /\ Cardinality(S \ {1}) \in Nat
  <2>1. IsFiniteSet(S \ {1})
    BY <1>1, FS_Subset
  <2> QED
    BY <2>1, FS_CardinalityType, SearchAssumption
<1> HIDE DEF S, w
<1>4. ASSUME NEW h
      PROVE  Sums(h, S, w) <=> h = Sum(h)
  <2>1. \A t \in SUBSET S : t # {} =>
          w[CHOOSE x \in t : TRUE] = bs[CHOOSE x \in t : TRUE].size
    BY <1>2
  <2>2. [t \in SUBSET S |-> IF t = {} THEN 0
                           ELSE w[CHOOSE x \in t : TRUE] + h[t \ {CHOOSE x \in t : TRUE}]] = Sum(h)
    BY <2>1
  <2> QED
    BY <2>2 DEF Sums
<1>5. (\E g : Sums(g, S, w)) /\ \A h : Sums(h, S, w) => h[S] \in Nat
  BY <1>1, <1>2, SumFacts
<1>6. (\E g : g = Sum(g)) /\ \A h : h = Sum(h) => h[S] \in Nat
  BY <1>4, <1>5
<1>8. (CHOOSE h : h = Sum(h))[S] \in Nat
  BY <1>6, Zenon
<1>9. \A x, y, z \in Nat : x + y * z \in Nat
  OBVIOUS
<1> HIDE DEF Sum
<1> QED
  BY <1>3, <1>7, <1>8, <1>9, Zenon

-----------------------------------------------------------------------------
(* The context: what its blocks leave out can be asked for.                *)

Readable(b) ==
  /\ Verbatim(b.chunk) =>
       b.shown \union UNION {a[1] .. a[2] : a \in b.anchors} = b.chunk.start .. b.chunk.last
  /\ \A a \in b.anchors : \E x, y \in 1 .. Len(file) : a = <<x, y>> /\ x <= y

LEMMA FullReadable ==
  ASSUME NEW c
  PROVE  Readable(FullBlock(c))
<1>1. FullBlock(c).chunk = c /\ FullBlock(c).shown = c.start .. c.last /\ FullBlock(c).anchors = {}
  BY DEF FullBlock
<1> DEFINE b == FullBlock(c)
<1> HIDE DEF b
<1>2. UNION {a[1] .. a[2] : a \in {}} = {}
  OBVIOUS
<1>3. b.chunk = c /\ b.shown = c.start .. c.last /\ b.anchors = {}
  BY <1>1 DEF b
<1>4. Readable(b)
  BY <1>2, <1>3 DEF Readable
<1> QED
  BY <1>4 DEF b

(* A body is left out of the middle of a chunk, within the span its anchor *)
(* names.                                                                  *)
LEMMA SkeletonReadable ==
  ASSUME file \in Files, NEW c, Sound(c, 1, Len(file)), Verbatim(c)
  PROVE  Readable(Skeleton(c))
<1> DEFINE T == Targets(c)
           B == UNION {(u.def + 1 .. u.last) \ DocLines(u) : u \in T}
           A == {<<u.first, u.last>> : u \in T}
           shown == (c.start .. c.last) \ B
           b == Skeleton(c)
<1>1. /\ Len(file) \in Nat /\ c.start \in Nat /\ c.last \in Nat
      /\ 1 <= c.start /\ c.start <= c.last /\ c.last <= Len(file)
  BY FileFacts, ChunkType DEF Sound
<1>2. c.start \in 1 .. Len(file) /\ c.last \in c.start .. Len(file)
  BY <1>1
<1>3. ASSUME NEW u \in T
      PROVE  /\ u.first \in Nat /\ u.def \in Nat /\ u.last \in Nat
             /\ c.start <= u.first /\ u.first <= u.def /\ u.def < u.last /\ u.last <= c.last
  <2>1. PICK v \in ToSet(Units(c.start, c.last)) : u = [v EXCEPT !.last = Least(@, c.last)]
    BY Zenon DEF Targets
  <2>2. u.def < u.last
    BY Zenon DEF Targets
  <2>3. v \in Whole /\ v.first \in c.start .. c.last /\ v = Unit(v.first)
    BY <1>2, <2>1, UnitsFacts DEF ToSet
  <2>4. v.first \in 1 .. Len(file)
    BY <1>1, <2>3
  <2>5. v.def \in v.first .. Len(file)
    BY <2>3, <2>4, UnitFacts
  <2>6. v.first \in Nat /\ v.def \in Nat /\ v.last \in Nat
    BY <2>3 DEF Whole
  <2>7. u.first = v.first /\ u.def = v.def /\ u.last = Least(v.last, c.last)
    BY <2>1, <2>3 DEF Whole
  <2>8. Least(v.last, c.last) \in Nat /\ Least(v.last, c.last) <= c.last
    BY <1>1, <2>6 DEF Least
  <2> QED
    BY <1>1, <2>2, <2>3, <2>5, <2>6, <2>7, <2>8
<1>4. b.chunk = c /\ b.shown = shown /\ b.anchors = A
  BY DEF Skeleton
<1> HIDE DEF T, b
<1>5. B \subseteq UNION {a[1] .. a[2] : a \in A}
  <2> SUFFICES ASSUME NEW u \in T, NEW i \in (u.def + 1 .. u.last) \ DocLines(u)
               PROVE  i \in UNION {a[1] .. a[2] : a \in A}
    OBVIOUS
  <2>1. i \in u.first .. u.last
    BY <1>3
  <2>2. PICK a \in A : a = <<u.first, u.last>>
    OBVIOUS
  <2>3. a[1] = u.first /\ a[2] = u.last
    BY <2>2
  <2> HIDE DEF A
  <2>4. i \in a[1] .. a[2]
    BY <2>1, <2>3
  <2> QED
    BY <2>2, <2>4, Zenon
<1>6. UNION {a[1] .. a[2] : a \in A} \subseteq c.start .. c.last
  <2> SUFFICES ASSUME NEW u \in T, NEW i \in u.first .. u.last
               PROVE  i \in c.start .. c.last
    OBVIOUS
  <2> QED
    BY <1>1, <1>3
<1>7. shown \union UNION {a[1] .. a[2] : a \in A} = c.start .. c.last
  <2> HIDE DEF A, B
  <2> QED
    BY <1>5, <1>6
<1>8. ASSUME NEW a \in A
      PROVE  \E x, y \in 1 .. Len(file) : a = <<x, y>> /\ x <= y
  <2>1. PICK u \in T : a = <<u.first, u.last>>
    OBVIOUS
  <2>2. /\ u.first \in Nat /\ u.def \in Nat /\ u.last \in Nat
        /\ c.start <= u.first /\ u.first <= u.def /\ u.def < u.last /\ u.last <= c.last
    BY <1>3
  <2>3. u.first \in 1 .. Len(file) /\ u.last \in 1 .. Len(file) /\ u.first <= u.last
    BY <1>1, <2>2
  <2> QED
    BY <2>1, <2>3
<1> HIDE DEF A, shown
<1>9. Readable(b)
  BY <1>4, <1>7, <1>8, Zenon DEF Readable
<1> QED
  BY <1>9 DEF b

LEMMA RenderedReadable ==
  ASSUME file \in Files, NEW c, Sound(c, 1, Len(file)), NEW b \in Skeletons(c)
  PROVE  Readable(b)
BY FullReadable, SkeletonReadable DEF Skeletons

LEMMA FullSize ==
  ASSUME file \in Files, NEW c, Sound(c, 1, Len(file))
  PROVE  FullBlock(c).size \in Nat
<1>1. /\ Len(file) \in Nat /\ c.start \in 1 .. Len(file) /\ c.last \in 1 .. Len(file)
      /\ c.header \in Seq(Row)
  BY FileFacts, ChunkType DEF Sound
<1>2. Size(c.start, c.last) \in Nat /\ HeaderSize(c.header) \in Nat
  BY <1>1, SizeType, HeaderSizeType
<1>3. ContentSize(c) \in Nat
  BY <1>2 DEF ContentSize
<1> QED
  BY <1>3, SearchAssumption DEF FullBlock

(* The bodies given in full: the top chunk alone, or no more than their    *)
(* share.                                                                  *)
LEMMA FullsFacts ==
  ASSUME file \in Files, NEW r, r \in Seq(ToSet(chunks)), r # <<>>, Proper(chunks, 1, Len(file))
  PROVE  /\ \E n \in 1 .. Len(r) : Fulls(r) = [k \in 1 .. n |-> FullBlock(r[k])]
         /\ Len(Fulls(r)) = 1 \/ TextSize(Fulls(r)) <= Budget
<1> DEFINE bs == [k \in DOMAIN r |-> FullBlock(r[k])]
           Within(n) == \A m \in 2 .. n : TextSize(SubSeq(bs, 1, m)) <= FullBudget
           S == {n \in DOMAIN r : Within(n)}
           n == Max(S)
           fs == [k \in 1 .. n |-> FullBlock(r[k])]
<1>1. Len(r) \in Nat /\ DOMAIN r = 1 .. Len(r) /\ 1 \in DOMAIN r
  OBVIOUS
<1>2. Fulls(r) = SubSeq(bs, 1, n)
  BY Zenon DEF Fulls
<1>3. \A k \in DOMAIN r : Sound(r[k], 1, Len(file))
  <2>1. \A c \in ToSet(chunks) : Sound(c, 1, Len(file))
    BY DEF Proper, ToSet
  <2> QED
    BY <1>1, <2>1
<1>4. Within(1)
  OBVIOUS
<1>b. \A m \in Nat : m \in 1 .. Len(r) => SubSeq(bs, 1, m) = [k \in 1 .. m |-> FullBlock(r[k])]
  BY <1>1
<1> HIDE DEF Within
<1>5. 1 \in S /\ S \subseteq Nat /\ \A x \in S : x <= Len(r)
  BY <1>1, <1>4
<1> HIDE DEF S
<1>6. n \in S
  BY <1>1, <1>5, MaxIsMember
<1>7. n \in 1 .. Len(r) /\ Within(n) /\ n \in Nat
  BY <1>1, <1>6 DEF S
<1> HIDE DEF n
<1>8. SubSeq(bs, 1, n) = fs
  BY <1>7, <1>b
<1>9. TextSize(fs) \in Nat
  <2>1. DOMAIN fs = 1 .. n /\ \A k \in 1 .. n : fs[k].size \in Nat
    BY <1>1, <1>3, <1>7, FullSize
  <2> HIDE DEF fs
  <2> QED
    BY <1>7, <2>1, TextSizeType
<1>10. Len(fs) = n
  BY <1>7
<1>11. n = 1 \/ TextSize(fs) <= Budget
  <2>1. FullBudget \in Nat /\ FullBudget <= Budget /\ Budget \in Nat
    BY SearchAssumption DEF FullBudget
  <2>2. n # 1 => TextSize(SubSeq(bs, 1, n)) <= FullBudget
    BY <1>7 DEF Within
  <2>3. \A x, y, z \in Nat : x <= y /\ y <= z => x <= z
    OBVIOUS
  <2>4. n # 1 => TextSize(fs) <= FullBudget
    BY <1>8, <2>2
  <2> HIDE DEF bs, fs
  <2> QED
    BY <1>9, <2>1, <2>3, <2>4
<1> QED
  BY <1>2, <1>7, <1>8, <1>10, <1>11

-----------------------------------------------------------------------------
(* The specification                                                       *)

ChunksOK == Proper(chunks, 1, Len(file)) /\ \A y \in Symbols : y \in Symbol /\ Finds(chunks, y)

(* The lines of the span from its first to the next asked for are seen.    *)
ReadSoFar ==
  \E x, y \in 1 .. Len(file) :
    /\ anchor = <<x, y>> /\ x <= y
    /\ next \in x .. y /\ x .. next - 1 \subseteq seen

SearchInv ==
  /\ file \in Files
  /\ Indexed => ChunksOK
  /\ pc = "assemble" => ranked \in Seq(ToSet(chunks)) /\ ranked # <<>>
  /\ \A b \in ToSet(context) : Readable(b)
  /\ ContextFits
  /\ pc \notin {"read", "end"} => anchor = <<>>
  /\ pc = "read" => ReadSoFar
  /\ pc = "end" /\ anchor # <<>> => anchor[1] .. anchor[2] \subseteq seen

(* What the chunks are checked against is the file's alone.                *)
LEMMA SameFile ==
  ASSUME UNCHANGED file
  PROVE  /\ \A c : ContentSize(c)' = ContentSize(c)
         /\ Symbols' = Symbols /\ Chunk' = Chunk
<1>1. file' = file
  OBVIOUS
<1>2. \A c : ContentSize(c)' = ContentSize(c)
  BY <1>1, SMT DEF ContentSize, Verbatim, Size, HeaderSize, MapThenSumSet, MapThenFoldSet
<1>3. Symbols' = Symbols
  BY <1>1, SMTT(60) DEF Symbols, SymbolsOf, SymbolOf, Assigned, InClass, Members, What, Units,
       Begins, Unit, DefLine, LastLine, FoldLeft, MapThenFoldSet
<1>4. Chunk' = Chunk
  BY <1>1 DEF Chunk, Row
<1> QED
  BY <1>2, <1>3, <1>4

LEMMA ChunksStay ==
  ASSUME UNCHANGED file, NEW s, chunks' = s, Proper(s, 1, Len(file)),
         \A y \in Symbols : y \in Symbol /\ Finds(s, y)
  PROVE  ChunksOK'
<1>1. ASSUME NEW c, Sound(c, 1, Len(file))
      PROVE  Sound(c, 1, Len(file))'
  BY <1>1, SameFile DEF Sound, Small, Verbatim
<1>2. Proper(chunks, 1, Len(file))'
  <2>1. s \in Seq(Chunk')
    BY SameFile DEF Proper
  <2>2. \A k \in DOMAIN s : Sound(s[k], 1, Len(file))'
    BY <1>1 DEF Proper
  <2>3. \A j, k \in DOMAIN s :
          j < k /\ Verbatim(s[j]) /\ Verbatim(s[k]) => s[j].last < s[k].start
    BY DEF Proper
  <2> QED
    BY <2>1, <2>2, <2>3 DEF Proper, Verbatim
<1>3. ASSUME NEW y, Finds(s, y)
      PROVE  Finds(chunks, y)'
  BY <1>3 DEF Finds, HasLine, HasHeader, Verbatim
<1> QED
  BY <1>2, <1>3, SameFile DEF ChunksOK, Symbol

LEMMA SearchInitially == Init => SearchInv
<1> SUFFICES ASSUME Init
             PROVE  SearchInv
  OBVIOUS
<1>1. file \in Files /\ pc = "index" /\ context = <<>> /\ anchor = <<>>
  BY DEF Init, ChunkerInit
<1>2. ToSet(context) = {}
  BY <1>1 DEF ToSet
<1> QED
  BY <1>1, <1>2 DEF SearchInv, Indexed, ContextFits

LEMMA IndexKeeps ==
  ASSUME SearchInv, Index
  PROVE  SearchInv'
<1>1. /\ pc = "index" /\ pc' = "search" /\ UNCHANGED <<file, ranked, context, counts, anchor, next, seen>>
      /\ \E merge \in Merges : chunks' = FileChunks(merge)
  BY DEF Index, ChunkFile, reading
<1>2. PICK merge \in Merges : chunks' = FileChunks(merge)
  BY <1>1
<1>3. merge \in BOOLEAN /\ file \in Files
  BY ChunkerAssumption DEF SearchInv
<1>4. ChunksOK'
  <2> DEFINE s == FileChunks(merge)
  <2>1. Proper(s, 1, Len(file)) /\ \A y \in Symbols : y \in Symbol /\ Finds(s, y)
    BY <1>3, FileChunksCover
  <2>2. chunks' = s /\ UNCHANGED file
    BY <1>1, <1>2
  <2> HIDE DEF s
  <2> QED
    BY <2>1, <2>2, ChunksStay
<1>5. \A b \in ToSet(context)' : Readable(b)'
  BY <1>1 DEF SearchInv, Readable, ToSet, Verbatim
<1> QED
  BY <1>1, <1>4, <1>5 DEF SearchInv, ContextFits

(* A step that changes neither the file nor the chunks.                    *)
LEMMA ChunksKept ==
  ASSUME SearchInv, UNCHANGED <<file, chunks>>, Indexed
  PROVE  ChunksOK'
<1> DEFINE s == chunks
<1>1. Proper(s, 1, Len(file)) /\ \A y \in Symbols : y \in Symbol /\ Finds(s, y)
  BY DEF SearchInv, ChunksOK
<1>2. chunks' = s
  OBVIOUS
<1> HIDE DEF s
<1> QED
  BY <1>1, <1>2, ChunksStay

LEMMA BlocksKept ==
  ASSUME SearchInv, UNCHANGED <<file, context>>
  PROVE  \A b \in ToSet(context)' : Readable(b)'
BY DEF SearchInv, Readable, ToSet, Verbatim

LEMMA SameText ==
  ASSUME UNCHANGED context
  PROVE  TextSize(context)' = TextSize(context) /\ Len(context)' = Len(context)
<1>1. context' = context
  OBVIOUS
<1>2. TextSize(context)' = TextSize(context)
  BY <1>1, SMT DEF TextSize, MapThenSumSet, MapThenFoldSet
<1> QED
  BY <1>1, <1>2

LEMMA RetrieveKeeps ==
  ASSUME SearchInv, Retrieve
  PROVE  SearchInv'
<1>1. /\ pc = "search" /\ UNCHANGED <<file, chunks, context, counts, anchor, next, seen>>
      /\ ranked' \in BoundedSeq(ToSet(chunks), TopK)
      /\ pc' = IF ranked' = <<>> THEN "end" ELSE "assemble"
  BY DEF Retrieve, reading
<1>2. ranked' \in Seq(ToSet(chunks))
  <2>1. PICK m \in 0 .. TopK : ranked' \in [1 .. m -> ToSet(chunks)]
    BY <1>1, Zenon DEF BoundedSeq, SeqOf
  <2>2. m \in Nat
    BY <2>1, SearchAssumption
  <2> QED
    BY <2>1, <2>2
<1>3. ToSet(chunks)' = ToSet(chunks)
  BY <1>1 DEF ToSet
<1>4. ChunksOK' /\ \A b \in ToSet(context)' : Readable(b)'
  BY <1>1, ChunksKept, BlocksKept DEF Indexed
<1> QED
  BY <1>1, <1>2, <1>3, <1>4 DEF SearchInv, ContextFits, Indexed

LEMMA FollowAnchorKeeps ==
  ASSUME SearchInv, FollowAnchor
  PROVE  SearchInv'
<1>1. /\ pc = "context" /\ pc' = "read" /\ next' = anchor'[1] /\ seen' = {}
      /\ UNCHANGED <<file, chunks, ranked, context, counts>>
      /\ \E b \in ToSet(context) : anchor' \in b.anchors
  BY DEF FollowAnchor
<1>2. PICK x, y \in 1 .. Len(file) : anchor' = <<x, y>> /\ x <= y
  BY <1>1 DEF SearchInv, Readable
<1>3. next' = x /\ x \in x .. y /\ x .. x - 1 = {}
  BY <1>1, <1>2
<1>4. ReadSoFar'
  BY <1>1, <1>2, <1>3 DEF ReadSoFar
<1>5. ChunksOK' /\ \A b \in ToSet(context)' : Readable(b)'
  BY <1>1, ChunksKept, BlocksKept DEF Indexed
<1>6. ContextFits'
  BY <1>1, SameText DEF SearchInv, ContextFits
<1> QED
  BY <1>1, <1>4, <1>5, <1>6 DEF SearchInv

(* A call returns lines from the one it asks for on; the agent has read    *)
(* the span as soon as one reaches its end.                                *)
LEMMA ReadFileKeeps ==
  ASSUME SearchInv, ReadFile
  PROVE  SearchInv'
<1>1. PICK x, y \in 1 .. Len(file) :
        anchor = <<x, y>> /\ x <= y /\ next \in x .. y /\ x .. next - 1 \subseteq seen
  BY DEF SearchInv, ReadSoFar, ReadFile
<1>2. PICK starts \in Aliases(next), ends \in Aliases(anchor[2]) \union {<<0, 0, 0>>} :
        LET end == EndLine(starts, ends, FileLines)
        IN  /\ seen' = seen \union (StartLine(starts) .. end)
            /\ next' = end + 1
            /\ pc' = IF end >= anchor[2] THEN "end" ELSE "read"
  BY DEF ReadFile
<1> DEFINE end == EndLine(starts, ends, FileLines)
<1>3. /\ pc = "read" /\ UNCHANGED <<file, chunks, ranked, context, counts, anchor>>
      /\ seen' = seen \union (StartLine(starts) .. end)
      /\ next' = end + 1 /\ pc' = IF end >= y THEN "end" ELSE "read"
  BY <1>1, <1>2 DEF ReadFile
<1>4. Len(file) \in Nat /\ next \in Nat /\ next >= 1 /\ x \in Nat /\ y \in Nat
  BY <1>1, FileFacts DEF SearchInv
<1>5. StartLine(starts) = next
  BY <1>4 DEF Aliases, StartLine, FirstPositive, Most
<1>6. end \in Nat /\ end >= next
  <2>1. FirstPositive(ends) \in Nat
    BY <1>1, <1>4 DEF Aliases, FirstPositive
  <2>2. MaxLines \in Nat \ {0} /\ FileLines \in Nat
    BY <1>4, ToolsAssumption DEF FileLines
  <2> QED
    BY <1>4, <1>5, <2>1, <2>2 DEF EndLine, EndAsked, Least, Most
<1> HIDE DEF end
<1>7. x .. end \subseteq seen'
  <2>1. ASSUME NEW i \in x .. end
        PROVE  i \in x .. next - 1 \/ i \in next .. end
    BY <1>1, <1>4, <1>6
  <2> QED
    BY <1>1, <1>3, <1>5, <2>1
<1>8. pc' = "read" => ReadSoFar'
  <2> SUFFICES ASSUME pc' = "read"
               PROVE  ReadSoFar'
    OBVIOUS
  <2>1. ~ (end >= y)
    BY <1>3
  <2>2. next' \in x .. y /\ next' - 1 = end
    BY <1>1, <1>3, <1>4, <1>6, <2>1
  <2> QED
    BY <1>1, <1>3, <1>7, <2>2 DEF ReadSoFar
<1>9. pc' = "end" => anchor'[1] .. anchor'[2] \subseteq seen'
  <2> SUFFICES ASSUME pc' = "end"
               PROVE  x .. y \subseteq seen'
    BY <1>1, <1>3
  <2>1. end >= y
    BY <1>3
  <2> QED
    BY <1>4, <1>6, <1>7, <2>1
<1>10. ChunksOK' /\ \A b \in ToSet(context)' : Readable(b)'
  BY <1>3, ChunksKept, BlocksKept DEF Indexed
<1>11. ContextFits'
  BY <1>3, SameText DEF SearchInv, ContextFits
<1>12. pc' \in {"read", "end"}
  BY <1>3
<1> QED
  BY <1>3, <1>8, <1>9, <1>10, <1>11, <1>12 DEF SearchInv

LEMMA AssembleKeeps ==
  ASSUME SearchInv, Assemble
  PROVE  SearchInv'
<1> DEFINE fulls == Fulls(ranked)
           cs == SubSeq(ranked, Len(fulls) + 1, Len(ranked))
<1>1. pc = "assemble" /\ pc' = "context" /\ UNCHANGED <<file, chunks, ranked, anchor, next, seen>>
  BY DEF Assemble, reading
<1>2. PICK skels \in Rendered(cs) :
        LET kept == Kept(fulls, skels)
        IN  /\ context' = fulls \o kept
            /\ counts' = [full |-> Len(fulls), skeleton |-> Len(kept),
                          dropped |-> Len(skels) - Len(kept)]
  BY Zenon DEF Assemble
<1> DEFINE kept == Kept(fulls, skels)
<1>3. context' = fulls \o kept /\ counts'.full = Len(fulls)
  BY <1>2
<1>4. /\ file \in Files /\ ranked \in Seq(ToSet(chunks)) /\ ranked # <<>>
      /\ Proper(chunks, 1, Len(file))
  BY <1>1 DEF SearchInv, ChunksOK, Indexed
<1>5. PICK n \in 1 .. Len(ranked) : fulls = [k \in 1 .. n |-> FullBlock(ranked[k])]
  BY <1>4, FullsFacts
<1>6. Len(fulls) = 1 \/ TextSize(fulls) <= Budget
  BY <1>4, FullsFacts
<1>7. \A c \in ToSet(chunks) : Sound(c, 1, Len(file))
  BY <1>4 DEF Proper, ToSet
<1>8. /\ fulls \in Seq({FullBlock(c) : c \in ToSet(chunks)}) /\ Len(fulls) = n /\ n \in Nat
      /\ \A k \in 1 .. n : fulls[k] = FullBlock(ranked[k])
  BY <1>4, <1>5
<1> HIDE DEF fulls
<1>9. /\ cs \in Seq(ToSet(chunks))
  BY <1>4, <1>8
<1> HIDE DEF cs
<1>10. /\ \A k \in DOMAIN skels : skels[k] \in Skeletons(cs[k]) /\ cs[k] \in ToSet(chunks)
       /\ skels \in [1 .. Len(cs) -> UNION {Skeletons(cs[k]) : k \in DOMAIN cs}] /\ Len(cs) \in Nat
  BY <1>9 DEF Rendered
<1> DEFINE S == {i \in DOMAIN skels : TextSize(fulls \o SubSeq(skels, 1, i)) <= Budget} \union {0}
           m == Max(S)
<1>11. kept = SubSeq(skels, 1, m)
  BY Zenon DEF Kept
<1>12. m \in S /\ m \in 0 .. Len(cs)
  <2>1. S \subseteq Nat /\ S # {} /\ \A x \in S : x <= Len(cs)
    BY <1>10
  <2> HIDE DEF S
  <2>2. m \in S
    BY <1>10, <2>1, MaxIsMember
  <2> HIDE DEF m
  <2>3. Len(cs) \in Nat /\ m \in Nat /\ m <= Len(cs)
    BY <1>10, <2>1, <2>2
  <2> QED
    BY <2>2, <2>3
<1>13. m = 0 \/ TextSize(fulls \o SubSeq(skels, 1, m)) <= Budget
  BY <1>12
<1> HIDE DEF m, S
<1> DEFINE T == UNION {Skeletons(c) : c \in ToSet(chunks)}
<1>14. skels \in Seq(T) /\ Len(skels) = Len(cs)
  <2>1. \A k \in 1 .. Len(cs) : skels[k] \in T
    BY <1>10
  <2> HIDE DEF T
  <2> QED
    BY <1>10, <2>1
<1>15. SubSeq(skels, 1, m) \in Seq(T) /\ (m = 0 => SubSeq(skels, 1, m) = <<>>)
  <2> HIDE DEF T
  <2>1. m \in 0 .. Len(skels) /\ skels \in Seq(T) /\ Len(skels) \in Nat
    BY <1>10, <1>12, <1>14
  <2>2. SubSeq(skels, 1, m) = [k \in 1 .. m |-> skels[k]]
    BY <2>1
  <2>3. m \in Nat /\ \A k \in 1 .. m : skels[k] \in T
    BY <2>1
  <2>4. m = 0 => [k \in 1 .. m |-> skels[k]] = <<>>
    OBVIOUS
  <2> QED
    BY <2>2, <2>3, <2>4
<1> HIDE DEF kept
<1>16. kept \in Seq(T)
  BY <1>11, <1>15
<1>17. ChunksOK'
  BY <1>1, ChunksKept DEF Indexed
<1>18. ASSUME NEW b \in ToSet(context)'
       PROVE  Readable(b)'
  <2> DEFINE F == {FullBlock(c) : c \in ToSet(chunks)}
  <2>1. PICK k \in DOMAIN context' : b = context'[k]
    BY <1>18 DEF ToSet
  <2> HIDE DEF T, F
  <2>2. fulls \in Seq(F \union T) /\ kept \in Seq(F \union T)
    BY <1>8, <1>16 DEF F
  <2>3. b \in F \union T
    <3> DEFINE R == F \union T
               cx == fulls \o kept
    <3> HIDE DEF R
    <3>1. fulls \in Seq(R) /\ kept \in Seq(R)
      BY <2>2 DEF R
    <3>2. cx \in Seq(R)
      BY <3>1
    <3> HIDE DEF cx
    <3>3. b = cx[k] /\ k \in DOMAIN cx
      BY <1>3, <2>1 DEF cx
    <3>4. b \in R
      BY <3>2, <3>3
    <3> QED
      BY <3>4 DEF R
  <2>4. Readable(b)
    <3>1. CASE b \in F
      BY <3>1, FullReadable DEF F
    <3>2. CASE b \in T
      BY <1>4, <1>7, <3>2, RenderedReadable DEF T
    <3> QED
      BY <2>3, <3>1, <3>2
  <2> QED
    BY <1>1, <2>4 DEF Readable, Verbatim
<1>19. ContextFits'
  <2> DEFINE cx == fulls \o kept
  <2>1. TextSize(cx) <= Budget \/ (Len(cx) = 1 /\ Len(fulls) = 1)
    <3>1. CASE m = 0
      <4>1. kept = <<>>
        BY <1>11, <1>15, <3>1
      <4>2. cx = fulls
        BY <1>8, <4>1
      <4> QED
        BY <1>6, <4>2
    <3>2. CASE m # 0
      BY <1>11, <1>13, <3>2
    <3> QED
      BY <3>1, <3>2
  <2>2. TextSize(context)' = TextSize(cx) /\ Len(context)' = Len(cx)
    <3> HIDE DEF cx
    <3>1. context' = cx
      BY <1>3 DEF cx
    <3>2. TextSize(context)' = TextSize(cx)
      BY <3>1, SMT DEF TextSize, MapThenSumSet, MapThenFoldSet
    <3> QED
      BY <3>1, <3>2
  <2> QED
    BY <1>3, <2>1, <2>2 DEF ContextFits
<1> QED
  BY <1>1, <1>17, <1>18, <1>19 DEF SearchInv

LEMMA StutterKeeps ==
  ASSUME SearchInv, UNCHANGED vars
  PROVE  SearchInv'
<1>1. UNCHANGED <<file, chunks, pc, ranked, context, counts, anchor, next, seen>>
  BY DEF vars
<1>2. Indexed' => ChunksOK'
  BY <1>1, ChunksKept DEF Indexed
<1>3. \A b \in ToSet(context)' : Readable(b)'
  BY <1>1, BlocksKept
<1>4. ContextFits'
  BY <1>1, SameText DEF SearchInv, ContextFits
<1>5. ToSet(chunks)' = ToSet(chunks)
  BY <1>1 DEF ToSet
<1> QED
  BY <1>1, <1>2, <1>3, <1>4, <1>5 DEF SearchInv, ReadSoFar

(* What the steps keep true.  (chunk.File, compress.Assemble, read_file)   *)
THEOREM SearchInvariant == Spec => []SearchInv
<1>1. Init => SearchInv
  BY SearchInitially
<1>2. SearchInv /\ [Next]_vars => SearchInv'
  BY IndexKeeps, RetrieveKeeps, AssembleKeeps, FollowAnchorKeeps, ReadFileKeeps, StutterKeeps
  DEF Next
<1> QED
  BY <1>1, <1>2, PTL DEF Spec

(* A chunk is over the budget only where nothing smaller can be cut.       *)
(* (chunk.emitLineSplit, chunk.capToBudget, chunk.mergeSameKind)           *)
THEOREM BudgetTheorem == Spec => []WithinBudget
<1>1. SearchInv => WithinBudget
  BY DEF SearchInv, ChunksOK, Proper, Sound, Small, WithinBudget, ToSet
<1> QED
  BY <1>1, SearchInvariant, PTL

(* Each line of a function is in one chunk and no other, and a class has a *)
(* header.  (chunk.walk, chunk.emitFunc, chunk.mergeSameKind)              *)
THEOREM IndexedTheorem == Spec => []SymbolsIndexed
<1>1. SearchInv => SymbolsIndexed
  <2> SUFFICES ASSUME SearchInv, Indexed, NEW s \in Symbols
               PROVE  CASE s.kind \in {"function", "method"} ->
                             \A i \in s.start .. s.end : Cardinality(QuotedBy(i)) = 1
                        [] s.kind = "class" ->
                             \E c \in ToSet(chunks) :
                               ~ Verbatim(c) /\ Span(s) = Span(c) /\ c.header[1][1] = s.start
                        [] OTHER -> TRUE
    BY Zenon DEF SymbolsIndexed
  <2>1. Proper(chunks, 1, Len(file)) /\ s \in Symbol /\ Finds(chunks, s)
    BY DEF SearchInv, ChunksOK
  <2>2. ASSUME NEW i, HasLine(chunks, i)
        PROVE  Cardinality(QuotedBy(i)) = 1
    <3>1. PICK k \in DOMAIN chunks : Verbatim(chunks[k]) /\ i \in chunks[k].start .. chunks[k].last
      BY <2>2 DEF HasLine
    <3>2. ASSUME NEW j \in DOMAIN chunks, NEW l \in DOMAIN chunks, j < l,
                 j \in QuotedBy(i), l \in QuotedBy(i)
          PROVE  FALSE
      <4>1. chunks[j].last < chunks[l].start
        BY <2>1, <3>2 DEF Proper, QuotedBy
      <4>2. chunks[j] \in Chunk /\ chunks[l] \in Chunk
        BY <2>1 DEF Proper
      <4>3. chunks[j].last \in Nat /\ chunks[l].start \in Nat /\ chunks[j].start \in Nat
        BY <4>2, ChunkType
      <4>4. i \in chunks[j].start .. chunks[j].last /\ i \in chunks[l].start .. chunks[l].last
        BY <3>2 DEF QuotedBy
      <4> QED
        BY <4>1, <4>3, <4>4
    <3>3. DOMAIN chunks \subseteq Nat /\ k \in QuotedBy(i) /\ QuotedBy(i) \subseteq DOMAIN chunks
      BY <2>1, <3>1 DEF Proper, QuotedBy
    <3>4. ASSUME NEW j \in QuotedBy(i)
          PROVE  j = k
      <4>1. j \in Nat /\ k \in Nat /\ j \in DOMAIN chunks
        BY <3>3
      <4>2. ~ (j < k) /\ ~ (k < j)
        BY <3>2, <3>3, <3>4
      <4> QED
        BY <4>1, <4>2
    <3>5. QuotedBy(i) = {k}
      BY <3>3, <3>4
    <3> QED
      BY <3>5, FS_Singleton
  <2>3. CASE s.kind \in {"function", "method"}
    <3>1. \A i \in s.start .. s.end : HasLine(chunks, i)
      BY <2>1, <2>3, Zenon DEF Finds
    <3>2. \A i \in s.start .. s.end : Cardinality(QuotedBy(i)) = 1
      BY <2>2, <3>1
    <3> QED
      BY <2>3, <3>2
  <2>4. CASE s.kind = "class"
    <3>1. HasHeader(chunks, s.start, s.end)
      BY <2>1, <2>4 DEF Finds
    <3>2. \E c \in ToSet(chunks) : ~ Verbatim(c) /\ Span(s) = Span(c) /\ c.header[1][1] = s.start
      BY <3>1 DEF HasHeader, Span, ToSet
    <3> QED
      BY <2>4, <3>2
  <2>5. CASE s.kind \notin {"class", "function", "method"}
    BY <2>5
  <2> QED
    BY <2>3, <2>4, <2>5
<1> QED
  BY <1>1, SearchInvariant, PTL

(* The text of a search exceeds its budget only by a top chunk that stands *)
(* alone.  (compress.Assemble)                                             *)
THEOREM ContextTheorem == Spec => []ContextFits
<1>1. SearchInv => ContextFits
  BY DEF SearchInv
<1> QED
  BY <1>1, SearchInvariant, PTL

(* What the context leaves out can be read back from its anchors.          *)
(* (compress.skeletonize, compress.Assemble, readFileTool.Call)            *)
THEOREM OmissionsTheorem == Spec => []OmissionsRecoverable
<1>1. SearchInv => OmissionsRecoverable
  BY DEF SearchInv, Readable, OmissionsRecoverable
<1> QED
  BY <1>1, SearchInvariant, PTL

-----------------------------------------------------------------------------
LEMMA FirstPositiveType ==
  ASSUME NEW a \in Int \X Int \X Int
  PROVE  FirstPositive(a) \in Nat
BY DEF FirstPositive

(* A call of read_file that does not fail returns one line or more, from   *)
(* the line asked for, in the file and no more than the cap; and it stops  *)
(* short of the end asked for only at the cap or at the end of the file.   *)
(* (readFileTool.Call)                                                     *)
THEOREM WindowTheorem ==
  ASSUME NEW starts \in Int \X Int \X Int, NEW ends \in Int \X Int \X Int,
         NEW lines \in Nat, ~ PastEOF(starts, lines)
  PROVE  LET start == StartLine(starts)
             end == EndLine(starts, ends, lines)
             asked == EndAsked(starts, ends)
         IN  /\ 1 <= start /\ start <= end /\ end <= lines
             /\ end - start < MaxLines
             /\ end < asked => end = lines \/ end = start + MaxLines - 1
<1>1. FirstPositive(starts) \in Nat /\ FirstPositive(ends) \in Nat
  BY FirstPositiveType
<1>2. MaxLines \in Nat \ {0}
  BY ToolsAssumption
<1> QED
  BY <1>1, <1>2 DEF PastEOF, StartLine, EndLine, EndAsked, Least, Most
=============================================================================
