----------------------------- MODULE DataLemmas ------------------------------
(***************************************************************************)
(* What the proofs of several modules need of numbers and of folds over    *)
(* finite sets.  An induction is written without a predicate parameter: a  *)
(* set of numbers that has 0 and the successor of each of its members      *)
(* holds them all, and what defines a fold has a solution, whatever its    *)
(* step is (a function here).                                              *)
(***************************************************************************)
EXTENDS Integers, Sequences, FiniteSets, FiniteSetsExt, FunctionTheorems,
        FiniteSetTheorems, WellFoundedInduction, TLAPS

(* A set of natural numbers has a least one.                               *)
LEMMA LeastExists ==
  ASSUME NEW S, S \subseteq Nat, S # {}
  PROVE  \E i \in S : \A j \in S : i <= j
<1>1. \E i \in S : \A j \in S : ~ (<<j, i>> \in OpToRel(<, Nat))
  BY NatLessThanWellFounded, WFMin
<1>2. PICK i \in S : \A j \in S : ~ (<<j, i>> \in OpToRel(<, Nat))
  BY <1>1
<1>3. \A j \in S : ~ (j < i)
  BY <1>2 DEF OpToRel
<1> QED
  BY <1>3

(* Induction, for the numbers a set holds.                                 *)
LEMMA NatSet ==
  ASSUME NEW S, 0 \in S, \A n \in Nat : n \in S => n + 1 \in S
  PROVE  Nat \subseteq S
<1> SUFFICES ASSUME NEW m \in Nat, m \notin S
             PROVE  FALSE
  OBVIOUS
<1>1. PICK i \in Nat \ S : \A j \in Nat \ S : i <= j
  BY LeastExists
<1>2. i # 0 /\ i - 1 \in Nat
  OBVIOUS
<1>3. i - 1 \in S
  BY <1>1, <1>2
<1> QED
  BY <1>2, <1>3

(* A bounded set of natural numbers has a greatest one.                    *)
LEMMA MaxIsMember ==
  ASSUME NEW S, S \subseteq Nat, S # {}, NEW n \in Nat, \A x \in S : x <= n
  PROVE  Max(S) \in S /\ \A y \in S : y <= Max(S)
<1> DEFINE D == {k \in Nat : k <= n /\ n - k \in S}
<1>1. \A x \in S : n - x \in D
  OBVIOUS
<1>2. PICK k \in D : \A j \in D : k <= j
  BY <1>1, LeastExists
<1>3. n - k \in S /\ \A y \in S : n - k >= y
  BY <1>1, <1>2
<1> QED
  BY <1>3 DEF Max

(* A subset that misses a member is smaller.                               *)
LEMMA FewerMembers ==
  ASSUME NEW S, IsFiniteSet(S), NEW U, U \subseteq S, NEW v \in S, v \notin U
  PROVE  /\ IsFiniteSet(U) /\ Cardinality(U) \in Nat /\ Cardinality(S) \in Nat
         /\ Cardinality(U) + 1 <= Cardinality(S)
<1>1. IsFiniteSet(U) /\ Cardinality(U) \in Nat /\ Cardinality(S) \in Nat
  BY FS_Subset, FS_CardinalityType
<1>2. Cardinality(U \cup {v}) = Cardinality(U) + 1
  BY <1>1, FS_AddElement
<1>3. U \cup {v} \in SUBSET S
  OBVIOUS
<1>4. Cardinality(U \cup {v}) <= Cardinality(S)
  BY <1>3, FS_Subset
<1> QED
  BY <1>1, <1>2, <1>4

-----------------------------------------------------------------------------
(* Folds.  c says which member of a set is taken next, f is the step.      *)

Chooses(c, S) == \A s \in SUBSET S : s # {} => c[s] \in s

Closed(f, S, R) == \A x \in S, r \in R : f[<<x, r>>] \in R

Folds(h, S, c, f, base) ==
  h = [s \in SUBSET S |-> IF s = {} THEN base ELSE f[<<c[s], h[s \ {c[s]}]>>]]

(* What is left after a member is taken is smaller.                        *)
LEMMA Smaller ==
  ASSUME NEW S, IsFiniteSet(S), NEW x \in S
  PROVE  /\ IsFiniteSet(S \ {x}) /\ Cardinality(S) \in Nat \ {0}
         /\ Cardinality(S \ {x}) = Cardinality(S) - 1
<1>1. Cardinality(S) \in Nat /\ (Cardinality(S) = 0 <=> S = {})
  BY FS_CardinalityType, FS_EmptySet
<1> QED
  BY <1>1, FS_RemoveElement

(* Induction along a fold: what holds of the empty set and of a set as     *)
(* soon as it holds without the member taken holds of every set.  R[s] are *)
(* the values allowed for s.                                               *)
LEMMA FoldInduction ==
  ASSUME NEW S, IsFiniteSet(S), NEW R, NEW c, NEW h,
         Chooses(c, S),
         h[{}] \in R[{}],
         \A s \in SUBSET S : s # {} /\ h[s \ {c[s]}] \in R[s \ {c[s]}] => h[s] \in R[s]
  PROVE  \A s \in SUBSET S : h[s] \in R[s]
<1> DEFINE N == {n \in Nat : \A s \in SUBSET S : Cardinality(s) = n => h[s] \in R[s]}
<1>1. \A s \in SUBSET S : IsFiniteSet(s) /\ Cardinality(s) \in Nat
  BY FS_Subset, FS_CardinalityType
<1>2. 0 \in N
  <2>1. ASSUME NEW s \in SUBSET S, Cardinality(s) = 0
        PROVE  s = {}
    BY <1>1, <2>1, FS_EmptySet
  <2> QED
    BY <2>1
<1>3. ASSUME NEW n \in Nat, n \in N
      PROVE  n + 1 \in N
  <2>1. SUFFICES ASSUME NEW s \in SUBSET S, Cardinality(s) = n + 1
                 PROVE  h[s] \in R[s]
    OBVIOUS
  <2>2. s = {} => Cardinality(s) = 0
    BY FS_EmptySet, Zenon
  <2>3. s # {} /\ c[s] \in s /\ s \ {c[s]} \in SUBSET S
    BY <2>1, <2>2 DEF Chooses
  <2>4. Cardinality(s \ {c[s]}) = n
    BY <1>1, <2>1, <2>3, Smaller
  <2> QED
    BY <1>3, <2>3, <2>4
<1> QED
  BY <1>1, <1>2, <1>3, NatSet

(* What defines a fold has a solution.                                     *)
LEMMA FoldExists ==
  ASSUME NEW S, IsFiniteSet(S), NEW R, NEW base \in R, NEW c, NEW f,
         Chooses(c, S), Closed(f, S, R)
  PROVE  \E h \in [SUBSET S -> R] : Folds(h, S, c, f, base)
<1> DEFINE Up(n) == {s \in SUBSET S : Cardinality(s) <= n}
           Value(h, s) == IF s = {} THEN base ELSE f[<<c[s], h[s \ {c[s]}]>>]
           N == {n \in Nat : \E h \in [Up(n) -> R] : \A s \in Up(n) : h[s] = Value(h, s)}
<1>1. \A s \in SUBSET S : IsFiniteSet(s) /\ Cardinality(s) \in Nat
  BY FS_Subset, FS_CardinalityType
<1>2. ASSUME NEW s \in SUBSET S, s # {}
      PROVE  /\ s \ {c[s]} \in SUBSET S /\ c[s] \in S
             /\ Cardinality(s \ {c[s]}) = Cardinality(s) - 1
  BY <1>1, <1>2, Smaller DEF Chooses
<1>3. 0 \in N
  <2>1. Up(0) = {{}}
    BY <1>1, FS_EmptySet
  <2>2. [s \in Up(0) |-> base] \in [Up(0) -> R]
    OBVIOUS
  <2> QED
    BY <2>1, <2>2
<1>4. ASSUME NEW n \in Nat, n \in N
      PROVE  n + 1 \in N
  <2>1. PICK h \in [Up(n) -> R] : \A s \in Up(n) : h[s] = Value(h, s)
    BY <1>4
  <2> DEFINE g == [s \in Up(n + 1) |-> Value(h, s)]
  <2>2. ASSUME NEW s \in Up(n + 1), s # {}
        PROVE  s \ {c[s]} \in Up(n)
    BY <1>1, <1>2, <2>2
  <2>3. \A s \in Up(n + 1) : Value(h, s) \in R
    BY <1>2, <2>1, <2>2 DEF Closed
  <2>4. ASSUME NEW s \in Up(n)
        PROVE  s \in Up(n + 1) /\ g[s] = h[s]
    BY <1>1, <2>1
  <2>5. ASSUME NEW s \in Up(n + 1)
        PROVE  g[s] = Value(g, s)
    <3>1. CASE s = {}
      BY <3>1
    <3>2. CASE s # {}
      BY <2>2, <2>4, <3>2
    <3> QED
      BY <3>1, <3>2
  <2>6. g \in [Up(n + 1) -> R]
    BY <2>3
  <2> HIDE DEF g, Up, Value
  <2>7. \E k \in [Up(n + 1) -> R] : \A s \in Up(n + 1) : k[s] = Value(k, s)
    BY <2>5, <2>6
  <2> QED
    BY <2>7
<1>5. Cardinality(S) \in N
  BY <1>1, <1>3, <1>4, NatSet
<1>6. Up(Cardinality(S)) = SUBSET S
  BY <1>1, FS_Subset
<1>7. PICK h \in [SUBSET S -> R] : \A s \in SUBSET S : h[s] = Value(h, s)
  BY <1>5, <1>6
<1>8. Folds(h, S, c, f, base)
  BY <1>7 DEF Folds
<1> QED
  BY <1>8

(* Sums.  w gives what each member adds.                                   *)
Sums(h, S, w) ==
  h = [t \in SUBSET S |-> IF t = {} THEN 0
                           ELSE w[CHOOSE x \in t : TRUE] + h[t \ {CHOOSE x \in t : TRUE}]]

(* A sum over any of the members is a number.                              *)
LEMMA SumsType ==
  ASSUME NEW S, IsFiniteSet(S), NEW w \in [S -> Nat], NEW h, Sums(h, S, w)
  PROVE  \A t \in SUBSET S : h[t] \in Nat
<1> DEFINE c == [t \in SUBSET S |-> CHOOSE x \in t : TRUE]
           R == [t \in SUBSET S |-> Nat]
<1>1. \A t \in SUBSET S : t # {} => c[t] \in t
  OBVIOUS
<1>2. \A t \in SUBSET S : h[t] = IF t = {} THEN 0 ELSE w[c[t]] + h[t \ {c[t]}]
  BY Zenon DEF Sums
<1> HIDE DEF c
<1>3. Chooses(c, S)
  BY <1>1 DEF Chooses
<1>4. h[{}] \in R[{}]
  <2>1. {} \in SUBSET S
    OBVIOUS
  <2>2. h[{}] = 0 /\ R[{}] = Nat
    BY <1>2, <2>1
  <2> QED
    BY <2>2
<1>5. ASSUME NEW t \in SUBSET S, t # {}, h[t \ {c[t]}] \in R[t \ {c[t]}]
      PROVE  h[t] \in R[t]
  <2>1. h[t] = w[c[t]] + h[t \ {c[t]}] /\ c[t] \in S
    BY <1>1, <1>2, <1>5
  <2> QED
    BY <1>5, <2>1
<1>6. \A t \in SUBSET S : h[t] \in R[t]
  <2> HIDE DEF R
  <2> QED
    BY <1>3, <1>4, <1>5, FoldInduction
<1> QED
  BY <1>6

(* There is such a sum.                                                    *)
LEMMA SumFacts ==
  ASSUME NEW S, IsFiniteSet(S), NEW w \in [S -> Nat]
  PROVE  (\E g : Sums(g, S, w)) /\ \A h : Sums(h, S, w) => h[S] \in Nat
<1> DEFINE c == [t \in SUBSET S |-> CHOOSE x \in t : TRUE]
           f == [p \in S \X Nat |-> w[p[1]] + p[2]]
<1>1. Chooses(c, S) /\ \A t \in SUBSET S : t # {} => c[t] \in t
  BY DEF Chooses
<1>2. \A x \in S, r \in Nat : f[<<x, r>>] = w[x] + r
  OBVIOUS
<1>3. Closed(f, S, Nat) /\ 0 \in Nat
  BY <1>2 DEF Closed
<1>c. \A t \in SUBSET S : c[t] = CHOOSE x \in t : TRUE
  OBVIOUS
<1> HIDE DEF c, f
<1>4. PICK g \in [SUBSET S -> Nat] : Folds(g, S, c, f, 0)
  <2>1. Chooses(c, S) /\ Closed(f, S, Nat) /\ 0 \in Nat /\ IsFiniteSet(S)
    BY <1>1, <1>3
  <2> QED
    BY ONLY <2>1, FoldExists
<1>5. Sums(g, S, w)
  <2>1. ASSUME NEW t \in SUBSET S, t # {}
        PROVE  f[<<c[t], g[t \ {c[t]}]>>] = w[c[t]] + g[t \ {c[t]}]
    BY <1>1, <1>2, <1>4, <2>1
  <2>2. g = [t \in SUBSET S |-> IF t = {} THEN 0 ELSE w[c[t]] + g[t \ {c[t]}]]
    BY <1>4, <2>1 DEF Folds
  <2> QED
    BY <1>c, <2>2 DEF Sums
<1>6. \A h : Sums(h, S, w) => h[S] \in Nat
  BY SumsType
<1> QED
  BY <1>5, <1>6

(* The order in which members are added does not matter.                   *)
LEMMA SumOfMember ==
  ASSUME NEW S, IsFiniteSet(S), NEW w \in [S -> Nat], NEW h, Sums(h, S, w)
  PROVE  \A t \in SUBSET S : \A x \in t : h[t] = w[x] + h[t \ {x}]
<1> DEFINE Good(t) == \A x \in t : h[t] = w[x] + h[t \ {x}]
           N == {n \in Nat : \A t \in SUBSET S : Cardinality(t) = n => Good(t)}
<1>1. \A t \in SUBSET S : IsFiniteSet(t) /\ Cardinality(t) \in Nat /\ h[t] \in Nat
  BY FS_Subset, FS_CardinalityType, SumsType
<1>2. 0 \in N
  <2>1. ASSUME NEW t \in SUBSET S, Cardinality(t) = 0
        PROVE  t = {}
    BY <1>1, <2>1, FS_EmptySet
  <2> QED
    BY <2>1
<1>3. ASSUME NEW n \in Nat, n \in N
      PROVE  n + 1 \in N
  <2> SUFFICES ASSUME NEW t \in SUBSET S, Cardinality(t) = n + 1
               PROVE  Good(t)
    OBVIOUS
  <2>1. ASSUME NEW x \in t
        PROVE  Good(t \ {x})
    <3>1. t \ {x} \in SUBSET S /\ Cardinality(t \ {x}) = n
      BY <1>1, Smaller
    <3> HIDE DEF Good
    <3> QED
      BY <1>3, <3>1
  <2>2. PICK c \in t : h[t] = w[c] + h[t \ {c}]
    <3>1. t = {} => Cardinality(t) = 0
      BY FS_EmptySet, Zenon
    <3>2. t # {}
      BY <3>1
    <3>3. h[t] = w[CHOOSE x \in t : TRUE] + h[t \ {CHOOSE x \in t : TRUE}]
      BY <3>2, Zenon DEF Sums
    <3>4. (CHOOSE x \in t : TRUE) \in t
      BY <3>2
    <3> QED
      BY <3>3, <3>4
  <2>3. ASSUME NEW x \in t, x # c
        PROVE  h[t] = w[x] + h[t \ {x}]
    <3> DEFINE u == (t \ {c}) \ {x}
    <3>1. u = (t \ {x}) \ {c} /\ x \in t \ {c} /\ c \in t \ {x} /\ u \in SUBSET S
      BY <2>3
    <3>2. h[t \ {c}] = w[x] + h[u] /\ h[t \ {x}] = w[c] + h[u]
      BY <2>1, <3>1
    <3>3. w[x] \in Nat /\ w[c] \in Nat /\ h[u] \in Nat
      BY <1>1, <3>1
    <3> HIDE DEF u
    <3> QED
      BY <2>2, <3>2, <3>3
  <2> QED
    BY <2>2, <2>3
<1>4. Nat \subseteq N
  <2> HIDE DEF N
  <2> QED
    BY <1>2, <1>3, NatSet
<1>5. ASSUME NEW t \in SUBSET S
      PROVE  Good(t)
  <2>1. Cardinality(t) \in N
    BY <1>1, <1>4
  <2> HIDE DEF Good
  <2> QED
    BY <2>1
<1> QED
  BY <1>5

(* Sums over sets that share members agree on what they share.             *)
LEMMA SumsAgree ==
  ASSUME NEW S, IsFiniteSet(S), NEW w, NEW h, Sums(h, S, w),
         NEW T \in SUBSET S, NEW v, NEW g, Sums(g, T, v), \A x \in T : v[x] = w[x]
  PROVE  g[T] = h[T]
<1> DEFINE c == [t \in SUBSET T |-> CHOOSE x \in t : TRUE]
           R == [t \in SUBSET T |-> {h[t]}]
<1>1. \A t \in SUBSET T : t # {} => c[t] \in t
  OBVIOUS
<1>2. \A t \in SUBSET T : g[t] = IF t = {} THEN 0 ELSE v[c[t]] + g[t \ {c[t]}]
  BY Zenon DEF Sums
<1>3. \A t \in SUBSET T : h[t] = IF t = {} THEN 0 ELSE w[c[t]] + h[t \ {c[t]}]
  <2>1. \A t \in SUBSET T : t \in SUBSET S
    OBVIOUS
  <2> QED
    BY <2>1, Zenon DEF Sums
<1> HIDE DEF c
<1>4. Chooses(c, T) /\ IsFiniteSet(T)
  BY <1>1, FS_Subset DEF Chooses
<1>5. g[{}] \in R[{}]
  BY <1>2, <1>3
<1>6. ASSUME NEW t \in SUBSET T, t # {}, g[t \ {c[t]}] \in R[t \ {c[t]}]
      PROVE  g[t] \in R[t]
  <2>1. g[t] = v[c[t]] + g[t \ {c[t]}] /\ h[t] = w[c[t]] + h[t \ {c[t]}]
    BY <1>2, <1>3, <1>6
  <2>2. c[t] \in T /\ t \ {c[t]} \in SUBSET T
    BY <1>1, <1>6
  <2>3. v[c[t]] = w[c[t]] /\ g[t \ {c[t]}] = h[t \ {c[t]}]
    BY <1>6, <2>2
  <2> QED
    BY <2>1, <2>3
<1>7. \A t \in SUBSET T : g[t] \in R[t]
  <2> HIDE DEF R
  <2> QED
    BY <1>4, <1>5, <1>6, FoldInduction
<1> QED
  BY <1>7

-----------------------------------------------------------------------------
(* Sequences and recursion along numbers.                                  *)

LEMMA Prefix ==
  ASSUME NEW k \in Nat, k # 0
  PROVE  Max(1 .. k) = k /\ (1 .. k) \ {k} = 1 .. k - 1
<1>1. k \in 1 .. k /\ \A y \in 1 .. k : k >= y
  OBVIOUS
<1>2. \A x, y \in 1 .. k : x >= y /\ y >= x => x = y
  OBVIOUS
<1>3. Max(1 .. k) = k
  BY <1>1, <1>2, Zenon DEF Max
<1> QED
  BY <1>3

StepsIn(f, T, R) == \A x \in T, r \in R : f[<<x, r>>] \in R

FoldsLeft(h, s, f, base) ==
  \A S \in SUBSET DOMAIN s :
    h[S] = IF S = {} THEN base ELSE f[<<s[Max(S)], h[S \ {Max(S)}]>>]

(* What FoldLeft is defined by has a solution.                             *)
LEMMA FoldLeftExists ==
  ASSUME NEW T, NEW s \in Seq(T), NEW R, NEW base \in R, NEW f, StepsIn(f, T, R)
  PROVE  \E h \in [SUBSET DOMAIN s -> R] : FoldsLeft(h, s, f, base)
<1> DEFINE D == DOMAIN s
           c == [S \in SUBSET D |-> Max(S)]
           g == [xr \in D \X R |-> f[<<s[xr[1]], xr[2]>>]]
<1>1. D = 1 .. Len(s) /\ Len(s) \in Nat
  OBVIOUS
<1>2. IsFiniteSet(D)
  BY <1>1, FS_Interval
<1>3. ASSUME NEW S \in SUBSET D, S # {}
      PROVE  Max(S) \in S
  <2>1. S \subseteq Nat /\ \A x \in S : x <= Len(s)
    BY <1>1
  <2> QED
    BY <1>1, <1>3, <2>1, MaxIsMember
<1>4. Chooses(c, D)
  BY <1>3 DEF Chooses
<1>5. Closed(g, D, R)
  <2> SUFFICES ASSUME NEW i \in D, NEW r \in R
               PROVE  g[<<i, r>>] \in R
    BY DEF Closed
  <2>1. s[i] \in T /\ g[<<i, r>>] = f[<<s[i], r>>]
    OBVIOUS
  <2> QED
    BY <2>1 DEF StepsIn
<1> HIDE DEF D, g, c
<1>6. PICK h \in [SUBSET D -> R] : Folds(h, D, c, g, base)
  BY <1>2, <1>4, <1>5, FoldExists
<1>7. ASSUME NEW S \in SUBSET D
      PROVE  h[S] = IF S = {} THEN base ELSE f[<<s[Max(S)], h[S \ {Max(S)}]>>]
  <2>1. h[S] = IF S = {} THEN base ELSE g[<<c[S], h[S \ {c[S]}]>>]
    BY <1>6, Zenon DEF Folds
  <2>2. c[S] = Max(S)
    BY DEF c
  <2>3. ASSUME S # {}
        PROVE  g[<<c[S], h[S \ {c[S]}]>>] = f[<<s[Max(S)], h[S \ {Max(S)}]>>]
    <3>1. Max(S) \in D /\ h[S \ {Max(S)}] \in R
      BY <1>3, <2>3
    <3> QED
      BY <2>2, <3>1 DEF g
  <2> QED
    BY <2>1, <2>3
<1> QED
  BY <1>7 DEF D, FoldsLeft

(* A function on 1 .. n whose value at a number depends on its values at   *)
(* greater numbers only.  G[<<i, h>>] is what h[i] is to be.               *)
Into(G, n, R) == \A i \in 1 .. n, h \in [1 .. n -> R] : G[<<i, h>>] \in R

LooksAbove(G, n, R) ==
  \A i \in 1 .. n, h, k \in [1 .. n -> R] :
    (\A j \in 1 .. n : j > i => h[j] = k[j]) => G[<<i, h>>] = G[<<i, k>>]

Solves(h, G, n) == \A i \in 1 .. n : h[i] = G[<<i, h>>]

LEMMA Downward ==
  ASSUME NEW n \in Nat, NEW R, NEW r \in R, NEW G, Into(G, n, R), LooksAbove(G, n, R)
  PROVE  \E h \in [1 .. n -> R] : Solves(h, G, n)
<1> USE DEF Into, LooksAbove, Solves
<1> DEFINE N == {m \in Nat : m <= n => \E h \in [1 .. n -> R] : \A i \in 1 .. n :
                               i > n - m => h[i] = G[<<i, h>>]}
<1>1. 0 \in N
  <2>1. PICK h \in [1 .. n -> R] : h = [i \in 1 .. n |-> r]
    OBVIOUS
  <2>2. \A i \in 1 .. n : ~ (i > n - 0)
    OBVIOUS
  <2> QED
    BY <2>1, <2>2
<1>2. ASSUME NEW m \in Nat, m \in N
      PROVE  m + 1 \in N
  <2> SUFFICES ASSUME m + 1 <= n
               PROVE  \E h \in [1 .. n -> R] : \A i \in 1 .. n :
                        i > n - (m + 1) => h[i] = G[<<i, h>>]
    OBVIOUS
  <2>1. PICK h \in [1 .. n -> R] : \A i \in 1 .. n : i > n - m => h[i] = G[<<i, h>>]
    BY <1>2
  <2> DEFINE k == [h EXCEPT ![n - m] = G[<<n - m, h>>]]
  <2>2. n - m \in 1 .. n
    OBVIOUS
  <2>3. k \in [1 .. n -> R] /\ \A i \in 1 .. n : k[i] = IF i = n - m THEN G[<<n - m, h>>] ELSE h[i]
    BY <2>2
  <2> HIDE DEF k
  <2>4. ASSUME NEW i \in 1 .. n, i > n - (m + 1)
        PROVE  k[i] = G[<<i, k>>]
    <3>1. \A j \in 1 .. n : j > i => h[j] = k[j]
      BY <2>2, <2>3, <2>4
    <3>2. G[<<i, h>>] = G[<<i, k>>]
      BY <2>3, <3>1
    <3>3. i > n - m \/ i = n - m
      BY <2>2, <2>4
    <3> QED
      BY <2>1, <2>3, <3>3, <3>2
  <2> QED
    BY <2>3, <2>4
<1>3. n \in N
  BY <1>1, <1>2, NatSet
<1>4. PICK h \in [1 .. n -> R] : \A i \in 1 .. n : i > n - n => h[i] = G[<<i, h>>]
  BY <1>3
<1> QED
  BY <1>4

(* What holds of a number as soon as it holds of all that are greater.     *)
LEMMA DownwardInduction ==
  ASSUME NEW n \in Nat, NEW S, \A i \in 1 .. n : (\A j \in 1 .. n : j > i => j \in S) => i \in S
  PROVE  \A i \in 1 .. n : i \in S
<1> DEFINE N == {m \in Nat : \A i \in 1 .. n : i > n - m => i \in S}
<1>1. 0 \in N
  OBVIOUS
<1>2. ASSUME NEW m \in Nat, m \in N
      PROVE  m + 1 \in N
  <2> SUFFICES ASSUME NEW i \in 1 .. n, i > n - (m + 1)
               PROVE  i \in S
    OBVIOUS
  <2>1. \A j \in 1 .. n : j > i => j \in S
    BY <1>2
  <2> QED
    BY <2>1
<1>3. n \in N
  BY <1>1, <1>2, NatSet
<1> QED
  BY <1>3
=============================================================================
