------------------------------ MODULE SumsProofs ------------------------------
(***************************************************************************)
(* What the sum of a sequence of numbers is: the lemmas that the accounts  *)
(* of bytes rest on.  Sum is a fold, defined by recursion over sets of     *)
(* indices; the induction behind these lemmas is the well-foundedness of   *)
(* finite sets under strict inclusion.                                     *)
(***************************************************************************)
EXTENDS Sums, FiniteSetTheorems, TLAPS

\* A non-empty set of natural numbers has a least one. (Well-foundedness of the
\* strict subset ordering, for the sets 1 .. n.)
LEMMA LeastNat ==
  ASSUME NEW T, T \subseteq Nat, T # {}
  PROVE  \E n \in T : \A m \in T : n <= m
<1> DEFINE R == StrictSubsetOrdering(Nat)
           S == FiniteSubsetsOf(Nat)
           F == {1 .. n : n \in T}
<1>1. IsWellFoundedOn(R, S)
  BY FS_StrictSubsetOrderingWellFounded
<1>2. F \subseteq S
  <2> SUFFICES ASSUME NEW n \in T PROVE 1 .. n \in S
    OBVIOUS
  <2>1. n \in Int /\ IsFiniteSet(1 .. n)
    BY FS_Interval
  <2> QED
    BY <2>1 DEF FiniteSubsetsOf
<1>3. F # {}
  OBVIOUS
<1>4. \E x \in F : \A y \in F : ~ (<<y, x>> \in R)
  <2> HIDE DEF R, S, F
  <2> QED
    BY <1>1, <1>2, <1>3, WFMin
<1>5. PICK n \in T : \A y \in F : ~ (<<y, 1 .. n>> \in R)
  BY <1>4
<1>6. ASSUME NEW m \in T, m < n PROVE FALSE
  <2>1. <<1 .. m, 1 .. n>> \notin R
    BY <1>5
  <2>2. 1 .. m \subseteq 1 .. n /\ 1 .. m # 1 .. n
    <3>1. m \in Nat /\ n \in Nat /\ n \in 1 .. n /\ n \notin 1 .. m
      BY <1>6
    <3> QED
      BY <3>1
  <2>3. 1 .. m \in SUBSET Nat /\ 1 .. n \in SUBSET Nat
    OBVIOUS
  <2> QED
    BY <2>1, <2>2, <2>3 DEF StrictSubsetOrdering
<1> QED
  BY <1>6

\* Induction up to n, for a set of numbers.
LEMMA UpTo ==
  ASSUME NEW n \in Nat, NEW S, 0 \in S,
         \A k \in 0 .. n - 1 : k \in S => k + 1 \in S
  PROVE  0 .. n \subseteq S
<1> DEFINE T == {k \in 0 .. n : k \notin S}
<1> SUFFICES ASSUME T # {} PROVE FALSE
  OBVIOUS
<1>1. PICK k \in T : \A m \in T : k <= m
  <2>1. T \subseteq Nat
    OBVIOUS
  <2> QED
    BY <2>1, LeastNat
<1>2. k # 0 /\ k - 1 \in 0 .. n - 1
  OBVIOUS
<1>3. k - 1 \in S
  BY <1>1, <1>2
<1>4. (k - 1) + 1 \in S
  BY <1>2, <1>3
<1> QED
  BY <1>4

\* The greatest element of a non-empty set of indices.
LEMMA MaxIndex ==
  ASSUME NEW n \in Nat, NEW t \in SUBSET (1 .. n), t # {}
  PROVE  /\ Max(t) \in t
         /\ \A x \in t : x <= Max(t)
<1> DEFINE U == {m \in Nat : \A x \in t : x <= m}
<1>1. n \in U
  OBVIOUS
<1>2. PICK m \in U : \A k \in U : m <= k
  BY <1>1, LeastNat
<1>3. m \in t
  <2> SUFFICES ASSUME m \notin t PROVE FALSE
    OBVIOUS
  <2>1. \A x \in t : x <= m - 1
    BY <1>2
  <2>2. m - 1 \in Nat
    <3>1. PICK x \in t : TRUE
      OBVIOUS
    <3>2. x \in Nat /\ x >= 1 /\ x <= m
      BY <3>1
    <3> QED
      BY <3>2
  <2> QED
    BY <1>2, <2>1, <2>2
<1>4. \A x \in t : m >= x
  OBVIOUS
<1>5. Max(t) \in t /\ \A y \in t : Max(t) >= y
  BY <1>3, <1>4 DEF Max
<1> QED
  BY <1>5

\* There is a function that adds up the elements of s over sets of indices, the
\* greatest index last.
SumsUp(h, s, n) ==
  /\ h \in [SUBSET (1 .. n) -> Int]
  /\ h[{}] = 0
  /\ \A t \in SUBSET (1 .. n) : t # {} => h[t] = h[t \ {Max(t)}] + s[Max(t)]

LEMMA SumsUpNext ==
  ASSUME NEW k \in Nat, NEW s, s[k + 1] \in Int, NEW h, SumsUp(h, s, k)
  PROVE  \E g : SumsUp(g, s, k + 1)
<1> DEFINE g == [t \in SUBSET (1 .. k + 1) |-> IF k + 1 \in t THEN h[t \ {k + 1}] + s[k + 1]
                                               ELSE h[t]]
<1>1. ASSUME NEW t \in SUBSET (1 .. k + 1)
      PROVE  t \ {k + 1} \in SUBSET (1 .. k) /\ (k + 1 \notin t => t \in SUBSET (1 .. k))
  OBVIOUS
<1>2. g \in [SUBSET (1 .. k + 1) -> Int]
  BY <1>1 DEF SumsUp
<1>3. g[{}] = 0
  BY DEF SumsUp
<1>4. ASSUME NEW t \in SUBSET (1 .. k + 1), t # {}
      PROVE  g[t] = g[t \ {Max(t)}] + s[Max(t)]
  <2>1. Max(t) \in t /\ \A x \in t : x <= Max(t)
    BY <1>4, MaxIndex, k + 1 \in Nat
  <2>2. CASE k + 1 \in t
    <3>1. Max(t) = k + 1
      <4>1. Max(t) \in 1 .. k + 1 /\ k + 1 <= Max(t)
        BY <2>1, <2>2
      <4> QED
        BY <4>1
    <3>2. g[t \ {k + 1}] = h[t \ {k + 1}]
      BY <1>1
    <3> QED
      BY <2>2, <3>1, <3>2
  <2>3. CASE k + 1 \notin t
    <3>1. t \in SUBSET (1 .. k)
      BY <1>1, <2>3
    <3>2. h[t] = h[t \ {Max(t)}] + s[Max(t)]
      BY <1>4, <3>1 DEF SumsUp
    <3>3. k + 1 \notin t \ {Max(t)} /\ t \ {Max(t)} \in SUBSET (1 .. k + 1)
      BY <2>3
    <3> QED
      BY <2>3, <3>2, <3>3
  <2> QED
    BY <2>2, <2>3
<1> HIDE DEF g
<1>5. SumsUp(g, s, k + 1)
  BY <1>2, <1>3, <1>4 DEF SumsUp
<1> QED
  BY <1>5

LEMMA SumsUpExists ==
  ASSUME NEW n \in Nat, NEW s \in [1 .. n -> Int]
  PROVE  \E h : SumsUp(h, s, n)
<1> DEFINE S == {k \in 0 .. n : \E h : SumsUp(h, s, k)}
<1>1. 0 \in S
  <2> DEFINE h == [t \in SUBSET (1 .. 0) |-> 0]
  <2>1. SumsUp(h, s, 0)
    <3>1. h \in [SUBSET (1 .. 0) -> Int] /\ h[{}] = 0
      OBVIOUS
    <3>2. \A t \in SUBSET (1 .. 0) : t = {}
      OBVIOUS
    <3> HIDE DEF h
    <3> QED
      BY <3>1, <3>2 DEF SumsUp
  <2> QED
    BY <2>1
<1>2. ASSUME NEW k \in 0 .. n - 1, k \in S PROVE k + 1 \in S
  <2>1. s[k + 1] \in Int /\ k \in Nat /\ k + 1 \in 0 .. n
    OBVIOUS
  <2> QED
    BY <1>2, <2>1, SumsUpNext
<1>3. 0 .. n \subseteq S
  <2> HIDE DEF S
  <2> QED
    BY <1>1, <1>2, UpTo
<1> QED
  BY <1>3

\* The sum of a sequence, one element after the other.
LEMMA SumSteps ==
  ASSUME NEW n \in Nat, NEW s \in [1 .. n -> Int]
  PROVE  \E p \in [0 .. n -> Int] :
            /\ p[0] = 0 /\ p[n] = Sum(s)
            /\ \A k \in 1 .. n : p[k] = p[k - 1] + s[k]
<1> DEFINE D == SUBSET (1 .. n)
           Def(h) == [t \in D |-> IF t = {} THEN 0 ELSE h[t \ {Max(t)}] + s[Max(t)]]
           iter == CHOOSE h : h = Def(h)
<1>1. PICK h : SumsUp(h, s, n)
  BY SumsUpExists
<1>2. h = Def(h)
  BY <1>1 DEF SumsUp
<1>3. iter = Def(iter)
  <2> HIDE DEF Def
  <2> QED
    BY <1>2
<1>4. Sum(s) = iter[1 .. n]
  <2>1. DOMAIN s = 1 .. n
    OBVIOUS
  <2> QED
    BY <2>1 DEF Sum, FoldLeft, MapThenFoldSet
<1>5. iter[{}] = 0
  BY <1>3
<1>6. ASSUME NEW k \in 1 .. n
      PROVE  iter[1 .. k] = iter[1 .. k - 1] + s[k]
  <2>1. 1 .. k \in D /\ 1 .. k # {}
    OBVIOUS
  <2>2. Max(1 .. k) = k
    <3>1. Max(1 .. k) \in 1 .. k /\ k <= Max(1 .. k)
      <4>1. k \in 1 .. k
        OBVIOUS
      <4>2. 1 .. k \in SUBSET (1 .. n)
        OBVIOUS
      <4>3. \A x \in 1 .. k : x <= Max(1 .. k)
        BY MaxIndex, <2>1, <4>2
      <4> QED
        BY MaxIndex, <2>1, <4>1, <4>2, <4>3
    <3> QED
      BY <3>1
  <2>3. (1 .. k) \ {k} = 1 .. k - 1
    OBVIOUS
  <2>4. iter[1 .. k] = iter[(1 .. k) \ {Max(1 .. k)}] + s[Max(1 .. k)]
    <3> HIDE DEF iter
    <3> QED
      BY <1>3, <2>1
  <2> QED
    BY <2>2, <2>3, <2>4
<1> DEFINE p == [k \in 0 .. n |-> iter[1 .. k]]
           S == {k \in 0 .. n : p[k] \in Int}
<1> HIDE DEF iter
<1>7. p[0] = 0
  <2>1. 1 .. 0 = {}
    OBVIOUS
  <2> QED
    BY <1>5, <2>1
<1>8. \A k \in 1 .. n : p[k] = p[k - 1] + s[k]
  BY <1>6
<1>9. p \in [0 .. n -> Int]
  <2>1. 0 \in S
    BY <1>7
  <2>2. ASSUME NEW k \in 0 .. n - 1, k \in S PROVE k + 1 \in S
    <3>1. k + 1 \in 1 .. n /\ (k + 1) - 1 = k
      OBVIOUS
    <3>2. p[k + 1] = p[k] + s[k + 1] /\ s[k + 1] \in Int
      BY <1>8, <3>1
    <3> HIDE DEF p
    <3> QED
      BY <2>2, <3>1, <3>2
  <2>3. 0 .. n \subseteq S
    <3> HIDE DEF S
    <3> QED
      BY <2>1, <2>2, UpTo
  <2> QED
    BY <2>3
<1>a. p[n] = Sum(s)
  BY <1>4
<1> HIDE DEF p
<1> QED
  BY <1>7, <1>8, <1>9, <1>a

\* What no step changes is the same at the end.
LEMMA Steady ==
  ASSUME NEW n \in Nat, NEW d, \A k \in 1 .. n : d[k] = d[k - 1]
  PROVE  d[n] = d[0]
<1> DEFINE S == {k \in 0 .. n : d[k] = d[0]}
<1>1. 0 \in S
  OBVIOUS
<1>2. ASSUME NEW k \in 0 .. n - 1, k \in S PROVE k + 1 \in S
  <2>1. k + 1 \in 1 .. n /\ (k + 1) - 1 = k /\ k + 1 \in 0 .. n
    OBVIOUS
  <2> QED
    BY <1>2, <2>1
<1>3. 0 .. n \subseteq S
  <2> HIDE DEF S
  <2> QED
    BY <1>1, <1>2, UpTo
<1> QED
  BY <1>3

LEMMA SumType ==
  ASSUME NEW s \in Seq(Int)
  PROVE  Sum(s) \in Int
  BY SumSteps

LEMMA SumEmpty == Sum(<<>>) = 0
<1>1. <<>> \in [1 .. 0 -> Int] /\ 0 \in Nat
  OBVIOUS
<1> QED
  BY <1>1, SumSteps

LEMMA SumOne ==
  ASSUME NEW x \in Int
  PROVE  Sum(<<x>>) = x
<1>1. <<x>> \in [1 .. 1 -> Int] /\ 1 \in Nat
  OBVIOUS
<1>2. PICK p \in [0 .. 1 -> Int] :
        p[0] = 0 /\ p[1] = Sum(<<x>>) /\ \A k \in 1 .. 1 : p[k] = p[k - 1] + <<x>>[k]
  BY <1>1, SumSteps
<1> QED
  BY <1>2

\* The sum of two sequences one behind the other.
LEMMA SumConcat ==
  ASSUME NEW s \in Seq(Int), NEW t \in Seq(Int)
  PROVE  Sum(s \o t) = Sum(s) + Sum(t)
<1> DEFINE m == Len(s)
           n == Len(t)
           u == s \o t
<1>1. m \in Nat /\ n \in Nat /\ s \in [1 .. m -> Int] /\ t \in [1 .. n -> Int]
      /\ u \in [1 .. m + n -> Int] /\ m + n \in Nat
  <2>1. m \in Nat /\ n \in Nat /\ s \in [1 .. m -> Int] /\ t \in [1 .. n -> Int]
    OBVIOUS
  <2>2. u \in Seq(Int) /\ Len(u) = m + n
    OBVIOUS
  <2>3. u \in [1 .. m + n -> Int]
    <3> HIDE DEF m, n, u
    <3> QED
      BY <2>2
  <2> QED
    BY <2>1, <2>3
<1>2. /\ \A k \in 1 .. m : u[k] = s[k]
      /\ \A k \in 1 .. n : u[m + k] = t[k]
  OBVIOUS
<1> HIDE DEF m, n, u
<1>3. PICK p \in [0 .. m -> Int] :
        p[0] = 0 /\ p[m] = Sum(s) /\ \A k \in 1 .. m : p[k] = p[k - 1] + s[k]
  BY <1>1, SumSteps
<1>4. PICK q \in [0 .. n -> Int] :
        q[0] = 0 /\ q[n] = Sum(t) /\ \A k \in 1 .. n : q[k] = q[k - 1] + t[k]
  BY <1>1, SumSteps
<1>5. PICK r \in [0 .. m + n -> Int] :
        r[0] = 0 /\ r[m + n] = Sum(u) /\ \A k \in 1 .. m + n : r[k] = r[k - 1] + u[k]
  BY <1>1, SumSteps
<1>6. r[m] = p[m]
  <2> DEFINE d == [k \in 0 .. m |-> r[k] - p[k]]
  <2>1. \A k \in 0 .. m : r[k] \in Int /\ p[k] \in Int
    BY <1>1
  <2>2. \A k \in 1 .. m : d[k] = d[k - 1]
    <3> SUFFICES ASSUME NEW k \in 1 .. m PROVE d[k] = d[k - 1]
      OBVIOUS
    <3>1. k \in 1 .. m + n /\ k - 1 \in 0 .. m /\ k \in 0 .. m
      BY <1>1
    <3>2. r[k] = r[k - 1] + s[k] /\ p[k] = p[k - 1] + s[k] /\ s[k] \in Int
      BY <1>1, <1>2, <1>3, <1>5, <3>1
    <3> QED
      BY <2>1, <3>1, <3>2, SMTT(30)
  <2>3. d[m] = d[0]
    <3> HIDE DEF d
    <3> QED
      BY <1>1, <2>2, Steady
  <2>4. d[m] = r[m] - p[m] /\ d[0] = r[0] - p[0] /\ r[m] \in Int /\ p[m] \in Int
    BY <1>1
  <2> QED
    BY <1>3, <1>5, <2>3, <2>4
<1>7. r[m + n] = q[n] + r[m]
  <2> DEFINE d == [k \in 0 .. n |-> r[m + k] - q[k]]
  <2>1. \A k \in 0 .. n : r[m + k] \in Int /\ q[k] \in Int
    BY <1>1
  <2>2. \A k \in 1 .. n : d[k] = d[k - 1]
    <3> SUFFICES ASSUME NEW k \in 1 .. n PROVE d[k] = d[k - 1]
      OBVIOUS
    <3>1. k - 1 \in 0 .. n /\ k \in 0 .. n /\ m + k \in 1 .. m + n /\ (m + k) - 1 = m + (k - 1)
      BY <1>1
    <3>2. r[m + k] = r[m + (k - 1)] + t[k] /\ q[k] = q[k - 1] + t[k] /\ t[k] \in Int
      BY <1>1, <1>2, <1>4, <1>5, <3>1
    <3>3. d[k] = r[m + k] - q[k] /\ d[k - 1] = r[m + (k - 1)] - q[k - 1]
      BY <3>1
    <3>4. ASSUME NEW x \in Int, NEW y \in Int, NEW z \in Int
          PROVE  (x + z) - (y + z) = x - y
      OBVIOUS
    <3>5. r[m + (k - 1)] \in Int /\ q[k - 1] \in Int
      BY <2>1, <3>1
    <3> HIDE DEF d
    <3> QED
      BY ONLY <3>2, <3>3, <3>4, <3>5
  <2>3. d[n] = d[0]
    <3> HIDE DEF d
    <3> QED
      BY <1>1, <2>2, Steady
  <2>4. d[n] = r[m + n] - q[n] /\ d[0] = r[m] - q[0]
    <3>1. 0 \in 0 .. n /\ n \in 0 .. n /\ m + 0 = m
      BY <1>1
    <3> QED
      BY <3>1
  <2>5. r[m + n] \in Int /\ q[n] \in Int /\ r[m] \in Int
    BY <1>1
  <2> QED
    BY <1>4, <2>3, <2>4, <2>5
<1> QED
  <2>1. Sum(u) = Sum(t) + Sum(s)
    BY <1>3, <1>4, <1>5, <1>6, <1>7
  <2>2. Sum(t) \in Int /\ Sum(s) \in Int
    BY SumType
  <2> QED
    BY <2>1, <2>2 DEF u

\* A sum of natural numbers is one, and no number in it is greater.
LEMMA SumOfNaturals ==
  ASSUME NEW n \in Nat, NEW s \in [1 .. n -> Nat]
  PROVE  /\ Sum(s) \in Nat
         /\ \A j \in 1 .. n : s[j] <= Sum(s)
<1>1. s \in [1 .. n -> Int]
  OBVIOUS
<1>2. PICK p \in [0 .. n -> Int] :
        p[0] = 0 /\ p[n] = Sum(s) /\ \A k \in 1 .. n : p[k] = p[k - 1] + s[k]
  BY <1>1, SumSteps
<1>3. ASSUME NEW k \in 0 .. n - 1
      PROVE  k + 1 \in 1 .. n /\ p[k] \in Int /\ s[k + 1] \in Nat /\ p[k + 1] = p[k] + s[k + 1]
  <2>1. k + 1 \in 1 .. n /\ (k + 1) - 1 = k /\ k \in 0 .. n
    OBVIOUS
  <2> QED
    BY <1>2, <2>1
<1>4. Sum(s) \in Nat
  <2> DEFINE S == {k \in 0 .. n : p[k] \in Nat}
  <2>1. 0 \in S
    BY <1>2
  <2>2. \A k \in 0 .. n - 1 : k \in S => k + 1 \in S
    BY <1>3
  <2>3. 0 .. n \subseteq S
    <3> HIDE DEF S
    <3> QED
      BY <2>1, <2>2, UpTo
  <2> QED
    BY <1>2, <2>3
<1>5. ASSUME NEW j \in 1 .. n PROVE s[j] <= Sum(s)
  <2> DEFINE S == {k \in 0 .. n : p[k] \in Nat /\ (k >= j => p[k] >= s[j])}
  <2>1. 0 \in S
    BY <1>2
  <2>2. ASSUME NEW k \in 0 .. n - 1, k \in S PROVE k + 1 \in S
    <3>1. k + 1 \in 0 .. n /\ p[k + 1] \in Nat /\ p[k + 1] >= p[k]
      BY <1>3, <2>2
    <3>2. k + 1 = j => p[k + 1] >= s[j]
      BY <1>3, <2>2
    <3>3. k + 1 >= j => k + 1 = j \/ k >= j
      OBVIOUS
    <3>4. k >= j => p[k + 1] >= s[j]
      BY <2>2, <3>1, s[j] \in Nat
    <3> QED
      BY <3>1, <3>2, <3>3, <3>4
  <2>3. 0 .. n \subseteq S
    <3> HIDE DEF S
    <3> QED
      BY <2>1, <2>2, UpTo
  <2> QED
    BY <1>2, <2>3
<1> QED
  BY <1>4, <1>5

\* Nothing adds up to nothing.
LEMMA SumOfZeros ==
  ASSUME NEW n \in Nat, NEW s \in [1 .. n -> Int], \A k \in 1 .. n : s[k] = 0
  PROVE  Sum(s) = 0
<1>1. PICK p \in [0 .. n -> Int] :
        p[0] = 0 /\ p[n] = Sum(s) /\ \A k \in 1 .. n : p[k] = p[k - 1] + s[k]
  BY SumSteps
<1>2. \A k \in 1 .. n : p[k] = p[k - 1]
  <2>1. ASSUME NEW k \in 1 .. n PROVE p[k] = p[k - 1] + 0 /\ p[k - 1] \in Int
    <3>1. k - 1 \in 0 .. n
      OBVIOUS
    <3> QED
      BY <1>1, <3>1
  <2> QED
    BY <2>1
<1>3. p[n] = p[0]
  BY <1>2, Steady
<1> QED
  BY <1>1, <1>3

\* One number grows by at most d, no other one grows: nor does the sum by more.
LEMMA SumGrowth ==
  ASSUME NEW n \in Nat, NEW s \in [1 .. n -> Int], NEW t \in [1 .. n -> Int],
         NEW j \in 1 .. n, NEW d \in Int, t[j] <= s[j] + d,
         \A i \in 1 .. n : i # j => t[i] <= s[i]
  PROVE  Sum(t) <= Sum(s) + d
<1>1. PICK p \in [0 .. n -> Int] :
        p[0] = 0 /\ p[n] = Sum(s) /\ \A k \in 1 .. n : p[k] = p[k - 1] + s[k]
  BY SumSteps
<1>2. PICK q \in [0 .. n -> Int] :
        q[0] = 0 /\ q[n] = Sum(t) /\ \A k \in 1 .. n : q[k] = q[k - 1] + t[k]
  BY SumSteps
<1> DEFINE S == {k \in 0 .. n : (k < j => q[k] <= p[k]) /\ (k >= j => q[k] <= p[k] + d)}
<1>3. 0 \in S
  BY <1>1, <1>2
<1>4. ASSUME NEW k \in 0 .. n - 1, k \in S PROVE k + 1 \in S
  <2>1. k + 1 \in 1 .. n /\ (k + 1) - 1 = k /\ k \in 0 .. n /\ k + 1 \in 0 .. n
    OBVIOUS
  <2>2. p[k + 1] = p[k] + s[k + 1] /\ q[k + 1] = q[k] + t[k + 1]
    BY <1>1, <1>2, <2>1
  <2>3. p[k] \in Int /\ q[k] \in Int /\ s[k + 1] \in Int /\ t[k + 1] \in Int
    BY <2>1
  <2>4. (k < j => q[k] <= p[k]) /\ (k >= j => q[k] <= p[k] + d)
    BY <1>4
  <2>5. (k + 1 = j => t[k + 1] <= s[k + 1] + d) /\ (k + 1 # j => t[k + 1] <= s[k + 1])
    <3>1. k + 1 = j => t[k + 1] = t[j] /\ s[k + 1] = s[j]
      OBVIOUS
    <3> QED
      BY <2>1, <3>1
  <2>6. ASSUME NEW pk \in Int, NEW qk \in Int, NEW sk \in Int, NEW tk \in Int,
               (k < j => qk <= pk) /\ (k >= j => qk <= pk + d),
               (k + 1 = j => tk <= sk + d) /\ (k + 1 # j => tk <= sk)
        PROVE  /\ k + 1 < j => qk + tk <= pk + sk
               /\ k + 1 >= j => qk + tk <= pk + sk + d
    BY <2>6
  <2>7. /\ k + 1 < j => q[k] + t[k + 1] <= p[k] + s[k + 1]
        /\ k + 1 >= j => q[k] + t[k + 1] <= p[k] + s[k + 1] + d
    <3> HIDE DEF S
    <3> QED
      BY <2>3, <2>4, <2>5, <2>6, Zenon
  <2> QED
    BY <2>1, <2>2, <2>7
<1>5. 0 .. n \subseteq S
  <2> HIDE DEF S
  <2> QED
    BY <1>3, <1>4, UpTo
<1> QED
  BY <1>1, <1>2, <1>5

-----------------------------------------------------------------------------
\* The sum of what a sequence's elements weigh.
Weight(w, q) == Sum([i \in DOMAIN q |-> w[q[i]]])

\* The weights form a sequence.
LEMMA WeightSeq ==
  ASSUME NEW S, NEW w \in [S -> Nat], NEW q \in Seq(S)
  PROVE  /\ [i \in DOMAIN q |-> w[q[i]]] \in Seq(Nat)
         /\ [i \in DOMAIN q |-> w[q[i]]] \in [1 .. Len(q) -> Nat]
         /\ Len([i \in DOMAIN q |-> w[q[i]]]) = Len(q) /\ Len(q) \in Nat
<1>1. DOMAIN q = 1 .. Len(q) /\ Len(q) \in Nat /\ \A i \in 1 .. Len(q) : q[i] \in S
  OBVIOUS
<1> QED
  BY <1>1

LEMMA WeightType ==
  ASSUME NEW S, NEW w \in [S -> Nat], NEW q \in Seq(S)
  PROVE  Weight(w, q) \in Nat
<1> DEFINE s == [i \in DOMAIN q |-> w[q[i]]]
<1>1. s \in [1 .. Len(q) -> Nat] /\ Len(q) \in Nat
  BY WeightSeq
<1> HIDE DEF s
<1>2. Sum(s) \in Nat
  BY ONLY <1>1, SumOfNaturals
<1> QED
  BY <1>2 DEF Weight, s

\* What a single element weighs, and nothing.
LEMMA WeightOne ==
  ASSUME NEW S, NEW w \in [S -> Nat], NEW x \in S
  PROVE  Weight(w, <<x>>) = w[x] /\ Weight(w, <<>>) = 0
<1>1. [i \in DOMAIN <<x>> |-> w[<<x>>[i]]] = <<w[x]>>
  OBVIOUS
<1>2. [i \in DOMAIN <<>> |-> w[<<>>[i]]] = <<>>
  OBVIOUS
<1>3. w[x] \in Int
  OBVIOUS
<1> QED
  BY <1>1, <1>2, <1>3, SumOne, SumEmpty DEF Weight

LEMMA WeightConcat ==
  ASSUME NEW S, NEW w \in [S -> Nat], NEW q \in Seq(S), NEW r \in Seq(S)
  PROVE  Weight(w, q \o r) = Weight(w, q) + Weight(w, r)
<1> DEFINE u(x) == [i \in DOMAIN x |-> w[x[i]]]
<1>1. u(q) \in Seq(Nat) /\ u(r) \in Seq(Nat) /\ Len(u(q)) = Len(q) /\ Len(u(r)) = Len(r)
  BY WeightSeq
<1>2. u(q \o r) = u(q) \o u(r)
  <2>1. q \o r \in Seq(S) /\ Len(q \o r) = Len(q) + Len(r)
    OBVIOUS
  <2>2. u(q \o r) \in Seq(Nat) /\ Len(u(q \o r)) = Len(q) + Len(r)
    BY <2>1, WeightSeq
  <2>3. u(q) \o u(r) \in Seq(Nat) /\ Len(u(q) \o u(r)) = Len(q) + Len(r)
    <3>1. ASSUME NEW a \in Seq(Nat), NEW b \in Seq(Nat)
          PROVE  a \o b \in Seq(Nat) /\ Len(a \o b) = Len(a) + Len(b)
      OBVIOUS
    <3> HIDE DEF u
    <3> QED
      BY <1>1, <3>1
  <2>4. ASSUME NEW i \in 1 .. Len(q) + Len(r)
        PROVE  u(q \o r)[i] = (u(q) \o u(r))[i]
    <3>1. u(q \o r)[i] = w[(q \o r)[i]]
      BY <2>1
    <3>2. CASE i <= Len(q)
      <4>1. (q \o r)[i] = q[i] /\ i \in DOMAIN q
        BY <3>2
      <4>2. (u(q) \o u(r))[i] = u(q)[i]
        <5> HIDE DEF u
        <5> QED
          BY <1>1, <3>2
      <4> QED
        BY <3>1, <4>1, <4>2
    <3>3. CASE ~(i <= Len(q))
      <4>1. (q \o r)[i] = r[i - Len(q)] /\ i - Len(q) \in DOMAIN r
        BY <3>3
      <4>2. (u(q) \o u(r))[i] = u(r)[i - Len(q)]
        <5> HIDE DEF u
        <5> QED
          BY <1>1, <3>3
      <4> QED
        BY <3>1, <4>1, <4>2
    <3> QED
      BY <3>2, <3>3
  <2>5. ASSUME NEW a \in Seq(Nat), NEW b \in Seq(Nat), Len(a) = Len(b),
               \A i \in 1 .. Len(a) : a[i] = b[i]
        PROVE  a = b
    <3>1. ASSUME NEW c \in Seq(Nat) PROVE c = [i \in 1 .. Len(c) |-> c[i]]
      OBVIOUS
    <3>2. [i \in 1 .. Len(a) |-> a[i]] = [i \in 1 .. Len(b) |-> b[i]]
      BY <2>5
    <3> QED
      BY <3>1, <3>2
  <2> HIDE DEF u
  <2> QED
    BY <2>2, <2>3, <2>4, <2>5
<1>3. u(q) \in Seq(Int) /\ u(r) \in Seq(Int)
  <2> HIDE DEF u
  <2> QED
    BY <1>1
<1> HIDE DEF u
<1>4. Sum(u(q \o r)) = Sum(u(q)) + Sum(u(r))
  BY <1>2, <1>3, SumConcat
<1> QED
  BY <1>4 DEF u, Weight

\* The head of a sequence and the rest weigh what the sequence weighs.
LEMMA WeightTail ==
  ASSUME NEW S, NEW w \in [S -> Nat], NEW q \in Seq(S), q # <<>>
  PROVE  Weight(w, q) = w[Head(q)] + Weight(w, Tail(q))
<1>1. Head(q) \in S /\ Tail(q) \in Seq(S) /\ q = <<Head(q)>> \o Tail(q)
  OBVIOUS
<1>2. <<Head(q)>> \in Seq(S)
  BY <1>1
<1>3. Weight(w, <<Head(q)>> \o Tail(q)) = Weight(w, <<Head(q)>>) + Weight(w, Tail(q))
  BY <1>1, <1>2, WeightConcat
<1>4. Weight(w, <<Head(q)>>) = w[Head(q)]
  BY <1>1, WeightOne
<1> QED
  BY <1>1, <1>3, <1>4
=============================================================================
