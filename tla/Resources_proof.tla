------------------------- MODULE Resources_proof -------------------------
(***************************************************************************)
(* What the operators of Resources compute, for every memory, table, fuel  *)
(* and limiter.                                                            *)
(***************************************************************************)
EXTENDS Resources, WellFoundedInduction, TLAPS

-----------------------------------------------------------------------------
(* The first of a sequence of checks that fails. *)

Failing(checks) == {n \in DOMAIN checks : checks[n][1]}

\* The choice is of the least index.
LEMMA FirstErrorIs ==
    ASSUME NEW checks
    PROVE  /\ Failing(checks) = {} => FirstError(checks) = "Ok"
           /\ \A n \in Failing(checks) :
                (DOMAIN checks \subseteq Int /\ \A o \in Failing(checks) : n <= o) => FirstError(checks) = checks[n][2]
<1>1. Failing(checks) = {} => FirstError(checks) = "Ok"
  BY Zenon DEF FirstError, Failing
<1>2. ASSUME NEW n \in Failing(checks), DOMAIN checks \subseteq Int, \A o \in Failing(checks) : n <= o
      PROVE  FirstError(checks) = checks[n][2]
  <2> DEFINE c == CHOOSE m \in Failing(checks) : \A o \in Failing(checks) : m <= o
  <2>1. c \in Failing(checks) /\ \A o \in Failing(checks) : c <= o
    BY <1>2, Zenon
  <2>2. n \in Int /\ c \in Int /\ n <= c /\ c <= n
    BY <1>2, <2>1 DEF Failing
  <2>3. n = c
    BY <2>2, SMT
  <2>4. FirstError(checks) = checks[c][2]
    BY Zenon DEF FirstError, Failing
  <2> QED
    BY <2>3, <2>4, Zenon
<1> QED
  BY <1>1, <1>2, Zenon

\* Two, three and four checks are a chain of conditions.
LEMMA FirstError2 ==
    ASSUME NEW a \in BOOLEAN, NEW b \in BOOLEAN,
           NEW w, NEW x
    PROVE  FirstError(<< <<a, w>>, <<b, x>> >>) =
             IF a THEN w ELSE IF b THEN x ELSE "Ok"
<1> DEFINE checks == << <<a, w>>, <<b, x>> >>
<1> SUFFICES FirstError(checks) =
             IF a THEN w ELSE IF b THEN x ELSE "Ok"
  OBVIOUS
<1>1. DOMAIN checks = {1, 2} /\ DOMAIN checks \subseteq Int
  OBVIOUS
<1>2. /\ checks[1][1] = a /\ checks[1][2] = w
      /\ checks[2][1] = b /\ checks[2][2] = x
  OBVIOUS
<1> HIDE DEF checks
<1>3. /\ \A o \in Failing(checks) : o \in {1, 2}
      /\ 1 \in Failing(checks) <=> a
      /\ 2 \in Failing(checks) <=> b
  BY <1>1, <1>2, Zenon DEF Failing
<1>4. \A m, o \in {1, 2} : m <= o <=> (m = 1 /\ o \in {1, 2}) \/ (m = 2 /\ o \in {2})
  OBVIOUS
<1>5. CASE a
  <2>1. 1 \in Failing(checks) /\ \A o \in Failing(checks) : 1 <= o
    BY <1>3, <1>4, <1>5, Zenon
  <2> QED
    BY <2>1, <1>1, <1>2, <1>5, FirstErrorIs, Zenon
<1>6. CASE ~a /\ b
  <2>1. 2 \in Failing(checks) /\ \A o \in Failing(checks) : 2 <= o
    BY <1>3, <1>4, <1>6, Zenon
  <2> QED
    BY <2>1, <1>1, <1>2, <1>6, FirstErrorIs, Zenon
<1>7. CASE ~a /\ ~b
  <2>1. Failing(checks) = {}
    BY <1>3, <1>7, Zenon
  <2> QED
    BY <2>1, <1>7, FirstErrorIs, Zenon
<1> QED
  BY <1>5, <1>6, <1>7, Zenon

\* Three checks in order, as in MemoryEntity::new and TableEntity::grow_raw.
LEMMA FirstError3 ==
    ASSUME NEW a \in BOOLEAN, NEW b \in BOOLEAN, NEW c \in BOOLEAN,
           NEW w, NEW x, NEW y
    PROVE  FirstError(<< <<a, w>>, <<b, x>>, <<c, y>> >>) =
             IF a THEN w ELSE IF b THEN x ELSE IF c THEN y ELSE "Ok"
<1> DEFINE checks == << <<a, w>>, <<b, x>>, <<c, y>> >>
<1> SUFFICES FirstError(checks) =
             IF a THEN w ELSE IF b THEN x ELSE IF c THEN y ELSE "Ok"
  OBVIOUS
<1>1. DOMAIN checks = {1, 2, 3} /\ DOMAIN checks \subseteq Int
  OBVIOUS
<1>2. /\ checks[1][1] = a /\ checks[1][2] = w
      /\ checks[2][1] = b /\ checks[2][2] = x
      /\ checks[3][1] = c /\ checks[3][2] = y
  OBVIOUS
<1> HIDE DEF checks
<1>3. /\ \A o \in Failing(checks) : o \in {1, 2, 3}
      /\ 1 \in Failing(checks) <=> a
      /\ 2 \in Failing(checks) <=> b
      /\ 3 \in Failing(checks) <=> c
  BY <1>1, <1>2, Zenon DEF Failing
<1>4. \A m, o \in {1, 2, 3} : m <= o <=> (m = 1 /\ o \in {1, 2, 3}) \/ (m = 2 /\ o \in {2, 3}) \/ (m = 3 /\ o \in {3})
  OBVIOUS
<1>5. CASE a
  <2>1. 1 \in Failing(checks) /\ \A o \in Failing(checks) : 1 <= o
    BY <1>3, <1>4, <1>5, Zenon
  <2> QED
    BY <2>1, <1>1, <1>2, <1>5, FirstErrorIs, Zenon
<1>6. CASE ~a /\ b
  <2>1. 2 \in Failing(checks) /\ \A o \in Failing(checks) : 2 <= o
    BY <1>3, <1>4, <1>6, Zenon
  <2> QED
    BY <2>1, <1>1, <1>2, <1>6, FirstErrorIs, Zenon
<1>7. CASE ~a /\ ~b /\ c
  <2>1. 3 \in Failing(checks) /\ \A o \in Failing(checks) : 3 <= o
    BY <1>3, <1>4, <1>7, Zenon
  <2> QED
    BY <2>1, <1>1, <1>2, <1>7, FirstErrorIs, Zenon
<1>8. CASE ~a /\ ~b /\ ~c
  <2>1. Failing(checks) = {}
    BY <1>3, <1>8, Zenon
  <2> QED
    BY <2>1, <1>8, FirstErrorIs, Zenon
<1> QED
  BY <1>5, <1>6, <1>7, <1>8, Zenon

\* Four checks in order, as in MemoryEntity::grow.
LEMMA FirstError4 ==
    ASSUME NEW a \in BOOLEAN, NEW b \in BOOLEAN, NEW c \in BOOLEAN, NEW d \in BOOLEAN,
           NEW w, NEW x, NEW y, NEW z
    PROVE  FirstError(<< <<a, w>>, <<b, x>>, <<c, y>>, <<d, z>> >>) =
             IF a THEN w ELSE IF b THEN x ELSE IF c THEN y ELSE IF d THEN z ELSE "Ok"
<1> DEFINE checks == << <<a, w>>, <<b, x>>, <<c, y>>, <<d, z>> >>
<1> SUFFICES FirstError(checks) =
             IF a THEN w ELSE IF b THEN x ELSE IF c THEN y ELSE IF d THEN z ELSE "Ok"
  OBVIOUS
<1>1. DOMAIN checks = {1, 2, 3, 4} /\ DOMAIN checks \subseteq Int
  OBVIOUS
<1>2. /\ checks[1][1] = a /\ checks[1][2] = w
      /\ checks[2][1] = b /\ checks[2][2] = x
      /\ checks[3][1] = c /\ checks[3][2] = y
      /\ checks[4][1] = d /\ checks[4][2] = z
  OBVIOUS
<1> HIDE DEF checks
<1>3. /\ \A o \in Failing(checks) : o \in {1, 2, 3, 4}
      /\ 1 \in Failing(checks) <=> a
      /\ 2 \in Failing(checks) <=> b
      /\ 3 \in Failing(checks) <=> c
      /\ 4 \in Failing(checks) <=> d
  BY <1>1, <1>2, Zenon DEF Failing
<1>4. \A m, o \in {1, 2, 3, 4} : m <= o <=> (m = 1 /\ o \in {1, 2, 3, 4}) \/ (m = 2 /\ o \in {2, 3, 4}) \/ (m = 3 /\ o \in {3, 4}) \/ (m = 4 /\ o \in {4})
  OBVIOUS
<1>5. CASE a
  <2>1. 1 \in Failing(checks) /\ \A o \in Failing(checks) : 1 <= o
    BY <1>3, <1>4, <1>5, Zenon
  <2> QED
    BY <2>1, <1>1, <1>2, <1>5, FirstErrorIs, Zenon
<1>6. CASE ~a /\ b
  <2>1. 2 \in Failing(checks) /\ \A o \in Failing(checks) : 2 <= o
    BY <1>3, <1>4, <1>6, Zenon
  <2> QED
    BY <2>1, <1>1, <1>2, <1>6, FirstErrorIs, Zenon
<1>7. CASE ~a /\ ~b /\ c
  <2>1. 3 \in Failing(checks) /\ \A o \in Failing(checks) : 3 <= o
    BY <1>3, <1>4, <1>7, Zenon
  <2> QED
    BY <2>1, <1>1, <1>2, <1>7, FirstErrorIs, Zenon
<1>8. CASE ~a /\ ~b /\ ~c /\ d
  <2>1. 4 \in Failing(checks) /\ \A o \in Failing(checks) : 4 <= o
    BY <1>3, <1>4, <1>8, Zenon
  <2> QED
    BY <2>1, <1>1, <1>2, <1>8, FirstErrorIs, Zenon
<1>9. CASE ~a /\ ~b /\ ~c /\ ~d
  <2>1. Failing(checks) = {}
    BY <1>3, <1>9, Zenon
  <2> QED
    BY <2>1, <1>9, FirstErrorIs, Zenon
<1> QED
  BY <1>5, <1>6, <1>7, <1>8, <1>9, Zenon

-----------------------------------------------------------------------------
(* Induction over the natural numbers, for a set in the place of a predicate. *)

Below == {p \in Nat \X Nat : p[1] < p[2]}

\* A set with 0 and every successor has all numbers: the loops over imports and over
\* the memories and tables of a store are counted by it.
LEMMA Induction ==
    ASSUME NEW S, 0 \in S, \A n \in Nat : n \in S => n + 1 \in S
    PROVE  Nat \subseteq S
<1> DEFINE B == {n \in Nat : n \notin S}
<1>1. SUFFICES ASSUME B # {} PROVE FALSE
  OBVIOUS
<1>2. B \subseteq Nat
  OBVIOUS
<1>3. IsWellFoundedOn(Below, Nat)
  BY NatLessThanWellFounded DEF OpToRel, Below
<1>4. \E n \in B : \A m \in B : ~(<<m, n>> \in Below)
  <2> HIDE DEF B
  <2> QED
    BY <1>1, <1>2, <1>3, WFMin, ZenonT(60)
<1>5. PICK n \in B : \A m \in B : ~(m < n)
  BY <1>4, ZenonT(60) DEF Below
<1>6. n # 0 /\ n - 1 \in Nat /\ n - 1 \in S
  BY <1>5, SMT
<1>7. n - 1 + 1 \in S /\ n - 1 + 1 = n
  <2>1. n - 1 + 1 \in S
    BY <1>6, Zenon
  <2> QED
    BY <2>1, SMT
<1> QED
  BY <1>7

\* The same up to a number.
LEMMA Upto ==
    ASSUME NEW n \in Nat, NEW S, 0 \in S, \A i \in 1..n : i - 1 \in S => i \in S
    PROVE  0..n \subseteq S
<1> DEFINE T == {i \in Nat : i <= n => i \in S}
<1>1. 0 \in T
  OBVIOUS
<1>2. ASSUME NEW i \in Nat, i \in T PROVE i + 1 \in T
  <2>1. CASE i + 1 <= n
    <3>1. i + 1 \in 1..n /\ (i + 1) - 1 = i /\ i \in S
      BY <1>2, <2>1, SMT
    <3>2. i + 1 \in S
      BY <3>1, Zenon
    <3> QED
      BY <3>2, SMT
  <2> QED
    BY <2>1, SMT
<1>3. Nat \subseteq T
  <2> HIDE DEF T
  <2> QED
    BY <1>1, <1>2, Induction
<1> QED
  BY <1>3, SMT

\* A function defined from its value at i - 1 exists, and has values of the type of
\* its steps.  step[i][v] is its value at i when v is its value at i - 1.
IsRecursive(f, n, init, step) ==
    /\ DOMAIN f = 0..n /\ f[0] = init
    /\ \A i \in 1..n : f[i] = step[i][f[i - 1]]

\* What a loop computes: there is a function that starts with init and takes the steps.
LEMMA RecursionExists ==
    ASSUME NEW V, NEW init \in V, NEW n \in Nat, NEW step \in [1..n -> [V -> V]]
    PROVE  \E f \in [0..n -> V] : IsRecursive(f, n, init, step)
<1> DEFINE S == {m \in 0..n : \E f \in [0..m -> V] : IsRecursive(f, m, init, step)}
<1>1. 0 \in S
  <2> DEFINE f == [i \in 0..0 |-> init]
  <2>1. f \in [0..0 -> V] /\ IsRecursive(f, 0, init, step)
    BY DEF IsRecursive
  <2> HIDE DEF f
  <2> QED
    BY <2>1
<1>2. ASSUME NEW m \in 1..n, m - 1 \in S PROVE m \in S
  <2>1. PICK f \in [0..(m - 1) -> V] : IsRecursive(f, m - 1, init, step)
    BY <1>2
  <2> DEFINE g == [i \in 0..m |-> IF i = m THEN step[m][f[m - 1]] ELSE f[i]]
  <2>2. step[m][f[m - 1]] \in V
    OBVIOUS
  <2>3. g \in [0..m -> V]
    BY <2>2
  <2>4. \A i \in 1..m : g[i] = step[i][g[i - 1]]
    BY <2>1, SMT DEF IsRecursive
  <2>5. DOMAIN g = 0..m /\ g[0] = init
    BY <2>1, SMT DEF IsRecursive
  <2> HIDE DEF g
  <2>6. IsRecursive(g, m, init, step)
    BY <2>4, <2>5, Zenon DEF IsRecursive
  <2>7. m \in 0..n
    OBVIOUS
  <2> QED
    BY <2>3, <2>6, <2>7, Zenon
<1> HIDE DEF S
<1>3. 0..n \subseteq S
  BY <1>1, <1>2, Upto, ZenonT(60)
<1> QED
  BY <1>3 DEF S

-----------------------------------------------------------------------------
(* Sums. *)

Sums(f, sizes) ==
    /\ \A i \in 0..Len(sizes) : f[i] \in Int
    /\ f[0] = 0 /\ \A i \in 1..Len(sizes) : f[i] = f[i - 1] + sizes[i]

\* Total is the last of the partial sums.
LEMMA TotalIs ==
    ASSUME NEW sizes \in Seq(Int)
    PROVE  \E f : Sums(f, sizes) /\ Total(sizes) = f[Len(sizes)]
<1> DEFINE n == Len(sizes)
           step == [i \in 1..n |-> [v \in Int |-> v + sizes[i]]]
           Defining(f) == f = [i \in 0..n |-> IF i = 0 THEN 0 ELSE f[i - 1] + sizes[i]]
           c == CHOOSE f : Defining(f)
<1>1. n \in Nat /\ step \in [1..n -> [Int -> Int]] /\ \A i \in 1..n : sizes[i] \in Int
  OBVIOUS
<1>2. \A i \in 1..n : \A v \in Int : step[i][v] = v + sizes[i]
  OBVIOUS
<1>3. Total(sizes) = c[n]
  BY Zenon DEF Total
<1> HIDE DEF step, n
<1>4. PICK f \in [0..n -> Int] : IsRecursive(f, n, 0, step)
  <2>1. 0 \in Int
    OBVIOUS
  <2> QED
    BY <1>1, <2>1, RecursionExists, Zenon
<1>5. Defining(f)
  <2>1. \A i \in 0..n : f[i] = IF i = 0 THEN 0 ELSE f[i - 1] + sizes[i]
    <3>1. ASSUME NEW i \in 1..n PROVE f[i] = f[i - 1] + sizes[i]
      <4>1. i - 1 \in 0..n
        BY <1>1
      <4>2. f[i] = step[i][f[i - 1]] /\ f[i - 1] \in Int
        BY <1>4, <4>1, Zenon DEF IsRecursive
      <4> QED
        BY <1>2, <4>2, Zenon
    <3>2. f[0] = 0
      BY <1>4, Zenon DEF IsRecursive
    <3>3. \A i \in 0..n : i = 0 \/ i \in 1..n
      BY <1>1
    <3> QED
      BY <3>1, <3>2, <3>3, Zenon
  <2>2. f = [i \in 0..n |-> f[i]]
    OBVIOUS
  <2> QED
    BY <2>1, <2>2, SMTT(60)
<1>6. Defining(c)
  <2> HIDE DEF Defining
  <2> QED
    BY <1>5, Zenon
<1> HIDE DEF c
<1>7. DOMAIN c = 0..n /\ c[0] = 0 /\ \A i \in 1..n : c[i] = c[i - 1] + sizes[i]
  <2>1. DOMAIN c = 0..n /\ \A i \in 0..n : c[i] = IF i = 0 THEN 0 ELSE c[i - 1] + sizes[i]
    BY <1>6, Zenon
  <2>2. 0 \in 0..n /\ \A i \in 1..n : i \in 0..n /\ i # 0
    BY <1>1
  <2> QED
    BY <2>1, <2>2, Zenon
<1> DEFINE S == {i \in 0..n : c[i] \in Int}
<1>8. 0..n \subseteq S
  <2>1. 0 \in S
    BY <1>1, <1>7
  <2>2. ASSUME NEW i \in 1..n, i - 1 \in S PROVE i \in S
    <3>1. c[i] = c[i - 1] + sizes[i] /\ c[i - 1] \in Int /\ sizes[i] \in Int
      BY <1>1, <1>7, <2>2, Zenon
    <3>2. i \in 0..n /\ \A x, y \in Int : x + y \in Int
      BY <1>1
    <3> QED
      BY <3>1, <3>2, Zenon
  <2> HIDE DEF S
  <2> QED
    BY <1>1, <2>1, <2>2, Upto, ZenonT(60)
<1> QED
  BY <1>3, <1>7, <1>8, ZenonT(60) DEF Sums, n

\* Up to n, t is s with d more at k; from k on, so are its partial sums.
Differ(s, t, n, k, d) == \A i \in 1..n : t[i] = IF i = k THEN s[i] + d ELSE s[i]

\* A size that has grown by d adds d to the partial sums from there on.
LEMMA SumsDiffer ==
    ASSUME NEW s \in Seq(Int), NEW t \in Seq(Int), NEW f, NEW g, Sums(f, s), Sums(g, t),
           NEW n \in Nat, n <= Len(s), n <= Len(t), NEW k \in Nat, k > 0, NEW d \in Int, Differ(s, t, n, k, d)
    PROVE  g[n] = IF n >= k THEN f[n] + d ELSE f[n]
<1> DEFINE S == {i \in 0..n : g[i] = IF i >= k THEN f[i] + d ELSE f[i]}
<1>1. Len(s) \in Nat /\ Len(t) \in Nat
  OBVIOUS
<1>2. 0 \in S
  BY <1>1 DEF Sums
<1>3. ASSUME NEW i \in 1..n, i - 1 \in S PROVE i \in S
  <2>1. i \in 1..Len(s) /\ i \in 1..Len(t) /\ i - 1 \in 0..Len(s) /\ i - 1 \in 0..Len(t) /\ i \in 0..n
    BY <1>1
  <2>2. f[i] = f[i - 1] + s[i] /\ g[i] = g[i - 1] + t[i] /\ f[i - 1] \in Int /\ g[i - 1] \in Int
    BY <2>1, Zenon DEF Sums
  <2>3. s[i] \in Int /\ t[i] = IF i = k THEN s[i] + d ELSE s[i]
    BY <2>1 DEF Differ
  <2>4. g[i - 1] = IF i - 1 >= k THEN f[i - 1] + d ELSE f[i - 1]
    BY <1>3
  <2>5. g[i] = IF i >= k THEN f[i] + d ELSE f[i]
    <3> DEFINE a == f[i - 1]
               b == g[i - 1]
               x == s[i]
               y == t[i]
    <3>1. a \in Int /\ b \in Int /\ x \in Int /\ f[i] = a + x /\ g[i] = b + y
      BY <2>2, <2>3, Zenon
    <3>2. b = (IF i - 1 >= k THEN a + d ELSE a) /\ y = IF i = k THEN x + d ELSE x
      BY <2>3, <2>4, Zenon
    <3> HIDE DEF a, b, x, y
    <3>3. b + y = IF i >= k THEN (a + x) + d ELSE a + x
      BY <3>1, <3>2, SMTT(60)
    <3> QED
      BY <3>1, <3>3, Zenon
  <2> QED
    BY <2>1, <2>5, Zenon
<1> HIDE DEF S
<1>4. 0..n \subseteq S
  BY <1>1, <1>2, <1>3, Upto, ZenonT(60)
<1>5. n \in 0..n
  OBVIOUS
<1> QED
  BY <1>4, <1>5, Zenon DEF S

\* An item more.
LEMMA TotalAppend ==
    ASSUME NEW sizes \in Seq(Int), NEW x \in Int
    PROVE  Total(Append(sizes, x)) = Total(sizes) + x /\ Total(sizes) \in Int
<1> DEFINE t == Append(sizes, x)
           n == Len(sizes)
<1>1. t \in Seq(Int) /\ Len(t) = n + 1 /\ n \in Nat /\ t[n + 1] = x /\ \A i \in 1..n : t[i] = sizes[i]
  OBVIOUS
<1>2. PICK f : Sums(f, sizes) /\ Total(sizes) = f[n]
  BY TotalIs
<1> HIDE DEF t
<1>3. PICK g : Sums(g, t) /\ Total(t) = g[n + 1]
  BY <1>1, TotalIs
<1>4. g[n] = f[n]
  <2>1. n <= Len(sizes) /\ n <= Len(t) /\ n + 1 \in Nat /\ n + 1 > 0 /\ 0 \in Int /\ ~(n >= n + 1)
    BY <1>1
  <2>2. Differ(sizes, t, n, n + 1, 0)
    BY <1>1 DEF Differ
  <2> QED
    <3>1. g[n] = IF n >= n + 1 THEN f[n] + 0 ELSE f[n]
      <4> HIDE DEF n
      <4> QED
        BY <1>1, <1>2, <1>3, <2>1, <2>2, SumsDiffer, SMTT(60)
    <3> QED
      BY <2>1, <3>1, Zenon
<1>5. g[n + 1] = g[n] + t[n + 1] /\ f[n] \in Int
  <2>1. n + 1 \in 1..Len(t) /\ n \in 0..n /\ (n + 1) - 1 = n
    BY <1>1
  <2> QED
    BY <1>2, <1>3, <2>1, Zenon DEF Sums
<1> QED
  BY <1>1, <1>2, <1>3, <1>4, <1>5 DEF t

\* An item changed.
LEMMA TotalChange ==
    ASSUME NEW s \in Seq(Int), NEW t \in Seq(Int), Len(t) = Len(s), NEW k \in 1..Len(s), NEW d \in Int,
           Differ(s, t, Len(s), k, d)
    PROVE  Total(t) = Total(s) + d
<1> DEFINE n == Len(s)
<1>1. PICK f : Sums(f, s) /\ Total(s) = f[n]
  BY TotalIs
<1>2. PICK g : Sums(g, t) /\ Total(t) = g[n]
  BY TotalIs
<1>3. n \in Nat /\ k \in Nat /\ k > 0 /\ n >= k /\ n <= Len(s) /\ n <= Len(t) /\ Differ(s, t, n, k, d)
  OBVIOUS
<1> HIDE DEF n
<1>4. g[n] = IF n >= k THEN f[n] + d ELSE f[n]
  BY <1>1, <1>2, <1>3, SumsDiffer, SMTT(60)
<1> QED
  BY <1>1, <1>2, <1>3, <1>4, Zenon

-----------------------------------------------------------------------------
(* Sizes. *)

\* Pages to bytes and back.
LEMMA Products ==
    ASSUME NEW p \in Nat
    PROVE  /\ p * PageSize \in Nat
           /\ (p * PageSize) \div PageSize = p
           /\ (p * PageSize) % PageSize = 0
  BY SizesAssumption

\* A whole number of pages.
LEMMA WholePages ==
    ASSUME NEW len \in Nat, len % PageSize = 0
    PROVE  /\ len \div PageSize \in Nat
           /\ (len \div PageSize) * PageSize = len
           /\ \A p \in Nat : (len \div PageSize + p) * PageSize = len + p * PageSize
  BY SizesAssumption

\* Costs are natural numbers, and nothing costs nothing.
LEMMA Costs ==
    ASSUME NEW len \in Nat, NEW size \in Nat
    PROVE  /\ fuel_for_copying_values(len, size) \in Nat
           /\ fuel_for_copying_values(0, size) = 0
  BY SizesAssumption DEF fuel_for_copying_values

-----------------------------------------------------------------------------
(* Creation and growth. *)

Memories == [ty : Types, data : Seq(Nat), capacity : Option]

Tables == [ty : Types, elements : Seq(Nat)]

\* What the creation of a memory or a table comes to.
Errors == {"Ok", "MinimumSizeOverflow", "MaximumSizeOverflow", "ElementTypeMismatch", "InvalidStaticBufferSize",
           "OutOfSystemMemory", "ResourceLimiterDeniedAllocation"}

\* What a growth comes to: all or nothing, and the limiter is told of every failure it
\* had approved (notify_limiter).
LEMMA GrowthIs ==
    ASSUME NEW limits, NEW denied, NEW failed, NEW cost, NEW before, NEW after,
           NEW r, r = Growth(limits, denied, failed, cost, before, after)
    PROVE  /\ r.error = "Ok" <=> denied = "Ok" /\ failed = "Ok"
           /\ r.error = "Ok" => r.contents = after /\ r.spent = cost /\ r.asked /\ ~r.told
           /\ r.error # "Ok" => r.contents = before /\ (r.asked <=> r.told)
           /\ r.asked \in BOOLEAN /\ r.told \in BOOLEAN
           /\ r.spent = 0 \/ (r.spent = cost /\ denied = "Ok" /\ failed # "OutOfFuel")
           /\ denied \in Errors /\ failed \in Errors => r.error \in Errors
<1>1. r.error = CASE denied # "Ok" -> denied
                  [] failed # "Ok" -> grow_failed(limits, failed)
                  [] OTHER -> "Ok"
  BY Zenon DEF Growth
<1>2. /\ r.contents = IF denied = "Ok" /\ failed = "Ok" THEN after ELSE before
      /\ r.spent = IF denied = "Ok" /\ failed \notin {"OutOfFuel", "GrowOutOfBounds"} THEN cost ELSE 0
      /\ r.asked = (denied = "Ok") /\ r.told = (denied = "Ok" /\ failed # "Ok")
  BY Zenon DEF Growth
<1>3. r.error = "Ok" <=> denied = "Ok" /\ failed = "Ok"
  BY <1>1 DEF grow_failed
<1>4. denied \in Errors /\ failed \in Errors => r.error \in Errors
  BY <1>1 DEF grow_failed, Errors
<1> QED
  BY <1>2, <1>3, <1>4, ZenonT(60)

\* What a limiter that approves has seen.
LEMMA GrowingIs ==
    ASSUME NEW limits \in Limits, NEW limit, NEW desired, NEW maximum
    PROVE  /\ Growing(limits, limit, desired, maximum) \in {"true", "err", "false"}
           /\ Growing(limits, limit, desired, maximum) = "true" /\ limits.on => ~Exceeds(desired, limit)
  BY DEF Growing, Limits

\* A new buffer.
LEMMA RepeatIs ==
    ASSUME NEW value \in Nat, NEW len \in Nat
    PROVE  /\ Repeat(value, len) \in Seq(Nat) /\ Len(Repeat(value, len)) = len
           /\ \A n \in 1..len : Repeat(value, len)[n] = value
  BY DEF Repeat

\* ByteBuffer::new and grow keep a static buffer within its capacity.
LEMMA BufferErrorIs ==
    ASSUME NEW capacity \in Option, NEW size \in Nat, NEW alloc \in BOOLEAN
    PROVE  /\ BufferError(capacity, size, alloc) = "Ok" => ~Exceeds(size, capacity)
           /\ BufferError(capacity, size, alloc) # "Ok" => capacity # None \/ ~alloc
           /\ BufferError(capacity, size, alloc) # "OutOfFuel" /\ BufferError(capacity, size, alloc) \in Errors
<1> DEFINE a == capacity # None /\ size > capacity
           b == capacity = None /\ ~alloc
<1>1. a \in BOOLEAN /\ b \in BOOLEAN
  OBVIOUS
<1>2. BufferError(capacity, size, alloc) =
        FirstError(<< <<a, "InvalidStaticBufferSize">>, <<b, "OutOfSystemMemory">> >>)
  BY Zenon DEF BufferError
<1>3. BufferError(capacity, size, alloc) =
        IF a THEN "InvalidStaticBufferSize" ELSE IF b THEN "OutOfSystemMemory" ELSE "Ok"
  <2> HIDE DEF a, b
  <2> QED
    BY <1>1, <1>2, FirstError2, SMT
<1> QED
  BY <1>3 DEF Exceeds, Errors

\* Memory::new: a memory that is made has the size of its type, which all limits allow.
LEMMA MemoryNew ==
    ASSUME NEW limits \in Limits, NEW ty \in Types, NEW capacity \in Option, NEW alloc \in BOOLEAN,
           NEW r, r = Memory_new(limits, ty, capacity, alloc)
    PROVE  /\ r.error = "Ok" =>
                /\ r.contents \in Seq(Nat) /\ Len(r.contents) = ty.min * PageSize
                /\ ty.min <= AbsoluteMax /\ ~Exceeds(ty.min * PageSize, capacity)
                /\ limits.on => ~Exceeds(ty.min * PageSize, limits.memory_size)
                /\ r.asked /\ ~r.told
           /\ r.error # "Ok" => (r.asked <=> r.told)
           /\ r.asked \in BOOLEAN /\ r.told \in BOOLEAN
           /\ ToBytes(ty.min) = ty.min * PageSize /\ ty.min * PageSize \in Nat
           /\ r.error \in Errors
<1> DEFINE denied == FirstError(<< <<ty.min > AbsoluteMax, "MinimumSizeOverflow">>,
                         <<Exceeds(ty.max, AbsoluteMax), "MaximumSizeOverflow">>,
                         <<memory_growing(limits, ToBytes(ty.min), ToBytes(ty.max)) # "true",
                           "ResourceLimiterDeniedAllocation">> >>)
           bytes == ToBytes(ty.min)
           failed == BufferError(capacity, bytes, alloc)
<1>1. ty.min \in Nat /\ ty.max \in Option
  BY DEF Types
<1>2. bytes = ty.min * PageSize /\ ty.min * PageSize \in Nat
  BY <1>1, Products DEF ToBytes, None
<1>3. r = Growth(limits, denied, failed, 0, <<>>, Repeat(0, bytes))
  BY Zenon DEF Memory_new
<1>4. /\ denied = "Ok" => ty.min <= AbsoluteMax /\ memory_growing(limits, bytes, ToBytes(ty.max)) = "true"
      /\ denied \in Errors
  <2> DEFINE a == ty.min > AbsoluteMax
             b == Exceeds(ty.max, AbsoluteMax)
             c == memory_growing(limits, ToBytes(ty.min), ToBytes(ty.max)) # "true"
  <2>1. a \in BOOLEAN /\ b \in BOOLEAN /\ c \in BOOLEAN
    BY DEF Exceeds
  <2>2. denied = IF a THEN "MinimumSizeOverflow" ELSE IF b THEN "MaximumSizeOverflow"
                 ELSE IF c THEN "ResourceLimiterDeniedAllocation" ELSE "Ok"
    <3>1. denied = FirstError(<< <<a, "MinimumSizeOverflow">>, <<b, "MaximumSizeOverflow">>,
                                 <<c, "ResourceLimiterDeniedAllocation">> >>)
      BY Zenon
    <3> HIDE DEF a, b, c, denied
    <3> QED
      BY <2>1, <3>1, FirstError3, SMT
  <2>3. (denied = "Ok" => ~a /\ ~c) /\ denied \in Errors
    BY <2>1, <2>2 DEF Errors
  <2> QED
    BY <1>1, <2>3, SizesAssumption
<1> HIDE DEF denied, failed, bytes
<1>5. memory_growing(limits, bytes, ToBytes(ty.max)) = "true" => (limits.on => ~Exceeds(bytes, limits.memory_size))
  BY GrowingIs, Zenon DEF memory_growing
<1>6. Repeat(0, bytes) \in Seq(Nat) /\ Len(Repeat(0, bytes)) = bytes
  BY <1>2, RepeatIs, SMTT(60)
<1>7. (failed = "Ok" => ~Exceeds(bytes, capacity)) /\ failed \in Errors
  BY <1>2, BufferErrorIs DEF failed
<1>8. /\ r.error = "Ok" <=> denied = "Ok" /\ failed = "Ok"
      /\ r.error = "Ok" => r.contents = Repeat(0, bytes) /\ r.asked /\ ~r.told
      /\ r.error # "Ok" => (r.asked <=> r.told)
      /\ r.asked \in BOOLEAN /\ r.told \in BOOLEAN
      /\ denied \in Errors /\ failed \in Errors => r.error \in Errors
  BY <1>3, GrowthIs
<1> QED
  BY <1>2, <1>4, <1>5, <1>6, <1>7, <1>8, Zenon DEF bytes

\* What a growth by `more` from `before` does, r being its result; new places are of V.
Grown(r, before, more, V, fuel, cost) ==
    /\ r.contents \in Seq(Nat)
    /\ \A n \in 1..Len(r.contents) :
            (n <= Len(before) /\ r.contents[n] = before[n]) \/ r.contents[n] \in V
    /\ r.error = "Ok" =>
            /\ Len(r.contents) = Len(before) + more /\ r.spent = cost
            /\ more = 0 \/ (r.asked /\ ~r.told)
    /\ r.error # "Ok" => r.contents = before /\ (r.asked <=> r.told)
    /\ r.asked \in BOOLEAN /\ r.told \in BOOLEAN
    /\ r.spent \in Nat /\ (fuel.enabled => r.spent <= fuel.remaining)

\* Growing by nothing.
LEMMA NoGrowthIs ==
    ASSUME NEW before \in Seq(Nat), NEW V, NEW fuel \in Fuels
    PROVE  Grown(NoGrowth(before), before, 0, V, fuel, 0)
  BY DEF NoGrowth, Grown, Fuels

\* A growth that is not by nothing.
LEMMA GrowthGrows ==
    ASSUME NEW limits, NEW denied, NEW failed, NEW cost \in Nat, NEW before \in Seq(Nat), NEW value \in Nat,
           NEW more \in Nat, NEW fuel \in Fuels, OutOfFuel(fuel, cost) => failed # "Ok",
           denied = "Ok" /\ OutOfFuel(fuel, cost) => failed \in {"OutOfFuel", "GrowOutOfBounds"},
           NEW r, r = Growth(limits, denied, failed, cost, before, before \o Repeat(value, more))
    PROVE  Grown(r, before, more, {value}, fuel, cost)
<1> DEFINE after == before \o Repeat(value, more)
           new == Repeat(value, more)
<1>0. new \in Seq(Nat) /\ Len(new) = more /\ \A n \in 1..more : new[n] = value
  BY RepeatIs
<1> HIDE DEF new
<1>1. after \in Seq(Nat) /\ Len(after) = Len(before) + more /\ Len(before) \in Nat
  BY <1>0, SMTT(60) DEF new
<1>2. ASSUME NEW n \in 1..Len(after)
      PROVE  (n <= Len(before) /\ after[n] = before[n]) \/ after[n] = value
  <2>1. CASE n <= Len(before)
    BY <1>1, <2>1
  <2>2. CASE n > Len(before)
    <3>1. n - Len(before) \in 1..more /\ after[n] = new[n - Len(before)]
      BY <1>0, <1>1, <2>2 DEF new
    <3> QED
      BY <1>0, <3>1
  <2> QED
    BY <1>1, <2>1, <2>2
<1> HIDE DEF after
<1>3. /\ r.error = "Ok" => r.contents = after /\ r.spent = cost /\ r.asked /\ ~r.told
      /\ r.error # "Ok" => r.contents = before /\ (r.asked <=> r.told)
      /\ r.asked \in BOOLEAN /\ r.told \in BOOLEAN
  <2>1. r = Growth(limits, denied, failed, cost, before, after)
    BY Zenon DEF after
  <2> QED
    BY <2>1, GrowthIs
<1>4. r.spent = IF denied = "Ok" /\ failed \notin {"OutOfFuel", "GrowOutOfBounds"} THEN cost ELSE 0
  BY Zenon DEF Growth
<1>5. r.spent \in Nat /\ (fuel.enabled => r.spent <= fuel.remaining)
  BY <1>4 DEF OutOfFuel, Fuels
<1>6. \A n \in 1..Len(r.contents) :
            (n <= Len(before) /\ r.contents[n] = before[n]) \/ r.contents[n] \in {value}
  <2>1. CASE r.contents = after
    BY <1>2, <2>1, Zenon
  <2>2. CASE r.contents = before
    BY <1>1, <2>2
  <2> QED
    BY <1>3, <2>1, <2>2, Zenon
<1> QED
  BY <1>1, <1>3, <1>5, <1>6, ZenonT(60) DEF Grown

\* Memory::grow keeps a memory within its type, its buffer and its limits, and takes
\* fuel for a growth that fails only when the buffer could not grow.
THEOREM MemoryGrow ==
    ASSUME NEW limits \in Limits, NEW memory \in Memories, Len(memory.data) % PageSize = 0,
           NEW additional \in Nat, NEW fuel \in Fuels, NEW alloc \in BOOLEAN,
           NEW r, r = Memory_grow(limits, memory, additional, fuel, alloc)
    PROVE  /\ Grown(r, memory.data, additional * PageSize, {0}, fuel, MemoryCost(additional))
           /\ additional * PageSize \in Nat /\ ToBytes(additional) = additional * PageSize
           /\ r.error = "Ok" /\ additional # 0 =>
                /\ Pages(memory) + additional <= AbsoluteMax
                /\ ~Exceeds(Pages(memory) + additional, memory.ty.max)
                /\ ~Exceeds(Len(memory.data) + additional * PageSize, memory.capacity)
                /\ limits.on => ~Exceeds(Len(memory.data) + additional * PageSize, limits.memory_size)
           /\ r.error # "Ok" => r.spent = 0 \/ memory.capacity # None \/ ~alloc
<1> DEFINE desired == Pages(memory) + additional
           cost == MemoryCost(additional)
           data == memory.data
           verdict == memory_growing(limits, ToBytes(desired), ToBytes(memory.ty.max))
           buffer == BufferError(memory.capacity, ToBytes(desired), alloc)
           a == desired > AbsoluteMax
           b == Exceeds(desired, memory.ty.max)
           c == verdict = "false"
           d == verdict = "err"
           e == OutOfFuel(fuel, cost)
           t == TRUE
           denied == FirstError(<< <<a, "OutOfBoundsGrowth">>, <<b, "OutOfBoundsGrowth">>,
                                   <<c, "OutOfBoundsGrowth">>, <<d, "ResourceLimiterDeniedAllocation">> >>)
           failed == FirstError(<< <<e, "OutOfFuel">>, <<t, buffer>> >>)
           more == additional * PageSize
<1>1. /\ data \in Seq(Nat) /\ memory.ty.max \in Option /\ memory.capacity \in Option
      /\ Pages(memory) \in Nat /\ desired \in Nat /\ more \in Nat
      /\ ToBytes(additional) = more /\ ToBytes(desired) = Len(data) + more
      /\ Len(data) \in Nat
  <2>1. data \in Seq(Nat) /\ memory.ty \in Types /\ memory.capacity \in Option /\ Len(data) \in Nat
    BY DEF Memories
  <2>2. memory.ty.max \in Option
    BY <2>1 DEF Types
  <2>3. Pages(memory) \in Nat /\ desired \in Nat /\ more \in Nat
    <3>1. Pages(memory) \in Nat
      BY <2>1, WholePages DEF Pages
    <3>2. more \in Nat
      BY Products
    <3> QED
      BY <3>1, <3>2
  <2>4. ToBytes(additional) = more /\ ToBytes(desired) = desired * PageSize
    BY <2>3 DEF ToBytes, None
  <2>5. desired * PageSize = Len(data) + more
    BY <2>1, WholePages DEF Pages
  <2> QED
    BY <2>1, <2>2, <2>3, <2>4, <2>5, Zenon
<1>2. cost \in Nat /\ MemoryCost(0) = 0
  BY Costs, SizesAssumption, ZenonT(60) DEF MemoryCost
<1>3. CASE additional = 0
  <2>1. r = NoGrowth(data) /\ more = 0 /\ cost = 0
    BY <1>2, <1>3, SizesAssumption DEF Memory_grow
  <2>2. Grown(r, data, more, {0}, fuel, cost)
    BY <1>1, <2>1, NoGrowthIs
  <2>3. r.error = "Ok"
    BY <2>1 DEF NoGrowth
  <2> QED
    BY <1>1, <1>3, <2>2, <2>3, Zenon
<1>4. CASE additional # 0
  <2>1. a \in BOOLEAN /\ b \in BOOLEAN /\ c \in BOOLEAN /\ d \in BOOLEAN /\ e \in BOOLEAN /\ t \in BOOLEAN
    BY DEF Exceeds, OutOfFuel, Fuels
  <2>0. t
    OBVIOUS
  <2>2. r = Growth(limits, denied, failed, cost, data, data \o Repeat(0, ToBytes(desired) - Len(data)))
    BY <1>4, Zenon DEF Memory_grow, MemoryGrowth
  <2>3. ToBytes(desired) - Len(data) = more
    BY <1>1
  <2>4. /\ verdict \in {"true", "err", "false"}
        /\ verdict = "true" /\ limits.on => ~Exceeds(ToBytes(desired), limits.memory_size)
    BY GrowingIs, Zenon DEF memory_growing
  <2>5. /\ buffer = "Ok" => ~Exceeds(ToBytes(desired), memory.capacity)
        /\ buffer # "Ok" => memory.capacity # None \/ ~alloc
        /\ buffer # "OutOfFuel"
    <3>1. Len(data) + more \in Nat
      BY <1>1
    <3> QED
      BY <1>1, <3>1, BufferErrorIs
  <2>6. a <=> desired > AbsoluteMax
    OBVIOUS
  <2>7. (c <=> verdict = "false") /\ (d <=> verdict = "err") /\ (e <=> OutOfFuel(fuel, cost))
        /\ (b <=> Exceeds(desired, memory.ty.max))
    OBVIOUS
  <2> HIDE DEF a, b, c, d, e, t, verdict, buffer, desired, cost, data, more
  <2>8. denied = IF a THEN "OutOfBoundsGrowth" ELSE IF b THEN "OutOfBoundsGrowth"
                 ELSE IF c THEN "OutOfBoundsGrowth" ELSE IF d THEN "ResourceLimiterDeniedAllocation" ELSE "Ok"
    BY <2>1, FirstError4, SMT DEF denied
  <2>9. failed = IF e THEN "OutOfFuel" ELSE IF t THEN buffer ELSE "Ok"
    BY <2>1, FirstError2, SMT DEF failed
  <2> HIDE DEF denied, failed
  <2>10. /\ denied = "Ok" => ~a /\ ~b /\ ~c /\ ~d
         /\ failed = IF e THEN "OutOfFuel" ELSE buffer
    BY <2>0, <2>1, <2>8, <2>9
  <2>11. Grown(r, data, more, {0}, fuel, cost)
    <3>1. OutOfFuel(fuel, cost) => failed # "Ok" /\ failed \in {"OutOfFuel", "GrowOutOfBounds"}
      BY <2>7, <2>10
    <3>2. r = Growth(limits, denied, failed, cost, data, data \o Repeat(0, more))
      BY <2>2, <2>3, Zenon
    <3> QED
      BY <1>1, <1>2, <3>1, <3>2, GrowthGrows
  <2>12. /\ r.error = "Ok" <=> denied = "Ok" /\ failed = "Ok"
         /\ r.spent = 0 \/ (denied = "Ok" /\ failed # "OutOfFuel")
    BY <2>2, GrowthIs
  <2>13. r.error = "Ok" =>
            /\ desired <= AbsoluteMax /\ ~Exceeds(desired, memory.ty.max)
            /\ ~Exceeds(Len(data) + more, memory.capacity)
            /\ limits.on => ~Exceeds(Len(data) + more, limits.memory_size)
    <3>1. ~(desired > AbsoluteMax) <=> desired <= AbsoluteMax
      BY <1>1, SizesAssumption
    <3> QED
      BY <1>1, <2>4, <2>5, <2>6, <2>7, <2>10, <2>12, <3>1
  <2>14. r.error # "Ok" => r.spent = 0 \/ memory.capacity # None \/ ~alloc
    BY <2>5, <2>10, <2>12
  <2> QED
    BY <1>1, <1>4, <2>11, <2>13, <2>14, Zenon DEF desired, cost, data, more
<1> QED
  BY <1>3, <1>4

\* Table::new: a table that is made has the size of its type, which the limiter allows.
LEMMA TableNew ==
    ASSUME NEW limits \in Limits, NEW ty \in Types, NEW init, init.raw \in Nat, NEW alloc \in BOOLEAN,
           NEW r, r = Table_new(limits, ty, init, alloc)
    PROVE  /\ r.error = "Ok" =>
                /\ r.contents \in Seq(Nat) /\ Len(r.contents) = ty.min
                /\ \A n \in 1..Len(r.contents) : r.contents[n] = init.raw
                /\ limits.on => ~Exceeds(ty.min, limits.table_elements)
                /\ r.asked /\ ~r.told
           /\ r.error # "Ok" => (r.asked <=> r.told)
           /\ r.asked \in BOOLEAN /\ r.told \in BOOLEAN /\ r.error \in Errors
<1> DEFINE a == ty.element # init.ty
           b == table_growing(limits, ty.min, ty.max) # "true"
           denied == FirstError(<< <<a, "ElementTypeMismatch">>, <<b, "ResourceLimiterDeniedAllocation">> >>)
           failed == IF alloc THEN "Ok" ELSE "OutOfSystemMemory"
           new == Repeat(init.raw, ty.min)
<1>1. ty.min \in Nat
  BY DEF Types
<1>2. r = Growth(limits, denied, failed, 0, <<>>, new)
  BY Zenon DEF Table_new
<1>3. new \in Seq(Nat) /\ Len(new) = ty.min /\ \A n \in 1..ty.min : new[n] = init.raw
  BY <1>1, RepeatIs, ZenonT(60)
<1>4. table_growing(limits, ty.min, ty.max) = "true" => (limits.on => ~Exceeds(ty.min, limits.table_elements))
  BY GrowingIs, Zenon DEF table_growing
<1>5. a \in BOOLEAN /\ b \in BOOLEAN /\ (b <=> table_growing(limits, ty.min, ty.max) # "true")
  OBVIOUS
<1> HIDE DEF a, b, new
<1>6. denied = IF a THEN "ElementTypeMismatch" ELSE IF b THEN "ResourceLimiterDeniedAllocation" ELSE "Ok"
  BY <1>5, FirstError2, SMT
<1>9. failed \in Errors
  BY DEF Errors
<1> HIDE DEF denied, failed
<1>7. (denied = "Ok" => ~b) /\ denied \in Errors
  BY <1>5, <1>6 DEF Errors
<1>8. /\ r.error = "Ok" <=> denied = "Ok" /\ failed = "Ok"
      /\ r.error = "Ok" => r.contents = new /\ r.asked /\ ~r.told
      /\ r.error # "Ok" => (r.asked <=> r.told)
      /\ r.asked \in BOOLEAN /\ r.told \in BOOLEAN
      /\ denied \in Errors /\ failed \in Errors => r.error \in Errors
  BY <1>2, GrowthIs
<1> QED
  BY <1>3, <1>4, <1>5, <1>7, <1>8, <1>9, Zenon

\* Table::grow keeps a table within its type and its limits, and takes fuel for a
\* growth that fails only when the allocator failed.
THEOREM TableGrow ==
    ASSUME NEW limits \in Limits, NEW table \in Tables, NEW delta \in Nat, NEW init \in Nat,
           NEW fuel \in Fuels, NEW alloc \in BOOLEAN,
           NEW r, r = Table_grow(limits, table, delta, init, fuel, alloc)
    PROVE  /\ Grown(r, table.elements, delta, {init}, fuel, fuel_for_copying_values(delta, RefSize))
           /\ r.error = "Ok" /\ delta # 0 =>
                /\ Len(table.elements) + delta < TableMax
                /\ ~Exceeds(Len(table.elements) + delta, table.ty.max)
                /\ limits.on => ~Exceeds(Len(table.elements) + delta, limits.table_elements)
           /\ r.error # "Ok" => r.spent = 0 \/ ~alloc
<1> DEFINE elements == table.elements
           desired == Len(elements) + delta
           cost == fuel_for_copying_values(delta, RefSize)
           verdict == table_growing(limits, desired, table.ty.max)
           a == desired >= TableMax
           b == verdict = "false"
           c == verdict = "err"
           d == Exceeds(desired, table.ty.max)
           e == OutOfFuel(fuel, cost)
           f == ~alloc
           denied == FirstError(<< <<a, "GrowOutOfBounds">>, <<b, "GrowOutOfBounds">>,
                                   <<c, "ResourceLimiterDeniedAllocation">> >>)
           failed == FirstError(<< <<d, "GrowOutOfBounds">>, <<e, "OutOfFuel">>, <<f, "OutOfSystemMemory">> >>)
<1>1. elements \in Seq(Nat) /\ Len(elements) \in Nat /\ desired \in Nat
  BY DEF Tables
<1>2. cost \in Nat /\ fuel_for_copying_values(0, RefSize) = 0
  BY Costs, SizesAssumption, ZenonT(60)
<1>3. CASE delta = 0
  <2>1. r = NoGrowth(elements) /\ cost = 0
    BY <1>2, <1>3 DEF Table_grow
  <2>2. Grown(r, elements, delta, {init}, fuel, cost)
    BY <1>1, <1>3, <2>1, NoGrowthIs
  <2>3. r.error = "Ok"
    BY <2>1 DEF NoGrowth
  <2> QED
    BY <1>3, <2>2, <2>3, Zenon
<1>4. CASE delta # 0
  <2>1. a \in BOOLEAN /\ b \in BOOLEAN /\ c \in BOOLEAN /\ d \in BOOLEAN /\ e \in BOOLEAN /\ f \in BOOLEAN
    BY DEF Exceeds, OutOfFuel, Fuels
  <2>2. r = Growth(limits, denied, failed, cost, elements, elements \o Repeat(init, desired - Len(elements)))
    BY <1>4, Zenon DEF Table_grow, TableGrowth
  <2>3. desired - Len(elements) = delta
    BY <1>1
  <2>4. /\ verdict \in {"true", "err", "false"}
        /\ verdict = "true" /\ limits.on => ~Exceeds(desired, limits.table_elements)
    BY GrowingIs, Zenon DEF table_growing
  <2>5. /\ (a <=> desired >= TableMax) /\ (b <=> verdict = "false") /\ (c <=> verdict = "err")
        /\ (d <=> Exceeds(desired, table.ty.max)) /\ (e <=> OutOfFuel(fuel, cost)) /\ (f <=> ~alloc)
    OBVIOUS
  <2>6. ~(desired >= TableMax) <=> Len(elements) + delta < TableMax
    BY <1>1, SizesAssumption
  <2>7. desired = Len(elements) + delta
    OBVIOUS
  <2> HIDE DEF a, b, c, d, e, f, verdict, desired, cost, elements
  <2>8. denied = IF a THEN "GrowOutOfBounds" ELSE IF b THEN "GrowOutOfBounds"
                 ELSE IF c THEN "ResourceLimiterDeniedAllocation" ELSE "Ok"
    BY <2>1, FirstError3, SMT DEF denied
  <2>9. failed = IF d THEN "GrowOutOfBounds" ELSE IF e THEN "OutOfFuel"
                 ELSE IF f THEN "OutOfSystemMemory" ELSE "Ok"
    BY <2>1, FirstError3, SMT DEF failed
  <2> HIDE DEF denied, failed
  <2>10. /\ denied = "Ok" => ~a /\ ~b /\ ~c
         /\ failed = "Ok" => ~d /\ ~e
         /\ e => failed \in {"OutOfFuel", "GrowOutOfBounds"}
         /\ failed = "Ok" \/ failed \in {"OutOfFuel", "GrowOutOfBounds"} \/ f
    BY <2>1, <2>8, <2>9
  <2>11. Grown(r, elements, delta, {init}, fuel, cost)
    <3>1. OutOfFuel(fuel, cost) => failed # "Ok" /\ failed \in {"OutOfFuel", "GrowOutOfBounds"}
      BY <2>5, <2>10
    <3>2. r = Growth(limits, denied, failed, cost, elements, elements \o Repeat(init, delta))
      BY <2>2, <2>3, Zenon
    <3> QED
      BY <1>1, <1>2, <3>1, <3>2, GrowthGrows
  <2>12. /\ r.error = "Ok" <=> denied = "Ok" /\ failed = "Ok"
         /\ denied # "Ok" \/ failed \in {"OutOfFuel", "GrowOutOfBounds"} => r.spent = 0
    <3>1. r.spent = IF denied = "Ok" /\ failed \notin {"OutOfFuel", "GrowOutOfBounds"} THEN cost ELSE 0
      BY <2>2 DEF Growth
    <3> QED
      BY <2>2, <3>1, GrowthIs
  <2>13. r.error = "Ok" =>
            /\ Len(elements) + delta < TableMax
            /\ ~Exceeds(Len(elements) + delta, table.ty.max)
            /\ limits.on => ~Exceeds(Len(elements) + delta, limits.table_elements)
    BY <2>4, <2>5, <2>6, <2>7, <2>10, <2>12
  <2>14. r.error # "Ok" => r.spent = 0 \/ ~alloc
    BY <2>5, <2>10, <2>12
  <2> QED
    BY <2>11, <2>13, <2>14, Zenon DEF desired, cost, elements
<1> QED
  BY <1>3, <1>4

-----------------------------------------------------------------------------
(* Bulk operations. *)

\* What a bulk operation on `before` leaves, r being its result: places hold what they
\* held or a value of V, and one that fails has written nothing and taken no fuel.
Bulked(r, before, V, fuel) ==
    /\ r.slice \in Seq(Nat) /\ Len(r.slice) = Len(before)
    /\ \A n \in 1..Len(before) : r.slice[n] = before[n] \/ r.slice[n] \in V
    /\ r.spent \in Nat /\ (fuel.enabled => r.spent <= fuel.remaining)
    /\ r.error # "Ok" => r.slice = before /\ r.spent = 0

\* copy_from_slice writes values in places of the slice.
LEMMA CopyFromSlice ==
    ASSUME NEW slice \in Seq(Nat), NEW start \in Nat, NEW values \in Seq(Nat),
           NEW after, after = copy_from_slice(slice, start, values)
    PROVE  /\ after \in Seq(Nat) /\ Len(after) = Len(slice)
           /\ \A n \in 1..Len(slice) : after[n] = slice[n] \/ \E m \in 1..Len(values) : after[n] = values[m]
<1>1. DOMAIN slice = 1..Len(slice) /\ Len(slice) \in Nat /\ Len(values) \in Nat
  OBVIOUS
<1>2. after = [n \in 1..Len(slice) |->
                  IF n \in (start + 1)..(start + Len(values)) THEN values[n - start] ELSE slice[n]]
  BY <1>1 DEF copy_from_slice
<1>3. ASSUME NEW n \in 1..Len(slice)
      PROVE  /\ after[n] \in Nat
             /\ after[n] = slice[n] \/ \E m \in 1..Len(values) : after[n] = values[m]
  <2>1. CASE n \in (start + 1)..(start + Len(values))
    <3>1. n - start \in 1..Len(values) /\ after[n] = values[n - start]
      BY <1>1, <1>2, <2>1
    <3> QED
      BY <3>1
  <2>2. CASE n \notin (start + 1)..(start + Len(values))
    BY <1>1, <1>2, <2>2
  <2> QED
    BY <2>1, <2>2
<1>4. after \in Seq(Nat) /\ Len(after) = Len(slice)
  BY <1>1, <1>2, <1>3
<1> QED
  BY <1>3, <1>4

\* Bounds, then fuel, then all of the writing.
LEMMA BulkIs ==
    ASSUME NEW outOfBounds \in BOOLEAN, NEW fuel \in Fuels, NEW cost \in Nat, NEW before \in Seq(Nat),
           NEW after, NEW V,
           ~outOfBounds => /\ after \in Seq(Nat) /\ Len(after) = Len(before)
                           /\ \A n \in 1..Len(before) : after[n] = before[n] \/ after[n] \in V,
           NEW r, r = Bulk(outOfBounds, fuel, cost, before, after)
    PROVE  Bulked(r, before, V, fuel)
<1> DEFINE e == OutOfFuel(fuel, cost)
           error == FirstError(<< <<outOfBounds, "OutOfBounds">>, <<e, "OutOfFuel">> >>)
<1>1. e \in BOOLEAN /\ (e <=> fuel.enabled /\ cost > fuel.remaining)
  BY DEF OutOfFuel, Fuels
<1>2. /\ r.error = error
      /\ r.slice = IF error = "Ok" THEN after ELSE before
      /\ r.spent = IF error = "Ok" THEN cost ELSE 0
  BY Zenon DEF Bulk
<1> HIDE DEF e
<1>3. error = IF outOfBounds THEN "OutOfBounds" ELSE IF e THEN "OutOfFuel" ELSE "Ok"
  BY <1>1, FirstError2, SMT
<1> HIDE DEF error
<1>4. error = "Ok" <=> ~outOfBounds /\ ~e
  BY <1>1, <1>3
<1>5. CASE error = "Ok"
  <2>1. r.slice = after /\ r.spent = cost /\ r.error = "Ok"
    BY <1>2, <1>5, Zenon
  <2>2. fuel.enabled => cost <= fuel.remaining
    BY <1>1, <1>4, <1>5 DEF Fuels
  <2>3. /\ after \in Seq(Nat) /\ Len(after) = Len(before)
        /\ \A n \in 1..Len(before) : after[n] = before[n] \/ after[n] \in V
    BY <1>4, <1>5, Zenon
  <2> QED
    BY <2>1, <2>2, <2>3, Zenon DEF Bulked
<1>6. CASE error # "Ok"
  <2>1. r.slice = before /\ r.spent = 0 /\ r.error # "Ok"
    BY <1>2, <1>6, Zenon
  <2>2. 0 \in Nat /\ (fuel.enabled => 0 <= fuel.remaining)
    BY DEF Fuels
  <2> QED
    BY <2>1, <2>2, Zenon DEF Bulked
<1> QED
  BY <1>5, <1>6

\* memory.fill and table.fill write only the value.
LEMMA FillWrites ==
    ASSUME NEW slice \in Seq(Nat), NEW dst \in Nat, NEW value \in Nat, NEW len \in Nat,
           NEW fuel \in Fuels, NEW size \in Nat, NEW r, r = Fill(slice, dst, value, len, fuel, size)
    PROVE  Bulked(r, slice, {value}, fuel)
<1> DEFINE values == Repeat(value, len)
           after == copy_from_slice(slice, dst, values)
           out == ~InBounds(slice, dst, len)
           cost == fuel_for_copying_values(len, size)
<1>1. values \in Seq(Nat) /\ Len(values) = len /\ \A n \in 1..len : values[n] = value
  BY RepeatIs
<1>2. cost \in Nat /\ out \in BOOLEAN
  BY Costs DEF InBounds
<1>3. r = Bulk(out, fuel, cost, slice, after)
  BY Zenon DEF Fill
<1> HIDE DEF values
<1>4. /\ after \in Seq(Nat) /\ Len(after) = Len(slice)
      /\ \A n \in 1..Len(slice) : after[n] = slice[n] \/ \E m \in 1..Len(values) : after[n] = values[m]
  BY <1>1, CopyFromSlice, SMTT(60)
<1> HIDE DEF after, out, cost
<1>5. \A n \in 1..Len(slice) : after[n] = slice[n] \/ after[n] \in {value}
  BY <1>1, <1>4, Zenon
<1> QED
  BY <1>2, <1>3, <1>4, <1>5, BulkIs, SMTT(60)

\* The items of a span are items.
LEMMA SpanIs ==
    ASSUME NEW items \in Seq(Nat), NEW src \in Nat, NEW len \in Nat, src + len <= Len(items)
    PROVE  /\ Span(items, src, len) \in Seq(Nat) /\ Len(Span(items, src, len)) = len
           /\ \A m \in 1..len : \E o \in 1..Len(items) : Span(items, src, len)[m] = items[o]
<1>1. Len(items) \in Nat
  OBVIOUS
<1>2. Span(items, src, len) \in Seq(Nat) /\ Len(Span(items, src, len)) = len
  BY <1>1 DEF Span
<1>3. ASSUME NEW m \in 1..len
      PROVE  \E o \in 1..Len(items) : Span(items, src, len)[m] = items[o]
  <2>1. src + m \in 1..Len(items) /\ Span(items, src, len)[m] = items[src + m]
    BY <1>1 DEF Span
  <2> QED
    BY <2>1
<1> QED
  BY <1>2, <1>3

\* The values of a sequence.
Held(items) == {items[n] : n \in 1..Len(items)}

\* What is written by a copy of a span: items of the source.
LEMMA SpanWrites ==
    ASSUME NEW slice \in Seq(Nat), NEW dst \in Nat, NEW items \in Seq(Nat), NEW src \in Nat, NEW len \in Nat,
           src + len <= Len(items), NEW after, after = copy_from_slice(slice, dst, Span(items, src, len))
    PROVE  /\ after \in Seq(Nat) /\ Len(after) = Len(slice)
           /\ \A n \in 1..Len(slice) : after[n] = slice[n] \/ after[n] \in Held(items)
<1> DEFINE values == Span(items, src, len)
<1>1. /\ values \in Seq(Nat) /\ Len(values) = len
      /\ \A m \in 1..len : \E o \in 1..Len(items) : values[m] = items[o]
  BY SpanIs
<1> HIDE DEF values
<1>0. values \in Seq(Nat)
  BY <1>1
<1> DEFINE copied == copy_from_slice(slice, dst, values)
<1>2. after = copied
  BY Zenon DEF values
<1>3. /\ copied \in Seq(Nat) /\ Len(copied) = Len(slice)
      /\ \A n \in 1..Len(slice) : copied[n] = slice[n] \/ \E m \in 1..Len(values) : copied[n] = values[m]
  BY <1>0, CopyFromSlice
<1> HIDE DEF copied
<1>4. ASSUME NEW n \in 1..Len(slice), copied[n] # slice[n]
      PROVE  copied[n] \in Held(items)
  <2>1. PICK m \in 1..Len(values) : copied[n] = values[m]
    BY <1>3, <1>4, Zenon
  <2>2. PICK o \in 1..Len(items) : values[m] = items[o]
    BY <1>1, <2>1, Zenon
  <2> QED
    BY <2>1, <2>2, Zenon DEF Held
<1> QED
  BY <1>2, <1>3, <1>4, Zenon

\* memory.init, table.init and the copies between two write only items of the source.
LEMMA CopyWrites ==
    ASSUME NEW slice \in Seq(Nat), NEW dst \in Nat, NEW items \in Seq(Nat), NEW src \in Nat, NEW len \in Nat,
           NEW fuel \in Fuels, NEW size \in Nat, NEW r, r = CopyFrom(slice, dst, items, src, len, fuel, size)
    PROVE  Bulked(r, slice, Held(items), fuel)
<1> DEFINE after == copy_from_slice(slice, dst, Span(items, src, len))
           out == ~InBounds(slice, dst, len) \/ ~InBounds(items, src, len)
           cost == fuel_for_copying_values(len, size)
<1>1. cost \in Nat /\ out \in BOOLEAN /\ (~out => src + len <= Len(items))
  BY Costs DEF InBounds
<1>2. r = Bulk(out, fuel, cost, slice, after)
  BY Zenon DEF CopyFrom
<1>3. ~out => /\ after \in Seq(Nat) /\ Len(after) = Len(slice)
              /\ \A n \in 1..Len(slice) : after[n] = slice[n] \/ after[n] \in Held(items)
  <2> HIDE DEF out
  <2> SUFFICES ASSUME ~out
               PROVE  /\ after \in Seq(Nat) /\ Len(after) = Len(slice)
                      /\ \A n \in 1..Len(slice) : after[n] = slice[n] \/ after[n] \in Held(items)
    OBVIOUS
  <2>1. src + len <= Len(items)
    BY <1>1, Zenon
  <2> QED
    BY <2>1, SpanWrites
<1> HIDE DEF after, out, cost
<1> QED
  BY <1>1, <1>2, <1>3, BulkIs

\* A copy in one slice permutes and repeats its values.
LEMMA CopyWithinWrites ==
    ASSUME NEW slice \in Seq(Nat), NEW dst \in Nat, NEW src \in Nat, NEW len \in Nat,
           NEW fuel \in Fuels, NEW size \in Nat, NEW r, r = copy_within(slice, dst, src, len, fuel, size)
    PROVE  Bulked(r, slice, Held(slice), fuel)
<1> DEFINE after == copy_from_slice(slice, dst, Span(slice, src, len))
           max_offset == IF dst > src THEN dst ELSE src
           out == max_offset + len > Len(slice)
           cost == fuel_for_copying_values(len, size)
<1>1. cost \in Nat
  BY Costs
<1>2. out \in BOOLEAN /\ (~out => src + len <= Len(slice))
  <2>1. Len(slice) \in Nat
    OBVIOUS
  <2> QED
    BY <2>1
<1>3. r = Bulk(out, fuel, cost, slice, after)
  BY Zenon DEF copy_within
<1>4. ~out => /\ after \in Seq(Nat) /\ Len(after) = Len(slice)
              /\ \A n \in 1..Len(slice) : after[n] = slice[n] \/ after[n] \in Held(slice)
  BY <1>2, SpanWrites, SMTT(60)
<1> HIDE DEF after, out, cost
<1> QED
  BY <1>1, <1>2, <1>3, <1>4, BulkIs

\* What copying a segment into a slice writes is of the segment.
LEMMA SegmentWrites ==
    ASSUME NEW slice \in Seq(Nat), NEW start \in Nat, NEW values \in Seq(Nat)
    PROVE  Bulked([error |-> "Ok", slice |-> copy_from_slice(slice, start, values), spent |-> 0],
                  slice, Held(values), NoFuel)
<1> DEFINE after == copy_from_slice(slice, start, values)
           r == [error |-> "Ok", slice |-> after, spent |-> 0]
<1>1. /\ after \in Seq(Nat) /\ Len(after) = Len(slice)
      /\ \A n \in 1..Len(slice) : after[n] = slice[n] \/ \E m \in 1..Len(values) : after[n] = values[m]
  <2>1. after = copy_from_slice(slice, start, values)
    OBVIOUS
  <2> HIDE DEF after
  <2> QED
    BY <2>1, CopyFromSlice, SMTT(60)
<1> HIDE DEF after
<1>2. r.error = "Ok" /\ r.slice = after /\ r.spent = 0 /\ r.spent \in Nat /\ ~NoFuel.enabled
  BY DEF NoFuel
<1> HIDE DEF r
<1>3. Bulked(r, slice, Held(values), NoFuel)
  BY <1>1, <1>2, Zenon DEF Bulked, Held
<1> QED
  BY <1>3, Zenon DEF r, after

====
