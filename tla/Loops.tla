-------------------------------- MODULE Loops --------------------------------
(* Induction over numbers, sets and sequences, and what functions defined by *)
(* recursion and the loops of Texts are.                                     *)
EXTENDS Texts, FiniteSetTheorems, FunctionTheorems, SequenceTheorems, TLAPS

\* A set of numbers that holds 0 and the successor of whatever it holds is all
\* of them: with a missing one, the missing ones up to it would be as many as
\* those less one each.
LEMMA Induction ==
  ASSUME NEW S, 0 \in S, \A n \in Nat : n \in S => n + 1 \in S
  PROVE  Nat \subseteq S
<1> SUFFICES ASSUME NEW n \in Nat, n \notin S PROVE FALSE
  OBVIOUS
<1> DEFINE A == {k \in 0 .. n : k \notin S}
           f == [k \in A |-> k - 1]
<1>1. IsFiniteSet(A)
  <2>1. IsFiniteSet(0 .. n) BY FS_Interval
  <2>2. A \subseteq 0 .. n OBVIOUS
  <2> QED BY <2>1, <2>2, FS_Subset
<1>2. f \in [A -> A]
  OBVIOUS
<1>3. f \in Injection(A, A)
  BY <1>2, Fun_IsInj
<1>4. f \in Surjection(A, A)
  BY <1>1, <1>3, FS_Injection
<1>5. PICK k \in A : f[k] = n
  BY <1>4, Fun_SurjectionProperties
<1> QED
  BY <1>5

\* A loop of n rounds: what a round does to what is held, an element of T, and
\* what is held at first and after each of them.
Rounds(step, n, T) == \A i \in 1 .. n, t \in T : step[i][t] \in T
Runs(g, step, n, b, T) ==
  /\ \A i \in 0 .. n : g[i] \in T
  /\ g[0] = b /\ \A i \in 1 .. n : g[i] = step[i][g[i - 1]]

\* The loop has a run.
LEMMA Loop ==
  ASSUME NEW T, NEW n \in Nat, NEW b \in T, NEW step, Rounds(step, n, T)
  PROVE  \E g \in [0 .. n -> T] : Runs(g, step, n, b, T)
<1> USE DEF Rounds, Runs
<1> DEFINE Eq(k, g) == g[0] = b /\ \A i \in 1 .. k : g[i] = step[i][g[i - 1]]
           S == {k \in Nat : k <= n => \E g \in [0 .. k -> T] : Eq(k, g)}
<1>1. 0 \in S
  <2> DEFINE g == [i \in 0 .. 0 |-> b]
  <2>1. g \in [0 .. 0 -> T] /\ Eq(0, g) OBVIOUS
  <2> QED BY <2>1
<1>2. ASSUME NEW k \in Nat, k \in S PROVE k + 1 \in S
  <2> SUFFICES ASSUME k + 1 <= n PROVE \E h \in [0 .. k + 1 -> T] : Eq(k + 1, h)
    OBVIOUS
  <2>1. PICK g \in [0 .. k -> T] : Eq(k, g) BY <1>2
  <2> DEFINE h == [i \in 0 .. k + 1 |-> IF i <= k THEN g[i] ELSE step[k + 1][g[k]]]
  <2>2. step[k + 1][g[k]] \in T OBVIOUS
  <2>3. h \in [0 .. k + 1 -> T] BY <2>2
  <2>4. h[0] = b BY <2>1
  <2>5. ASSUME NEW i \in 1 .. k + 1 PROVE h[i] = step[i][h[i - 1]]
    <3>1. CASE i \in 1 .. k
      <4>1. h[i] = g[i] /\ h[i - 1] = g[i - 1] BY <3>1
      <4>2. g[i] = step[i][g[i - 1]] BY <2>1, <3>1
      <4> QED BY <4>1, <4>2
    <3>2. CASE i = k + 1 BY <3>2
    <3> QED BY <3>1, <3>2
  <2> HIDE DEF h
  <2>6. Eq(k + 1, h) BY <2>4, <2>5
  <2> QED BY <2>3, <2>6
<1> HIDE DEF S
<1>3. Nat \subseteq S BY <1>1, <1>2, Induction
<1> QED BY <1>3 DEF S

\* Sets grow one element at a time.
LEMMA SetInduction ==
  ASSUME NEW S, IsFiniteSet(S), NEW P,
         \A T \in SUBSET S : (\A x \in T : T \ {x} \in P) => T \in P
  PROVE  S \in P
<1> DEFINE N == {n \in Nat : \A T \in SUBSET S : Cardinality(T) = n => T \in P}
<1>1. \A T \in SUBSET S : IsFiniteSet(T) /\ Cardinality(T) \in Nat
  BY FS_Subset, FS_CardinalityType
<1>2. 0 \in N
  BY <1>1, FS_EmptySet
<1>3. ASSUME NEW n \in Nat, n \in N PROVE n + 1 \in N
  <2> SUFFICES ASSUME NEW T \in SUBSET S, Cardinality(T) = n + 1 PROVE T \in P
    OBVIOUS
  <2>1. ASSUME NEW x \in T PROVE T \ {x} \in P
    <3>1. T \ {x} \in SUBSET S OBVIOUS
    <3>2. Cardinality(T \ {x}) = n BY <1>1, FS_RemoveElement
    <3> QED BY <1>3, <3>1, <3>2
  <2> QED BY <1>3, <2>1
<1> HIDE DEF N
<1>4. Cardinality(S) \in N BY <1>1, <1>2, <1>3, Induction
<1> QED BY <1>4 DEF N

\* Recursion of any other form: the value at x depends on the values at places
\* of a smaller size.
BySize(D, T, size, step) ==
  /\ T # {} /\ size \in [D -> Nat] /\ step \in [D -> [[D -> T] -> T]]
  /\ \A x \in D, g, h \in [D -> T] :
       (\A y \in D : size[y] < size[x] => g[y] = h[y]) => step[x][g] = step[x][h]

\* Recursion by size has a solution.
LEMMA SizedRecursion ==
  ASSUME NEW D, NEW T, NEW size, NEW step, BySize(D, T, size, step)
  PROVE  \E f \in [D -> T] : \A x \in D : f[x] = step[x][f]
<1> USE DEF BySize
<1>0. PICK any \in T : TRUE OBVIOUS
<1> DEFINE Good(n, g) == g \in [D -> T] /\ \A x \in D : size[x] < n => g[x] = step[x][g]
           S == {n \in Nat : \E g : Good(n, g)}
           Alike(n) == \A g, h : Good(n, g) /\ Good(n, h) => \A x \in D : size[x] < n => g[x] = h[x]
           U == {n \in Nat : Alike(n)}
<1>1. Nat \subseteq S
  <2>1. 0 \in S
    <3> DEFINE g == [x \in D |-> any]
    <3>1. Good(0, g) OBVIOUS
    <3> QED BY <3>1
  <2>2. ASSUME NEW n \in Nat, n \in S PROVE n + 1 \in S
    <3>1. PICK g : Good(n, g) BY <2>2
    <3> DEFINE h == [x \in D |-> IF size[x] < n THEN g[x] ELSE step[x][g]]
    <3>2. h \in [D -> T] BY <3>1
    <3>3. ASSUME NEW x \in D, size[x] < n + 1 PROVE h[x] = step[x][h]
      <4>1. \A y \in D : size[y] < size[x] => g[y] = h[y] BY <3>3
      <4>2. step[x][g] = step[x][h] BY <3>1, <3>2, <4>1
      <4>3. h[x] = step[x][g] BY <3>1
      <4> QED BY <4>2, <4>3
    <3> HIDE DEF h
    <3>4. Good(n + 1, h) BY <3>2, <3>3
    <3> QED BY <3>4
  <2> HIDE DEF S
  <2> QED BY <2>1, <2>2, Induction
<1>2. Nat \subseteq U
  <2>1. 0 \in U OBVIOUS
  <2>2. ASSUME NEW n \in Nat, n \in U PROVE n + 1 \in U
    <3> SUFFICES ASSUME NEW g, NEW h, Good(n + 1, g), Good(n + 1, h), NEW x \in D, size[x] < n + 1
                 PROVE  g[x] = h[x]
      OBVIOUS
    <3>1. Good(n, g) /\ Good(n, h) OBVIOUS
    <3>2. \A y \in D : size[y] < size[x] => g[y] = h[y] BY <2>2, <3>1
    <3>3. step[x][g] = step[x][h] BY <3>1, <3>2
    <3> QED BY <3>3
  <2> HIDE DEF U
  <2> QED BY <2>1, <2>2, Induction
<1> DEFINE best == [n \in Nat |-> CHOOSE g : Good(n, g)]
           f == [x \in D |-> best[size[x] + 1][x]]
<1>3. \A n \in Nat : Good(n, best[n]) BY <1>1
<1> HIDE DEF best
<1>4. f \in [D -> T] BY <1>3
<1>5. ASSUME NEW x \in D PROVE f[x] = step[x][f]
  <2> DEFINE n == size[x] + 1
  <2>1. n \in Nat /\ Good(n, best[n]) BY <1>3
  <2>2. ASSUME NEW y \in D, size[y] < size[x] PROVE f[y] = best[n][y]
    <3> DEFINE m == size[y] + 1
    <3>1. m \in Nat /\ Good(m, best[m]) BY <1>3
    <3>2. Good(m, best[n]) BY <2>1, <2>2
    <3>3. Alike(m)
      <4>1. m \in U BY <1>2, <3>1
      <4> QED BY <4>1
    <3>4. size[y] < m BY <3>1
    <3> HIDE DEF Good, m
    <3>5. best[m][y] = best[n][y] BY <3>1, <3>2, <3>3, <3>4
    <3> QED BY <3>5 DEF m
  <2>3. step[x][f] = step[x][best[n]] BY <1>4, <2>1, <2>2
  <2>4. best[n][x] = step[x][best[n]] BY <2>1
  <2> QED BY <2>3, <2>4
<1> HIDE DEF f
<1> QED BY <1>4, <1>5

-----------------------------------------------------------------------------
(* The loops of Texts.                                                       *)

\* What the fold defines: what is held after each set of items, taken in order.
Holds(step, first, s, n, h) ==
  h = [S \in SUBSET (1 .. n) |-> IF S = {} THEN first ELSE step[s[Max(S)]][h[S \ {Max(S)}]]]

\* The last item of a sequence, and the ones before.
LEMMA MaxOfUpTo == \A n \in Nat \ {0} : Max(1 .. n) = n /\ (1 .. n) \ {n} = 1 .. n - 1
<1> SUFFICES ASSUME NEW n \in Nat \ {0} PROVE Max(1 .. n) = n /\ (1 .. n) \ {n} = 1 .. n - 1
  OBVIOUS
<1>1. n \in 1 .. n /\ \A y \in 1 .. n : n >= y OBVIOUS
<1>2. Max(1 .. n) \in 1 .. n /\ \A y \in 1 .. n : Max(1 .. n) >= y BY <1>1 DEF Max
<1> QED BY <1>1, <1>2

\* Of some of the first numbers one is the greatest, and one the least.
LEMMA GreatestOfSome ==
  ASSUME NEW n \in Nat, NEW S \in SUBSET (1 .. n), S # {}
  PROVE  \E m \in S : \A y \in S : m >= y
<1> DEFINE P == {k \in Nat : (\E x \in S : x >= n - k) => \E m \in S : \A y \in S : m >= y}
<1>1. 0 \in P OBVIOUS
<1>2. ASSUME NEW k \in Nat, k \in P PROVE k + 1 \in P
  <2> SUFFICES ASSUME \E x \in S : x >= n - (k + 1) PROVE \E m \in S : \A y \in S : m >= y
    OBVIOUS
  <2>1. CASE \E x \in S : x >= n - k BY <1>2, <2>1
  <2>2. CASE ~ \E x \in S : x >= n - k BY <2>2
  <2> QED BY <2>1, <2>2
<1> HIDE DEF P
<1>3. n \in P BY <1>1, <1>2, Induction
<1>4. \E x \in S : x >= n - n
  <2>1. PICK x \in S : x \in 1 .. n OBVIOUS
  <2> QED BY <2>1
<1> QED BY <1>3, <1>4 DEF P

LEMMA LeastOfSome ==
  ASSUME NEW n \in Nat, NEW S \in SUBSET (1 .. n), S # {}
  PROVE  \E m \in S : \A y \in S : m <= y
<1> DEFINE T == {(n + 1) - x : x \in S}
<1>0. \A x \in S : (n + 1) - x \in 1 .. n
  <2>1. \A x \in 1 .. n : (n + 1) - x \in 1 .. n OBVIOUS
  <2> QED BY <2>1
<1>1. T \in SUBSET (1 .. n) /\ T # {} BY <1>0
<1> HIDE DEF T
<1>2. PICK m \in T : \A y \in T : m >= y BY <1>1, GreatestOfSome
<1>3. PICK x \in S : m = (n + 1) - x BY <1>2 DEF T
<1>4. ASSUME NEW y \in S PROVE x <= y
  <2>1. (n + 1) - y \in T BY DEF T
  <2>2. m >= (n + 1) - y BY <1>2, <2>1
  <2>3. x \in 1 .. n /\ y \in 1 .. n OBVIOUS
  <2> QED BY <1>3, <2>2, <2>3
<1> QED BY <1>4

\* Some items have a last one.
LEMMA MaxOfSome ==
  ASSUME NEW n \in Nat, NEW S \in SUBSET (1 .. n), S # {} PROVE Max(S) \in S
BY GreatestOfSome DEF Max

\* The fold is what is held after all items.
LEMMA FoldIsHeld ==
  ASSUME NEW step, NEW first, NEW s, NEW n \in Nat, DOMAIN s = 1 .. n, NEW T, first \in T,
         \A t \in T, i \in 1 .. n : step[s[i]][t] \in T
  PROVE  \E h : Holds(step, first, s, n, h) /\ Folded(step, first, s) = h[1 .. n]
<1> DEFINE Small(k) == {S \in SUBSET (1 .. n) : Cardinality(S) <= k}
           Here(h, S) == h[S] = IF S = {} THEN first ELSE step[s[Max(S)]][h[S \ {Max(S)}]]
           N == {k \in Nat : \E h \in [Small(k) -> T] : \A S \in Small(k) : Here(h, S)}
<1>1. \A S \in SUBSET (1 .. n) : IsFiniteSet(S) /\ Cardinality(S) \in Nat /\ Cardinality(S) <= n
  <2>0. 1 \in Int /\ n \in Int OBVIOUS
  <2>1. IsFiniteSet(1 .. n) /\ Cardinality(1 .. n) = n
    <3>1. IsFiniteSet(1 .. n) /\ Cardinality(1 .. n) = IF 1 > n THEN 0 ELSE n - 1 + 1
      BY <2>0, FS_Interval, Zenon
    <3> QED BY <3>1
  <2> SUFFICES ASSUME NEW S \in SUBSET (1 .. n)
               PROVE  IsFiniteSet(S) /\ Cardinality(S) \in Nat /\ Cardinality(S) <= n
    OBVIOUS
  <2>2. IsFiniteSet(S) /\ Cardinality(S) <= Cardinality(1 .. n) BY <2>1, FS_Subset
  <2> QED BY <2>1, <2>2, FS_CardinalityType
<1>2. ASSUME NEW S \in SUBSET (1 .. n), S # {}
      PROVE  /\ Max(S) \in S /\ S \ {Max(S)} \in SUBSET (1 .. n)
             /\ Cardinality(S \ {Max(S)}) = Cardinality(S) - 1
  <2>1. Max(S) \in S BY <1>2, MaxOfSome
  <2> QED BY <1>1, <2>1, FS_RemoveElement
<1>3. 0 \in N
  <2> DEFINE h == [S \in Small(0) |-> first]
  <2>1. \A S \in Small(0) : S = {} BY <1>1, FS_EmptySet
  <2>2. h \in [Small(0) -> T] /\ \A S \in Small(0) : Here(h, S) BY <2>1
  <2> QED BY <2>2
<1>4. ASSUME NEW k \in Nat, k \in N PROVE k + 1 \in N
  <2>1. PICK g \in [Small(k) -> T] : \A S \in Small(k) : Here(g, S) BY <1>4
  <2> DEFINE h == [S \in Small(k + 1) |-> IF S \in Small(k) THEN g[S]
                                          ELSE step[s[Max(S)]][g[S \ {Max(S)}]]]
  <2>2. ASSUME NEW S \in Small(k + 1), S # {}
        PROVE  Max(S) \in 1 .. n /\ S \ {Max(S)} \in Small(k)
    <3>1. S \in SUBSET (1 .. n) /\ Cardinality(S) <= k + 1 /\ Cardinality(S) \in Nat BY <1>1
    <3>2. /\ Max(S) \in S /\ S \ {Max(S)} \in SUBSET (1 .. n)
          /\ Cardinality(S \ {Max(S)}) = Cardinality(S) - 1
      BY <1>2, <2>2, <3>1
    <3>3. Cardinality(S \ {Max(S)}) <= k BY <3>1, <3>2
    <3> QED BY <3>1, <3>2, <3>3
  <2>3. {} \in Small(k) BY FS_EmptySet
  <2>4. ASSUME NEW S \in Small(k + 1), S \notin Small(k) PROVE S # {} /\ h[S] \in T
    <3>1. S # {} BY <2>3, <2>4
    <3>2. Max(S) \in 1 .. n /\ g[S \ {Max(S)}] \in T BY <2>2, <3>1
    <3>3. h[S] = step[s[Max(S)]][g[S \ {Max(S)}]] BY <2>4
    <3> QED BY <3>1, <3>2, <3>3
  <2>5. h \in [Small(k + 1) -> T] BY <2>4
  <2>6. \A S \in Small(k + 1) : Here(h, S)
    <3> SUFFICES ASSUME NEW S \in Small(k + 1) PROVE Here(h, S) OBVIOUS
    <3>1. Small(k) \subseteq Small(k + 1) BY <1>1
    <3>2. CASE S = {} BY <2>1, <2>3, <3>1, <3>2
    <3>3. CASE S # {}
      <4>1. h[S \ {Max(S)}] = g[S \ {Max(S)}] BY <2>2, <3>1, <3>3
      <4> QED BY <2>1, <3>1, <3>3, <4>1
    <3> QED BY <3>2, <3>3
  <2> HIDE DEF h, Small, Here
  <2> QED BY <2>5, <2>6
<1> HIDE DEF N
<1>5. n \in N BY <1>3, <1>4, Induction
<1>6. PICK g \in [Small(n) -> T] : \A S \in Small(n) : Here(g, S) BY <1>5 DEF N
<1>7. Small(n) = SUBSET (1 .. n) BY <1>1
<1>8. Holds(step, first, s, n, g) BY <1>6, <1>7 DEF Holds
<1> DEFINE best == CHOOSE h : h = [S \in SUBSET DOMAIN s |->
                                    IF S = {} THEN first ELSE step[s[Max(S)]][h[S \ {Max(S)}]]]
<1>9. Holds(step, first, s, n, best) BY <1>8 DEF Holds
<1>10. Folded(step, first, s) = best[1 .. n] BY Zenon DEF Folded, FoldLeft, MapThenFoldSet
<1> QED BY <1>9, <1>10

\* Of the sets of items it is those up to one of them that matter.
OneByOne(step, first, s, n, h) ==
  h[1 .. 0] = first /\ \A k \in 1 .. n : h[1 .. k] = step[s[k]][h[1 .. k - 1]]

\* What is held at first, and after one item more.
LEMMA HeldUpTo ==
  ASSUME NEW step, NEW first, NEW s, NEW n \in Nat, NEW h, Holds(step, first, s, n, h)
  PROVE  OneByOne(step, first, s, n, h)
<1> USE DEF OneByOne
<1>1. \A S \in SUBSET (1 .. n) : h[S] = IF S = {} THEN first ELSE step[s[Max(S)]][h[S \ {Max(S)}]]
  BY DEF Holds
<1>2. h[1 .. 0] = first
  <2>1. 1 .. 0 = {} OBVIOUS
  <2> QED BY <1>1, <2>1
<1>3. ASSUME NEW k \in 1 .. n PROVE h[1 .. k] = step[s[k]][h[1 .. k - 1]]
  <2>1. k \in Nat \ {0} /\ 1 .. k \in SUBSET (1 .. n) /\ 1 .. k # {}
    <3>1. k \in 1 .. k OBVIOUS
    <3>2. k \in Nat \ {0} OBVIOUS
    <3>3. \A i \in 1 .. k : i \in 1 .. n OBVIOUS
    <3> QED BY <3>1, <3>2, <3>3, Zenon
  <2>2. Max(1 .. k) = k /\ (1 .. k) \ {k} = 1 .. k - 1 BY <2>1, MaxOfUpTo
  <2>3. h[1 .. k] = step[s[Max(1 .. k)]][h[(1 .. k) \ {Max(1 .. k)}]] BY <1>1, <2>1
  <2> QED BY <2>2, <2>3, Zenon
<1> QED BY <1>2, <1>3

\* What a loop does to what it holds, an element of T, for every item of A.
Body(step, A, T) == \A x \in A, t \in T : step[x][t] \in T

\* One item more is one step more.
LEMMA Folding ==
  ASSUME NEW A, NEW T, NEW first \in T, NEW step, Body(step, A, T)
  PROVE  /\ Folded(step, first, <<>>) = first
         /\ \A s \in Seq(A) : Folded(step, first, s) \in T
         /\ \A s \in Seq(A), x \in A :
              Folded(step, first, Append(s, x)) = step[x][Folded(step, first, s)]
<1> USE DEF Body
<1>0. ASSUME NEW s \in Seq(A)
      PROVE  \E h : /\ Folded(step, first, s) = h[1 .. Len(s)] /\ h[1 .. 0] = first
                    /\ \A k \in 1 .. Len(s) : h[1 .. k] = step[s[k]][h[1 .. k - 1]]
  <2>1. Len(s) \in Nat /\ DOMAIN s = 1 .. Len(s) /\ \A i \in 1 .. Len(s) : s[i] \in A
    BY LenProperties
  <2>2. PICK h : Holds(step, first, s, Len(s), h) /\ Folded(step, first, s) = h[1 .. Len(s)]
    BY <2>1, FoldIsHeld
  <2>3. OneByOne(step, first, s, Len(s), h) BY <2>1, <2>2, HeldUpTo
  <2> WITNESS h
  <2> QED BY <2>2, <2>3 DEF OneByOne
<1>1. Folded(step, first, <<>>) = first
  <2>1. <<>> \in Seq(A) /\ Len(<<>>) = 0 BY EmptySeq
  <2>2. PICK h : Folded(step, first, <<>>) = h[1 .. Len(<<>>)] /\ h[1 .. 0] = first
    BY <1>0, <2>1
  <2> QED BY <2>1, <2>2, Zenon
<1>2. ASSUME NEW s \in Seq(A) PROVE Folded(step, first, s) \in T
  <2>1. PICK h : /\ Folded(step, first, s) = h[1 .. Len(s)] /\ h[1 .. 0] = first
                 /\ \A k \in 1 .. Len(s) : h[1 .. k] = step[s[k]][h[1 .. k - 1]]
    BY <1>0
  <2> DEFINE N == {k \in Nat : k <= Len(s) => h[1 .. k] \in T}
  <2>2. 0 \in N BY <2>1
  <2>3. ASSUME NEW k \in Nat, k \in N PROVE k + 1 \in N
    <3> SUFFICES ASSUME k + 1 <= Len(s) PROVE h[1 .. k + 1] \in T OBVIOUS
    <3>0. Len(s) \in Nat BY LenProperties
    <3>1. k + 1 \in 1 .. Len(s) /\ (k + 1) - 1 = k BY <3>0
    <3>2. h[1 .. k + 1] = step[s[k + 1]][h[1 .. k]] BY <2>1, <3>1
    <3>3. h[1 .. k] \in T BY <2>3, <3>0
    <3>4. s[k + 1] \in A BY <3>1, ElementOfSeq
    <3> QED BY <3>2, <3>3, <3>4
  <2> HIDE DEF N
  <2>4. Nat \subseteq N BY <2>2, <2>3, Induction
  <2>5. Len(s) \in Nat /\ Len(s) \in N BY <2>4, LenProperties
  <2> QED BY <2>1, <2>5 DEF N
<1>3. ASSUME NEW s \in Seq(A), NEW x \in A
      PROVE  Folded(step, first, Append(s, x)) = step[x][Folded(step, first, s)]
  <2> DEFINE r == Append(s, x)
             n == Len(s)
  <2>0. /\ n \in Nat /\ r \in Seq(A) /\ Len(r) = n + 1 /\ r[n + 1] = x
        /\ \A i \in 1 .. n : r[i] = s[i]
    BY AppendProperties, LenProperties
  <2>1. PICK h : /\ Folded(step, first, r) = h[1 .. Len(r)] /\ h[1 .. 0] = first
                 /\ \A k \in 1 .. Len(r) : h[1 .. k] = step[r[k]][h[1 .. k - 1]]
    BY <1>0, <2>0
  <2>2. PICK g : /\ Folded(step, first, s) = g[1 .. Len(s)] /\ g[1 .. 0] = first
                 /\ \A k \in 1 .. Len(s) : g[1 .. k] = step[s[k]][g[1 .. k - 1]]
    BY <1>0
  <2>2a. /\ Folded(step, first, s) = g[1 .. n] /\ g[1 .. 0] = first
         /\ \A k \in 1 .. n : g[1 .. k] = step[s[k]][g[1 .. k - 1]]
    BY <2>2
  <2> HIDE DEF r, n
  <2> DEFINE N == {k \in Nat : k <= n => h[1 .. k] = g[1 .. k]}
  <2>3. 0 \in N BY <2>1, <2>2a
  <2>4. ASSUME NEW k \in Nat, k \in N PROVE k + 1 \in N
    <3> SUFFICES ASSUME k + 1 <= n PROVE h[1 .. k + 1] = g[1 .. k + 1] OBVIOUS
    <3>1. k + 1 \in 1 .. n /\ k + 1 \in 1 .. n + 1 /\ (k + 1) - 1 = k BY <2>0
    <3>2. h[1 .. k + 1] = step[r[k + 1]][h[1 .. k]] BY <2>0, <2>1, <3>1
    <3>3. g[1 .. k + 1] = step[s[k + 1]][g[1 .. k]] BY <2>2a, <3>1
    <3>4. h[1 .. k] = g[1 .. k] BY <2>0, <2>4
    <3>5. r[k + 1] = s[k + 1] BY <2>0, <3>1
    <3> QED BY <3>2, <3>3, <3>4, <3>5
  <2> HIDE DEF N
  <2>5. n \in N BY <2>0, <2>3, <2>4, Induction
  <2>6. h[1 .. n] = g[1 .. n] BY <2>0, <2>5 DEF N
  <2>7. n + 1 \in 1 .. n + 1 /\ (n + 1) - 1 = n BY <2>0
  <2>8. h[1 .. n + 1] = step[x][h[1 .. n]] BY <2>0, <2>1, <2>7
  <2> QED BY <2>0, <2>1, <2>2a, <2>6, <2>8 DEF r
<1> QED BY <1>1, <1>2, <1>3

\* Sequences grow at the end.
LEMMA SeqInduction ==
  ASSUME NEW A, NEW P, <<>> \in P, \A s \in Seq(A), x \in A : s \in P => Append(s, x) \in P
  PROVE  Seq(A) \subseteq P
<1> DEFINE N == {n \in Nat : \A s \in Seq(A) : Len(s) = n => s \in P}
<1>1. 0 \in N BY EmptySeq
<1>2. ASSUME NEW n \in Nat, n \in N PROVE n + 1 \in N
  <2> SUFFICES ASSUME NEW s \in Seq(A), Len(s) = n + 1 PROVE s \in P
    OBVIOUS
  <2>1. /\ SubSeq(s, 1, n) \in Seq(A) /\ Len(SubSeq(s, 1, n)) = n
        /\ s[n + 1] \in A
    OBVIOUS
  <2>2. s = Append(SubSeq(s, 1, n), s[n + 1])
    BY <2>1
  <2>3. SubSeq(s, 1, n) \in P BY <1>2, <2>1
  <2> QED BY <2>1, <2>2, <2>3
<1> HIDE DEF N
<1>3. Nat \subseteq N BY <1>1, <1>2, Induction
<1> QED BY <1>3 DEF N

\* Up to three items.
Few(A) ==
  /\ <<>> \in Seq(A)
  /\ \A a \in A : <<a>> \in Seq(A) /\ <<a>> = Append(<<>>, a)
  /\ \A a, b \in A : <<a, b>> \in Seq(A) /\ <<a, b>> = Append(<<a>>, b)
  /\ \A a, b, c \in A : <<a, b, c>> \in Seq(A) /\ <<a, b, c>> = Append(<<a, b>>, c)

\* Short sequences are built from shorter ones.
LEMMA FewItems == ASSUME NEW A PROVE Few(A)
<1>1. <<>> \in Seq(A) OBVIOUS
<1>2. ASSUME NEW a \in A PROVE <<a>> \in Seq(A) /\ <<a>> = Append(<<>>, a) OBVIOUS
<1>3. ASSUME NEW a \in A, NEW b \in A PROVE <<a, b>> \in Seq(A) /\ <<a, b>> = Append(<<a>>, b) OBVIOUS
<1>4. ASSUME NEW a \in A, NEW b \in A, NEW c \in A
      PROVE  <<a, b, c>> \in Seq(A) /\ <<a, b, c>> = Append(<<a, b>>, c)
  OBVIOUS
<1> QED BY <1>1, <1>2, <1>3, <1>4 DEF Few

\* A loop over one sequence after the other.
Cat(a, b) == a \o b

\* Concatenation, stated of an operator that provers leave alone.
LEMMA CatAppend ==
  ASSUME NEW A
  PROVE  /\ \A s, t \in Seq(A) : Cat(s, t) \in Seq(A)
         /\ \A s \in Seq(A) : Cat(s, <<>>) = s /\ Cat(<<>>, s) = s
         /\ \A s, t \in Seq(A), x \in A : Cat(s, Append(t, x)) = Append(Cat(s, t), x)
         /\ \A s \in Seq(A), x \in A : Append(s, x) = Cat(s, <<x>>)
         /\ \A s, t, u \in Seq(A) : Cat(Cat(s, t), u) = Cat(s, Cat(t, u))
         /\ \A s, t \in Seq(A) : Len(Cat(s, t)) = Len(s) + Len(t)
<1>1. \A s, t \in Seq(A) : Cat(s, t) \in Seq(A) BY ConcatProperties DEF Cat
<1>2. \A s \in Seq(A) : Cat(s, <<>>) = s /\ Cat(<<>>, s) = s BY ConcatEmptySeq DEF Cat
<1>3. \A s \in Seq(A), x \in A : Append(s, x) = Cat(s, <<x>>) BY DEF Cat
<1>4. \A s, t, u \in Seq(A) : Cat(Cat(s, t), u) = Cat(s, Cat(t, u)) BY ConcatAssociative DEF Cat
<1>5. \A s, t \in Seq(A), x \in A : Cat(s, Append(t, x)) = Append(Cat(s, t), x)
  <2> SUFFICES ASSUME NEW s \in Seq(A), NEW t \in Seq(A), NEW x \in A
               PROVE  Cat(s, Append(t, x)) = Append(Cat(s, t), x)
    OBVIOUS
  <2>1. <<x>> \in Seq(A) OBVIOUS
  <2>2. Append(t, x) = Cat(t, <<x>>) /\ Append(Cat(s, t), x) = Cat(Cat(s, t), <<x>>)
    BY <1>1, <1>3, Zenon
  <2>3. Cat(Cat(s, t), <<x>>) = Cat(s, Cat(t, <<x>>)) BY <1>4, <2>1, Zenon
  <2> QED BY <2>2, <2>3, Zenon
<1>6. \A s, t \in Seq(A) : Len(Cat(s, t)) = Len(s) + Len(t) BY ConcatProperties DEF Cat
<1> QED BY <1>1, <1>2, <1>3, <1>4, <1>5, <1>6

Joined(A, s, t) ==
  /\ Cat(s, t) \in Seq(A) /\ Len(Cat(s, t)) = Len(s) + Len(t)
  /\ \A i \in 1 .. Len(s) : Cat(s, t)[i] = s[i]
  /\ \A i \in 1 .. Len(t) : Cat(s, t)[Len(s) + i] = t[i]

\* The items of a concatenation.
LEMMA CatItems == ASSUME NEW A, NEW s \in Seq(A), NEW t \in Seq(A) PROVE Joined(A, s, t)
<1> USE DEF Joined
<1> DEFINE n == Len(s)
           k == Len(t)
           u == s \o t
<1>1. n \in Nat /\ k \in Nat BY LenProperties
<1>2. u \in Seq(A) /\ Len(u) = n + k
      /\ \A i \in 1 .. n + k : u[i] = IF i <= n THEN s[i] ELSE t[i - n]
  BY ConcatProperties
<1> HIDE DEF n, k, u
<1>3. \A i \in 1 .. n : u[i] = s[i] BY <1>1, <1>2
<1>4. ASSUME NEW i \in 1 .. k PROVE u[n + i] = t[i]
  <2>1. n + i \in 1 .. n + k /\ ~ (n + i <= n) /\ (n + i) - n = i BY <1>1
  <2> QED BY <1>2, <2>1
<1> QED BY <1>2, <1>3, <1>4 DEF n, k, u, Cat

\* A loop over a concatenation goes on where the first part left off.
LEMMA FoldingOn ==
  ASSUME NEW A, NEW T, NEW first \in T, NEW step, Body(step, A, T), NEW s \in Seq(A), NEW t \in Seq(A)
  PROVE  Folded(step, first, Cat(s, t)) = Folded(step, Folded(step, first, s), t)
<1> DEFINE P == {u \in Seq(A) : Folded(step, first, Cat(s, u)) = Folded(step, Folded(step, first, s), u)}
           mid == Folded(step, first, s)
<1>1. mid \in T BY Folding
<1> HIDE DEF mid
<1>2. Folded(step, mid, <<>>) = mid BY <1>1, Folding
<1>3. <<>> \in P
  <2>1. <<>> \in Seq(A) /\ Cat(s, <<>>) = s BY EmptySeq, CatAppend
  <2>2. Folded(step, first, Cat(s, <<>>)) = Folded(step, mid, <<>>) BY <1>2, <2>1, Zenon DEF mid
  <2> QED BY <2>1, <2>2 DEF mid
<1>4. ASSUME NEW u \in Seq(A), NEW x \in A, u \in P PROVE Append(u, x) \in P
  <2>1. Append(u, x) \in Seq(A) /\ Cat(s, u) \in Seq(A) BY CatAppend, AppendProperties
  <2>2. Cat(s, Append(u, x)) = Append(Cat(s, u), x) BY CatAppend
  <2>3. Folded(step, first, Append(Cat(s, u), x)) = step[x][Folded(step, first, Cat(s, u))]
    BY <2>1, Folding
  <2>4. Folded(step, mid, Append(u, x)) = step[x][Folded(step, mid, u)] BY <1>1, Folding
  <2>5. Folded(step, first, Cat(s, u)) = Folded(step, mid, u) BY <1>4 DEF mid
  <2> QED BY <2>1, <2>2, <2>3, <2>4, <2>5 DEF mid
<1> HIDE DEF P
<1>5. t \in P BY <1>3, <1>4, SeqInduction
<1> QED BY <1>5 DEF P

\* All of it.
Folds(step, first, A, T) ==
  /\ first \in T /\ Folded(step, first, <<>>) = first
  /\ \A s \in Seq(A) : Folded(step, first, s) \in T
  /\ \A s \in Seq(A), x \in A : Folded(step, first, Append(s, x)) = step[x][Folded(step, first, s)]
  /\ \A s, t \in Seq(A) : Folded(step, first, Cat(s, t)) = Folded(step, Folded(step, first, s), t)

\* What a loop is, in the form that is cited.
LEMMA LoopFolds ==
  ASSUME NEW A, NEW T, NEW first \in T, NEW step, Body(step, A, T)
  PROVE  Folds(step, first, A, T)
<1>1. ASSUME NEW s \in Seq(A), NEW t \in Seq(A)
      PROVE  Folded(step, first, Cat(s, t)) = Folded(step, Folded(step, first, s), t)
  BY FoldingOn
<1>2. /\ Folded(step, first, <<>>) = first
      /\ \A s \in Seq(A) : Folded(step, first, s) \in T
      /\ \A s \in Seq(A), x \in A : Folded(step, first, Append(s, x)) = step[x][Folded(step, first, s)]
  BY Folding
<1> QED BY <1>1, <1>2 DEF Folds

\* Texts that hold their concatenations.
CatWithin(Q) == \A a, b \in Q : Cat(a, b) \in Q /\ Cat(<<>>, a) = a

FlattensTo(f, n, s) ==
  /\ f[0] = <<>> /\ \A i \in 1 .. n : f[i] = Cat(f[i - 1], s[i])
  /\ \A k \in 1 .. n : \A t : Len(t) = k /\ (\A i \in 1 .. k : t[i] = s[i]) => FlattenSeq(t) = f[k]
Among(s, n, Q) == \A i \in 1 .. n : s[i] \in Q

\* What the loop behind FlattenSeq holds after each of the parts.
LEMMA FlattenUpTo ==
  ASSUME NEW Q, CatWithin(Q), NEW e \in Q, e = <<>>,
         NEW n \in Nat, NEW s, Among(s, n, Q)
  PROVE  \E f \in [0 .. n -> Q] : FlattensTo(f, n, s)
<1> USE DEF Among, FlattensTo
<1> DEFINE step == [i \in 1 .. n |-> [t \in Q |-> Cat(t, s[i])]]
<1>1. Rounds(step, n, Q) BY DEF CatWithin, Rounds
<1>2. PICK f \in [0 .. n -> Q] : Runs(f, step, n, e, Q)
  <2> HIDE DEF step
  <2> QED BY <1>1, Loop
<1>3. f[0] = e /\ \A i \in 1 .. n : f[i] = Cat(f[i - 1], s[i])
  <2>1. f[0] = e /\ \A i \in 1 .. n : f[i - 1] \in Q /\ f[i] = step[i][f[i - 1]]
    <3> HIDE DEF step
    <3> QED BY <1>2 DEF Runs
  <2> QED BY <2>1
<1> HIDE DEF step
<1>4. ASSUME NEW k \in 1 .. n, NEW t, Len(t) = k, \A i \in 1 .. k : t[i] = s[i]
      PROVE  FlattenSeq(t) = f[k]
  <2> DEFINE Is(g) == g = [i \in 1 .. Len(t) |-> IF i = 1 THEN t[i] ELSE Cat(g[i - 1], t[i])]
             g == CHOOSE g : Is(g)
             h == [i \in 1 .. k |-> f[i]]
  <2>0. f[1] = t[1]
    <3>1. f[1] = Cat(f[0], s[1]) /\ s[1] \in Q /\ t[1] = s[1] BY <1>3, <1>4
    <3> QED BY <1>3, <3>1 DEF CatWithin
  <2>1. \A i \in 1 .. k : h[i] = IF i = 1 THEN t[i] ELSE Cat(h[i - 1], t[i])
    <3> SUFFICES ASSUME NEW i \in 1 .. k PROVE h[i] = IF i = 1 THEN t[i] ELSE Cat(h[i - 1], t[i])
      OBVIOUS
    <3>1. f[i] = Cat(f[i - 1], t[i]) BY <1>3, <1>4
    <3>2. i # 1 => h[i - 1] = f[i - 1] OBVIOUS
    <3>3. h[i] = f[i] OBVIOUS
    <3> HIDE DEF h
    <3> QED BY <2>0, <3>1, <3>2, <3>3
  <2>2. Is(h)
    <3>1. h = [i \in 1 .. k |-> IF i = 1 THEN t[i] ELSE Cat(h[i - 1], t[i])] BY <2>1
    <3> QED BY <1>4, <3>1
  <2>3. Is(g) BY <2>2
  <2>3a. FlattenSeq(t) = IF Len(t) = 0 THEN t ELSE g[Len(t)] BY Zenon DEF FlattenSeq, Cat
  <2> HIDE DEF g, h
  <2>4. g[1] = t[1] /\ \A i \in 2 .. k : g[i] = Cat(g[i - 1], t[i])
    <3>1. g = [i \in 1 .. k |-> IF i = 1 THEN t[i] ELSE Cat(g[i - 1], t[i])] BY <1>4, <2>3
    <3> QED BY <3>1
  <2> HIDE DEF Is
  <2> DEFINE N == {i \in Nat : i + 1 <= k => g[i + 1] = f[i + 1]}
  <2>5. 0 \in N BY <2>0, <2>4
  <2>6. ASSUME NEW i \in Nat, i \in N PROVE i + 1 \in N
    <3> SUFFICES ASSUME i + 2 <= k PROVE g[i + 2] = f[i + 2] OBVIOUS
    <3>0. i + 2 \in 2 .. k /\ (i + 2) - 1 = i + 1 OBVIOUS
    <3>1. g[i + 1] = f[i + 1] BY <2>6
    <3>2. g[i + 2] = Cat(g[i + 1], t[i + 2]) BY <2>4, <3>0
    <3>3. f[i + 2] = Cat(f[i + 1], t[i + 2]) BY <1>3, <1>4, <3>0
    <3> QED BY <3>1, <3>2, <3>3
  <2> HIDE DEF N
  <2>7. Nat \subseteq N BY <2>5, <2>6, Induction
  <2>8. k - 1 \in N /\ k - 1 \in Nat BY <2>7
  <2>9. g[k] = f[k] BY <2>8 DEF N
  <2>10. FlattenSeq(t) = g[k]
    <3>1. k # 0 OBVIOUS
    <3> QED BY <1>4, <2>3a, <3>1
  <2> QED BY <2>9, <2>10
<1> QED BY <1>3, <1>4

\* Nothing flattens to nothing, and a last part comes last.
LEMMA Flatten ==
  ASSUME NEW T
  PROVE  /\ FlattenSeq(<<>>) = <<>>
         /\ \A s \in Seq(Seq(T)) : FlattenSeq(s) \in Seq(T)
         /\ \A s \in Seq(Seq(T)), t \in Seq(T) : FlattenSeq(Append(s, t)) = Cat(FlattenSeq(s), t)
<1> DEFINE Q == Seq(T)
<1>1. <<>> \in Q /\ CatWithin(Q)
  BY EmptySeq, ConcatProperties, ConcatEmptySeq DEF CatWithin, Cat
<1>2. FlattenSeq(<<>>) = <<>> BY DEF FlattenSeq
<1> HIDE DEF Q
<1>3. ASSUME NEW s \in Seq(Q) PROVE FlattenSeq(s) \in Q
  <2> DEFINE n == Len(s)
  <2>1. n \in Nat /\ \A i \in 1 .. n : s[i] \in Q BY LenProperties
  <2>2. n = 0 => s = <<>> BY EmptySeq
  <2>3. n # 0 => FlattenSeq(s) \in Q
    <3> SUFFICES ASSUME n # 0 PROVE FlattenSeq(s) \in Q OBVIOUS
    <3>2. n \in 1 .. n /\ Len(s) = n BY <2>1
    <3> HIDE DEF n
    <3>1. PICK f \in [0 .. n -> Q] : FlattensTo(f, n, s)
      BY <1>1, <2>1, FlattenUpTo DEF Among
    <3>3. FlattenSeq(s) = f[n] BY <3>1, <3>2 DEF FlattensTo
    <3> QED BY <3>2, <3>3
  <2> QED BY <1>1, <1>2, <2>2, <2>3
<1>4. ASSUME NEW s \in Seq(Q), NEW t \in Q PROVE FlattenSeq(Append(s, t)) = Cat(FlattenSeq(s), t)
  <2> DEFINE r == Append(s, t)
             n == Len(s)
  <2>1. n \in Nat /\ s \in [1 .. n -> Q] BY LenProperties
  <2>2. /\ Len(r) = n + 1 /\ r[n + 1] = t /\ (\A i \in 1 .. n : r[i] = s[i])
        /\ \A i \in 1 .. n + 1 : r[i] \in Q
    BY AppendProperties, LenProperties
  <2>3. n = 0 => s = <<>> BY EmptySeq
  <2>4. Len(s) = n OBVIOUS
  <2> HIDE DEF r, n
  <2>4a. PICK f \in [0 .. n + 1 -> Q] : FlattensTo(f, n + 1, r)
    <3>1. n + 1 \in Nat /\ Among(r, n + 1, Q) BY <2>1, <2>2 DEF Among
    <3> QED BY <1>1, <3>1, FlattenUpTo
  <2>5. /\ f[0] = <<>> /\ \A i \in 1 .. n + 1 : f[i] = Cat(f[i - 1], r[i])
        /\ \A k \in 1 .. n + 1 : \A u : Len(u) = k /\ (\A i \in 1 .. k : u[i] = r[i]) => FlattenSeq(u) = f[k]
    BY <2>4a DEF FlattensTo
  <2>6. n + 1 \in 1 .. n + 1 /\ (n + 1) - 1 = n BY <2>1
  <2>7. FlattenSeq(r) = f[n + 1] BY <2>2, <2>5, <2>6
  <2>8. f[n + 1] = Cat(f[n], t) BY <2>2, <2>5, <2>6
  <2>9. FlattenSeq(s) = f[n]
    <3>1. CASE n = 0 BY <1>2, <2>3, <2>5, <3>1
    <3>2. CASE n # 0
      <4>1. n \in 1 .. n + 1 BY <2>1, <3>2
      <4> QED BY <2>2, <2>4, <2>5, <4>1
    <3> QED BY <3>1, <3>2
  <2> QED BY <2>7, <2>8, <2>9 DEF r
<1> QED BY <1>2, <1>3, <1>4 DEF Q

\* What each item gives, one after the other.
Gives(f, A, B) == \A x \in A : f[x] \in Seq(B)
Spells(f, A, B) ==
  /\ Each(f, <<>>) = <<>>
  /\ \A s \in Seq(A) : Each(f, s) \in Seq(B)
  /\ \A s \in Seq(A), x \in A : Each(f, Append(s, x)) = Cat(Each(f, s), f[x])
  /\ \A s, t \in Seq(A) : Each(f, Cat(s, t)) = Cat(Each(f, s), Each(f, t))

\* What Each is, in the form that is cited.
LEMMA Eaching ==
  ASSUME NEW A, NEW B, NEW f, Gives(f, A, B)
  PROVE  Spells(f, A, B)
<1> DEFINE Of(s) == [i \in DOMAIN s |-> f[s[i]]]
           Q == Seq(B)
<1>0. <<>> \in Seq(A) /\ <<>> \in Q BY EmptySeq
<1>1. Of(<<>>) = <<>> BY EmptySeq
<1>2. \A x \in A : f[x] \in Q BY DEF Gives
<1>3. FlattenSeq(<<>>) = <<>> /\ (\A s \in Seq(Q) : FlattenSeq(s) \in Q)
      /\ (\A s \in Seq(Q), t \in Q : FlattenSeq(Append(s, t)) = Cat(FlattenSeq(s), t))
  BY Flatten
<1>3a. \A a, b, c \in Q : Cat(a, b) \in Q /\ Cat(Cat(a, b), c) = Cat(a, Cat(b, c)) /\ Cat(a, <<>>) = a
  BY CatAppend
<1>3b. \A a, b, c \in Q : Cat(Cat(a, b), c) = Cat(a, Cat(b, c)) BY CatAppend
<1> HIDE DEF Q
<1>4. \A s \in Seq(A) : Of(s) \in Seq(Q)
  <2> SUFFICES ASSUME NEW s \in Seq(A) PROVE Of(s) \in Seq(Q) OBVIOUS
  <2>1. DOMAIN s = 1 .. Len(s) /\ Len(s) \in Nat /\ \A i \in 1 .. Len(s) : s[i] \in A BY LenProperties
  <2>2. Of(s) \in [1 .. Len(s) -> Q] BY <1>2, <2>1
  <2> QED BY <2>1, <2>2, IsASeq
<1>5. \A s \in Seq(A), x \in A : Of(Append(s, x)) = Append(Of(s), f[x])
  <2> SUFFICES ASSUME NEW s \in Seq(A), NEW x \in A PROVE Of(Append(s, x)) = Append(Of(s), f[x]) OBVIOUS
  <2> DEFINE n == Len(s)
             r == Append(s, x)
             u == Of(s)
             v == Append(u, f[x])
  <2>1. /\ n \in Nat /\ DOMAIN s = 1 .. n /\ r \in Seq(A) /\ DOMAIN r = 1 .. n + 1 /\ r[n + 1] = x
        /\ \A i \in 1 .. n : r[i] = s[i]
    BY AppendProperties, LenProperties
  <2>2. u \in Seq(Q) /\ f[x] \in Q BY <1>2, <1>4
  <2>3. u = [i \in 1 .. n |-> f[s[i]]] BY <2>1
  <2>4. Len(u) = n BY <2>1, <2>2, <2>3, LenProperties
  <2> HIDE DEF u, n, r
  <2>5. /\ v \in Seq(Q) /\ Len(v) = n + 1 /\ v[n + 1] = f[x] /\ \A i \in 1 .. n : v[i] = u[i]
    BY <2>2, <2>4, AppendProperties
  <2>6. DOMAIN v = 1 .. n + 1 BY <2>5, LenProperties
  <2>7. v = [i \in DOMAIN v |-> v[i]] BY <2>5, LenProperties
  <2> HIDE DEF v
  <2>8. Of(r) = [i \in 1 .. n + 1 |-> f[r[i]]] BY <2>1
  <2>9. \A i \in 1 .. n + 1 : v[i] = f[r[i]]
    <3> SUFFICES ASSUME NEW i \in 1 .. n + 1 PROVE v[i] = f[r[i]] OBVIOUS
    <3>1. CASE i \in 1 .. n BY <2>1, <2>3, <2>5, <3>1
    <3>2. CASE i = n + 1 BY <2>1, <2>5, <3>2
    <3> QED BY <2>1, <3>1, <3>2
  <2>10. Of(r) = v BY <2>6, <2>7, <2>8, <2>9
  <2> QED BY <2>10 DEF r, v, u
<1> HIDE DEF Of
<1>6. \A s : Each(f, s) = FlattenSeq(Of(s)) BY Zenon DEF Each, Of
<1>7. \A s \in Seq(A), x \in A : Each(f, Append(s, x)) = Cat(Each(f, s), f[x])
  <2> SUFFICES ASSUME NEW s \in Seq(A), NEW x \in A PROVE Each(f, Append(s, x)) = Cat(Each(f, s), f[x])
    OBVIOUS
  <2>1. Of(s) \in Seq(Q) /\ f[x] \in Q /\ Of(Append(s, x)) = Append(Of(s), f[x])
    BY <1>2, <1>4, <1>5
  <2>2. FlattenSeq(Append(Of(s), f[x])) = Cat(FlattenSeq(Of(s)), f[x]) BY <1>3, <2>1, Zenon
  <2> QED BY <1>6, <2>1, <2>2, Zenon
<1>8. \A s \in Seq(A) : Each(f, s) \in Q BY <1>3, <1>4, <1>6
<1>9. Each(f, <<>>) = <<>> BY <1>1, <1>3, <1>6
<1>10. ASSUME NEW s \in Seq(A), NEW t \in Seq(A) PROVE Each(f, Cat(s, t)) = Cat(Each(f, s), Each(f, t))
  <2> DEFINE P == {u \in Seq(A) : Each(f, Cat(s, u)) = Cat(Each(f, s), Each(f, u))}
  <2>1. <<>> \in P
    <3>1. Cat(s, <<>>) = s /\ Cat(Each(f, s), <<>>) = Each(f, s) BY <1>3a, <1>8, CatAppend
    <3> QED BY <1>0, <1>9, <3>1
  <2>2. ASSUME NEW u \in Seq(A), NEW x \in A, u \in P PROVE Append(u, x) \in P
    <3>1. Append(u, x) \in Seq(A) /\ Cat(s, u) \in Seq(A) /\ Cat(s, Append(u, x)) = Append(Cat(s, u), x)
      BY CatAppend, AppendProperties
    <3>2. Each(f, Append(Cat(s, u), x)) = Cat(Each(f, Cat(s, u)), f[x]) BY <1>7, <3>1
    <3>3. Each(f, Append(u, x)) = Cat(Each(f, u), f[x]) BY <1>7
    <3>4. Each(f, Cat(s, u)) = Cat(Each(f, s), Each(f, u)) BY <2>2
    <3>5. Each(f, s) \in Q /\ Each(f, u) \in Q /\ f[x] \in Q BY <1>2, <1>8
    <3>6. Cat(Cat(Each(f, s), Each(f, u)), f[x]) = Cat(Each(f, s), Cat(Each(f, u), f[x]))
      BY <1>3b, <3>5
    <3> QED BY <3>1, <3>2, <3>3, <3>4, <3>6
  <2> HIDE DEF P
  <2>3. t \in P BY <2>1, <2>2, SeqInduction
  <2> QED BY <2>3 DEF P
<1> QED BY <1>7, <1>8, <1>9, <1>10 DEF Q, Spells

\* Items that give themselves leave the text as it is.
LEMMA EachSame ==
  ASSUME NEW A, NEW f, \A x \in A : f[x] = <<x>>
  PROVE  \A s \in Seq(A) : Each(f, s) = s
<1>1. Gives(f, A, A)
  <2> USE DEF Gives
  <2> SUFFICES ASSUME NEW x \in A PROVE f[x] \in Seq(A) OBVIOUS
  <2>1. f[x] = <<x>> OBVIOUS
  <2> QED BY <2>1
<1> DEFINE P == {s \in Seq(A) : Each(f, s) = s}
<1>1a. Spells(f, A, A) BY <1>1, Eaching
<1>2. <<>> \in P BY <1>1a, EmptySeq DEF Spells
<1>3. ASSUME NEW s \in Seq(A), NEW x \in A, s \in P PROVE Append(s, x) \in P
  <2>1. Append(s, x) = Cat(s, <<x>>)
    <3>1. \A t \in Seq(A), y \in A : Append(t, y) = Cat(t, <<y>>) BY CatAppend
    <3> QED BY <3>1
  <2>1a. Append(s, x) \in Seq(A) BY AppendProperties
  <2>2. Each(f, Append(s, x)) = Cat(Each(f, s), f[x]) BY <1>1a DEF Spells
  <2>3. Each(f, s) = s /\ f[x] = <<x>> BY <1>3
  <2> QED BY <2>1, <2>1a, <2>2, <2>3
<1> HIDE DEF P
<1>4. Seq(A) \subseteq P BY <1>2, <1>3, SeqInduction
<1> QED BY <1>4 DEF P
\* Sequences of items of a set are built within it.
LEMMA Texted ==
  ASSUME NEW A
  PROVE  /\ <<>> \in Seq(A) /\ \A s, t \in Seq(A) : Cat(s, t) \in Seq(A)
         /\ \A s \in Seq(A), x \in A : Append(s, x) \in Seq(A)
         /\ \A s \in Seq(A) : Cat(s, <<>>) = s /\ Cat(<<>>, s) = s
         /\ \A s, t, u \in Seq(A) : Cat(Cat(s, t), u) = Cat(s, Cat(t, u))
         /\ \A s, t \in Seq(A), x \in A : Cat(s, Append(t, x)) = Append(Cat(s, t), x)
         /\ \A x \in A : <<x>> \in Seq(A) /\ <<x>> = Append(<<>>, x)
<1>1. \A x \in A : <<x>> \in Seq(A) /\ <<x>> = Append(<<>>, x) BY FewItems DEF Few
<1>2. <<>> \in Seq(A) BY FewItems DEF Few
<1>3. \A s \in Seq(A), x \in A : Append(s, x) \in Seq(A) OBVIOUS
<1> QED BY <1>1, <1>2, <1>3, CatAppend

\* The items of a part are items of the whole.
LEMMA CatBack ==
  ASSUME NEW A, NEW G, NEW s \in Seq(A), NEW t \in Seq(A), Cat(s, t) \in Seq(G)
  PROVE  s \in Seq(G) /\ t \in Seq(G)
<1> DEFINE n == Len(s)
           k == Len(t)
           u == Cat(s, t)
<1>1. /\ n \in Nat /\ k \in Nat /\ DOMAIN s = 1 .. n /\ DOMAIN t = 1 .. k
      /\ s = [i \in 1 .. n |-> s[i]] /\ t = [i \in 1 .. k |-> t[i]]
  BY LenProperties
<1>2. Len(u) = n + k /\ (\A i \in 1 .. n : u[i] = s[i]) /\ \A i \in 1 .. k : u[n + i] = t[i]
  <2>1. Joined(A, s, t) BY CatItems
  <2> QED BY <2>1 DEF Joined
<1>2a. u \in Seq(G) OBVIOUS
<1> HIDE DEF n, k, u
<1>3. \A i \in 1 .. Len(u) : u[i] \in G BY <1>2a, ElementOfSeq
<1>4. ASSUME NEW i \in 1 .. n PROVE s[i] \in G
  <2>1. i \in 1 .. Len(u) BY <1>1, <1>2
  <2> QED BY <1>2, <1>3, <2>1
<1>5. ASSUME NEW i \in 1 .. k PROVE t[i] \in G
  <2>1. n + i \in 1 .. Len(u) BY <1>1, <1>2
  <2> QED BY <1>2, <1>3, <2>1
<1>6. s \in [1 .. n -> G] /\ t \in [1 .. k -> G] BY <1>1, <1>4, <1>5
<1> QED BY <1>1, <1>6, IsASeq

\* What all items of a text give is what it gives,
LEMMA EachGives ==
  ASSUME NEW A, NEW G, NEW f, NEW s \in Seq(A), \A i \in DOMAIN s : f[s[i]] \in Seq(G)
  PROVE  Each(f, s) \in Seq(G)
<1> DEFINE R == {s[i] : i \in DOMAIN s}
<1>1. s \in Seq(R)
  <2>1. DOMAIN s = 1 .. Len(s) /\ Len(s) \in Nat BY LenProperties
  <2>2. s = [i \in 1 .. Len(s) |-> s[i]] BY <2>1
  <2>3. \A i \in 1 .. Len(s) : s[i] \in R BY <2>1
  <2> HIDE DEF R
  <2>4. s \in [1 .. Len(s) -> R] BY <2>2, <2>3
  <2> QED BY <2>1, <2>4, IsASeq
<1>2. Gives(f, R, G) BY DEF Gives
<1> HIDE DEF R
<1>3. Spells(f, R, G) BY <1>2, Eaching
<1> QED BY <1>1, <1>3 DEF Spells

\* and what it gives is all they give.
LEMMA EachHas ==
  ASSUME NEW A, NEW B, NEW G, NEW f, Gives(f, A, B)
  PROVE  \A s \in Seq(A) : Each(f, s) \in Seq(G) => \A i \in DOMAIN s : f[s[i]] \in Seq(G)
<1> DEFINE P == {s \in Seq(A) : Each(f, s) \in Seq(G) => \A i \in DOMAIN s : f[s[i]] \in Seq(G)}
<1>0. Spells(f, A, B) /\ \A x \in A : f[x] \in Seq(B) BY Eaching DEF Gives
<1>1. <<>> \in P
  <2>1. <<>> \in Seq(A) BY Texted
  <2>2. DOMAIN <<>> = {} OBVIOUS
  <2> QED BY <2>1, <2>2
<1>2. ASSUME NEW s \in Seq(A), NEW x \in A, s \in P PROVE Append(s, x) \in P
  <2> SUFFICES ASSUME Each(f, Append(s, x)) \in Seq(G), NEW i \in DOMAIN Append(s, x)
               PROVE  f[Append(s, x)[i]] \in Seq(G)
    BY Texted
  <2>1. Each(f, Append(s, x)) = Cat(Each(f, s), f[x]) /\ Each(f, s) \in Seq(B) /\ f[x] \in Seq(B)
    BY <1>0 DEF Spells
  <2>2. Each(f, s) \in Seq(G) /\ f[x] \in Seq(G) BY <2>1, CatBack
  <2>3. \A j \in DOMAIN s : f[s[j]] \in Seq(G) BY <1>2, <2>2
  <2>4. (i \in DOMAIN s /\ Append(s, x)[i] = s[i]) \/ Append(s, x)[i] = x
    <3>1. DOMAIN s = 1 .. Len(s) /\ Len(s) \in Nat BY LenProperties
    <3>2. /\ Append(s, x)[Len(s) + 1] = x /\ \A j \in 1 .. Len(s) : Append(s, x)[j] = s[j]
          /\ Append(s, x) \in Seq(A) /\ Len(Append(s, x)) = Len(s) + 1
      BY AppendProperties
    <3>3. DOMAIN Append(s, x) = 1 .. Len(s) + 1 BY <3>2, LenProperties
    <3>4. i \in 1 .. Len(s) \/ i = Len(s) + 1 BY <3>1, <3>3
    <3> QED BY <3>1, <3>2, <3>4
  <2> QED BY <2>2, <2>3, <2>4
<1> HIDE DEF P
<1>3. Seq(A) \subseteq P BY <1>1, <1>2, SeqInduction
<1> QED BY <1>3 DEF P

\* A sequence is one of its own items.
LEMMA ItemsOf ==
  ASSUME NEW A, NEW s \in Seq(A)
  PROVE  s \in Seq(Range(s)) /\ \A x \in Range(s) : x \in A
<1>1. DOMAIN s = 1 .. Len(s) /\ Len(s) \in Nat /\ \A i \in 1 .. Len(s) : s[i] \in A
  BY LenProperties, ElementOfSeq
<1>2. s = [i \in 1 .. Len(s) |-> s[i]] BY <1>1
<1>3. \A i \in 1 .. Len(s) : s[i] \in Range(s) BY <1>1 DEF Range
<1>4. s \in [1 .. Len(s) -> Range(s)] BY <1>2, <1>3
<1>5. \A x \in Range(s) : x \in A BY <1>1 DEF Range
<1> QED BY <1>1, <1>4, <1>5, IsASeq
-----------------------------------------------------------------------------
(* Texts that are cut at their separators.                                   *)

\* What cutting a text holds: the parts, and what comes after the last separator.
Halfway(done, last) == [done |-> done, last |-> last]
CutOf(A, separator, text) == Folded(cutAt(A, separator), Halfway(<<>>, <<>>), text)
\* Everything but the separator.
Others(A, separator, B) == B = A \ {separator}

CutTexts(B) == [done : Seq(Seq(B)), last : Seq(B)]

\* The two halves of it.
LEMMA HalfwayIs ==
  ASSUME NEW B
  PROVE  /\ \A d \in Seq(Seq(B)), l \in Seq(B) :
              Halfway(d, l) \in CutTexts(B) /\ Halfway(d, l).done = d /\ Halfway(d, l).last = l
         /\ \A m \in CutTexts(B) : m.done \in Seq(Seq(B)) /\ m.last \in Seq(B) /\ m = Halfway(m.done, m.last)
BY DEF Halfway, CutTexts

\* What it holds after one more item.
LEMMA CutsNext ==
  ASSUME NEW A, NEW separator \in A, NEW B, Others(A, separator, B), NEW m \in CutTexts(B), NEW b \in A
  PROVE  /\ b = separator => cutAt(A, separator)[b][m] = Halfway(Append(m.done, m.last), <<>>)
         /\ b # separator => cutAt(A, separator)[b][m] = Halfway(m.done, Append(m.last, b))
         /\ cutAt(A, separator)[b][m] \in CutTexts(B)
<1> DEFINE c == cutAt(A, separator)[b][m]
<1>0. B \subseteq A /\ \A x \in A : x # separator => x \in B BY DEF Others
<1>1. Seq(B) \subseteq Seq(A) BY <1>0
<1>2. Seq(Seq(B)) \subseteq Seq(Seq(A)) BY <1>1
<1>3. m.done \in Seq(Seq(B)) /\ m.last \in Seq(B) BY DEF CutTexts
<1>4. m \in Cutting(A) BY <1>1, <1>2 DEF CutTexts, Cutting
<1>5. b = separator => c = Halfway(Append(m.done, m.last), <<>>) BY <1>4 DEF cutAt, Halfway
<1>6. b # separator => c = Halfway(m.done, Append(m.last, b)) BY <1>0, <1>4 DEF cutAt, Halfway
<1>7. <<>> \in Seq(B) BY FewItems DEF Few
<1>8. Append(m.done, m.last) \in Seq(Seq(B)) BY <1>3
<1>9. b # separator => Append(m.last, b) \in Seq(B) BY <1>0, <1>3
<1> HIDE DEF c
<1>9a. \A d \in Seq(Seq(B)), l \in Seq(B) : Halfway(d, l) \in CutTexts(B) BY HalfwayIs
<1>10. c \in CutTexts(B)
  <2>1. CASE b = separator BY <1>5, <1>7, <1>8, <1>9a, <2>1
  <2>2. CASE b # separator BY <1>3, <1>6, <1>9, <1>9a, <2>2
  <2> QED BY <2>1, <2>2
<1> QED BY <1>5, <1>6, <1>10 DEF c

\* Its laws, for whole texts.
CutAt(A, separator, B, q) ==
  /\ CutOf(A, separator, q) \in CutTexts(B)
  /\ CutOf(A, separator, q).done \in Seq(Seq(B)) /\ CutOf(A, separator, q).last \in Seq(B)
  /\ Split(A, separator, q) = Append(CutOf(A, separator, q).done, CutOf(A, separator, q).last)
  /\ Split(A, separator, q) \in Seq(Seq(B))
  /\ CutOf(A, separator, Append(q, separator)) =
       Halfway(Append(CutOf(A, separator, q).done, CutOf(A, separator, q).last), <<>>)
  /\ \A b \in B : CutOf(A, separator, Append(q, b)) =
       Halfway(CutOf(A, separator, q).done, Append(CutOf(A, separator, q).last, b))

LEMMA CutsText ==
  ASSUME NEW A, NEW separator \in A, NEW B, Others(A, separator, B)
  PROVE  CutOf(A, separator, <<>>) = Halfway(<<>>, <<>>) /\ \A q \in Seq(A) : CutAt(A, separator, B, q)
<1> DEFINE C(q) == CutOf(A, separator, q)
           f == cutAt(A, separator)
<1>1. Folds(f, Halfway(<<>>, <<>>), A, CutTexts(B))
  <2>1. <<>> \in Seq(B) /\ <<>> \in Seq(Seq(B)) BY FewItems DEF Few
  <2>2. Halfway(<<>>, <<>>) \in CutTexts(B) BY <2>1, HalfwayIs
  <2>3. Body(f, A, CutTexts(B)) BY CutsNext DEF Body
  <2> HIDE DEF f
  <2> QED BY <2>2, <2>3, LoopFolds
<1>2. C(<<>>) = Halfway(<<>>, <<>>) BY <1>1 DEF Folds, CutOf
<1>3. ASSUME NEW q \in Seq(A) PROVE CutAt(A, separator, B, q)
  <2>1. C(q) \in CutTexts(B) BY <1>1 DEF Folds, CutOf
  <2>2. C(q).done \in Seq(Seq(B)) /\ C(q).last \in Seq(B) BY <2>1, HalfwayIs
  <2>3. Split(A, separator, q) = Append(C(q).done, C(q).last) BY DEF Split, CutOf, Halfway
  <2>4. Split(A, separator, q) \in Seq(Seq(B)) BY <2>2, <2>3
  <2>5. \A b \in A : C(Append(q, b)) = f[b][C(q)] BY <1>1 DEF Folds, CutOf
  <2> HIDE DEF C
  <2>6. C(Append(q, separator)) = Halfway(Append(C(q).done, C(q).last), <<>>)
    BY <2>1, <2>5, CutsNext
  <2>7. \A b \in B : C(Append(q, b)) = Halfway(C(q).done, Append(C(q).last, b))
    <3>1. \A b \in B : b \in A /\ b # separator BY DEF Others
    <3> QED BY <2>1, <2>5, <3>1, CutsNext
  <2> QED BY <2>1, <2>2, <2>3, <2>4, <2>6, <2>7 DEF CutAt, C
<1> QED BY <1>2, <1>3

\* A text without a separator becomes the end of the last part.
LEMMA CutsPast ==
  ASSUME NEW A, NEW separator \in A, NEW B, Others(A, separator, B), NEW q \in Seq(A)
  PROVE  \A p \in Seq(B) : CutOf(A, separator, Cat(q, p)) =
           Halfway(CutOf(A, separator, q).done, Cat(CutOf(A, separator, q).last, p))
<1> DEFINE C(t) == CutOf(A, separator, t)
           d == C(q).done
           l == C(q).last
           P == {p \in Seq(B) : C(Cat(q, p)) = Halfway(d, Cat(l, p))}
<1>0. B \subseteq A /\ Seq(B) \subseteq Seq(A)
  <2>1. B \subseteq A BY DEF Others
  <2> QED BY <2>1
<1>1. C(q) \in CutTexts(B) BY CutsText DEF CutAt
<1>1a. d \in Seq(Seq(B)) /\ l \in Seq(B) /\ C(q) = Halfway(d, l) BY <1>1, HalfwayIs
<1>1b. \A t \in Seq(A), b \in B : C(Append(t, b)) = Halfway(C(t).done, Append(C(t).last, b))
  <2>1. \A t \in Seq(A) : CutAt(A, separator, B, t) BY CutsText
  <2> QED BY <2>1 DEF CutAt
<1>1c. \A s, t \in Seq(B) : Cat(s, t) \in Seq(B) BY CatAppend
<1>1d. \A s, t \in Seq(B), x \in B : Cat(s, Append(t, x)) = Append(Cat(s, t), x) BY CatAppend
<1> HIDE DEF C, d, l
<1>2. <<>> \in P
  <2>1. <<>> \in Seq(B) BY FewItems DEF Few
  <2>2. Cat(q, <<>>) = q /\ Cat(l, <<>>) = l BY <1>1a, CatAppend
  <2> QED BY <1>1a, <2>1, <2>2
<1>3. ASSUME NEW p \in Seq(B), NEW b \in B, p \in P PROVE Append(p, b) \in P
  <2>1. p \in Seq(A) /\ b \in A BY <1>0
  <2>2. Cat(q, p) \in Seq(A) /\ Cat(q, Append(p, b)) = Append(Cat(q, p), b) BY <2>1, CatAppend
  <2>3. C(Append(Cat(q, p), b)) = Halfway(C(Cat(q, p)).done, Append(C(Cat(q, p)).last, b))
    BY <1>1b, <2>2
  <2>4. Cat(l, p) \in Seq(B) /\ Cat(l, Append(p, b)) = Append(Cat(l, p), b) BY <1>1a, <1>1c, <1>1d
  <2>5. C(Cat(q, p)).done = d /\ C(Cat(q, p)).last = Cat(l, p) BY <1>1a, <1>3, <2>4, HalfwayIs
  <2>6. Append(p, b) \in Seq(B) OBVIOUS
  <2> QED BY <2>2, <2>3, <2>4, <2>5, <2>6
<1> HIDE DEF P
<1>4. Seq(B) \subseteq P BY <1>2, <1>3, SeqInduction
<1> QED BY <1>4 DEF P, C, d, l
=============================================================================
