-------------------------- MODULE CoverageProofs --------------------------
(***************************************************************************)
(* That the matcher of Patterns is fnmatch on the dotted strings, and the  *)
(* properties of Coverage, for names of any length.                        *)
(***************************************************************************)
EXTENDS Coverage, PatternsProofs

(***************************************************************************)
(* Functions defined by recursion on an index.                             *)
(***************************************************************************)
\* Any index there is comes before a last one.
LEMMA LargestIndex ==
  ASSUME NEW n \in Nat, NEW S \in SUBSET (1..n), S # {}
  PROVE  \E i \in S : \A j \in S : j <= i
<1> DEFINE T == {n + 1 - i : i \in S}
<1>1. T \in SUBSET (1..n) /\ T # {}
  <2>1. \A i \in S : n + 1 - i \in 1..n
    OBVIOUS
  <2>2. PICK i \in S : TRUE
    OBVIOUS
  <2>3. n + 1 - i \in T
    OBVIOUS
  <2> QED
    BY <2>1, <2>3
<1> HIDE DEF T
<1>2. PICK t \in T : \A u \in T : t <= u
  BY <1>1, SmallestIndex
<1>3. PICK i \in S : t = n + 1 - i
  BY DEF T
<1>4. \A j \in S : n + 1 - j \in T
  BY DEF T
<1> QED
  BY <1>2, <1>3, <1>4

\* f starts at v, and g determines each value from the one before.
Unfolds(f, n, S, v, g) ==
  /\ f \in [0..n -> S]
  /\ f[0] = v
  /\ \A i \in 1..n : f[i] = g[i][f[i - 1]]

\* What each value determines from the one before there is.
LEMMA RecursionOnIndex ==
  ASSUME NEW S, NEW n \in Nat, NEW v \in S, NEW g \in [1..n -> [S -> S]]
  PROVE  \E f : Unfolds(f, n, S, v, g)
<1> DEFINE Defined(m, f) == f \in [0..m -> S] /\ f[0] = v /\ \A i \in 1..m : f[i] = g[i][f[i - 1]]
           bad == {m \in 1..n : ~ \E f : Defined(m, f)}
<1>1. \E f : Defined(0, f)
  <2>1. Defined(0, [i \in 0..0 |-> v])
    OBVIOUS
  <2> QED
    BY <2>1
<1>2. SUFFICES bad = {}
  <2>1. n = 0 \/ n \in 1..n
    OBVIOUS
  <2>2. PICK f : Defined(n, f)
    BY <1>1, <1>2, <2>1
  <2>3. Unfolds(f, n, S, v, g)
    BY <2>2 DEF Unfolds
  <2> QED
    BY <2>3
<1>3. SUFFICES ASSUME bad # {} PROVE FALSE
  OBVIOUS
<1>4. PICK m \in bad : \A j \in bad : m <= j
  BY <1>3, SmallestIndex
<1>5. m \in 1..n /\ m - 1 \in 0..n /\ ~(m <= m - 1)
  OBVIOUS
<1>6. PICK f : Defined(m - 1, f)
  <2>1. m - 1 = 0 \/ m - 1 \in 1..n
    BY <1>5
  <2> QED
    BY <1>1, <1>4, <1>5, <2>1
<1> DEFINE h == [i \in 0..m |-> IF i = m THEN g[m][f[m - 1]] ELSE f[i]]
<1>7. f[m - 1] \in S /\ g[m][f[m - 1]] \in S
  <2>1. m - 1 \in 0..m - 1
    BY <1>5
  <2> QED
    BY <1>5, <1>6, <2>1
<1>8. h \in [0..m -> S]
  <2>1. \A i \in 0..m : i = m \/ i \in 0..m - 1
    BY <1>5
  <2> QED
    BY <1>6, <1>7, <2>1
<1>9. h[0] = v
  BY <1>5, <1>6
<1>10. \A i \in 1..m : h[i] = g[i][h[i - 1]]
  <2> SUFFICES ASSUME NEW i \in 1..m PROVE h[i] = g[i][h[i - 1]]
    OBVIOUS
  <2>1. i - 1 \in 0..m /\ i - 1 # m /\ i \in 0..m
    BY <1>5
  <2>2. CASE i = m
    BY <2>1, <2>2
  <2>3. CASE i # m
    <3>1. i \in 1..m - 1
      BY <1>5, <2>3
    <3> QED
      BY <1>6, <2>1, <2>3, <3>1
  <2> QED
    BY <2>2, <2>3
<1>11. Defined(m, h)
  BY <1>8, <1>9, <1>10
<1> QED
  BY <1>4, <1>11

(***************************************************************************)
(* How much of the text the glob may have read.                            *)
(***************************************************************************)
\* read is what fnmatchcase computes.
Reads(read, text, glob) ==
  /\ read \in [0..Len(glob) -> SUBSET (0..Len(text))]
  /\ read[0] = {0}
  /\ \A j \in 1..Len(glob) : \A k \in 0..Len(text) :
       k \in read[j] <=>
         IF glob[j] = WILDCARD_SEGMENT
         THEN \E i \in read[j - 1] : i <= k
         ELSE k - 1 \in read[j - 1] /\ text[k] = glob[j]

\* The recursion of fnmatchcase has a solution, and its answer is read off it.
LEMMA ReadsOnce ==
  ASSUME NEW text \in Seq(Alphabet), NEW glob \in Seq(Alphabet)
  PROVE  \E read : /\ Reads(read, text, glob)
                   /\ fnmatchcase(text, glob) <=> Len(text) \in read[Len(glob)]
<1> DEFINE m == Len(text)
           n == Len(glob)
           More(j, before) == {k \in 0..m :
                                 IF glob[j] = WILDCARD_SEGMENT
                                 THEN \E i \in before : i <= k
                                 ELSE k - 1 \in before /\ text[k] = glob[j]}
           Whole(f) == f = [j \in 0..n |-> IF j = 0 THEN {0} ELSE More(j, f[j - 1])]
           S == SUBSET (0..m)
           g == [j \in 1..n |-> [before \in S |-> More(j, before)]]
<1>1. m \in Nat /\ n \in Nat
  OBVIOUS
<1>2. g \in [1..n -> [S -> S]]
  OBVIOUS
<1> DEFINE v == {0}
<1>3. v \in S
  BY <1>1
<1>4. PICK f : Unfolds(f, n, S, v, g)
  <2> HIDE DEF S, g, m, n, v
  <2> QED
    BY <1>1, <1>2, <1>3, RecursionOnIndex
<1>5. \A i \in 1..n : f[i] = More(i, f[i - 1])
  <2> SUFFICES ASSUME NEW i \in 1..n PROVE f[i] = More(i, f[i - 1])
    OBVIOUS
  <2>1. i - 1 \in 0..n
    BY <1>1
  <2>2. f[i - 1] \in S
    BY <1>4, <2>1 DEF Unfolds
  <2> HIDE DEF More, S
  <2> QED
    BY <1>4, <2>2 DEF Unfolds
<1>6. Whole(f)
  <2>1. \A j \in 0..n : j = 0 \/ j \in 1..n
    BY <1>1
  <2> HIDE DEF More, S, m, n
  <2> QED
    BY <1>4, <1>5, <2>1 DEF Unfolds
<1> DEFINE read == CHOOSE f_1 : Whole(f_1)
<1>7. Whole(read)
  <2> HIDE DEF Whole
  <2> QED
    BY <1>6
<1>8. fnmatchcase(text, glob) <=> m \in read[n]
  BY DEF fnmatchcase
<1> HIDE DEF read
<1>9. read[0] = {0} /\ \A j \in 1..n : read[j] = More(j, read[j - 1])
  <2>1. 0 \in 0..n /\ \A j \in 1..n : j \in 0..n /\ j # 0
    BY <1>1
  <2>2. \A j \in 0..n : read[j] = IF j = 0 THEN {0} ELSE More(j, read[j - 1])
    <3> HIDE DEF More
    <3> QED
      BY <1>7
  <2> HIDE DEF More
  <2>3. read[0] = {0}
    BY <2>1, <2>2
  <2>4. \A j \in 1..n : read[j] = More(j, read[j - 1])
    BY <2>1, <2>2
  <2> QED
    BY <2>3, <2>4
<1>10. read \in [0..n -> S]
  <2>1. \A j \in 0..n : read[j] \in S
    <3>1. \A j \in 0..n : j = 0 \/ j \in 1..n
      BY <1>1
    <3> QED
      BY <1>3, <1>9, <3>1
  <2>2. DOMAIN read = 0..n /\ read = [j \in 0..n |-> read[j]]
    BY <1>7
  <2> HIDE DEF S
  <2> QED
    BY <2>1, <2>2
<1>11. Reads(read, text, glob)
  BY <1>9, <1>10 DEF Reads
<1> QED
  BY <1>8, <1>11

\* What holds at 0, and at an index whenever at the one before, holds at every index.
LEMMA IndexInduction ==
  ASSUME NEW n \in Nat, NEW S, 0 \in S, \A i \in 1..n : i - 1 \in S => i \in S
  PROVE  \A i \in 0..n : i \in S
<1> DEFINE bad == {i \in 1..n : i \notin S}
<1>1. SUFFICES bad = {}
  <2>1. \A i \in 0..n : i = 0 \/ i \in 1..n
    OBVIOUS
  <2> QED
    BY <1>1, <2>1
<1>2. SUFFICES ASSUME bad # {} PROVE FALSE
  OBVIOUS
<1>3. PICK i \in bad : \A j \in bad : i <= j
  BY <1>2, SmallestIndex
<1>4. i \in 1..n /\ ~(i <= i - 1) /\ (i - 1 = 0 \/ i - 1 \in 1..n)
  OBVIOUS
<1> QED
  BY <1>3, <1>4

\* A function that never falls from one index to the next never falls.
LEMMA Ascending ==
  ASSUME NEW n \in Nat, NEW f \in [0..n -> Nat], \A i \in 1..n : f[i - 1] <= f[i]
  PROVE  \A i, j \in 0..n : i <= j => f[i] <= f[j]
<1> DEFINE S == {j \in 0..n : \A i \in 0..n : i <= j => f[i] <= f[j]}
<1>1. 0 \in S
  <2>1. 0 \in 0..n /\ \A i \in 0..n : i <= 0 => i = 0
    OBVIOUS
  <2>2. f[0] <= f[0]
    BY <2>1
  <2> QED
    BY <2>1, <2>2
<1>2. ASSUME NEW j \in 1..n, j - 1 \in S PROVE j \in S
  <2> SUFFICES ASSUME NEW i \in 0..n, i <= j PROVE f[i] <= f[j]
    OBVIOUS
  <2>1. j \in 0..n /\ j - 1 \in 0..n /\ (i = j \/ i <= j - 1)
    OBVIOUS
  <2>2. f[i] \in Nat /\ f[j] \in Nat /\ f[j - 1] \in Nat
    BY <2>1
  <2>3. i <= j - 1 => f[i] <= f[j - 1]
    BY <1>2
  <2> QED
    BY <2>1, <2>2, <2>3
<1>3. \A j \in 0..n : j \in S
  <2> HIDE DEF S
  <2> QED
    BY <1>1, <1>2, IndexInduction
<1> QED
  BY <1>3

(***************************************************************************)
(* Where the segments of a dotted string stand.                            *)
(***************************************************************************)
Width(path, i) == Len(Characters[path[i]])

\* dot[i] is where the dot after segment i stands: 0 is before the first segment,
\* and the last value is one past the end of the text.
Layout(dot, path, text) ==
  /\ text \in Seq(Alphabet)
  /\ dot \in [0..Len(path) -> Nat]
  /\ dot[0] = 0
  /\ dot[Len(path)] = Len(text) + 1
  /\ \A i \in 1..Len(path) : /\ dot[i] = dot[i - 1] + Width(path, i) + 1
                             /\ \A k \in 1..Width(path, i) :
                                  text[dot[i - 1] + k] = Characters[path[i]][k]
                             /\ i # Len(path) => text[dot[i]] = "."

\* Every segment has characters, none of them a dot.
LEMMA SegmentCharacters ==
  ASSUME NEW path \in Seq(Spelt), NEW i \in 1..Len(path)
  PROVE  /\ path[i] \in Spelt
         /\ Characters[path[i]] \in Seq(Alphabet)
         /\ Width(path, i) \in Nat \ {0}
         /\ \A k \in 1..Width(path, i) :
              /\ Characters[path[i]][k] # "."
              /\ Characters[path[i]][k] = WILDCARD_SEGMENT <=> path[i] = WILDCARD_SEGMENT
         /\ path[i] = WILDCARD_SEGMENT => Width(path, i) = 1
<1>1. path[i] \in Spelt
  OBVIOUS
<1> DEFINE c == Characters[path[i]]
<1>2. c \in Seq(Alphabet) /\ c # <<>>
  BY <1>1, CoverageAssumption
<1>3. Len(c) \in Nat \ {0}
  <2> HIDE DEF c
  <2> QED
    BY <1>2
<1>4. CASE path[i] = WILDCARD_SEGMENT
  <2>1. c = <<WILDCARD_SEGMENT>>
    BY <1>1, <1>4, CoverageAssumption
  <2>2. Len(c) = 1 /\ c[1] = WILDCARD_SEGMENT
    BY <2>1
  <2>3. \A k \in 1..1 : k = 1
    OBVIOUS
  <2> QED
    BY <1>1, <1>2, <1>4, <2>2, <2>3, CoverageAssumption DEF Width
<1>5. CASE path[i] # WILDCARD_SEGMENT
  BY <1>1, <1>2, <1>3, <1>5, CoverageAssumption DEF Width
<1> QED
  BY <1>4, <1>5

\* Two strings with a dot between them.
LEMMA Joined ==
  ASSUME NEW a \in Seq(Alphabet), NEW b \in Seq(Alphabet)
  PROVE  /\ a \o <<".">> \o b \in Seq(Alphabet)
         /\ Len(a \o <<".">> \o b) = Len(a) + 1 + Len(b)
         /\ \A x \in 1..Len(a) : (a \o <<".">> \o b)[x] = a[x]
         /\ (a \o <<".">> \o b)[Len(a) + 1] = "."
         /\ \A k \in 1..Len(b) : (a \o <<".">> \o b)[Len(a) + 1 + k] = b[k]
<1> DEFINE c == a \o <<".">>
           d == c \o b
<1>1. /\ c \in Seq(Alphabet) /\ Len(c) = Len(a) + 1 /\ c[Len(a) + 1] = "."
      /\ \A x \in 1..Len(a) : c[x] = a[x]
  <2> DEFINE e == <<".">>
  <2>1. e \in Seq(Alphabet) /\ Len(e) = 1 /\ e[1] = "."
    BY CoverageAssumption
  <2> HIDE DEF e
  <2> DEFINE ae == a \o e
  <2>2. /\ ae \in Seq(Alphabet) /\ Len(ae) = Len(a) + Len(e)
        /\ \A x \in 1..Len(a) + Len(e) : ae[x] = IF x <= Len(a) THEN a[x] ELSE e[x - Len(a)]
    BY <2>1, ConcatProperties
  <2>3. Len(a) \in Nat
    OBVIOUS
  <2> HIDE DEF ae
  <2>4. Len(a) + 1 \in 1..Len(a) + Len(e) /\ ~(Len(a) + 1 <= Len(a)) /\ (Len(a) + 1) - Len(a) = 1
    BY <2>1, <2>3
  <2>5. ae[Len(a) + 1] = "."
    BY <2>1, <2>2, <2>4
  <2>6. \A x \in 1..Len(a) : ae[x] = a[x]
    BY <2>1, <2>2, <2>3
  <2> QED
    BY <2>1, <2>2, <2>5, <2>6 DEF e, ae
<1>2. Len(a) \in Nat /\ Len(b) \in Nat
  OBVIOUS
<1> HIDE DEF c
<1>3. /\ d \in Seq(Alphabet) /\ Len(d) = Len(c) + Len(b)
      /\ \A x \in 1..Len(c) + Len(b) : d[x] = IF x <= Len(c) THEN c[x] ELSE b[x - Len(c)]
  BY <1>1
<1> HIDE DEF d
<1>4. \A x \in 1..Len(a) : d[x] = a[x]
  BY <1>1, <1>2, <1>3
<1>5. d[Len(a) + 1] = "."
  BY <1>1, <1>2, <1>3
<1>6. \A k \in 1..Len(b) : d[Len(a) + 1 + k] = b[k]
  <2>1. \A l, m \in Nat : \A k \in 1..m :
          l + 1 + k \in 1..l + 1 + m /\ ~(l + 1 + k <= l + 1) /\ (l + 1 + k) - (l + 1) = k
    OBVIOUS
  <2> SUFFICES ASSUME NEW k \in 1..Len(b) PROVE d[Len(a) + 1 + k] = b[k]
    OBVIOUS
  <2> DEFINE x == Len(a) + 1 + k
  <2>2. x \in 1..Len(c) + Len(b) /\ ~(x <= Len(c)) /\ x - Len(c) = k
    BY <1>1, <1>2, <2>1
  <2> HIDE DEF x
  <2>3. d[x] = b[k]
    BY <1>3, <2>2
  <2> QED
    BY <2>3 DEF x
<1> QED
  BY <1>1, <1>3, <1>4, <1>5, <1>6 DEF c, d

\* upto is what Dotted computes.
Writes(upto, path) ==
  /\ upto \in [1..Len(path) -> Seq(Alphabet)]
  /\ upto[1] = Characters[path[1]]
  /\ \A n \in 2..Len(path) : upto[n] = upto[n - 1] \o <<".">> \o Characters[path[n]]

\* The recursion of Dotted has a solution, and its answer is the last of it.
LEMMA WritesOnce ==
  ASSUME NEW path \in Seq(Spelt), path # <<>>
  PROVE  \E upto : Writes(upto, path) /\ Dotted(path) = upto[Len(path)]
<1> DEFINE n == Len(path)
           S == Seq(Alphabet)
           Longer(i, before) == before \o <<".">> \o Characters[path[i]]
           Whole(u) == u = [i \in 1..n |-> IF i = 1 THEN Characters[path[1]] ELSE Longer(i, u[i - 1])]
           v == Characters[path[1]]
           g == [i \in 1..n - 1 |-> [before \in S |-> Longer(i + 1, before)]]
<1>1. n \in Nat /\ n - 1 \in Nat /\ 1 \in 1..n
  OBVIOUS
<1>2. \A i \in 1..n : Characters[path[i]] \in S
  BY SegmentCharacters
<1>3. g \in [1..n - 1 -> [S -> S]]
  <2>1. \A i \in 1..n - 1 : \A before \in S : Longer(i + 1, before) \in S
    <3> SUFFICES ASSUME NEW i \in 1..n - 1, NEW before \in S PROVE Longer(i + 1, before) \in S
      OBVIOUS
    <3>1. i + 1 \in 1..n
      BY <1>1
    <3> QED
      BY <1>2, <3>1, Joined
  <2> HIDE DEF Longer, S
  <2> QED
    BY <2>1
<1>4. v \in S
  BY <1>1, <1>2
<1>5. PICK f : Unfolds(f, n - 1, S, v, g)
  <2> HIDE DEF S, g, v, n
  <2> QED
    BY <1>1, <1>3, <1>4, RecursionOnIndex
<1>6. \A i \in 1..n - 1 : f[i] = Longer(i + 1, f[i - 1])
  <2> SUFFICES ASSUME NEW i \in 1..n - 1 PROVE f[i] = Longer(i + 1, f[i - 1])
    OBVIOUS
  <2>1. i - 1 \in 0..n - 1
    BY <1>1
  <2>2. f[i - 1] \in S
    BY <1>5, <2>1 DEF Unfolds
  <2> HIDE DEF Longer, S
  <2> QED
    BY <1>5, <2>2 DEF Unfolds
<1> DEFINE h == [i \in 1..n |-> f[i - 1]]
<1>7. Whole(h)
  <2>1. \A i \in 1..n : i # 1 => h[i] = Longer(i, h[i - 1])
    <3> SUFFICES ASSUME NEW i \in 1..n, i # 1 PROVE h[i] = Longer(i, h[i - 1])
      OBVIOUS
    <3>1. i - 1 \in 1..n - 1 /\ i - 1 \in 1..n /\ (i - 1) + 1 = i
      BY <1>1
    <3>2. h[i] = f[i - 1] /\ h[i - 1] = f[i - 1 - 1]
      BY <3>1
    <3> HIDE DEF h, Longer
    <3> QED
      BY <1>6, <3>1, <3>2
  <2>2. h[1] = v
    BY <1>1, <1>5 DEF Unfolds
  <2>3. h = [i \in 1..n |-> h[i]]
    OBVIOUS
  <2> HIDE DEF h, Longer, n
  <2> QED
    BY <2>1, <2>2, <2>3
<1> DEFINE upto == CHOOSE u : Whole(u)
<1>8. Whole(upto)
  <2> HIDE DEF Whole, h
  <2> QED
    BY <1>7
<1>9. Dotted(path) = upto[n]
  BY DEF Dotted
<1> HIDE DEF upto
<1>10. \A i \in 1..n : upto[i] = IF i = 1 THEN v ELSE Longer(i, upto[i - 1])
  <2> HIDE DEF Longer
  <2> QED
    BY <1>8
<1>11. upto[1] = v /\ \A i \in 2..n : upto[i] = Longer(i, upto[i - 1])
  <2>1. \A i \in 2..n : i \in 1..n /\ i # 1
    BY <1>1
  <2> HIDE DEF Longer, v, n
  <2>2. upto[1] = v
    BY <1>1, <1>10
  <2>3. \A i \in 2..n : upto[i] = Longer(i, upto[i - 1])
    BY <1>10, <2>1
  <2> QED
    BY <2>2, <2>3
<1>12. \A i \in 1..n : upto[i] \in S
  <2> DEFINE typed == {j \in 0..n - 1 : upto[j + 1] \in S}
  <2>1. 0 \in typed
    BY <1>1, <1>4, <1>11
  <2>2. ASSUME NEW j \in 1..n - 1, j - 1 \in typed PROVE j \in typed
    <3>1. j + 1 \in 2..n /\ j + 1 \in 1..n /\ (j + 1) - 1 = j /\ (j - 1) + 1 = j /\ j \in 0..n - 1
      BY <1>1
    <3>2. upto[j] \in S
      BY <2>2, <3>1
    <3>3. upto[j + 1] = Longer(j + 1, upto[j])
      BY <1>11, <3>1
    <3>4. Longer(j + 1, upto[j]) \in S
      BY <1>2, <3>1, <3>2, Joined
    <3> QED
      BY <3>1, <3>3, <3>4
  <2>3. \A j \in 0..n - 1 : j \in typed
    <3> HIDE DEF typed
    <3> QED
      BY <1>1, <2>1, <2>2, IndexInduction
  <2> SUFFICES ASSUME NEW i \in 1..n PROVE upto[i] \in S
    OBVIOUS
  <2>4. i - 1 \in 0..n - 1 /\ (i - 1) + 1 = i
    BY <1>1
  <2> QED
    BY <2>3, <2>4
<1>13. upto \in [1..n -> S]
  <2>1. upto = [i \in 1..n |-> upto[i]]
    <3> HIDE DEF Longer
    <3> QED
      BY <1>8
  <2> HIDE DEF S, n
  <2> QED
    BY <1>12, <2>1
<1>14. Writes(upto, path)
  BY <1>11, <1>13 DEF Writes
<1> QED
  BY <1>9, <1>14

\* The dotted string is laid out segment by segment.
LEMMA DottedLayout ==
  ASSUME NEW path \in Seq(Spelt), path # <<>>
  PROVE  \E dot : Layout(dot, path, Dotted(path))
<1> DEFINE n == Len(path)
<1>1. n \in Nat /\ n - 1 \in Nat /\ 1 \in 1..n /\ n \in 1..n
  OBVIOUS
<1>2. PICK upto : Writes(upto, path) /\ Dotted(path) = upto[n]
  BY WritesOnce
<1> DEFINE W(i) == Width(path, i)
           c(i) == Characters[path[i]]
           dot == [i \in 0..n |-> IF i = 0 THEN 0 ELSE Len(upto[i]) + 1]
           text == upto[n]
<1>3. \A i \in 1..n : c(i) \in Seq(Alphabet) /\ W(i) \in Nat \ {0} /\ Len(c(i)) = W(i)
  BY SegmentCharacters DEF Width
<1>4. \A i \in 1..n : upto[i] \in Seq(Alphabet) /\ Len(upto[i]) \in Nat
  BY <1>2 DEF Writes
<1>5. upto[1] = c(1) /\ \A i \in 2..n : upto[i] = upto[i - 1] \o <<".">> \o c(i)
  BY <1>2 DEF Writes
<1> HIDE DEF n, W, c
<1>6. ASSUME NEW i \in 2..n
      PROVE  /\ i \in 1..n /\ i - 1 \in 1..n
             /\ Len(upto[i]) = Len(upto[i - 1]) + 1 + W(i)
             /\ \A x \in 1..Len(upto[i - 1]) : upto[i][x] = upto[i - 1][x]
             /\ upto[i][Len(upto[i - 1]) + 1] = "."
             /\ \A k \in 1..W(i) : upto[i][Len(upto[i - 1]) + 1 + k] = c(i)[k]
  <2>1. i \in 1..n /\ i - 1 \in 1..n
    BY <1>1
  <2>2. upto[i] = upto[i - 1] \o <<".">> \o c(i)
    BY <1>5
  <2>3. upto[i - 1] \in Seq(Alphabet) /\ c(i) \in Seq(Alphabet) /\ Len(c(i)) = W(i)
    BY <1>3, <1>4, <2>1
  <2> DEFINE a == upto[i - 1]
             b == c(i)
  <2> HIDE DEF a, b
  <2>4. a \in Seq(Alphabet) /\ b \in Seq(Alphabet)
    BY <2>3 DEF a, b
  <2>5. /\ Len(a \o <<".">> \o b) = Len(a) + 1 + Len(b)
        /\ \A x \in 1..Len(a) : (a \o <<".">> \o b)[x] = a[x]
        /\ (a \o <<".">> \o b)[Len(a) + 1] = "."
        /\ \A k \in 1..Len(b) : (a \o <<".">> \o b)[Len(a) + 1 + k] = b[k]
    BY <2>4, Joined
  <2>6. a \o <<".">> \o b = upto[i]
    BY <2>2 DEF a, b
  <2>7. Len(b) = W(i)
    BY <2>3 DEF b
  <2>8. Len(upto[i]) = Len(a) + 1 + W(i)
    BY <2>5, <2>6, <2>7
  <2>9. \A x \in 1..Len(a) : upto[i][x] = a[x]
    BY <2>5, <2>6
  <2>10. upto[i][Len(a) + 1] = "."
    BY <2>5, <2>6
  <2>11. \A k \in 1..W(i) : upto[i][Len(a) + 1 + k] = b[k]
    BY <2>5, <2>6, <2>7
  <2> QED
    BY <2>1, <2>8, <2>9, <2>10, <2>11 DEF a, b
<1>7. \A j \in 1..n, i \in 1..n : i <= j =>
        /\ Len(upto[i]) <= Len(upto[j])
        /\ \A x \in 1..Len(upto[i]) : upto[j][x] = upto[i][x]
  <2> DEFINE Kept(j) == \A i \in 1..n : i <= j =>
                          /\ Len(upto[i]) <= Len(upto[j])
                          /\ \A x \in 1..Len(upto[i]) : upto[j][x] = upto[i][x]
             S == {j \in 0..n - 1 : Kept(j + 1)}
  <2>1. 0 \in S
    <3>1. \A i \in 1..n : i <= 1 => i = 1
      OBVIOUS
    <3>2. Kept(1)
      BY <1>1, <1>4, <3>1
    <3> HIDE DEF Kept
    <3> QED
      BY <1>1, <3>2
  <2>2. ASSUME NEW j \in 1..n - 1, j - 1 \in S PROVE j \in S
    <3>1. j \in 0..n - 1 /\ j + 1 \in 2..n /\ j \in 1..n /\ (j - 1) + 1 = j /\ (j + 1) - 1 = j
      BY <1>1
    <3>2. Kept(j)
      BY <2>2, <3>1
    <3>3. Kept(j + 1)
      <4> SUFFICES ASSUME NEW i \in 1..n, i <= j + 1
                   PROVE  /\ Len(upto[i]) <= Len(upto[j + 1])
                          /\ \A x \in 1..Len(upto[i]) : upto[j + 1][x] = upto[i][x]
        OBVIOUS
      <4>1. CASE i = j + 1
        BY <1>4, <4>1
      <4>2. CASE i # j + 1
        <5>1. i <= j
          BY <3>1, <4>2
        <5>2. /\ Len(upto[i]) <= Len(upto[j])
              /\ \A x \in 1..Len(upto[i]) : upto[j][x] = upto[i][x]
          BY <3>2, <5>1
        <5>3. /\ Len(upto[j + 1]) = Len(upto[j]) + 1 + W(j + 1)
              /\ \A x \in 1..Len(upto[j]) : upto[j + 1][x] = upto[j][x]
              /\ j + 1 \in 1..n
          BY <1>6, <3>1
        <5>4. /\ Len(upto[i]) \in Nat /\ Len(upto[j]) \in Nat /\ Len(upto[j + 1]) \in Nat
              /\ W(j + 1) \in Nat
          BY <1>3, <1>4, <3>1, <5>3
        <5>5. \A x \in 1..Len(upto[i]) : x \in 1..Len(upto[j])
          BY <5>2, <5>4
        <5> QED
          BY <5>2, <5>3, <5>4, <5>5
      <4> QED
        BY <4>1, <4>2
    <3> HIDE DEF Kept
    <3> QED
      BY <3>1, <3>3
  <2>3. \A j \in 0..n - 1 : j \in S
    <3> HIDE DEF S
    <3> QED
      BY <1>1, <2>1, <2>2, IndexInduction
  <2> SUFFICES ASSUME NEW j \in 1..n PROVE Kept(j)
    OBVIOUS
  <2>4. j - 1 \in 0..n - 1 /\ (j - 1) + 1 = j
    BY <1>1
  <2> HIDE DEF Kept
  <2> QED
    BY <2>3, <2>4
<1>8. dot \in [0..n -> Nat] /\ dot[0] = 0 /\ \A i \in 1..n : dot[i] = Len(upto[i]) + 1
  <2>1. \A i \in 0..n : i = 0 \/ i \in 1..n
    BY <1>1
  <2>2. \A i \in 1..n : i # 0 /\ i \in 0..n
    BY <1>1
  <2>3. 0 \in 0..n
    BY <1>1
  <2> QED
    BY <1>4, <2>1, <2>2, <2>3
<1> HIDE DEF dot
<1>9. ASSUME NEW i \in 1..n
      PROVE  /\ dot[i] = dot[i - 1] + W(i) + 1
             /\ \A k \in 1..W(i) : text[dot[i - 1] + k] = c(i)[k]
             /\ i # n => text[dot[i]] = "."
  <2>1. /\ dot[i] = dot[i - 1] + W(i) + 1
        /\ \A k \in 1..W(i) : upto[i][dot[i - 1] + k] = c(i)[k]
    <3>1. CASE i = 1
      <4>1. upto[i] = c(i) /\ dot[i - 1] = 0 /\ dot[i] = W(i) + 1 /\ W(i) \in Nat
        BY <1>3, <1>5, <1>8, <3>1
      <4> QED
        BY <4>1
    <3>2. CASE i # 1
      <4>1. i \in 2..n
        BY <1>1, <3>2
      <4>2. /\ i - 1 \in 1..n
            /\ Len(upto[i]) = Len(upto[i - 1]) + 1 + W(i)
            /\ \A k \in 1..W(i) : upto[i][Len(upto[i - 1]) + 1 + k] = c(i)[k]
        BY <1>6, <4>1
      <4>3. dot[i] = Len(upto[i]) + 1 /\ dot[i - 1] = Len(upto[i - 1]) + 1
        BY <1>8, <4>2
      <4>4. Len(upto[i - 1]) \in Nat /\ W(i) \in Nat
        BY <1>3, <1>4, <4>2
      <4> QED
        BY <4>2, <4>3, <4>4
    <3> QED
      BY <3>1, <3>2
  <2>2. /\ Len(upto[i]) \in Nat /\ W(i) \in Nat /\ dot[i - 1] \in Nat
        /\ dot[i] = Len(upto[i]) + 1
    <3>1. i - 1 \in 0..n
      BY <1>1
    <3> QED
      BY <1>3, <1>4, <1>8, <3>1
  <2>3. \A x \in 1..Len(upto[i]) : text[x] = upto[i][x]
    BY <1>1, <1>7
  <2>4. \A k \in 1..W(i) : dot[i - 1] + k \in 1..Len(upto[i])
    BY <2>1, <2>2
  <2>5. i # n => text[dot[i]] = "."
    <3> SUFFICES ASSUME i # n PROVE text[dot[i]] = "."
      OBVIOUS
    <3>1. i + 1 \in 2..n /\ (i + 1) - 1 = i
      BY <1>1
    <3>2. /\ i + 1 \in 1..n
          /\ Len(upto[i + 1]) = Len(upto[i]) + 1 + W(i + 1)
          /\ upto[i + 1][Len(upto[i]) + 1] = "."
      BY <1>6, <3>1
    <3>3. W(i + 1) \in Nat
      BY <1>3, <3>2
    <3>4. dot[i] \in 1..Len(upto[i + 1])
      <4>1. \A l, w \in Nat : l + 1 \in 1..l + 1 + w
        OBVIOUS
      <4> QED
        BY <2>2, <3>2, <3>3, <4>1
    <3>5. text[dot[i]] = upto[i + 1][dot[i]]
      BY <1>1, <1>7, <3>2, <3>4
    <3> QED
      BY <2>2, <3>2, <3>5
  <2> QED
    BY <2>1, <2>3, <2>4, <2>5
<1>10. text \in Seq(Alphabet) /\ dot[n] = Len(text) + 1
  BY <1>1, <1>4, <1>8
<1>11. Layout(dot, path, text)
  BY <1>8, <1>9, <1>10 DEF Layout, n, W, c
<1> QED
  BY <1>2, <1>11

\* Every position belongs to one segment: it is the dot before it, or in it.
LEMMA LayoutSegments ==
  ASSUME NEW path \in Seq(Spelt), path # <<>>, NEW text, NEW dot, Layout(dot, path, text)
  PROVE  /\ Len(text) \in Nat
         /\ \A i \in 1..Len(path) : i - 1 \in 0..Len(path) /\ dot[i - 1] \in Nat /\ dot[i] \in Nat
         /\ \A i, j \in 0..Len(path) : i < j => dot[i] < dot[j]
         /\ \A x \in 0..Len(text) : \E i \in 1..Len(path) : dot[i - 1] <= x /\ x < dot[i]
<1> DEFINE n == Len(path)
           m == Len(text)
<1>1. n \in Nat \ {0} /\ m \in Nat
  BY DEF Layout
<1>2. dot \in [0..n -> Nat] /\ dot[0] = 0 /\ dot[n] = m + 1
  BY DEF Layout
<1>3. \A i \in 1..n : i - 1 \in 0..n /\ i \in 0..n
  BY <1>1
<1>4. \A i \in 1..n : dot[i - 1] \in Nat /\ dot[i] \in Nat
  BY <1>2, <1>3
<1>5. \A i \in 1..n : dot[i - 1] < dot[i]
  <2> SUFFICES ASSUME NEW i \in 1..n PROVE dot[i - 1] < dot[i]
    OBVIOUS
  <2>1. dot[i] = dot[i - 1] + Width(path, i) + 1
    BY DEF Layout
  <2>2. Width(path, i) \in Nat
    BY SegmentCharacters
  <2> QED
    BY <1>4, <2>1, <2>2
<1> HIDE DEF n, m
<1>6. \A i, j \in 0..n : i <= j => dot[i] <= dot[j]
  <2>1. \A i \in 1..n : dot[i - 1] <= dot[i]
    BY <1>4, <1>5
  <2> QED
    BY <1>1, <1>2, <2>1, Ascending
<1>7. \A i, j \in 0..n : i < j => dot[i] < dot[j]
  <2> SUFFICES ASSUME NEW i \in 0..n, NEW j \in 0..n, i < j PROVE dot[i] < dot[j]
    OBVIOUS
  <2>1. j \in 1..n /\ j - 1 \in 0..n /\ i <= j - 1
    BY <1>1
  <2>2. dot[i] <= dot[j - 1] /\ dot[j - 1] < dot[j] /\ dot[i] \in Nat
    BY <1>2, <1>5, <1>6, <2>1
  <2> QED
    BY <1>4, <2>1, <2>2
<1>8. \A x \in 0..m : \E i \in 1..n : dot[i - 1] <= x /\ x < dot[i]
  <2> SUFFICES ASSUME NEW x \in 0..m PROVE \E i \in 1..n : dot[i - 1] <= x /\ x < dot[i]
    OBVIOUS
  <2> DEFINE S == {i \in 1..n : dot[i - 1] <= x}
  <2>1. 1 \in S
    BY <1>1, <1>2
  <2>2. PICK i \in S : \A j \in S : j <= i
    BY <1>1, <2>1, LargestIndex
  <2>3. CASE i = n
    BY <1>1, <1>2, <2>3
  <2>4. CASE i # n
    <3>1. i + 1 \in 1..n /\ (i + 1) - 1 = i /\ ~(i + 1 <= i)
      BY <1>1, <2>4
    <3>2. ~(dot[(i + 1) - 1] <= x)
      BY <2>2, <3>1
    <3>3. ~(dot[i] <= x) /\ dot[i] \in Nat
      BY <1>4, <3>1, <3>2
    <3> QED
      BY <3>3
  <2> QED
    BY <2>3, <2>4
<1> QED
  BY <1>1, <1>3, <1>4, <1>7, <1>8 DEF n, m

\* Which one it is, and what stands there.
LEMMA LayoutPosition ==
  ASSUME NEW path \in Seq(Spelt), path # <<>>, NEW text, NEW dot, Layout(dot, path, text),
         NEW i \in 1..Len(path), NEW x \in 0..Len(text), dot[i - 1] <= x, x < dot[i]
  PROVE  /\ x - dot[i - 1] \in 0..Width(path, i)
         /\ \A j \in 1..Len(path) : dot[j - 1] <= x /\ x < dot[j] => j = i
         /\ x # dot[i - 1] => /\ x - dot[i - 1] \in 1..Width(path, i)
                              /\ text[x] = Characters[path[i]][x - dot[i - 1]]
                              /\ text[x] # "."
         /\ x = dot[i - 1] /\ i # 1 => text[x] = "."
<1> DEFINE n == Len(path)
<1>1. n \in Nat /\ Len(text) \in Nat /\ x \in Nat
  BY DEF Layout
<1>2. dot[i - 1] \in Nat /\ dot[i] \in Nat /\ i - 1 \in 0..n
  BY LayoutSegments
<1>3. Width(path, i) \in Nat /\ dot[i] = dot[i - 1] + Width(path, i) + 1
  BY SegmentCharacters DEF Layout
<1>4. x - dot[i - 1] \in 0..Width(path, i)
  BY <1>1, <1>2, <1>3
<1>5. ASSUME NEW j \in 1..n, dot[j - 1] <= x, x < dot[j] PROVE j = i
  <2>1. dot[j - 1] \in Nat /\ dot[j] \in Nat /\ j - 1 \in 0..n /\ j \in 0..n /\ i \in 0..n
    BY <1>1, LayoutSegments
  <2>2. \A a, b \in 0..n : a < b => dot[a] < dot[b]
    BY LayoutSegments
  <2>3. ASSUME i < j PROVE FALSE
    <3>1. i = j - 1 \/ i < j - 1
      BY <1>1, <2>1, <2>3
    <3>2. dot[i] <= dot[j - 1]
      BY <1>2, <2>1, <2>2, <3>1
    <3> QED
      BY <1>1, <1>2, <1>5, <2>1, <3>2
  <2>4. ASSUME j < i PROVE FALSE
    <3>1. j = i - 1 \/ j < i - 1
      BY <1>1, <1>2, <2>4
    <3>2. dot[j] <= dot[i - 1]
      BY <1>2, <2>1, <2>2, <3>1
    <3> QED
      BY <1>1, <1>2, <1>5, <2>1, <3>2
  <2> QED
    BY <1>1, <2>3, <2>4
<1>6. ASSUME x # dot[i - 1]
      PROVE  /\ x - dot[i - 1] \in 1..Width(path, i)
             /\ text[x] = Characters[path[i]][x - dot[i - 1]]
             /\ text[x] # "."
  <2> DEFINE k == x - dot[i - 1]
  <2>1. k \in 1..Width(path, i) /\ dot[i - 1] + k = x
    BY <1>1, <1>2, <1>3, <1>4, <1>6
  <2> HIDE DEF k
  <2>2. text[dot[i - 1] + k] = Characters[path[i]][k]
    BY <2>1 DEF Layout
  <2>3. Characters[path[i]][k] # "."
    BY <2>1, SegmentCharacters
  <2> QED
    BY <2>1, <2>2, <2>3 DEF k
<1>7. ASSUME x = dot[i - 1], i # 1 PROVE text[x] = "."
  <2>1. i - 1 \in 1..n /\ i - 1 # n
    BY <1>1, <1>7
  <2>2. text[dot[i - 1]] = "."
    BY <2>1 DEF Layout
  <2> QED
    BY <1>7, <2>2
<1> QED
  BY <1>4, <1>5, <1>6, <1>7

(***************************************************************************)
(* A reading: how much of the text each prefix of the glob stands for.     *)
(***************************************************************************)
Step(text, glob, j, before, now) ==
  IF glob[j] = WILDCARD_SEGMENT THEN before <= now
                                ELSE now = before + 1 /\ text[now] = glob[j]

Reading(a, text, glob) ==
  /\ a \in [0..Len(glob) -> 0..Len(text)]
  /\ a[0] = 0
  /\ a[Len(glob)] = Len(text)
  /\ \A j \in 1..Len(glob) : Step(text, glob, j, a[j - 1], a[j])

\* fnmatch holds exactly when the whole text can be read: backwards from the end,
\* every amount the glob may have read is read from an amount before.
LEMMA MatchIsReading ==
  ASSUME NEW text \in Seq(Alphabet), NEW glob \in Seq(Alphabet)
  PROVE  fnmatchcase(text, glob) <=> \E a : Reading(a, text, glob)
<1> DEFINE m == Len(text)
           n == Len(glob)
<1>1. m \in Nat /\ n \in Nat
  OBVIOUS
<1>2. PICK read : /\ Reads(read, text, glob)
                  /\ fnmatchcase(text, glob) <=> m \in read[n]
  BY ReadsOnce
<1>3. /\ read \in [0..n -> SUBSET (0..m)] /\ read[0] = {0}
      /\ \A j \in 1..n, k \in 0..m :
           k \in read[j] <=> \E i \in read[j - 1] : Step(text, glob, j, i, k)
  <2>1. read \in [0..n -> SUBSET (0..m)] /\ read[0] = {0}
    BY <1>2 DEF Reads
  <2> SUFFICES ASSUME NEW j \in 1..n, NEW k \in 0..m
               PROVE  k \in read[j] <=> \E i \in read[j - 1] : Step(text, glob, j, i, k)
    BY <2>1
  <2>2. read[j - 1] \in SUBSET (0..m)
    <3>1. j - 1 \in 0..n
      BY <1>1
    <3> QED
      BY <2>1, <3>1
  <2>3. k \in read[j] <=> IF glob[j] = WILDCARD_SEGMENT
                          THEN \E i \in read[j - 1] : i <= k
                          ELSE k - 1 \in read[j - 1] /\ text[k] = glob[j]
    BY <1>2 DEF Reads
  <2>4. \A i \in read[j - 1] : k = i + 1 <=> i = k - 1
    BY <1>1, <2>2
  <2>5. CASE glob[j] = WILDCARD_SEGMENT
    BY <2>3, <2>5 DEF Step
  <2>6. CASE glob[j] # WILDCARD_SEGMENT
    BY <2>3, <2>4, <2>6 DEF Step
  <2> QED
    BY <2>5, <2>6
<1> HIDE DEF m, n
<1>4. ASSUME NEW a, Reading(a, text, glob) PROVE m \in read[n]
  <2>1. /\ a \in [0..n -> 0..m] /\ a[0] = 0 /\ a[n] = m
        /\ \A j \in 1..n : Step(text, glob, j, a[j - 1], a[j])
    BY <1>4 DEF Reading, m, n
  <2> DEFINE S == {j \in 0..n : a[j] \in read[j]}
  <2>2. 0 \in S
    BY <1>1, <1>3, <2>1
  <2>3. ASSUME NEW j \in 1..n, j - 1 \in S PROVE j \in S
    <3>1. j \in 0..n /\ a[j] \in 0..m
      BY <2>1
    <3> QED
      BY <1>3, <2>1, <2>3, <3>1
  <2>4. \A j \in 0..n : j \in S
    <3> HIDE DEF S
    <3> QED
      BY <1>1, <2>2, <2>3, IndexInduction
  <2>5. n \in 0..n
    BY <1>1
  <2> QED
    BY <2>1, <2>4, <2>5
<1>5. ASSUME m \in read[n] PROVE \E a : Reading(a, text, glob)
  <2> DEFINE Leads(a, j, k) == /\ a \in [0..j -> 0..m] /\ a[0] = 0 /\ a[j] = k
                               /\ \A i \in 1..j : Step(text, glob, i, a[i - 1], a[i])
             S == {j \in 0..n : \A k \in read[j] : \E a : Leads(a, j, k)}
  <2>1. 0 \in S
    <3>1. Leads([i \in 0..0 |-> 0], 0, 0)
      BY <1>1
    <3> HIDE DEF Leads
    <3>2. \A k \in read[0] : \E a : Leads(a, 0, k)
      BY <1>3, <3>1
    <3> QED
      BY <1>1, <3>2
  <2>2. ASSUME NEW j \in 1..n, j - 1 \in S PROVE j \in S
    <3>1. j \in 0..n /\ j - 1 \in 0..n
      BY <1>1
    <3> SUFFICES ASSUME NEW k \in read[j] PROVE \E a : Leads(a, j, k)
      BY <3>1
    <3>2. k \in 0..m
      BY <1>3, <3>1
    <3>3. PICK i \in read[j - 1] : Step(text, glob, j, i, k)
      BY <1>3, <3>2
    <3>4. PICK a : Leads(a, j - 1, i)
      BY <2>2
    <3> DEFINE b == [x \in 0..j |-> IF x = j THEN k ELSE a[x]]
    <3>5. b \in [0..j -> 0..m]
      <4>1. \A x \in 0..j : x = j \/ x \in 0..j - 1
        BY <1>1
      <4> QED
        BY <3>2, <3>4, <4>1
    <3>6. b[0] = 0 /\ b[j] = k
      BY <1>1, <3>1, <3>4
    <3>7. \A x \in 1..j : Step(text, glob, x, b[x - 1], b[x])
      <4> SUFFICES ASSUME NEW x \in 1..j PROVE Step(text, glob, x, b[x - 1], b[x])
        OBVIOUS
      <4>1. x - 1 \in 0..j /\ x - 1 # j /\ x \in 0..j
        BY <1>1
      <4>2. b[x - 1] = a[x - 1]
        BY <4>1
      <4>3. CASE x = j
        <5>1. a[x - 1] = i /\ b[x] = k
          BY <3>4, <4>1, <4>3
        <5> HIDE DEF b
        <5> QED
          BY <3>3, <4>2, <4>3, <5>1
      <4>4. CASE x # j
        <5>1. x \in 1..j - 1
          BY <1>1, <4>4
        <5>2. b[x] = a[x]
          BY <4>1, <4>4
        <5> HIDE DEF b
        <5> QED
          BY <3>4, <4>2, <5>1, <5>2
      <4> QED
        BY <4>3, <4>4
    <3>8. Leads(b, j, k)
      <4> HIDE DEF b
      <4> QED
        BY <3>5, <3>6, <3>7
    <3> QED
      BY <3>8
  <2>3. \A j \in 0..n : j \in S
    <3> HIDE DEF S
    <3> QED
      BY <1>1, <2>1, <2>2, IndexInduction
  <2>4. PICK a : Leads(a, n, m)
    <3>1. n \in 0..n
      BY <1>1
    <3> HIDE DEF Leads
    <3> QED
      BY <1>5, <2>3, <3>1
  <2>5. Reading(a, text, glob)
    BY <2>4 DEF Reading, m, n
  <2> QED
    BY <2>5
<1> QED
  BY <1>2, <1>4, <1>5

(***************************************************************************)
(* An alignment of the segments is a reading of the characters.            *)
(***************************************************************************)
\* A literal segment is read character by character, and a `*` reads up to the dot
\* where the next segment begins.
LEMMA AlignmentReads ==
  ASSUME NEW resource \in Seq(Spelt), resource # <<>>,
         NEW pattern \in Seq(Spelt), pattern # <<>>,
         NEW text, NEW d, Layout(d, resource, text),
         NEW glob, NEW e, Layout(e, pattern, glob),
         NEW start \in [1..Len(pattern) -> 1..Len(resource)],
         Aligns(start, resource, pattern)
  PROVE  \E a : Reading(a, text, glob)
<1> DEFINE N == Len(resource)
           P == Len(pattern)
           m == Len(text)
           n == Len(glob)
           W(i) == Width(pattern, i)
           next(i) == IF i = P THEN N + 1 ELSE start[i + 1]
           from(i) == d[start[i] - 1]
           to(i) == d[next(i) - 1] - 1
           star(i) == pattern[i] = WILDCARD_SEGMENT
           seg(x) == CHOOSE i \in 1..P : e[i - 1] <= x /\ x < e[i]
           a == [x \in 0..n |-> LET i == seg(x) IN
                   IF x = e[i - 1] THEN from(i)
                   ELSE IF star(i) THEN to(i) ELSE from(i) + (x - e[i - 1])]
<1>1. N \in Nat \ {0} /\ P \in Nat \ {0} /\ m \in Nat /\ n \in Nat
  BY LayoutSegments
<1>2. /\ d \in [0..N -> Nat] /\ d[0] = 0 /\ d[N] = m + 1
      /\ e \in [0..P -> Nat] /\ e[0] = 0 /\ e[P] = n + 1
  BY DEF Layout
<1>3. \A i, j \in 0..N : i < j => d[i] < d[j]
  BY LayoutSegments
<1>4. \A i \in 1..P : W(i) \in Nat \ {0} /\ (star(i) => W(i) = 1)
  BY SegmentCharacters
<1>5. \A i \in 1..P : /\ i - 1 \in 0..P /\ e[i - 1] \in Nat /\ e[i] \in Nat
                      /\ e[i] = e[i - 1] + W(i) + 1
  BY LayoutSegments DEF Layout
<1>6. /\ start[1] = 1
      /\ \A i, j \in 1..P : i < j => start[i] < start[j]
      /\ \A i \in 1..P : ~star(i) => resource[start[i]] = pattern[i] /\ next(i) = start[i] + 1
  BY DEF Aligns
<1>7. \A x \in 0..n, i \in 1..P : e[i - 1] <= x /\ x < e[i] => seg(x) = i
  <2> SUFFICES ASSUME NEW x \in 0..n, NEW i \in 1..P, e[i - 1] <= x, x < e[i]
               PROVE  seg(x) = i
    OBVIOUS
  <2>1. \A j \in 1..P : e[j - 1] <= x /\ x < e[j] => j = i
    BY LayoutPosition
  <2> QED
    BY <2>1
<1> HIDE DEF N, P, m, n, W, next, star, seg
<1>8. ASSUME NEW i \in 1..P
      PROVE  /\ start[i] \in 1..N /\ start[i] - 1 \in 0..N
             /\ next(i) - 1 \in start[i]..N
             /\ from(i) \in 0..m /\ to(i) \in 0..m /\ from(i) <= to(i)
             /\ ~star(i) => to(i) = from(i) + W(i)
  <2>1. start[i] \in 1..N /\ start[i] - 1 \in 0..N
    BY <1>1, start \in [1..P -> 1..N] DEF P, N
  <2>2. next(i) - 1 \in start[i]..N
    <3>1. CASE i = P
      BY <1>1, <2>1, <3>1 DEF next
    <3>2. CASE i # P
      <4>1. i + 1 \in 1..P /\ i < i + 1
        BY <1>1, <3>2
      <4>2. start[i] < start[i + 1] /\ start[i + 1] \in 1..N
        BY <1>6, <4>1, start \in [1..P -> 1..N] DEF P, N
      <4> QED
        BY <1>1, <2>1, <3>2, <4>2 DEF next
    <3> QED
      BY <3>1, <3>2
  <2>3. \A j \in 0..N : d[j] \in Nat /\ d[j] <= m + 1
    <3> SUFFICES ASSUME NEW j \in 0..N PROVE d[j] \in Nat /\ d[j] <= m + 1
      OBVIOUS
    <3>1. d[j] \in Nat /\ N \in 0..N /\ (j = N \/ j < N)
      BY <1>1, <1>2
    <3>2. d[j] <= d[N]
      BY <1>1, <1>2, <1>3, <3>1
    <3> QED
      BY <1>2, <3>1, <3>2
  <2>4. next(i) - 1 \in 0..N /\ start[i] - 1 < next(i) - 1
    BY <1>1, <2>1, <2>2
  <2>5. from(i) < d[next(i) - 1]
    BY <1>3, <2>1, <2>4
  <2>6. from(i) \in Nat /\ d[next(i) - 1] \in Nat /\ d[next(i) - 1] <= m + 1
    BY <2>1, <2>3, <2>4
  <2>7. from(i) \in 0..m /\ to(i) \in 0..m /\ from(i) <= to(i)
    BY <1>1, <2>5, <2>6
  <2>8. ASSUME ~star(i) PROVE to(i) = from(i) + W(i)
    <3>1. resource[start[i]] = pattern[i] /\ next(i) - 1 = start[i]
      BY <1>6, <2>1, <2>8
    <3>2. d[start[i]] = d[start[i] - 1] + Width(resource, start[i]) + 1
      BY <2>1 DEF Layout, N
    <3>3. Width(resource, start[i]) = W(i)
      BY <3>1 DEF Width, W
    <3> QED
      BY <1>4, <2>6, <3>1, <3>2, <3>3
  <2> QED
    BY <2>1, <2>2, <2>7, <2>8
<1>9. ASSUME NEW i \in 1..P, NEW k \in 0..W(i)
      PROVE  /\ e[i - 1] + k \in 0..n
             /\ a[e[i - 1] + k] = IF k = 0 THEN from(i) ELSE IF star(i) THEN to(i) ELSE from(i) + k
             /\ a[e[i - 1] + k] \in 0..m
             /\ k = W(i) => a[e[i - 1] + k] = to(i)
  <2> DEFINE x == e[i - 1] + k
  <2>1. /\ W(i) \in Nat \ {0} /\ e[i - 1] \in Nat /\ e[i] = e[i - 1] + W(i) + 1
        /\ k \in Nat /\ k <= W(i)
    BY <1>4, <1>5
  <2>2. e[i] <= n + 1
    <3>1. \A j, l \in 0..P : j < l => e[j] < e[l]
      BY LayoutSegments DEF P
    <3>2. i \in 0..P /\ P \in 0..P /\ (i = P \/ i < P)
      BY <1>1
    <3> QED
      BY <1>1, <1>2, <1>5, <3>1, <3>2
  <2>3. x \in 0..n /\ e[i - 1] <= x /\ x < e[i]
    BY <1>1, <2>1, <2>2
  <2>4. seg(x) = i
    BY <1>7, <2>3
  <2>5. (x = e[i - 1] <=> k = 0) /\ x - e[i - 1] = k
    BY <2>1
  <2>6. a[x] = IF x = e[i - 1] THEN from(i)
               ELSE IF star(i) THEN to(i) ELSE from(i) + (x - e[i - 1])
    <3> HIDE DEF x, from, to
    <3> QED
      BY <2>3, <2>4
  <2>7. a[x] = IF k = 0 THEN from(i) ELSE IF star(i) THEN to(i) ELSE from(i) + k
    <3> HIDE DEF x, from, to, a
    <3> QED
      BY <2>5, <2>6
  <2>8. from(i) \in 0..m /\ to(i) \in 0..m /\ (~star(i) => to(i) = from(i) + W(i))
    BY <1>8
  <2>9. a[x] \in 0..m /\ (k = W(i) => a[x] = to(i))
    <3> HIDE DEF x, from, to, a
    <3>1. CASE k = 0
      BY <2>1, <2>7, <2>8, <3>1
    <3>2. CASE k # 0 /\ star(i)
      BY <2>7, <2>8, <3>2
    <3>3. CASE k # 0 /\ ~star(i)
      BY <1>1, <2>1, <2>7, <2>8, <3>3
    <3> QED
      BY <3>1, <3>2, <3>3
  <2> QED
    BY <2>3, <2>7, <2>9
<1>10. \A x \in 0..n : \E i \in 1..P : \E k \in 0..W(i) : x = e[i - 1] + k
  <2> SUFFICES ASSUME NEW x \in 0..n PROVE \E i \in 1..P : \E k \in 0..W(i) : x = e[i - 1] + k
    OBVIOUS
  <2>1. PICK i \in 1..P : e[i - 1] <= x /\ x < e[i]
    BY LayoutSegments DEF P, n
  <2>2. x - e[i - 1] \in 0..W(i) /\ x = e[i - 1] + (x - e[i - 1])
    <3>1. \A y, b, w \in Nat : b <= y /\ y < b + w + 1 => y - b \in 0..w /\ y = b + (y - b)
      OBVIOUS
    <3>2. x \in Nat /\ e[i - 1] \in Nat /\ W(i) \in Nat /\ e[i] = e[i - 1] + W(i) + 1
      BY <1>1, <1>4, <1>5
    <3> QED
      BY <2>1, <3>1, <3>2
  <2> QED
    BY <2>2
<1>11. a \in [0..n -> 0..m]
  <2>1. \A x \in 0..n : a[x] \in 0..m
    <3> HIDE DEF a
    <3> QED
      BY <1>9, <1>10
  <2>2. a = [x \in 0..n |-> a[x]]
    OBVIOUS
  <2> HIDE DEF a
  <2> QED
    BY <2>1, <2>2
<1> HIDE DEF a
<1>12. a[0] = 0
  <2>1. 1 \in 1..P /\ 0 \in 0..W(1) /\ e[1 - 1] + 0 = 0
    BY <1>1, <1>2, <1>4
  <2>2. a[e[1 - 1] + 0] = from(1)
    BY <1>9, <2>1
  <2>3. from(1) = 0
    BY <1>2, <1>6
  <2> QED
    BY <2>1, <2>2, <2>3
<1>13. a[n] = m
  <2>1. P \in 1..P /\ W(P) \in 0..W(P)
    BY <1>1, <1>4
  <2>2. e[P - 1] + W(P) = n
    <3>1. \A b, w, l \in Nat : b + w + 1 = l + 1 => b + w = l
      OBVIOUS
    <3>2. e[P - 1] \in Nat /\ W(P) \in Nat /\ e[P] = e[P - 1] + W(P) + 1
      BY <1>4, <1>5, <2>1
    <3> QED
      BY <1>1, <1>2, <3>1, <3>2
  <2>3. a[e[P - 1] + W(P)] = to(P)
    BY <1>9, <2>1
  <2>4. to(P) = m
    BY <1>1, <1>2 DEF next
  <2> QED
    BY <2>2, <2>3, <2>4
<1>14. ASSUME NEW x \in 1..n PROVE Step(text, glob, x, a[x - 1], a[x])
  <2>1. x \in 0..n /\ x # 0
    BY <1>1
  <2>2. PICK i \in 1..P : \E k \in 0..W(i) : x = e[i - 1] + k
    BY <1>10, <2>1
  <2>3. PICK k \in 0..W(i) : x = e[i - 1] + k
    BY <2>2
  <2>4. W(i) \in Nat \ {0} /\ e[i - 1] \in Nat /\ start[i] \in 1..N /\ start[i] - 1 \in 0..N
    BY <1>4, <1>5, <1>8
  <2>5. CASE k # 0
    <3>1. k \in 1..W(i) /\ k - 1 \in 0..W(i) /\ x - 1 = e[i - 1] + (k - 1)
      BY <2>3, <2>4, <2>5
    <3>2. glob[x] = Characters[pattern[i]][k]
      BY <2>3, <3>1 DEF Layout, W, P
    <3>3. glob[x] = WILDCARD_SEGMENT <=> star(i)
      BY <3>1, <3>2, SegmentCharacters DEF W, P, star
    <3>4. CASE star(i)
      <4>1. k - 1 = 0
        BY <1>4, <3>1, <3>4
      <4>2. a[x - 1] = from(i)
        BY <1>9, <3>1, <4>1
      <4>3. a[x] = to(i)
        BY <1>9, <2>3, <2>5, <3>4
      <4> QED
        BY <1>8, <3>3, <3>4, <4>2, <4>3 DEF Step
    <3>5. CASE ~star(i)
      <4>1. a[x - 1] = from(i) + (k - 1)
        <5>1. a[x - 1] = IF k - 1 = 0 THEN from(i) ELSE from(i) + (k - 1)
          BY <1>9, <3>1, <3>5
        <5>2. from(i) \in 0..m
          BY <1>8
        <5> QED
          BY <1>1, <3>1, <5>1, <5>2
      <4>2. a[x] = from(i) + k
        BY <1>9, <2>3, <2>5, <3>5
      <4>3. from(i) \in Nat
        <5>1. from(i) \in 0..m
          BY <1>8
        <5> QED
          BY <1>1, <5>1
      <4>4. resource[start[i]] = pattern[i]
        BY <1>6, <3>5
      <4>5. k \in 1..Width(resource, start[i])
        BY <3>1, <4>4 DEF Width, W
      <4>6. text[from(i) + k] = Characters[resource[start[i]]][k]
        BY <2>4, <4>5 DEF Layout, N
      <4> HIDE DEF from
      <4>7. text[a[x]] = glob[x]
        BY <3>2, <4>2, <4>4, <4>6
      <4>8. a[x] = a[x - 1] + 1
        BY <3>1, <4>1, <4>2, <4>3
      <4> QED
        BY <3>3, <3>5, <4>7, <4>8 DEF Step
    <3> QED
      BY <3>4, <3>5
  <2>6. CASE k = 0
    <3>1. x = e[i - 1]
      BY <2>3, <2>4, <2>6
    <3>2. i # 1
      BY <1>2, <2>1, <3>1
    <3> DEFINE h == i - 1
    <3>3. h \in 1..P /\ h # P /\ h + 1 = i /\ h < i
      BY <1>1, <3>2
    <3> HIDE DEF h
    <3>4. h = i - 1
      BY DEF h
    <3>5. glob[x] = "."
      BY <3>1, <3>3, <3>4 DEF Layout, P
    <3>6. glob[x] # WILDCARD_SEGMENT
      BY <3>5, CoverageAssumption
    <3>7. W(h) \in Nat \ {0} /\ e[h - 1] \in Nat /\ e[h] = e[h - 1] + W(h) + 1
      BY <1>4, <1>5, <3>3
    <3>8. W(h) \in 0..W(h) /\ x - 1 = e[h - 1] + W(h)
      BY <3>1, <3>4, <3>7
    <3>9. a[x - 1] = to(h)
      BY <1>9, <3>3, <3>8
    <3>10. next(h) = start[i]
      BY <3>3 DEF next
    <3>11. a[x] = from(i)
      BY <1>9, <2>3, <2>6
    <3>12. from(i) \in 0..m
      BY <1>8
    <3>13. a[x] = a[x - 1] + 1
      BY <1>1, <3>9, <3>10, <3>11, <3>12
    <3>14. start[h] < start[i] /\ start[h] \in 1..N
      BY <1>6, <1>8, <3>3
    <3>15. start[i] - 1 \in 1..N /\ start[i] - 1 # N
      BY <1>1, <2>4, <3>14
    <3>16. text[from(i)] = "."
      BY <3>15 DEF Layout, N
    <3> QED
      BY <3>5, <3>6, <3>11, <3>13, <3>16 DEF Step
  <2> QED
    BY <2>5, <2>6
<1>15. Reading(a, text, glob)
  BY <1>11, <1>12, <1>13, <1>14 DEF Reading, m, n
<1> QED
  BY <1>15

(***************************************************************************)
(* A reading of the characters is an alignment of the segments: no segment *)
(* holds a dot, so the dots of the glob are read where the text has one.   *)
(***************************************************************************)
\* start[i] is the segment of the resource where segment i of the pattern is read.
LEMMA ReadingAligns ==
  ASSUME NEW resource \in Seq(Spelt), resource # <<>>,
         NEW pattern \in Seq(Spelt), pattern # <<>>,
         NEW text, NEW d, Layout(d, resource, text),
         NEW glob, NEW e, Layout(e, pattern, glob),
         NEW a, Reading(a, text, glob)
  PROVE  \E start \in [1..Len(pattern) -> 1..Len(resource)] : Aligns(start, resource, pattern)
<1> DEFINE N == Len(resource)
           P == Len(pattern)
           m == Len(text)
           n == Len(glob)
           W(i) == Width(pattern, i)
           V(t) == Width(resource, t)
           star(i) == pattern[i] = WILDCARD_SEGMENT
           at(i) == a[e[i - 1]]
           seg(x) == CHOOSE t \in 1..N : d[t - 1] <= x /\ x < d[t]
           start == [i \in 1..P |-> seg(at(i))]
           next(i) == IF i = P THEN N + 1 ELSE start[i + 1]
<1>1. N \in Nat \ {0} /\ P \in Nat \ {0} /\ m \in Nat /\ n \in Nat
  BY LayoutSegments
<1>2. /\ d \in [0..N -> Nat] /\ d[0] = 0 /\ d[N] = m + 1
      /\ e \in [0..P -> Nat] /\ e[0] = 0 /\ e[P] = n + 1
  BY DEF Layout
<1>3. /\ \A i, j \in 0..N : i < j => d[i] < d[j]
      /\ \A i, j \in 0..P : i < j => e[i] < e[j]
  BY LayoutSegments
<1>4. /\ a \in [0..n -> 0..m] /\ a[0] = 0 /\ a[n] = m
      /\ \A x \in 1..n : Step(text, glob, x, a[x - 1], a[x])
  BY DEF Reading
<1>5. \A i \in 1..P : /\ W(i) \in Nat \ {0} /\ i - 1 \in 0..P /\ e[i - 1] \in Nat
                      /\ e[i] = e[i - 1] + W(i) + 1 /\ e[i] \in Nat
  BY SegmentCharacters, LayoutSegments DEF Layout
<1>6. \A t \in 1..N : /\ V(t) \in Nat \ {0} /\ t - 1 \in 0..N /\ d[t - 1] \in Nat
                      /\ d[t] = d[t - 1] + V(t) + 1 /\ d[t] \in Nat
  BY SegmentCharacters, LayoutSegments DEF Layout
<1>7. \A x \in 0..m : seg(x) \in 1..N /\ d[seg(x) - 1] <= x /\ x < d[seg(x)]
  BY LayoutSegments
<1> HIDE DEF N, P, m, n, W, V, star, seg
<1>8. \A i \in 1..P : e[i] <= n + 1
  <2> SUFFICES ASSUME NEW i \in 1..P PROVE e[i] <= n + 1
    OBVIOUS
  <2>1. i \in 0..P /\ P \in 0..P /\ (i = P \/ i < P)
    BY <1>1
  <2>2. e[i] = e[P] \/ e[i] < e[P]
    BY <1>3, <2>1
  <2>3. e[i] \in Nat /\ e[P] = n + 1
    BY <1>2, <1>5
  <2> QED
    BY <1>1, <2>2, <2>3
\* A dot of the glob is read where the text has one.
<1>9. ASSUME NEW i \in 1..P, i # 1
      PROVE  /\ e[i - 1] \in 1..n
             /\ at(i) = a[e[i - 1] - 1] + 1
             /\ text[at(i)] = "."
  <2> DEFINE h == i - 1
  <2>1. h \in 1..P /\ h # P
    BY <1>1, <1>9
  <2>2. glob[e[h]] = "."
    <3> HIDE DEF h
    <3> QED
      BY <2>1 DEF Layout, P
  <2>3. e[i - 1] \in 1..n
    <3>1. i - 1 \in 0..P /\ 0 \in 0..P /\ 0 < i - 1 /\ i \in 0..P /\ i - 1 < i
      BY <1>1, <2>1
    <3>2. e[0] < e[i - 1] /\ e[i - 1] < e[i]
      BY <1>3, <3>1
    <3>3. e[0] = 0 /\ e[i - 1] \in Nat /\ e[i] \in Nat /\ e[i] <= n + 1
      BY <1>2, <1>5, <1>8
    <3>4. \A y, z, l \in Nat : 0 < y /\ y < z /\ z <= l + 1 => y \in 1..l
      OBVIOUS
    <3> QED
      BY <1>1, <3>2, <3>3, <3>4
  <2>4. Step(text, glob, e[i - 1], a[e[i - 1] - 1], a[e[i - 1]])
    BY <1>4, <2>3
  <2>5. glob[e[i - 1]] # WILDCARD_SEGMENT
    BY <2>2, CoverageAssumption
  <2> QED
    BY <2>2, <2>3, <2>4, <2>5 DEF Step
<1>10. ASSUME NEW i \in 1..P
       PROVE  /\ e[i - 1] \in 0..n /\ at(i) \in 0..m
              /\ start[i] \in 1..N /\ d[start[i] - 1] = at(i)
  <2>1. e[i - 1] \in 0..n
    <3>1. \A y, z, w, l \in Nat : z = y + w + 1 /\ z <= l + 1 => y \in 0..l
      OBVIOUS
    <3>2. /\ e[i - 1] \in Nat /\ e[i] \in Nat /\ W(i) \in Nat
          /\ e[i] = e[i - 1] + W(i) + 1 /\ e[i] <= n + 1
      BY <1>5, <1>8
    <3> QED
      BY <1>1, <3>1, <3>2
  <2>2. at(i) \in 0..m
    BY <1>4, <2>1
  <2> DEFINE x == at(i)
             t == start[i]
  <2>3. t \in 1..N /\ d[t - 1] <= x /\ x < d[t]
    BY <1>7, <2>2
  <2> HIDE DEF start
  <2>4. CASE i = 1
    <3>1. x = 0
      BY <1>2, <1>4, <2>4
    <3>2. d[t - 1] \in Nat
      BY <1>6, <2>3
    <3> QED
      BY <2>1, <2>2, <2>3, <3>1, <3>2
  <2>5. CASE i # 1
    <3>1. text[x] = "."
      BY <1>9, <2>5
    <3>2. x # d[t - 1] => text[x] # "."
      <4> HIDE DEF x, t
      <4> QED
        BY <2>2, <2>3, LayoutPosition DEF x, N, m
    <3> QED
      BY <2>1, <2>2, <2>3, <3>1, <3>2
  <2> QED
    BY <2>4, <2>5
<1>11. start \in [1..P -> 1..N]
  <2>1. start = [i \in 1..P |-> start[i]]
    OBVIOUS
  <2> HIDE DEF start
  <2> QED
    BY <1>10, <2>1
<1> HIDE DEF start
<1>12. start[1] = 1
  <2>1. 1 \in 1..P /\ at(1) = 0
    BY <1>1, <1>2, <1>4
  <2>2. start[1] \in 1..N /\ d[start[1] - 1] = 0
    BY <1>10, <2>1
  <2>3. start[1] - 1 \in 0..N /\ 0 \in 0..N /\ (start[1] = 1 \/ 0 < start[1] - 1)
    BY <1>1, <2>2
  <2> QED
    BY <1>2, <1>3, <2>2, <2>3
\* Where two segments begin tells them apart.
<1>13. \A s, t \in 0..N : (d[s] = d[t] => s = t) /\ (d[s] < d[t] => s < t)
  <2> SUFFICES ASSUME NEW s \in 0..N, NEW t \in 0..N
               PROVE  (d[s] = d[t] => s = t) /\ (d[s] < d[t] => s < t)
    OBVIOUS
  <2>1. d[s] \in Nat /\ d[t] \in Nat /\ (s < t \/ s = t \/ t < s)
    BY <1>1, <1>2
  <2> QED
    BY <1>3, <2>1
<1>14. \A i, j \in 1..P : i < j => start[i] < start[j]
  <2> SUFFICES ASSUME NEW i \in 1..P, NEW j \in 1..P, i < j PROVE start[i] < start[j]
    OBVIOUS
  <2>1. j # 1
    BY <1>1
  <2>2. e[j - 1] \in 1..n /\ at(j) = a[e[j - 1] - 1] + 1
    BY <1>9, <2>1
  <2>3. \A x, y \in 0..n : x <= y => a[x] <= a[y]
    <3>1. a \in [0..n -> Nat]
      BY <1>1, <1>4
    <3>2. ASSUME NEW x \in 1..n PROVE a[x - 1] <= a[x]
      <4>1. a[x - 1] \in Nat /\ Step(text, glob, x, a[x - 1], a[x])
        BY <1>1, <1>4, <3>1
      <4> QED
        BY <4>1 DEF Step
    <3> QED
      BY <1>1, <3>1, <3>2, Ascending
  <2>4. e[i - 1] < e[j - 1]
    BY <1>1, <1>3
  <2>5. e[i - 1] \in 0..n /\ e[j - 1] - 1 \in 0..n /\ e[i - 1] <= e[j - 1] - 1
    BY <1>1, <1>5, <1>10, <2>2, <2>4
  <2>6. at(i) <= a[e[j - 1] - 1] /\ at(i) \in 0..m /\ a[e[j - 1] - 1] \in 0..m
    BY <1>4, <2>3, <2>5
  <2>7. d[start[i] - 1] < d[start[j] - 1]
    <3>1. d[start[i] - 1] = at(i) /\ d[start[j] - 1] = at(j)
      BY <1>10
    <3>2. at(j) = a[e[j - 1] - 1] + 1
      BY <2>2
    <3> HIDE DEF at
    <3> QED
      BY <1>1, <2>6, <3>1, <3>2
  <2>8. start[i] \in 1..N /\ start[j] \in 1..N /\ start[i] - 1 \in 0..N /\ start[j] - 1 \in 0..N
    BY <1>1, <1>10
  <2>9. start[i] - 1 < start[j] - 1
    BY <1>13, <2>7, <2>8
  <2> QED
    BY <1>1, <2>8, <2>9
<1>15. ASSUME NEW i \in 1..P, ~star(i)
       PROVE  resource[start[i]] = pattern[i] /\ next(i) = start[i] + 1
  <2> DEFINE t == start[i]
             w == W(i)
             b == e[i - 1]
             c == at(i)
             v == V(t)
  <2>1. /\ t \in 1..N /\ t - 1 \in 0..N /\ w \in Nat \ {0} /\ v \in Nat \ {0} /\ b \in Nat /\ c \in Nat
        /\ c = d[t - 1] /\ d[t] = c + v + 1 /\ e[i] = b + w + 1 /\ b + w \in 0..n
        /\ b \in 0..n /\ c \in 0..m
    <3>1. t \in 1..N /\ b \in 0..n /\ c \in 0..m /\ c = d[t - 1]
      BY <1>10
    <3>2. w \in Nat \ {0} /\ b \in Nat /\ e[i] = b + w + 1 /\ e[i] <= n + 1
      BY <1>5, <1>8
    <3>3. v \in Nat \ {0} /\ d[t] = d[t - 1] + v + 1 /\ t - 1 \in 0..N
      BY <1>6, <3>1
    <3>4. b + w \in 0..n
      <4> HIDE DEF b, w
      <4>1. \A f, g, l \in Nat : f + g + 1 <= l + 1 => f + g \in 0..l
        OBVIOUS
      <4> QED
        BY <1>1, <3>2, <4>1
    <3> QED
      BY <1>1, <3>1, <3>2, <3>3, <3>4
  <2>2. \A k \in 1..w : glob[b + k] = Characters[pattern[i]][k]
    BY DEF Layout, W, P
  <2>3. \A k \in 1..v : text[c + k] = Characters[resource[t]][k]
    <3> HIDE DEF t, c
    <3> QED
      BY <2>1 DEF Layout, V, N
  <2>4. c = a[b]
    OBVIOUS
  <2>5. i # P => i + 1 \in 1..P /\ i + 1 # 1 /\ (i + 1) - 1 = i
    BY <1>1
  <2>6. i # P => a[e[i]] = a[e[i] - 1] + 1 /\ text[a[e[i]]] = "."
    BY <1>9, <2>5
  <2>7. i # P => d[start[i + 1] - 1] = a[e[i]] /\ start[i + 1] \in 1..N
    BY <1>10, <2>5
  <2>8. t # N => text[d[t]] = "."
    <3> HIDE DEF t
    <3> QED
      BY <2>1 DEF Layout, N
  <2>9. t \in 0..N /\ N \in 0..N
    BY <1>1, <2>1
  <2>10. next(i) = IF i = P THEN N + 1 ELSE start[i + 1]
    OBVIOUS
  <2> HIDE DEF t, w, b, c, v, at, next
  <2>11. \A k \in 0..w : a[b + k] = c + k
    <3> DEFINE S == {k \in 0..w : a[b + k] = c + k}
    <3>1. 0 \in S
      BY <2>1, <2>4
    <3>2. ASSUME NEW k \in 1..w, k - 1 \in S PROVE k \in S
      <4>1. b + k \in 1..n /\ (b + k) - 1 = b + (k - 1) /\ k \in 0..w /\ c + (k - 1) + 1 = c + k
        BY <1>1, <2>1
      <4>2. glob[b + k] # WILDCARD_SEGMENT
        <5>1. glob[b + k] = Characters[pattern[i]][k]
          BY <2>2
        <5>2. pattern[i] # WILDCARD_SEGMENT
          BY <1>15 DEF star
        <5> QED
          BY <5>1, <5>2, SegmentCharacters DEF w, W, P
      <4>3. Step(text, glob, b + k, a[(b + k) - 1], a[b + k])
        BY <1>4, <4>1
      <4>4. a[b + (k - 1)] = c + (k - 1)
        BY <3>2
      <4>5. a[b + k] = a[b + (k - 1)] + 1
        BY <4>1, <4>2, <4>3 DEF Step
      <4> QED
        BY <4>1, <4>4, <4>5
    <3>3. \A k \in 0..w : k \in S
      <4> HIDE DEF S
      <4> QED
        BY <2>1, <3>1, <3>2, IndexInduction
    <3> QED
      BY <3>3
  <2>12. \A k \in 1..w : c + k \in 0..m /\ text[c + k] = Characters[pattern[i]][k] /\ text[c + k] # "."
    <3> SUFFICES ASSUME NEW k \in 1..w
                 PROVE  /\ c + k \in 0..m /\ text[c + k] = Characters[pattern[i]][k]
                        /\ text[c + k] # "."
      OBVIOUS
    <3>1. b + k \in 1..n /\ k \in 0..w
      BY <1>1, <2>1
    <3>2. a[b + k] = c + k /\ a[b + k] \in 0..m
      BY <1>1, <1>4, <2>11, <3>1
    <3>3. glob[b + k] = Characters[pattern[i]][k]
      BY <2>2
    <3>4. glob[b + k] # WILDCARD_SEGMENT /\ glob[b + k] # "."
      <4>1. pattern[i] # WILDCARD_SEGMENT
        BY <1>15 DEF star
      <4> QED
        BY <3>3, <4>1, SegmentCharacters DEF w, W, P
    <3>5. Step(text, glob, b + k, a[(b + k) - 1], a[b + k])
      BY <1>4, <3>1
    <3> QED
      BY <3>2, <3>3, <3>4, <3>5 DEF Step
  <2>13. ASSUME v < w PROVE FALSE
    <3>1. v + 1 \in 1..w /\ c + (v + 1) = d[t]
      BY <2>1, <2>13
    <3>2. d[t] \in 0..m /\ text[d[t]] # "."
      BY <2>12, <3>1
    <3> QED
      BY <1>1, <1>2, <2>8, <3>2
  <2>14. w \in 0..w /\ a[b + w] = c + w
    BY <2>1, <2>11
  <2>15. e[i] - 1 = b + w
    BY <2>1
  <2>16. i = P => c + w = m
    <3>1. i = P => b + w = n
      BY <1>1, <1>2, <2>1
    <3> QED
      BY <1>4, <2>14, <3>1
  <2>17. i # P => a[e[i]] = c + w + 1
    BY <2>6, <2>14, <2>15
  <2>18. ASSUME w < v PROVE FALSE
    <3>1. w + 1 \in 1..v /\ c + (w + 1) = c + w + 1
      <4>1. \A f, g, l \in Nat : g < l => g + 1 \in 1..l /\ f + (g + 1) = f + g + 1
        OBVIOUS
      <4> QED
        BY <2>1, <2>18, <4>1
    <3>2. text[c + w + 1] # "."
      <4>1. Characters[resource[t]][w + 1] # "."
        BY <2>1, <3>1, SegmentCharacters DEF v, V, N
      <4> QED
        BY <2>3, <3>1, <4>1
    <3>3. i = P
      BY <2>6, <2>17, <3>2
    <3>4. d[t] <= m + 1
      <4>1. t = N \/ t < N
        BY <1>1, <2>1
      <4>2. d[t] = d[N] \/ d[t] < d[N]
        BY <1>3, <2>9, <4>1
      <4>3. d[N] = m + 1 /\ d[t] \in Nat
        BY <1>2, <2>9
      <4> QED
        BY <1>1, <4>2, <4>3
    <3> QED
      BY <1>1, <2>1, <2>16, <2>18, <3>3, <3>4
  <2>19. v = w
    BY <2>1, <2>13, <2>18
  <2>20. resource[t] = pattern[i]
    <3> DEFINE x == Characters[resource[t]]
               y == Characters[pattern[i]]
    <3>1. x \in Seq(Alphabet) /\ y \in Seq(Alphabet) /\ resource[t] \in Spelt /\ pattern[i] \in Spelt
      BY <2>1, SegmentCharacters DEF N, P
    <3>2. Len(x) = v /\ Len(y) = w
      BY DEF v, w, V, W, Width
    <3>3. \A k \in 1..Len(x) : x[k] = y[k]
      BY <2>3, <2>12, <2>19, <3>2
    <3>4. x = y
      <4> HIDE DEF x, y
      <4> QED
        BY <2>19, <3>1, <3>2, <3>3, SeqEqual
    <3> QED
      BY <3>1, <3>4, CoverageAssumption
  <2>21. next(i) = t + 1
    <3>1. CASE i = P
      <4>1. d[t] = d[N]
        BY <1>2, <2>1, <2>16, <2>19, <3>1
      <4>2. t = N
        BY <1>13, <2>9, <4>1
      <4> QED
        BY <2>10, <3>1, <4>2
    <3>2. CASE i # P
      <4>1. d[start[i + 1] - 1] = d[t]
        BY <2>1, <2>7, <2>17, <2>19, <3>2
      <4>2. start[i + 1] \in 1..N /\ start[i + 1] - 1 \in 0..N
        BY <1>1, <2>7, <3>2
      <4>3. start[i + 1] - 1 = t
        BY <1>13, <2>9, <4>1, <4>2
      <4>4. \A l \in 1..N : l - 1 = t => l = t + 1
        BY <1>1, <2>9
      <4> QED
        BY <2>10, <3>2, <4>2, <4>3, <4>4
    <3> QED
      BY <3>1, <3>2
  <2> QED
    BY <2>20, <2>21 DEF t
<1>16. Aligns(start, resource, pattern)
  BY <1>12, <1>14, <1>15 DEF Aligns, P, N, star
<1> QED
  BY <1>11, <1>16 DEF P, N

\* The matcher on segments is fnmatch on the dotted strings.
THEOREM CoversIsFnmatch ==
  ASSUME NEW resource \in Seq(Spelt), resource # <<>>,
         NEW pattern \in Seq(Spelt), pattern # <<>>
  PROVE  Covers(pattern, resource) <=> fnmatchcase(Dotted(resource), Dotted(pattern))
<1> DEFINE text == Dotted(resource)
           glob == Dotted(pattern)
<1>1. PICK d : Layout(d, resource, text)
  BY DottedLayout
<1>2. PICK e : Layout(e, pattern, glob)
  BY DottedLayout
<1>3. text \in Seq(Alphabet) /\ glob \in Seq(Alphabet)
  BY <1>1, <1>2 DEF Layout
<1> HIDE DEF text, glob
<1>4. fnmatchcase(text, glob) <=> \E a : Reading(a, text, glob)
  BY <1>3, MatchIsReading
<1>5. ASSUME Covers(pattern, resource) PROVE \E a : Reading(a, text, glob)
  <2>1. PICK start \in [1..Len(pattern) -> 1..Len(resource)] : Aligns(start, resource, pattern)
    BY <1>5 DEF Covers
  <2> QED
    BY <1>1, <1>2, <2>1, AlignmentReads
<1>6. ASSUME NEW a, Reading(a, text, glob) PROVE Covers(pattern, resource)
  BY <1>1, <1>2, <1>6, ReadingAligns DEF Covers
<1> QED
  BY <1>4, <1>5, <1>6 DEF text, glob

(***************************************************************************)
(* The properties of Coverage.                                             *)
(***************************************************************************)
THEOREM CoverageTypeCorrect == Spec => []CoverageTypeOK
<1>1. Init => CoverageTypeOK
  BY DEF Init, CoverageTypeOK
<1>2. CoverageTypeOK /\ [Next]_<<r, p, q>> => CoverageTypeOK'
  <2> SUFFICES ASSUME CoverageTypeOK, [Next]_<<r, p, q>> PROVE CoverageTypeOK'
    OBVIOUS
  <2>1. CASE LengthenR
    BY <2>1 DEF CoverageTypeOK, LengthenR
  <2>2. CASE LengthenP
    BY <2>2 DEF CoverageTypeOK, LengthenP
  <2>3. CASE LengthenQ
    BY <2>3 DEF CoverageTypeOK, LengthenQ
  <2>4. CASE Complete
    BY <2>4 DEF CoverageTypeOK, Complete
  <2>5. CASE UNCHANGED <<r, p, q>>
    BY <2>5 DEF CoverageTypeOK
  <2> QED
    BY <2>1, <2>2, <2>3, <2>4, <2>5 DEF Next
<1> QED
  BY <1>1, <1>2, PTL DEF Spec

\* A name of Segments, in the form the code compares.
LEMMA SpeltPath ==
  ASSUME NEW path \in Seq(Segments)
  PROVE  /\ path \in Path /\ normalize(path) \in Seq(Spelt) /\ normalize(path) \in Path
         /\ Len(path) \in Nat /\ Len(normalize(path)) = Len(path)
         /\ path # <<>> => normalize(path) # <<>>
<1>1. path \in Path
  BY CoverageAssumption DEF Path
<1>2. normalize(path) \in Path /\ Len(normalize(path)) = Len(path)
  BY <1>1, NormalizeSegments
<1>3. \A i \in 1..Len(path) : Lower[path[i]] \in Spelt
  BY DEF Spelt
<1>4. normalize(path) \in Seq(Spelt)
  BY <1>3 DEF normalize
<1> QED
  BY <1>1, <1>2, <1>4

\* The alignment of segments decides, for any two names, what fnmatch decides on
\* the strings.
THEOREM MatchingIsFnmatch == Spec => []MatchIsFnmatch
<1>1. CoverageTypeOK => MatchIsFnmatch
  <2> SUFFICES ASSUME CoverageTypeOK, r # <<>>, p # <<>>
               PROVE  resource_matches(r, p)
                        <=> fnmatchcase(Dotted(normalize(r)), Dotted(normalize(p)))
    BY DEF MatchIsFnmatch
  <2>1. /\ normalize(r) \in Seq(Spelt) /\ normalize(r) # <<>>
        /\ normalize(p) \in Seq(Spelt) /\ normalize(p) # <<>>
    BY SpeltPath DEF CoverageTypeOK
  <2> QED
    BY <2>1, CoversIsFnmatch DEF resource_matches
<1> QED
  BY <1>1, CoverageTypeCorrect, PTL

\* Authority over a pattern is authority over all that it covers.
THEOREM CoverageAlwaysTransitive == Spec => []CoverageIsTransitive
<1>1. CoverageTypeOK => CoverageIsTransitive
  <2> SUFFICES ASSUME CoverageTypeOK, resource_matches(r, p), resource_matches(p, q)
               PROVE  resource_matches(r, q)
    BY DEF CoverageIsTransitive
  <2>1. normalize(r) \in Path /\ normalize(p) \in Path /\ normalize(q) \in Path
    BY SpeltPath DEF CoverageTypeOK
  <2> QED
    BY <2>1, CoversTransitive DEF resource_matches
<1> QED
  BY <1>1, CoverageTypeCorrect, PTL

\* `w.*` covers every pattern inside w, and no pattern but itself covers it.
THEOREM WholeWorkspaceAlwaysTop == Spec => []WholeWorkspaceIsTop
<1>1. CoverageTypeOK => WholeWorkspaceIsTop
  <2> SUFFICES ASSUME CoverageTypeOK PROVE WholeWorkspaceIsTop
    OBVIOUS
  <2>1. ASSUME IsPattern(normalize(r)), Len(r) > 1
        PROVE  resource_matches(r, WholeWorkspace(normalize(r)[1]))
    <3> DEFINE s == normalize(r)
               x == s[1]
               whole == WholeWorkspace(x)
    <3>1. s \in Path /\ Len(s) = Len(r)
      BY SpeltPath DEF CoverageTypeOK
    <3>2. x \in Name /\ Lower[x] = x
      BY <2>1, <3>1, PatternHead
    <3>3. /\ whole \in Path /\ Len(whole) = 2 /\ whole[1] = x
          /\ whole[2] = WILDCARD_SEGMENT /\ normalize(whole) = whole
      BY <3>2, NormalizeWhole
    <3> HIDE DEF s, whole
    <3>4. Covers(whole, s)
      BY <2>1, <3>1, <3>3, CoversWholeWorkspace
    <3> QED
      BY <3>3, <3>4 DEF resource_matches, s, whole
  <2>2. ASSUME NEW w \in Spelt, IsPattern(normalize(p)), resource_matches(WholeWorkspace(w), p)
        PROVE  normalize(p) = WholeWorkspace(w)
    <3> DEFINE s == normalize(p)
    <3>1. s \in Path /\ p \in Path
      BY SpeltPath DEF CoverageTypeOK
    <3>2. normalize(s) = s
      BY <3>1, NormalizeTwice
    <3>3. w \in Name /\ Lower[w] = w
      BY NamesAssumption, CoverageAssumption DEF Spelt
    <3> DEFINE whole == WholeWorkspace(w)
    <3>4. whole \in Path /\ whole[1] = w /\ normalize(whole) = whole
      BY <3>3, NormalizeWhole
    <3>5. Covers(s, whole)
      BY <2>2, <3>4 DEF resource_matches
    <3>6. s[1] # WILDCARD_SEGMENT
      BY <2>2, <3>1, PatternHead
    <3>7. s[1] = w
      BY <3>1, <3>4, <3>5, <3>6, CoversHead
    <3>8. resource_matches(whole, s)
      BY <3>2, <3>4, <3>5 DEF resource_matches
    <3> QED
      BY <2>2, <3>1, <3>3, <3>7, <3>8, OnlyWholeCoversWhole
  <2> QED
    BY <2>1, <2>2 DEF WholeWorkspaceIsTop
<1> QED
  BY <1>1, CoverageTypeCorrect, PTL

\* The level of a pattern is the level of the one object it is spoken of as.
THEOREM LevelIsAlwaysTheObject == Spec => []LevelIsTheObjectSpoken
<1>1. CoverageTypeOK => LevelIsTheObjectSpoken
  <2> SUFFICES ASSUME CoverageTypeOK, IsPattern(normalize(p)) PROVE LevelIsTheObjectSpoken
    BY DEF LevelIsTheObjectSpoken
  <2> DEFINE s == normalize(p)
             n == Len(p)
             literals == {i \in 1..n : s[i] # WILDCARD_SEGMENT}
             depth == CHOOSE i \in literals : \A j \in literals : j <= i
             spoken == IF literals # 1..depth \/ n > depth + 1 THEN "none"
                       ELSE CASE depth = 1 -> "workspace"
                              [] depth = 2 -> "collection"
                              [] depth = 3 /\ n # depth + 1 -> "dataset"
                              [] OTHER -> "none"
  <2>1. s \in Path /\ Len(s) = n /\ n \in Nat
    BY SpeltPath DEF CoverageTypeOK
  <2>2. n >= 1 /\ s[1] # WILDCARD_SEGMENT
    BY <2>1, PatternHead
  <2>3. LevelIsTheObjectSpoken <=> pattern_level(p) = spoken
    BY DEF LevelIsTheObjectSpoken, is_literal_segment
  <2>4. pattern_level(p) = CASE n = 1                                -> "workspace"
                             [] n = 2 /\ s[2] = WILDCARD_SEGMENT     -> "workspace"
                             [] n = 2 /\ s[2] # WILDCARD_SEGMENT     -> "collection"
                             [] n = 3 /\ s[2] # WILDCARD_SEGMENT
                                      /\ s[3] = WILDCARD_SEGMENT     -> "collection"
                             [] n = 3 /\ s[2] # WILDCARD_SEGMENT
                                      /\ s[3] # WILDCARD_SEGMENT     -> "dataset"
                             [] OTHER                                -> "none"
    <3> DEFINE l == pattern_level(p)
    <3> HIDE DEF n, s
    <3>0. Len(normalize(p)) = n /\ normalize(p) = s
      BY <2>1 DEF s
    <3>1. CASE n = 1
      BY <2>2, <3>0, <3>1 DEF pattern_level, is_literal_segment
    <3>2. CASE n = 2
      BY <2>2, <3>0, <3>2 DEF pattern_level, is_literal_segment
    <3>3. CASE n = 3
      BY <2>2, <3>0, <3>3 DEF pattern_level, is_literal_segment
    <3>4. CASE n \notin {1, 2, 3}
      BY <2>2, <3>0, <3>4 DEF pattern_level, is_literal_segment
    <3> QED
      BY <3>1, <3>2, <3>3, <3>4
  <2>5. 1 \in literals /\ literals \in SUBSET (1..n)
    BY <2>1, <2>2
  <2>6. depth \in literals /\ \A j \in literals : j <= depth
    <3> HIDE DEF literals
    <3>1. \E i \in literals : \A j \in literals : j <= i
      BY <2>1, <2>5, LargestIndex
    <3> QED
      BY <3>1
  <2>7. \A i \in 1..n : i \in literals <=> s[i] # WILDCARD_SEGMENT
    OBVIOUS
  <2>8. depth \in 1..n
    BY <2>5, <2>6
  <2> HIDE DEF s, n, depth, literals
  <2>9. ASSUME NEW k \in 1..n, \A i \in 1..n : s[i] # WILDCARD_SEGMENT <=> i <= k
         PROVE  depth = k /\ literals = 1..k
    <3>1. \A i \in 1..n : i \in literals <=> i <= k
      BY <2>7, <2>9
    <3>2. k \in literals /\ depth <= k /\ k <= depth
      BY <2>1, <2>6, <2>8, <3>1
    <3>3. \A i \in literals : i \in 1..k
      BY <2>1, <2>5, <3>1
    <3>4. \A i \in 1..k : i \in literals
      BY <2>1, <3>1
    <3>5. depth = k
      BY <2>1, <2>8, <3>2
    <3>6. literals = 1..k
      BY <3>3, <3>4
    <3> QED
      BY <3>5, <3>6
  <2>10. CASE n = 1
    <3>1. 1 \in 1..n /\ \A i \in 1..n : i \in {1}
      BY <2>10
    <3>2. \A i \in 1..n : s[i] # WILDCARD_SEGMENT <=> i <= 1
      BY <2>2, <2>10, <3>1
    <3>3. depth = 1 /\ literals = 1..1
      BY <2>9, <3>1, <3>2
    <3> QED
      BY <2>3, <2>4, <2>10, <3>3
  <2>11. CASE n = 2 /\ s[2] = WILDCARD_SEGMENT
    <3>1. 1 \in 1..n /\ \A i \in 1..n : i \in {1, 2}
      BY <2>11
    <3>2. \A i \in 1..n : s[i] # WILDCARD_SEGMENT <=> i <= 1
      BY <2>2, <2>11, <3>1
    <3>3. depth = 1 /\ literals = 1..1
      BY <2>9, <3>1, <3>2
    <3> QED
      BY <2>3, <2>4, <2>11, <3>3
  <2>12. CASE n = 2 /\ s[2] # WILDCARD_SEGMENT
    <3>1. 2 \in 1..n /\ \A i \in 1..n : i \in {1, 2}
      BY <2>12
    <3>2. \A i \in 1..n : s[i] # WILDCARD_SEGMENT <=> i <= 2
      BY <2>2, <2>12, <3>1
    <3>3. depth = 2 /\ literals = 1..2
      BY <2>9, <3>1, <3>2
    <3> QED
      BY <2>3, <2>4, <2>12, <3>3
  <2>13. CASE n = 3 /\ s[2] # WILDCARD_SEGMENT /\ s[3] = WILDCARD_SEGMENT
    <3>1. 2 \in 1..n /\ \A i \in 1..n : i \in {1, 2, 3}
      BY <2>13
    <3>2. \A i \in 1..n : s[i] # WILDCARD_SEGMENT <=> i <= 2
      BY <2>2, <2>13, <3>1
    <3>3. depth = 2 /\ literals = 1..2
      BY <2>9, <3>1, <3>2
    <3> QED
      BY <2>3, <2>4, <2>13, <3>3
  <2>14. CASE n = 3 /\ s[2] # WILDCARD_SEGMENT /\ s[3] # WILDCARD_SEGMENT
    <3>1. 3 \in 1..n /\ \A i \in 1..n : i \in {1, 2, 3}
      BY <2>14
    <3>2. \A i \in 1..n : s[i] # WILDCARD_SEGMENT <=> i <= 3
      BY <2>2, <2>14, <3>1
    <3>3. depth = 3 /\ literals = 1..3
      BY <2>9, <3>1, <3>2
    <3> QED
      BY <2>3, <2>4, <2>14, <3>3
  <2>15. CASE n = 3 /\ s[2] = WILDCARD_SEGMENT
    <3>1. literals # 1..depth \/ n > depth + 1
      <4> SUFFICES ASSUME literals = 1..depth, ~(n > depth + 1) PROVE FALSE
        OBVIOUS
      <4>1. 2 \in 1..depth /\ 2 \in 1..n
        BY <2>8, <2>15
      <4> QED
        BY <2>7, <2>15, <4>1
    <3> QED
      BY <2>3, <2>4, <2>15, <3>1
  <2>16. CASE n >= 4
    <3>1. spoken = "none"
      <4>1. \A d, m \in Nat : m >= 4 /\ ~(m > d + 1) => d # 1 /\ d # 2 /\ (d = 3 => m = d + 1)
        OBVIOUS
      <4>2. depth \in Nat
        BY <2>1, <2>8
      <4> QED
        BY <2>1, <2>16, <4>1, <4>2
    <3> QED
      BY <2>3, <2>4, <2>16, <3>1
  <2>17. n = 1 \/ n = 2 \/ n = 3 \/ n >= 4
    BY <2>1, <2>2
  <2> QED
    BY <2>10, <2>11, <2>12, <2>13, <2>14, <2>15, <2>16, <2>17
<1> QED
  BY <1>1, CoverageTypeCorrect, PTL
===========================================================================
