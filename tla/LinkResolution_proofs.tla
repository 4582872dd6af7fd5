------------------------ MODULE LinkResolution_proofs ------------------------
(***************************************************************************)
(* Proofs about LinkResolution, for any listing, any folder of the note,   *)
(* any link and any threshold: the aggregates of the trie and the walk up  *)
(* count every candidate once, at its distance, and a link resolves to the *)
(* nearest file of its name, whichever structure answers.                  *)
(***************************************************************************)
EXTENDS LinkResolution, FiniteSetTheorems, WellFoundedInduction, TLAPS

-----------------------------------------------------------------------------
(* Numbers *)

\* A set of natural numbers has a least one.
LEMMA LeastNatural ==
  ASSUME NEW T, T \subseteq Nat, T # {}
  PROVE  \E x \in T : \A y \in T : x <= y
<1> DEFINE R == OpToRel(<, Nat)
<1>0. \A x, y \in Nat : <<x, y>> \in R <=> x < y
  BY DEF OpToRel
<1>1. IsWellFoundedOn(R, Nat)
  BY ONLY NatLessThanWellFounded
<1> HIDE DEF R
<1>2. PICK x \in T : \A y \in T : <<y, x>> \notin R
  BY <1>1, WFMin
<1>3. \A y \in T : x <= y
  <2> TAKE y \in T
  <2>1. x \in Nat /\ y \in Nat
    OBVIOUS
  <2>2. ~(y < x)
    BY <1>0, <1>2, <2>1
  <2> QED  BY <2>1, <2>2
<1> QED
  BY <1>3

\* What holds of zero and passes on to the next number holds of all up to m.
LEMMA CountingUp ==
  ASSUME NEW m \in Nat, NEW T, 0 \in T, \A n \in 0..(m - 1) : n \in T => n + 1 \in T
  PROVE  \A n \in 0..m : n \in T
<1> DEFINE Out == {n \in 0..m : n \notin T}
<1> SUFFICES ASSUME Out # {} PROVE FALSE
  OBVIOUS
<1>1. Out \subseteq Nat
  OBVIOUS
<1>2. PICK x \in Out : \A y \in Out : x <= y
  BY <1>1, LeastNatural
<1>3. x \in 1..m /\ x - 1 \in 0..(m - 1) /\ x - 1 \notin Out
  <2>1. x # 0 /\ x \in 0..m
    OBVIOUS
  <2>2. x - 1 \in 0..(m - 1) /\ ~(x <= x - 1)
    BY <2>1
  <2> QED  BY <1>2, <2>1, <2>2
<1>4. x - 1 \in T
  BY <1>3
<1>5. x \in T
  <2>1. (x - 1) + 1 = x
    BY <1>3
  <2> QED  BY <1>3, <1>4, <2>1
<1> QED
  BY <1>5

-----------------------------------------------------------------------------
(* Distances *)

\* Two folders start with the same n names when these are equal one by one.
LEMMA SameStart ==
  ASSUME NEW a \in Folders, NEW b \in Folders, NEW n \in Nat, n <= Len(a), n <= Len(b)
  PROVE  SubSeq(a, 1, n) = SubSeq(b, 1, n) <=> \A i \in 1..n : a[i] = b[i]
<1>1. /\ SubSeq(a, 1, n) = [i \in 1..n |-> a[i]]
      /\ SubSeq(b, 1, n) = [i \in 1..n |-> b[i]]
  BY DEF Folders
<1> QED
  BY <1>1

\* How many names two folders have in common from the start.
LEMMA InCommon ==
  ASSUME NEW a \in Folders, NEW b \in Folders
  PROVE  \E k \in Nat : /\ k <= Len(a) /\ k <= Len(b)
                        /\ \A n \in Nat : n <= Len(a) /\ n <= Len(b) =>
                             (SubSeq(a, 1, n) = SubSeq(b, 1, n) <=> n <= k)
<1> DEFINE Same(n) == SubSeq(a, 1, n) = SubSeq(b, 1, n)
           Short == {n \in Nat : n <= Len(a) /\ n <= Len(b)}
<1>0. Len(a) \in Nat /\ Len(b) \in Nat
  BY DEF Folders
<1>1. \A n \in Short : Same(n) <=> \A i \in 1..n : a[i] = b[i]
  BY SameStart
<1> HIDE DEF Same
<1>2. \A n \in Short, m \in Nat : Same(n) /\ m <= n => Same(m)
  <2> SUFFICES ASSUME NEW n \in Short, NEW m \in Nat, Same(n), m <= n PROVE Same(m)
    OBVIOUS
  <2>1. m \in Short /\ 1..m \subseteq 1..n
    BY <1>0
  <2> QED  BY <1>1, <2>1
<1> DEFINE Other == {n \in Nat : n + 1 \in Short /\ ~Same(n + 1)}
<1>3. Same(0) /\ 0 \in Short
  BY <1>0, <1>1
<1>4. CASE Other = {}
  <2> DEFINE k == IF Len(a) <= Len(b) THEN Len(a) ELSE Len(b)
  <2>1. \A n \in 0..k : n \in {x \in Short : Same(x)}
    <3>1. 0 \in {x \in Short : Same(x)}
      BY <1>3
    <3>2. \A n \in 0..(k - 1) : n \in {x \in Short : Same(x)} => n + 1 \in {x \in Short : Same(x)}
      <4> TAKE n \in 0..(k - 1)
      <4>1. n + 1 \in Short /\ n \in Nat
        BY <1>0
      <4>2. n \notin Other
        BY <1>4
      <4> QED  BY <4>1, <4>2
    <3>3. k \in Nat
      BY <1>0
    <3> HIDE DEF k
    <3> QED  BY <3>1, <3>2, <3>3, CountingUp
  <2>2. k \in Nat /\ k <= Len(a) /\ k <= Len(b)
    BY <1>0
  <2>3. \A n \in Short : n <= k
    BY <1>0
  <2>4. \A n \in Short : Same(n)
    BY <2>1, <2>2, <2>3
  <2> QED  BY <2>2, <2>3, <2>4 DEF Same
<1>5. CASE Other # {}
  <2>0. Other \subseteq Nat
    OBVIOUS
  <2>1. PICK k \in Other : \A y \in Other : k <= y
    <3> HIDE DEF Other
    <3> QED  BY <1>5, <2>0, LeastNatural
  <2>2. k \in Nat /\ k + 1 \in Short /\ ~Same(k + 1) /\ k <= Len(a) /\ k <= Len(b)
    BY <1>0
  <2>3. \A n \in 0..k : n \in {x \in Short : Same(x)}
    <3>1. 0 \in {x \in Short : Same(x)}
      BY <1>3
    <3>2. \A n \in 0..(k - 1) : n \in {x \in Short : Same(x)} => n + 1 \in {x \in Short : Same(x)}
      <4> TAKE n \in 0..(k - 1)
      <4>1. n + 1 \in Short /\ n \in Nat /\ ~(k <= n)
        BY <1>0, <2>2
      <4>2. n \notin Other
        BY <2>1, <4>1
      <4> QED  BY <4>1, <4>2
    <3> HIDE DEF Other
    <3> QED  BY <2>2, <3>1, <3>2, CountingUp
  <2>4. \A n \in Short : Same(n) => n <= k
    <3> TAKE n \in Short
    <3>1. n > k => k + 1 <= n
      BY <2>2
    <3>2. Same(n) /\ k + 1 <= n => Same(k + 1)
      BY <1>2, <2>2
    <3> QED  BY <2>2, <3>1, <3>2
  <2>5. \A n \in Short : n <= k => Same(n)
    BY <2>2, <2>3
  <2> QED  BY <2>2, <2>4, <2>5 DEF Same
<1> QED
  BY <1>4, <1>5

\* distance_to is the length of the shortest walk: up to the common ancestor and
\* down again.
LEMMA DistanceIsHops ==
  ASSUME NEW a \in Folders, NEW b \in Folders, NEW k \in Nat, k <= Len(a), k <= Len(b),
         \A n \in Nat : n <= Len(a) /\ n <= Len(b) =>
           (SubSeq(a, 1, n) = SubSeq(b, 1, n) <=> n <= k)
  PROVE  /\ Hops(a, b) = (Len(a) - k) + (Len(b) - k)
         /\ Distance(a, b) = Hops(a, b)
         /\ Hops(a, b) \in Nat
<1> DEFINE walks == {w \in (0..Len(a)) \X (0..Len(b)) :
                       SubSeq(a, 1, Len(a) - w[1]) = SubSeq(b, 1, Len(b) - w[2])}
           lengths == {w[1] + w[2] : w \in walks}
           d == (Len(a) - k) + (Len(b) - k)
<1>0. Len(a) \in Nat /\ Len(b) \in Nat /\ DOMAIN a = 1..Len(a) /\ DOMAIN b = 1..Len(b)
  BY DEF Folders
<1>1. Shared(a, b) = k
  <2>1. {n \in DOMAIN a \cap DOMAIN b : SubSeq(a, 1, n) = SubSeq(b, 1, n)} = 1..k
    <3>1. \A n : n \in DOMAIN a \cap DOMAIN b <=> n \in Nat /\ 1 <= n /\ n <= Len(a) /\ n <= Len(b)
      BY <1>0
    <3>2. \A n : n \in 1..k <=> n \in Nat /\ 1 <= n /\ n <= k
      OBVIOUS
    <3>3. \A n \in Nat : n <= k => n <= Len(a) /\ n <= Len(b)
      BY <1>0
    <3> QED  BY <3>1, <3>2, <3>3
  <2>2. Cardinality(1..k) = k
    BY FS_Interval
  <2> QED  BY <2>1, <2>2 DEF Shared
<1>2. Distance(a, b) = d /\ d \in Nat
  BY <1>0, <1>1 DEF Distance
<1>3. d \in lengths
  <2> DEFINE w == <<Len(a) - k, Len(b) - k>>
  <2>1. w \in (0..Len(a)) \X (0..Len(b))
    BY <1>0
  <2>2. Len(a) - w[1] = k /\ Len(b) - w[2] = k
    BY <1>0
  <2>3. SubSeq(a, 1, k) = SubSeq(b, 1, k)
    OBVIOUS
  <2>4. w \in walks
    BY <2>1, <2>2, <2>3
  <2>5. w[1] + w[2] = d
    OBVIOUS
  <2> QED  BY <2>4, <2>5
<1>4. \A n \in lengths : n \in Nat /\ d <= n
  <2> SUFFICES ASSUME NEW w \in walks PROVE w[1] + w[2] \in Nat /\ d <= w[1] + w[2]
    OBVIOUS
  <2>1. w[1] \in 0..Len(a) /\ w[2] \in 0..Len(b)
    OBVIOUS
  <2>2. SubSeq(a, 1, Len(a) - w[1]) = SubSeq(b, 1, Len(b) - w[2])
    OBVIOUS
  <2>3. PICK m \in Nat, n \in Nat : m = Len(a) - w[1] /\ n = Len(b) - w[2] /\ m <= Len(a) /\ n <= Len(b)
    BY SMTT(90), <1>0, <2>1
  <2>4. Len(SubSeq(a, 1, m)) = m /\ Len(SubSeq(b, 1, n)) = n
    BY SMTT(90), <1>0, <2>3 DEF Folders
  <2>5. m = n
    BY <2>2, <2>3, <2>4
  <2>6. m <= k
    BY <2>2, <2>3, <2>5
  <2>7. ASSUME NEW x \in Nat, NEW y \in Nat, NEW p \in Nat, NEW q \in Nat,
               m = p - x, m = q - y
        PROVE  x + y \in Nat /\ (p - k) + (q - k) <= x + y
    BY <2>6, <2>7
  <2>8. w[1] \in Nat /\ w[2] \in Nat
    BY <1>0, <2>1
  <2>9. m = Len(a) - w[1] /\ m = Len(b) - w[2]
    BY <2>3, <2>5
  <2> HIDE DEF walks
  <2> QED  BY <1>0, <2>7, <2>8, <2>9
<1>5. Hops(a, b) = CHOOSE n \in lengths : \A x \in lengths : n <= x
  BY DEF Hops
<1> HIDE DEF lengths, d
<1>6. \E n \in lengths : \A x \in lengths : n <= x
  BY <1>3, <1>4
<1>7. Hops(a, b) \in lengths /\ \A x \in lengths : Hops(a, b) <= x
  BY <1>5, <1>6
<1>8. Hops(a, b) = d
  <2>1. Hops(a, b) \in Nat /\ d <= Hops(a, b) /\ Hops(a, b) <= d
    BY <1>3, <1>4, <1>7
  <2> QED  BY <1>2, <2>1
<1> QED
  BY <1>2, <1>8 DEF d

LEMMA DistancesAgree ==
  ASSUME NEW a \in Folders, NEW b \in Folders
  PROVE  Distance(a, b) = Hops(a, b) /\ Hops(a, b) \in Nat
BY InCommon, DistanceIsHops
-----------------------------------------------------------------------------
(* The loops: each is a function of how far it has gone *)

Merges(f, start, aggs) ==
  /\ f[0] = start
  /\ \A n \in 1..Len(aggs) : f[n] = Merged(f[n - 1], aggs[n])

Selects(f, s, T) ==
  /\ f[0] = <<>>
  /\ \A n \in 1..Len(s) : f[n] = IF s[n] \in T THEN Append(f[n - 1], s[n]) ELSE f[n - 1]

Ensures(f, nodes, folder) ==
  /\ f[0] = nodes
  /\ \A n \in 1..Len(folder) :
       f[n] = IF Contains(nodes, SubSeq(folder, 1, n)) THEN nodes
              ELSE Append(f[n - 1], SubSeq(folder, 1, n))

LEMMA MergedFromIs ==
  ASSUME NEW start, NEW aggs, Len(aggs) \in Nat
  PROVE  \E f : MergedFrom(start, aggs) = f[Len(aggs)] /\ Merges(f, start, aggs)
<1> DEFINE L == Len(aggs)
           Step(v, n) == Merged(v, aggs[n])
           Solves(f, m) == f = [n \in 0..m |-> IF n = 0 THEN start ELSE Step(f[n - 1], n)]
           Solved == {m \in 0..L : \E f : Solves(f, m)}
           loop == CHOOSE f : Solves(f, L)
<1>0. MergedFrom(start, aggs) = loop[L]
  BY DEF MergedFrom
<1> HIDE DEF Step
<1>1. 0 \in Solved
  <2> DEFINE f == [n \in 0..0 |-> start]
             g == [n \in 0..0 |-> IF n = 0 THEN start ELSE Step(f[n - 1], n)]
  <2>1. \A n \in 0..0 : f[n] = g[n]
    OBVIOUS
  <2>2. f = g
    BY <2>1
  <2> HIDE DEF f
  <2> QED  BY <2>2
<1>2. \A m \in 0..(L - 1) : m \in Solved => m + 1 \in Solved
  <2> SUFFICES ASSUME NEW m \in 0..(L - 1), NEW f, Solves(f, m) PROVE \E g : Solves(g, m + 1)
    OBVIOUS
  <2> DEFINE g == [n \in 0..(m + 1) |-> IF n = m + 1 THEN Step(f[m], m + 1) ELSE f[n]]
             next == [n \in 0..(m + 1) |-> IF n = 0 THEN start ELSE Step(g[n - 1], n)]
  <2>1. \A n \in 0..(m + 1) : g[n] = next[n]
    <3> TAKE n \in 0..(m + 1)
    <3>1. CASE n = m + 1
      BY <3>1
    <3>2. CASE n \in 1..m
      <4>1. f[n] = Step(f[n - 1], n) /\ n - 1 \in 0..m /\ n # m + 1 /\ n - 1 # m + 1
        BY <3>2
      <4>2. g[n] = f[n] /\ g[n - 1] = f[n - 1]
        BY <4>1
      <4> QED  BY <3>2, <4>1, <4>2
    <3>3. CASE n = 0
      BY <3>3
    <3> QED  BY <3>1, <3>2, <3>3
  <2>2. g = next
    BY <2>1
  <2> HIDE DEF g
  <2> QED  BY <2>2
<1>3. \E f : Solves(f, L)
  <2>1. L \in 0..L
    OBVIOUS
  <2> HIDE DEF Solves
  <2>2. \A m \in 0..L : m \in Solved
    <3> HIDE DEF Solved
    <3> QED  BY <1>1, <1>2, CountingUp
  <2> QED  BY <2>1, <2>2
<1>4. Solves(loop, L)
  <2> HIDE DEF Solves
  <2> QED  BY <1>3
<1> HIDE DEF loop
<1>5. loop[0] = start /\ \A n \in 1..L : loop[n] = Step(loop[n - 1], n)
  BY <1>4
<1> QED
  BY <1>0, <1>5 DEF Step, Merges

LEMMA SelectedIs ==
  ASSUME NEW s, NEW T, Len(s) \in Nat
  PROVE  \E f : Selected(s, T) = f[Len(s)] /\ Selects(f, s, T)
<1> DEFINE L == Len(s)
           Step(v, n) == IF s[n] \in T THEN Append(v, s[n]) ELSE v
           Solves(f, m) == f = [n \in 0..m |-> IF n = 0 THEN <<>> ELSE Step(f[n - 1], n)]
           Solved == {m \in 0..L : \E f : Solves(f, m)}
           loop == CHOOSE f : Solves(f, L)
<1>0. Selected(s, T) = loop[L]
  BY DEF Selected
<1> HIDE DEF Step
<1>1. 0 \in Solved
  <2> DEFINE f == [n \in 0..0 |-> <<>>]
             g == [n \in 0..0 |-> IF n = 0 THEN <<>> ELSE Step(f[n - 1], n)]
  <2>1. \A n \in 0..0 : f[n] = g[n]
    OBVIOUS
  <2>2. f = g
    BY <2>1
  <2> HIDE DEF f
  <2> QED  BY <2>2
<1>2. \A m \in 0..(L - 1) : m \in Solved => m + 1 \in Solved
  <2> SUFFICES ASSUME NEW m \in 0..(L - 1), NEW f, Solves(f, m) PROVE \E g : Solves(g, m + 1)
    OBVIOUS
  <2> DEFINE g == [n \in 0..(m + 1) |-> IF n = m + 1 THEN Step(f[m], m + 1) ELSE f[n]]
             next == [n \in 0..(m + 1) |-> IF n = 0 THEN <<>> ELSE Step(g[n - 1], n)]
  <2>1. \A n \in 0..(m + 1) : g[n] = next[n]
    <3> TAKE n \in 0..(m + 1)
    <3>1. CASE n = m + 1
      BY <3>1
    <3>2. CASE n \in 1..m
      <4>1. f[n] = Step(f[n - 1], n) /\ n - 1 \in 0..m /\ n # m + 1 /\ n - 1 # m + 1
        BY <3>2
      <4>2. g[n] = f[n] /\ g[n - 1] = f[n - 1]
        BY <4>1
      <4> QED  BY <3>2, <4>1, <4>2
    <3>3. CASE n = 0
      BY <3>3
    <3> QED  BY <3>1, <3>2, <3>3
  <2>2. g = next
    BY <2>1
  <2> HIDE DEF g
  <2> QED  BY <2>2
<1>3. \E f : Solves(f, L)
  <2>1. L \in 0..L
    OBVIOUS
  <2> HIDE DEF Solves
  <2>2. \A m \in 0..L : m \in Solved
    <3> HIDE DEF Solved
    <3> QED  BY <1>1, <1>2, CountingUp
  <2> QED  BY <2>1, <2>2
<1>4. Solves(loop, L)
  <2> HIDE DEF Solves
  <2> QED  BY <1>3
<1> HIDE DEF loop
<1>5. loop[0] = <<>> /\ \A n \in 1..L : loop[n] = Step(loop[n - 1], n)
  BY <1>4
<1> QED
  BY <1>0, <1>5 DEF Step, Selects

LEMMA WithFolderIs ==
  ASSUME NEW nodes, NEW folder, Len(folder) \in Nat
  PROVE  \E f : WithFolder(nodes, folder) = f[Len(folder)] /\ Ensures(f, nodes, folder)
<1> DEFINE L == Len(folder)
           Step(v, n) == IF Contains(nodes, SubSeq(folder, 1, n)) THEN nodes
                         ELSE Append(v, SubSeq(folder, 1, n))
           Solves(f, m) == f = [n \in 0..m |-> IF n = 0 THEN nodes ELSE Step(f[n - 1], n)]
           Solved == {m \in 0..L : \E f : Solves(f, m)}
           loop == CHOOSE f : Solves(f, L)
<1>0. WithFolder(nodes, folder) = loop[L]
  BY DEF WithFolder
<1> HIDE DEF Step
<1>1. 0 \in Solved
  <2> DEFINE f == [n \in 0..0 |-> nodes]
             g == [n \in 0..0 |-> IF n = 0 THEN nodes ELSE Step(f[n - 1], n)]
  <2>1. \A n \in 0..0 : f[n] = g[n]
    OBVIOUS
  <2>2. f = g
    BY <2>1
  <2> HIDE DEF f
  <2> QED  BY <2>2
<1>2. \A m \in 0..(L - 1) : m \in Solved => m + 1 \in Solved
  <2> SUFFICES ASSUME NEW m \in 0..(L - 1), NEW f, Solves(f, m) PROVE \E g : Solves(g, m + 1)
    OBVIOUS
  <2> DEFINE g == [n \in 0..(m + 1) |-> IF n = m + 1 THEN Step(f[m], m + 1) ELSE f[n]]
             next == [n \in 0..(m + 1) |-> IF n = 0 THEN nodes ELSE Step(g[n - 1], n)]
  <2>1. \A n \in 0..(m + 1) : g[n] = next[n]
    <3> TAKE n \in 0..(m + 1)
    <3>1. CASE n = m + 1
      BY <3>1
    <3>2. CASE n \in 1..m
      <4>1. f[n] = Step(f[n - 1], n) /\ n - 1 \in 0..m /\ n # m + 1 /\ n - 1 # m + 1
        BY <3>2
      <4>2. g[n] = f[n] /\ g[n - 1] = f[n - 1]
        BY <4>1
      <4> QED  BY <3>2, <4>1, <4>2
    <3>3. CASE n = 0
      BY <3>3
    <3> QED  BY <3>1, <3>2, <3>3
  <2>2. g = next
    BY <2>1
  <2> HIDE DEF g
  <2> QED  BY <2>2
<1>3. \E f : Solves(f, L)
  <2>1. L \in 0..L
    OBVIOUS
  <2> HIDE DEF Solves
  <2>2. \A m \in 0..L : m \in Solved
    <3> HIDE DEF Solved
    <3> QED  BY <1>1, <1>2, CountingUp
  <2> QED  BY <2>1, <2>2
<1>4. Solves(loop, L)
  <2> HIDE DEF Solves
  <2> QED  BY <1>3
<1> HIDE DEF loop
<1>5. loop[0] = nodes /\ \A n \in 1..L : loop[n] = Step(loop[n - 1], n)
  BY <1>4
<1> QED
  BY <1>0, <1>5 DEF Step, Ensures

LEMMA AppendFresh ==
  ASSUME NEW X, NEW s \in Seq(X), NEW e \in X
  PROVE  /\ Append(s, e) \in Seq(X)
         /\ Len(Append(s, e)) = Len(s) + 1
         /\ \A i \in 1..Len(s) : Append(s, e)[i] = s[i]
         /\ Append(s, e)[Len(s) + 1] = e
         /\ ToSet(Append(s, e)) = ToSet(s) \cup {e}
         /\ IsInjective(s) /\ e \notin ToSet(s) => IsInjective(Append(s, e))
<1> DEFINE r == Append(s, e)
<1>1. /\ r \in Seq(X) /\ Len(r) = Len(s) + 1 /\ Len(s) \in Nat
      /\ \A i \in 1..Len(s) : r[i] = s[i]
      /\ r[Len(s) + 1] = e
      /\ DOMAIN s = 1..Len(s) /\ DOMAIN r = 1..(Len(s) + 1)
  OBVIOUS
<1> HIDE DEF r
<1>2. ToSet(r) = ToSet(s) \cup {e}
  <2>1. \A x \in ToSet(r) : x \in ToSet(s) \cup {e}
    BY <1>1 DEF ToSet
  <2>2. \A x \in ToSet(s) : x \in ToSet(r)
    BY <1>1 DEF ToSet
  <2>3. e \in ToSet(r)
    BY <1>1 DEF ToSet
  <2> QED  BY <2>1, <2>2, <2>3
<1>3. ASSUME IsInjective(s), e \notin ToSet(s) PROVE IsInjective(r)
  <2>1. \A i \in 1..Len(s) : s[i] # e
    BY <1>1, <1>3 DEF ToSet
  <2>2. \A i, j \in 1..Len(s) : r[i] = r[j] => i = j
    BY <1>1, <1>3 DEF IsInjective
  <2>3. \A i \in 1..(Len(s) + 1) : i \in 1..Len(s) \/ i = Len(s) + 1
    BY <1>1
  <2>4. \A i \in 1..Len(s) : r[i] # e
    BY <1>1, <2>1
  <2> QED  BY <1>1, <2>2, <2>3, <2>4 DEF IsInjective
<1> QED
  BY <1>1, <1>2, <1>3 DEF r

\* What is selected are the members of the set, each once if the sequence has
\* each once.
LEMMA SelectedSpec ==
  ASSUME NEW X, NEW s \in Seq(X), NEW T
  PROVE  /\ Selected(s, T) \in Seq(X)
         /\ ToSet(Selected(s, T)) = ToSet(s) \cap T
         /\ IsInjective(s) => IsInjective(Selected(s, T))
<1> DEFINE L == Len(s)
           So(n) == {s[i] : i \in 1..n}
<1>0. L \in Nat /\ DOMAIN s = 1..L /\ \A i \in 1..L : s[i] \in X
  OBVIOUS
<1>a. PICK f : Selected(s, T) = f[L] /\ Selects(f, s, T)
  BY <1>0, SelectedIs
<1>1. /\ Selected(s, T) = f[L]
      /\ f[0] = <<>>
      /\ \A n \in 1..L : f[n] = IF s[n] \in T THEN Append(f[n - 1], s[n]) ELSE f[n - 1]
  BY <1>a DEF Selects
<1> DEFINE Good == {n \in 0..L : /\ f[n] \in Seq(X)
                                 /\ ToSet(f[n]) = So(n) \cap T
                                 /\ IsInjective(s) => IsInjective(f[n])}
<1>2. 0 \in Good
  <2>1. f[0] \in Seq(X) /\ DOMAIN f[0] = {}
    BY <1>1
  <2>2. ToSet(f[0]) = {} /\ So(0) = {} /\ IsInjective(f[0])
    BY <2>1 DEF ToSet, IsInjective
  <2> QED  BY <1>0, <2>1, <2>2
<1>3. \A n \in 0..(L - 1) : n \in Good => n + 1 \in Good
  <2> SUFFICES ASSUME NEW n \in 0..(L - 1), n \in Good PROVE n + 1 \in Good
    OBVIOUS
  <2>1. /\ n + 1 \in 1..L /\ n \in 0..L /\ (n + 1) - 1 = n /\ s[n + 1] \in X
        /\ 1..(n + 1) = 1..n \cup {n + 1}
    BY <1>0
  <2>2. f[n] \in Seq(X) /\ ToSet(f[n]) = So(n) \cap T /\ (IsInjective(s) => IsInjective(f[n]))
    OBVIOUS
  <2>3. So(n + 1) = So(n) \cup {s[n + 1]}
    BY <2>1
  <2>4. f[n + 1] = IF s[n + 1] \in T THEN Append(f[n], s[n + 1]) ELSE f[n]
    BY <1>1, <2>1
  <2>5. CASE s[n + 1] \notin T
    <3>1. f[n + 1] = f[n] /\ ToSet(f[n]) = So(n + 1) \cap T
      BY <2>2, <2>3, <2>4, <2>5
    <3> HIDE DEF So
    <3> QED  BY <1>0, <2>1, <2>2, <3>1
  <2>6. CASE s[n + 1] \in T
    <3>1. f[n + 1] = Append(f[n], s[n + 1])
      BY <2>4, <2>6
    <3>2. f[n + 1] \in Seq(X) /\ ToSet(f[n + 1]) = ToSet(f[n]) \cup {s[n + 1]}
      BY <2>1, <2>2, <3>1, AppendFresh
    <3>3. ToSet(f[n + 1]) = So(n + 1) \cap T
      BY <2>2, <2>3, <2>6, <3>2
    <3>4. IsInjective(s) => IsInjective(f[n + 1])
      <4> SUFFICES ASSUME IsInjective(s) PROVE IsInjective(f[n + 1])
        OBVIOUS
      <4>1. \A i \in 1..n : s[i] # s[n + 1]
        BY <1>0, <2>1 DEF IsInjective
      <4>2. s[n + 1] \notin ToSet(f[n])
        BY <2>2, <4>1
      <4> QED  BY <2>1, <2>2, <3>1, <4>2, AppendFresh
    <3> HIDE DEF So
    <3> QED  BY <1>0, <2>1, <3>2, <3>3, <3>4
  <2> QED
    BY <2>5, <2>6
<1>4. L \in Good
  <2> HIDE DEF Good
  <2>1. \A n \in 0..L : n \in Good
    BY <1>0, <1>2, <1>3, CountingUp
  <2> QED  BY <1>0, <2>1
<1>5. ToSet(s) = So(L)
  BY <1>0 DEF ToSet
<1> QED
  BY <1>1, <1>4, <1>5

-----------------------------------------------------------------------------
(* Aggregates *)

\* The candidates a bucket is about.
OfExt(C, e) == {p \in C : e \in {AnyExt, p.ext}}

Least(S, m) == {p \in S : \A q \in S : m[p] <= m[q]}

Aggregates == [min_depth : Nat, count : Nat, sample : FilePaths \cup {None}]

\* An aggregate is that of a set of candidates under a measure.
IsAgg(a, S, m) ==
  /\ a \in Aggregates
  /\ S = {} => a = EMPTY
  /\ S # {} => /\ a.count = Cardinality(Least(S, m))
               /\ \A p \in S : a.min_depth <= m[p]
               /\ \E p \in S : a.min_depth = m[p]
               /\ a.sample \in Least(S, m)

Knows(agg, C, m) == \A e \in Buckets : IsAgg(agg[e], OfExt(C, e), m)

LEMMA LeastIs ==
  ASSUME NEW S, NEW m, NEW d \in Nat, \A p \in S : m[p] \in Nat /\ d <= m[p],
         \E p \in S : d = m[p]
  PROVE  Least(S, m) = {p \in S : m[p] = d}
<1>1. \A p \in S : (\A q \in S : m[p] <= m[q]) <=> m[p] = d
  OBVIOUS
<1> QED
  BY <1>1 DEF Least

LEMMA NearerTells ==
  ASSUME NEW S, NEW U, IsFiniteSet(S), IsFiniteSet(U), S \cap U = {}, NEW m,
         MaxDepth \in Nat,
         \A p \in S \cup U : p \in FilePaths /\ m[p] \in Nat /\ m[p] <= MaxDepth,
         NEW a, IsAgg(a, S, m), NEW b, IsAgg(b, U, m)
  PROVE  IsAgg(Nearer(a, b), S \cup U, m)
<1>1. /\ a \in Aggregates /\ b \in Aggregates
      /\ a.min_depth \in Nat /\ b.min_depth \in Nat /\ a.count \in Nat /\ b.count \in Nat
  BY DEF IsAgg, Aggregates
<1>2. EMPTY \in Aggregates /\ EMPTY.min_depth = MaxDepth /\ EMPTY.count = 0 /\ EMPTY.sample = None
  BY DEF EMPTY, Aggregates
<1>3. a.min_depth <= MaxDepth /\ b.min_depth <= MaxDepth
  BY <1>1, <1>2 DEF IsAgg
<1> DEFINE Both == [min_depth |-> a.min_depth, count |-> a.count + b.count,
                    sample |-> IF a.sample = None THEN b.sample ELSE a.sample]
<1>4. /\ a.min_depth < b.min_depth => Nearer(a, b) = a
      /\ b.min_depth < a.min_depth => Nearer(a, b) = b
      /\ a.min_depth = b.min_depth => Nearer(a, b) = Both
  <2>1. a.min_depth < b.min_depth => Nearer(a, b) = a
    BY <1>1 DEF Nearer
  <2>2. b.min_depth < a.min_depth => Nearer(a, b) = b
    BY <1>1 DEF Nearer
  <2>3. a.min_depth = b.min_depth =>
          Nearer(a, b) = [a EXCEPT !.count = a.count + b.count,
                                   !.sample = IF a.sample = None THEN b.sample ELSE a.sample]
    BY <1>1 DEF Nearer
  <2>4. [a EXCEPT !.count = a.count + b.count,
                  !.sample = IF a.sample = None THEN b.sample ELSE a.sample] = Both
    <3> DEFINE sample == IF a.sample = None THEN b.sample ELSE a.sample
               count == a.count + b.count
    <3>1. a = [min_depth |-> a.min_depth, count |-> a.count, sample |-> a.sample]
      BY <1>1 DEF Aggregates
    <3> HIDE DEF sample, count
    <3>2. [a EXCEPT !.count = count, !.sample = sample]
            = [min_depth |-> a.min_depth, count |-> count, sample |-> sample]
      <4>1. DOMAIN a = {"min_depth", "count", "sample"}
        BY <1>1 DEF Aggregates
      <4> DEFINE x == [a EXCEPT !.count = count, !.sample = sample]
                 y == [min_depth |-> a.min_depth, count |-> count, sample |-> sample]
      <4>2. x = [f \in DOMAIN a |-> IF f = "sample" THEN sample
                                   ELSE IF f = "count" THEN count ELSE a[f]]
        BY <4>1
      <4>3. y = [f \in DOMAIN a |-> IF f = "sample" THEN sample
                                   ELSE IF f = "count" THEN count ELSE a[f]]
        BY <4>1
      <4> HIDE DEF x, y
      <4>4. x = y
        BY <4>2, <4>3
      <4> QED  BY <4>4 DEF x, y
    <3> QED  BY <3>2 DEF sample, count
  <2> QED  BY <2>1, <2>2, <2>3, <2>4
<1>5. CASE S = {}
  <2>1. a = EMPTY /\ S \cup U = U
    BY <1>5 DEF IsAgg
  <2>2. Nearer(a, b) = b
    <3>1. CASE b.min_depth < MaxDepth
      BY <1>2, <1>4, <2>1, <3>1
    <3>2. CASE b.min_depth = MaxDepth
      <4>1. Nearer(a, b) = Both
        BY <1>2, <1>4, <2>1, <3>2
      <4>2. Both = [min_depth |-> b.min_depth, count |-> b.count, sample |-> b.sample]
        BY <1>1, <1>2, <2>1, <3>2
      <4>3. b = [min_depth |-> b.min_depth, count |-> b.count, sample |-> b.sample]
        BY <1>1 DEF Aggregates
      <4> QED  BY <4>1, <4>2, <4>3
    <3> QED  BY <1>1, <1>3, <3>1, <3>2
  <2> QED  BY <2>1, <2>2
<1>6. CASE U = {}
  <2>1. b = EMPTY /\ S \cup U = S
    BY <1>6 DEF IsAgg
  <2>2. Nearer(a, b) = a
    <3>1. CASE a.min_depth < MaxDepth
      BY <1>2, <1>4, <2>1, <3>1
    <3>2. CASE a.min_depth = MaxDepth
      <4>1. Nearer(a, b) = Both
        BY <1>2, <1>4, <2>1, <3>2
      <4>2. Both = [min_depth |-> a.min_depth, count |-> a.count, sample |-> a.sample]
        BY <1>1, <1>2, <2>1
      <4>3. a = [min_depth |-> a.min_depth, count |-> a.count, sample |-> a.sample]
        BY <1>1 DEF Aggregates
      <4> QED  BY <4>1, <4>2, <4>3
    <3> QED  BY <1>1, <1>3, <3>1, <3>2
  <2> QED  BY <2>1, <2>2
<1>7. CASE S # {} /\ U # {}
  <2>1. /\ a.count = Cardinality(Least(S, m)) /\ a.sample \in Least(S, m)
        /\ \A p \in S : a.min_depth <= m[p]
        /\ \E p \in S : a.min_depth = m[p]
    BY <1>7 DEF IsAgg
  <2>2. /\ b.count = Cardinality(Least(U, m)) /\ b.sample \in Least(U, m)
        /\ \A p \in U : b.min_depth <= m[p]
        /\ \E p \in U : b.min_depth = m[p]
    BY <1>7 DEF IsAgg
  <2>3. /\ Least(S, m) = {p \in S : m[p] = a.min_depth}
        /\ Least(U, m) = {p \in U : m[p] = b.min_depth}
    BY <1>1, <2>1, <2>2, LeastIs
  <2> DEFINE W == S \cup U
  <2>4. W # {} /\ \A p \in W : m[p] \in Nat
    BY <1>7
  <2>5. CASE a.min_depth < b.min_depth
    <3>1. (\A p \in W : a.min_depth <= m[p]) /\ \E p \in W : a.min_depth = m[p]
      BY <1>1, <2>1, <2>2, <2>4, <2>5
    <3>2. Least(W, m) = {p \in W : m[p] = a.min_depth}
      <4> HIDE DEF W
      <4> QED  BY <1>1, <2>4, <3>1, LeastIs
    <3>3. Least(W, m) = Least(S, m)
      BY SMTT(90), <1>1, <2>2, <2>3, <2>4, <2>5, <3>2
    <3> QED  BY <1>1, <1>4, <2>1, <2>4, <2>5, <3>1, <3>3 DEF IsAgg
  <2>6. CASE b.min_depth < a.min_depth
    <3>1. (\A p \in W : b.min_depth <= m[p]) /\ \E p \in W : b.min_depth = m[p]
      BY <1>1, <2>1, <2>2, <2>4, <2>6
    <3>2. Least(W, m) = {p \in W : m[p] = b.min_depth}
      <4> HIDE DEF W
      <4> QED  BY <1>1, <2>4, <3>1, LeastIs
    <3>3. Least(W, m) = Least(U, m)
      BY SMTT(90), <1>1, <2>1, <2>3, <2>4, <2>6, <3>2
    <3> QED  BY <1>1, <1>4, <2>2, <2>4, <2>6, <3>1, <3>3 DEF IsAgg
  <2>7. CASE a.min_depth = b.min_depth
    <3>1. (\A p \in W : a.min_depth <= m[p]) /\ \E p \in W : a.min_depth = m[p]
      BY <1>1, <2>1, <2>2, <2>4, <2>7
    <3>2. Least(W, m) = {p \in W : m[p] = a.min_depth}
      <4> HIDE DEF W
      <4> QED  BY <1>1, <2>4, <3>1, LeastIs
    <3>3. Least(W, m) = Least(S, m) \cup Least(U, m) /\ Least(S, m) \cap Least(U, m) = {}
      BY <2>3, <2>7, <3>2
    <3>4. IsFiniteSet(Least(S, m)) /\ IsFiniteSet(Least(U, m))
      BY FS_Subset DEF Least
    <3>5. Cardinality(Least(W, m)) = a.count + b.count
      <4>1. /\ Cardinality(Least(S, m) \cup Least(U, m))
                 = Cardinality(Least(S, m)) + Cardinality(Least(U, m))
                   - Cardinality(Least(S, m) \cap Least(U, m))
        BY <3>4, FS_Union
      <4>2. Cardinality(Least(S, m) \cap Least(U, m)) = 0
        BY <3>3, FS_EmptySet
      <4>3. Cardinality(Least(W, m)) = a.count + b.count - 0
        BY <2>1, <2>2, <3>3, <4>1, <4>2
      <4> HIDE DEF W
      <4> QED  BY <1>1, <4>3
    <3>6. Both \in Aggregates
      BY <1>1 DEF Aggregates
    <3>7. Both.sample \in Least(W, m)
      BY <2>1, <2>2, <3>3
    <3> QED  BY <1>4, <2>4, <2>7, <3>1, <3>5, <3>6, <3>7 DEF IsAgg
  <2> QED
    BY <1>1, <2>5, <2>6, <2>7
<1> QED
  BY <1>5, <1>6, <1>7

\* A measure of candidates that usize can hold.
Measures(m, X) ==
  /\ IsFiniteSet(X)
  /\ MaxDepth \in Nat
  /\ \A p \in X : p \in FilePaths /\ m[p] \in Nat /\ m[p] <= MaxDepth

LEMMA MergedKnows ==
  ASSUME NEW X, NEW m, Measures(m, X), NEW C, C \subseteq X, NEW D, D \subseteq X,
         C \cap D = {}, NEW a, Knows(a, C, m), NEW b, Knows(b, D, m)
  PROVE  Knows(Merged(a, b), C \cup D, m)
<1> SUFFICES ASSUME NEW e \in Buckets PROVE IsAgg(Merged(a, b)[e], OfExt(C \cup D, e), m)
  BY DEF Knows
<1>1. Merged(a, b)[e] = Nearer(a[e], b[e])
  BY DEF Merged
<1> DEFINE S == OfExt(C, e)
           U == OfExt(D, e)
           V == S \cup U
<1>2. S \subseteq C /\ U \subseteq D /\ OfExt(C \cup D, e) = S \cup U /\ S \cap U = {}
  BY DEF OfExt
<1>3. IsAgg(a[e], S, m) /\ IsAgg(b[e], U, m)
  BY DEF Knows
<1> HIDE DEF S, U
<1>4. S \subseteq X /\ U \subseteq X
  BY <1>2
<1>5. IsFiniteSet(S) /\ IsFiniteSet(U)
  BY <1>4, FS_Subset DEF Measures
<1>6. MaxDepth \in Nat /\ \A p \in S \cup U : p \in FilePaths /\ m[p] \in Nat /\ m[p] <= MaxDepth
  BY <1>4 DEF Measures
<1>7. IsAgg(Nearer(a[e], b[e]), V, m)
  BY <1>2, <1>3, <1>5, <1>6, NearerTells
<1>8. OfExt(C \cup D, e) = V
  BY <1>2
<1> HIDE DEF V
<1> QED
  BY <1>1, <1>7, <1>8

LEMMA NoneKnown == ASSUME MaxDepth \in Nat, NEW m PROVE Knows(NoCandidates, {}, m)
BY DEF Knows, NoCandidates, OfExt, IsAgg, EMPTY, Aggregates

\* The sets of a family, together.
Together(P, I) == UNION {P[i] : i \in I}

\* A family of sets of candidates in X no two of which have one in common.
Apart(P, n, X) ==
  /\ \A i \in 1..n : P[i] \subseteq X
  /\ \A i, j \in 1..n : i # j => P[i] \cap P[j] = {}

LEMMA MergedFromKnows ==
  ASSUME NEW X, NEW m, Measures(m, X), NEW C, C \subseteq X, NEW start, Knows(start, C, m),
         NEW aggs, Len(aggs) \in Nat, NEW P, Apart(P, Len(aggs), X),
         \A i \in 1..Len(aggs) : P[i] \cap C = {} /\ Knows(aggs[i], P[i], m)
  PROVE  Knows(MergedFrom(start, aggs), C \cup Together(P, 1..Len(aggs)), m)
<1> DEFINE L == Len(aggs)
<1>1. PICK f : MergedFrom(start, aggs) = f[L] /\ Merges(f, start, aggs)
  BY MergedFromIs
<1> DEFINE W(n) == C \cup Together(P, 1..n)
           Good == {n \in 0..L : Knows(f[n], W(n), m)}
<1>2. 0 \in Good
  <2>1. W(0) = C
    BY DEF Together
  <2>2. f[0] = start
    BY <1>1 DEF Merges
  <2> HIDE DEF W
  <2> QED  BY <2>1, <2>2
<1>3. \A n \in 0..(L - 1) : n \in Good => n + 1 \in Good
  <2> SUFFICES ASSUME NEW n \in 0..(L - 1), n \in Good PROVE n + 1 \in Good
    OBVIOUS
  <2>1. n + 1 \in 1..L /\ n \in 0..L /\ (n + 1) - 1 = n /\ 1..(n + 1) = 1..n \cup {n + 1} /\ n + 1 \notin 1..n
    OBVIOUS
  <2>2. f[n + 1] = Merged(f[n], aggs[n + 1])
    BY <1>1, <2>1 DEF Merges
  <2> DEFINE D == W(n)
             E == P[n + 1]
             V == D \cup E
  <2>3. V = W(n + 1)
    BY <2>1 DEF Together
  <2>4. 1..n \subseteq 1..L
    BY <2>1
  <2>5. D \subseteq X /\ E \subseteq X
    BY <2>1, <2>4 DEF Together, Apart
  <2>6. D \cap E = {}
    <3> SUFFICES ASSUME NEW x \in Together(P, 1..n) PROVE x \notin E
      BY <2>1
    <3>1. PICK i \in 1..n : x \in P[i]
      BY DEF Together
    <3>2. i \in 1..L /\ i # n + 1
      BY <2>1, <2>4
    <3> QED  BY <2>1, <3>1, <3>2 DEF Apart
  <2>7. Knows(f[n], D, m) /\ Knows(aggs[n + 1], E, m)
    BY <2>1
  <2>8. Knows(Merged(f[n], aggs[n + 1]), V, m)
    <3> HIDE DEF D, E
    <3> QED  BY <2>5, <2>6, <2>7, MergedKnows
  <2> HIDE DEF W, D, E, V
  <2> QED
    BY <2>1, <2>2, <2>3, <2>8
<1>4. L \in Good
  <2> HIDE DEF Good
  <2>1. \A n \in 0..L : n \in Good
    BY <1>2, <1>3, CountingUp
  <2> QED  BY <2>1
<1> QED
  BY <1>1, <1>4

LEMMA MergedAllKnows ==
  ASSUME NEW X, NEW m, Measures(m, X), NEW aggs, Len(aggs) \in Nat, NEW P,
         Apart(P, Len(aggs), X), \A i \in 1..Len(aggs) : Knows(aggs[i], P[i], m)
  PROVE  Knows(MergedAll(aggs), Together(P, 1..Len(aggs)), m)
<1>1. Knows(NoCandidates, {}, m)
  BY NoneKnown DEF Measures
<1>2. Knows(MergedFrom(NoCandidates, aggs), {} \cup Together(P, 1..Len(aggs)), m)
  BY <1>1, MergedFromKnows
<1>3. {} \cup Together(P, 1..Len(aggs)) = Together(P, 1..Len(aggs))
  OBVIOUS
<1> QED
  BY <1>2, <1>3 DEF MergedAll

LEMMA FromLocalKnows ==
  ASSUME NEW p \in FilePaths, MaxDepth \in Nat, NEW m, m[p] = Len(p.folder)
  PROVE  Knows(FromLocal(p), {p}, m)
<1> SUFFICES ASSUME NEW e \in Buckets PROVE IsAgg(FromLocal(p)[e], OfExt({p}, e), m)
  BY DEF Knows
<1>0. Len(p.folder) \in Nat
  BY DEF FilePaths, Folders
<1>1. CASE e \in {AnyExt, p.ext}
  <2>1. FromLocal(p)[e] = Candidate(Len(p.folder), p)
    BY <1>1 DEF FromLocal
  <2>2. OfExt({p}, e) = {p}
    BY <1>1 DEF OfExt
  <2>3. Least({p}, m) = {p}
    BY <1>0 DEF Least
  <2>4. Cardinality(Least({p}, m)) = 1
    BY <2>3, FS_Singleton
  <2>5. Candidate(Len(p.folder), p) \in Aggregates
    BY <1>0 DEF Candidate, Aggregates
  <2>6. /\ Candidate(Len(p.folder), p).min_depth = Len(p.folder)
        /\ Candidate(Len(p.folder), p).count = 1
        /\ Candidate(Len(p.folder), p).sample = p
    BY DEF Candidate
  <2>7. IsAgg(Candidate(Len(p.folder), p), {p}, m)
    <3> DEFINE c == Candidate(Len(p.folder), p)
    <3>1. c.count = Cardinality(Least({p}, m)) /\ c.sample \in Least({p}, m)
      BY <2>3, <2>4, <2>6
    <3>2. \A q \in {p} : c.min_depth <= m[q] /\ c.min_depth = m[q]
      BY <1>0, <2>6
    <3> HIDE DEF c
    <3> QED  BY <2>5, <3>1, <3>2 DEF IsAgg, c
  <2> QED
    BY <2>1, <2>2, <2>7
<1>2. CASE e \notin {AnyExt, p.ext}
  <2>1. FromLocal(p)[e] = EMPTY
    BY <1>2 DEF FromLocal
  <2>2. OfExt({p}, e) = {}
    BY <1>2 DEF OfExt
  <2>3. EMPTY \in Aggregates
    BY DEF EMPTY, Aggregates
  <2>4. IsAgg(EMPTY, {}, m)
    BY <2>3 DEF IsAgg
  <2> QED
    BY <2>1, <2>2, <2>4
<1> QED
  BY <1>1, <1>2

\* The aggregate of a folder's own candidates.
LEMMA LocalsKnow ==
  ASSUME NEW X, NEW m, Measures(m, X), NEW r \in Seq(X), IsInjective(r),
         \A p \in X : m[p] = Len(p.folder)
  PROVE  Knows(MergedAll([i \in DOMAIN r |-> FromLocal(r[i])]), ToSet(r), m)
<1> DEFINE aggs == [i \in DOMAIN r |-> FromLocal(r[i])]
           P == [i \in DOMAIN r |-> {r[i]}]
<1>0. DOMAIN r = 1..Len(r) /\ Len(r) \in Nat /\ \A i \in 1..Len(r) : r[i] \in X
  OBVIOUS
<1>1. Len(aggs) = Len(r)
  BY <1>0
<1>2. Apart(P, Len(r), X)
  BY <1>0 DEF Apart, IsInjective
<1>3. \A i \in 1..Len(r) : Knows(aggs[i], P[i], m)
  <2> TAKE i \in 1..Len(r)
  <2>1. r[i] \in X /\ r[i] \in FilePaths /\ MaxDepth \in Nat /\ aggs[i] = FromLocal(r[i]) /\ P[i] = {r[i]}
    BY <1>0 DEF Measures
  <2> QED  BY <2>1, FromLocalKnows
<1>4. Together(P, 1..Len(r)) = ToSet(r)
  BY <1>0 DEF Together, ToSet
<1> HIDE DEF aggs, P
<1>5. Knows(MergedAll(aggs), Together(P, 1..Len(aggs)), m)
  BY <1>0, <1>1, <1>2, <1>3, MergedAllKnows
<1> QED
  BY <1>1, <1>4, <1>5 DEF aggs

\* excluding_per_child has everything but the one child's.
LEMMA ExcludingKnows ==
  ASSUME NEW X, NEW m, Measures(m, X), NEW C, C \subseteq X, NEW local, Knows(local, C, m),
         NEW Y, NEW aggs \in Seq(Y), NEW P, Apart(P, Len(aggs), X),
         \A j \in 1..Len(aggs) : P[j] \cap C = {} /\ Knows(aggs[j], P[j], m),
         NEW i \in 1..Len(aggs)
  PROVE  Knows(Excluding(local, aggs, i), C \cup Together(P, (1..Len(aggs)) \ {i}), m)
<1> DEFINE L == Len(aggs)
           before == SubSeq(aggs, 1, i - 1)
           after == SubSeq(aggs, i + 1, L)
           Q == [j \in 1..(L - i) |-> P[i + j]]
<1>0. L \in Nat /\ i \in Nat /\ i <= L /\ L - i \in Nat /\ i - 1 \in Nat
  OBVIOUS
<1>1. Len(before) = i - 1 /\ \A j \in 1..(i - 1) : before[j] = aggs[j] /\ j \in 1..L
  BY <1>0
<1>2. Len(after) = L - i /\ \A j \in 1..(L - i) : after[j] = aggs[i + j] /\ i + j \in 1..L
  BY <1>0
<1>3. Apart(P, i - 1, X)
  BY <1>1 DEF Apart
<1>4. Apart(Q, L - i, X)
  <2>1. \A j \in 1..(L - i) : Q[j] = P[i + j] /\ i + j \in 1..L
    BY <1>2
  <2>2. \A j, k \in 1..(L - i) : j # k => i + j # i + k
    BY <1>0
  <2> HIDE DEF Q
  <2> QED  BY <2>1, <2>2 DEF Apart
<1>5. \A j \in 1..(L - i) : Knows(after[j], Q[j], m)
  BY <1>2
<1>6. \A j \in 1..(i - 1) : Knows(before[j], P[j], m)
  BY <1>1
<1> DEFINE B == Together(P, 1..(i - 1))
           A == Together(Q, 1..(L - i))
<1>7. /\ B \subseteq X /\ A \subseteq X /\ B \cap A = {} /\ A \cap C = {} /\ B \cap C = {}
      /\ (B \cup A) \cup C = C \cup Together(P, (1..L) \ {i})
  <2>1. \A x : x \in A <=> \E j \in 1..L : j > i /\ x \in P[j]
    <3>1. ASSUME NEW x \in A PROVE \E j \in 1..L : j > i /\ x \in P[j]
      <4>1. PICK j \in 1..(L - i) : x \in Q[j]
        BY DEF Together
      <4>2. x \in P[i + j] /\ i + j \in 1..L /\ i + j > i
        BY <1>0, <4>1
      <4> QED  BY <4>2
    <3>2. ASSUME NEW j \in 1..L, j > i, NEW x \in P[j] PROVE x \in A
      <4>1. j - i \in 1..(L - i) /\ i + (j - i) = j
        BY <1>0, <3>2
      <4>2. Q[j - i] = P[j]
        BY <4>1
      <4> QED  BY <4>1, <4>2 DEF Together
    <3> QED  BY <3>1, <3>2
  <2>2. \A x : x \in B <=> \E j \in 1..L : j < i /\ x \in P[j]
    <3>1. \A j : j \in 1..(i - 1) <=> j \in 1..L /\ j < i
      BY <1>0
    <3> QED  BY <3>1 DEF Together
  <2> HIDE DEF A, B
  <2>3. B \subseteq X /\ A \subseteq X /\ A \cap C = {} /\ B \cap C = {}
    BY <2>1, <2>2 DEF Apart
  <2>4. B \cap A = {}
    <3>1. \A j, k \in 1..L : j < i /\ k > i => j # k
      BY <1>0
    <3> QED  BY <2>1, <2>2, <3>1 DEF Apart
  <2>5. \A j \in 1..L : j # i <=> j < i \/ j > i
    BY <1>0
  <2>6. \A x : x \in B \cup A <=> x \in Together(P, (1..L) \ {i})
    BY <2>1, <2>2, <2>5 DEF Together
  <2> QED  BY <2>3, <2>4, <2>6
<1> HIDE DEF before, after, Q
<1>8. Knows(MergedAll(before), B, m)
  <2>1. Len(before) \in Nat /\ Apart(P, Len(before), X)
    BY <1>0, <1>1, <1>3
  <2>2. \A j \in 1..Len(before) : Knows(before[j], P[j], m)
    BY <1>1, <1>6
  <2> QED  BY <1>1, <2>1, <2>2, MergedAllKnows
<1>9. Knows(MergedAll(after), A, m)
  <2>1. Len(after) \in Nat /\ Apart(Q, Len(after), X)
    BY <1>0, <1>2, <1>4
  <2>2. \A j \in 1..Len(after) : Knows(after[j], Q[j], m)
    BY <1>2, <1>5
  <2> QED  BY <1>2, <2>1, <2>2, MergedAllKnows
<1> HIDE DEF A, B
<1>10. Knows(Merged(MergedAll(before), MergedAll(after)), B \cup A, m)
  BY <1>7, <1>8, <1>9, MergedKnows
<1>11. Knows(Merged(Merged(MergedAll(before), MergedAll(after)), local), (B \cup A) \cup C, m)
  <2>1. B \cup A \subseteq X /\ (B \cup A) \cap C = {}
    BY <1>7
  <2> QED  BY <1>10, <2>1, MergedKnows
<1> QED
  BY <1>7, <1>11 DEF Excluding, before, after

-----------------------------------------------------------------------------
(* The trie *)

LEMMA StartsOf ==
  ASSUME NEW a \in Folders, NEW n \in 0..Len(a)
  PROVE  /\ SubSeq(a, 1, n) \in Folders
         /\ Len(SubSeq(a, 1, n)) = n
         /\ \A k \in 0..n : SubSeq(SubSeq(a, 1, n), 1, k) = SubSeq(a, 1, k)
         /\ SubSeq(a, 1, Len(a)) = a
         /\ n # 0 => Front(SubSeq(a, 1, n)) = SubSeq(a, 1, n - 1)
         /\ n = 0 => SubSeq(a, 1, n) = <<>>
<1>0. a \in Seq(Names) /\ Len(a) \in Nat /\ n \in Nat /\ n <= Len(a)
  <2>1. a \in Seq(Names) /\ Len(a) \in Nat
    BY DEF Folders
  <2> QED  BY <2>1
<1> DEFINE b == SubSeq(a, 1, n)
<1>1. b \in Folders /\ Len(b) = n /\ \A i \in 1..n : b[i] = a[i]
  BY <1>0 DEF Folders
<1>2. \A k \in 0..n : SubSeq(b, 1, k) = SubSeq(a, 1, k)
  <2> TAKE k \in 0..n
  <2> HIDE DEF b
  <2>1. k \in Nat /\ k <= Len(b) /\ k <= Len(a) /\ 1..k \subseteq 1..n
    BY <1>0, <1>1
  <2> QED  BY <1>1, <2>1, SameStart
<1>3. SubSeq(a, 1, Len(a)) = a
  BY <1>0
<1>4. n # 0 => Front(b) = SubSeq(a, 1, n - 1)
  <2> HIDE DEF b
  <2> QED  BY <1>0, <1>1, <1>2 DEF Front
<1>5. n = 0 => b = <<>>
  BY <1>0
<1> QED
  BY <1>1, <1>2, <1>3, <1>4, <1>5

LEMMA BelowIs ==
  ASSUME NEW n \in Folders, NEW S
  PROVE  Below(n, S) = {p \in S : Len(n) <= Len(p.folder) /\ SubSeq(p.folder, 1, Len(n)) = n}
<1>1. SubSeq(n, 1, Len(n)) = n
  BY DEF Folders
<1> QED
  BY <1>1 DEF Below, IsPrefix

\* The shape of the arena: all folders from the root down to each of its own, and
\* none before its parent.
Tree(nodes) ==
  /\ nodes \in Seq(Folders)
  /\ IsInjective(nodes)
  /\ <<>> \in ToSet(nodes)
  /\ \A f \in ToSet(nodes) : \A n \in 0..Len(f) : SubSeq(f, 1, n) \in ToSet(nodes)
  /\ \A i, j \in DOMAIN nodes : nodes[i] # <<>> /\ Front(nodes[i]) = nodes[j] => j < i

LEMMA TreeGrows ==
  ASSUME NEW nodes, Tree(nodes), NEW g \in Folders, g # <<>>, g \notin ToSet(nodes),
         Front(g) \in ToSet(nodes)
  PROVE  Tree(Append(nodes, g))
<1> DEFINE r == Append(nodes, g)
           L == Len(nodes)
<1>0. nodes \in Seq(Folders) /\ L \in Nat /\ DOMAIN nodes = 1..L
  BY DEF Tree
<1>1. /\ r \in Seq(Folders) /\ Len(r) = L + 1 /\ DOMAIN r = 1..(L + 1)
      /\ \A i \in 1..L : r[i] = nodes[i]
      /\ r[L + 1] = g
      /\ ToSet(r) = ToSet(nodes) \cup {g}
      /\ IsInjective(r)
  BY <1>0, AppendFresh DEF Tree
<1>2. Len(g) \in Nat /\ Len(g) # 0 /\ Front(g) \in Folders /\ Len(Front(g)) = Len(g) - 1
  <2>1. Len(g) \in Nat /\ Len(g) # 0
    BY DEF Folders
  <2>2. Len(g) - 1 \in 0..Len(g)
    BY <2>1
  <2> QED  BY <2>1, <2>2, StartsOf DEF Front
<1> HIDE DEF r, L
<1>3. ASSUME NEW f \in ToSet(r), NEW n \in 0..Len(f) PROVE SubSeq(f, 1, n) \in ToSet(r)
  <2>1. CASE f \in ToSet(nodes)
    BY <1>1, <2>1 DEF Tree
  <2>2. CASE f = g /\ n = Len(g)
    <3>1. SubSeq(g, 1, n) = g
      BY <2>2, StartsOf
    <3> QED  BY <1>1, <2>2, <3>1
  <2>3. CASE f = g /\ n # Len(g)
    <3>1. n \in 0..(Len(g) - 1) /\ Len(g) - 1 \in 0..Len(g)
      BY <1>2, <2>3
    <3>2. SubSeq(g, 1, n) = SubSeq(Front(g), 1, n)
      BY <3>1, StartsOf DEF Front
    <3>3. SubSeq(Front(g), 1, n) \in ToSet(nodes)
      BY <1>2, <3>1 DEF Tree
    <3> QED  BY <1>1, <2>3, <3>2, <3>3
  <2> QED
    BY <1>1, <2>1, <2>2, <2>3
<1>4. ASSUME NEW i \in DOMAIN r, NEW j \in DOMAIN r, r[i] # <<>>, Front(r[i]) = r[j]
      PROVE  j < i
  <2>1. i \in 1..L \/ i = L + 1
    BY <1>0, <1>1
  <2>2. j \in 1..L \/ j = L + 1
    BY <1>0, <1>1
  <2>3. CASE i \in 1..L /\ j \in 1..L
    BY <1>0, <1>1, <1>4, <2>3 DEF Tree
  <2>4. CASE i \in 1..L /\ j = L + 1
    <3>1. nodes[i] \in ToSet(nodes) /\ nodes[i] \in Folders /\ nodes[i] # <<>> /\ Front(nodes[i]) = g
      BY <1>0, <1>1, <1>4, <2>4 DEF ToSet
    <3>2. Len(nodes[i]) - 1 \in 0..Len(nodes[i])
      BY <3>1 DEF Folders
    <3>3. Front(nodes[i]) \in ToSet(nodes)
      BY <3>1, <3>2 DEF Tree, Front
    <3> QED  BY <3>1, <3>3
  <2>5. CASE i = L + 1 /\ j = L + 1
    <3>1. Front(g) = g
      BY <1>1, <1>4, <2>5
    <3> QED  BY <1>2, <3>1
  <2>6. CASE i = L + 1 /\ j \in 1..L
    BY <1>0, <2>6
  <2> QED
    BY <2>1, <2>2, <2>3, <2>4, <2>5, <2>6
<1>5. <<>> \in ToSet(r)
  BY <1>1 DEF Tree
<1>6. Tree(r)
  BY <1>1, <1>3, <1>4, <1>5 DEF Tree
<1> QED
  BY <1>6 DEF r

\* ensure_folder_node puts a folder into the arena and keeps its shape.
LEMMA WithFolderSpec ==
  ASSUME NEW nodes, Tree(nodes), NEW folder \in Folders
  PROVE  /\ Tree(WithFolder(nodes, folder))
         /\ ToSet(nodes) \subseteq ToSet(WithFolder(nodes, folder))
         /\ folder \in ToSet(WithFolder(nodes, folder))
<1> DEFINE L == Len(folder)
           To(n) == SubSeq(folder, 1, n)
<1>0. L \in Nat /\ \A n \in 0..L : To(n) \in Folders /\ Len(To(n)) = n
  BY StartsOf DEF Folders
<1>1. PICK f : WithFolder(nodes, folder) = f[L] /\ Ensures(f, nodes, folder)
  BY <1>0, WithFolderIs
<1>2. \A x : Contains(nodes, x) <=> x \in ToSet(nodes)
  <2>1. DOMAIN nodes = 1..Len(nodes)
    BY DEF Tree
  <2> QED  BY <2>1 DEF Contains, ToSet
<1>3. /\ f[0] = nodes
      /\ \A n \in 1..L : f[n] = IF To(n) \in ToSet(nodes) THEN nodes ELSE Append(f[n - 1], To(n))
  BY <1>1, <1>2 DEF Ensures
<1> DEFINE Ok(n) == /\ Tree(f[n])
                    /\ ToSet(nodes) \subseteq ToSet(f[n])
                    /\ To(n) \in ToSet(f[n])
                    /\ ToSet(f[n]) \subseteq ToSet(nodes) \cup {To(k) : k \in 0..n}
           Good == {n \in 0..L : Ok(n)}
<1>4. 0 \in Good
  <2>1. To(0) = <<>>
    BY <1>0, StartsOf
  <2> HIDE DEF To
  <2> QED  BY <1>0, <1>3, <2>1 DEF Tree
<1>5. \A n \in 0..(L - 1) : n \in Good => n + 1 \in Good
  <2> SUFFICES ASSUME NEW n \in 0..(L - 1), n \in Good PROVE n + 1 \in Good
    OBVIOUS
  <2>1. n + 1 \in 1..L /\ n + 1 \in 0..L /\ n \in 0..L /\ (n + 1) - 1 = n /\ 0..(n + 1) = 0..n \cup {n + 1}
    BY <1>0
  <2>2. Ok(n)
    OBVIOUS
  <2>3. f[n + 1] = IF To(n + 1) \in ToSet(nodes) THEN nodes ELSE Append(f[n], To(n + 1))
    BY <1>3, <2>1
  <2>4. Front(To(n + 1)) = To(n) /\ To(n + 1) # <<>>
    <3>1. Front(To(n + 1)) = To(n)
      BY <2>1, StartsOf
    <3>2. Len(To(n + 1)) # 0
      BY <1>0, <2>1
    <3>3. Len(<<>>) = 0
      OBVIOUS
    <3> QED  BY <3>1, <3>2, <3>3
  <2>5. {To(k) : k \in 0..n} \subseteq {To(k) : k \in 0..(n + 1)} /\ To(n + 1) \in {To(k) : k \in 0..(n + 1)}
    BY <2>1
  <2>6. \A k \in 0..n : To(k) # To(n + 1)
    <3> TAKE k \in 0..n
    <3>1. k \in 0..L /\ k # n + 1
      BY <2>1
    <3> QED  BY <1>0, <2>1, <3>1
  <2> HIDE DEF To
  <2>7. CASE To(n + 1) \in ToSet(nodes)
    <3>1. f[n + 1] = nodes
      BY <2>3, <2>7
    <3> QED  BY <2>1, <2>7, <3>1
  <2>8. CASE To(n + 1) \notin ToSet(nodes)
    <3>1. f[n + 1] = Append(f[n], To(n + 1))
      BY <2>3, <2>8
    <3>2. To(n + 1) \notin ToSet(f[n])
      BY <2>2, <2>6, <2>8
    <3>3. To(n + 1) \in Folders /\ f[n] \in Seq(Folders)
      BY <1>0, <2>1, <2>2 DEF Tree
    <3>4. Tree(f[n + 1])
      BY <2>2, <2>4, <3>1, <3>2, <3>3, TreeGrows
    <3>5. ToSet(f[n + 1]) = ToSet(f[n]) \cup {To(n + 1)}
      BY <3>1, <3>3, AppendFresh
    <3>6. Ok(n + 1)
      BY <2>2, <2>5, <3>4, <3>5
    <3> QED  BY <2>1, <3>6
  <2> QED
    BY <2>7, <2>8
<1>6. Ok(L)
  <2> HIDE DEF Ok
  <2>1. \A n \in 0..L : n \in Good
    <3> HIDE DEF Good
    <3> QED  BY <1>0, <1>4, <1>5, CountingUp
  <2> QED  BY <1>0, <2>1
<1>7. To(L) = folder
  BY <1>0, StartsOf
<1> QED
  BY <1>1, <1>6, <1>7

Children(nodes, n) == {f \in ToSet(nodes) : f # <<>> /\ Front(f) = n}

\* What is below a folder is its own or below one of its children, and below no
\* two of them.
Splits(P, own, r, n, S) ==
  /\ Apart(P, Len(r), S)
  /\ own \subseteq S
  /\ \A i \in 1..Len(r) : P[i] \cap own = {}
  /\ own \cup Together(P, 1..Len(r)) = Below(n, S)
  /\ \A i \in 1..Len(r) :
       own \cup Together(P, (1..Len(r)) \ {i}) = Below(n, S) \ Below(r[i], S)

LEMMA Subtrees ==
  ASSUME NEW nodes, Tree(nodes), NEW n \in ToSet(nodes),
         NEW r \in Seq(Folders), IsInjective(r), ToSet(r) = Children(nodes, n),
         NEW S \in SUBSET FilePaths, \A p \in S : p.folder \in ToSet(nodes),
         NEW P, \A i \in 1..Len(r) : P[i] = Below(r[i], S),
         NEW own, \A p : p \in own <=> p \in S /\ p.folder = n
  PROVE  Splits(P, own, r, n, S)
<1> DEFINE d == Len(n)
           To(p, k) == SubSeq(p.folder, 1, k)
<1>0. /\ n \in Folders /\ d \in Nat /\ Len(r) \in Nat /\ DOMAIN r = 1..Len(r)
      /\ \A p \in S : p.folder \in Folders /\ Len(p.folder) \in Nat
  <2>1. \A p \in S : p.folder \in Folders
    BY DEF FilePaths
  <2>2. n \in Folders
    BY DEF Tree, ToSet
  <2> QED  BY <2>1, <2>2 DEF Folders
<1>1. \A i \in 1..Len(r) : r[i] \in Folders /\ Len(r[i]) = d + 1 /\ r[i] \in ToSet(nodes) /\ Front(r[i]) = n
  <2> TAKE i \in 1..Len(r)
  <2>1. r[i] \in Children(nodes, n) /\ r[i] \in Folders
    BY <1>0 DEF ToSet
  <2>2. r[i] # <<>> /\ Front(r[i]) = n /\ r[i] \in ToSet(nodes)
    BY <2>1 DEF Children
  <2>3. Len(r[i]) # 0 /\ Len(r[i]) \in Nat
    BY <2>1, <2>2 DEF Folders
  <2>4. Len(Front(r[i])) = Len(r[i]) - 1
    BY <2>1, <2>3 DEF Folders, Front
  <2> QED  BY <2>1, <2>2, <2>3, <2>4
<1>2. \A i \in 1..Len(r) : \A p : p \in P[i] <=> p \in S /\ d + 1 <= Len(p.folder) /\ To(p, d + 1) = r[i]
  <2> TAKE i \in 1..Len(r)
  <2>1. P[i] = Below(r[i], S)
    OBVIOUS
  <2>2. Below(r[i], S) = {p \in S : Len(r[i]) <= Len(p.folder) /\ SubSeq(p.folder, 1, Len(r[i])) = r[i]}
    BY <1>1, BelowIs
  <2> QED  BY <1>1, <2>1, <2>2
<1>3. \A p : p \in Below(n, S) <=> p \in S /\ d <= Len(p.folder) /\ To(p, d) = n
  BY <1>0, BelowIs
<1>4. \A p \in S : p.folder = n <=> Len(p.folder) = d /\ To(p, d) = n
  <2> TAKE p \in S
  <2>1. Len(p.folder) \in 0..Len(p.folder) /\ p.folder \in Folders
    BY <1>0
  <2>2. SubSeq(p.folder, 1, Len(p.folder)) = p.folder
    BY <2>1, StartsOf
  <2> QED  BY <2>2
<1>5. \A p \in S : d + 1 <= Len(p.folder) /\ To(p, d) = n => \E i \in 1..Len(r) : To(p, d + 1) = r[i]
  <2> SUFFICES ASSUME NEW p \in S, d + 1 <= Len(p.folder), To(p, d) = n
               PROVE  \E i \in 1..Len(r) : To(p, d + 1) = r[i]
    OBVIOUS
  <2>1. d + 1 \in 0..Len(p.folder)
    BY <1>0
  <2>2. To(p, d + 1) \in ToSet(nodes)
    BY <2>1 DEF Tree
  <2>3. Front(To(p, d + 1)) = n /\ Len(To(p, d + 1)) = d + 1
    <3>1. d + 1 # 0 /\ (d + 1) - 1 = d /\ p.folder \in Folders
      BY <1>0
    <3>2. Front(To(p, d + 1)) = To(p, (d + 1) - 1) /\ Len(To(p, d + 1)) = d + 1
      BY <2>1, <3>1, StartsOf
    <3> QED  BY <3>1, <3>2
  <2>4. To(p, d + 1) # <<>>
    <3>1. Len(<<>>) = 0
      OBVIOUS
    <3> QED  BY <1>0, <2>3, <3>1
  <2>5. To(p, d + 1) \in ToSet(r)
    BY <2>2, <2>3, <2>4 DEF Children
  <2> QED  BY <1>0, <2>5 DEF ToSet
<1>6. \A i \in 1..Len(r) : \A p \in S : d + 1 <= Len(p.folder) /\ To(p, d + 1) = r[i] => To(p, d) = n
  <2> SUFFICES ASSUME NEW i \in 1..Len(r), NEW p \in S, d + 1 <= Len(p.folder), To(p, d + 1) = r[i]
               PROVE  To(p, d) = n
    OBVIOUS
  <2>1. d + 1 \in 0..Len(p.folder) /\ (d + 1) - 1 = d /\ d + 1 # 0
    BY <1>0
  <2>2. Front(To(p, d + 1)) = To(p, d)
    BY <1>0, <2>1, StartsOf
  <2> QED  BY <1>1, <2>2
<1> HIDE DEF To
<1>7. Apart(P, Len(r), S)
  <2>1. \A i \in 1..Len(r) : P[i] \subseteq S
    BY <1>2
  <2>2. \A i, j \in 1..Len(r) : i # j => r[i] # r[j]
    BY <1>0 DEF IsInjective
  <2>3. \A i, j \in 1..Len(r) : i # j => P[i] \cap P[j] = {}
    BY <1>2, <2>2
  <2> QED  BY <2>1, <2>3 DEF Apart
<1>8. \A i \in 1..Len(r) : P[i] \cap own = {}
  <2>1. \A p \in own : p \in S /\ ~(d + 1 <= Len(p.folder))
    BY <1>0, <1>4
  <2> QED  BY <1>2, <2>1
<1>9. \A p : p \in Below(n, S) <=> p \in own \/ \E i \in 1..Len(r) : p \in P[i]
  <2>1. \A p \in S : d <= Len(p.folder) <=> Len(p.folder) = d \/ d + 1 <= Len(p.folder)
    BY <1>0
  <2> QED  BY <1>2, <1>3, <1>4, <1>5, <1>6, <2>1
<1>10. own \cup Together(P, 1..Len(r)) = Below(n, S)
  BY <1>9 DEF Together
<1>11. ASSUME NEW i \in 1..Len(r)
       PROVE  own \cup Together(P, (1..Len(r)) \ {i}) = Below(n, S) \ Below(r[i], S)
  <2>1. P[i] = Below(r[i], S)
    OBVIOUS
  <2>2. \A j \in 1..Len(r) : j # i => P[j] \cap P[i] = {}
    BY <1>7 DEF Apart
  <2>3. P[i] \cap own = {}
    BY <1>8
  <2>4. \A p : p \in own \cup Together(P, (1..Len(r)) \ {i})
                 <=> p \in own \/ \E j \in 1..Len(r) : j # i /\ p \in P[j]
    BY DEF Together
  <2>5. \A p : p \in own \cup Together(P, (1..Len(r)) \ {i}) <=> p \in Below(n, S) /\ p \notin P[i]
    BY <1>9, <2>2, <2>3, <2>4
  <2> QED  BY <2>1, <2>5
<1>12. own \subseteq S
  OBVIOUS
<1> QED
  BY <1>7, <1>8, <1>10, <1>11, <1>12 DEF Splits

-----------------------------------------------------------------------------
(* The inductive invariant *)

InputOK ==
  /\ files \in Seq(FilePaths) /\ IsInjective(files)
  /\ from \in Folders
  /\ link \in FilePaths \cup {AnchorOnly}
  /\ threshold \in Nat
  /\ \A p \in Paths : Len(from) + Len(p.folder) <= MaxDepth
  /\ phase \in {"insert", "aggregate", "resolve", "scan", "probe", "climb", "done"}

\* The nodes at these positions of the arena know their subtrees, and for each
\* child what is outside the child's.
Told(nodes, I, f, x, C, m) ==
  \A i \in I :
    /\ nodes[i] \in DOMAIN f
    /\ Knows(f[nodes[i]], Below(nodes[i], C), m)
    /\ \A c \in Children(nodes, nodes[i]) :
         /\ c \in DOMAIN x
         /\ Knows(x[c], Below(nodes[i], C) \ Below(c, C), m)

\* Every candidate inserted so far has its folder in the arena, and the nodes
\* behind the aggregation pass know theirs.
TrieInv ==
  /\ Tree(arena)
  /\ phase = "insert" =>
       /\ IsTrie
       /\ cursor \in 1..(Len(Candidates) + 1)
       /\ \A j \in 1..(cursor - 1) : Candidates[j].folder \in ToSet(arena)
  /\ phase = "aggregate" => IsTrie /\ cursor \in 0..Len(arena)
  /\ IsTrie /\ phase # "insert" =>
       /\ \A p \in ToSet(Candidates) : p.folder \in ToSet(arena)
       /\ Told(arena, (IF phase = "aggregate" THEN cursor + 1 ELSE 1)..Len(arena),
               full, excluding, ToSet(Candidates), Depth)

\* A running lookup is one by name; it is not for the link's extension only if
\* there is none or the lookup for it was of no avail.
LookupInv ==
  phase \in {"scan", "probe", "climb"} =>
    /\ link # AnchorOnly /\ ~IsExact /\ ~IsImplied /\ link.folder = <<>>
    /\ want \in Buckets
    /\ want # link.ext =>
         want = AnyExt /\ (link.ext = NoExt \/ ~IsUnique(Closest(Matching(link.ext))))

\* The candidates the scan has passed.
Passed == {p \in {Candidates[j] : j \in 1..(cursor - 1)} : want \in {AnyExt, p.ext}}

\* The scan knows one of the closest of them and if there is another.
ScanInv ==
  phase = "scan" =>
    /\ cursor \in 1..(Len(Candidates) + 1)
    /\ tied \in BOOLEAN
    /\ nearest = None => Passed = {}
    /\ nearest # None => /\ nearest.path \in Closest(Passed)
                         /\ nearest.distance = Hops(from, nearest.path.folder)
                         /\ tied <=> Closest(Passed) # {nearest.path}

\* From the note's folder up to the root.
OnTheWay(f) == f \in Folders /\ Len(f) <= Len(from) /\ SubSeq(from, 1, Len(f)) = f

\* No folder on the way below this one is in the trie.
LowestKnown(f) == \A n \in (Len(f) + 1)..Len(from) : SubSeq(from, 1, n) \notin ToSet(arena)

\* The walk up has seen exactly the candidates below the folder it comes from.
WalkInv ==
  phase \in {"probe", "climb"} =>
    /\ IsTrie
    /\ node # None => OnTheWay(node) /\ up_steps = Len(from) - Len(node)
    /\ phase = "probe" => node # None /\ prev_child = None /\ best = EMPTY /\ LowestKnown(node)
    /\ phase = "climb" =>
         /\ node # None => node \in ToSet(arena)
         /\ prev_child = None => node # None /\ best = EMPTY /\ LowestKnown(node)
         /\ prev_child # None =>
              /\ OnTheWay(prev_child) /\ prev_child \in ToSet(arena)
              /\ IF prev_child = <<>> THEN node = None ELSE node = Front(prev_child)
              /\ IsAgg(best, Below(prev_child, Matching(want)), Away)

\* What the answer is, in a tie as well.
AnswerStands ==
  phase = "done" =>
    IF link = AnchorOnly THEN target = None
    ELSE IF link \in Paths THEN target = link
    ELSE IF link.ext = NoExt /\ WithMd(link) \in Paths THEN target = WithMd(link)
    ELSE IF link.folder # <<>> THEN target = None
    ELSE LET own == Closest(Matching(link.ext))
             all == Closest(Matching(AnyExt))
         IN  IF link.ext # NoExt /\ IsUnique(own) THEN target \in own
             ELSE IF IsUnique(all) THEN target \in all
             ELSE target = None

IInv == InputOK /\ TrieInv /\ LookupInv /\ ScanInv /\ WalkInv /\ AnswerStands

LEMMA SameInput ==
  ASSUME UNCHANGED input
  PROVE  /\ Candidates' = Candidates /\ IsTrie' = IsTrie /\ Paths' = Paths
         /\ Depth' = Depth /\ Away' = Away
         /\ IsExact' = IsExact /\ IsImplied' = IsImplied
         /\ \A e : Matching(e)' = Matching(e)
         /\ \A S : Closest(S)' = Closest(S)
<1>1. files' = files /\ from' = from /\ link' = link /\ threshold' = threshold
  BY DEF input
<1>2. Candidates' = Candidates
  BY <1>1 DEF Candidates
<1>3. Paths' = Paths
  BY <1>1 DEF Paths
<1>4. \A e : Matching(e)' = Matching(e)
  BY <1>2 DEF Matching
<1>5. \A S : Closest(S)' = Closest(S)
  BY <1>1 DEF Closest
<1>6. Depth' = Depth /\ Away' = Away
  BY <1>1, <1>3 DEF Depth, Away
<1>7. IsTrie' = IsTrie /\ IsExact' = IsExact /\ IsImplied' = IsImplied
  BY <1>1, <1>2 DEF IsTrie, IsExact, IsImplied
<1> QED
  BY <1>2, <1>3, <1>4, <1>5, <1>6, <1>7

LEMMA SeqIsFinite ==
  ASSUME NEW X, NEW s \in Seq(X)
  PROVE  IsFiniteSet(ToSet(s))
<1>1. s \in [1..Len(s) -> X] /\ Len(s) \in Nat /\ DOMAIN s = 1..Len(s)
  OBVIOUS
<1>2. IsFiniteSet(1..Len(s))
  BY <1>1, FS_Interval
<1>3. s \in Surjection(1..Len(s), ToSet(s))
  BY <1>1 DEF ToSet, Surjection
<1> QED
  BY <1>2, <1>3, FS_Surjection

LEMMA PathsAre ==
  ASSUME InputOK
  PROVE  /\ Paths \subseteq FilePaths
         /\ \A p \in FilePaths : p.folder \in Folders /\ p.ext \in Exts \cup {NoExt}
         /\ Measures(Depth, Paths) /\ Measures(Away, Paths)
         /\ \A p \in Paths : Depth[p] = Len(p.folder) /\ Away[p] = Hops(from, p.folder)
<1>1. Paths \subseteq FilePaths
  BY DEF InputOK, Paths, ToSet
<1>2. \A p \in FilePaths : p.folder \in Folders /\ p.ext \in Exts \cup {NoExt} /\ Len(p.folder) \in Nat
  <2> TAKE p \in FilePaths
  <2>1. p.folder \in Folders /\ p.ext \in Exts \cup {NoExt}
    BY DEF FilePaths
  <2> QED  BY <2>1 DEF Folders
<1>3. IsFiniteSet(Paths) /\ MaxDepth \in Nat
  BY SeqIsFinite, InputsAssumption DEF InputOK, Paths
<1>4. \A p \in Paths : Depth[p] = Len(p.folder) /\ Away[p] = Hops(from, p.folder)
  BY DEF Depth, Away
<1>5. from \in Folders /\ Len(from) \in Nat /\ \A p \in Paths : Len(from) + Len(p.folder) <= MaxDepth
  BY DEF InputOK, Folders
<1>6. ASSUME NEW p \in Paths
      PROVE  Hops(from, p.folder) \in Nat /\ Hops(from, p.folder) <= MaxDepth
  <2>1. p.folder \in Folders /\ Len(p.folder) \in Nat
    BY <1>1, <1>2
  <2>2. PICK k \in Nat : /\ k <= Len(from) /\ k <= Len(p.folder)
                         /\ \A n \in Nat : n <= Len(from) /\ n <= Len(p.folder) =>
                              (SubSeq(from, 1, n) = SubSeq(p.folder, 1, n) <=> n <= k)
    BY <1>5, <2>1, InCommon
  <2>3. Hops(from, p.folder) = (Len(from) - k) + (Len(p.folder) - k)
    BY <1>5, <2>1, <2>2, DistanceIsHops
  <2> QED  BY <1>3, <1>5, <2>1, <2>2, <2>3
<1>7. \A p \in Paths : Len(p.folder) \in Nat /\ Len(p.folder) <= MaxDepth
  <2> TAKE p \in Paths
  <2>1. Len(p.folder) \in Nat /\ Len(from) + Len(p.folder) <= MaxDepth
    BY <1>1, <1>2, <1>5
  <2> QED  BY <1>3, <1>5, <2>1
<1>8. Measures(Depth, Paths) /\ Measures(Away, Paths)
  BY <1>1, <1>3, <1>4, <1>6, <1>7 DEF Measures
<1> QED
  BY <1>1, <1>2, <1>4, <1>8

LEMMA CandidatesAre ==
  ASSUME InputOK
  PROVE  /\ Candidates \in Seq(FilePaths) /\ IsInjective(Candidates)
         /\ Len(Candidates) \in Nat /\ DOMAIN Candidates = 1..Len(Candidates)
         /\ ToSet(Candidates) \subseteq Paths
         /\ ToSet(Candidates) \subseteq FilePaths
         /\ \A i \in 1..Len(Candidates) : Candidates[i] \in ToSet(Candidates)
<1>1. /\ Candidates \in Seq(FilePaths)
      /\ ToSet(Candidates) = ToSet(files) \cap {p \in ToSet(files) : link # AnchorOnly /\ p.stem = link.stem}
      /\ IsInjective(Candidates)
  BY SelectedSpec DEF InputOK, Candidates
<1>2. Len(Candidates) \in Nat /\ DOMAIN Candidates = 1..Len(Candidates)
  BY <1>1
<1>3. ToSet(Candidates) \subseteq Paths
  BY <1>1 DEF Paths
<1>4. \A i \in 1..Len(Candidates) : Candidates[i] \in ToSet(Candidates)
  BY <1>2 DEF ToSet
<1> QED
  BY <1>1, <1>2, <1>3, <1>4, PathsAre

LEMMA MatchingAre ==
  ASSUME InputOK, NEW e
  PROVE  /\ Matching(e) = OfExt(ToSet(Candidates), e)
         /\ Matching(e) \subseteq Paths /\ Matching(e) \subseteq FilePaths
         /\ IsFiniteSet(Matching(e))
<1>1. Matching(e) = OfExt(ToSet(Candidates), e)
  BY DEF Matching, OfExt
<1>2. Matching(e) \subseteq Paths /\ Matching(e) \subseteq FilePaths
  BY CandidatesAre DEF Matching
<1>3. IsFiniteSet(Matching(e))
  BY <1>2, PathsAre, FS_Subset DEF Measures
<1> QED
  BY <1>1, <1>2, <1>3

\* The closest candidates are the least ones of the distance.
LEMMA ClosestIs ==
  ASSUME InputOK, NEW S \in SUBSET Paths
  PROVE  Closest(S) = Least(S, Away)
BY PathsAre DEF Closest, Least

LEMMA InitInv == Init => IInv
<1> SUFFICES ASSUME Init PROVE IInv
  OBVIOUS
<1>1. InputOK
  <2>1. PICK i \in Inputs : files = i.files /\ from = i.from /\ link = i.link /\ threshold = i.threshold
    BY DEF Init
  <2>2. phase \in {"insert", "resolve"}
    BY DEF Init
  <2> QED  BY <2>1, <2>2, InputsAssumption DEF InputOK, Paths
<1>2. Tree(arena)
  <2>1. arena = << <<>> >> /\ <<>> \in Folders
    BY DEF Init, Folders
  <2>2. arena \in Seq(Folders) /\ DOMAIN arena = {1} /\ arena[1] = <<>>
    BY <2>1
  <2>3. ToSet(arena) = {<<>>}
    BY <2>2 DEF ToSet
  <2>4. \A n \in 0..Len(<<>>) : SubSeq(<<>>, 1, n) = <<>>
    BY <2>1, StartsOf
  <2> QED  BY <2>2, <2>3, <2>4 DEF Tree, IsInjective
<1>3. IsTrie => phase = "insert"
  BY DEF Init
<1>4. phase \in {"insert", "resolve"} /\ (phase = "insert" => IsTrie) /\ cursor = 1
  BY DEF Init
<1>5. TrieInv
  <2>1. Len(Candidates) \in Nat
    BY <1>1, CandidatesAre
  <2> QED  BY <1>2, <1>3, <1>4, <2>1 DEF TrieInv
<1> QED
  BY <1>1, <1>4, <1>5 DEF IInv, LookupInv, ScanInv, WalkInv, AnswerStands

-----------------------------------------------------------------------------
(* The steps of resolve *)

\* What AnswerStands says of the answer.
IsRight(p) ==
  IF link = AnchorOnly THEN p = None
  ELSE IF link \in Paths THEN p = link
  ELSE IF link.ext = NoExt /\ WithMd(link) \in Paths THEN p = WithMd(link)
  ELSE IF link.folder # <<>> THEN p = None
  ELSE LET own == Closest(Matching(link.ext))
           all == Closest(Matching(AnyExt))
       IN  IF link.ext # NoExt /\ IsUnique(own) THEN p \in own
           ELSE IF IsUnique(all) THEN p \in all
           ELSE p = None

LEMMA RightAnswer == AnswerStands <=> (phase = "done" => IsRight(target))
BY DEF AnswerStands, IsRight

LEMMA InputFrame ==
  ASSUME InputOK, UNCHANGED input,
         phase' \in {"insert", "aggregate", "resolve", "scan", "probe", "climb", "done"}
  PROVE  InputOK'
<1>1. files' = files /\ from' = from /\ link' = link /\ threshold' = threshold
  BY DEF input
<1> QED
  BY <1>1 DEF InputOK, Paths

\* Once it is built, a trie stays.
LEMMA TrieFrame ==
  ASSUME TrieInv, UNCHANGED <<input, trie>>,
         phase \notin {"insert", "aggregate"}, phase' \notin {"insert", "aggregate"}
  PROVE  TrieInv'
<1>1. arena' = arena /\ full' = full /\ excluding' = excluding
  BY DEF trie
<1>2. Candidates' = Candidates /\ IsTrie' = IsTrie /\ Depth' = Depth
  BY SameInput
<1> QED
  BY <1>1, <1>2 DEF TrieInv

LEMMA ContainsIs ==
  ASSUME InputOK, NEW p
  PROVE  Contains(files, p) <=> p \in Paths
<1>1. DOMAIN files = 1..Len(files)
  BY DEF InputOK
<1> QED
  BY <1>1 DEF Contains, Paths, ToSet

LEMMA AnswerStep ==
  ASSUME IInv, phase \notin {"insert", "aggregate"}, NEW p, IsRight(p), Answer(p)
  PROVE  IInv'
<1>1. phase' = "done" /\ target' = p /\ UNCHANGED <<input, trie>>
  BY DEF Answer
<1>2. InputOK'
  BY <1>1, InputFrame DEF IInv
<1>3. TrieInv'
  BY <1>1, TrieFrame DEF IInv
<1>4. LookupInv' /\ ScanInv' /\ WalkInv'
  BY <1>1 DEF LookupInv, ScanInv, WalkInv
<1>5. AnswerStands'
  <2>1. /\ Paths' = Paths /\ link' = link
        /\ \A e : Matching(e)' = Matching(e)
        /\ \A S : Closest(S)' = Closest(S)
    BY <1>1, SameInput DEF input
  <2> DEFINE own == Closest(Matching(link.ext))
             all == Closest(Matching(AnyExt))
  <2>2. own' = own /\ all' = all
    BY <2>1
  <2>3. IsRight(p) <=> IF link = AnchorOnly THEN p = None
                       ELSE IF link \in Paths THEN p = link
                       ELSE IF link.ext = NoExt /\ WithMd(link) \in Paths THEN p = WithMd(link)
                       ELSE IF link.folder # <<>> THEN p = None
                       ELSE IF link.ext # NoExt /\ IsUnique(own) THEN p \in own
                       ELSE IF IsUnique(all) THEN p \in all
                       ELSE p = None
    BY DEF IsRight
  <2>4. AnswerStands' <=>
          (phase' = "done" =>
             IF link' = AnchorOnly THEN target' = None
             ELSE IF link' \in Paths' THEN target' = link'
             ELSE IF link'.ext = NoExt /\ WithMd(link') \in Paths' THEN target' = WithMd(link')
             ELSE IF link'.folder # <<>> THEN target' = None
             ELSE IF link'.ext # NoExt /\ IsUnique(own') THEN target' \in own'
             ELSE IF IsUnique(all') THEN target' \in all'
             ELSE target' = None)
    BY DEF AnswerStands, WithMd, IsUnique
  <2> HIDE DEF own, all
  <2> QED  BY <1>1, <2>1, <2>2, <2>3, <2>4
<1> QED
  BY <1>2, <1>3, <1>4, <1>5 DEF IInv

\* A lookup for all candidates is in order when one for the extension was not asked
\* for, or had no single answer.
LEMMA AskStep ==
  ASSUME IInv, phase \notin {"insert", "aggregate"},
         link # AnchorOnly, ~IsExact, ~IsImplied, link.folder = <<>>,
         NEW e \in Buckets,
         e # link.ext => e = AnyExt /\ (link.ext = NoExt \/ ~IsUnique(Closest(Matching(link.ext)))),
         Ask(e)
  PROVE  IInv'
<1>1. /\ want' = e /\ cursor' = 1 /\ nearest' = None /\ tied' = FALSE
      /\ phase' = IF IsTrie THEN "probe" ELSE "scan"
      /\ node' = from /\ prev_child' = None /\ up_steps' = 0 /\ best' = EMPTY
      /\ UNCHANGED <<input, trie>>
  BY DEF Ask
<1>2. /\ Candidates' = Candidates /\ IsTrie' = IsTrie /\ IsExact' = IsExact /\ IsImplied' = IsImplied
      /\ link' = link /\ from' = from
      /\ Matching(link.ext)' = Matching(link.ext)
      /\ Closest(Matching(link.ext))' = Closest(Matching(link.ext))
  <2>1. UNCHANGED input /\ link' = link /\ from' = from
    BY <1>1 DEF input
  <2>2. (link.ext)' = link.ext
    BY <2>1
  <2>3. Matching(link.ext)' = Matching(link.ext)
    BY <2>1, <2>2, SameInput DEF Matching
  <2>4. Closest(Matching(link.ext))' = Closest(Matching(link.ext))
    BY <2>1, <2>3 DEF Closest
  <2> QED  BY <2>1, <2>3, <2>4, SameInput
<1>3. InputOK'
  BY <1>1, InputFrame DEF IInv
<1>4. TrieInv'
  BY <1>1, TrieFrame DEF IInv
<1>5. LookupInv'
  <2> DEFINE own == Closest(Matching(link.ext))
  <2>1. own' = own
    BY <1>2
  <2>2. LookupInv' <=>
          (phase' \in {"scan", "probe", "climb"} =>
             /\ link' # AnchorOnly /\ ~IsExact' /\ ~IsImplied' /\ link'.folder = <<>>
             /\ want' \in Buckets
             /\ want' # link'.ext => want' = AnyExt /\ (link'.ext = NoExt \/ ~IsUnique(own')))
    BY DEF LookupInv, IsUnique, Buckets
  <2> HIDE DEF own
  <2>3. e # link.ext => e = AnyExt /\ (link.ext = NoExt \/ ~IsUnique(own))
    BY DEF own
  <2> QED  BY <1>1, <1>2, <2>1, <2>2, <2>3
<1>6. ScanInv'
  <2>1. Len(Candidates) \in Nat
    BY CandidatesAre DEF IInv
  <2>2. Passed' = {}
    BY <1>1 DEF Passed
  <2>3. cursor' \in 1..(Len(Candidates') + 1)
    BY <1>1, <1>2, <2>1
  <2>4. tied' \in BOOLEAN /\ nearest' = None
    BY <1>1
  <2> QED  BY <2>2, <2>3, <2>4 DEF ScanInv
<1>7. WalkInv'
  <2>1. from \in Folders /\ Len(from) \in Nat
    BY DEF IInv, InputOK, Folders
  <2>2. SubSeq(from, 1, Len(from)) = from
    BY <2>1, StartsOf
  <2>3. OnTheWay(node)' /\ LowestKnown(node)'
    BY <1>1, <1>2, <2>1, <2>2 DEF OnTheWay, LowestKnown
  <2>4. from # None
    BY <2>1, NoneAssumption
  <2>5. up_steps' = Len(from) - Len(node')
    BY <1>1, <2>1
  <2>6. phase' = "probe" => IsTrie'
    BY <1>1, <1>2
  <2>7. phase' # "climb"
    BY <1>1
  <2>8. (node # None)' /\ from' = from
    BY <1>1, <1>2, <2>4
  <2> QED  BY <1>1, <2>3, <2>5, <2>6, <2>7, <2>8 DEF WalkInv
<1>8. AnswerStands'
  BY <1>1 DEF AnswerStands
<1> QED
  BY <1>3, <1>4, <1>5, <1>6, <1>7, <1>8 DEF IInv

\* A lookup that is over has the one closest candidate if there is one.
LEMMA ReplyStep ==
  ASSUME IInv, phase \in {"scan", "probe", "climb"}, NEW p,
         IF IsUnique(Closest(Matching(want))) THEN p \in Closest(Matching(want)) ELSE p = None,
         Reply(p)
  PROVE  IInv'
<1>1. /\ link # AnchorOnly /\ ~IsExact /\ ~IsImplied /\ link.folder = <<>> /\ want \in Buckets
      /\ want # link.ext =>
           want = AnyExt /\ (link.ext = NoExt \/ ~IsUnique(Closest(Matching(link.ext))))
  BY DEF IInv, LookupInv
<1>2. \A q \in Closest(Matching(want)) : q # None
  <2>1. Closest(Matching(want)) \subseteq FilePaths
    BY MatchingAre DEF IInv, Closest
  <2> QED  BY <2>1, NoneAssumption
<1>3. phase \notin {"insert", "aggregate"} /\ AnyExt \in Buckets
  BY DEF Buckets
<1>4. CASE p = None /\ want # AnyExt
  <2>1. want = link.ext /\ ~IsUnique(Closest(Matching(want)))
    BY <1>1, <1>2, <1>4
  <2>2. Ask(AnyExt)
    BY <1>4 DEF Reply
  <2>3. ~IsUnique(Closest(Matching(link.ext)))
    BY <2>1
  <2> QED  BY <1>1, <1>3, <2>2, <2>3, AskStep
<1>5. CASE ~(p = None /\ want # AnyExt)
  <2>1. Answer(p)
    BY <1>5 DEF Reply
  <2>2. link \notin Paths /\ ~(link.ext = NoExt /\ WithMd(link) \in Paths)
    BY <1>1, ContainsIs DEF IInv, IsExact, IsImplied
  <2> DEFINE own == Closest(Matching(link.ext))
             all == Closest(Matching(AnyExt))
             asked == Closest(Matching(want))
  <2>3. want \in Buckets /\ NoExt \notin Buckets
    BY <1>1, ExtsAssumption
  <2>4. want = link.ext => asked = own
    OBVIOUS
  <2>5. want = AnyExt => asked = all
    OBVIOUS
  <2>6. link.ext # AnyExt
    <3>1. link.ext \in Exts \cup {NoExt}
      BY <1>1, PathsAre DEF IInv, InputOK
    <3> QED  BY <3>1, ExtsAssumption DEF Buckets
  <2>7. /\ want # link.ext => want = AnyExt /\ (link.ext = NoExt \/ ~IsUnique(own))
        /\ IF IsUnique(asked) THEN p \in asked ELSE p = None
    BY <1>1
  <2>8. IsRight(p) <=> IF link.ext # NoExt /\ IsUnique(own) THEN p \in own
                       ELSE IF IsUnique(all) THEN p \in all
                       ELSE p = None
    BY <1>1, <2>2 DEF IsRight
  <2> HIDE DEF own, all, asked
  <2>9. IsRight(p)
    BY <1>5, <2>3, <2>4, <2>5, <2>6, <2>7, <2>8
  <2> QED  BY <1>3, <2>1, <2>9, AnswerStep
<1> QED
  BY <1>4, <1>5

LEMMA ResolveSteps ==
  ASSUME IInv, NoPath \/ Exact \/ Implied \/ Qualified \/ Bare
  PROVE  IInv'
<1>0. /\ InputOK
      /\ (IsExact <=> link \in Paths)
      /\ (IsImplied <=> link.ext = NoExt /\ WithMd(link) \in Paths)
  BY ContainsIs DEF IInv, IsExact, IsImplied
<1>1. CASE NoPath
  <2>1. IsRight(None)
    BY <1>1 DEF NoPath, IsRight
  <2> QED  BY <1>1, <2>1, AnswerStep DEF NoPath
<1>2. CASE Exact
  <2>1. IsRight(link)
    BY <1>0, <1>2 DEF Exact, HasPath, IsRight
  <2> QED  BY <1>2, <2>1, AnswerStep DEF Exact, HasPath
<1>3. CASE Implied
  <2>1. IsRight(WithMd(link))
    BY <1>0, <1>3 DEF Implied, HasPath, IsRight
  <2> QED  BY <1>3, <2>1, AnswerStep DEF Implied, HasPath
<1>4. CASE Qualified
  <2>1. IsRight(None)
    BY <1>0, <1>4 DEF Qualified, HasPath, IsRight
  <2> QED  BY <1>4, <2>1, AnswerStep DEF Qualified, HasPath
<1>5. CASE Bare
  <2> DEFINE e == IF link.ext = NoExt THEN AnyExt ELSE link.ext
  <2>1. /\ link # AnchorOnly /\ ~IsExact /\ ~IsImplied /\ link.folder = <<>> /\ Ask(e)
        /\ phase \notin {"insert", "aggregate"}
    BY <1>5 DEF Bare, HasPath
  <2>2. link.ext \in Exts \cup {NoExt}
    BY <1>0, <2>1, PathsAre DEF InputOK
  <2>3. e \in Buckets
    BY <2>2 DEF Buckets
  <2>4. e # link.ext => e = AnyExt /\ link.ext = NoExt
    OBVIOUS
  <2> HIDE DEF e
  <2> QED  BY <2>1, <2>3, <2>4, AskStep
<1> QED
  BY <1>1, <1>2, <1>3, <1>4, <1>5

-----------------------------------------------------------------------------
(* The steps that build the trie *)

\* A step that leaves the input and is none of a lookup.
LEMMA OutsideFrame ==
  ASSUME InputOK, UNCHANGED input, phase' \in {"insert", "aggregate", "resolve"}
  PROVE  InputOK' /\ LookupInv' /\ ScanInv' /\ WalkInv' /\ AnswerStands'
BY InputFrame DEF LookupInv, ScanInv, WalkInv, AnswerStands

LEMMA InsertStep == ASSUME IInv, Insert PROVE IInv'
<1>1. /\ phase = "insert" /\ phase' = "insert" /\ cursor <= Len(Candidates) /\ cursor' = cursor + 1
      /\ arena' = WithFolder(arena, Candidates[cursor].folder)
      /\ UNCHANGED input
  BY DEF Insert
<1>2. Candidates' = Candidates /\ IsTrie' = IsTrie
  BY <1>1, SameInput
<1>3. /\ IsTrie /\ cursor \in 1..(Len(Candidates) + 1) /\ Tree(arena) /\ Len(Candidates) \in Nat
      /\ \A j \in 1..(cursor - 1) : Candidates[j].folder \in ToSet(arena)
  BY <1>1, CandidatesAre DEF IInv, TrieInv
<1>4. cursor \in 1..Len(Candidates) /\ cursor \in Nat
  BY <1>1, <1>3
<1>5. Candidates[cursor].folder \in Folders
  <2>1. Candidates[cursor] \in FilePaths
    BY <1>4, CandidatesAre DEF IInv
  <2> QED  BY <2>1, PathsAre DEF IInv
<1>6. /\ Tree(arena') /\ ToSet(arena) \subseteq ToSet(arena')
      /\ Candidates[cursor].folder \in ToSet(arena')
  BY <1>1, <1>3, <1>5, WithFolderSpec
<1>7. \A j \in 1..(cursor' - 1) : Candidates[j].folder \in ToSet(arena')
  <2> TAKE j \in 1..(cursor' - 1)
  <2>1. j \in 1..(cursor - 1) \/ j = cursor
    BY <1>1, <1>4
  <2> QED  BY <1>3, <1>6, <2>1
<1>8. TrieInv'
  <2>1. cursor' \in 1..(Len(Candidates) + 1)
    BY <1>1, <1>3, <1>4
  <2>2. \A j \in 1..(cursor' - 1) : Candidates'[j].folder \in ToSet(arena')
    BY <1>2, <1>7
  <2>3. ToSet(arena)' = ToSet(arena')
    BY DEF ToSet
  <2> QED  BY <1>1, <1>2, <1>3, <1>6, <2>1, <2>2, <2>3 DEF TrieInv
<1> QED
  BY <1>1, <1>8, OutsideFrame DEF IInv

LEMMA InsertedStep == ASSUME IInv, Inserted PROVE IInv'
<1>1. /\ phase = "insert" /\ phase' = "aggregate" /\ cursor > Len(Candidates) /\ cursor' = Len(arena)
      /\ UNCHANGED input /\ arena' = arena
  BY DEF Inserted, trie
<1>2. Candidates' = Candidates /\ IsTrie' = IsTrie
  BY <1>1, SameInput
<1>3. /\ IsTrie /\ cursor \in 1..(Len(Candidates) + 1) /\ Tree(arena) /\ Len(Candidates) \in Nat
      /\ \A j \in 1..(cursor - 1) : Candidates[j].folder \in ToSet(arena)
      /\ DOMAIN Candidates = 1..Len(Candidates)
  BY <1>1, CandidatesAre DEF IInv, TrieInv
<1>4. cursor - 1 = Len(Candidates)
  BY <1>1, <1>3
<1>5. \A p \in ToSet(Candidates) : p.folder \in ToSet(arena)
  BY <1>3, <1>4 DEF ToSet
<1>6. Len(arena) \in Nat
  BY <1>3 DEF Tree
<1>7. (cursor' + 1)..Len(arena) = {} /\ cursor' \in 0..Len(arena)
  BY <1>1, <1>6
<1>8. TrieInv'
  BY <1>1, <1>2, <1>3, <1>5, <1>7 DEF TrieInv, Told
<1> QED
  BY <1>1, <1>8, OutsideFrame DEF IInv

LEMMA AggregatedStep == ASSUME IInv, Aggregated PROVE IInv'
<1>1. /\ phase = "aggregate" /\ phase' = "resolve" /\ cursor = 0
      /\ UNCHANGED input /\ UNCHANGED <<arena, full, excluding>>
  BY DEF Aggregated, trie
<1>2. Candidates' = Candidates /\ IsTrie' = IsTrie /\ Depth' = Depth
  BY <1>1, SameInput
<1>3. /\ IsTrie /\ Tree(arena)
      /\ \A p \in ToSet(Candidates) : p.folder \in ToSet(arena)
      /\ Told(arena, (cursor + 1)..Len(arena), full, excluding, ToSet(Candidates), Depth)
  BY <1>1 DEF IInv, TrieInv
<1>4. (cursor + 1)..Len(arena) = 1..Len(arena)
  BY <1>1
<1>5. Told(arena, 1..Len(arena), full, excluding, ToSet(Candidates), Depth)
  BY <1>3, <1>4
<1>6. TrieInv'
  BY <1>1, <1>2, <1>3, <1>5 DEF TrieInv
<1> QED
  BY <1>1, <1>6, OutsideFrame DEF IInv

\* A node that is reached from behind knows its subtree, since its children, which
\* come later in the arena, know theirs.
LEMMA AggregateStep == ASSUME IInv, Aggregate PROVE IInv'
<1> DEFINE n == arena[cursor]
           local == LocalOf(n)
           children == ChildrenOf(n)
           aggs == [i \in DOMAIN children |->
                      IF children[i] \in DOMAIN full THEN full[children[i]] ELSE NoCandidates]
           Position(c) == CHOOSE i \in DOMAIN children : children[i] = c
           C == ToSet(Candidates)
           I == (cursor + 1)..Len(arena)
           own == {p \in C : p.folder = n}
           k == Len(children)
           P == [i \in 1..k |-> Below(children[i], C)]
<1>1. /\ phase = "aggregate" /\ phase' = "aggregate" /\ cursor > 0 /\ cursor' = cursor - 1
      /\ UNCHANGED input /\ arena' = arena
      /\ full' = [f \in DOMAIN full \cup {n} |->
                    IF f = n THEN MergedFrom(local, aggs) ELSE full[f]]
      /\ excluding' = [c \in DOMAIN excluding \cup ToSet(children) |->
                         IF c \in ToSet(children) THEN Excluding(local, aggs, Position(c))
                         ELSE excluding[c]]
  BY DEF Aggregate
<1>2. Candidates' = Candidates /\ IsTrie' = IsTrie /\ Depth' = Depth
  BY <1>1, SameInput
<1>3. /\ InputOK /\ IsTrie /\ Tree(arena) /\ cursor \in 0..Len(arena)
      /\ \A p \in C : p.folder \in ToSet(arena)
      /\ Told(arena, I, full, excluding, C, Depth)
  BY <1>1 DEF IInv, TrieInv
<1>4. /\ arena \in Seq(Folders) /\ IsInjective(arena) /\ Len(arena) \in Nat /\ DOMAIN arena = 1..Len(arena)
      /\ cursor \in 1..Len(arena) /\ n \in ToSet(arena) /\ n \in Folders
  BY <1>1, <1>3 DEF Tree, ToSet
<1>5. /\ children \in Seq(Folders) /\ IsInjective(children) /\ ToSet(children) = Children(arena, n)
      /\ k \in Nat /\ DOMAIN children = 1..k
  <2>1. /\ children \in Seq(Folders) /\ IsInjective(children)
        /\ ToSet(children) = ToSet(arena) \cap {f \in ToSet(arena) : f # <<>> /\ Front(f) = n}
    BY <1>4, SelectedSpec DEF ChildrenOf
  <2> QED  BY <2>1 DEF Children
<1>6. C \subseteq Paths /\ C \in SUBSET FilePaths /\ Measures(Depth, Paths)
  BY <1>3, CandidatesAre, PathsAre
<1>7. Knows(local, own, Depth)
  <2>1. Candidates \in Seq(Paths) /\ IsInjective(Candidates)
    BY <1>3, CandidatesAre
  <2>2. /\ Locals(n) \in Seq(Paths) /\ IsInjective(Locals(n))
        /\ ToSet(Locals(n)) = C \cap {p \in C : p.folder = n}
    BY <2>1, SelectedSpec DEF Locals
  <2>3. \A p \in Paths : Depth[p] = Len(p.folder)
    BY <1>3, PathsAre
  <2>4. Knows(LocalOf(n), ToSet(Locals(n)), Depth)
    BY <1>6, <2>2, <2>3, LocalsKnow DEF LocalOf
  <2>5. ToSet(Locals(n)) = own
    BY <2>2
  <2> HIDE DEF own
  <2> QED  BY <2>4, <2>5
<1> HIDE DEF n, local, children, C
<1>8. /\ Apart(P, k, C) /\ own \subseteq C
      /\ \A i \in 1..k : P[i] \cap own = {}
      /\ own \cup Together(P, 1..k) = Below(n, C)
      /\ \A i \in 1..k : own \cup Together(P, (1..k) \ {i}) = Below(n, C) \ Below(children[i], C)
  <2>1. /\ \A i \in 1..Len(children) : P[i] = Below(children[i], C)
        /\ \A p : p \in own <=> p \in C /\ p.folder = n
    OBVIOUS
  <2>2. Tree(arena) /\ \A p \in C : p.folder \in ToSet(arena)
    BY <1>3
  <2> HIDE DEF P, own
  <2>3. Splits(P, own, children, n, C)
    BY <1>4, <1>5, <1>6, <2>1, <2>2, Subtrees
  <2> QED  BY <2>3 DEF Splits
<1>9. Apart(P, k, Paths) /\ own \subseteq Paths
  BY <1>6, <1>8 DEF Apart
<1>10. \A i \in 1..k : children[i] \in ToSet(children) /\ children[i] \in DOMAIN full
                       /\ Knows(full[children[i]], Below(children[i], C), Depth)
  <2> TAKE i \in 1..k
  <2>1. children[i] \in Children(arena, n) /\ children[i] \in ToSet(children)
    BY <1>5 DEF ToSet
  <2>2. PICK j \in 1..Len(arena) : children[i] = arena[j]
    BY <1>4, <2>1 DEF Children, ToSet
  <2>3. arena[j] # <<>> /\ Front(arena[j]) = arena[cursor]
    BY <2>1, <2>2 DEF Children, n
  <2>4. cursor < j
    BY <1>3, <1>4, <2>3 DEF Tree
  <2>5. j \in I
    BY <1>4, <2>4
  <2> QED  BY <1>3, <2>1, <2>2, <2>5 DEF Told
<1> DEFINE Y == {aggs[i] : i \in 1..k}
<1>11. /\ aggs \in Seq(Y) /\ Len(aggs) = k
       /\ \A i \in 1..k : aggs[i] = full[children[i]]
  <2>1. aggs = [i \in 1..k |-> IF children[i] \in DOMAIN full THEN full[children[i]] ELSE NoCandidates]
    BY <1>5
  <2>2. \A i \in 1..k : aggs[i] = full[children[i]]
    BY <1>10, <2>1
  <2>3. aggs \in [1..k -> Y]
    BY <2>1
  <2>4. aggs \in Seq(Y)
    BY <1>5, <2>3
  <2>5. Len(aggs) = k
    BY <1>5, <2>1
  <2> QED  BY <2>2, <2>4, <2>5
<1>12. \A i \in 1..k : P[i] \cap own = {} /\ Knows(aggs[i], P[i], Depth)
  BY <1>8, <1>10, <1>11
<1> HIDE DEF aggs, P, own, Y
<1>13. Knows(MergedFrom(local, aggs), Below(n, C), Depth)
  <2>1. Knows(MergedFrom(local, aggs), own \cup Together(P, 1..k), Depth)
    BY <1>5, <1>6, <1>7, <1>9, <1>11, <1>12, MergedFromKnows
  <2> QED  BY <1>8, <2>1
<1>14. \A i \in 1..k : Knows(Excluding(local, aggs, i), Below(n, C) \ Below(children[i], C), Depth)
  <2> TAKE i \in 1..k
  <2>1. Knows(Excluding(local, aggs, i), own \cup Together(P, (1..Len(aggs)) \ {i}), Depth)
    BY <1>6, <1>7, <1>9, <1>11, <1>12, ExcludingKnows
  <2>2. Knows(Excluding(local, aggs, i), own \cup Together(P, (1..k) \ {i}), Depth)
    BY <1>11, <2>1
  <2> QED  BY <1>8, <2>2
<1>15. ASSUME NEW c \in ToSet(children)
       PROVE  /\ c \in DOMAIN excluding'
              /\ Knows(excluding'[c], Below(n, C) \ Below(c, C), Depth)
  <2>1. \E i \in DOMAIN children : children[i] = c
    BY DEF ToSet
  <2>2. Position(c) \in 1..k /\ children[Position(c)] = c
    BY <1>5, <2>1
  <2>3. excluding'[c] = Excluding(local, aggs, Position(c)) /\ c \in DOMAIN excluding'
    BY <1>1
  <2> HIDE DEF Position
  <2> QED  BY <1>14, <2>2, <2>3
<1>16. n \in DOMAIN full' /\ full'[n] = MergedFrom(local, aggs)
  BY <1>1
<1>17. ASSUME NEW j \in I
       PROVE  /\ arena[j] \in DOMAIN full' /\ full'[arena[j]] = full[arena[j]]
              /\ \A c \in Children(arena, arena[j]) :
                   c \in DOMAIN excluding' /\ excluding'[c] = excluding[c]
  <2>1. arena[j] \in DOMAIN full /\ \A c \in Children(arena, arena[j]) : c \in DOMAIN excluding
    BY <1>3 DEF Told
  <2>2. arena[j] # n
    <3>1. j \in 1..Len(arena) /\ j # cursor
      BY <1>4
    <3> QED  BY <1>4, <3>1 DEF IsInjective, n
  <2>3. \A c \in Children(arena, arena[j]) : c \notin ToSet(children)
    BY <1>5, <2>2 DEF Children
  <2> QED  BY <1>1, <2>1, <2>2, <2>3
<1>18. Told(arena, (cursor' + 1)..Len(arena), full', excluding', C, Depth)
  <2>1. \A j \in (cursor' + 1)..Len(arena) : j \in I \/ j = cursor
    BY <1>1, <1>4
  <2>2. ASSUME NEW j \in I
        PROVE  /\ arena[j] \in DOMAIN full'
               /\ Knows(full'[arena[j]], Below(arena[j], C), Depth)
               /\ \A c \in Children(arena, arena[j]) :
                    /\ c \in DOMAIN excluding'
                    /\ Knows(excluding'[c], Below(arena[j], C) \ Below(c, C), Depth)
    BY <1>3, <1>17 DEF Told
  <2>3. /\ arena[cursor] \in DOMAIN full'
        /\ Knows(full'[arena[cursor]], Below(arena[cursor], C), Depth)
        /\ \A c \in Children(arena, arena[cursor]) :
             /\ c \in DOMAIN excluding'
             /\ Knows(excluding'[c], Below(arena[cursor], C) \ Below(c, C), Depth)
    BY <1>5, <1>13, <1>15, <1>16 DEF n
  <2> QED  BY <2>1, <2>2, <2>3 DEF Told
<1>19. cursor' \in 0..Len(arena)
  BY <1>1, <1>4
<1>20. TrieInv'
  BY <1>1, <1>2, <1>3, <1>18, <1>19 DEF TrieInv, C
<1> QED
  BY <1>1, <1>3, <1>20, OutsideFrame DEF IInv

-----------------------------------------------------------------------------
(* The steps of a lookup *)

LEMMA LookupFrame ==
  ASSUME IInv, phase \in {"scan", "probe", "climb"}, phase' \in {"scan", "probe", "climb"},
         UNCHANGED <<input, trie, want>>
  PROVE  InputOK' /\ TrieInv' /\ LookupInv' /\ AnswerStands'
<1>1. InputOK' /\ TrieInv'
  BY InputFrame, TrieFrame DEF IInv
<1>2. AnswerStands'
  BY DEF AnswerStands
<1>3. /\ link' = link /\ want' = want /\ IsExact' = IsExact /\ IsImplied' = IsImplied
      /\ Closest(Matching(link.ext))' = Closest(Matching(link.ext))
  <2>1. UNCHANGED input /\ link' = link /\ from' = from
    BY DEF input
  <2>2. Matching(link.ext)' = Matching(link.ext)
    BY <2>1, SameInput DEF Matching
  <2>3. Closest(Matching(link.ext))' = Closest(Matching(link.ext))
    BY <2>1, <2>2 DEF Closest
  <2> QED  BY <2>1, <2>3, SameInput
<1>4. LookupInv'
  <2> DEFINE own == Closest(Matching(link.ext))
  <2>1. own' = own
    BY <1>3
  <2>2. LookupInv' <=>
          (phase' \in {"scan", "probe", "climb"} =>
             /\ link' # AnchorOnly /\ ~IsExact' /\ ~IsImplied' /\ link'.folder = <<>>
             /\ want' \in Buckets
             /\ want' # link'.ext => want' = AnyExt /\ (link'.ext = NoExt \/ ~IsUnique(own')))
    BY DEF LookupInv, IsUnique, Buckets
  <2>3. /\ link # AnchorOnly /\ ~IsExact /\ ~IsImplied /\ link.folder = <<>>
        /\ want \in Buckets
        /\ want # link.ext => want = AnyExt /\ (link.ext = NoExt \/ ~IsUnique(own))
    BY DEF IInv, LookupInv
  <2> HIDE DEF own
  <2> QED  BY <1>3, <2>1, <2>2, <2>3
<1> QED
  BY <1>1, <1>2, <1>4

\* One more candidate is nearer than the closest so far, as near, or farther.
LEMMA ClosestGrows ==
  ASSUME InputOK, NEW D \in SUBSET Paths, NEW p \in Paths, p \notin D
  PROVE  /\ D = {} => Closest(D \cup {p}) = {p}
         /\ \A c \in Closest(D) :
              /\ Away[p] < Away[c] => Closest(D \cup {p}) = {p}
              /\ Away[c] < Away[p] => Closest(D \cup {p}) = Closest(D)
              /\ Away[c] = Away[p] => Closest(D \cup {p}) = Closest(D) \cup {p}
<1> DEFINE E == D \cup {p}
<1>1. Closest(D) = Least(D, Away) /\ Closest(E) = Least(E, Away)
  <2>1. E \in SUBSET Paths
    OBVIOUS
  <2> QED  BY <2>1, ClosestIs
<1>2. \A q \in E : Away[q] \in Nat
  BY PathsAre DEF Measures
<1>3. D = {} => Least(E, Away) = {p}
  BY <1>2 DEF Least
<1>4. ASSUME NEW c \in Least(D, Away)
      PROVE  /\ Away[p] < Away[c] => Least(E, Away) = {p}
             /\ Away[c] < Away[p] => Least(E, Away) = Least(D, Away)
             /\ Away[c] = Away[p] => Least(E, Away) = Least(D, Away) \cup {p}
  <2> DEFINE a(q) == Away[q]
  <2>1. c \in D /\ \A q \in D : a(c) <= a(q)
    BY DEF Least
  <2>2. /\ \A q : q \in Least(D, Away) <=> q \in D /\ \A u \in D : a(q) <= a(u)
        /\ \A q : q \in Least(E, Away) <=> q \in E /\ \A u \in E : a(q) <= a(u)
    BY DEF Least
  <2>3. \A q \in E : a(q) \in Nat
    BY <1>2
  <2>4. \A q : q \in E <=> q \in D \/ q = p
    OBVIOUS
  <2> HIDE DEF a, E
  <2>5. a(p) < a(c) => Least(E, Away) = {p}
    BY <2>1, <2>2, <2>3, <2>4
  <2>6. a(c) < a(p) => Least(E, Away) = Least(D, Away)
    <3> SUFFICES ASSUME a(c) < a(p) PROVE \A q : q \in Least(E, Away) <=> q \in Least(D, Away)
      OBVIOUS
    <3> QED  BY <2>1, <2>2, <2>3, <2>4
  <2>7. a(c) = a(p) => Least(E, Away) = Least(D, Away) \cup {p}
    <3> SUFFICES ASSUME a(c) = a(p)
                 PROVE  \A q : q \in Least(E, Away) <=> q \in Least(D, Away) \/ q = p
      OBVIOUS
    <3> QED  BY <2>1, <2>2, <2>3, <2>4
  <2> QED  BY <2>5, <2>6, <2>7 DEF a
<1> QED
  BY <1>1, <1>3, <1>4

\* The scan has seen one candidate more.
LEMMA ScanStep == ASSUME IInv, Scan PROVE IInv'
<1> DEFINE p == Candidates[cursor]
           fits == want \in {AnyExt, p.ext}
           Q == IF fits THEN Passed \cup {p} ELSE Passed
<1>1. /\ phase = "scan" /\ phase' = "scan" /\ cursor <= Len(Candidates) /\ cursor' = cursor + 1
      /\ UNCHANGED <<input, trie, want>>
      /\ fits => Scanned(p, Distance(from, p.folder))
      /\ ~fits => nearest' = nearest /\ tied' = tied
  BY DEF Scan, scan
<1>2. Candidates' = Candidates /\ from' = from
  BY <1>1, SameInput DEF input
<1>3. InputOK /\ cursor \in 1..Len(Candidates) /\ Len(Candidates) \in Nat
  <2>1. InputOK /\ Len(Candidates) \in Nat /\ cursor \in 1..(Len(Candidates) + 1)
    BY <1>1, CandidatesAre DEF IInv, ScanInv
  <2> QED  BY <1>1, <2>1
<1>4. /\ p \in Paths /\ p \in FilePaths /\ p \notin Passed /\ Passed \in SUBSET Paths
      /\ Passed \subseteq FilePaths
  <2>1. /\ IsInjective(Candidates) /\ DOMAIN Candidates = 1..Len(Candidates)
        /\ ToSet(Candidates) \subseteq Paths /\ ToSet(Candidates) \subseteq FilePaths
        /\ \A i \in 1..Len(Candidates) : Candidates[i] \in ToSet(Candidates)
    BY <1>3, CandidatesAre
  <2>2. \A j \in 1..(cursor - 1) : j \in 1..Len(Candidates) /\ j # cursor
    BY <1>3
  <2>3. \A j \in 1..(cursor - 1) : Candidates[j] # p
    BY <1>3, <2>1, <2>2 DEF IsInjective
  <2> QED  BY <1>3, <2>1, <2>2, <2>3 DEF Passed
<1>5. Distance(from, p.folder) = Away[p] /\ Away[p] \in Nat
  <2>1. from \in Folders /\ p.folder \in Folders /\ Away[p] = Hops(from, p.folder) /\ Away[p] \in Nat
    BY <1>3, <1>4, PathsAre DEF InputOK, Measures
  <2> QED  BY <2>1, DistancesAgree
<1>6. Passed' = Q
  <2>1. 1..(cursor' - 1) = 1..(cursor - 1) \cup {cursor}
    BY <1>1, <1>3
  <2> QED  BY <1>1, <1>2, <2>1 DEF Passed
<1>7. /\ tied \in BOOLEAN
      /\ nearest = None => Passed = {}
      /\ nearest # None => /\ nearest.path \in Closest(Passed)
                           /\ nearest.distance = Away[nearest.path]
                           /\ tied <=> Closest(Passed) # {nearest.path}
                           /\ nearest.path \in Passed /\ nearest.path \in Paths
                           /\ nearest.distance \in Nat
  <2>1. /\ tied \in BOOLEAN
        /\ nearest = None => Passed = {}
        /\ nearest # None => /\ nearest.path \in Closest(Passed)
                             /\ nearest.distance = Hops(from, nearest.path.folder)
                             /\ tied <=> Closest(Passed) # {nearest.path}
    BY <1>1 DEF IInv, ScanInv
  <2>2. Closest(Passed) \subseteq Passed
    BY DEF Closest
  <2>3. \A q \in Paths : Away[q] = Hops(from, q.folder) /\ Away[q] \in Nat
    BY <1>3, PathsAre DEF Measures
  <2> QED  BY <1>4, <2>1, <2>2, <2>3
<1> DEFINE known == /\ tied' \in BOOLEAN
                    /\ nearest' = None => Q = {}
                    /\ nearest' # None => /\ nearest'.path \in Closest(Q)
                                          /\ nearest'.distance = Away[nearest'.path]
                                          /\ tied' <=> Closest(Q) # {nearest'.path}
<1>8. ASSUME ~fits PROVE known
  <2>1. Q = Passed /\ nearest' = nearest /\ tied' = tied
    BY <1>1, <1>8
  <2> HIDE DEF Q
  <2> QED  BY <1>7, <2>1
<1>9. ASSUME fits PROVE known
  <2>1. Q = Passed \cup {p} /\ Scanned(p, Away[p])
    BY <1>1, <1>5, <1>9
  <2> HIDE DEF Q
  <2>2. CASE nearest = None \/ Away[p] < nearest.distance
    <3>1. nearest' = [distance |-> Away[p], path |-> p] /\ tied' = FALSE
      BY <2>1, <2>2 DEF Scanned
    <3>2. Closest(Q) = {p}
      BY ZenonT(90), <1>3, <1>4, <1>7, <2>1, <2>2, ClosestGrows
    <3>3. nearest'.path = p /\ nearest'.distance = Away[p]
      BY <3>1
    <3>4. nearest' # None
      <4>1. [distance |-> Away[p], path |-> p] \in [distance : Nat, path : FilePaths]
        BY <1>4, <1>5
      <4> QED  BY <3>1, <4>1, NoneAssumption
    <3> QED  BY <3>1, <3>2, <3>3, <3>4
  <2>3. CASE nearest # None /\ ~(Away[p] < nearest.distance)
    <3>1. nearest' = nearest /\ tied' = (tied \/ Away[p] = nearest.distance)
      BY <2>1, <2>3 DEF Scanned
    <3> DEFINE c == nearest.path
    <3>2. /\ c \in Closest(Passed) /\ c \in Passed /\ c # p
          /\ nearest.distance = Away[c] /\ Away[c] \in Nat
      BY <1>4, <1>7, <2>3
    <3>3. CASE Away[p] = Away[c]
      <4>1. Closest(Q) = Closest(Passed) \cup {p}
        BY <1>3, <1>4, <2>1, <3>2, <3>3, ClosestGrows
      <4> QED  BY <2>3, <3>1, <3>2, <3>3, <4>1
    <3>4. CASE Away[c] < Away[p]
      <4>1. Closest(Q) = Closest(Passed)
        BY <1>3, <1>4, <2>1, <3>2, <3>4, ClosestGrows
      <4>2. tied' = tied
        <5>1. Away[p] # nearest.distance
          BY <1>5, <3>2, <3>4
        <5> QED  BY <1>7, <3>1, <5>1
      <4> QED  BY <1>7, <2>3, <3>1, <3>2, <4>1, <4>2
    <3> QED  BY <1>5, <2>3, <3>2, <3>3, <3>4
  <2> QED  BY <2>2, <2>3
<1>10. Closest(Passed)' = Closest(Q)
  <2> HIDE DEF Q
  <2> QED  BY <1>2, <1>6 DEF Closest
<1>11. nearest' # None => nearest'.distance = Hops(from', nearest'.path.folder)
  <2> SUFFICES ASSUME nearest' # None PROVE nearest'.distance = Hops(from', nearest'.path.folder)
    OBVIOUS
  <2>1. known
    BY <1>8, <1>9
  <2>2. nearest'.path \in Q /\ nearest'.distance = Away[nearest'.path]
    BY <2>1 DEF Closest
  <2>3. nearest'.path \in Paths
    BY <1>4, <2>2
  <2> QED  BY <1>2, <1>3, <2>2, <2>3, PathsAre
<1>12. cursor' \in 1..(Len(Candidates') + 1)
  BY <1>1, <1>2, <1>3
<1>13. ScanInv'
  <2>1. known
    BY <1>8, <1>9
  <2> HIDE DEF Q
  <2> QED  BY <1>6, <1>10, <1>11, <1>12, <2>1 DEF ScanInv
<1>14. WalkInv'
  BY <1>1 DEF WalkInv
<1> QED
  BY <1>1, <1>13, <1>14, LookupFrame DEF IInv

\* The scan has seen all of them.
LEMMA ScanEndsStep == ASSUME IInv, ScanEnds PROVE IInv'
<1> DEFINE own == Closest(Matching(want))
           p == IF nearest = None \/ tied THEN None ELSE nearest.path
<1>1. phase = "scan" /\ cursor > Len(Candidates) /\ Reply(p)
  BY DEF ScanEnds
<1>2. InputOK /\ cursor = Len(Candidates) + 1 /\ Len(Candidates) \in Nat
  <2>1. InputOK /\ Len(Candidates) \in Nat /\ cursor \in 1..(Len(Candidates) + 1)
    BY <1>1, CandidatesAre DEF IInv, ScanInv
  <2> QED  BY <1>1, <2>1
<1>3. Passed = Matching(want)
  <2>1. DOMAIN Candidates = 1..(cursor - 1)
    BY <1>2, CandidatesAre
  <2>2. {Candidates[j] : j \in 1..(cursor - 1)} = ToSet(Candidates)
    BY <2>1 DEF ToSet
  <2> QED  BY <2>2 DEF Passed, Matching
<1>4. /\ nearest = None => Matching(want) = {}
      /\ nearest # None => nearest.path \in own /\ (tied <=> own # {nearest.path})
  BY <1>1, <1>3 DEF IInv, ScanInv
<1>5. IF IsUnique(own) THEN p \in own ELSE p = None
  <2>1. CASE nearest = None
    <3>1. own = {}
      BY <1>4, <2>1 DEF Closest
    <3>2. ~IsUnique(own)
      BY <3>1, FS_EmptySet DEF IsUnique
    <3> HIDE DEF own
    <3> QED  BY <2>1, <3>2
  <2>2. CASE nearest # None /\ tied
    <3>1. nearest.path \in own /\ own # {nearest.path}
      BY <1>4, <2>2
    <3>2. IsFiniteSet(own)
      <4>1. IsFiniteSet(Matching(want)) /\ own \subseteq Matching(want)
        BY <1>2, MatchingAre DEF Closest
      <4> QED  BY <4>1, FS_Subset
    <3> HIDE DEF own
    <3>3. ~IsUnique(own)
      <4> SUFFICES ASSUME IsUnique(own) PROVE FALSE
        OBVIOUS
      <4>1. \E x : own = {x}
        BY <3>2, FS_Singleton DEF IsUnique
      <4> QED  BY <3>1, <4>1
    <3> QED  BY <2>2, <3>3
  <2>3. CASE nearest # None /\ ~tied
    <3>1. own = {nearest.path}
      BY <1>4, <2>3
    <3> HIDE DEF own
    <3>2. p \in own
      BY <2>3, <3>1
    <3>3. IsUnique(own)
      BY <3>1, FS_Singleton DEF IsUnique
    <3> QED  BY <3>2, <3>3
  <2> QED  BY <2>1, <2>2, <2>3
<1> QED
  BY <1>1, <1>5, ReplyStep

\* The folder above one on the way.
LEMMA OneUp ==
  ASSUME InputOK, NEW f, OnTheWay(f), f # <<>>
  PROVE  /\ OnTheWay(Front(f)) /\ Len(f) \in Nat /\ Len(f) # 0 /\ Len(f) <= Len(from)
         /\ Len(Front(f)) = Len(f) - 1 /\ Len(from) \in Nat
<1>1. /\ f \in Folders /\ Len(f) \in Nat /\ Len(f) # 0
      /\ from \in Folders /\ Len(from) \in Nat
      /\ Len(f) <= Len(from) /\ SubSeq(from, 1, Len(f)) = f
  BY DEF InputOK, OnTheWay, Folders
<1> DEFINE d == Len(f)
<1>2. d \in 0..Len(from) /\ d - 1 \in 0..Len(from)
  BY <1>1
<1>3. Front(SubSeq(from, 1, d)) = SubSeq(from, 1, d - 1)
  BY <1>1, <1>2, StartsOf
<1>4. SubSeq(from, 1, d - 1) \in Folders /\ Len(SubSeq(from, 1, d - 1)) = d - 1
  BY <1>1, <1>2, StartsOf
<1>5. Front(f) = SubSeq(from, 1, d - 1)
  BY <1>1, <1>3
<1>6. Front(f) \in Folders /\ Len(Front(f)) = d - 1
  BY <1>4, <1>5
<1>7. d - 1 <= Len(from)
  BY <1>1
<1> QED
  BY <1>1, <1>5, <1>6, <1>7 DEF OnTheWay

\* The walk comes to the lowest folder of the trie, which has a root.
LEMMA ProbeStep == ASSUME IInv, Probe PROVE IInv'
<1>1. /\ phase = "probe" /\ phase' \in {"probe", "climb"}
      /\ UNCHANGED <<input, trie, want>> /\ prev_child' = prev_child /\ best' = best
      /\ arena' = arena
      /\ IF Contains(arena, node)
         THEN phase' = "climb" /\ node' = node /\ up_steps' = up_steps
         ELSE phase' = "probe" /\ node' = Front(node) /\ up_steps' = up_steps + 1
  BY DEF Probe, trie
<1>2. /\ InputOK /\ IsTrie /\ node # None /\ OnTheWay(node) /\ up_steps = Len(from) - Len(node)
      /\ prev_child = None /\ best = EMPTY /\ LowestKnown(node) /\ Tree(arena)
  BY <1>1 DEF IInv, WalkInv, TrieInv
<1>3. IsTrie' = IsTrie /\ from' = from
  BY <1>1, SameInput DEF input
<1>4. Contains(arena, node) <=> node \in ToSet(arena)
  <2>1. DOMAIN arena = 1..Len(arena)
    BY <1>2 DEF Tree
  <2> QED  BY <2>1 DEF Contains, ToSet
<1>5. ASSUME node \in ToSet(arena) PROVE WalkInv'
  <2>1. phase' = "climb" /\ node' = node /\ up_steps' = up_steps
    BY <1>1, <1>4, <1>5
  <2>2. OnTheWay(node)' /\ LowestKnown(node)'
    BY <1>1, <1>2, <1>3, <2>1 DEF OnTheWay, LowestKnown
  <2>3. ToSet(arena)' = ToSet(arena)
    BY <1>1
  <2> QED  BY <1>1, <1>2, <1>3, <1>5, <2>1, <2>2, <2>3 DEF WalkInv
<1>6. ASSUME node \notin ToSet(arena) PROVE WalkInv'
  <2>1. phase' = "probe" /\ node' = Front(node) /\ up_steps' = up_steps + 1
    BY <1>1, <1>4, <1>6
  <2>2. node # <<>>
    BY <1>2, <1>6 DEF Tree
  <2>3. /\ OnTheWay(Front(node)) /\ Len(node) \in Nat /\ Len(node) # 0 /\ Len(node) <= Len(from)
        /\ Len(Front(node)) = Len(node) - 1 /\ Len(from) \in Nat
    BY SMTT(90), <1>2, <2>2, OneUp
  <2>4. LowestKnown(Front(node))
    <3> SUFFICES ASSUME NEW n \in (Len(Front(node)) + 1)..Len(from)
                 PROVE  SubSeq(from, 1, n) \notin ToSet(arena)
      BY DEF LowestKnown
    <3>1. n = Len(node) \/ n \in (Len(node) + 1)..Len(from)
      BY <2>3
    <3>2. SubSeq(from, 1, Len(node)) = node
      BY <1>2 DEF OnTheWay
    <3> QED  BY <1>2, <1>6, <3>1, <3>2 DEF LowestKnown
  <2>5. OnTheWay(node)' /\ LowestKnown(node)'
    BY <1>1, <1>3, <2>1, <2>3, <2>4 DEF OnTheWay, LowestKnown
  <2>6. node' # None
    BY <2>1, <2>3, NoneAssumption DEF OnTheWay
  <2>7. up_steps' = Len(from) - Len(node')
    BY <1>2, <2>1, <2>3
  <2> QED  BY <1>1, <1>2, <1>3, <2>1, <2>5, <2>6, <2>7 DEF WalkInv
<1>7. ScanInv'
  BY <1>1 DEF ScanInv
<1> QED
  BY <1>1, <1>5, <1>6, <1>7, LookupFrame DEF IInv

\* A node that is told of knows its subtree, and what is outside each child's.
LEMMA NodeKnows ==
  ASSUME InputOK, NEW I, Told(arena, I, full, excluding, ToSet(Candidates), Depth),
         NEW j \in I, NEW e \in Buckets
  PROVE  /\ IsAgg(full[arena[j]][e], Below(arena[j], Matching(e)), Depth)
         /\ \A c \in Children(arena, arena[j]) :
              IsAgg(excluding[c][e], Below(arena[j], Matching(e)) \ Below(c, Matching(e)), Depth)
<1> DEFINE C == ToSet(Candidates)
           n == arena[j]
<1>1. Told(arena, I, full, excluding, C, Depth)
  OBVIOUS
<1>2. Matching(e) = OfExt(C, e)
  BY MatchingAre
<1>3. OfExt(Below(n, C), e) = Below(n, OfExt(C, e))
  BY DEF OfExt, Below
<1>4. \A c : OfExt(Below(n, C) \ Below(c, C), e) = Below(n, OfExt(C, e)) \ Below(c, OfExt(C, e))
  BY DEF OfExt, Below
<1> HIDE DEF C
<1>5. Knows(full[n], Below(n, C), Depth)
  BY <1>1 DEF Told
<1>6. \A c \in Children(arena, n) : Knows(excluding[c], Below(n, C) \ Below(c, C), Depth)
  BY <1>1 DEF Told
<1>7. IsAgg(full[n][e], Below(n, Matching(e)), Depth)
  BY <1>2, <1>3, <1>5 DEF Knows
<1>8. ASSUME NEW c \in Children(arena, n)
      PROVE  IsAgg(excluding[c][e], Below(n, Matching(e)) \ Below(c, Matching(e)), Depth)
  <2>1. IsAgg(excluding[c][e], OfExt(Below(n, C) \ Below(c, C), e), Depth)
    BY <1>6 DEF Knows
  <2> QED  BY <1>2, <1>4, <2>1
<1> QED
  BY <1>7, <1>8

\* In a trie that is built every node does.
LEMMA NodesKnow ==
  ASSUME IInv, phase \notin {"insert", "aggregate"}, IsTrie, NEW n \in ToSet(arena),
         NEW e \in Buckets
  PROVE  /\ IsAgg(full[n][e], Below(n, Matching(e)), Depth)
         /\ \A c \in Children(arena, n) :
              IsAgg(excluding[c][e], Below(n, Matching(e)) \ Below(c, Matching(e)), Depth)
<1>1. Told(arena, 1..Len(arena), full, excluding, ToSet(Candidates), Depth)
  BY DEF IInv, TrieInv
<1>2. PICK j \in 1..Len(arena) : arena[j] = n
  BY DEF IInv, TrieInv, Tree, ToSet
<1> QED
  BY <1>1, <1>2, NodeKnows DEF IInv

\* What is below a folder on the way, and not below the next one, is as far away as
\* that folder and its depth below it.
LEMMA AwayBelow ==
  ASSUME InputOK, NEW f, OnTheWay(f), NEW p \in Paths, p \in Below(f, Paths),
         Len(f) + 1 <= Len(from) /\ Len(f) + 1 <= Len(p.folder) =>
           SubSeq(from, 1, Len(f) + 1) # SubSeq(p.folder, 1, Len(f) + 1)
  PROVE  /\ Len(f) \in Nat /\ Len(from) \in Nat /\ Depth[p] \in Nat
         /\ Len(f) <= Depth[p] /\ Len(f) <= Len(from)
         /\ Away[p] = (Len(from) - Len(f)) + (Depth[p] - Len(f))
<1> DEFINE a == from
           b == p.folder
           d == Len(f)
<1>1. /\ a \in Folders /\ b \in Folders /\ Len(a) \in Nat /\ Len(b) \in Nat /\ d \in Nat
      /\ Depth[p] = Len(b) /\ Away[p] = Hops(a, b)
      /\ d <= Len(a) /\ SubSeq(a, 1, d) = f
  <2>1. a \in Folders /\ f \in Folders /\ d <= Len(a) /\ SubSeq(a, 1, d) = f
    BY DEF InputOK, OnTheWay
  <2>2. b \in Folders /\ Depth[p] = Len(b) /\ Away[p] = Hops(a, b)
    BY PathsAre
  <2> QED  BY <2>1, <2>2 DEF Folders
<1>2. d <= Len(b) /\ SubSeq(b, 1, d) = f
  BY BelowIs DEF OnTheWay
<1> HIDE DEF a, b, d
<1>3. PICK k \in Nat : /\ k <= Len(a) /\ k <= Len(b)
                       /\ \A n \in Nat : n <= Len(a) /\ n <= Len(b) =>
                            (SubSeq(a, 1, n) = SubSeq(b, 1, n) <=> n <= k)
  BY <1>1, InCommon
<1>4. d <= k
  BY <1>1, <1>2, <1>3
<1>5. ~(d + 1 <= k)
  <2> SUFFICES ASSUME d + 1 <= k PROVE FALSE
    OBVIOUS
  <2>1. d + 1 \in Nat /\ d + 1 <= Len(a) /\ d + 1 <= Len(b)
    BY <1>1, <1>3
  <2>2. SubSeq(a, 1, d + 1) = SubSeq(b, 1, d + 1)
    BY <1>3, <2>1
  <2> QED  BY <2>1, <2>2 DEF a, b, d
<1>6. k = d
  BY <1>1, <1>3, <1>4, <1>5
<1>7. Hops(a, b) = (Len(a) - d) + (Len(b) - d)
  BY <1>1, <1>3, <1>6, DistanceIsHops
<1> QED
  BY <1>1, <1>2, <1>7 DEF a, b, d

\* An aggregate of depths becomes one of distances.
LEMMA Shifted ==
  ASSUME NEW S, NEW D, NEW A, NEW u \in Nat, NEW d \in Nat,
         \A p \in S : D[p] \in Nat /\ d <= D[p] /\ A[p] = u + (D[p] - d),
         NEW agg, IsAgg(agg, S, D), S # {}
  PROVE  IsAgg([agg EXCEPT !.min_depth = u + agg.min_depth - d], S, A)
<1> DEFINE m == agg.min_depth
           b == [agg EXCEPT !.min_depth = u + agg.min_depth - d]
<1>1. /\ agg \in Aggregates /\ m \in Nat
      /\ agg.count = Cardinality(Least(S, D))
      /\ \A p \in S : m <= D[p]
      /\ \E p \in S : m = D[p]
      /\ agg.sample \in Least(S, D)
  BY DEF IsAgg, Aggregates
<1>2. d <= m
  BY <1>1
<1>3. u + m - d \in Nat
  BY <1>1, <1>2
<1>4. b \in Aggregates /\ b.min_depth = u + m - d /\ b.count = agg.count /\ b.sample = agg.sample
  BY <1>1, <1>3 DEF Aggregates
<1> HIDE DEF m, b
<1>5. \A p \in S : u + m - d <= A[p] /\ (m = D[p] => u + m - d = A[p])
  BY <1>1
<1>6. \A p, q \in S : D[p] <= D[q] <=> A[p] <= A[q]
  OBVIOUS
<1>7. Least(S, D) = Least(S, A)
  BY <1>6 DEF Least
<1>8. IsAgg(b, S, A)
  BY <1>1, <1>4, <1>5, <1>7 DEF IsAgg
<1> QED
  BY <1>8 DEF b, m

\* Adding what is seen at a node to what was seen before.
LEMMA SeesMore ==
  ASSUME InputOK, NEW T \in SUBSET Paths, NEW S \in SUBSET Paths, T \cap S = {},
         NEW seen, IsAgg(seen, S, Depth), NEW b, IsAgg(b, T, Away),
         NEW u \in Nat, NEW d \in Nat,
         \A p \in S : Depth[p] \in Nat /\ d <= Depth[p] /\ Away[p] = u + (Depth[p] - d),
         NEW c, c = IF seen.count > 0
                    THEN Nearer(b, [seen EXCEPT !.min_depth = u + seen.min_depth - d])
                    ELSE b
  PROVE  IsAgg(c, T \cup S, Away)
<1>1. CASE S = {}
  <2>1. seen.count = 0
    BY <1>1 DEF IsAgg, EMPTY
  <2>2. c = b /\ T \cup S = T
    BY <1>1, <2>1
  <2> QED  BY <2>2
<1>2. CASE S # {}
  <2>1. IsAgg([seen EXCEPT !.min_depth = u + seen.min_depth - d], S, Away)
    BY <1>2, Shifted
  <2>2. IsFiniteSet(Paths) /\ MaxDepth \in Nat
        /\ \A p \in Paths : p \in FilePaths /\ Away[p] \in Nat /\ Away[p] <= MaxDepth
    BY PathsAre DEF Measures
  <2>3. IsFiniteSet(S) /\ IsFiniteSet(T)
    BY <2>2, FS_Subset
  <2>4. seen.count > 0
    <3>1. seen.count = Cardinality(Least(S, Depth)) /\ Least(S, Depth) # {} /\ seen.count \in Nat
      BY <1>2 DEF IsAgg, Aggregates
    <3>2. IsFiniteSet(Least(S, Depth))
      BY <2>3, FS_Subset DEF Least
    <3>3. Cardinality(Least(S, Depth)) # 0
      BY <3>1, <3>2, FS_EmptySet
    <3> QED  BY <3>1, <3>3
  <2>5. c = Nearer(b, [seen EXCEPT !.min_depth = u + seen.min_depth - d])
    BY <2>4
  <2>6. \A p \in T \cup S : p \in FilePaths /\ Away[p] \in Nat /\ Away[p] <= MaxDepth
    BY <2>2
  <2>7. IsAgg(Nearer(b, [seen EXCEPT !.min_depth = u + seen.min_depth - d]), T \cup S, Away)
    BY <2>1, <2>2, <2>3, <2>6, NearerTells
  <2> QED  BY <2>5, <2>7
<1> QED
  BY <1>1, <1>2

\* One node of the walk: all its candidates at the lowest folder, those outside the
\* child it comes from in the ones above.
LEMMA ClimbSees ==
  ASSUME IInv, phase = "climb", node # None
  PROVE  /\ OnTheWay(node) /\ up_steps = Len(from) - Len(node)
         /\ IF Seen.count > 0
            THEN IsAgg(Nearer(best, [Seen EXCEPT !.min_depth = up_steps + Seen.min_depth - Len(node)]),
                       Below(node, Matching(want)), Away)
            ELSE IsAgg(best, Below(node, Matching(want)), Away)
<1> DEFINE n == node
           M == Matching(want)
           W == Below(n, M)
           d == Len(n)
           u == up_steps
           seen == Seen
           next == IF seen.count > 0
                   THEN Nearer(best, [seen EXCEPT !.min_depth = u + seen.min_depth - d])
                   ELSE best
<1>1. /\ InputOK /\ IsTrie /\ OnTheWay(n) /\ u = Len(from) - d /\ n \in ToSet(arena)
      /\ prev_child = None => best = EMPTY /\ LowestKnown(n)
      /\ prev_child # None =>
           /\ OnTheWay(prev_child) /\ prev_child \in ToSet(arena)
           /\ IF prev_child = <<>> THEN n = None ELSE n = Front(prev_child)
           /\ IsAgg(best, Below(prev_child, M), Away)
      /\ want \in Buckets /\ Tree(arena) /\ n # None
      /\ \A p \in ToSet(Candidates) : p.folder \in ToSet(arena)
  BY DEF IInv, WalkInv, LookupInv, TrieInv
<1>2. /\ M \subseteq Paths /\ M \subseteq ToSet(Candidates)
      /\ \A p \in M : p.folder \in Folders /\ p.folder \in ToSet(arena)
      /\ from \in Folders /\ n \in Folders /\ Len(from) \in Nat /\ d \in Nat /\ u \in Nat
  <2>1. M \subseteq Paths /\ M \subseteq ToSet(Candidates)
    BY <1>1, MatchingAre DEF Matching
  <2>2. \A p \in M : p.folder \in Folders /\ p.folder \in ToSet(arena)
    BY <1>1, <2>1, PathsAre
  <2>3. from \in Folders /\ n \in Folders /\ Len(from) \in Nat /\ d \in Nat /\ d <= Len(from)
    BY <1>1 DEF InputOK, OnTheWay, Folders
  <2>4. u \in Nat
    BY <1>1, <2>3
  <2> QED  BY <2>1, <2>2, <2>3, <2>4
<1>3. /\ IsAgg(full[n][want], W, Depth)
      /\ \A c \in Children(arena, n) : IsAgg(excluding[c][want], W \ Below(c, M), Depth)
  BY <1>1, NodesKnow
<1>4. \A p : p \in W <=> p \in M /\ d <= Len(p.folder) /\ SubSeq(p.folder, 1, d) = n
  BY <1>2, BelowIs
<1>5. ASSUME NEW S \in SUBSET W,
             \A p \in S : d + 1 <= Len(from) /\ d + 1 <= Len(p.folder) =>
               SubSeq(from, 1, d + 1) # SubSeq(p.folder, 1, d + 1)
      PROVE  \A p \in S : Depth[p] \in Nat /\ d <= Depth[p] /\ Away[p] = u + (Depth[p] - d)
  <2> TAKE p \in S
  <2>1. p \in Paths /\ p \in Below(n, Paths)
    BY <1>2, <1>4 DEF Below
  <2>2. /\ Len(from) \in Nat /\ Depth[p] \in Nat /\ d <= Depth[p] /\ d <= Len(from)
        /\ Away[p] = (Len(from) - d) + (Depth[p] - d)
    BY <1>1, <1>5, <2>1, AwayBelow
  <2> QED  BY <1>1, <2>2
<1>6. ASSUME prev_child = None PROVE IsAgg(next, W, Away)
  <2>1. seen = full[n][want] /\ IsAgg(seen, W, Depth)
    BY <1>3, <1>6 DEF Seen
  <2>2. best = EMPTY /\ LowestKnown(n)
    BY <1>1, <1>6
  <2>3. IsAgg(best, {}, Away)
    BY <2>2, InputsAssumption DEF IsAgg, EMPTY, Aggregates
  <2>4. \A p \in W : d + 1 <= Len(from) /\ d + 1 <= Len(p.folder) =>
          SubSeq(from, 1, d + 1) # SubSeq(p.folder, 1, d + 1)
    <3> SUFFICES ASSUME NEW p \in W, d + 1 <= Len(from), d + 1 <= Len(p.folder)
                 PROVE  SubSeq(from, 1, d + 1) # SubSeq(p.folder, 1, d + 1)
      OBVIOUS
    <3>1. d + 1 \in (d + 1)..Len(from)
      BY <1>2
    <3>2. SubSeq(from, 1, d + 1) \notin ToSet(arena)
      BY <2>2, <3>1 DEF LowestKnown
    <3>3. p.folder \in ToSet(arena) /\ p.folder \in Folders
      BY <1>2, <1>4
    <3>4. d + 1 \in 0..Len(p.folder)
      BY <1>2, <3>3 DEF Folders
    <3>5. SubSeq(p.folder, 1, d + 1) \in ToSet(arena)
      BY <1>1, <3>3, <3>4 DEF Tree
    <3> QED  BY <3>2, <3>5
  <2>5. \A p \in W : Depth[p] \in Nat /\ d <= Depth[p] /\ Away[p] = u + (Depth[p] - d)
    BY <1>5, <2>4
  <2>6. W \subseteq Paths
    BY <1>2, <1>4
  <2> DEFINE c == next
             T == {}
  <2>7. T \subseteq Paths /\ T \cap W = {} /\ T \cup W = W /\ IsAgg(best, T, Away)
    BY <2>3
  <2>8. c = IF seen.count > 0
            THEN Nearer(best, [seen EXCEPT !.min_depth = u + seen.min_depth - d]) ELSE best
    OBVIOUS
  <2> HIDE DEF c, T, W, seen, u, d
  <2>9. IsAgg(c, T \cup W, Away)
    BY ZenonT(90), <1>1, <1>2, <2>1, <2>5, <2>6, <2>7, <2>8, SeesMore
  <2> QED  BY <2>7, <2>9 DEF c
<1>7. ASSUME prev_child # None PROVE IsAgg(next, W, Away)
  <2> DEFINE ch == prev_child
             T == Below(ch, M)
             S == W \ T
  <2>1. /\ OnTheWay(ch) /\ ch \in ToSet(arena) /\ ch # <<>> /\ n = Front(ch)
        /\ IsAgg(best, T, Away)
    BY <1>1, <1>7
  <2>2. Len(ch) = d + 1 /\ ch \in Folders /\ SubSeq(from, 1, d + 1) = ch
    <3>1. Len(ch) \in Nat /\ Len(n) = Len(ch) - 1
      BY <1>1, <2>1, OneUp
    <3>2. Len(ch) = d + 1
      BY <3>1
    <3> QED  BY <2>1, <3>2 DEF OnTheWay
  <2>3. ch \in Children(arena, n)
    BY <2>1 DEF Children
  <2>4. seen = excluding[ch][want] /\ IsAgg(seen, S, Depth)
    BY <1>3, <1>7, <2>3 DEF Seen
  <2>5. \A p : p \in T <=> p \in M /\ d + 1 <= Len(p.folder) /\ SubSeq(p.folder, 1, d + 1) = ch
    BY <2>2, BelowIs
  <2>6. T \subseteq W
    <3> SUFFICES ASSUME NEW p \in T PROVE p \in W
      OBVIOUS
    <3>1. p \in M /\ p.folder \in Folders /\ d + 1 <= Len(p.folder) /\ SubSeq(p.folder, 1, d + 1) = ch
      BY <1>2, <2>5
    <3>2. Len(p.folder) \in Nat
      BY <3>1 DEF Folders
    <3>3. d + 1 \in 0..Len(p.folder) /\ d + 1 # 0 /\ (d + 1) - 1 = d /\ d <= Len(p.folder)
      BY <1>2, <3>1, <3>2
    <3>4. Front(SubSeq(p.folder, 1, d + 1)) = SubSeq(p.folder, 1, (d + 1) - 1)
      BY <3>1, <3>3, StartsOf
    <3>5. SubSeq(p.folder, 1, d) = n
      BY <2>1, <3>1, <3>3, <3>4
    <3> QED  BY <1>4, <3>1, <3>3, <3>5
  <2>7. \A p \in S : d + 1 <= Len(from) /\ d + 1 <= Len(p.folder) =>
          SubSeq(from, 1, d + 1) # SubSeq(p.folder, 1, d + 1)
    BY <1>4, <2>2, <2>5
  <2>8. \A p \in S : Depth[p] \in Nat /\ d <= Depth[p] /\ Away[p] = u + (Depth[p] - d)
    <3>1. S \in SUBSET W
      OBVIOUS
    <3> HIDE DEF S
    <3> QED  BY <1>5, <2>7, <3>1
  <2>9. S \subseteq Paths /\ T \subseteq Paths /\ T \cap S = {}
    BY <1>2, <1>4, <2>5
  <2>10. T \cup S = W
    BY <2>6
  <2> DEFINE c == next
  <2>11. c = IF seen.count > 0
             THEN Nearer(best, [seen EXCEPT !.min_depth = u + seen.min_depth - d]) ELSE best
    OBVIOUS
  <2> HIDE DEF c, T, S, W, seen, u, d
  <2>12. IsAgg(c, T \cup S, Away)
    BY <1>1, <1>2, <2>1, <2>4, <2>8, <2>9, <2>11, SeesMore
  <2> QED  BY <2>10, <2>12 DEF c
<1> QED
  BY <1>1, <1>6, <1>7

LEMMA ClimbStep == ASSUME IInv, Climb PROVE IInv'
<1> DEFINE W == Below(node, Matching(want))
<1>1. /\ phase = "climb" /\ phase' = "climb" /\ node # None
      /\ UNCHANGED <<input, trie, want>> /\ arena' = arena
      /\ best' = IF Seen.count > 0
                 THEN Nearer(best, [Seen EXCEPT !.min_depth = up_steps + Seen.min_depth - Len(node)])
                 ELSE best
      /\ prev_child' = node
      /\ node' = IF node = <<>> THEN None ELSE Front(node)
      /\ up_steps' = up_steps + 1
  BY DEF Climb, trie
<1>2. OnTheWay(node) /\ up_steps = Len(from) - Len(node) /\ IsAgg(best', W, Away)
  BY <1>1, ClimbSees
<1>3. InputOK /\ IsTrie /\ node \in ToSet(arena) /\ Tree(arena)
  BY <1>1 DEF IInv, WalkInv, TrieInv
<1>4. IsTrie' = IsTrie /\ from' = from /\ want' = want /\ Matching(want)' = Matching(want) /\ Away' = Away
  <2>1. Matching(want)' = Matching(want)
    BY <1>1, SameInput DEF Matching
  <2> QED  BY <1>1, <2>1, SameInput DEF input
<1>5. Below(prev_child, Matching(want))' = W
  <2> DEFINE M == Matching(want)
  <2>1. M' = M
    BY <1>4
  <2>2. Below(prev_child, M)' = Below(prev_child', M')
    BY DEF Below, IsPrefix
  <2> HIDE DEF M
  <2>3. Below(prev_child', M') = Below(node, M)
    BY <1>1, <2>1
  <2> QED  BY <2>2, <2>3 DEF M
<1>6. IsAgg(best, Below(prev_child, Matching(want)), Away)'
  BY <1>2, <1>4, <1>5 DEF IsAgg
<1>7. ASSUME node' # None
      PROVE  OnTheWay(node)' /\ up_steps' = Len(from') - Len(node') /\ node' \in ToSet(arena)
  <2>1. node # <<>> /\ node' = Front(node)
    BY <1>1, <1>7
  <2>2. /\ OnTheWay(Front(node)) /\ Len(node) \in Nat /\ Len(node) # 0 /\ Len(node) <= Len(from)
        /\ Len(Front(node)) = Len(node) - 1 /\ Len(from) \in Nat
    BY <1>2, <1>3, <2>1, OneUp
  <2>3. OnTheWay(node)'
    BY <1>4, <2>1, <2>2 DEF OnTheWay
  <2>4. up_steps' = Len(from') - Len(node')
    BY <1>1, <1>2, <1>4, <2>1, <2>2
  <2>5. Front(node) \in ToSet(arena)
    <3>1. Len(node) - 1 \in 0..Len(node)
      BY <2>2
    <3> QED  BY <1>3, <3>1 DEF Tree, Front
  <2> QED  BY <2>1, <2>3, <2>4, <2>5
<1>8. prev_child' # None /\ OnTheWay(prev_child)' /\ prev_child' \in ToSet(arena')
  <2>1. node \in Folders
    BY <1>2 DEF OnTheWay
  <2> QED  BY <1>1, <1>2, <1>3, <1>4, <2>1, NoneAssumption DEF OnTheWay
<1>9. IF prev_child' = <<>> THEN node' = None ELSE node' = Front(prev_child')
  BY <1>1
<1>10. ToSet(arena)' = ToSet(arena) /\ ToSet(arena') = ToSet(arena)
  BY <1>1
<1>11. WalkInv'
  BY <1>1, <1>3, <1>4, <1>6, <1>7, <1>8, <1>9, <1>10 DEF WalkInv
<1>12. ScanInv'
  BY <1>1 DEF ScanInv
<1> QED
  BY <1>1, <1>11, <1>12, LookupFrame DEF IInv

\* Above the root the walk has seen all candidates.
LEMMA ClimbEndsStep == ASSUME IInv, ClimbEnds PROVE IInv'
<1> DEFINE M == Matching(want)
           own == Closest(M)
           p == IF best.count = 1 THEN best.sample ELSE None
<1>1. phase = "climb" /\ node = None /\ Reply(p)
  BY DEF ClimbEnds
<1>2. /\ InputOK /\ prev_child # None /\ OnTheWay(prev_child)
      /\ IF prev_child = <<>> THEN node = None ELSE node = Front(prev_child)
      /\ IsAgg(best, Below(prev_child, M), Away)
  BY <1>1 DEF IInv, WalkInv
<1>3. prev_child = <<>>
  <2> SUFFICES ASSUME prev_child # <<>> PROVE FALSE
    OBVIOUS
  <2>1. Front(prev_child) \in Folders
    BY <1>2, OneUp DEF OnTheWay
  <2> QED  BY <1>1, <1>2, <2>1, NoneAssumption
<1>4. M \subseteq Paths /\ M \subseteq FilePaths /\ IsFiniteSet(M)
  BY <1>2, MatchingAre
<1>5. Below(<<>>, M) = M
  <2>1. <<>> \in Folders /\ Len(<<>>) = 0
    BY DEF Folders
  <2>2. \A q \in M : q.folder \in Folders
    BY <1>2, <1>4, PathsAre
  <2>3. \A q \in M : 0 <= Len(q.folder) /\ SubSeq(q.folder, 1, 0) = <<>>
    <3> TAKE q \in M
    <3>1. q.folder \in Folders /\ Len(q.folder) \in Nat
      BY <2>2 DEF Folders
    <3>2. 0 \in 0..Len(q.folder)
      BY <3>1
    <3> QED  BY <3>1, <3>2, StartsOf
  <2>4. Below(<<>>, M) = {q \in M : Len(<<>>) <= Len(q.folder) /\ SubSeq(q.folder, 1, Len(<<>>)) = <<>>}
    BY <2>1, BelowIs
  <2> HIDE DEF M
  <2> QED  BY <2>1, <2>3, <2>4
<1>6. IsAgg(best, M, Away)
  BY <1>2, <1>3, <1>5
<1>7. own = Least(M, Away)
  BY <1>2, <1>4, ClosestIs
<1> HIDE DEF M, own
<1>8. IF IsUnique(own) THEN p \in own ELSE p = None
  <2>1. CASE M = {}
    <3>1. best.count = 0
      BY <1>6, <2>1 DEF IsAgg, EMPTY
    <3>2. own = {}
      BY <1>7, <2>1 DEF Least
    <3>3. ~IsUnique(own)
      BY <3>2, FS_EmptySet DEF IsUnique
    <3> QED  BY <3>1, <3>3
  <2>2. CASE M # {}
    <3>1. best.count = Cardinality(own) /\ best.sample \in own
      BY <1>6, <1>7, <2>2 DEF IsAgg
    <3> QED  BY <3>1 DEF IsUnique
  <2> QED  BY <2>1, <2>2
<1> QED
  BY <1>1, <1>8, ReplyStep DEF M, own

LEMMA StutterStep == ASSUME IInv, UNCHANGED vars PROVE IInv'
<1>1. /\ UNCHANGED input /\ UNCHANGED trie /\ phase' = phase /\ cursor' = cursor /\ want' = want
      /\ nearest' = nearest /\ tied' = tied
      /\ node' = node /\ prev_child' = prev_child /\ up_steps' = up_steps /\ best' = best
      /\ target' = target
      /\ from' = from /\ link' = link /\ arena' = arena /\ full' = full /\ excluding' = excluding
  BY DEF vars, scan, walk, input, trie
<1>2. InputOK'
  BY <1>1, InputFrame DEF IInv, InputOK
<1>3. /\ Candidates' = Candidates /\ IsTrie' = IsTrie /\ Depth' = Depth /\ Away' = Away
      /\ Matching(want)' = Matching(want)
  <2>1. Matching(want)' = Matching(want)
    BY <1>1, SameInput DEF Matching
  <2> QED  BY <1>1, <2>1, SameInput
<1>4. TrieInv'
  BY <1>1, <1>3 DEF IInv, TrieInv
<1>5. ASSUME phase \in {"scan", "probe", "climb"} PROVE LookupInv'
  BY <1>1, <1>5, LookupFrame
<1>6. ASSUME phase \notin {"scan", "probe", "climb"} PROVE LookupInv'
  BY <1>1, <1>6 DEF LookupInv
<1>7. ScanInv'
  <2>1. Passed' = Passed
    BY <1>1, <1>3 DEF Passed
  <2>2. Closest(Passed)' = Closest(Passed)
    BY <1>1, <2>1 DEF Closest
  <2> QED  BY <1>1, <1>3, <2>1, <2>2 DEF IInv, ScanInv
<1>8. WalkInv'
  <2>1. OnTheWay(node)' = OnTheWay(node) /\ OnTheWay(prev_child)' = OnTheWay(prev_child)
    BY <1>1 DEF OnTheWay
  <2>2. LowestKnown(node)' = LowestKnown(node)
    BY <1>1 DEF LowestKnown
  <2>3. ToSet(arena)' = ToSet(arena)
    BY <1>1
  <2>4. Below(prev_child, Matching(want))' = Below(prev_child, Matching(want))
    BY <1>1, <1>3 DEF Below
  <2>5. IsAgg(best, Below(prev_child, Matching(want)), Away)'
          = IsAgg(best, Below(prev_child, Matching(want)), Away)
    BY <1>1, <1>3, <2>4 DEF IsAgg
  <2>6. (best = EMPTY)' <=> best = EMPTY
    BY <1>1
  <2> QED  BY <1>1, <1>3, <2>1, <2>2, <2>3, <2>5, <2>6 DEF IInv, WalkInv
<1>9. AnswerStands'
  <2> DEFINE own == Closest(Matching(link.ext))
             all == Closest(Matching(AnyExt))
  <2>1. Paths' = Paths
    BY <1>1, SameInput
  <2>2. own' = own /\ all' = all
    <3>1. Matching(link.ext)' = Matching(link.ext) /\ Matching(AnyExt)' = Matching(AnyExt)
      BY <1>1, <1>3 DEF Matching
    <3> QED  BY <1>1, <3>1 DEF Closest
  <2>3. AnswerStands <=>
          (phase = "done" =>
             IF link = AnchorOnly THEN target = None
             ELSE IF link \in Paths THEN target = link
             ELSE IF link.ext = NoExt /\ WithMd(link) \in Paths THEN target = WithMd(link)
             ELSE IF link.folder # <<>> THEN target = None
             ELSE IF link.ext # NoExt /\ IsUnique(own) THEN target \in own
             ELSE IF IsUnique(all) THEN target \in all
             ELSE target = None)
    BY DEF AnswerStands
  <2>4. AnswerStands' <=>
          (phase' = "done" =>
             IF link' = AnchorOnly THEN target' = None
             ELSE IF link' \in Paths' THEN target' = link'
             ELSE IF link'.ext = NoExt /\ WithMd(link') \in Paths' THEN target' = WithMd(link')
             ELSE IF link'.folder # <<>> THEN target' = None
             ELSE IF link'.ext # NoExt /\ IsUnique(own') THEN target' \in own'
             ELSE IF IsUnique(all') THEN target' \in all'
             ELSE target' = None)
    BY DEF AnswerStands, WithMd, IsUnique
  <2>5. AnswerStands
    BY DEF IInv
  <2> HIDE DEF own, all
  <2> QED  BY <1>1, <2>1, <2>2, <2>3, <2>4, <2>5
<1> QED
  BY <1>2, <1>4, <1>5, <1>6, <1>7, <1>8, <1>9 DEF IInv

LEMMA NextInv == IInv /\ [Next]_vars => IInv'
<1> SUFFICES ASSUME IInv, [Next]_vars PROVE IInv'
  OBVIOUS
<1>1. CASE Insert
  BY <1>1, InsertStep
<1>2. CASE Inserted
  BY <1>2, InsertedStep
<1>3. CASE Aggregate
  BY <1>3, AggregateStep
<1>4. CASE Aggregated
  BY <1>4, AggregatedStep
<1>5. CASE NoPath \/ Exact \/ Implied \/ Qualified \/ Bare
  BY <1>5, ResolveSteps
<1>6. CASE Scan
  BY <1>6, ScanStep
<1>7. CASE ScanEnds
  BY <1>7, ScanEndsStep
<1>8. CASE Probe
  BY <1>8, ProbeStep
<1>9. CASE Climb
  BY <1>9, ClimbStep
<1>10. CASE ClimbEnds
  BY <1>10, ClimbEndsStep
<1>11. CASE UNCHANGED vars
  BY <1>11, StutterStep
<1> QED
  BY <1>1, <1>2, <1>3, <1>4, <1>5, <1>6, <1>7, <1>8, <1>9, <1>10, <1>11 DEF Next

-----------------------------------------------------------------------------
(* What the invariant says of the answer and of the walk *)

LEMMA AggTells ==
  ASSUME NEW S, NEW m, \A p \in S : m[p] \in Nat, NEW a, IsAgg(a, S, m)
  PROVE  Tells(a, S, m)
<1> DEFINE least == {p \in S : \A q \in S : m[p] <= m[q]}
<1>1. least = Least(S, m)
  BY DEF Least
<1>2. CASE S = {}
  <2>1. least = {} /\ a.count = 0
    BY <1>2 DEF IsAgg, EMPTY
  <2> HIDE DEF least
  <2>2. a.count = Cardinality(least) /\ ~IsUnique(least)
    BY <2>1, FS_EmptySet DEF IsUnique
  <2> QED  BY <2>1, <2>2 DEF Tells, least
<1>3. CASE S # {}
  <2>1. /\ a.count = Cardinality(Least(S, m)) /\ a.min_depth \in Nat
        /\ \A p \in S : a.min_depth <= m[p]
        /\ \E p \in S : a.min_depth = m[p]
        /\ a.sample \in Least(S, m)
    BY <1>3 DEF IsAgg, Aggregates
  <2>2. \A p \in Least(S, m) : a.min_depth = m[p]
    <3>1. Least(S, m) = {p \in S : m[p] = a.min_depth}
      BY <2>1, LeastIs
    <3> QED  BY <3>1
  <2> HIDE DEF least
  <2>3. a.count = Cardinality(least) /\ (\A p \in least : a.min_depth = m[p]) /\ a.sample \in least
    BY <1>1, <2>1, <2>2
  <2> QED  BY <2>3 DEF Tells, least
<1> QED
  BY <1>2, <1>3

LEMMA InvWalkSees == IInv => WalkSees
<1> SUFFICES ASSUME IInv PROVE WalkSees
  OBVIOUS
<1>1. InputOK /\ \A p \in Paths : Depth[p] \in Nat /\ Away[p] \in Nat
  BY PathsAre DEF IInv, Measures
<1> DEFINE done == IF phase = "insert" THEN {}
                   ELSE IF phase = "aggregate" THEN (cursor + 1)..Len(arena)
                   ELSE IF IsTrie THEN DOMAIN arena ELSE {}
<1>2. arena \in Seq(Folders) /\ DOMAIN arena = 1..Len(arena)
  BY DEF IInv, TrieInv, Tree
<1>3. Told(arena, done, full, excluding, ToSet(Candidates), Depth)
  <2>1. done = {} \/ (IsTrie /\ phase # "insert" /\
          done = (IF phase = "aggregate" THEN cursor + 1 ELSE 1)..Len(arena))
    <3>1. phase = "aggregate" => IsTrie
      BY DEF IInv, TrieInv
    <3>2. CASE phase = "insert"
      BY <3>2
    <3>3. CASE phase = "aggregate"
      BY <3>1, <3>3
    <3>4. CASE phase \notin {"insert", "aggregate"}
      BY <1>2, <3>4
    <3> QED  BY <3>2, <3>3, <3>4
  <2> HIDE DEF done
  <2>2. CASE done = {}
    BY <2>2 DEF Told
  <2>3. CASE IsTrie /\ phase # "insert" /\
             done = (IF phase = "aggregate" THEN cursor + 1 ELSE 1)..Len(arena)
    BY <2>3 DEF IInv, TrieInv
  <2> QED  BY <2>1, <2>2, <2>3
<1>4. \A S, e : S \subseteq Matching(e) => \A p \in S : Depth[p] \in Nat /\ Away[p] \in Nat
  <2>1. \A e : Matching(e) \subseteq Paths
    BY <1>1, MatchingAre
  <2> QED  BY <1>1, <2>1
<1>5. \A n, S : Below(n, S) \subseteq S
  BY DEF Below
<1>6. ASSUME NEW i \in done, NEW e \in Buckets
      PROVE  /\ Tells(full[arena[i]][e], Below(arena[i], Matching(e)), Depth)
             /\ \A c \in ToSet(ChildrenOf(arena[i])) :
                  Tells(excluding[c][e],
                        Below(arena[i], Matching(e)) \ Below(c, Below(arena[i], Matching(e))), Depth)
  <2> DEFINE n == arena[i]
             inside == Below(n, Matching(e))
  <2> HIDE DEF done
  <2>1. /\ IsAgg(full[n][e], inside, Depth)
        /\ \A c \in Children(arena, n) : IsAgg(excluding[c][e], inside \ Below(c, Matching(e)), Depth)
    BY <1>1, <1>3, NodeKnows
  <2>2. ToSet(ChildrenOf(n)) = Children(arena, n)
    <3>1. ToSet(ChildrenOf(n)) = ToSet(arena) \cap {f \in ToSet(arena) : f # <<>> /\ Front(f) = n}
      BY <1>2, SelectedSpec DEF ChildrenOf, IInv, TrieInv, Tree
    <3> QED  BY <3>1 DEF Children
  <2>3. inside \subseteq Matching(e)
    BY <1>5
  <2>4. Tells(full[n][e], inside, Depth)
    <3> HIDE DEF inside
    <3>1. \A p \in inside : Depth[p] \in Nat
      BY <1>4, <2>3
    <3> QED  BY <2>1, <3>1, AggTells
  <2>5. ASSUME NEW c \in ToSet(ChildrenOf(n))
        PROVE  Tells(excluding[c][e], inside \ Below(c, inside), Depth)
    <3> DEFINE rest == inside \ Below(c, inside)
    <3>1. rest = inside \ Below(c, Matching(e))
      BY DEF Below
    <3>2. IsAgg(excluding[c][e], inside \ Below(c, Matching(e)), Depth)
      BY <2>1, <2>2
    <3>3. \A p \in rest : Depth[p] \in Nat
      BY <1>4, <2>3
    <3> HIDE DEF rest
    <3>4. IsAgg(excluding[c][e], rest, Depth)
      BY <3>1, <3>2
    <3>5. Tells(excluding[c][e], rest, Depth)
      BY <3>3, <3>4, AggTells
    <3> QED  BY <3>5 DEF rest
  <2> QED  BY <2>4, <2>5
<1>7. NodesTell
  BY <1>6 DEF NodesTell
<1>8. ASSUME phase = "climb", prev_child # None
      PROVE  Tells(best, Below(prev_child, Matching(want)), Away)
  <2> DEFINE W == Below(prev_child, Matching(want))
  <2>1. IsAgg(best, W, Away)
    BY <1>8 DEF IInv, WalkInv
  <2>2. \A p \in W : Away[p] \in Nat
    BY <1>4, <1>5
  <2> HIDE DEF W
  <2>3. Tells(best, W, Away)
    BY <2>1, <2>2, AggTells
  <2> QED  BY <2>3 DEF W
<1>9. phase = "climb" /\ prev_child = None => best = EMPTY
  BY DEF IInv, WalkInv
<1> QED
  BY <1>7, <1>8, <1>9 DEF WalkSees

\* The inductive invariant: the arena holds the folder of every candidate inserted
\* and all above it; behind the aggregation pass each node knows its subtree and,
\* for each child, what is outside the child's; the scan knows a closest of the
\* candidates it has passed; and the walk up has counted exactly those below the
\* folder it left.
THEOREM LinkInductive == Spec => []IInv
<1>1. Init => IInv
  BY InitInv
<1>2. IInv /\ [Next]_vars => IInv'
  BY NextInv
<1> QED
  BY <1>1, <1>2, PTL DEF Spec

\* resolve answers with the file the link spells out, then with that with .md, then,
\* for a name alone, with the one candidate nearest to the note, and with nothing if
\* two are equally near: whatever the vault and the threshold, and whether the index
\* is a list or a trie. A tie among the files of the link's extension is left out;
\* what the code answers then is what AnswerStands says.
THEOREM LinksResolveNearest == Spec => []ResolvesNearest
<1>1. IInv => ResolvesNearest
  <2> SUFFICES ASSUME IInv PROVE ResolvesNearest
    OBVIOUS
  <2> DEFINE own == Closest(Matching(link.ext))
             all == Closest(Matching(AnyExt))
  <2>1. IsFiniteSet(own)
    <3>1. IsFiniteSet(Matching(link.ext))
      BY MatchingAre DEF IInv
    <3>2. own \subseteq Matching(link.ext)
      BY DEF Closest
    <3> QED  BY <3>1, <3>2, FS_Subset
  <2>2. IsUnique(own) => own # {}
    BY <2>1, FS_EmptySet DEF IsUnique
  <2>3. own # {} /\ ~(Cardinality(own) > 1) => IsUnique(own)
    BY <2>1, FS_EmptySet, FS_CardinalityType DEF IsUnique
  <2>4. IsTie <=> link.ext # NoExt /\ Cardinality(own) > 1
    BY DEF IsTie
  <2>5. phase = "done" =>
          IF link = AnchorOnly THEN target = None
          ELSE IF link \in Paths THEN target = link
          ELSE IF link.ext = NoExt /\ WithMd(link) \in Paths THEN target = WithMd(link)
          ELSE IF link.folder # <<>> THEN target = None
          ELSE IF link.ext # NoExt /\ IsUnique(own) THEN target \in own
          ELSE IF IsUnique(all) THEN target \in all
          ELSE target = None
    BY DEF IInv, AnswerStands
  <2>6. ResolvesNearest <=>
          (phase = "done" =>
             IF link = AnchorOnly THEN target = None
             ELSE IF link \in Paths THEN target = link
             ELSE IF link.ext = NoExt /\ WithMd(link) \in Paths THEN target = WithMd(link)
             ELSE IF link.folder # <<>> THEN target = None
             ELSE ~IsTie =>
               IF link.ext # NoExt /\ own # {}
               THEN IF IsUnique(own) THEN target \in own ELSE target = None
               ELSE IF IsUnique(all) THEN target \in all ELSE target = None)
    BY DEF ResolvesNearest
  <2> HIDE DEF own, all
  <2> QED  BY <2>2, <2>3, <2>4, <2>5, <2>6
<1> QED
  BY <1>1, LinkInductive, PTL

\* The aggregates of the trie count every candidate of their part of it once, and
\* the walk of nearest, adding one excluding_per_child after the other, counts each
\* candidate below the folder it left once, at its distance from the note.
THEOREM WalksCountOnce == Spec => []WalkSees
<1>1. IInv => WalkSees
  BY InvWalkSees
<1> QED
  BY <1>1, LinkInductive, PTL
=============================================================================
