--------------------------- MODULE SchemaGraph_proofs ---------------------------
(***************************************************************************)
(* Proofs about the `extends` graph, for any number of schemas and any     *)
(* lists.  The sort: every schema is yielded once and after its known      *)
(* parents, and when the queue is empty each schema left over waits for    *)
(* one that is left over too.  The search: the frames, the component stack *)
(* and the lowest ranks, from which it follows that just the schemas that  *)
(* extend themselves are reported.                                         *)
(***************************************************************************)
EXTENDS SchemaGraph, FiniteSetTheorems, WellFoundedInduction, TLAPS

Injective(s) == \A i, j \in DOMAIN s : s[i] = s[j] => i = j

\* What the sort maintains: the counter of a schema is the number of known
\* parents that are not yielded, and the queue holds exactly the schemas that
\* wait for none.
SortInv ==
  /\ \A c \in Names : unresolved[c] = Cardinality(Known(c) \ Listed(visited))
  /\ Injective(ready) /\ Injective(visited)
  /\ Listed(ready) \cap Listed(visited) = {}
  /\ \A c \in Names : unresolved[c] = 0 <=> c \in Listed(ready) \cup Listed(visited)
  /\ \A i \in DOMAIN visited : \A p \in Known(visited[i]) :
       \E j \in DOMAIN visited : j < i /\ visited[j] = p
  /\ phase # "sort" => ready = <<>>

Inv == TypeOK /\ SortInv

\* When the sort stops, a schema left over has a known parent left over.
LeftoversWait ==
  phase # "sort" =>
    \A n \in Names \ Listed(visited) : Known(n) \ Listed(visited) # {}

-----------------------------------------------------------------------------
(* Sequences and sets *)

LEMMA NamesFinite == IsFiniteSet(Names)
  BY CountAssumption, FS_Interval DEF Names

LEMMA NamesSubset ==
  ASSUME NEW S \in SUBSET Names
  PROVE  IsFiniteSet(S) /\ Cardinality(S) \in Nat
  BY NamesFinite, FS_Subset, FS_CardinalityType

LEMMA KnownType ==
  ASSUME NEW n \in Names
  PROVE  Known(n) \in SUBSET Names
  BY DEF Known

\* InOrder lists a set of schemas, each once.
LEMMA InOrderLists ==
  ASSUME NEW S \in SUBSET Names, NEW s \in InOrder(S)
  PROVE  s \in Seq(Names) /\ Listed(s) = S /\ Injective(s)
<1>1. Cardinality(S) \in Nat
  BY NamesSubset
<1>2. /\ s \in [1..Cardinality(S) -> S]
      /\ Listed(s) = S
      /\ \A i, j \in DOMAIN s : i < j => s[i] < s[j]
  BY DEF InOrder
<1>3. s \in Seq(Names)
  BY <1>1, <1>2
<1>4. Injective(s)
  <2> SUFFICES ASSUME NEW i \in DOMAIN s, NEW j \in DOMAIN s, s[i] = s[j], i # j
               PROVE  FALSE
    BY DEF Injective
  <2>4. S \subseteq Nat
    BY CountAssumption DEF Names
  <2>5. DOMAIN s = 1..Cardinality(S) /\ \A k \in DOMAIN s : s[k] \in S
    BY <1>2
  <2>6. 1..Cardinality(S) \subseteq Nat
    BY <1>1
  <2>1. DOMAIN s \subseteq Nat /\ \A k \in DOMAIN s : s[k] \in Nat
    BY <2>4, <2>5, <2>6, Zenon
  <2>2. i < j \/ j < i
    BY <2>1
  <2>3. s[i] < s[j] \/ s[j] < s[i]
    BY <1>2, <2>2
  <2> QED
    BY <2>1, <2>3
<1> QED
  BY <1>2, <1>3, <1>4

LEMMA AppendLists ==
  ASSUME NEW s \in Seq(Names), NEW n \in Names, n \notin Listed(s), Injective(s)
  PROVE  /\ Listed(Append(s, n)) = Listed(s) \cup {n}
         /\ Injective(Append(s, n))
<1>1. /\ DOMAIN Append(s, n) = 1..(Len(s) + 1)
      /\ \A i \in 1..Len(s) : Append(s, n)[i] = s[i]
      /\ Append(s, n)[Len(s) + 1] = n
      /\ DOMAIN s = 1..Len(s)
      /\ Len(s) \in Nat
  OBVIOUS
<1> QED
  BY <1>1 DEF Listed, Injective

LEMMA ConcatLists ==
  ASSUME NEW t \in Seq(Names), Injective(t), NEW s \in Seq(Names), Injective(s),
         Listed(t) \cap Listed(s) = {}
  PROVE  /\ t \o s \in Seq(Names)
         /\ Listed(t \o s) = Listed(t) \cup Listed(s)
         /\ Injective(t \o s)
<1>1. /\ t \o s \in Seq(Names)
      /\ DOMAIN t = 1..Len(t) /\ DOMAIN s = 1..Len(s)
      /\ Len(t) \in Nat /\ Len(s) \in Nat
      /\ DOMAIN (t \o s) = 1..(Len(t) + Len(s))
      /\ \A i \in 1..Len(t) : (t \o s)[i] = t[i]
      /\ \A i \in (Len(t) + 1)..(Len(t) + Len(s)) : (t \o s)[i] = s[i - Len(t)]
  <2>1. t \in Seq(Names) /\ s \in Seq(Names)
    OBVIOUS
  <2> QED
    BY ONLY <2>1, SMTT(30)
<1>2. Listed(t \o s) = Listed(t) \cup Listed(s)
  <2>1. Listed(t \o s) \subseteq Listed(t) \cup Listed(s)
    BY <1>1 DEF Listed
  <2>2. Listed(t) \subseteq Listed(t \o s)
    BY <1>1 DEF Listed
  <2>3. ASSUME NEW i \in DOMAIN s
        PROVE  s[i] \in Listed(t \o s)
    <3>1. i + Len(t) \in DOMAIN (t \o s) /\ (t \o s)[i + Len(t)] = s[i]
      BY <1>1
    <3> QED
      BY <3>1 DEF Listed
  <2> QED
    BY <2>1, <2>2, <2>3 DEF Listed
<1>3. Injective(t \o s)
  <2> SUFFICES ASSUME NEW i \in DOMAIN (t \o s), NEW j \in DOMAIN (t \o s),
                      (t \o s)[i] = (t \o s)[j]
               PROVE  i = j
    BY DEF Injective
  <2> DEFINE InT(k) == k \in 1..Len(t) /\ (t \o s)[k] = t[k]
             InS(k) == k - Len(t) \in DOMAIN s /\ (t \o s)[k] = s[k - Len(t)]
  <2>1. i \in Nat /\ j \in Nat /\ (InT(i) \/ InS(i)) /\ (InT(j) \/ InS(j))
    BY <1>1
  <2>2. Listed(t) \cap Listed(s) = {}
    OBVIOUS
  <2>3. CASE InT(i) /\ InT(j)
    BY <1>1, <2>3 DEF Injective
  <2>4. CASE InS(i) /\ InS(j)
    <3>1. i - Len(t) = j - Len(t)
      BY <2>4 DEF Injective
    <3> QED
      BY <1>1, <2>1, <3>1
  <2>5. CASE InT(i) /\ InS(j)
    BY <1>1, <2>2, <2>5 DEF Listed
  <2>6. CASE InS(i) /\ InT(j)
    BY <1>1, <2>2, <2>6 DEF Listed
  <2> QED
    BY <2>1, <2>3, <2>4, <2>5, <2>6
<1> QED
  BY <1>1, <1>2, <1>3

\* Taking the head off a queue and appending others.
LEMMA QueueLists ==
  ASSUME NEW q \in Seq(Names), q # <<>>, Injective(q),
         NEW s \in Seq(Names), Injective(s), Listed(q) \cap Listed(s) = {}
  PROVE  /\ Tail(q) \o s \in Seq(Names)
         /\ Listed(Tail(q) \o s) = (Listed(q) \ {Head(q)}) \cup Listed(s)
         /\ Injective(Tail(q) \o s)
<1> DEFINE t == Tail(q)
<1>1. /\ t \in Seq(Names)
      /\ Len(q) \in Nat /\ Len(q) > 0
      /\ Len(t) = Len(q) - 1
      /\ DOMAIN q = 1..Len(q)
      /\ DOMAIN t = 1..(Len(q) - 1)
      /\ \A i \in DOMAIN t : t[i] = q[i + 1]
      /\ Head(q) = q[1]
  OBVIOUS
<1>2. Injective(t) /\ Head(q) \notin Listed(t)
  BY SMTT(90), <1>1 DEF Injective, Listed
<1>3. Listed(t) = Listed(q) \ {Head(q)}
  <2>1. ASSUME NEW x \in Listed(q), x # Head(q)
        PROVE  x \in Listed(t)
    <3>1. PICK i \in DOMAIN q : x = q[i]
      BY DEF Listed
    <3>2. i - 1 \in DOMAIN t /\ t[i - 1] = x
      BY <1>1, <2>1, <3>1
    <3> QED
      BY <3>2 DEF Listed
  <2>2. Listed(t) \subseteq Listed(q)
    BY <1>1 DEF Listed
  <2> QED
    BY <1>2, <2>1, <2>2
<1> HIDE DEF t
<1>4. /\ t \o s \in Seq(Names)
      /\ Listed(t \o s) = Listed(t) \cup Listed(s)
      /\ Injective(t \o s)
  BY <1>1, <1>2, <1>3, ConcatLists
<1> QED
  BY <1>3, <1>4 DEF t

-----------------------------------------------------------------------------
(* The sort *)

\* What Resolve does to the counter: the yielded schema was the last one
\* counted, or one of several, or none of the counted.
LEMMA CountsDown ==
  ASSUME NEW c \in Names, NEW V \in SUBSET Names, NEW n \in Names, n \notin V
  PROVE  /\ n \in Known(c) =>
              /\ Cardinality(Known(c) \ (V \cup {n})) = Cardinality(Known(c) \ V) - 1
              /\ Cardinality(Known(c) \ V) # 0
         /\ n \notin Known(c) => Known(c) \ (V \cup {n}) = Known(c) \ V
<1> DEFINE W == Known(c) \ V
<1>1. W \in SUBSET Names
  BY KnownType
<1>2. IsFiniteSet(W) /\ Cardinality(W) \in Nat
  BY <1>1, NamesSubset
<1>3. Known(c) \ (V \cup {n}) = W \ {n}
  OBVIOUS
<1>4. ASSUME n \in Known(c)
      PROVE  Cardinality(W \ {n}) = Cardinality(W) - 1 /\ Cardinality(W) # 0
  <2>1. n \in W
    BY <1>4
  <2>2. Cardinality(W \ {n}) = Cardinality(W) - 1
    BY <1>2, <2>1, FS_RemoveElement
  <2>3. Cardinality(W) # 0
    BY <1>2, <2>1, FS_EmptySet
  <2> QED
    BY <2>2, <2>3
<1> QED
  BY <1>3, <1>4

LEMMA EmptyCount ==
  ASSUME NEW S \in SUBSET Names
  PROVE  Cardinality(S) = 0 <=> S = {}
  BY NamesSubset, FS_EmptySet

LEMMA SortInitInv ==
  ASSUME extends \in [Names -> Seq(Targets)], SortInit
  PROVE  Inv
<1>1. \A c \in Names : unresolved[c] \in Nat
  BY NamesSubset, KnownType DEF SortInit
<1>2. ready \in Seq(Names) /\ Injective(ready)
      /\ Listed(ready) = {n \in Names : unresolved[n] = 0}
  <2>1. ready \in InOrder({n \in Names : unresolved[n] = 0})
    BY DEF SortInit
  <2> QED
    BY <2>1, InOrderLists
<1>3. Listed(visited) = {} /\ Injective(visited) /\ DOMAIN visited = {}
  BY DEF SortInit, Listed, Injective
<1>4. TypeOK
  <2>1. unresolved \in [Names -> Nat]
    BY <1>1 DEF SortInit
  <2> QED
    BY <1>2, <2>1 DEF SortInit, TypeOK
<1>5. \A c \in Names : unresolved[c] = Cardinality(Known(c) \ Listed(visited))
  <2>1. \A c \in Names : Known(c) \ Listed(visited) = Known(c)
    BY <1>3
  <2> QED
    BY <2>1 DEF SortInit
<1>6. phase = "sort"
  BY DEF SortInit
<1> QED
  BY <1>2, <1>3, <1>4, <1>5, <1>6 DEF Inv, SortInv

\* Yielding the head of the queue.
LEMMA ResolveStep ==
  ASSUME Inv, Resolve
  PROVE  Inv'
<1> DEFINE n == Head(ready)
           V == Listed(visited)
<1>1. PICK s \in InOrder(Released(n)) : ready' = Tail(ready) \o s
  BY DEF Resolve
<1>2. /\ visited' = Append(visited, n)
      /\ unresolved' = [c \in Names |-> IF c \in Children(n)
                                       THEN unresolved[c] - 1
                                       ELSE unresolved[c]]
      /\ phase = "sort" /\ ready # <<>>
      /\ UNCHANGED <<extends, phase, searchVars>>
  BY DEF Resolve
<1>3. /\ ready \in Seq(Names) /\ visited \in Seq(Names)
      /\ unresolved \in [Names -> Nat]
      /\ n \in Names /\ n \in Listed(ready)
  <2>1. ready \in Seq(Names) /\ visited \in Seq(Names) /\ unresolved \in [Names -> Nat]
    BY DEF Inv, TypeOK
  <2>2. n \in Names /\ 1 \in DOMAIN ready /\ n = ready[1]
    BY <1>2, <2>1
  <2> QED
    BY <2>1, <2>2 DEF Listed
<1>4. V \in SUBSET Names /\ n \notin V
  <2>1. V \subseteq Names
    BY <1>3 DEF Listed
  <2> QED
    BY <1>3, <2>1 DEF Inv, SortInv
<1>5. \A c \in Names : Known(c)' = Known(c)
  BY <1>2 DEF Known
<1>6. Known(n) \subseteq V
  <2>1. unresolved[n] = 0 /\ unresolved[n] = Cardinality(Known(n) \ V)
    BY <1>3 DEF Inv, SortInv
  <2>2. Known(n) \ V \in SUBSET Names
    BY <1>3, KnownType
  <2> QED
    BY <2>1, <2>2, EmptyCount
<1>7. Listed(visited)' = V \cup {n} /\ Injective(visited)'
  BY <1>2, <1>3, <1>4, AppendLists DEF Inv, SortInv
<1>8. \A c \in Names :
         /\ unresolved'[c] = Cardinality(Known(c) \ (V \cup {n}))
         /\ unresolved'[c] \in Nat
         /\ c \in Children(n) => unresolved[c] # 0 /\ unresolved'[c] = unresolved[c] - 1
         /\ c \notin Children(n) => unresolved'[c] = unresolved[c]
  <2> SUFFICES ASSUME NEW c \in Names
               PROVE  /\ unresolved'[c] = Cardinality(Known(c) \ (V \cup {n}))
                      /\ unresolved'[c] \in Nat
                      /\ c \in Children(n) => unresolved[c] # 0 /\ unresolved'[c] = unresolved[c] - 1
                      /\ c \notin Children(n) => unresolved'[c] = unresolved[c]
    OBVIOUS
  <2>1. unresolved[c] = Cardinality(Known(c) \ V) /\ unresolved[c] \in Nat
    BY <1>3 DEF Inv, SortInv
  <2>2. c \in Children(n) <=> n \in Known(c)
    BY DEF Children
  <2>3. unresolved'[c] = IF c \in Children(n) THEN unresolved[c] - 1 ELSE unresolved[c]
    BY <1>2
  <2>4. CASE n \in Known(c)
    <3>1. /\ Cardinality(Known(c) \ (V \cup {n})) = Cardinality(Known(c) \ V) - 1
          /\ Cardinality(Known(c) \ V) # 0
      BY <1>3, <1>4, <2>4, CountsDown
    <3> HIDE DEF n, V
    <3> QED
      BY <2>1, <2>2, <2>3, <2>4, <3>1
  <2>5. CASE n \notin Known(c)
    <3>1. Known(c) \ (V \cup {n}) = Known(c) \ V
      BY <2>5
    <3> QED
      BY <2>1, <2>2, <2>3, <2>5, <3>1
  <2> QED
    BY <2>4, <2>5
<1>9. /\ s \in Seq(Names) /\ Listed(s) = Released(n) /\ Injective(s)
      /\ Released(n) \subseteq Names
  <2>1. Released(n) \in SUBSET Names
    BY DEF Released, Children
  <2> QED
    BY <1>1, <2>1, InOrderLists
<1>10. Listed(ready) \cap Released(n) = {} /\ V \cap Released(n) = {}
  <2>1. \A c \in Listed(ready) \cup V : c \in Names => unresolved[c] = 0
    BY DEF Inv, SortInv
  <2>2. \A c \in Released(n) : unresolved[c] = 1
    BY DEF Released
  <2> QED
    BY <1>9, <2>1, <2>2
<1>11. /\ ready' \in Seq(Names)
       /\ Listed(ready)' = (Listed(ready) \ {n}) \cup Released(n)
       /\ Injective(ready)'
  <2>1. Injective(ready)
    BY DEF Inv, SortInv
  <2>2. /\ ready \in Seq(Names) /\ ready # <<>>
        /\ s \in Seq(Names) /\ Injective(s)
        /\ Listed(ready) \cap Listed(s) = {}
    BY <1>2, <1>3, <1>9, <1>10
  <2>3. /\ Tail(ready) \o s \in Seq(Names)
        /\ Listed(Tail(ready) \o s) = (Listed(ready) \ {n}) \cup Listed(s)
        /\ Injective(Tail(ready) \o s)
    <3> HIDE DEF n
    <3> QED
      BY <2>1, <2>2, QueueLists DEF n
  <2>4. ready' = Tail(ready) \o s /\ Listed(s) = Released(n)
    BY <1>1, <1>9
  <2> HIDE DEF n
  <2>5. /\ ready' \in Seq(Names)
        /\ Listed(ready') = (Listed(ready) \ {n}) \cup Released(n)
        /\ Injective(ready')
    BY <2>3, <2>4
  <2> QED
    BY <2>5 DEF Listed, Injective
<1>12. TypeOK'
  <2>1. visited' \in Seq(Names)
    BY <1>2, <1>3
  <2>2. unresolved' \in [Names -> Nat]
    BY <1>2, <1>8
  <2> QED
    BY <1>2, <1>11, <2>1, <2>2 DEF Inv, TypeOK, searchVars
<1>13. SortInv'
  <2>1. \A c \in Names : unresolved'[c] = Cardinality(Known(c)' \ Listed(visited)')
    BY <1>5, <1>7, <1>8
  <2>2. Listed(ready)' \cap Listed(visited)' = {}
    BY <1>7, <1>10, <1>11, <1>9, <1>6, <1>4 DEF Inv, SortInv, Released, Children
  <2>3. \A c \in Names : unresolved'[c] = 0 <=> c \in Listed(ready)' \cup Listed(visited)'
    <3> SUFFICES ASSUME NEW c \in Names
                 PROVE  unresolved'[c] = 0 <=> c \in Listed(ready)' \cup Listed(visited)'
      OBVIOUS
    <3>1. unresolved[c] = 0 <=> c \in Listed(ready) \cup V
      BY DEF Inv, SortInv
    <3>2. c \in Listed(ready)' \cup Listed(visited)'
            <=> c \in Listed(ready) \cup V \/ c \in Released(n)
      BY <1>3, <1>7, <1>11
    <3>3. unresolved'[c] = 0 <=> unresolved[c] = 0 \/ c \in Released(n)
      <4>1. unresolved[c] \in Nat
        BY <1>3
      <4>2. c \in Released(n) <=> c \in Children(n) /\ unresolved[c] = 1
        BY DEF Released
      <4>3. /\ c \in Children(n) => unresolved[c] # 0 /\ unresolved'[c] = unresolved[c] - 1
            /\ c \notin Children(n) => unresolved'[c] = unresolved[c]
        BY <1>8
      <4> HIDE DEF n
      <4> QED
        BY <4>1, <4>2, <4>3
    <3> QED
      BY <3>1, <3>2, <3>3
  <2>4. \A i \in DOMAIN visited' : \A p \in Known(visited[i])' :
          \E j \in DOMAIN visited' : j < i /\ visited'[j] = p
    <3> SUFFICES ASSUME NEW i \in DOMAIN visited', NEW p \in Known(visited[i])'
                 PROVE  \E j \in DOMAIN visited' : j < i /\ visited'[j] = p
      OBVIOUS
    <3>1. /\ DOMAIN visited' = 1..(Len(visited) + 1) /\ DOMAIN visited = 1..Len(visited)
          /\ Len(visited) \in Nat
          /\ \A k \in 1..Len(visited) : visited'[k] = visited[k]
          /\ visited'[Len(visited) + 1] = n
      BY <1>2, <1>3
    <3>2. CASE i \in DOMAIN visited
      <4>1. visited'[i] = visited[i] /\ visited[i] \in Names
        BY <1>3, <3>1, <3>2
      <4>2. p \in Known(visited[i])
        BY <1>2, <4>1 DEF Known
      <4>3. PICK j \in DOMAIN visited : j < i /\ visited[j] = p
        BY <3>2, <4>2 DEF Inv, SortInv
      <4> QED
        BY <3>1, <4>3
    <3>3. CASE i = Len(visited) + 1
      <4>1. p \in V
        BY <1>2, <1>6, <3>1, <3>3 DEF Known
      <4>2. PICK j \in DOMAIN visited : visited[j] = p
        BY <4>1 DEF Listed
      <4> QED
        BY <3>1, <3>3, <4>2
    <3> QED
      BY <3>1, <3>2, <3>3
  <2> QED
    BY <1>2, <1>7, <1>11, <2>1, <2>2, <2>3, <2>4 DEF SortInv
<1> QED
  BY <1>12, <1>13 DEF Inv

-----------------------------------------------------------------------------
(* The other steps *)

\* Drained leaves the sort with an empty queue.
LEMMA DrainedStep ==
  ASSUME Inv, Drained
  PROVE  Inv'
<1>1. /\ ready = <<>> /\ UNCHANGED <<extends, unresolved, ready, visited>>
      /\ UNCHANGED <<work, order, lowest, stack, cyclic>>
      /\ phase' \in {"sorted", "search"}
  BY DEF Drained, sortVars, searchVars
<1>2. TypeOK'
  BY <1>1 DEF Inv, TypeOK
<1>3. SortInv'
  BY <1>1 DEF Inv, SortInv, Known, Listed, Injective
<1> QED
  BY <1>2, <1>3 DEF Inv

\* The search leaves what the sort left alone.
SearchStep == Start \/ Discover \/ Advance \/ Finish \/ Searched

LEMMA SearchKeepsSort ==
  ASSUME Inv, SearchStep
  PROVE  SortInv'
<1>1. UNCHANGED <<extends, unresolved, ready, visited>> /\ phase = "search"
  BY DEF SearchStep, Start, Discover, Advance, Finish, Searched, sortVars
<1>2. ready = <<>>
  BY <1>1 DEF Inv, SortInv
<1> QED
  BY <1>1, <1>2 DEF Inv, SortInv, Known, Listed, Injective

FrameType == [node : Names, at : Nat]

LEMMA TopType ==
  ASSUME TypeOK, work # <<>>
  PROVE  /\ Top \in FrameType /\ Top.node \in Names
         /\ Below \in Seq(FrameType)
         /\ Below # <<>> => Below[Len(Below)].node \in Names
<1>1. work \in Seq(FrameType)
  BY DEF TypeOK, FrameType
<1>2. Len(work) \in Nat /\ Len(work) > 0
  BY <1>1
<1>3. Top \in FrameType
  BY <1>1, <1>2 DEF Top
<1>4. Below \in Seq(FrameType)
  BY <1>1, <1>2 DEF Below
<1>5. Below # <<>> => Below[Len(Below)] \in FrameType
  BY <1>4
<1> QED
  BY <1>3, <1>4, <1>5 DEF FrameType

LEMMA LowerType ==
  ASSUME NEW low \in [Names -> Nat], NEW n \in Names, NEW candidate \in Nat
  PROVE  Lower(low, n, candidate) \in [Names -> Nat]
  BY DEF Lower

\* The types of the search's own variables.
LEMMA SearchTyped ==
  ASSUME Inv, SearchStep
  PROVE  TypeOK'
<1>1. TypeOK /\ UNCHANGED <<extends, unresolved, ready, visited>>
  BY DEF Inv, SearchStep, Start, Discover, Advance, Finish, Searched, sortVars
<1>2. CASE Start
  <2>1. PICK n \in Names : work' = <<Frame(n, 0)>>
    BY <1>2 DEF Start, Undiscovered
  <2>2. work' \in Seq(FrameType)
    BY <2>1 DEF Frame, FrameType
  <2> QED
    BY <1>1, <1>2, <2>2 DEF Start, TypeOK, FrameType
<1>3. CASE Discover
  <2>1. Top.node \in Names
    BY <1>1, <1>3, TopType DEF Discover
  <2>2. Cardinality({n \in Names : order[n] # 0}) + 1 \in Nat
    <3>1. {n \in Names : order[n] # 0} \in SUBSET Names
      OBVIOUS
    <3> QED
      BY <3>1, NamesSubset
  <2>3. order' \in [Names -> Nat] /\ lowest' \in [Names -> Nat]
    BY <1>1, <1>3, <2>2 DEF Discover, TypeOK
  <2>4. stack' \in Seq(Names)
    BY <1>1, <1>3, <2>1 DEF Discover, TypeOK
  <2> QED
    BY <1>1, <1>3, <2>3, <2>4 DEF Discover, TypeOK
<1>4. CASE Advance
  <2>1. Top.node \in Names /\ Below \in Seq(FrameType)
    BY <1>1, <1>4, TopType DEF Advance
  <2> DEFINE n == Top.node
  <2>2. PICK at \in Scan(n, Top.at) :
          LET parent == extends[n][at]
              moved == Append(Below, Frame(n, at))
          IN  \/ work' = Append(moved, Frame(parent, 0)) /\ UNCHANGED lowest
              \/ work' = moved /\ lowest' = Lower(lowest, n, order[parent])
              \/ work' = moved /\ UNCHANGED lowest
    BY <1>4 DEF Advance
  <2> DEFINE parent == extends[n][at]
             moved == Append(Below, Frame(n, at))
  <2>3. at \in Nat /\ parent \in Names
    <3>1. at \in Left(n)
      BY DEF Scan
    <3>2. at \in DOMAIN extends[n] /\ parent \in Names
      BY <3>1 DEF Left
    <3>3. extends[n] \in Seq(Targets)
      BY <1>1, <2>1 DEF TypeOK
    <3> HIDE DEF n
    <3> QED
      BY <3>2, <3>3
  <2>4. moved \in Seq(FrameType) /\ Append(moved, Frame(parent, 0)) \in Seq(FrameType)
    BY <2>1, <2>3 DEF Frame, FrameType
  <2>5. Lower(lowest, n, order[parent]) \in [Names -> Nat]
    BY <1>1, <2>1, <2>3, LowerType DEF TypeOK
  <2>6. work' \in Seq(FrameType) /\ lowest' \in [Names -> Nat]
    <3>1. lowest \in [Names -> Nat]
      BY <1>1 DEF TypeOK
    <3> HIDE DEF parent, moved
    <3> QED
      BY <2>2, <2>4, <2>5, <3>1 DEF parent, moved
  <2> QED
    BY <1>1, <1>4, <2>6 DEF Advance, TypeOK, FrameType
<1>5. CASE Finish
  <2> DEFINE n == Top.node
  <2>1. /\ n \in Names /\ Below \in Seq(FrameType)
        /\ Below # <<>> => Below[Len(Below)].node \in Names
    BY <1>1, <1>5, TopType DEF Finish
  <2>2. stack \in Seq(Names) /\ cyclic \in Seq(Names) /\ lowest \in [Names -> Nat]
    BY <1>1 DEF TypeOK
  <2>3. stack' \in Seq(Names) /\ cyclic' \in Seq(Names)
    <3>1. CASE order[n] = lowest[n]
      <4>1. PICK root \in DOMAIN stack :
              LET component == Listed(SubSeq(stack, root, Len(stack)))
              IN  /\ stack' = SubSeq(stack, 1, root - 1)
                  /\ IF IsCycle(component, n)
                     THEN \E s \in InOrder(component) : cyclic' = cyclic \o s
                     ELSE UNCHANGED cyclic
        BY <1>5, <3>1 DEF Finish
      <4> DEFINE top == SubSeq(stack, root, Len(stack))
      <4>2. root \in Nat /\ root >= 1 /\ root <= Len(stack)
        BY <2>2
      <4>3. top \in Seq(Names) /\ SubSeq(stack, 1, root - 1) \in Seq(Names)
        BY <2>2, <4>2
      <4>4. Listed(top) \in SUBSET Names
        <5> HIDE DEF top
        <5> QED
          BY <4>3 DEF Listed
      <4>5. ASSUME NEW s \in InOrder(Listed(top))
            PROVE  cyclic \o s \in Seq(Names)
        <5>1. s \in Seq(Names)
          BY <4>4, InOrderLists
        <5> QED
          BY <2>2, <5>1
      <4>6. cyclic' \in Seq(Names)
        BY <2>2, <4>1, <4>5
      <4> QED
        BY <4>1, <4>3, <4>6
    <3>2. CASE order[n] # lowest[n]
      BY <1>5, <2>2, <3>2 DEF Finish
    <3> QED
      BY <3>1, <3>2
  <2>4. lowest' \in [Names -> Nat]
    <3>1. CASE Below = <<>>
      BY <1>5, <2>2, <3>1 DEF Finish
    <3>2. CASE Below # <<>>
      <4>1. lowest' = Lower(lowest, Below[Len(Below)].node, lowest[n])
        BY <1>5, <3>2 DEF Finish
      <4>2. lowest[n] \in Nat
        BY <2>1, <2>2
      <4> QED
        BY <2>1, <2>2, <3>2, <4>1, <4>2, LowerType
    <3> QED
      BY <3>1, <3>2
  <2>5. work' \in Seq(FrameType)
    BY <1>5, <2>1 DEF Finish
  <2> QED
    BY <1>1, <1>5, <2>3, <2>4, <2>5 DEF Finish, TypeOK, FrameType
<1>6. CASE Searched
  BY <1>1, <1>6 DEF Searched, searchVars, TypeOK
<1> QED
  BY <1>2, <1>3, <1>4, <1>5, <1>6 DEF SearchStep

LEMMA GraphStutter == Inv /\ UNCHANGED graphVars => Inv'
<1> SUFFICES ASSUME Inv, UNCHANGED graphVars PROVE Inv'
  OBVIOUS
<1>1. TypeOK'
  BY DEF graphVars, sortVars, searchVars, Inv, TypeOK
<1>2. SortInv'
  BY DEF graphVars, sortVars, searchVars, Inv, SortInv, Known, Listed, Injective
<1> QED
  BY <1>1, <1>2 DEF Inv

LEMMA GraphStep == Inv /\ Next => Inv'
<1> SUFFICES ASSUME Inv, Next PROVE Inv'
  OBVIOUS
<1>1. CASE Resolve
  BY <1>1, ResolveStep
<1>2. CASE Drained
  BY <1>2, DrainedStep
<1>3. CASE SearchStep
  BY <1>3, SearchKeepsSort, SearchTyped DEF Inv
<1> QED
  BY <1>1, <1>2, <1>3 DEF Next, SearchStep

\* A set of natural numbers has a least one.
LEMMA LeastNatural ==
  ASSUME NEW T, T \subseteq Nat, T # {}
  PROVE  \E x \in T : \A y \in T : x <= y
<1> DEFINE R == OpToRel(<, Nat)
<1>0. \A x, y \in Nat : <<x, y>> \in R <=> x < y
  BY DEF OpToRel
<1>1. IsWellFoundedOn(R, Nat)
  BY ONLY NatLessThanWellFounded
<1> HIDE DEF R
<1>2. PICK x \in T : \A y \in T : <<y, x>> \notin R
  BY <1>1, WFMin
<1>3. \A y \in T : x <= y
  <2> TAKE y \in T
  <2>1. x \in Nat /\ y \in Nat
    OBVIOUS
  <2>2. ~(y < x)
    BY <1>0, <1>2, <2>1
  <2> QED  BY <2>1, <2>2
<1> QED
  BY <1>3

-----------------------------------------------------------------------------
(* The search: what it maintains, in the terms of Tarjan's proof *)

\* Whoever extends x, directly or not, is in every closed set x is in.
Reaches(x, y) == \A U \in ClosedSets : x \in U => y \in U

\* The parents of n that the sort left.
Parents(n) == Known(n) \ Listed(visited)

Node(i) == work[i].node

\* The parents frame i has gone past.
Gone(i) == {extends[Node(i)][q] : q \in {q \in Left(Node(i)) : q <= work[i].at}}

Discovered == {n \in Names : order[n] # 0}

\* The members of the components that were taken off the stack.
Popped == Discovered \ Listed(stack)

Framed(x) == \E i \in DOMAIN work : Node(i) = x

\* The frames are a path of the graph. Only the topmost node may not have been
\* discovered, and the others are on the stack in the order of their discovery.
FramesArePath ==
  /\ \A i \in DOMAIN work : Node(i) \in Names \ Listed(visited)
  /\ \A i \in DOMAIN work : order[Node(i)] # 0 => Node(i) \in Listed(stack)
  /\ \A i \in DOMAIN work : order[Node(i)] = 0 => i = Len(work) /\ work[i].at = 0
  /\ \A i \in DOMAIN work : i + 1 \in DOMAIN work => Node(i + 1) \in Known(Node(i))
  /\ \A i, j \in DOMAIN work : i < j /\ order[Node(j)] # 0 => order[Node(i)] < order[Node(j)]

StackInOrder ==
  /\ Listed(stack) \subseteq Discovered
  /\ \A i, j \in DOMAIN stack : i < j => order[stack[i]] < order[stack[j]]
  /\ Discovered \cap Listed(visited) = {}
  /\ \A n \in Names : order[n] <= Cardinality(Discovered)

\* A node on the stack reaches those above it, and some frame at or below it.
StackReaches ==
  /\ \A x, y \in Listed(stack) : order[x] <= order[y] => Reaches(x, y)
  /\ \A y \in Listed(stack) : \E i \in DOMAIN work :
       order[Node(i)] # 0 /\ order[Node(i)] <= order[y] /\ Reaches(y, Node(i))

\* No parent was passed over.
ParentsDiscovered ==
  /\ \A x \in Discovered : ~Framed(x) => Parents(x) \subseteq Discovered
  /\ \A i \in DOMAIN work : \A z \in Gone(i) :
       z \in Discovered \/ (i + 1 \in DOMAIN work /\ z = Node(i + 1))
  /\ \A x \in Popped : Parents(x) \subseteq Popped

\* Frame i answers for y: its node is the last of the frames' at or below y.
Answers(i, y) ==
  /\ order[Node(i)] # 0 /\ order[Node(i)] <= order[y]
  /\ \A j \in DOMAIN work : i < j /\ order[Node(j)] # 0 => order[y] < order[Node(j)]

\* The lowest rank of a frame is the rank of a node that it reaches, and none
\* of the nodes it answers for has led lower.
LowestIsLowest ==
  \A i \in DOMAIN work : order[Node(i)] # 0 =>
    /\ lowest[Node(i)] <= order[Node(i)]
    /\ \E z \in Listed(stack) : order[z] = lowest[Node(i)] /\ Reaches(Node(i), z)
    /\ \A y, z \in Listed(stack) :
         Answers(i, y) /\ z \in (IF y = Node(i) THEN Gone(i) ELSE Parents(y))
           => lowest[Node(i)] <= order[z]

CyclesFound ==
  Injective(cyclic) /\ Listed(cyclic) = Popped \cap Cycles(ClosedSets)

Searching ==
  /\ FramesArePath /\ StackInOrder /\ StackReaches
  /\ ParentsDiscovered /\ LowestIsLowest /\ CyclesFound

SearchInv ==
  /\ phase = "sort" => order = [n \in Names |-> 0] /\ work = <<>> /\ stack = <<>> /\ cyclic = <<>>
  /\ phase = "search" => Searching
  /\ phase \in {"sorted", "cyclic"} => Injective(cyclic) /\ Listed(cyclic) = Cycles(ClosedSets)
  /\ phase = "sorted" => cyclic = <<>>

LEMMA KnownReached ==
  ASSUME NEW x \in Names, NEW y \in Known(x)
  PROVE  Reaches(x, y)
  BY DEF Reaches, ClosedSets

LEMMA ReachesThrough ==
  ASSUME NEW x, NEW y, NEW z, Reaches(x, y), Reaches(y, z)
  PROVE  Reaches(x, z)
  BY DEF Reaches

\* Two schemas that reach each other are on a cycle.
LEMMA PairOnCycle ==
  ASSUME NEW x \in Names, NEW y \in Names, x # y, Reaches(x, y), Reaches(y, x)
  PROVE  x \in Cycles(ClosedSets)
<1> SUFFICES ASSUME NEW U \in ClosedSets, Known(x) \subseteq U PROVE x \in U
  BY DEF Cycles
<1>1. U \cup {x} \in ClosedSets
  BY DEF ClosedSets
<1>2. y \in U
  BY <1>1 DEF Reaches
<1> QED
  BY <1>2 DEF Reaches

\* The parents that the sort left are those of the positions that count.
LEMMA ParentsAt ==
  ASSUME TypeOK, NEW n \in Names
  PROVE  Parents(n) = {extends[n][q] : q \in Left(n)}
<1>1. extends[n] \in Seq(Targets)
  BY DEF TypeOK
<1>2. DOMAIN extends[n] \subseteq Nat \ {0}
  BY <1>1
<1>3. ASSUME NEW p \in Parents(n)
      PROVE  \E q \in Left(n) : extends[n][q] = p
  <2> DEFINE T == {i \in DOMAIN extends[n] : extends[n][i] = p}
  <2>1. T # {} /\ T \subseteq Nat
    BY <1>2, <1>3 DEF Parents, Known, Listed
  <2>2. PICK q \in T : \A i \in T : q <= i
    BY <2>1, LeastNatural
  <2>3. \A j \in 1..(q - 1) : extends[n][j] # p
    <3> SUFFICES ASSUME NEW j \in 1..(q - 1), extends[n][j] = p PROVE FALSE
      OBVIOUS
    <3>1. DOMAIN extends[n] = 1..Len(extends[n]) /\ Len(extends[n]) \in Nat /\ q \in 1..Len(extends[n])
      BY <1>1
    <3>2. j \in DOMAIN extends[n] /\ ~(q <= j)
      BY <3>1
    <3> QED
      BY <2>2, <3>2
  <2> QED
    BY <2>3 DEF Left, Parents, Known
<1>4. \A q \in Left(n) : extends[n][q] \in Parents(n)
  BY DEF Left, Parents, Known, Listed
<1> QED
  BY <1>3, <1>4

LEMMA LeftPositions ==
  ASSUME TypeOK, NEW n \in Names
  PROVE  Left(n) \subseteq Nat \ {0}
  BY SMTT(90) DEF TypeOK, Left

\* What the search leaves alone.
LEMMA GraphKept ==
  ASSUME UNCHANGED extends
  PROVE  /\ ClosedSets' = ClosedSets
         /\ Cycles(ClosedSets)' = Cycles(ClosedSets)
         /\ \A x, y : Reaches(x, y)' <=> Reaches(x, y)
         /\ \A n : Known(n)' = Known(n)
<1>1. \A n : Known(n)' = Known(n)
  BY DEF Known
<1>2. ClosedSets' = ClosedSets
  BY <1>1 DEF ClosedSets
<1> QED
  BY <1>1, <1>2 DEF Cycles, Reaches

LEMMA LeftKept ==
  ASSUME UNCHANGED <<extends, visited>>
  PROVE  \A n : Left(n)' = Left(n) /\ Parents(n)' = Parents(n)
  BY DEF Left, Parents, Known, Listed

LEMMA FrameSet ==
  ASSUME TypeOK
  PROVE  /\ Len(work) \in Nat /\ DOMAIN work = 1..Len(work)
         /\ \A i \in DOMAIN work : Node(i) \in Names /\ work[i].at \in Nat
         /\ Listed(stack) \in SUBSET Names
         /\ DOMAIN stack = 1..Len(stack) /\ Len(stack) \in Nat
         /\ work # <<>> => /\ Len(work) \in DOMAIN work /\ Top = work[Len(work)]
                           /\ Top.node = Node(Len(work))
                           /\ Len(Below) = Len(work) - 1
                           /\ \A i \in 1..Len(work) - 1 : Below[i] = work[i]
<1>1. work \in Seq(FrameType) /\ stack \in Seq(Names)
  BY DEF TypeOK, FrameType
<1>2. \A i \in DOMAIN work : work[i] \in FrameType
  BY <1>1
<1>3. \A i \in DOMAIN work : Node(i) \in Names /\ work[i].at \in Nat
  BY <1>2 DEF Node, FrameType
<1>4. Listed(stack) \in SUBSET Names
  BY <1>1 DEF Listed
<1>5. work # <<>> => Len(work) \in DOMAIN work
  BY <1>1
<1>6. ASSUME work # <<>>
      PROVE  Len(Below) = Len(work) - 1 /\ \A i \in 1..Len(work) - 1 : Below[i] = work[i]
  <2>1. Len(work) \in Nat /\ Len(work) > 0 /\ 1..Len(work) - 1 \subseteq 1..Len(work)
    BY <1>1, <1>6
  <2>2. Below = [i \in 1..Len(work) - 1 |-> work[i]]
    BY <1>1, <2>1 DEF Below
  <2> QED
    BY <2>1, <2>2
<1> QED
  BY <1>1, <1>3, <1>4, <1>5, <1>6 DEF Top, Node

LEMMA StartSearches ==
  ASSUME Inv, Searching, Start
  PROVE  Searching'
<1>1. /\ TypeOK /\ work = <<>>
      /\ UNCHANGED <<extends, visited, order, lowest, stack, cyclic>>
  BY DEF Inv, Start, sortVars
<1>2. PICK n \in Undiscovered : work' = <<Frame(n, 0)>>
  BY DEF Start
<1>3. /\ DOMAIN work = {} /\ DOMAIN work' = {1} /\ Len(work') = 1
      /\ Node(1)' = n /\ work'[1].at = 0 /\ order[n] = 0 /\ n \in Names \ Listed(visited)
  BY <1>1, <1>2 DEF Node, Frame, Undiscovered
<1>4. Listed(stack) = {}
  BY <1>3 DEF Searching, StackReaches
<1>5. Gone(1)' = {}
  BY <1>1, <1>3, LeftPositions, LeftKept DEF Gone
<1>6. FramesArePath'
  BY <1>1, <1>3 DEF FramesArePath
<1>7. Listed(stack)' = Listed(stack) /\ Listed(visited)' = Listed(visited)
      /\ Discovered' = Discovered /\ Popped' = Popped
  BY <1>1 DEF Discovered, Popped, Listed
<1>8. StackInOrder'
  BY <1>1, <1>7 DEF Searching, StackInOrder
<1>9. StackReaches'
  BY <1>4, <1>7 DEF StackReaches
<1>10. ParentsDiscovered'
  BY <1>1, <1>3, <1>5, <1>7, LeftKept DEF Searching, ParentsDiscovered, Framed
<1>11. LowestIsLowest'
  BY <1>1, <1>3 DEF LowestIsLowest
<1>12. CyclesFound'
  BY <1>1, <1>7, GraphKept DEF Searching, CyclesFound, Injective, Listed
<1> QED
  BY <1>6, <1>8, <1>9, <1>10, <1>11, <1>12 DEF Searching

\* The topmost frame's node goes on top of the stack, with the highest rank.
LEMMA DiscoverSearches ==
  ASSUME Inv, Searching, Discover
  PROVE  Searching'
<1> DEFINE n == Top.node
           k == Len(work)
           rank == Cardinality(Discovered) + 1
<1>1. /\ TypeOK /\ work # <<>> /\ order[n] = 0
      /\ UNCHANGED <<extends, visited, work, cyclic>>
      /\ order' = [order EXCEPT ![n] = rank] /\ lowest' = [lowest EXCEPT ![n] = rank]
      /\ stack' = Append(stack, n)
  BY DEF Inv, Discover, sortVars, Discovered
<1>2. /\ k \in Nat /\ DOMAIN work = 1..k /\ k \in DOMAIN work /\ n = Node(k)
      /\ Listed(stack) \in SUBSET Names /\ DOMAIN stack = 1..Len(stack) /\ Len(stack) \in Nat
      /\ \A i \in DOMAIN work : Node(i) \in Names
  BY <1>1, FrameSet
<1> HIDE DEF n, k
<1>3. n \in Names /\ order \in [Names -> Nat] /\ lowest \in [Names -> Nat] /\ stack \in Seq(Names)
  BY <1>1, <1>2 DEF TypeOK
<1>4. rank \in Nat /\ rank > 0 /\ \A m \in Names : order[m] < rank
  <2>1. Discovered \in SUBSET Names
    BY DEF Discovered
  <2>2. Cardinality(Discovered) \in Nat
    BY <2>1, NamesSubset
  <2> QED
    BY <1>3, <2>2 DEF Searching, StackInOrder
<1> HIDE DEF rank
<1>6. /\ order'[n] = rank /\ lowest'[n] = rank
      /\ \A m \in Names : m # n => order'[m] = order[m] /\ lowest'[m] = lowest[m]
  BY <1>1, <1>3
<1>5. Discovered' = Discovered \cup {n} /\ Cardinality(Discovered)' = rank /\ n \notin Discovered
  <2>1. Discovered' = Discovered \cup {n} /\ n \notin Discovered
    BY <1>1, <1>3, <1>4, <1>6 DEF Discovered
  <2>2. Discovered \in SUBSET Names
    BY DEF Discovered
  <2>3. IsFiniteSet(Discovered)
    BY <2>2, NamesSubset
  <2> QED
    BY <2>1, <2>3, FS_AddElement DEF rank
<1>7. /\ Len(stack') = Len(stack) + 1 /\ DOMAIN stack' = 1..Len(stack) + 1
      /\ stack'[Len(stack) + 1] = n /\ \A i \in 1..Len(stack) : stack'[i] = stack[i]
  BY <1>1, <1>3
<1>8. Listed(stack)' = Listed(stack) \cup {n} /\ n \notin Listed(stack)
  <2>1. Listed(stack) \subseteq Discovered
    BY DEF Searching, StackInOrder
  <2> QED
    BY <1>2, <1>5, <1>7, <2>1 DEF Listed
<1>9. /\ Popped' = Popped /\ Listed(visited)' = Listed(visited)
      /\ \A x : Framed(x)' <=> Framed(x)
      /\ \A i \in DOMAIN work : Node(i)' = Node(i) /\ Gone(i)' = Gone(i)
  <2>1. \A i \in DOMAIN work : Node(i)' = Node(i)
    BY <1>1 DEF Node
  <2>2. \A i \in DOMAIN work : Gone(i)' = Gone(i)
    BY <1>1, <2>1, LeftKept DEF Gone
  <2>3. Popped' = Popped
    BY <1>5, <1>8 DEF Popped
  <2> QED
    BY <1>1, <2>1, <2>2, <2>3 DEF Framed, Listed
<1>10. /\ work[k].at = 0 /\ n \notin Listed(visited) /\ Gone(k) = {}
       /\ \A i \in DOMAIN work : i # k => order[Node(i)] # 0 /\ Node(i) # n
  <2>1. work[k].at = 0 /\ n \notin Listed(visited)
    BY <1>1, <1>2 DEF Searching, FramesArePath
  <2>2. \A i \in DOMAIN work : i # k => order[Node(i)] # 0
    BY DEF k, Searching, FramesArePath
  <2>3. Gone(k) = {}
    BY <1>1, <1>2, <2>1, LeftPositions DEF Gone
  <2> QED
    BY <1>1, <2>1, <2>2, <2>3
<1>11. FramesArePath'
  <2>1. \A i \in DOMAIN work : Node(i) \in Names \ Listed(visited)
    BY DEF Searching, FramesArePath
  <2>2. \A i \in DOMAIN work : order'[Node(i)] # 0 /\ Node(i) \in Listed(stack)'
    BY <1>2, <1>4, <1>6, <1>8, <1>10 DEF Searching, FramesArePath
  <2>3. \A i, j \in DOMAIN work : i < j => order'[Node(i)] < order'[Node(j)]
    BY <1>2, <1>4, <1>6, <1>10 DEF Searching, FramesArePath
  <2>4. \A i \in DOMAIN work : i + 1 \in DOMAIN work => Node(i + 1) \in Known(Node(i))
    BY DEF Searching, FramesArePath
  <2> QED
    BY <1>1, <1>9, <2>1, <2>2, <2>3, <2>4, GraphKept DEF FramesArePath
<1>12. StackInOrder'
  <2>1. \A i, j \in DOMAIN stack' : i < j => order'[stack'[i]] < order'[stack'[j]]
    <3> SUFFICES ASSUME NEW i \in DOMAIN stack', NEW j \in DOMAIN stack', i < j
                 PROVE  order'[stack'[i]] < order'[stack'[j]]
      OBVIOUS
    <3>1. i \in DOMAIN stack /\ stack'[i] = stack[i] /\ stack[i] \in Names /\ stack[i] # n
      BY SMTT(90), <1>2, <1>3, <1>7, <1>8 DEF Listed
    <3>2. CASE j = Len(stack) + 1
      BY <1>4, <1>6, <1>7, <3>1, <3>2
    <3>3. CASE j \in DOMAIN stack
      <4>1. stack'[j] = stack[j] /\ stack[j] \in Names /\ stack[j] # n
        BY <1>2, <1>3, <1>7, <1>8, <3>3 DEF Listed
      <4> QED
        BY <1>6, <3>1, <3>3, <4>1 DEF Searching, StackInOrder
    <3> QED
      BY <1>2, <1>7, <3>2, <3>3
  <2>2. \A m \in Names : order'[m] <= Cardinality(Discovered)'
    BY <1>3, <1>4, <1>5, <1>6
  <2> QED
    BY <1>5, <1>8, <1>9, <1>10, <2>1, <2>2 DEF Searching, StackInOrder
<1>13. \A y \in Listed(stack) : Reaches(y, n)
  <2> SUFFICES ASSUME NEW y \in Listed(stack) PROVE Reaches(y, n)
    OBVIOUS
  <2>1. PICK i \in DOMAIN work : order[Node(i)] # 0 /\ order[Node(i)] <= order[y] /\ Reaches(y, Node(i))
    BY DEF Searching, StackReaches
  <2>2. i # k /\ k - 1 \in DOMAIN work /\ i <= k - 1
    BY <1>1, <1>2, <2>1
  <2>3. order[Node(k - 1)] # 0 /\ Node(i) \in Listed(stack) /\ Node(k - 1) \in Listed(stack)
    BY <1>2, <1>10, <2>2 DEF Searching, FramesArePath
  <2>4. order[Node(i)] <= order[Node(k - 1)]
    <3>1. CASE i = k - 1
      BY <1>2, <1>3, <3>1
    <3>2. CASE i < k - 1
      <4>1. order[Node(i)] < order[Node(k - 1)]
        BY <2>2, <2>3, <3>2 DEF Searching, FramesArePath
      <4>2. Node(i) \in Names /\ Node(k - 1) \in Names
        BY <1>2, <2>2
      <4>3. order[Node(i)] \in Nat /\ order[Node(k - 1)] \in Nat
        BY ONLY <1>3, <4>2
      <4> QED
        BY ONLY <4>1, <4>3
    <3> QED
      BY <1>2, <2>2, <3>1, <3>2
  <2>5. Reaches(Node(i), Node(k - 1))
    BY <2>3, <2>4 DEF Searching, StackReaches
  <2>6. Reaches(Node(k - 1), n)
    <3>1. n \in Known(Node(k - 1))
      BY <1>2, <2>2 DEF Searching, FramesArePath
    <3> QED
      BY <1>2, <2>2, <3>1, KnownReached
  <2> QED
    BY <2>1, <2>5, <2>6, ReachesThrough
<1>14. StackReaches'
  <2>1. \A x, y \in Listed(stack)' : order'[x] <= order'[y] => Reaches(x, y)
    <3> SUFFICES ASSUME NEW x \in Listed(stack)', NEW y \in Listed(stack)', order'[x] <= order'[y]
                 PROVE  Reaches(x, y)
      OBVIOUS
    <3>1. CASE x = n
      <4>1. y = n
        BY <1>2, <1>3, <1>4, <1>6, <1>8, <3>1
      <4> QED
        BY <3>1, <4>1 DEF Reaches
    <3>2. CASE x # n /\ y = n
      BY <1>8, <1>13, <3>2
    <3>3. CASE x # n /\ y # n
      BY <1>2, <1>6, <1>8, <3>3 DEF Searching, StackReaches
    <3> QED
      BY <3>1, <3>2, <3>3
  <2>2. ASSUME NEW y \in Listed(stack)'
        PROVE  \E i \in DOMAIN work :
                 order'[Node(i)] # 0 /\ order'[Node(i)] <= order'[y] /\ Reaches(y, Node(i))
    <3>1. CASE y = n
      BY <1>2, <1>4, <1>6, <3>1 DEF Reaches
    <3>2. CASE y # n
      <4>1. PICK i \in DOMAIN work :
              order[Node(i)] # 0 /\ order[Node(i)] <= order[y] /\ Reaches(y, Node(i))
        BY <1>8, <3>2 DEF Searching, StackReaches
      <4>2. Node(i) # n
        BY <1>1, <4>1
      <4> QED
        BY <1>2, <1>6, <1>8, <3>2, <4>1, <4>2
    <3> QED
      BY <3>1, <3>2
  <2> QED
    BY <1>1, <1>9, <2>1, <2>2, GraphKept DEF StackReaches
<1>15. ParentsDiscovered'
  <2>1. ASSUME NEW x \in Discovered', ~Framed(x)
        PROVE  Parents(x) \subseteq Discovered'
    <3>1. x # n
      BY <1>2, <2>1 DEF Framed
    <3> QED
      BY <1>5, <2>1, <3>1 DEF Searching, ParentsDiscovered
  <2>2. ASSUME NEW i \in DOMAIN work, NEW z \in Gone(i)
        PROVE  z \in Discovered'
    <3>1. z \in Discovered \/ (i + 1 \in DOMAIN work /\ z = Node(i + 1))
      BY <2>2 DEF Searching, ParentsDiscovered
    <3>2. Node(i + 1) = n \/ order[Node(i + 1)] # 0 \/ i + 1 \notin DOMAIN work
      BY <1>2, <1>10
    <3> QED
      BY <1>2, <1>5, <3>1, <3>2 DEF Discovered
  <2>3. \A x \in Popped : Parents(x) \subseteq Popped
    BY DEF Searching, ParentsDiscovered
  <2> QED
    BY <1>1, <1>9, <2>1, <2>2, <2>3, LeftKept DEF ParentsDiscovered
<1>16. LowestIsLowest'
  <2> SUFFICES ASSUME NEW i \in DOMAIN work
               PROVE  /\ lowest'[Node(i)] <= order'[Node(i)]
                      /\ \E z \in Listed(stack)' : order'[z] = lowest'[Node(i)] /\ Reaches(Node(i), z)
                      /\ \A y, z \in Listed(stack)' :
                           Answers(i, y)' /\ z \in (IF y = Node(i) THEN Gone(i) ELSE Parents(y))
                             => lowest'[Node(i)] <= order'[z]
    <3>1. DOMAIN work' = DOMAIN work
      BY <1>1
    <3>2. \A y : Parents(y)' = Parents(y)
      BY <1>1, LeftKept
    <3>3. \A x, y : Reaches(x, y)' <=> Reaches(x, y)
      BY <1>1, GraphKept
    <3> QED
      BY <1>9, <3>1, <3>2, <3>3 DEF LowestIsLowest
  <2>1. CASE i = k
    <3>1. lowest'[Node(i)] = rank /\ order'[Node(i)] = rank /\ Node(i) = n
      BY <1>2, <1>6, <2>1
    <3>2. ASSUME NEW y \in Listed(stack)', Answers(i, y)'
          PROVE  y = n
      <4>1. rank <= order'[y]
        BY <1>9, <2>1, <3>1, <3>2 DEF Answers
      <4> QED
        BY <1>2, <1>3, <1>4, <1>6, <1>8, <4>1
    <3> QED
      BY <1>4, <1>8, <1>10, <2>1, <3>1, <3>2 DEF Reaches
  <2>2. CASE i # k
    <3>1. /\ Node(i) # n /\ order[Node(i)] # 0 /\ Node(i) \in Names
          /\ lowest'[Node(i)] = lowest[Node(i)] /\ order'[Node(i)] = order[Node(i)]
      BY <1>2, <1>6, <1>10, <2>2
    <3>2. lowest[Node(i)] <= order[Node(i)] /\ order[Node(i)] < rank
      BY <1>4, <3>1 DEF Searching, LowestIsLowest
    <3>3. \E z \in Listed(stack)' : order'[z] = lowest'[Node(i)] /\ Reaches(Node(i), z)
      BY <1>2, <1>6, <1>8, <3>1 DEF Searching, LowestIsLowest
    <3>4. ASSUME NEW y \in Listed(stack)', NEW z \in Listed(stack)', Answers(i, y)',
                 z \in (IF y = Node(i) THEN Gone(i) ELSE Parents(y))
          PROVE  lowest[Node(i)] <= order'[z]
      <4>1. CASE z = n
        BY <1>3, <1>4, <1>6, <3>1, <3>2, <4>1
      <4>2. CASE z # n
        <5>1. order'[y] < order'[n]
          BY <1>1, <1>2, <1>4, <1>6, <1>9, <2>2, <3>4 DEF Answers
        <5>2. y # n /\ y \in Listed(stack) /\ z \in Listed(stack)
          BY <1>3, <1>4, <1>6, <1>8, <4>2, <5>1
        <5>3. Answers(i, y)
          <6>1. order[y] < rank /\ order'[y] = order[y]
            BY <1>2, <1>4, <1>6, <5>2
          <6>2. \A j \in DOMAIN work : order[Node(j)] # 0 => order'[Node(j)] = order[Node(j)]
            BY <1>1, <1>2, <1>6
          <6> QED
            BY <1>1, <1>9, <3>1, <3>4, <6>1, <6>2 DEF Answers
        <5>4. lowest[Node(i)] <= order[z]
          BY <3>1, <3>4, <5>2, <5>3 DEF Searching, LowestIsLowest
        <5> QED
          BY <1>2, <1>6, <4>2, <5>2, <5>4
      <4> QED
        BY <4>1, <4>2
    <3> QED
      BY <3>1, <3>2, <3>3, <3>4
  <2> QED
    BY <2>1, <2>2
<1>17. CyclesFound'
  BY <1>1, <1>9, GraphKept DEF Searching, CyclesFound, Injective, Listed
<1> QED
  BY <1>11, <1>12, <1>14, <1>15, <1>16, <1>17 DEF Searching

\* The topmost frame goes past a parent; one that was not discovered gets a
\* frame, and one on the stack may lower the rank.
LEMMA AdvanceSearches ==
  ASSUME Inv, Searching, Advance
  PROVE  Searching'
<1> DEFINE n == Top.node
           k == Len(work)
<1>1. /\ TypeOK /\ work # <<>> /\ order[n] # 0
      /\ UNCHANGED <<extends, visited, order, stack, cyclic>>
  BY DEF Inv, Advance, sortVars
<1>2. PICK at \in Scan(n, Top.at) :
        LET parent == extends[n][at]
            moved == Append(Below, Frame(n, at))
        IN  \/ /\ order[parent] = 0
               /\ work' = Append(moved, Frame(parent, 0))
               /\ UNCHANGED lowest
            \/ /\ parent \in Listed(stack)
               /\ work' = moved
               /\ lowest' = Lower(lowest, n, order[parent])
            \/ /\ order[parent] # 0 /\ parent \notin Listed(stack)
               /\ work' = moved
               /\ UNCHANGED lowest
  BY SMTT(90) DEF Advance
<1> DEFINE parent == extends[n][at]
<1>3. /\ k \in Nat /\ k > 0 /\ DOMAIN work = 1..k /\ n = Node(k) /\ n \in Names
      /\ Listed(stack) \in SUBSET Names
      /\ \A i \in DOMAIN work : Node(i) \in Names /\ work[i].at \in Nat
      /\ Top.at = work[k].at
      /\ Len(Below) = k - 1 /\ \A i \in 1..k - 1 : Below[i] = work[i]
  <2>1. k \in Nat /\ DOMAIN work = 1..k /\ k \in DOMAIN work
    BY <1>1, FrameSet
  <2>2. k > 0
    BY <2>1
  <2> HIDE DEF k
  <2> QED
    BY ZenonT(90), <1>1, <2>1, <2>2, FrameSet DEF k
<1>4. Below \in Seq(FrameType)
  BY <1>1, TopType
<1>5. /\ order \in [Names -> Nat] /\ lowest \in [Names -> Nat] /\ lowest' \in [Names -> Nat]
  <2>1. TypeOK'
    BY SearchTyped DEF SearchStep
  <2> QED
    BY <1>1, <2>1 DEF TypeOK
<1>6. /\ at \in Left(n) /\ at \in Nat /\ at > work[k].at
      /\ \A j \in Left(n) : j > work[k].at => at <= j
      /\ parent \in Parents(n) /\ parent \in Names \ Listed(visited) /\ parent \in Known(n)
  <2>1. at \in Left(n) /\ at > work[k].at /\ \A j \in Left(n) : j > work[k].at => at <= j
    BY <1>3 DEF Scan
  <2>2. at \in Nat
    BY <1>1, <1>3, <2>1, LeftPositions
  <2>3. parent \in Parents(n)
    BY <1>1, <1>3, <2>1, ParentsAt
  <2> QED
    BY <2>1, <2>2, <2>3 DEF Parents, Known
<1> HIDE DEF n, k, parent
<1>7. /\ \/ /\ order[parent] = 0
            /\ work' = Append(Append(Below, Frame(n, at)), Frame(parent, 0))
            /\ UNCHANGED lowest
         \/ /\ parent \in Listed(stack)
            /\ work' = Append(Below, Frame(n, at))
            /\ lowest' = Lower(lowest, n, order[parent])
         \/ /\ order[parent] # 0 /\ parent \notin Listed(stack)
            /\ work' = Append(Below, Frame(n, at))
            /\ UNCHANGED lowest
  BY <1>2 DEF parent
\* The frames after the step.
<1>8. /\ \A i \in 1..k - 1 : work'[i] = work[i]
      /\ work'[k] = Frame(n, at)
      /\ \/ DOMAIN work' = 1..k /\ Len(work') = k /\ order[parent] # 0
         \/ /\ DOMAIN work' = 1..k + 1 /\ Len(work') = k + 1 /\ order[parent] = 0
            /\ work'[k + 1] = Frame(parent, 0)
  <2> DEFINE f == Frame(n, at)
             g == Frame(parent, 0)
             m == Append(Below, f)
  <2>1. f \in FrameType /\ g \in FrameType
    BY <1>3, <1>6 DEF Frame, FrameType
  <2> HIDE DEF f, g
  <2>2. /\ m \in Seq(FrameType) /\ DOMAIN m = 1..k /\ Len(m) = k
        /\ m[k] = f /\ \A i \in 1..k - 1 : m[i] = work[i]
    BY <1>3, <1>4, <2>1
  <2> HIDE DEF m
  <2>3. /\ DOMAIN Append(m, g) = 1..k + 1 /\ Len(Append(m, g)) = k + 1
        /\ Append(m, g)[k + 1] = g
        /\ \A i \in 1..k : Append(m, g)[i] = m[i]
    BY <1>3, <2>1, <2>2
  <2>4. parent \in Listed(stack) => order[parent] # 0
    BY DEF Searching, StackInOrder, Discovered
  <2>5. \/ work' = m /\ order[parent] # 0
        \/ work' = Append(m, g) /\ order[parent] = 0
    BY <1>7, <2>4 DEF m, f, g
  <2>6. CASE work' = m /\ order[parent] # 0
    BY <1>3, <2>2, <2>6 DEF f
  <2>7. CASE work' = Append(m, g) /\ order[parent] = 0
    BY <1>3, <2>2, <2>3, <2>7 DEF f, g
  <2> QED
    BY <2>5, <2>6, <2>7
<1>9. /\ DOMAIN work \subseteq DOMAIN work'
      /\ \A i \in DOMAIN work : Node(i)' = Node(i)
      /\ \A i \in DOMAIN work' \ DOMAIN work :
           i = k + 1 /\ Len(work') = k + 1 /\ Node(i)' = parent /\ work'[i].at = 0 /\ order[parent] = 0
      /\ \A i \in DOMAIN work : i # k => i < k /\ i + 1 \in DOMAIN work /\ work'[i] = work[i]
      /\ work'[k].at = at
  BY <1>3, <1>8 DEF Node, Frame
<1>10. /\ \A i \in DOMAIN work : i # k => Gone(i)' = Gone(i)
       /\ \A i \in DOMAIN work : i = k => Gone(i)' = Gone(i) \cup {parent}
       /\ \A i \in DOMAIN work' \ DOMAIN work : Gone(i)' = {}
  <2>0. \A m : Left(m)' = Left(m) /\ Parents(m)' = Parents(m)
    BY <1>1, LeftKept
  <2>1. \A i \in DOMAIN work : i # k => Gone(i)' = Gone(i)
    BY <1>1, <1>9, <2>0 DEF Gone
  <2>2. \A i \in DOMAIN work' \ DOMAIN work : Gone(i)' = {}
    BY <1>1, <1>6, <1>9, <2>0, LeftPositions DEF Gone
  <2>3. {q \in Left(n) : q <= at} = {q \in Left(n) : q <= work[k].at} \cup {at}
    <3>1. Left(n) \subseteq Nat
      BY <1>1, <1>3, LeftPositions
    <3> QED
      BY <1>3, <1>6, <3>1
  <2>4. ASSUME NEW i \in DOMAIN work, i = k
        PROVE  /\ Gone(i)' = {extends[n][q] : q \in {q \in Left(n) : q <= at}}
               /\ Gone(i) = {extends[n][q] : q \in {q \in Left(n) : q <= work[k].at}}
    <3>1. Node(i)' = n /\ Node(i) = n /\ work'[i].at = at
      BY <1>3, <1>9, <2>4
    <3> QED
      BY <1>1, <2>0, <2>4, <3>1 DEF Gone
  <2> QED
    BY <2>1, <2>2, <2>3, <2>4 DEF parent
<1>11. /\ Discovered' = Discovered /\ Popped' = Popped
       /\ Listed(stack)' = Listed(stack) /\ Listed(visited)' = Listed(visited)
       /\ \A m : Known(m)' = Known(m) /\ Parents(m)' = Parents(m)
       /\ \A x, y : Reaches(x, y)' <=> Reaches(x, y)
       /\ \A x : Framed(x) => Framed(x)'
  BY <1>1, <1>9, LeftKept, GraphKept DEF Discovered, Popped, Listed, Framed
<1>12. /\ n \in Listed(stack) /\ Listed(stack) \subseteq Discovered
       /\ \A i \in DOMAIN work : i # k => order[Node(i)] < order[n] /\ order[Node(i)] # 0
  <2>1. n \in Listed(stack) /\ Listed(stack) \subseteq Discovered
    BY <1>1, <1>3 DEF Searching, FramesArePath, StackInOrder
  <2>2. \A i \in DOMAIN work : i # k => order[Node(i)] # 0
    BY DEF Searching, FramesArePath, k
  <2> QED
    BY <1>1, <1>3, <1>9, <2>1, <2>2 DEF Searching, FramesArePath
<1>13. FramesArePath'
  <2>1. \A i \in DOMAIN work' : Node(i)' \in Names \ Listed(visited)
    BY <1>6, <1>9 DEF Searching, FramesArePath
  <2>2. \A i \in DOMAIN work' : order[Node(i)'] # 0 => Node(i)' \in Listed(stack)
    BY <1>9 DEF Searching, FramesArePath
  <2>3. \A i \in DOMAIN work' : order[Node(i)'] = 0 => i = Len(work') /\ work'[i].at = 0
    BY <1>1, <1>3, <1>9, <1>12
  <2>4. ASSUME NEW i \in DOMAIN work', i + 1 \in DOMAIN work'
        PROVE  Node(i + 1)' \in Known(Node(i)')
    <3>1. CASE i + 1 \in DOMAIN work
      BY <1>3, <1>8, <1>9, <2>4, <3>1 DEF Searching, FramesArePath
    <3>2. CASE i + 1 \notin DOMAIN work
      <4>1. i = k /\ Node(i + 1)' = parent
        BY <1>3, <1>8, <1>9, <2>4, <3>2
      <4> QED
        BY <1>3, <1>6, <1>9, <4>1
    <3> QED
      BY <3>1, <3>2
  <2>5. \A i, j \in DOMAIN work' : i < j /\ order[Node(j)'] # 0 => order[Node(i)'] < order[Node(j)']
    <3> SUFFICES ASSUME NEW i \in DOMAIN work', NEW j \in DOMAIN work', i < j, order[Node(j)'] # 0
                 PROVE  order[Node(i)'] < order[Node(j)']
      OBVIOUS
    <3>1. j \in DOMAIN work /\ i \in DOMAIN work
      BY <1>3, <1>8, <1>9
    <3> QED
      BY <1>9, <3>1 DEF Searching, FramesArePath
  <2> QED
    BY <1>1, <1>11, <2>1, <2>2, <2>3, <2>4, <2>5 DEF FramesArePath
<1>14. StackInOrder'
  BY <1>1, <1>11 DEF Searching, StackInOrder
<1>15. StackReaches'
  BY <1>1, <1>9, <1>11 DEF Searching, StackReaches
<1>16. ParentsDiscovered'
  <2>1. ASSUME NEW i \in DOMAIN work', NEW z \in Gone(i)'
        PROVE  z \in Discovered \/ (i + 1 \in DOMAIN work' /\ z = Node(i + 1)')
    <3>1. CASE i \in DOMAIN work /\ i # k
      BY <1>9, <1>10, <2>1, <3>1 DEF Searching, ParentsDiscovered
    <3>2. CASE i = k /\ z \in Gone(k)
      BY <1>3, <3>2 DEF Searching, ParentsDiscovered
    <3>3. CASE i = k /\ z = parent
      <4>1. CASE order[parent] = 0
        BY <1>3, <1>8, <1>9, <3>3, <4>1
      <4>2. CASE order[parent] # 0
        BY <1>6, <3>3, <4>2 DEF Discovered
      <4> QED
        BY <4>1, <4>2
    <3> QED
      BY <1>10, <2>1, <3>1, <3>2, <3>3
  <2> QED
    BY <1>11, <2>1 DEF Searching, ParentsDiscovered
<1>17. LowestIsLowest'
  <2>1. ASSUME NEW i \in DOMAIN work, NEW y
        PROVE  Answers(i, y)' => Answers(i, y)
    BY <1>1, <1>9, <2>1 DEF Answers
  <2> SUFFICES ASSUME NEW i \in DOMAIN work, order[Node(i)] # 0
               PROVE  /\ lowest'[Node(i)] <= order[Node(i)]
                      /\ \E z \in Listed(stack) : order[z] = lowest'[Node(i)] /\ Reaches(Node(i), z)
                      /\ \A y, z \in Listed(stack) :
                           Answers(i, y) /\ z \in (IF y = Node(i) THEN Gone(i)' ELSE Parents(y))
                             => lowest'[Node(i)] <= order[z]
    <3>1. \A i \in DOMAIN work' : order[Node(i)'] # 0 => i \in DOMAIN work
      BY <1>9
    <3> QED
      BY <1>1, <1>9, <1>11, <2>1, <3>1 DEF LowestIsLowest
  <2>2. /\ lowest[Node(i)] <= order[Node(i)]
        /\ \E z \in Listed(stack) : order[z] = lowest[Node(i)] /\ Reaches(Node(i), z)
        /\ \A y, z \in Listed(stack) :
             Answers(i, y) /\ z \in (IF y = Node(i) THEN Gone(i) ELSE Parents(y))
               => lowest[Node(i)] <= order[z]
    BY DEF Searching, LowestIsLowest
  <2>3. CASE i # k
    <3>1. Node(i) # n
      BY <1>3, <1>5, <1>12, <2>3
    <3>2. lowest'[Node(i)] = lowest[Node(i)]
      BY <1>3, <1>5, <1>7, <3>1 DEF Lower
    <3> QED
      BY <1>10, <2>2, <2>3, <3>2
  <2>4. CASE i = k /\ parent \notin Listed(stack)
    <3>1. lowest' = lowest
      BY <1>7, <2>4
    <3> QED
      BY <1>10, <2>2, <2>4, <3>1
  <2>5. CASE i = k /\ parent \in Listed(stack)
    <3>1. lowest' = Lower(lowest, n, order[parent])
      BY <1>7, <1>12, <2>5 DEF Discovered
    <3>2. lowest[n] \in Nat /\ order[parent] \in Nat /\ order[n] \in Nat
      BY <1>3, <1>5, <1>6
    <3>3. lowest'[n] = IF order[parent] < lowest[n] THEN order[parent] ELSE lowest[n]
      BY <1>3, <1>5, <3>1 DEF Lower
    <3>4. lowest'[n] \in Nat /\ lowest'[n] <= lowest[n] /\ lowest'[n] <= order[parent]
      BY <3>2, <3>3
    <3>5. Reaches(n, parent)
      BY <1>3, <1>6, KnownReached
    <3>6. \E z \in Listed(stack) : order[z] = lowest'[n] /\ Reaches(n, z)
      <4>1. CASE lowest'[n] = order[parent]
        BY <2>5, <3>5, <4>1
      <4>2. CASE lowest'[n] = lowest[n]
        BY <1>3, <2>2, <2>5, <4>2
      <4> QED
        BY <3>3, <4>1, <4>2
    <3>7. ASSUME NEW y \in Listed(stack), NEW z \in Listed(stack), Answers(i, y),
                 z \in (IF y = n THEN Gone(i)' ELSE Parents(y))
          PROVE  lowest'[n] <= order[z]
      <4>1. CASE y = n /\ z = parent
        BY <3>4, <4>1
      <4>2. CASE ~(y = n /\ z = parent)
        <5>1. z \in (IF y = n THEN Gone(i) ELSE Parents(y))
          BY <1>10, <2>5, <3>7, <4>2
        <5>2. lowest[n] <= order[z]
          BY <1>3, <2>2, <2>5, <3>7, <5>1
        <5> QED
          BY <1>3, <1>5, <3>2, <3>4, <5>2
      <4> QED
        BY <4>1, <4>2
    <3>8. lowest'[n] <= order[n]
      BY <1>3, <2>2, <2>5, <3>2, <3>4
    <3> QED
      BY <1>3, <2>5, <3>6, <3>7, <3>8
  <2> QED
    BY <2>3, <2>4, <2>5
<1>18. CyclesFound'
  BY <1>1, <1>11, GraphKept DEF Searching, CyclesFound, Injective, Listed
<1> QED
  BY <1>13, <1>14, <1>15, <1>16, <1>17, <1>18 DEF Searching

\* The topmost frame has gone past every parent. The others are at lower ranks.
LEMMA FinishFrames ==
  ASSUME Inv, Searching, Finish, NEW k, k = Len(work), NEW n, n = Top.node
  PROVE  /\ k \in Nat /\ k > 0 /\ DOMAIN work = 1..k /\ n = Node(k) /\ n \in Names
         /\ Listed(stack) \in SUBSET Names /\ order \in [Names -> Nat] /\ lowest \in [Names -> Nat]
         /\ \A i \in DOMAIN work : /\ Node(i) \in Names /\ order[Node(i)] # 0
                                   /\ Node(i) \in Listed(stack)
                                   /\ i # k => order[Node(i)] < order[n]
         /\ UNCHANGED <<extends, phase, visited, order>>
         /\ DOMAIN work' = 1..k - 1
         /\ \A i \in DOMAIN work' : Node(i)' = Node(i) /\ Gone(i)' = Gone(i)
         /\ Gone(k) = Parents(n) /\ Parents(n) \subseteq Discovered
<1>1. TypeOK /\ work # <<>> /\ order[n] # 0 /\ work' = Below /\ Scan(n, Top.at) = {}
      /\ UNCHANGED <<extends, phase, visited, order>>
  BY DEF Inv, Finish, sortVars
<1>2. /\ k \in Nat /\ DOMAIN work = 1..k /\ k \in DOMAIN work /\ n = Node(k)
      /\ \A i \in DOMAIN work : Node(i) \in Names /\ work[i].at \in Nat
      /\ Listed(stack) \in SUBSET Names /\ Top.at = work[k].at
      /\ Len(Below) = k - 1 /\ \A i \in 1..k - 1 : Below[i] = work[i]
  BY <1>1, FrameSet
<1>3. order \in [Names -> Nat] /\ lowest \in [Names -> Nat] /\ n \in Names /\ k > 0
  <2>1. order \in [Names -> Nat] /\ lowest \in [Names -> Nat]
    BY <1>1 DEF TypeOK
  <2>2. k \in 1..k
    BY <1>2
  <2> QED
    BY <1>2, <2>1, <2>2
<1>4. DOMAIN work' = 1..k - 1 /\ \A i \in DOMAIN work' : work'[i] = work[i] /\ i \in DOMAIN work
  <2>1. Below \in Seq(FrameType)
    BY <1>1, TopType
  <2>2. DOMAIN Below = 1..Len(Below)
    BY <2>1
  <2> QED
    BY <1>1, <1>2, <2>2
<1>5. \A i \in DOMAIN work' : Node(i)' = Node(i) /\ Gone(i)' = Gone(i)
  <2>1. \A i \in DOMAIN work' : Node(i)' = Node(i)
    BY <1>4 DEF Node
  <2>2. \A i \in DOMAIN work' : Gone(i)' = Gone(i)
    BY <1>1, <1>4, <2>1, LeftKept DEF Gone
  <2> QED
    BY <2>1, <2>2
<1>6. \A i \in DOMAIN work : order[Node(i)] # 0 /\ Node(i) \in Listed(stack)
  <2>1. \A i \in DOMAIN work : order[Node(i)] # 0
    BY <1>1, <1>2 DEF Searching, FramesArePath
  <2> QED
    BY <2>1 DEF Searching, FramesArePath
<1>7. \A i \in DOMAIN work : i # k => order[Node(i)] < order[n]
  BY <1>1, <1>2 DEF Searching, FramesArePath
<1>8. Gone(k) = Parents(n)
  <2>1. Left(n) \subseteq Nat
    BY <1>1, <1>3, LeftPositions
  <2>2. ASSUME NEW q \in Left(n)
        PROVE  q <= work[k].at
    <3> SUFFICES ASSUME q > work[k].at PROVE FALSE
      BY <1>2, <2>1
    <3> DEFINE T == {j \in Left(n) : j > work[k].at}
    <3>1. T \subseteq Nat /\ T # {}
      BY <2>1, <2>2
    <3>2. PICK j \in T : \A i \in T : j <= i
      BY <3>1, LeastNatural
    <3>3. j \in Scan(n, Top.at)
      BY <1>2, <3>2 DEF Scan
    <3> QED
      BY <1>1, <3>3
  <2>3. {q \in Left(n) : q <= work[k].at} = Left(n)
    BY <2>2
  <2> QED
    BY SMTT(90), <1>1, <1>2, <1>3, <2>3, ParentsAt DEF Gone
<1>9. Parents(n) \subseteq Discovered
  <2>1. k + 1 \notin DOMAIN work
    BY <1>2
  <2> QED
    BY <1>2, <1>8, <2>1 DEF Searching, ParentsDiscovered
<1> QED
  BY <1>1, <1>2, <1>3, <1>4, <1>5, <1>6, <1>7, <1>8, <1>9

\* A finished frame leaves the path and its node's parents are discovered.
LEMMA FinishKeeps ==
  ASSUME Inv, Searching, Finish
  PROVE  /\ \A x \in Discovered : ~Framed(x)' => Parents(x) \subseteq Discovered
         /\ \A i \in DOMAIN work' : \A z \in Gone(i)' :
              z \in Discovered \/ (i + 1 \in DOMAIN work' /\ z = Node(i + 1)')
         /\ \A i \in DOMAIN work' : i + 1 \in DOMAIN work' => Node(i + 1)' \in Known(Node(i)')
         /\ \A i, j \in DOMAIN work' : i < j => order[Node(i)'] < order[Node(j)']
<1> DEFINE n == Top.node
           k == Len(work)
<1>1. /\ k \in Nat /\ k > 0 /\ DOMAIN work = 1..k /\ n = Node(k) /\ n \in Names
      /\ \A i \in DOMAIN work : Node(i) \in Names /\ order[Node(i)] # 0
      /\ DOMAIN work' = 1..k - 1
      /\ \A i \in DOMAIN work' : Node(i)' = Node(i) /\ Gone(i)' = Gone(i)
      /\ Parents(n) \subseteq Discovered
  BY FinishFrames
<1> HIDE DEF n, k
<1>2. \A x \in Discovered : ~Framed(x)' => Parents(x) \subseteq Discovered
  <2> SUFFICES ASSUME NEW x \in Discovered, ~Framed(x)', x # n PROVE Parents(x) \subseteq Discovered
    BY <1>1
  <2>1. ~Framed(x)
    BY <1>1 DEF Framed
  <2> QED
    BY <2>1 DEF Searching, ParentsDiscovered
<1>3. ASSUME NEW i \in DOMAIN work', NEW z \in Gone(i)'
      PROVE  z \in Discovered \/ (i + 1 \in DOMAIN work' /\ z = Node(i + 1)')
  <2>1. i \in DOMAIN work /\ z \in Gone(i) /\ i \in Nat /\ i < k
    BY <1>1, <1>3
  <2>2. z \in Discovered \/ (i + 1 \in DOMAIN work /\ z = Node(i + 1))
    BY <2>1 DEF Searching, ParentsDiscovered
  <2>3. CASE i + 1 = k
    BY <1>1, <2>2, <2>3 DEF Discovered
  <2>4. CASE i + 1 # k
    BY <1>1, <2>1, <2>2, <2>4
  <2> QED
    BY <2>3, <2>4
<1>4. DOMAIN work' \subseteq DOMAIN work
  BY <1>1
<1>5. \A i \in DOMAIN work' : i + 1 \in DOMAIN work' => Node(i + 1)' \in Known(Node(i)')
  BY <1>1, <1>4 DEF Searching, FramesArePath
<1>6. \A i, j \in DOMAIN work' : i < j => order[Node(i)'] < order[Node(j)']
  BY <1>1, <1>4 DEF Searching, FramesArePath
<1> QED
  BY <1>2, <1>3, <1>5, <1>6

\* A finished node that reaches a lower rank stays on the stack, and its caller
\* inherits the rank.
LEMMA FinishStays ==
  ASSUME Inv, Searching, Finish, order[Top.node] # lowest[Top.node]
  PROVE  Searching'
<1> DEFINE n == Top.node
           k == Len(work)
<1>1. /\ k \in Nat /\ k > 0 /\ DOMAIN work = 1..k /\ n = Node(k) /\ n \in Names
      /\ Listed(stack) \in SUBSET Names /\ order \in [Names -> Nat] /\ lowest \in [Names -> Nat]
      /\ \A i \in DOMAIN work : /\ Node(i) \in Names /\ order[Node(i)] # 0
                                /\ Node(i) \in Listed(stack)
                                /\ i # k => order[Node(i)] < order[n]
      /\ UNCHANGED <<extends, phase, visited, order>>
      /\ DOMAIN work' = 1..k - 1
      /\ \A i \in DOMAIN work' : Node(i)' = Node(i) /\ Gone(i)' = Gone(i)
      /\ Gone(k) = Parents(n) /\ Parents(n) \subseteq Discovered
  BY ZenonT(90), FinishFrames
<1>2. UNCHANGED <<stack, cyclic>>
  BY DEF Finish
<1>3. /\ Below # <<>> => lowest' = Lower(lowest, Below[Len(Below)].node, lowest[n])
      /\ work' = Below
  BY DEF Finish
<1>4. /\ Len(Below) = k - 1 /\ \A i \in 1..k - 1 : Below[i] = work[i]
  BY ZenonT(90), FrameSet DEF Inv, Finish
<1>5. order[n] # lowest[n]
  OBVIOUS
<1> HIDE DEF n, k
<1>6. PICK z0 \in Listed(stack) : order[z0] = lowest[n] /\ Reaches(n, z0) /\ order[z0] < order[n]
  <2>1. lowest[n] <= order[n] /\ \E z \in Listed(stack) : order[z] = lowest[n] /\ Reaches(n, z)
    BY SMTT(90), <1>1 DEF Searching, LowestIsLowest
  <2> QED
    BY <1>1, <1>5, <2>1
<1>7. PICK i0 \in DOMAIN work : order[Node(i0)] <= order[z0] /\ Reaches(z0, Node(i0))
  BY DEF Searching, StackReaches
<1>8. i0 # k /\ i0 \in DOMAIN work' /\ k - 1 \in DOMAIN work' /\ k - 1 > 0
  <2>1. i0 # k
    BY <1>1, <1>6, <1>7
  <2> QED
    BY <1>1, <2>1
<1> DEFINE m == Node(k - 1)
<1>9. /\ m \in Names /\ order[m] < order[n] /\ n \in Known(m) /\ m # n
      /\ lowest' = Lower(lowest, m, lowest[n])
  <2>1. k - 1 \in DOMAIN work /\ (k - 1) + 1 = k /\ k - 1 # k
    BY <1>1, <1>8
  <2>2. m \in Names /\ order[m] < order[n]
    BY <1>1, <2>1
  <2>3. n \in Known(m)
    BY SMTT(90), <1>1, <2>1 DEF Searching, FramesArePath
  <2>4. Below # <<>> /\ Below[Len(Below)].node = m
    BY <1>1, <1>4, <1>8 DEF Node
  <2> QED
    BY <1>1, <1>3, <2>2, <2>3, <2>4
<1> HIDE DEF m
<1>10. /\ Discovered' = Discovered /\ Popped' = Popped
       /\ Listed(stack)' = Listed(stack) /\ Listed(visited)' = Listed(visited)
       /\ \A x : Known(x)' = Known(x) /\ Parents(x)' = Parents(x)
       /\ \A x, y : Reaches(x, y)' <=> Reaches(x, y)
  BY <1>1, <1>2, LeftKept, GraphKept DEF Discovered, Popped, Listed
<1>11. FramesArePath'
  BY SMTT(90), <1>1, <1>10, FinishKeeps DEF Searching, FramesArePath
<1>12. StackInOrder'
  BY <1>1, <1>2, <1>10 DEF Searching, StackInOrder
<1>13. StackReaches'
  <2>1. ASSUME NEW y \in Listed(stack)
        PROVE  \E i \in DOMAIN work' : order[Node(i)] # 0 /\ order[Node(i)] <= order[y] /\ Reaches(y, Node(i))
    <3>1. PICK i \in DOMAIN work : order[Node(i)] # 0 /\ order[Node(i)] <= order[y] /\ Reaches(y, Node(i))
      BY DEF Searching, StackReaches
    <3>2. CASE i # k
      BY <1>1, <3>1, <3>2
    <3>3. CASE i = k
      <4>1. Reaches(y, Node(i0))
        BY <1>1, <1>6, <1>7, <3>1, <3>3, ReachesThrough
      <4>2. order[Node(i0)] <= order[y] /\ order[Node(i0)] # 0
        BY <1>1, <1>6, <1>7, <3>1, <3>3
      <4> QED
        BY <1>8, <4>1, <4>2
    <3> QED
      BY <3>2, <3>3
  <2>2. \A x, y \in Listed(stack) : order[x] <= order[y] => Reaches(x, y)
    BY DEF Searching, StackReaches
  <2>3. \A y \in Listed(stack) : \E i \in DOMAIN work' :
          order'[Node(i)'] # 0 /\ order'[Node(i)'] <= order'[y] /\ Reaches(y, Node(i)')
    BY <1>1, <2>1
  <2> QED
    BY <1>1, <1>10, <2>2, <2>3 DEF StackReaches
<1>14. ParentsDiscovered'
  BY <1>10, FinishKeeps DEF Searching, ParentsDiscovered
<1>15. LowestIsLowest'
  <2> SUFFICES ASSUME NEW i \in DOMAIN work'
               PROVE  /\ lowest'[Node(i)] <= order[Node(i)]
                      /\ \E z \in Listed(stack) : order[z] = lowest'[Node(i)] /\ Reaches(Node(i), z)
                      /\ \A y, z \in Listed(stack) :
                           Answers(i, y)' /\ z \in (IF y = Node(i) THEN Gone(i) ELSE Parents(y))
                             => lowest'[Node(i)] <= order[z]
    BY <1>1, <1>10 DEF LowestIsLowest
  <2>0. i \in DOMAIN work /\ i \in Nat /\ i < k
    BY <1>1
  <2>1. /\ lowest[Node(i)] <= order[Node(i)]
        /\ \E z \in Listed(stack) : order[z] = lowest[Node(i)] /\ Reaches(Node(i), z)
        /\ \A y, z \in Listed(stack) :
             Answers(i, y) /\ z \in (IF y = Node(i) THEN Gone(i) ELSE Parents(y))
               => lowest[Node(i)] <= order[z]
    BY <1>1, <2>0 DEF Searching, LowestIsLowest
  <2>2. ASSUME NEW y \in Listed(stack), Answers(i, y)', order[y] < order[n]
        PROVE  Answers(i, y)
    <3>1. order[Node(i)] # 0 /\ order[Node(i)] <= order[y]
      BY <1>1, <2>2 DEF Answers
    <3>2. ASSUME NEW j \in DOMAIN work, i < j
          PROVE  order[y] < order[Node(j)]
      <4>1. CASE j = k
        BY <1>1, <2>2, <4>1
      <4>2. CASE j # k
        <5>1. j \in DOMAIN work' /\ Node(j)' = Node(j) /\ order'[Node(j)] # 0
          BY SMTT(90), <1>1, <4>2
        <5> QED
          BY <1>1, <2>2, <3>2, <5>1 DEF Answers
      <4> QED
        BY <4>1, <4>2
    <3> QED
      BY <3>1, <3>2 DEF Answers
  <2>3. CASE i # k - 1
    <3>1. k - 1 \in DOMAIN work /\ i < k - 1 /\ order[Node(i)] < order[m]
      <4>1. k - 1 \in DOMAIN work /\ i < k - 1
        BY <1>1, <1>8, <2>0, <2>3
      <4> QED
        BY <1>1, <2>0, <4>1 DEF m, Searching, FramesArePath
    <3>2. lowest'[Node(i)] = lowest[Node(i)]
      BY <1>1, <1>9, <2>0, <3>1 DEF Lower
    <3>3. ASSUME NEW y \in Listed(stack), Answers(i, y)'
          PROVE  Answers(i, y)
      <4>1. order[y] < order[m]
        BY <1>1, <1>8, <2>0, <3>1, <3>3 DEF Answers, m
      <4> QED
        BY SMTT(90), <1>1, <1>9, <2>2, <3>3, <4>1
    <3> QED
      BY <2>1, <3>2, <3>3
  <2>4. CASE i = k - 1
    <3>1. lowest[m] \in Nat /\ lowest[n] \in Nat /\ Node(i) = m
      BY <1>1, <1>9, <2>4 DEF m
    <3>2. lowest'[m] = IF lowest[n] < lowest[m] THEN lowest[n] ELSE lowest[m]
      BY <1>1, <1>9 DEF Lower
    <3>3. lowest'[m] \in Nat /\ lowest'[m] <= lowest[m] /\ lowest'[m] <= lowest[n]
      BY <3>1, <3>2
    <3>4. lowest'[m] <= order[m]
      BY SMTT(90), <1>1, <1>9, <2>1, <3>1, <3>3
    <3>5. \E z \in Listed(stack) : order[z] = lowest'[m] /\ Reaches(m, z)
      <4>1. CASE lowest'[m] = lowest[n]
        <5>1. Reaches(m, n)
          BY <1>9, KnownReached
        <5>2. Reaches(m, z0)
          BY <1>6, <5>1, ReachesThrough
        <5> QED
          BY <1>6, <4>1, <5>2
      <4>2. CASE lowest'[m] = lowest[m]
        BY <2>1, <3>1, <4>2
      <4> QED
        BY <3>2, <4>1, <4>2
    <3>6. ASSUME NEW y \in Listed(stack), NEW z \in Listed(stack), Answers(i, y)',
                 z \in (IF y = m THEN Gone(i) ELSE Parents(y))
          PROVE  lowest'[m] <= order[z]
      <4>0. order[y] \in Nat /\ order[z] \in Nat /\ order[n] \in Nat
        BY <1>1
      <4>1. CASE order[y] < order[n]
        <5>1. lowest[m] <= order[z]
          BY <2>1, <2>2, <3>1, <3>6, <4>1
        <5> QED
          BY <3>1, <3>3, <4>0, <5>1
      <4>2. CASE order[n] <= order[y]
        <5>1. y # m /\ z \in Parents(y)
          BY SMTT(90), <1>1, <1>9, <3>6, <4>2
        <5>2. Answers(k, y)
          BY SMTT(90), <1>1, <4>2 DEF Answers
        <5>3. z \in (IF y = Node(k) THEN Gone(k) ELSE Parents(y))
          BY <1>1, <5>1
        <5>4. lowest[n] <= order[z]
          <6>1. k \in DOMAIN work
            BY <1>1
          <6>2. order[Node(k)] # 0
            BY <1>1, <6>1
          <6> QED
            BY <1>1, <3>6, <5>2, <5>3, <6>1, <6>2 DEF Searching, LowestIsLowest
        <5> QED
          BY <3>1, <3>3, <4>0, <5>4
      <4> QED
        BY <4>0, <4>1, <4>2
    <3> QED
      BY <3>1, <3>4, <3>5, <3>6
  <2> QED
    BY <2>3, <2>4
<1>16. CyclesFound'
  BY <1>1, <1>2, <1>10, GraphKept DEF Searching, CyclesFound, Injective, Listed
<1> QED
  BY <1>11, <1>12, <1>13, <1>14, <1>15, <1>16 DEF Searching

\* What the sort yielded extends only what it yielded, and so is on no cycle.
LEMMA VisitedClosed ==
  ASSUME Inv
  PROVE  /\ Listed(visited) \in SUBSET Names
         /\ \A x \in Listed(visited) : Known(x) \subseteq Listed(visited)
         /\ Listed(visited) \cap Cycles(ClosedSets) = {}
<1>1. visited \in Seq(Names)
  BY DEF Inv, TypeOK
<1>2. DOMAIN visited \subseteq Nat /\ \A i \in DOMAIN visited : visited[i] \in Names
  BY <1>1
<1>3. \A i \in DOMAIN visited : \A p \in Known(visited[i]) :
        \E j \in DOMAIN visited : j < i /\ visited[j] = p
  BY DEF Inv, SortInv
<1>4. ASSUME NEW i \in DOMAIN visited
      PROVE  visited[i] \notin Cycles(ClosedSets)
  <2> DEFINE U == {visited[j] : j \in {j \in DOMAIN visited : j < i}}
  <2>1. U \in ClosedSets
    <3>1. U \in SUBSET Names
      BY <1>2
    <3>2. ASSUME NEW x \in U, NEW p \in Known(x)
          PROVE  p \in U
      <4>1. PICK j \in DOMAIN visited : j < i /\ visited[j] = x
        BY <3>2
      <4>2. PICK l \in DOMAIN visited : l < j /\ visited[l] = p
        BY <1>3, <3>2, <4>1
      <4>3. l < i
        BY <1>2, <1>4, <4>1, <4>2
      <4> QED
        BY <4>2, <4>3
    <3> QED
      BY <3>1, <3>2 DEF ClosedSets
  <2>2. Known(visited[i]) \subseteq U
    BY <1>3
  <2>3. visited[i] \notin U
    <3> SUFFICES ASSUME NEW j \in DOMAIN visited, j < i, visited[j] = visited[i] PROVE FALSE
      OBVIOUS
    <3>1. j = i
      BY DEF Inv, SortInv, Injective
    <3> QED
      BY <1>2, <3>1
  <2> QED
    BY <2>1, <2>2, <2>3 DEF Cycles
<1> QED
  BY <1>2, <1>3, <1>4 DEF Listed

\* The finished node is the root of a component: with the nodes above it on the
\* stack it leaves the stack, and is reported if the component is a cycle.
LEMMA FinishComponent ==
  ASSUME Inv, Searching, Finish, order[Top.node] = lowest[Top.node]
  PROVE  Searching'
<1> DEFINE n == Top.node
           k == Len(work)
           closed == ClosedSets
<1>1. /\ k \in Nat /\ k > 0 /\ DOMAIN work = 1..k /\ n = Node(k) /\ n \in Names
      /\ Listed(stack) \in SUBSET Names /\ order \in [Names -> Nat] /\ lowest \in [Names -> Nat]
      /\ \A i \in DOMAIN work : /\ Node(i) \in Names /\ order[Node(i)] # 0
                                /\ Node(i) \in Listed(stack)
                                /\ i # k => order[Node(i)] < order[n]
      /\ UNCHANGED <<extends, phase, visited, order>>
      /\ DOMAIN work' = 1..k - 1
      /\ \A i \in DOMAIN work' : Node(i)' = Node(i) /\ Gone(i)' = Gone(i)
      /\ Gone(k) = Parents(n) /\ Parents(n) \subseteq Discovered
  BY FinishFrames
<1>2. PICK root \in DOMAIN stack :
        LET component == Listed(SubSeq(stack, root, Len(stack)))
        IN  /\ stack[root] = n
            /\ stack' = SubSeq(stack, 1, root - 1)
            /\ IF IsCycle(component, n)
               THEN \E s \in InOrder(component) : cyclic' = cyclic \o s
               ELSE UNCHANGED cyclic
  BY DEF Finish
<1> DEFINE C == Listed(SubSeq(stack, root, Len(stack)))
<1>3. /\ Below # <<>> => lowest' = Lower(lowest, Below[Len(Below)].node, lowest[n])
      /\ Below = <<>> => lowest' = lowest
  BY DEF Finish
<1>4. /\ Len(Below) = k - 1 /\ \A i \in 1..k - 1 : Below[i] = work[i]
  BY ZenonT(90), FrameSet DEF Inv, Finish
<1>5. order[n] = lowest[n]
  OBVIOUS
<1>6. /\ stack \in Seq(Names) /\ DOMAIN stack = 1..Len(stack) /\ Len(stack) \in Nat
      /\ cyclic \in Seq(Names)
  BY DEF Inv, TypeOK
<1> HIDE DEF n, k
\* The stack is cut at the root.
<1>7. /\ C = {stack[j] : j \in root..Len(stack)}
      /\ DOMAIN stack' = 1..root - 1 /\ \A j \in 1..root - 1 : stack'[j] = stack[j]
  <2>1. root \in Nat /\ root >= 1 /\ root <= Len(stack)
    BY <1>6
  <2>2. /\ DOMAIN SubSeq(stack, 1, root - 1) = 1..root - 1
        /\ \A j \in 1..root - 1 : SubSeq(stack, 1, root - 1)[j] = stack[j]
    BY <1>6, <2>1
  <2> DEFINE t == SubSeq(stack, root, Len(stack))
  <2>3. t = [j \in 1..Len(stack) - root + 1 |-> stack[j + root - 1]]
    BY <1>6, <2>1
  <2> HIDE DEF t
  <2>4. Listed(t) \subseteq {stack[j] : j \in root..Len(stack)}
    BY <1>6, <2>1, <2>3 DEF Listed
  <2>5. ASSUME NEW j \in root..Len(stack)
        PROVE  stack[j] \in Listed(t)
    <3>1. j - root + 1 \in DOMAIN t /\ t[j - root + 1] = stack[j]
      BY <1>6, <2>1, <2>3
    <3> QED
      BY <3>1 DEF Listed
  <2> QED
    BY <1>2, <2>2, <2>4, <2>5 DEF t
<1> HIDE DEF C
<1>8. /\ C = {y \in Listed(stack) : order[n] <= order[y]} /\ n \in C
      /\ Listed(stack)' = Listed(stack) \ C
      /\ \A y \in Listed(stack) : y \in Listed(stack)' <=> order[y] < order[n]
  <2>1. ASSUME NEW j \in DOMAIN stack
        PROVE  /\ j \in root..Len(stack) => order[n] <= order[stack[j]]
               /\ j \in 1..root - 1 => order[stack[j]] < order[n]
               /\ stack[j] \in Names /\ order[stack[j]] \in Nat
               /\ j \in root..Len(stack) \/ j \in 1..root - 1
    <3>1. stack[j] \in Names
      BY <1>6
    <3>2. \A a, b \in DOMAIN stack : a < b => order[stack[a]] < order[stack[b]]
      BY DEF Searching, StackInOrder
    <3>3. order[stack[j]] \in Nat /\ j \in Nat /\ root \in Nat /\ j \in 1..Len(stack)
      BY SMTT(90), <1>1, <1>6, <3>1
    <3>4. j < root => order[stack[j]] < order[n]
      BY <1>2, <3>2
    <3>5. root < j => order[n] < order[stack[j]]
      BY <1>2, <3>2
    <3>6. j = root => order[stack[j]] = order[n]
      BY <1>2
    <3> QED
      BY SMTT(90), <1>1, <1>6, <3>1, <3>3, <3>4, <3>5, <3>6
  <2>2. order[n] \in Nat /\ root \in root..Len(stack) /\ stack[root] = n
    BY <1>1, <1>2, <1>6
  <2>3. \A j \in root..Len(stack) : j \in DOMAIN stack
    BY <1>6
  <2>4. \A j \in 1..root - 1 : j \in DOMAIN stack
    BY <1>6
  <2>5. \A j \in DOMAIN stack :
          (order[n] <= order[stack[j]] <=> j \in root..Len(stack)) /\
          (order[stack[j]] < order[n] <=> j \in 1..root - 1)
    BY <2>1, <2>2
  <2>6. C = {y \in Listed(stack) : order[n] <= order[y]}
    BY <1>7, <2>3, <2>5 DEF Listed
  <2>7. Listed(stack)' = {y \in Listed(stack) : order[y] < order[n]}
    BY <1>7, <2>4, <2>5 DEF Listed
  <2>8. \A y \in Listed(stack) : order[y] < order[n] <=> ~(order[n] <= order[y])
    BY <1>1
  <2>9. n \in C
    BY <1>7, <2>2
  <2> QED
    BY <2>6, <2>7, <2>8, <2>9
<1>9. lowest' = lowest
  <2>1. CASE Below = <<>>
    BY <1>3, <2>1
  <2>2. CASE Below # <<>>
    <3>1. k - 1 \in DOMAIN work /\ k - 1 # k /\ Below[Len(Below)].node = Node(k - 1)
      <4>1. Len(Below) # 0
        <5>1. Below \in Seq(FrameType)
          BY TopType DEF Inv, Finish
        <5> QED
          BY <2>2, <5>1
      <4> QED
        BY <1>1, <1>4, <4>1 DEF Node
    <3>2. lowest' = Lower(lowest, Node(k - 1), lowest[n])
      BY <1>3, <2>2, <3>1
    <3>3. Node(k - 1) \in Names /\ order[Node(k - 1)] < order[n] /\ order[Node(k - 1)] # 0
      BY <1>1, <3>1
    <3>4. lowest[Node(k - 1)] <= order[Node(k - 1)]
      BY <3>1, <3>3 DEF Searching, LowestIsLowest
    <3>5. ~(lowest[n] < lowest[Node(k - 1)])
      BY <1>1, <1>5, <3>3, <3>4
    <3> QED
      BY <1>1, <3>2, <3>3, <3>5 DEF Lower
  <2> QED
    BY <2>1, <2>2
<1>10. /\ Discovered' = Discovered /\ Popped' = Popped \cup C
       /\ Listed(visited)' = Listed(visited)
       /\ \A x : Known(x)' = Known(x) /\ Parents(x)' = Parents(x)
       /\ \A x, y : Reaches(x, y)' <=> Reaches(x, y)
       /\ Listed(stack)' \subseteq Listed(stack) /\ Listed(stack) \subseteq Discovered
  <2>1. Discovered' = Discovered /\ Listed(visited)' = Listed(visited)
    BY <1>1 DEF Discovered, Listed
  <2>2. Listed(stack)' \subseteq Listed(stack) /\ Listed(stack) \subseteq Discovered
    BY <1>8 DEF Searching, StackInOrder
  <2>3. Popped' = Popped \cup C
    BY <1>8, <2>1, <2>2 DEF Popped
  <2> QED
    BY <1>1, <2>1, <2>2, <2>3, LeftKept, GraphKept
\* Nothing in the component extends what is below it on the stack.
<1>11. \A y \in C : Parents(y) \subseteq C \cup Popped
  <2> SUFFICES ASSUME NEW y \in C, NEW z \in Parents(y) PROVE z \in C \cup Popped
    OBVIOUS
  <2>1. y \in Listed(stack) /\ order[n] <= order[y] /\ k \in DOMAIN work
    BY <1>1, <1>8
  <2>2. z \in Discovered
    <3>1. CASE y = n
      BY <1>1, <3>1
    <3>2. CASE y # n
      <4>1. ~Framed(y)
        <5> SUFFICES ASSUME NEW i \in DOMAIN work, Node(i) = y PROVE FALSE
          BY DEF Framed
        <5>1. i # k
          BY <1>1, <3>2
        <5>2. order[y] < order[n] /\ order[y] \in Nat /\ order[n] \in Nat
          BY <1>1, <5>1
        <5> QED
          BY <2>1, <5>2
      <4> QED
        BY <1>10, <2>1, <4>1 DEF Searching, ParentsDiscovered
    <3> QED
      BY <3>1, <3>2
  <2>3. CASE z \in Listed(stack)
    <3>1. Answers(k, y)
      BY <1>1, <2>1 DEF Answers
    <3>2. z \in (IF y = Node(k) THEN Gone(k) ELSE Parents(y))
      BY <1>1
    <3>3. lowest[Node(k)] <= order[z]
      <4>1. order[Node(k)] # 0
        BY <1>1, <2>1
      <4> QED
        BY <2>1, <2>3, <3>1, <3>2, <4>1 DEF Searching, LowestIsLowest
    <3> QED
      BY <1>1, <1>5, <1>8, <2>3, <3>3
  <2>4. CASE z \notin Listed(stack)
    BY <2>2, <2>4 DEF Popped
  <2> QED
    BY <2>3, <2>4
<1>12. FramesArePath'
  <2>1. \A i \in DOMAIN work' : Node(i) \in Listed(stack)' /\ order[Node(i)] # 0
    BY <1>1, <1>8
  <2>2. \A i \in DOMAIN work : Node(i) \in Names \ Listed(visited)
    BY DEF Searching, FramesArePath
  <2> QED
    BY <1>1, <1>10, <2>1, <2>2, FinishKeeps DEF FramesArePath
<1>13. StackInOrder'
  <2>1. \A i, j \in DOMAIN stack' : i < j => order[stack'[i]] < order[stack'[j]]
    <3>1. \A i \in DOMAIN stack' : i \in DOMAIN stack /\ stack'[i] = stack[i]
      BY <1>6, <1>7
    <3> QED
      BY <3>1 DEF Searching, StackInOrder
  <2> QED
    BY <1>1, <1>10, <2>1 DEF Searching, StackInOrder
<1>14. StackReaches'
  <2>1. \A x, y \in Listed(stack) : order[x] <= order[y] => Reaches(x, y)
    BY DEF Searching, StackReaches
  <2>2. ASSUME NEW y \in Listed(stack)'
        PROVE  \E i \in DOMAIN work' :
                 order'[Node(i)'] # 0 /\ order'[Node(i)'] <= order'[y] /\ Reaches(y, Node(i)')
    <3>1. y \in Listed(stack) /\ order[y] < order[n]
      BY <1>8, <1>10, <2>2
    <3>2. PICK i \in DOMAIN work : order[Node(i)] # 0 /\ order[Node(i)] <= order[y] /\ Reaches(y, Node(i))
      BY <3>1 DEF Searching, StackReaches
    <3>3. i # k
      BY <1>1, <3>1, <3>2
    <3>4. i \in DOMAIN work'
      BY <1>1, <3>3
    <3>5. Node(i)' = Node(i) /\ order' = order
      BY <1>1, <3>4
    <3> QED
      BY <3>2, <3>4, <3>5
  <2> QED
    BY <1>1, <1>10, <2>1, <2>2 DEF StackReaches
<1>15. ParentsDiscovered'
  <2>1. \A x \in Popped' : Parents(x) \subseteq Popped'
    BY <1>10, <1>11 DEF Searching, ParentsDiscovered
  <2> QED
    BY <1>10, <2>1, FinishKeeps DEF ParentsDiscovered
<1>16. LowestIsLowest'
  <2> SUFFICES ASSUME NEW i \in DOMAIN work'
               PROVE  /\ lowest[Node(i)] <= order[Node(i)]
                      /\ \E z \in Listed(stack)' : order[z] = lowest[Node(i)] /\ Reaches(Node(i), z)
                      /\ \A y, z \in Listed(stack)' :
                           Answers(i, y)' /\ z \in (IF y = Node(i) THEN Gone(i) ELSE Parents(y))
                             => lowest[Node(i)] <= order[z]
    BY <1>1, <1>9, <1>10 DEF LowestIsLowest
  <2>0. i \in DOMAIN work /\ i # k
    BY <1>1
  <2>1. /\ lowest[Node(i)] <= order[Node(i)]
        /\ \E z \in Listed(stack) : order[z] = lowest[Node(i)] /\ Reaches(Node(i), z)
        /\ \A y, z \in Listed(stack) :
             Answers(i, y) /\ z \in (IF y = Node(i) THEN Gone(i) ELSE Parents(y))
               => lowest[Node(i)] <= order[z]
    BY <1>1, <2>0 DEF Searching, LowestIsLowest
  <2>2. \E z \in Listed(stack)' : order[z] = lowest[Node(i)] /\ Reaches(Node(i), z)
    <3>1. PICK z \in Listed(stack) : order[z] = lowest[Node(i)] /\ Reaches(Node(i), z)
      BY <2>1
    <3>2. order[z] < order[n]
      BY <1>1, <2>0, <2>1, <3>1
    <3> QED
      BY <1>8, <3>1, <3>2
  <2>3. ASSUME NEW y \in Listed(stack)', Answers(i, y)'
        PROVE  Answers(i, y) /\ y \in Listed(stack)
    <3>1. y \in Listed(stack) /\ order[y] < order[n]
      BY <1>8, <1>10, <2>3
    <3>2. order[Node(i)] # 0 /\ order[Node(i)] <= order[y]
      BY <1>1, <2>3 DEF Answers
    <3>3. ASSUME NEW j \in DOMAIN work, i < j
          PROVE  order[y] < order[Node(j)]
      <4>1. CASE j = k
        BY <1>1, <3>1, <4>1
      <4>2. CASE j # k
        <5>1. j \in DOMAIN work' /\ Node(j)' = Node(j) /\ order'[Node(j)] # 0
          BY <1>1, <4>2
        <5> QED
          BY <1>1, <2>3, <3>3, <5>1 DEF Answers
      <4> QED
        BY <4>1, <4>2
    <3> QED
      BY <3>1, <3>2, <3>3 DEF Answers
  <2> QED
    BY <1>10, <2>1, <2>2, <2>3
<1>17. CyclesFound'
  <2>1. Injective(cyclic) /\ Listed(cyclic) = Popped \cap Cycles(closed)
    BY DEF Searching, CyclesFound
  <2> HIDE DEF closed
  <2>2. \A y \in C : y \in Names /\ Reaches(n, y) /\ Reaches(y, n)
    <3> SUFFICES ASSUME NEW y \in C PROVE y \in Names /\ Reaches(n, y) /\ Reaches(y, n)
      OBVIOUS
    <3>1. y \in Listed(stack) /\ order[n] <= order[y] /\ n \in Listed(stack)
      BY <1>8
    <3>2. PICK i \in DOMAIN work : order[Node(i)] # 0 /\ order[Node(i)] <= order[y] /\ Reaches(y, Node(i))
      BY <3>1 DEF Searching, StackReaches
    <3>3. Node(i) \in Listed(stack) /\ order[Node(i)] <= order[n]
      BY <1>1
    <3>4. Reaches(Node(i), n) /\ Reaches(n, y)
      BY <3>1, <3>3 DEF Searching, StackReaches
    <3> QED
      BY <1>1, <3>1, <3>2, <3>4, ReachesThrough
  <2>3. CASE IsCycle(C, n)
    <3>1. C \subseteq Cycles(closed)
      <4> SUFFICES ASSUME NEW y \in C PROVE y \in Cycles(closed)
        OBVIOUS
      <4>1. CASE y # n
        BY <1>1, <2>2, <4>1, PairOnCycle DEF closed
      <4>2. CASE y = n /\ n \in Known(n)
        BY <1>1, <4>2 DEF Cycles
      <4>3. CASE y = n /\ C # {n}
        <5>1. PICK x \in C : x # n
          BY <1>8, <4>3
        <5> QED
          BY <1>1, <2>2, <4>3, <5>1, PairOnCycle DEF closed
      <4> QED
        BY <2>3, <4>1, <4>2, <4>3 DEF IsCycle
    <3>2. PICK s \in InOrder(C) : cyclic' = cyclic \o s
      BY <1>2, <2>3 DEF C
    <3>3. C \in SUBSET Names
      BY <2>2
    <3>4. s \in Seq(Names) /\ Listed(s) = C /\ Injective(s)
      BY <3>2, <3>3, InOrderLists
    <3>5. Listed(cyclic) \cap Listed(s) = {}
      BY <1>8, <2>1, <3>4 DEF Popped
    <3>6. Listed(cyclic \o s) = Listed(cyclic) \cup C /\ Injective(cyclic \o s)
      BY <1>6, <2>1, <3>4, <3>5, ConcatLists
    <3>7. Listed(cyclic)' = Listed(cyclic) \cup C /\ Injective(cyclic)'
      BY <3>2, <3>6 DEF Listed, Injective
    <3> QED
      BY <1>1, <1>10, <2>1, <3>1, <3>7, GraphKept DEF CyclesFound, closed
  <2>4. CASE ~IsCycle(C, n)
    <3>1. C = {n} /\ n \notin Known(n) /\ cyclic' = cyclic
      BY <1>2, <2>4 DEF IsCycle, C
    <3> DEFINE U == Popped \cup Listed(visited)
    <3>2. /\ \A x \in Listed(visited) : Known(x) \subseteq Listed(visited)
          /\ Listed(visited) \in SUBSET Names
      BY VisitedClosed
    <3>3. \A x \in Popped : Known(x) \subseteq U
      <4>1. \A x \in Popped : Parents(x) \subseteq Popped
        BY DEF Searching, ParentsDiscovered
      <4> QED
        BY <4>1 DEF Parents
    <3>4. Known(n) \subseteq U
      BY <1>11, <3>1 DEF Parents
    <3>5. n \notin U
      BY <1>8, <1>10 DEF Popped, Searching, StackInOrder
    <3>6. U \in closed
      <4>1. U \in SUBSET Names
        BY <3>2 DEF Popped, Discovered
      <4> QED
        BY <3>2, <3>3, <4>1 DEF closed, ClosedSets
    <3>7. n \notin Cycles(closed)
      BY <3>4, <3>5, <3>6 DEF Cycles
    <3>8. Listed(cyclic)' = Listed(cyclic) /\ Injective(cyclic)'
      BY <2>1, <3>1 DEF Listed, Injective
    <3> QED
      BY <1>1, <1>10, <2>1, <3>1, <3>7, <3>8, GraphKept DEF CyclesFound, closed
  <2> QED
    BY <2>3, <2>4
<1> QED
  BY <1>12, <1>13, <1>14, <1>15, <1>16, <1>17 DEF Searching

\* find after its outer loop: no frame is open and every node was discovered.
LEMMA SearchedFinds ==
  ASSUME Inv, Searching, Searched
  PROVE  Injective(cyclic) /\ Listed(cyclic) = Cycles(ClosedSets)
<1>1. work = <<>> /\ Undiscovered = {}
  BY DEF Searched
<1>2. Listed(stack) = {}
  <2>1. DOMAIN work = {}
    BY <1>1
  <2> QED
    BY <2>1 DEF Searching, StackReaches
<1>3. Names \ Listed(visited) \subseteq Popped
  BY <1>1, <1>2 DEF Undiscovered, Popped, Discovered
<1>4. Cycles(ClosedSets) \subseteq Names \ Listed(visited)
  BY VisitedClosed DEF Cycles
<1> QED
  BY <1>3, <1>4 DEF Searching, CyclesFound

\* The number of the entries of a list without repetition.
LEMMA ListedCount ==
  ASSUME NEW s \in Seq(Names), Injective(s)
  PROVE  Cardinality(Listed(s)) = Len(s)
<1>1. DOMAIN s = 1..Len(s) /\ Len(s) \in Nat /\ s \in [1..Len(s) -> Listed(s)]
  BY DEF Listed
<1>2. s \in Bijection(1..Len(s), Listed(s))
  BY <1>1 DEF Injective, Listed, Bijection, Injection, Surjection, IsInjective
<1> QED
  BY <1>1, <1>2, FS_CountingElements DEF ExistsBijection

\* find returns at once if the sort yielded every schema; then none is on a
\* cycle.
LEMMA DrainedSearches ==
  ASSUME Inv, SearchInv, Drained
  PROVE  SearchInv'
<1>1. /\ order = [n \in Names |-> 0] /\ work = <<>> /\ stack = <<>> /\ cyclic = <<>>
      /\ UNCHANGED <<extends, visited, order, work, stack, cyclic, lowest>>
      /\ phase' = IF Len(visited) = Count THEN "sorted" ELSE "search"
  BY DEF Drained, SearchInv, sortVars, searchVars
<1>2. CASE Len(visited) = Count
  <2>1. visited \in Seq(Names) /\ Injective(visited)
    BY DEF Inv, TypeOK, SortInv
  <2>2. Cardinality(Listed(visited)) = Count
    BY <1>2, <2>1, ListedCount
  <2>3. Cardinality(Names) = Count
    BY CountAssumption, FS_Interval DEF Names
  <2>4. Listed(visited) \in SUBSET Names
    BY VisitedClosed
  <2>5. Listed(visited) = Names
    BY <2>2, <2>3, <2>4, NamesFinite, FS_Subset
  <2>6. Cycles(ClosedSets) = {}
    BY <2>5, VisitedClosed DEF Cycles
  <2>7. Listed(cyclic') = {} /\ Injective(cyclic') /\ cyclic' = <<>>
    BY <1>1 DEF Listed, Injective
  <2>8. Cycles(ClosedSets)' = {}
    BY <1>1, <2>6, GraphKept
  <2> QED
    BY <1>1, <1>2, <2>7, <2>8 DEF SearchInv, Listed, Injective
<1>3. CASE Len(visited) # Count
  <2>1. DOMAIN work' = {} /\ DOMAIN stack' = {} /\ Listed(stack)' = {}
        /\ Listed(cyclic)' = {} /\ Injective(cyclic)'
    BY <1>1 DEF Listed, Injective
  <2>2. Discovered' = {} /\ Popped' = {}
    BY <1>1 DEF Discovered, Popped
  <2>3. Cardinality(Discovered)' = 0
    BY <2>2, FS_EmptySet
  <2>4. FramesArePath' /\ StackReaches' /\ ParentsDiscovered' /\ LowestIsLowest' /\ CyclesFound'
    BY <2>1, <2>2 DEF FramesArePath, StackReaches, ParentsDiscovered, LowestIsLowest, CyclesFound
  <2>5. StackInOrder'
    BY <1>1, <2>1, <2>2, <2>3 DEF StackInOrder
  <2> QED
    BY <1>1, <1>3, <2>4, <2>5 DEF SearchInv, Searching
<1> QED
  BY <1>2, <1>3

LEMMA SearchStutter ==
  ASSUME SearchInv, UNCHANGED graphVars
  PROVE  SearchInv'
<1>1. /\ \A i : Node(i)' = Node(i)
      /\ Listed(stack)' = Listed(stack) /\ Listed(visited)' = Listed(visited)
      /\ Discovered' = Discovered /\ Popped' = Popped
      /\ Listed(cyclic)' = Listed(cyclic) /\ Injective(cyclic)' = Injective(cyclic)
  BY DEF graphVars, sortVars, searchVars, Node, Listed, Discovered, Popped, Injective
<1>2. \A m : Left(m)' = Left(m) /\ Parents(m)' = Parents(m)
  BY LeftKept DEF graphVars, sortVars
<1>3. \A i : Gone(i)' = Gone(i)
  BY <1>1, <1>2 DEF graphVars, searchVars, Gone
<1>4. /\ ClosedSets' = ClosedSets
      /\ Cycles(ClosedSets)' = Cycles(ClosedSets)
      /\ \A x, y : Reaches(x, y)' <=> Reaches(x, y)
      /\ \A n : Known(n)' = Known(n)
  BY GraphKept DEF graphVars
<1>5. UNCHANGED <<phase, work, order, lowest, stack, cyclic>>
  BY DEF graphVars, searchVars
<1>6. Searching => FramesArePath' /\ StackInOrder'
  BY <1>1, <1>4, <1>5 DEF Searching, FramesArePath, StackInOrder
<1>7. Searching => StackReaches' /\ ParentsDiscovered'
  BY <1>1, <1>2, <1>3, <1>4, <1>5 DEF Searching, StackReaches, ParentsDiscovered, Framed
<1>8. Searching => LowestIsLowest'
  <2>1. \A i, y : Answers(i, y)' <=> Answers(i, y)
    BY <1>1, <1>5 DEF Answers
  <2> QED
    BY <1>1, <1>2, <1>3, <1>4, <1>5, <2>1 DEF Searching, LowestIsLowest
<1>9. Searching => CyclesFound'
  BY <1>1, <1>4, <1>5 DEF Searching, CyclesFound
<1>10. Searching => Searching'
  BY <1>6, <1>7, <1>8, <1>9 DEF Searching
<1> QED
  BY <1>1, <1>4, <1>5, <1>10 DEF SearchInv

\* The sort's steps leave the search's variables as they are at first.
LEMMA SearchStepInv ==
  ASSUME Inv, SearchInv, Next
  PROVE  SearchInv'
<1>1. CASE Resolve
  BY <1>1 DEF Resolve, SearchInv, searchVars
<1>2. CASE Drained
  BY <1>2, DrainedSearches
<1>3. CASE Start
  BY <1>3, StartSearches DEF Start, SearchInv
<1>4. CASE Discover
  BY <1>4, DiscoverSearches DEF Discover, SearchInv
<1>5. CASE Advance
  BY <1>5, AdvanceSearches DEF Advance, SearchInv
<1>6. CASE Finish
  <2>1. phase = "search" /\ phase' = "search" /\ Searching
    BY <1>6 DEF Finish, SearchInv
  <2>2. Searching'
    BY <1>6, <2>1, FinishStays, FinishComponent
  <2> QED
    BY <2>1, <2>2 DEF SearchInv
<1>7. CASE Searched
  <2>1. /\ Searching /\ phase' = (IF cyclic = <<>> THEN "sorted" ELSE "cyclic")
        /\ UNCHANGED <<extends, cyclic>>
    BY <1>7 DEF Searched, SearchInv, searchVars
  <2>2. Injective(cyclic) /\ Listed(cyclic) = Cycles(ClosedSets)
    BY <1>7, <2>1, SearchedFinds
  <2>3. Injective(cyclic)' /\ Listed(cyclic)' = Cycles(ClosedSets)'
    BY <2>1, <2>2, GraphKept DEF Injective, Listed
  <2> QED
    BY <2>1, <2>3 DEF SearchInv
<1> QED
  BY <1>1, <1>2, <1>3, <1>4, <1>5, <1>6, <1>7 DEF Next

-----------------------------------------------------------------------------
(* What follows *)

LEMMA LeftoversAreLeft ==
  ASSUME Inv
  PROVE  LeftoversWait
<1> SUFFICES ASSUME phase # "sort", NEW n \in Names \ Listed(visited)
             PROVE  Known(n) \ Listed(visited) # {}
  BY DEF LeftoversWait
<1>1. ready = <<>>
  BY DEF Inv, SortInv
<1>2. Listed(ready) = {}
  BY <1>1 DEF Listed
<1>3. unresolved[n] # 0 /\ unresolved[n] = Cardinality(Known(n) \ Listed(visited))
  BY <1>2 DEF Inv, SortInv
<1>4. Known(n) \ Listed(visited) \in SUBSET Names
  BY KnownType
<1> QED
  BY <1>3, <1>4, EmptyCount

\* A closed set with a schema left over has a schema of a cycle: the smallest
\* such set within it is what a schema of it extends into.
LEMMA LeftoverMeetsCycle ==
  ASSUME Inv, phase # "sort", NEW U \in ClosedSets, U \ Listed(visited) # {}
  PROVE  U \cap Cycles(ClosedSets) # {}
<1> DEFINE Fitting == {V \in ClosedSets : V \subseteq U /\ V \ Listed(visited) # {}}
           Sizes == {Cardinality(V) : V \in Fitting}
<1>1. \A V \in ClosedSets : V \in SUBSET Names
  BY DEF ClosedSets
<1>2. Sizes \subseteq Nat /\ Sizes # {}
  <2>1. \A V \in Fitting : Cardinality(V) \in Nat
    BY <1>1, NamesSubset
  <2>2. U \in Fitting
    OBVIOUS
  <2> QED
    BY <2>1, <2>2
<1>3. PICK V \in Fitting : \A W \in Fitting : Cardinality(V) <= Cardinality(W)
  <2> HIDE DEF Fitting
  <2>1. PICK size \in Sizes : \A other \in Sizes : size <= other
    BY <1>2, LeastNatural
  <2> QED
    BY <2>1
<1>4. PICK x \in V : x \notin Listed(visited)
  OBVIOUS
<1>5. V \in SUBSET Names /\ x \in Names /\ IsFiniteSet(V) /\ Cardinality(V) \in Nat
  BY <1>1, NamesSubset
<1>6. PICK p \in Known(x) : p \notin Listed(visited)
  BY <1>4, <1>5, LeftoversAreLeft DEF LeftoversWait
<1>7. p \in V
  BY <1>6 DEF ClosedSets
<1>8. ASSUME NEW W \in ClosedSets, Known(x) \subseteq W
      PROVE  x \in W
  <2> SUFFICES ASSUME x \notin W PROVE FALSE
    OBVIOUS
  <2>1. V \cap W \in ClosedSets
    BY DEF ClosedSets
  <2>2. V \cap W \in Fitting
    BY <1>6, <1>7, <1>8, <2>1
  <2>3. V \cap W \in SUBSET V /\ V \cap W # V
    OBVIOUS
  <2>4. Cardinality(V \cap W) <= Cardinality(V) /\ Cardinality(V) # Cardinality(V \cap W)
    BY <1>5, <2>3, FS_Subset
  <2>5. Cardinality(V \cap W) \in Nat
    BY <1>5, NamesSubset
  <2> QED
    BY <1>3, <1>5, <2>2, <2>4, <2>5
<1>9. x \in Cycles(ClosedSets)
  BY <1>5, <1>8 DEF Cycles
<1> QED
  BY <1>4, <1>9

LEMMA CyclesAreExact ==
  ASSUME Inv, SearchInv
  PROVE  CyclesExact
<1>1. ASSUME phase # "sort"
      PROVE  Names \ Listed(visited) =
               {n \in Names : \A U \in ClosedSets : n \in U => U \cap Cycles(ClosedSets) # {}}
  <2>1. ASSUME NEW n \in Names \ Listed(visited), NEW U \in ClosedSets, n \in U
        PROVE  U \cap Cycles(ClosedSets) # {}
    BY <1>1, <2>1, LeftoverMeetsCycle
  <2>2. Listed(visited) \in ClosedSets /\ Listed(visited) \cap Cycles(ClosedSets) = {}
    BY VisitedClosed DEF ClosedSets
  <2> QED
    BY <2>1, <2>2
<1>2. ASSUME phase \in {"sorted", "cyclic"}
      PROVE  Listed(cyclic) = Cycles(ClosedSets) /\ Len(cyclic) = Cardinality(Cycles(ClosedSets))
  <2>1. Injective(cyclic) /\ Listed(cyclic) = Cycles(ClosedSets) /\ cyclic \in Seq(Names)
    BY <1>2 DEF SearchInv, Inv, TypeOK
  <2> QED
    BY <2>1, ListedCount
<1> QED
  BY <1>1, <1>2 DEF CyclesExact

\* A registry without a cycle is sorted as a whole.
LEMMA AllSorted ==
  ASSUME Inv, SearchInv, phase = "sorted"
  PROVE  Listed(visited) = Names
<1>1. Cycles(ClosedSets) = {}
  BY DEF SearchInv, Listed
<1>2. Names \in ClosedSets
  BY DEF ClosedSets, Known
<1>3. Listed(visited) \in SUBSET Names
  BY VisitedClosed
<1> QED
  BY <1>1, <1>2, <1>3, LeftoverMeetsCycle
=================================================================================
