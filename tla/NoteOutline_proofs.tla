-------------------------- MODULE NoteOutline_proofs --------------------------
(***************************************************************************)
(* The statuses a note is read with: whatever its two files list, in       *)
(* whatever order and however often a symbol or a name returns, the three  *)
(* lookups of statuses tell one story.                                     *)
(*                                                                         *)
(* And its outline: whatever lists and items nest in a note, and whatever  *)
(* text is between them, the flat list of its items has each in its place, *)
(* with those in it after it, and every task knows of all tasks in it.     *)
(*                                                                         *)
(* And its text, cut into pieces in any way: the marker of an item is that *)
(* of its first line, what a marked item is classified as is what the      *)
(* configuration says, and every item and the note have the fields and     *)
(* tags written in them.                                                   *)
(***************************************************************************)
EXTENDS NoteOutline, FiniteSetTheorems, TLAPS

Orders == INSTANCE WellFoundedInduction

-----------------------------------------------------------------------------
(* Induction *)

\* A set of natural numbers has a least one.
LEMMA LeastNatural ==
  ASSUME NEW T, T \subseteq Nat, T # {}
  PROVE  \E x \in T : \A y \in T : x <= y
<1> DEFINE R == Orders!OpToRel(<, Nat)
<1>0. \A x, y \in Nat : <<x, y>> \in R <=> x < y
  BY DEF Orders!OpToRel
<1>1. Orders!IsWellFoundedOn(R, Nat)
  BY ONLY Orders!NatLessThanWellFounded
<1> HIDE DEF R
<1>2. PICK x \in T : \A y \in T : <<y, x>> \notin R
  BY <1>1, Orders!WFMin
<1>3. \A y \in T : x <= y
  <2> TAKE y \in T
  <2>1. x \in Nat /\ y \in Nat
    OBVIOUS
  <2>2. ~(y < x)
    BY <1>0, <1>2, <2>1
  <2> QED  BY <2>1, <2>2
<1> QED
  BY <1>3

\* A set that holds 0, and with each number below N the next, holds all to N.
LEMMA UpTo ==
  ASSUME NEW N \in Nat, NEW G, 0 \in G, \A n \in 0..(N - 1) : n \in G => n + 1 \in G
  PROVE  \A n \in 0..N : n \in G
<1> DEFINE T == {n \in 0..N : n \notin G}
<1> SUFFICES ASSUME T # {} PROVE FALSE
  OBVIOUS
<1>1. PICK x \in T : \A y \in T : x <= y
  <2>1. T \subseteq Nat
    OBVIOUS
  <2> HIDE DEF T
  <2> QED  BY <2>1, LeastNatural
<1>2. x \in Nat /\ x # 0 /\ x <= N
  OBVIOUS
<1>3. x - 1 \in 0..(N - 1) /\ x - 1 \in 0..N /\ ~(x <= x - 1)
  BY <1>2
<1>4. x - 1 \in G
  BY <1>1, <1>3
<1>5. x - 1 + 1 \in G
  BY <1>3, <1>4
<1> QED
  BY <1>2, <1>5

-----------------------------------------------------------------------------
(* Removing the statuses of a symbol from a list *)

\* The statuses of a list that are left by Without are its own but those of the
\* symbol, each as often as before.
LEMMA WithoutKeeps ==
  ASSUME NEW S, NEW list \in Seq(S), NEW symbol
  PROVE  /\ Without(list, symbol) \in Seq(S)
         /\ ToSet(Without(list, symbol)) = {e \in ToSet(list) : e.symbol # symbol}
         /\ IsInjective(list) => IsInjective(Without(list, symbol))
<1> DEFINE N == Len(list)
           Kept(f, n) == IF n = 0 THEN <<>>
                         ELSE IF list[n].symbol = symbol THEN f[n - 1] ELSE Append(f[n - 1], list[n])
           kept == CHOOSE f : f = [n \in 0..N |-> Kept(f, n)]
<1>1. Without(list, symbol) = kept[N]
  BY DEF Without
<1>2. N \in Nat /\ DOMAIN list = 1..N /\ \A n \in 1..N : list[n] \in S
  OBVIOUS
<1> DEFINE G == {n \in 0..N : \E f : f = [m \in 0..n |-> Kept(f, m)]}
<1>3. \A n \in 0..N : n \in G
  <2>1. 0 \in G
    <3> DEFINE f == [m \in 0..0 |-> <<>>]
    <3>1. \A m \in 0..0 : f[m] = Kept(f, m)
      OBVIOUS
    <3>2. f = [m \in 0..0 |-> Kept(f, m)]
      <4> HIDE DEF Kept
      <4> QED  BY <3>1
    <3> HIDE DEF f, Kept
    <3> QED  BY <1>2, <3>2
  <2>2. ASSUME NEW n \in 0..(N - 1), n \in G PROVE n + 1 \in G
    <3>1. PICK f : f = [m \in 0..n |-> Kept(f, m)]
      BY <2>2
    <3>0. \A m \in 0..n : f[m] = Kept(f, m)
      <4> HIDE DEF Kept
      <4> QED  BY <3>1
    <3> DEFINE g == [m \in 0..(n + 1) |-> IF m <= n THEN f[m] ELSE Kept(f, m)]
    <3>2. \A m \in 0..(n + 1) : g[m] = Kept(g, m)
      <4> TAKE m \in 0..(n + 1)
      <4>1. m # 0 => g[m - 1] = f[m - 1]
        BY <1>2
      <4>2. Kept(g, m) = Kept(f, m)
        BY <4>1
      <4>3. CASE m <= n
        <5>1. m \in 0..n /\ g[m] = f[m]
          BY <4>3
        <5> HIDE DEF Kept, g
        <5> QED  BY <3>0, <4>2, <5>1
      <4>4. CASE ~(m <= n)
        BY <4>2, <4>4
      <4> QED  BY <4>3, <4>4
    <3>3. g = [m \in 0..(n + 1) |-> Kept(g, m)]
      <4> HIDE DEF Kept
      <4> QED  BY <3>2
    <3>4. n + 1 \in 0..N
      BY <1>2
    <3> HIDE DEF g, Kept
    <3> QED  BY <3>3, <3>4
  <2> HIDE DEF G
  <2> QED  BY <1>2, <2>1, <2>2, UpTo
<1>4. \A n \in 0..N : kept[n] = Kept(kept, n)
  <2>1. \E f : f = [m \in 0..N |-> Kept(f, m)]
    BY <1>2, <1>3
  <2> HIDE DEF Kept
  <2>2. kept = [n \in 0..N |-> Kept(kept, n)]
    BY <2>1
  <2> HIDE DEF kept
  <2> QED  BY <2>2
<1> HIDE DEF kept, G
<1> DEFINE Before(n) == {list[m] : m \in 1..n}
           Good(n) == /\ kept[n] \in Seq(S)
                      /\ ToSet(kept[n]) = {e \in Before(n) : e.symbol # symbol}
                      /\ IsInjective(list) => IsInjective(kept[n])
           H == {n \in 0..N : Good(n)}
<1>5. \A n \in 0..N : n \in H
  <2>1. 0 \in H
    <3>1. kept[0] = <<>>
      BY <1>2, <1>4
    <3>2. <<>> \in Seq(S) /\ ToSet(<<>>) = {} /\ IsInjective(<<>>)
      BY DEF ToSet, IsInjective
    <3>3. Before(0) = {}
      OBVIOUS
    <3>4. Good(0)
      BY <3>1, <3>2, <3>3
    <3> HIDE DEF Good
    <3> QED  BY <1>2, <3>4
  <2>2. ASSUME NEW n \in 0..(N - 1), n \in H PROVE n + 1 \in H
    <3>1. n + 1 \in 1..N /\ n + 1 \in 0..N /\ n + 1 # 0 /\ n + 1 - 1 = n
      BY <1>2
    <3>2. kept[n + 1] = IF list[n + 1].symbol = symbol THEN kept[n] ELSE Append(kept[n], list[n + 1])
      BY <1>4, <3>1
    <3>3. Before(n + 1) = Before(n) \cup {list[n + 1]}
      <4>1. 1..(n + 1) = (1..n) \cup {n + 1}
        OBVIOUS
      <4> QED  BY <4>1
    <3>4. CASE list[n + 1].symbol = symbol
      BY <2>2, <3>1, <3>2, <3>3, <3>4
    <3>5. CASE list[n + 1].symbol # symbol
      <4> DEFINE q == kept[n]
                 r == Append(q, list[n + 1])
      <4>1. q \in Seq(S) /\ list[n + 1] \in S
        BY <1>2, <2>2, <3>1
      <4>2. /\ r \in Seq(S) /\ Len(r) = Len(q) + 1 /\ Len(q) \in Nat
            /\ DOMAIN r = (DOMAIN q) \cup {Len(q) + 1} /\ DOMAIN q = 1..Len(q)
            /\ \A i \in DOMAIN q : r[i] = q[i]
            /\ r[Len(q) + 1] = list[n + 1]
        <5> HIDE DEF q
        <5> QED  BY <4>1
      <4>3. ToSet(r) = ToSet(q) \cup {list[n + 1]}
        <5> HIDE DEF q, r
        <5> QED  BY <4>2 DEF ToSet
      <4>4. ASSUME IsInjective(list) PROVE IsInjective(r)
        <5>1. list[n + 1] \notin ToSet(q)
          <6>1. \A m \in 1..n : list[m] # list[n + 1]
            BY <1>2, <3>1, <4>4 DEF IsInjective
          <6>2. list[n + 1] \notin Before(n)
            BY <6>1
          <6> QED  BY <2>2, <6>2
        <5>2. IsInjective(q)
          BY <2>2, <4>4
        <5> HIDE DEF q, r
        <5>3. \A i \in DOMAIN q : q[i] # list[n + 1]
          BY <5>1 DEF ToSet
        <5> QED  BY <4>2, <5>2, <5>3 DEF IsInjective
      <4>5. kept[n + 1] = r
        BY <3>2, <3>5
      <4>6. ToSet(r) = {e \in Before(n + 1) : e.symbol # symbol}
        BY <2>2, <3>3, <3>5, <4>3
      <4> HIDE DEF r, q, Before
      <4> QED  BY <3>1, <4>2, <4>4, <4>5, <4>6
    <3> QED  BY <3>4, <3>5
  <2> HIDE DEF H
  <2> QED  BY <1>2, <2>1, <2>2, UpTo
<1>6. Good(N)
  <2>1. N \in 0..N
    BY <1>2
  <2>2. N \in H
    <3> HIDE DEF H
    <3> QED  BY <1>5, <2>1
  <2> HIDE DEF Good
  <2> QED  BY <2>2
<1>7. Before(N) = ToSet(list)
  BY <1>2 DEF ToSet
<1> HIDE DEF Before
<1> QED
  BY <1>1, <1>6, <1>7

-----------------------------------------------------------------------------
(* The table of statuses *)

\* A name that leads to a status leads to the one its symbol has, and is the
\* name of it: a replaced status is not found by the name it had, nor is the
\* name lost that another symbol took over (insert, purge_stale_entries).
THEOREM InsertKeepsNames ==
  ASSUME NEW map, NEW s, NamesLead(map)
  PROVE  NamesLead(InsertStatus(map, s))
<1> DEFINE symbols == map.symbols
           names == map.names
           purged == PurgeStaleEntries(map, s)
<1>1. purged.symbols = symbols
  BY DEF PurgeStaleEntries
<1>2. /\ DOMAIN purged.names \subseteq DOMAIN names
      /\ \A name \in DOMAIN purged.names : purged.names[name] = names[name]
      /\ \A name \in DOMAIN purged.names : names[name].symbol # s.symbol
  <2>1. CASE s.symbol \notin DOMAIN symbols
    BY SMTT(90), <2>1 DEF PurgeStaleEntries, NamesLead
  <2>2. CASE s.symbol \in DOMAIN symbols
    <3> DEFINE key == NormalName(symbols[s.symbol].name)
               gone == IF key \in DOMAIN names /\ names[key].symbol = s.symbol THEN {key} ELSE {}
    <3>1. purged.names = Restrict(names, DOMAIN names \ gone)
      BY SMTT(90), <2>2 DEF PurgeStaleEntries
    <3>2. /\ DOMAIN purged.names = DOMAIN names \ gone
          /\ \A name \in DOMAIN names \ gone : purged.names[name] = names[name]
      BY ZenonT(90), <3>1 DEF Restrict
    <3>3. \A name \in DOMAIN names : names[name].symbol = s.symbol => name = key
      BY DEF NamesLead
    <3> QED  BY <3>2, <3>3
  <2> QED  BY <2>1, <2>2
<1>3. InsertStatus(map, s).symbols = With(symbols, s.symbol, s)
  BY <1>1 DEF InsertStatus, IndexStatus
<1>4. InsertStatus(map, s).names = With(purged.names, NormalName(s.name), s)
  BY DEF InsertStatus, IndexStatus
<1>5. \A name \in DOMAIN purged.names :
        /\ names[name].symbol \in DOMAIN symbols /\ names[name].symbol # s.symbol
        /\ names[name] = symbols[names[name].symbol]
        /\ NormalName(names[name].name) = name
  BY <1>2 DEF NamesLead
<1> HIDE DEF purged
<1> QED
  BY <1>2, <1>3, <1>4, <1>5 DEF NamesLead, With

\* The statuses found by symbol that have kind k.
OfKind(map, k) == {s \in {map.symbols[c] : c \in DOMAIN map.symbols} : s.kind = k}

\* A table of statuses of S, each under its own symbol, whose lookups agree.
IsTable(map, S) ==
  /\ \A c \in DOMAIN map.symbols : map.symbols[c] \in S /\ map.symbols[c].symbol = c
  /\ map.kinds \in [Kinds -> Seq(S)]
  /\ \A k \in Kinds : IsInjective(map.kinds[k]) /\ ToSet(map.kinds[k]) = OfKind(map, k)
  /\ NamesLead(map)

\* An entry that was not in a list is once in it when it is appended.
LEMMA AppendFresh ==
  ASSUME NEW S, NEW list \in Seq(S), NEW s \in S
  PROVE  /\ Append(list, s) \in Seq(S)
         /\ ToSet(Append(list, s)) = ToSet(list) \cup {s}
         /\ IsInjective(list) /\ s \notin ToSet(list) => IsInjective(Append(list, s))
<1> DEFINE r == Append(list, s)
<1>1. /\ r \in Seq(S)
      /\ Len(list) \in Nat /\ DOMAIN list = 1..Len(list)
      /\ DOMAIN r = DOMAIN list \cup {Len(list) + 1}
      /\ \A i \in DOMAIN list : r[i] = list[i]
      /\ r[Len(list) + 1] = s
  OBVIOUS
<1> HIDE DEF r
<1>2. ToSet(r) = ToSet(list) \cup {s}
  BY <1>1 DEF ToSet
<1>3. ASSUME IsInjective(list), s \notin ToSet(list) PROVE IsInjective(r)
  <2>1. \A i \in DOMAIN list : list[i] # s
    BY <1>3 DEF ToSet
  <2> QED  BY <1>1, <1>3, <2>1 DEF IsInjective
<1> QED
  BY <1>1, <1>2, <1>3 DEF r

\* A status of a new symbol is indexed into the three maps (index_status).
LEMMA IndexKeepsTable ==
  ASSUME NEW S, \A e \in S : e.kind \in Kinds,
         NEW map, IsTable(map, S), NEW s \in S, s.symbol \notin DOMAIN map.symbols
  PROVE  IsTable(IndexStatus(map, s), S)
<1> DEFINE new == IndexStatus(map, s)
<1>1. /\ new.symbols = With(map.symbols, s.symbol, s)
      /\ new.names = With(map.names, NormalName(s.name), s)
      /\ new.kinds = [map.kinds EXCEPT ![s.kind] = Append(@, s)]
  BY DEF IndexStatus
<1> HIDE DEF new
<1>2. /\ DOMAIN new.symbols = DOMAIN map.symbols \cup {s.symbol}
      /\ new.symbols[s.symbol] = s
      /\ \A c \in DOMAIN map.symbols : new.symbols[c] = map.symbols[c]
  BY <1>1 DEF With
<1>3. /\ DOMAIN new.names = DOMAIN map.names \cup {NormalName(s.name)}
      /\ new.names[NormalName(s.name)] = s
      /\ \A n \in DOMAIN map.names : n # NormalName(s.name) => new.names[n] = map.names[n]
  BY <1>1 DEF With
<1>4. \A c \in DOMAIN new.symbols : new.symbols[c] \in S /\ new.symbols[c].symbol = c
  BY <1>2 DEF IsTable
<1>5. NamesLead(new)
  BY <1>2, <1>3 DEF NamesLead, IsTable
<1>6. /\ new.kinds \in [Kinds -> Seq(S)]
      /\ new.kinds[s.kind] = Append(map.kinds[s.kind], s)
      /\ \A k \in Kinds : k # s.kind => new.kinds[k] = map.kinds[k]
  BY <1>1, AppendFresh DEF IsTable
<1>7. \A k \in Kinds : OfKind(new, k) = OfKind(map, k) \cup (IF k = s.kind THEN {s} ELSE {})
  <2> TAKE k \in Kinds
  <2>1. {new.symbols[c] : c \in DOMAIN new.symbols} = {map.symbols[c] : c \in DOMAIN map.symbols} \cup {s}
    BY <1>2
  <2> QED  BY <2>1 DEF OfKind
<1>8. ASSUME NEW k \in Kinds
      PROVE  IsInjective(new.kinds[k]) /\ ToSet(new.kinds[k]) = OfKind(new, k)
  <2>1. CASE k # s.kind
    BY ZenonT(90), <1>6, <1>7, <2>1 DEF IsTable
  <2>2. CASE k = s.kind
    <3>1. s \notin ToSet(map.kinds[k])
      <4>1. \A e \in OfKind(map, k) : e.symbol \in DOMAIN map.symbols
        BY DEF OfKind, IsTable
      <4> QED  BY <4>1 DEF IsTable
    <3>2. /\ map.kinds[k] \in Seq(S) /\ IsInjective(map.kinds[k])
          /\ ToSet(map.kinds[k]) = OfKind(map, k)
      BY DEF IsTable
    <3>3. new.kinds[k] = Append(map.kinds[k], s) /\ OfKind(new, k) = OfKind(map, k) \cup {s}
      BY <1>6, <1>7, <2>2
    <3>4. /\ ToSet(Append(map.kinds[k], s)) = ToSet(map.kinds[k]) \cup {s}
          /\ IsInjective(Append(map.kinds[k], s))
      BY <3>1, <3>2, AppendFresh
    <3> QED  BY <3>2, <3>3, <3>4
  <2> QED  BY <2>1, <2>2
<1> QED
  BY <1>4, <1>5, <1>6, <1>8 DEF IsTable, new

\* A status replaces the one of its symbol in all three maps (insert).
LEMMA InsertKeepsTable ==
  ASSUME NEW S, \A e \in S : e.kind \in Kinds,
         NEW map, IsTable(map, S), NEW s \in S
  PROVE  IsTable(InsertStatus(map, s), S)
<1>1. CASE s.symbol \notin DOMAIN map.symbols
  BY <1>1, IndexKeepsTable DEF InsertStatus, PurgeStaleEntries
<1>2. CASE s.symbol \in DOMAIN map.symbols
  <2> DEFINE c0 == s.symbol
             previous == map.symbols[c0]
             purged == PurgeStaleEntries(map, s)
             rest == [symbols |-> Restrict(map.symbols, DOMAIN map.symbols \ {c0}),
                      names |-> purged.names, kinds |-> purged.kinds]
             key == NormalName(previous.name)
             gone == IF key \in DOMAIN map.names /\ map.names[key].symbol = c0 THEN {key} ELSE {}
  <2>1. /\ purged.symbols = map.symbols
        /\ purged.names = Restrict(map.names, DOMAIN map.names \ gone)
        /\ purged.kinds = [map.kinds EXCEPT ![previous.kind] = Without(@, c0)]
    BY SMTT(90), <1>2 DEF PurgeStaleEntries
  <2> HIDE DEF purged
  <2>2. InsertStatus(map, s) = IndexStatus(rest, s)
    <3>1. With(map.symbols, c0, s) = With(rest.symbols, c0, s)
      BY <1>2 DEF With, Restrict
    <3> QED  BY <2>1, <3>1 DEF InsertStatus, IndexStatus, purged
  <2>3. /\ previous \in S /\ previous.symbol = c0 /\ previous.kind \in Kinds
    BY <1>2 DEF IsTable
  <2>4. /\ DOMAIN rest.symbols = DOMAIN map.symbols \ {c0}
        /\ \A c \in DOMAIN rest.symbols : rest.symbols[c] = map.symbols[c]
    BY SMTT(90) DEF Restrict
  <2>5. /\ DOMAIN rest.names = DOMAIN map.names \ gone
        /\ \A n \in DOMAIN rest.names : rest.names[n] = map.names[n]
    BY ZenonT(90), <2>1 DEF Restrict
  <2>6. \A n \in DOMAIN map.names : map.names[n].symbol = c0 => n \in gone
    BY DEF IsTable, NamesLead
  <2>7. NamesLead(rest)
    <3> HIDE DEF rest, gone
    <3> QED  BY <2>4, <2>5, <2>6 DEF IsTable, NamesLead
  <2>8. map.kinds[previous.kind] \in Seq(S)
    BY SMTT(90), <2>3 DEF IsTable
  <2>9. /\ rest.kinds \in [Kinds -> Seq(S)]
        /\ rest.kinds[previous.kind] = Without(map.kinds[previous.kind], c0)
        /\ \A k \in Kinds : k # previous.kind => rest.kinds[k] = map.kinds[k]
    BY <2>1, <2>3, <2>8, WithoutKeeps DEF IsTable
  <2> HIDE DEF rest
  <2>10. ASSUME NEW k \in Kinds PROVE OfKind(rest, k) = {e \in OfKind(map, k) : e.symbol # c0}
    <3>1. \A c \in DOMAIN map.symbols : map.symbols[c].symbol = c
      BY DEF IsTable
    <3> QED  BY <2>4, <3>1 DEF OfKind
  <2>11. ASSUME NEW k \in Kinds
         PROVE  IsInjective(rest.kinds[k]) /\ ToSet(rest.kinds[k]) = OfKind(rest, k)
    <3>1. map.kinds[k] \in Seq(S) /\ IsInjective(map.kinds[k]) /\ ToSet(map.kinds[k]) = OfKind(map, k)
      BY DEF IsTable
    <3>2. CASE k = previous.kind
      <4>1. /\ ToSet(Without(map.kinds[k], c0)) = {e \in ToSet(map.kinds[k]) : e.symbol # c0}
            /\ IsInjective(Without(map.kinds[k], c0))
        BY <3>1, WithoutKeeps
      <4>2. rest.kinds[k] = Without(map.kinds[k], c0)
        BY <2>9, <3>2
      <4> QED  BY <2>10, <3>1, <4>1, <4>2
    <3>3. CASE k # previous.kind
      <4>1. \A e \in OfKind(map, k) : e.symbol # c0
        BY <3>3 DEF OfKind, IsTable
      <4>2. OfKind(rest, k) = OfKind(map, k)
        BY <2>10, <4>1 DEF OfKind
      <4> QED  BY <2>9, <3>1, <3>3, <4>2
    <3> QED  BY <3>2, <3>3
  <2>12. IsTable(rest, S)
    BY <2>4, <2>7, <2>9, <2>11 DEF IsTable
  <2>13. s.symbol \notin DOMAIN rest.symbols
    BY <2>4
  <2> QED  BY <2>2, <2>12, <2>13, IndexKeepsTable
<1> QED
  BY <1>1, <1>2

-----------------------------------------------------------------------------
(* Whole tables *)

\* The symbols of the statuses there are without a configuration differ.
LEMMA DefaultsDiffer ==
  /\ \A n \in 1..6 : Defaults[n].kind \in Kinds
  /\ \A n, m \in 1..6 : m # n => Defaults[m].symbol # Defaults[n].symbol
<1>1. Defaults[1].symbol = " " /\ Defaults[1].kind = "todo"
  BY Zenon DEF Defaults, Status
<1>2. Defaults[2].symbol = "x" /\ Defaults[2].kind = "done"
  BY Zenon DEF Defaults, Status
<1>3. Defaults[3].symbol = "X" /\ Defaults[3].kind = "done"
  BY Zenon DEF Defaults, Status
<1>4. Defaults[4].symbol = "/" /\ Defaults[4].kind = "in-progress"
  BY Zenon DEF Defaults, Status
<1>5. Defaults[5].symbol = "-" /\ Defaults[5].kind = "cancelled"
  BY Zenon DEF Defaults, Status
<1>6. Defaults[6].symbol = "!" /\ Defaults[6].kind = "on-hold"
  BY Zenon DEF Defaults, Status
<1>7. \A n \in 1..6 : n \in {1, 2, 3, 4, 5, 6}
  OBVIOUS
<1>8. \A n \in {1, 2, 3, 4, 5, 6} : Defaults[n].kind \in Kinds
  BY <1>1, <1>2, <1>3, <1>4, <1>5, <1>6 DEF Kinds
<1>9. \A n, m \in {1, 2, 3, 4, 5, 6} : m # n => Defaults[m].symbol # Defaults[n].symbol
  BY ZenonT(90), <1>1, <1>2, <1>3, <1>4, <1>5, <1>6
<1> QED
  BY <1>7, <1>8, <1>9

\* They are entered one after the other (TaskStatusMap::default).
LEMMA DefaultSteps ==
  \E f : /\ DefaultStatuses = f[6]
         /\ f[0] = NoStatuses
         /\ \A n \in 1..6 : f[n] = IndexStatus(f[n - 1], Defaults[n])
<1> DEFINE N == 6
           Step(f, n) == IF n = 0 THEN NoStatuses ELSE IndexStatus(f[n - 1], Defaults[n])
           after == CHOOSE f : f = [n \in 0..N |-> Step(f, n)]
<1>0. Len(Defaults) = 6
  BY DEF Defaults
<1>1. DefaultStatuses = after[N]
  BY <1>0 DEF DefaultStatuses
<1> DEFINE G == {n \in 0..N : \E f : f = [m \in 0..n |-> Step(f, m)]}
<1>2. \A n \in 0..N : n \in G
  <2>1. 0 \in G
    <3> DEFINE f == [m \in 0..0 |-> NoStatuses]
    <3>1. \A m \in 0..0 : f[m] = Step(f, m)
      OBVIOUS
    <3>2. f = [m \in 0..0 |-> Step(f, m)]
      <4> HIDE DEF Step
      <4> QED  BY <3>1
    <3> HIDE DEF f, Step
    <3> QED  BY <3>2
  <2>2. ASSUME NEW n \in 0..(N - 1), n \in G PROVE n + 1 \in G
    <3>1. PICK f : f = [m \in 0..n |-> Step(f, m)]
      BY <2>2
    <3>2. \A m \in 0..n : f[m] = Step(f, m)
      <4> HIDE DEF Step
      <4> QED  BY <3>1
    <3> DEFINE g == [m \in 0..(n + 1) |-> IF m <= n THEN f[m] ELSE Step(f, m)]
    <3>3. \A m \in 0..(n + 1) : g[m] = Step(g, m)
      <4> TAKE m \in 0..(n + 1)
      <4>1. m # 0 => g[m - 1] = f[m - 1]
        OBVIOUS
      <4>2. Step(g, m) = Step(f, m)
        BY <4>1
      <4>3. g[m] = Step(f, m)
        <5>1. m <= n => m \in 0..n
          OBVIOUS
        <5> HIDE DEF Step
        <5> QED  BY <3>2, <5>1
      <4> QED  BY <4>2, <4>3
    <3>4. g = [m \in 0..(n + 1) |-> Step(g, m)]
      <4> HIDE DEF Step
      <4> QED  BY <3>3
    <3> HIDE DEF g, Step
    <3> QED  BY <3>4
  <2> HIDE DEF G
  <2> QED  BY <2>1, <2>2, UpTo
<1>3. \A n \in 0..N : after[n] = Step(after, n)
  <2>1. \E f : f = [m \in 0..N |-> Step(f, m)]
    BY <1>2
  <2> HIDE DEF Step
  <2>2. after = [n \in 0..N |-> Step(after, n)]
    BY <2>1
  <2> HIDE DEF after
  <2> QED  BY <2>2
<1>4. after[0] = NoStatuses /\ \A n \in 1..N : after[n] = IndexStatus(after[n - 1], Defaults[n])
  <2> HIDE DEF after, G
  <2> QED  BY <1>3
<1> HIDE DEF after, G
<1> QED
  BY <1>1, <1>4

\* The statuses there are without a configuration are a table: their symbols
\* are six different ones.
LEMMA DefaultsAreTable ==
  ASSUME NEW S, \A e \in S : e.kind \in Kinds, \A n \in 1..6 : Defaults[n] \in S
  PROVE  IsTable(DefaultStatuses, S)
<1> DEFINE N == 6
<1>1. PICK after : /\ DefaultStatuses = after[6]
                   /\ after[0] = NoStatuses
                   /\ \A n \in 1..6 : after[n] = IndexStatus(after[n - 1], Defaults[n])
  BY DefaultSteps
<1> DEFINE Good(n) == IsTable(after[n], S) /\ DOMAIN after[n].symbols = {Defaults[m].symbol : m \in 1..n}
           H == {n \in 0..N : Good(n)}
<1>4. \A n \in 0..N : n \in H
  <2>1. 0 \in H
    <3>1. after[0] = NoStatuses
      BY <1>1
    <3>2. DOMAIN NoStatuses.symbols = {} /\ DOMAIN NoStatuses.names = {}
      BY DEF NoStatuses
    <3>3. NoStatuses.kinds \in [Kinds -> Seq(S)] /\ \A k \in Kinds : NoStatuses.kinds[k] = <<>>
      BY DEF NoStatuses
    <3>4. ToSet(<<>>) = {} /\ IsInjective(<<>>)
      BY DEF ToSet, IsInjective
    <3>5. IsTable(NoStatuses, S)
      BY <3>2, <3>3, <3>4 DEF IsTable, OfKind, NamesLead
    <3>6. {Defaults[m].symbol : m \in 1..0} = {}
      OBVIOUS
    <3> QED  BY <3>1, <3>2, <3>5, <3>6
  <2>2. ASSUME NEW n \in 0..(N - 1), n \in H PROVE n + 1 \in H
    <3> DEFINE s == Defaults[n + 1]
    <3>1. after[n + 1] = IndexStatus(after[n], s)
      <4>1. n + 1 \in 1..6 /\ n + 1 - 1 = n
        OBVIOUS
      <4> QED  BY <1>1, <4>1
    <3>2. s \in S
      OBVIOUS
    <3>3. \A m \in 1..n : Defaults[m].symbol # s.symbol
      <4>1. \A m \in 1..n : m \in 1..6 /\ n + 1 \in 1..6 /\ m # n + 1
        OBVIOUS
      <4> QED  BY <4>1, DefaultsDiffer
    <3>4. s.symbol \notin DOMAIN after[n].symbols
      BY <2>2, <3>3
    <3>5. IsTable(after[n + 1], S)
      BY <2>2, <3>1, <3>2, <3>4, IndexKeepsTable
    <3>6. DOMAIN after[n + 1].symbols = DOMAIN after[n].symbols \cup {s.symbol}
      BY <3>1 DEF IndexStatus, With
    <3>7. 1..(n + 1) = (1..n) \cup {n + 1}
      OBVIOUS
    <3>8. {Defaults[m].symbol : m \in 1..(n + 1)} = {Defaults[m].symbol : m \in 1..n} \cup {s.symbol}
      BY <3>7
    <3> QED  BY <2>2, <3>5, <3>6, <3>8
  <2> HIDE DEF H
  <2> QED  BY <2>1, <2>2, UpTo
<1> QED
  BY <1>1, <1>4

\* A list is inserted one status after the other (TaskConfig::try_from).
LEMMA InsertedSteps ==
  ASSUME NEW map, NEW list, Len(list) \in Nat
  PROVE  \E f : /\ Inserted(map, list) = f[Len(list)]
                /\ f[0] = map
                /\ \A n \in 1..Len(list) : f[n] = InsertStatus(f[n - 1], list[n])
<1> DEFINE N == Len(list)
           Step(f, n) == IF n = 0 THEN map ELSE InsertStatus(f[n - 1], list[n])
           after == CHOOSE f : f = [n \in 0..N |-> Step(f, n)]
<1>0. N \in Nat
  OBVIOUS
<1>1. Inserted(map, list) = after[N]
  BY DEF Inserted
<1> DEFINE G == {n \in 0..N : \E f : f = [m \in 0..n |-> Step(f, m)]}
<1>2. \A n \in 0..N : n \in G
  <2>1. 0 \in G
    <3> DEFINE f == [m \in 0..0 |-> map]
    <3>1. \A m \in 0..0 : f[m] = Step(f, m)
      OBVIOUS
    <3>2. f = [m \in 0..0 |-> Step(f, m)]
      <4> HIDE DEF Step
      <4> QED  BY <3>1
    <3> HIDE DEF f, Step
    <3> QED  BY <1>0, <3>2
  <2>2. ASSUME NEW n \in 0..(N - 1), n \in G PROVE n + 1 \in G
    <3>1. PICK f : f = [m \in 0..n |-> Step(f, m)]
      BY <2>2
    <3>2. \A m \in 0..n : f[m] = Step(f, m)
      <4> HIDE DEF Step
      <4> QED  BY <3>1
    <3> DEFINE g == [m \in 0..(n + 1) |-> IF m <= n THEN f[m] ELSE Step(f, m)]
    <3>3. \A m \in 0..(n + 1) : g[m] = Step(g, m)
      <4> TAKE m \in 0..(n + 1)
      <4>1. m # 0 => g[m - 1] = f[m - 1]
        BY <1>0
      <4>2. Step(g, m) = Step(f, m)
        BY <4>1
      <4>3. g[m] = Step(f, m)
        <5>1. m <= n => m \in 0..n
          BY <1>0
        <5> HIDE DEF Step
        <5> QED  BY <3>2, <5>1
      <4> QED  BY <4>2, <4>3
    <3>4. g = [m \in 0..(n + 1) |-> Step(g, m)]
      <4> HIDE DEF Step
      <4> QED  BY <3>3
    <3>5. n + 1 \in 0..N
      BY <1>0
    <3> HIDE DEF g, Step
    <3> QED  BY <3>4, <3>5
  <2> HIDE DEF G
  <2> QED  BY <1>0, <2>1, <2>2, UpTo
<1>3. \A n \in 0..N : after[n] = Step(after, n)
  <2>1. \E f : f = [m \in 0..N |-> Step(f, m)]
    BY <1>0, <1>2
  <2> HIDE DEF Step
  <2>2. after = [n \in 0..N |-> Step(after, n)]
    BY <2>1
  <2> HIDE DEF after
  <2> QED  BY <2>2
<1>4. after[0] = map /\ \A n \in 1..N : after[n] = InsertStatus(after[n - 1], list[n])
  <2> HIDE DEF after, G
  <2> QED  BY <1>0, <1>3
<1> HIDE DEF after, G
<1> QED
  BY <1>1, <1>4

\* Any list inserted into a table makes a table.
LEMMA InsertedIsTable ==
  ASSUME NEW S, \A e \in S : e.kind \in Kinds,
         NEW map, IsTable(map, S), NEW list \in Seq(S)
  PROVE  IsTable(Inserted(map, list), S)
<1> DEFINE N == Len(list)
<1>0. N \in Nat /\ \A n \in 1..N : list[n] \in S
  OBVIOUS
<1>1. PICK f : /\ Inserted(map, list) = f[N]
               /\ f[0] = map
               /\ \A n \in 1..N : f[n] = InsertStatus(f[n - 1], list[n])
  BY <1>0, InsertedSteps
<1> HIDE DEF N
<1> DEFINE H == {n \in 0..N : IsTable(f[n], S)}
<1>2. \A n \in 0..N : n \in H
  <2>1. 0 \in H
    BY <1>0, <1>1
  <2>2. ASSUME NEW n \in 0..(N - 1), n \in H PROVE n + 1 \in H
    <3>1. n + 1 \in 0..N /\ n + 1 \in 1..N /\ n + 1 - 1 = n
      BY <1>0
    <3>2. f[n + 1] = InsertStatus(f[n], list[n + 1])
      BY <1>1, <3>1
    <3>3. list[n + 1] \in S
      BY <1>0, <3>1
    <3> QED  BY <2>2, <3>1, <3>2, <3>3, InsertKeepsTable
  <2> HIDE DEF H
  <2> QED  BY <1>0, <2>1, <2>2, UpTo
<1>3. N \in H
  <2> HIDE DEF H
  <2> QED  BY <1>0, <1>2
<1> QED
  BY <1>1, <1>3

\* As NamesFind, of the first n that are told.
FindsUpTo(map, told, n) ==
  \A k \in 1..n :
    (\A m \in 1..n : m > k => /\ told[m].symbol # told[k].symbol
                             /\ NormalName(told[m].name) # NormalName(told[k].name))
    => /\ NormalName(told[k].name) \in DOMAIN map.names
       /\ map.names[NormalName(told[k].name)] = told[k]

\* One more is entered under its name; over is what the table was before it
\* forgot, for s, at most a name that led to the symbol of s.
LEMMA OneMoreIsFound ==
  ASSUME NEW told, NEW n \in Nat, NEW over, FindsUpTo(over, told, n),
         NEW map, NEW s, s = told[n + 1], map.names = With(map.names, NormalName(s.name), s),
         \A name \in DOMAIN over.names :
           over.names[name].symbol # s.symbol /\ name # NormalName(s.name) =>
             name \in DOMAIN map.names /\ map.names[name] = over.names[name]
  PROVE  FindsUpTo(map, told, n + 1)
<1> SUFFICES ASSUME NEW k \in 1..(n + 1),
                    \A m \in 1..(n + 1) :
                      m > k => /\ told[m].symbol # told[k].symbol
                               /\ NormalName(told[m].name) # NormalName(told[k].name)
             PROVE  /\ NormalName(told[k].name) \in DOMAIN map.names
                    /\ map.names[NormalName(told[k].name)] = told[k]
  BY DEF FindsUpTo
<1>1. CASE k = n + 1
  BY <1>1 DEF With
<1>2. CASE k # n + 1
  <2>1. k \in 1..n /\ n + 1 \in 1..(n + 1) /\ n + 1 > k /\ \A m \in 1..n : m \in 1..(n + 1)
    BY <1>2
  <2>2. /\ NormalName(told[k].name) \in DOMAIN over.names
        /\ over.names[NormalName(told[k].name)] = told[k]
    BY <2>1 DEF FindsUpTo
  <2>3. told[k].symbol # s.symbol /\ NormalName(told[k].name) # NormalName(s.name)
    BY <2>1
  <2> QED  BY <2>2, <2>3
<1> QED
  BY <1>1, <1>2

LEMMA IndexFinds ==
  ASSUME NEW told, NEW n \in Nat, NEW map, FindsUpTo(map, told, n)
  PROVE  FindsUpTo(IndexStatus(map, told[n + 1]), told, n + 1)
<1> DEFINE s == told[n + 1]
           after == IndexStatus(map, s)
<1>1. after.names = With(map.names, NormalName(s.name), s)
  BY DEF IndexStatus
<1>2. after.names = With(after.names, NormalName(s.name), s)
  BY <1>1 DEF With
<1>3. \A name \in DOMAIN map.names :
        name # NormalName(s.name) =>
          name \in DOMAIN after.names /\ after.names[name] = map.names[name]
  BY <1>1 DEF With
<1> HIDE DEF after
<1> QED
  BY <1>2, <1>3, OneMoreIsFound DEF after

LEMMA InsertFinds ==
  ASSUME NEW told, NEW n \in Nat, NEW map, FindsUpTo(map, told, n)
  PROVE  FindsUpTo(InsertStatus(map, told[n + 1]), told, n + 1)
<1> DEFINE s == told[n + 1]
           purged == PurgeStaleEntries(map, s)
           after == InsertStatus(map, s)
<1>1. \A name \in DOMAIN map.names :
        map.names[name].symbol # s.symbol =>
          name \in DOMAIN purged.names /\ purged.names[name] = map.names[name]
  <2>1. CASE s.symbol \notin DOMAIN map.symbols
    BY <2>1 DEF PurgeStaleEntries
  <2>2. CASE s.symbol \in DOMAIN map.symbols
    <3> DEFINE key == NormalName(map.symbols[s.symbol].name)
               own == key \in DOMAIN map.names /\ map.names[key].symbol = s.symbol
               gone == IF own THEN {key} ELSE {}
    <3>1. purged.names = Restrict(map.names, DOMAIN map.names \ gone)
      BY <2>2 DEF PurgeStaleEntries
    <3>2. \A name \in gone : map.names[name].symbol = s.symbol
      OBVIOUS
    <3> HIDE DEF gone, purged
    <3> QED  BY <3>1, <3>2 DEF Restrict
  <2> QED  BY <2>1, <2>2
<1>2. after.names = With(purged.names, NormalName(s.name), s)
  BY DEF InsertStatus, IndexStatus
<1> HIDE DEF purged, after
<1>3. after.names = With(after.names, NormalName(s.name), s)
  BY <1>2 DEF With
<1>4. \A name \in DOMAIN map.names :
        map.names[name].symbol # s.symbol /\ name # NormalName(s.name) =>
          name \in DOMAIN after.names /\ after.names[name] = map.names[name]
  BY <1>1, <1>2 DEF With
<1> QED
  BY <1>3, <1>4, OneMoreIsFound DEF after

LEMMA ConcatIs ==
  ASSUME NEW X, NEW a \in Seq(X), NEW b \in Seq(X)
  PROVE  /\ a \o b \in Seq(X) /\ Len(a \o b) = Len(a) + Len(b)
         /\ \A n \in 1..Len(a) : (a \o b)[n] = a[n]
         /\ \A n \in 1..Len(b) : (a \o b)[Len(a) + n] = b[n]
OBVIOUS

\* The table of the defaults and a list finds what both say last.
LEMMA ToldIsFound ==
  ASSUME NEW X, NEW list \in Seq(X)
  PROVE  NamesFind(Inserted(DefaultStatuses, list), Defaults \o list)
<1> DEFINE told == Defaults \o list
           N == Len(list)
<1>1. /\ Len(Defaults) = 6 /\ N \in Nat
      /\ DOMAIN told = 1..(6 + N)
      /\ \A n \in 1..6 : told[n] = Defaults[n]
      /\ \A n \in 1..N : told[6 + n] = list[n]
  <2>1. PICK D : Defaults \in Seq(D) /\ Len(Defaults) = 6
    <3>1. \A u, v, w, x, y, z : LET d == <<u, v, w, x, y, z>>
                                IN d \in Seq({u, v, w, x, y, z}) /\ Len(d) = 6
      OBVIOUS
    <3>2. \A u, v, w, x, y, z : LET d == <<u, v, w, x, y, z>>
                                IN \E D : d \in Seq(D) /\ Len(d) = 6
      BY <3>1
    <3> QED  BY <3>2 DEF Defaults
  <2>2. Defaults \in Seq(D \cup X) /\ list \in Seq(D \cup X) /\ N \in Nat
    BY <2>1
  <2>3. /\ told \in Seq(D \cup X) /\ Len(told) = 6 + N
        /\ \A n \in 1..6 : told[n] = Defaults[n]
        /\ \A n \in 1..N : told[6 + n] = list[n]
    <3>1. /\ Defaults \o list \in Seq(D \cup X) /\ Len(Defaults \o list) = Len(Defaults) + Len(list)
          /\ \A n \in 1..Len(Defaults) : (Defaults \o list)[n] = Defaults[n]
          /\ \A n \in 1..Len(list) : (Defaults \o list)[Len(Defaults) + n] = list[n]
      <4> DEFINE Y == D \cup X
      <4>1. Defaults \in Seq(Y) /\ list \in Seq(Y)
        BY <2>2
      <4> HIDE DEF Y
      <4>2. /\ Defaults \o list \in Seq(Y) /\ Len(Defaults \o list) = Len(Defaults) + Len(list)
            /\ \A n \in 1..Len(Defaults) : (Defaults \o list)[n] = Defaults[n]
            /\ \A n \in 1..Len(list) : (Defaults \o list)[Len(Defaults) + n] = list[n]
        <5>1. \A a, b : a \in Seq(Y) /\ b \in Seq(Y) =>
                /\ a \o b \in Seq(Y) /\ Len(a \o b) = Len(a) + Len(b)
                /\ \A n \in 1..Len(a) : (a \o b)[n] = a[n]
                /\ \A n \in 1..Len(b) : (a \o b)[Len(a) + n] = b[n]
          OBVIOUS
        <5> QED  BY <4>1, <5>1
      <4> QED  BY <4>2 DEF Y
    <3> QED  BY <2>1, <3>1
  <2> HIDE DEF told, N
  <2>4. DOMAIN told = 1..(6 + N)
    BY <2>3
  <2> QED  BY <2>1, <2>2, <2>3, <2>4
<1> HIDE DEF told, N
<1>2. FindsUpTo(DefaultStatuses, told, 6)
  <2>1. PICK f : /\ DefaultStatuses = f[6] /\ f[0] = NoStatuses
                 /\ \A n \in 1..6 : f[n] = IndexStatus(f[n - 1], Defaults[n])
    BY DefaultSteps
  <2> DEFINE H == {n \in 0..6 : FindsUpTo(f[n], told, n)}
  <2>2. 0 \in H
    BY DEF FindsUpTo
  <2>3. ASSUME NEW n \in 0..5, n \in H PROVE n + 1 \in H
    <3>1. n \in Nat /\ n + 1 \in 1..6 /\ n + 1 \in 0..6 /\ n + 1 - 1 = n
      OBVIOUS
    <3>2. f[n + 1] = IndexStatus(f[n], told[n + 1])
      BY <1>1, <2>1, <3>1
    <3> QED  BY <2>3, <3>1, <3>2, IndexFinds
  <2>4. 6 \in H
    <3>1. 6 \in Nat /\ 6 \in 0..6 /\ 0..(6 - 1) = 0..5
      OBVIOUS
    <3> HIDE DEF H
    <3> QED  BY <2>2, <2>3, <3>1, UpTo
  <2> QED  BY <2>1, <2>4
<1>3. FindsUpTo(Inserted(DefaultStatuses, list), told, 6 + N)
  <2>1. PICK f : /\ Inserted(DefaultStatuses, list) = f[N] /\ f[0] = DefaultStatuses
                 /\ \A n \in 1..N : f[n] = InsertStatus(f[n - 1], list[n])
    BY <1>1, InsertedSteps DEF N
  <2> DEFINE H == {n \in 0..N : FindsUpTo(f[n], told, 6 + n)}
  <2>2. 0 \in H
    BY <1>1, <1>2, <2>1
  <2>3. ASSUME NEW n \in 0..(N - 1), n \in H PROVE n + 1 \in H
    <3>1. /\ 6 + n \in Nat /\ n + 1 \in 1..N /\ n + 1 \in 0..N /\ n + 1 - 1 = n
          /\ 6 + (n + 1) = (6 + n) + 1
      BY <1>1
    <3>2. f[n + 1] = InsertStatus(f[n], told[(6 + n) + 1])
      BY <1>1, <2>1, <3>1
    <3> QED  BY <2>3, <3>1, <3>2, InsertFinds
  <2>4. N \in H
    <3>1. N \in 0..N
      BY <1>1
    <3> HIDE DEF H
    <3> QED  BY <1>1, <2>2, <2>3, <3>1, UpTo
  <2> QED  BY <2>1, <2>4
<1>4. NamesFind(Inserted(DefaultStatuses, list), told)
  BY <1>1, <1>3 DEF NamesFind, IsLastWord, FindsUpTo
<1> QED
  BY <1>4 DEF told

\* A status that is inserted is what its symbol means, and no other symbol's.
LEMMA InsertResolves ==
  ASSUME NEW map, NEW s, NEW c
  PROVE  ResolveStatus(InsertStatus(map, s), c) = IF s.symbol = c THEN s ELSE ResolveStatus(map, c)
<1>1. PurgeStaleEntries(map, s).symbols = map.symbols
  BY DEF PurgeStaleEntries
<1> DEFINE purged == PurgeStaleEntries(map, s)
<1> HIDE DEF purged
<1>2. IndexStatus(purged, s).symbols = With(purged.symbols, s.symbol, s)
  BY DEF IndexStatus
<1>3. InsertStatus(map, s).symbols = With(map.symbols, s.symbol, s)
  BY <1>1, <1>2 DEF InsertStatus, purged
<1> QED
  BY <1>3 DEF ResolveStatus, With

\* Where a list says what a symbol means.
Said(list, c) == {n \in DOMAIN list : list[n].symbol = c}

IsList(list) == Len(list) \in Nat /\ DOMAIN list = 1..Len(list)

\* What a list says of a symbol last is what it means, once the list is inserted.
LEMMA LastInserted ==
  ASSUME NEW map, NEW list, IsList(list), NEW c
  PROVE  LET meant == ResolveStatus(Inserted(map, list), c)
         IN /\ Said(list, c) # {} => meant = list[Max(Said(list, c))]
            /\ Said(list, c) = {} => meant = ResolveStatus(map, c)
<1> DEFINE N == Len(list)
           said == Said(list, c)
<1>0. N \in Nat /\ \A n : n \in said <=> n \in 1..N /\ list[n].symbol = c
  BY DEF IsList, Said
<1>1. PICK f : /\ Inserted(map, list) = f[N]
               /\ f[0] = map
               /\ \A n \in 1..N : f[n] = InsertStatus(f[n - 1], list[n])
  BY SMTT(90), <1>0, InsertedSteps
<1> SUFFICES /\ said # {} => ResolveStatus(f[N], c) = list[Max(said)]
             /\ said = {} => ResolveStatus(f[N], c) = ResolveStatus(map, c)
  BY <1>1
<1> HIDE DEF N, said
<1> DEFINE Says(n) == \/ /\ \A m \in 1..n : list[m].symbol # c
                         /\ ResolveStatus(f[n], c) = ResolveStatus(map, c)
                      \/ \E k \in 1..n : /\ list[k].symbol = c
                                         /\ \A m \in 1..n : list[m].symbol = c => m <= k
                                         /\ ResolveStatus(f[n], c) = list[k]
           H == {n \in 0..N : Says(n)}
<1>2. \A n \in 0..N : n \in H
  <2>1. 0 \in H
    BY <1>0, <1>1
  <2>2. ASSUME NEW n \in 0..(N - 1), n \in H PROVE n + 1 \in H
    <3>1. n \in Nat /\ n + 1 \in 0..N /\ n + 1 \in 1..N /\ n + 1 - 1 = n
      BY <1>0
    <3> DEFINE q == n + 1
    <3>2. f[q] = InsertStatus(f[n], list[q])
      BY <1>1, <3>1
    <3>3. q \in 1..q /\ (\A m \in 1..q : m \in 1..n \/ m = q) /\ (\A m \in 1..n : m \in 1..q)
          /\ \A m \in 1..q : m <= q
      BY <3>1
    <3> HIDE DEF q
    <3>4. CASE list[q].symbol = c
      <4>1. ResolveStatus(f[q], c) = list[q]
        BY <3>2, <3>4, InsertResolves
      <4>2. Says(q)
        BY <3>3, <3>4, <4>1
      <4> HIDE DEF Says
      <4> QED  BY <3>1, <4>2 DEF q
    <3>5. CASE list[q].symbol # c
      <4>1. ResolveStatus(f[q], c) = ResolveStatus(f[n], c)
        BY <3>2, <3>5, InsertResolves
      <4>2. Says(n)
        BY <2>2
      <4>3. Says(q)
        BY <3>3, <3>5, <4>1, <4>2
      <4> HIDE DEF Says
      <4> QED  BY <3>1, <4>3 DEF q
    <3> QED  BY <3>4, <3>5
  <2> HIDE DEF H
  <2> QED  BY <1>0, <2>1, <2>2, UpTo
<1>3. Says(N)
  <2>1. N \in H
    <3> HIDE DEF H
    <3> QED  BY <1>0, <1>2
  <2> HIDE DEF Says
  <2> QED  BY <2>1
<1>4. CASE said = {}
  BY <1>0, <1>1, <1>3, <1>4
<1>5. CASE said # {}
  <2>1. PICK k \in said : (\A m \in said : m <= k) /\ ResolveStatus(f[N], c) = list[k]
    BY <1>0, <1>3, <1>5
  <2>2. Max(said) = k
    <3>1. \A m \in said : m \in Int
      BY <1>0
    <3>2. k \in said /\ \A x \in said : (\A y \in said : x >= y) <=> x = k
      BY <2>1, <3>1
    <3> QED  BY ONLY <3>2 DEF Max
  <2> QED  BY <1>1, <1>5, <2>1, <2>2
<1> QED
  BY <1>4, <1>5

-----------------------------------------------------------------------------
(* The parser *)

\* A note is parsed with what its two files say and a table of their statuses.
Configured ==
  /\ input \in Inputs
  /\ phase \in {"parsing", "done"} =>
       /\ config = Build(input.local, input.global) /\ config # Rejected
       /\ \E S : IsTable(config.statuses, S)
       /\ NamesFind(config.statuses, Defaults \o Winning("statuses"))

\* What two files list makes a table (TaskConfig::try_from).
LEMMA BuildMakesTable ==
  ASSUME NEW local, NEW global, IsStatuses(local.statuses), IsStatuses(global.statuses),
         Build(local, global) # Rejected
  PROVE  /\ \E S : IsTable(Build(local, global).statuses, S)
         /\ NamesFind(Build(local, global).statuses,
                      Defaults \o MergedList(local.statuses, global.statuses))
<1> DEFINE list == MergedList(local.statuses, global.statuses)
           S == {list[n] : n \in DOMAIN list} \cup {Defaults[n] : n \in 1..6}
<1>1. Build(local, global).statuses = Inserted(DefaultStatuses, list)
  BY DEF Build
<1>2. IsStatuses(list)
  BY DEF MergedList
<1> HIDE DEF list
<1>3. \A n \in 1..6 : Defaults[n].kind \in Kinds
  BY DefaultsDiffer
<1>4. \A e \in S : e.kind \in Kinds
  BY <1>2, <1>3 DEF IsStatuses
<1>5. list \in Seq(S)
  <2>1. {list[n] : n \in DOMAIN list} \subseteq S
    OBVIOUS
  <2>2. list \in Seq({list[n] : n \in DOMAIN list})
    BY <1>2 DEF IsStatuses
  <2> HIDE DEF S
  <2> QED  BY <2>1, <2>2
<1>6. \A n \in 1..6 : Defaults[n] \in S
  OBVIOUS
<1> HIDE DEF S
<1>7. IsTable(Inserted(DefaultStatuses, list), S)
  BY <1>4, <1>5, <1>6, DefaultsAreTable, InsertedIsTable
<1>8. NamesFind(Inserted(DefaultStatuses, list), Defaults \o list)
  BY <1>2, ToldIsFound DEF IsStatuses, IsList
<1> QED
  BY <1>1, <1>7, <1>8 DEF list

LEMMA StaysConfigured == Configured /\ [Next]_vars => Configured'
<1> SUFFICES ASSUME Configured, [Next]_vars PROVE Configured'
  OBVIOUS
<1>1. CASE Configure
  <2>1. IsStatuses(input.local.statuses) /\ IsStatuses(input.global.statuses)
    BY InputsAssumption DEF Configured
  <2>2. /\ config' = Build(input.local, input.global)
        /\ phase' = IF config' = Rejected THEN "refused" ELSE "parsing"
        /\ input' = input
    BY <1>1 DEF Configure
  <2>3. phase' \in {"parsing", "done"} =>
          /\ config' # Rejected /\ \E S : IsTable(config.statuses', S)
          /\ NamesFind(config.statuses',
                       Defaults \o MergedList(input.local.statuses, input.global.statuses))
    BY <2>1, <2>2, BuildMakesTable
  <2>4. Winning("statuses")' = MergedList(input.local.statuses, input.global.statuses)
    BY <2>2 DEF Winning, MergedList
  <2> QED  BY <2>2, <2>3, <2>4 DEF Configured
<1>2. CASE IntoNote
  <2>1. input' = input /\ config' = config /\ phase = "parsing"
    BY <1>2 DEF IntoNote
  <2> QED  BY <2>1 DEF Configured, Winning
<1>3. CASE UNCHANGED vars
  BY <1>3 DEF Configured, Winning, vars
<1>4. ASSUME NEW kind, Handle(kind) PROVE Configured'
  <2>1. input' = input /\ config' = config /\ phase' = phase
    BY <1>4 DEF Handle
  <2> QED  BY <2>1 DEF Configured, Winning
<1> QED
  BY <1>1, <1>2, <1>3, <1>4
  DEF Next, StartMetadata, EndMetadata, PushYaml, StartTextBlock, EndTextBlock,
      StartCodeBlock, EndCodeBlock, StartQuote, StartList, EndList, StartItem, EndItem,
      StartLink, EndLink, PushText, HandleCode, PushBreak, PushFootnote, Barrier, OtherEvent

LEMMA StartsConfigured == Init => Configured
BY DEF Init, Configured

\* Under every configuration a note is read with, the statuses of a kind are
\* just those whose symbol leads to that kind, each once, every name leads to a
\* status that is still there, and what was said last of a symbol and of a name
\* is found by the name (TaskStatusMap::insert, purge_stale_entries).
THEOREM LookupsStayInStep == Spec => []LookupsAgree
<1>1. Configured => LookupsAgree
  BY DEF Configured, IsTable, OfKind, LookupsAgree
<1> QED
  BY <1>1, StartsConfigured, StaysConfigured, PTL DEF Spec

-----------------------------------------------------------------------------
(* Ascending sequences of numbers *)

\* The numbers of a set in ascending order.
IsAscending(q, S) ==
  /\ q \in Seq(Nat)
  /\ \A n \in 1..Len(q) : q[n] \in S
  /\ \A i \in S : \E n \in 1..Len(q) : q[n] = i
  /\ \A m, n \in 1..Len(q) : m < n => q[m] < q[n]

LEMMA AppendAscends ==
  ASSUME NEW S, NEW q, IsAscending(q, S), NEW i \in Nat, \A j \in S : j \in Nat /\ j < i
  PROVE  IsAscending(Append(q, i), S \cup {i})
<1> DEFINE r == Append(q, i)
<1>1. /\ q \in Seq(Nat) /\ Len(q) \in Nat
      /\ \A n \in 1..Len(q) : q[n] \in S
      /\ \A j \in S : \E n \in 1..Len(q) : q[n] = j
      /\ \A m, n \in 1..Len(q) : m < n => q[m] < q[n]
  BY DEF IsAscending
<1>2. /\ r \in Seq(Nat) /\ Len(r) = Len(q) + 1 /\ r[Len(q) + 1] = i
      /\ \A n \in 1..Len(q) : r[n] = q[n]
  BY <1>1
<1> HIDE DEF r
<1>3. \A n \in 1..Len(r) : n \in 1..Len(q) \/ n = Len(q) + 1
  BY <1>1, <1>2
<1>4. \A n \in 1..Len(r) : r[n] \in S \cup {i}
  BY <1>1, <1>2, <1>3
<1>5. \A j \in S \cup {i} : \E n \in 1..Len(r) : r[n] = j
  BY SMTT(90), <1>1, <1>2
<1>6. ASSUME NEW m \in 1..Len(r), NEW n \in 1..Len(r), m < n PROVE r[m] < r[n]
  <2>1. m \in 1..Len(q)
    BY <1>1, <1>2, <1>6
  <2>2. CASE n \in 1..Len(q)
    BY <1>1, <1>2, <1>6, <2>1, <2>2
  <2>3. CASE n = Len(q) + 1
    BY <1>1, <1>2, <2>1, <2>3
  <2> QED  BY <1>3, <2>2, <2>3
<1>7. IsAscending(r, S \cup {i})
  BY <1>2, <1>4, <1>5, <1>6 DEF IsAscending
<1> QED
  BY <1>7 DEF r

\* Ascending makes one.
LEMMA AscendingIs ==
  ASSUME NEW S, NEW N \in Nat, S \subseteq 1..N
  PROVE  IsAscending(Ascending(S, N), S)
<1> DEFINE Step(f, m) == IF m = 0 THEN <<>> ELSE IF m \in S THEN Append(f[m - 1], m) ELSE f[m - 1]
           to == CHOOSE f : f = [m \in 0..N |-> Step(f, m)]
<1>1. Ascending(S, N) = to[N]
  BY DEF Ascending
<1> DEFINE G == {n \in 0..N : \E f : f = [m \in 0..n |-> Step(f, m)]}
<1>2. \A n \in 0..N : n \in G
  <2>1. 0 \in G
    <3> DEFINE f == [m \in 0..0 |-> <<>>]
    <3>1. \A m \in 0..0 : f[m] = Step(f, m)
      OBVIOUS
    <3>2. f = [m \in 0..0 |-> Step(f, m)]
      <4> HIDE DEF Step
      <4> QED  BY <3>1
    <3> HIDE DEF f, Step
    <3> QED  BY <3>2
  <2>2. ASSUME NEW n \in 0..(N - 1), n \in G PROVE n + 1 \in G
    <3>1. PICK f : f = [m \in 0..n |-> Step(f, m)]
      BY <2>2
    <3>2. \A m \in 0..n : f[m] = Step(f, m)
      <4> HIDE DEF Step
      <4> QED  BY <3>1
    <3> DEFINE g == [m \in 0..(n + 1) |-> IF m <= n THEN f[m] ELSE Step(f, m)]
    <3>3. \A m \in 0..(n + 1) : g[m] = Step(g, m)
      <4> TAKE m \in 0..(n + 1)
      <4>1. m # 0 => g[m - 1] = f[m - 1]
        OBVIOUS
      <4>2. Step(g, m) = Step(f, m)
        BY <4>1
      <4>3. g[m] = Step(f, m)
        <5>1. m <= n => m \in 0..n
          OBVIOUS
        <5> HIDE DEF Step
        <5> QED  BY <3>2, <5>1
      <4> QED  BY <4>2, <4>3
    <3>4. g = [m \in 0..(n + 1) |-> Step(g, m)]
      <4> HIDE DEF Step
      <4> QED  BY <3>3
    <3>5. n + 1 \in 0..N
      OBVIOUS
    <3> HIDE DEF g, Step
    <3> QED  BY <3>4, <3>5
  <2> HIDE DEF G
  <2> QED  BY <2>1, <2>2, UpTo
<1>3. \A n \in 0..N : to[n] = Step(to, n)
  <2>0. N \in G
    <3> HIDE DEF G
    <3> QED  BY <1>2
  <2>1. \E f : f = [m \in 0..N |-> Step(f, m)]
    BY <2>0
  <2> HIDE DEF Step
  <2>2. to = [n \in 0..N |-> Step(to, n)]
    BY <2>1
  <2> HIDE DEF to
  <2> QED  BY <2>2
<1> HIDE DEF to, G
<1>0. \A i \in S : i \in Nat /\ 1 <= i /\ i <= N
  OBVIOUS
<1> DEFINE H == {n \in 0..N : IsAscending(to[n], {i \in S : i <= n})}
<1>4. \A n \in 0..N : n \in H
  <2>1. 0 \in H
    <3>1. to[0] = <<>>
      BY <1>3
    <3>2. {i \in S : i <= 0} = {}
      BY ONLY <1>0
    <3>3. IsAscending(<<>>, {})
      BY DEF IsAscending
    <3>4. 0 \in 0..N
      OBVIOUS
    <3> HIDE DEF IsAscending
    <3> QED  BY <3>1, <3>2, <3>3, <3>4
  <2>2. ASSUME NEW n \in 0..(N - 1), n \in H PROVE n + 1 \in H
    <3>1. n + 1 \in 0..N /\ n + 1 # 0 /\ n + 1 - 1 = n
      OBVIOUS
    <3>2. to[n + 1] = IF n + 1 \in S THEN Append(to[n], n + 1) ELSE to[n]
      BY <1>3, <3>1
    <3> DEFINE q == to[n]
               T == {i \in S : i <= n}
               U == {i \in S : i <= n + 1}
    <3>3. IsAscending(q, T)
      BY <2>2
    <3>4. CASE n + 1 \in S
      <4>1. U = T \cup {n + 1} /\ \A i \in T : i < n + 1 /\ i \in Nat
        BY ONLY n \in 0..(N - 1), N \in Nat, <1>0, <3>4
      <4>2. to[n + 1] = Append(q, n + 1)
        BY <3>2, <3>4
      <4> HIDE DEF q, T, U
      <4>3. IsAscending(Append(q, n + 1), U)
        BY <3>1, <3>3, <4>1, AppendAscends
      <4> QED  BY <3>1, <4>2, <4>3 DEF U
    <3>5. CASE n + 1 \notin S
      <4>1. U = T
        BY ONLY n \in 0..(N - 1), N \in Nat, <1>0, <3>5
      <4>2. to[n + 1] = q
        BY <3>2, <3>5
      <4> HIDE DEF q, T, U
      <4> QED  BY <3>1, <3>3, <4>1, <4>2 DEF U
    <3> QED  BY <3>4, <3>5
  <2> HIDE DEF H
  <2> QED  BY <2>1, <2>2, UpTo
<1>5. N \in H /\ {i \in S : i <= N} = S
  <2>1. N \in H
    <3> HIDE DEF H
    <3> QED  BY <1>4
  <2>2. {i \in S : i <= N} = S
    BY ONLY <1>0
  <2> QED  BY <2>1, <2>2
<1> QED
  BY <1>1, <1>5

\* There is only one such sequence.
LEMMA AscendingUnique ==
  ASSUME NEW S, NEW p, NEW q, IsAscending(p, S), IsAscending(q, S)
  PROVE  p = q
<1>1. /\ Len(p) \in Nat /\ Len(q) \in Nat
      /\ \A n \in 1..Len(p) : p[n] \in Nat
      /\ \A n \in 1..Len(q) : q[n] \in Nat
  BY SMTT(90) DEF IsAscending
<1> DEFINE T == {n \in Nat : n \in 1..Len(p) /\ n \in 1..Len(q) /\ p[n] # q[n]}
<1>2. T = {}
  <2> SUFFICES ASSUME T # {} PROVE FALSE
    OBVIOUS
  <2>1. PICK n \in T : \A m \in T : n <= m
    <3>1. T \subseteq Nat
      OBVIOUS
    <3> HIDE DEF T
    <3> QED  BY <3>1, LeastNatural
  <2>2. \A m \in 1..(n - 1) : p[m] = q[m]
    BY SMTT(90), <1>1, <2>1
  <2>3. PICK k \in 1..Len(q) : q[k] = p[n]
    BY <2>1 DEF IsAscending
  <2>4. PICK l \in 1..Len(p) : p[l] = q[n]
    BY <2>1 DEF IsAscending
  <2>5. k >= n
    <3> SUFFICES ASSUME k < n PROVE FALSE
      BY <1>1, <2>1
    <3>1. k \in 1..(n - 1) /\ k \in 1..Len(p) /\ n \in 1..Len(p)
      BY <1>1, <2>1
    <3>2. p[k] < p[n]
      BY <3>1 DEF IsAscending
    <3> QED  BY <1>1, <2>2, <2>3, <3>1, <3>2
  <2>6. l >= n
    <3> SUFFICES ASSUME l < n PROVE FALSE
      BY <1>1, <2>1
    <3>1. l \in 1..(n - 1) /\ l \in 1..Len(q) /\ n \in 1..Len(q)
      BY <1>1, <2>1
    <3>2. q[l] < q[n]
      BY <3>1 DEF IsAscending
    <3> QED  BY <1>1, <2>2, <2>4, <3>1, <3>2
  <2>7. n \in 1..Len(q) /\ n \in 1..Len(p) /\ p[n] # q[n]
    BY <2>1
  <2>8. q[n] < p[n]
    <3>1. k # n
      BY <2>3, <2>7
    <3>2. n < k
      BY <1>1, <2>5, <2>7, <3>1
    <3> QED  BY <2>3, <2>7, <3>2 DEF IsAscending
  <2>9. p[n] < q[n]
    <3>1. l # n
      BY <2>4, <2>7
    <3>2. n < l
      BY <1>1, <2>6, <2>7, <3>1
    <3> QED  BY <2>4, <2>7, <3>2 DEF IsAscending
  <2> QED  BY <1>1, <2>7, <2>8, <2>9
<1>3. \A n \in 1..Len(p) : n \in 1..Len(q) => p[n] = q[n]
  BY <1>2
<1> HIDE DEF T
<1>4. ~(Len(p) < Len(q))
  <2> SUFFICES ASSUME Len(p) < Len(q) PROVE FALSE
    OBVIOUS
  <2>1. Len(p) + 1 \in 1..Len(q)
    BY <1>1
  <2>2. PICK k \in 1..Len(p) : p[k] = q[Len(p) + 1]
    BY <2>1 DEF IsAscending
  <2>3. k \in 1..Len(q) /\ k < Len(p) + 1
    BY <1>1
  <2>4. q[k] < q[Len(p) + 1]
    BY <2>1, <2>3 DEF IsAscending
  <2> QED  BY <1>1, <1>3, <2>1, <2>2, <2>3, <2>4
<1>5. ~(Len(q) < Len(p))
  <2> SUFFICES ASSUME Len(q) < Len(p) PROVE FALSE
    OBVIOUS
  <2>1. Len(q) + 1 \in 1..Len(p)
    BY <1>1
  <2>2. PICK k \in 1..Len(q) : q[k] = p[Len(q) + 1]
    BY <2>1 DEF IsAscending
  <2>3. k \in 1..Len(p) /\ k < Len(q) + 1
    BY <1>1
  <2>4. p[k] < p[Len(q) + 1]
    BY <2>1, <2>3 DEF IsAscending
  <2> QED  BY <1>1, <1>3, <2>1, <2>2, <2>3, <2>4
<1>6. Len(p) = Len(q)
  BY <1>1, <1>4, <1>5
<1>7. p \in Seq(Nat) /\ q \in Seq(Nat)
  BY DEF IsAscending
<1> QED
  BY SMTT(90), <1>3, <1>6, <1>7

\* A later number goes to the end.
LEMMA AscendingAppend ==
  ASSUME NEW S, NEW N \in Nat, S \subseteq 1..N, NEW i \in 1..N, \A j \in S : j < i
  PROVE  Ascending(S \cup {i}, N) = Append(Ascending(S, N), i)
<1> DEFINE p == Ascending(S, N)
<1>1. IsAscending(p, S)
  BY AscendingIs
<1>2. IsAscending(Ascending(S \cup {i}, N), S \cup {i})
  BY AscendingIs
<1> HIDE DEF p
<1>3. \A j \in S : j \in Nat
  OBVIOUS
<1>4. IsAscending(Append(p, i), S \cup {i})
  <2>1. i \in Nat /\ \A j \in S : j \in Nat /\ j < i
    BY <1>3
  <2> QED  BY ONLY <1>1, <2>1, AppendAscends
<1> QED
  BY <1>2, <1>4, AscendingUnique DEF p

Precedes(S, T) == \A i \in S, j \in T : i < j

\* What a set holds before and from some number on, one after the other.
LEMMA AscendingConcat ==
  ASSUME NEW S, NEW T, NEW U, NEW N \in Nat, S \subseteq 1..N, T \subseteq 1..N,
         Precedes(S, T), U = S \cup T
  PROVE  Ascending(U, N) = Ascending(S, N) \o Ascending(T, N)
<1> DEFINE p == Ascending(S, N)
           q == Ascending(T, N)
<1>1. IsAscending(p, S) /\ IsAscending(q, T)
  BY AscendingIs
<1>2. IsAscending(Ascending(S \cup T, N), S \cup T)
  BY AscendingIs
<1> HIDE DEF p, q
<1>3. p \in Seq(Nat) /\ q \in Seq(Nat) /\ p \o q \in Seq(Nat) /\ Len(p \o q) = Len(p) + Len(q)
      /\ Len(p) \in Nat /\ Len(q) \in Nat
  BY <1>1 DEF IsAscending
<1>4. \A n \in 1..Len(p \o q) :
        /\ n <= Len(p) => n \in 1..Len(p) /\ (p \o q)[n] = p[n]
        /\ ~(n <= Len(p)) => n - Len(p) \in 1..Len(q) /\ (p \o q)[n] = q[n - Len(p)]
  BY <1>3
<1>5. \A n \in 1..Len(p) : n \in 1..Len(p \o q) /\ (p \o q)[n] = p[n]
  BY <1>3
<1>6. \A n \in 1..Len(q) : n + Len(p) \in 1..Len(p \o q) /\ (p \o q)[n + Len(p)] = q[n]
  BY <1>3
<1>7. IsAscending(p \o q, S \cup T)
  <2>1. \A n \in 1..Len(p \o q) : (p \o q)[n] \in S \cup T
    BY <1>1, <1>4 DEF IsAscending
  <2>2. \A i \in S \cup T : \E n \in 1..Len(p \o q) : (p \o q)[n] = i
    <3> TAKE i \in S \cup T
    <3>1. CASE i \in S
      BY <1>1, <1>5, <3>1 DEF IsAscending
    <3>2. CASE i \in T
      <4>1. PICK n \in 1..Len(q) : q[n] = i
        BY <1>1, <3>2 DEF IsAscending
      <4> QED  BY <1>6, <4>1
    <3> QED  BY <3>1, <3>2
  <2>3. ASSUME NEW m \in 1..Len(p \o q), NEW n \in 1..Len(p \o q), m < n
        PROVE  (p \o q)[m] < (p \o q)[n]
    <3>1. CASE n <= Len(p)
      BY <1>1, <1>3, <1>4, <2>3, <3>1 DEF IsAscending
    <3>2. CASE ~(n <= Len(p)) /\ m <= Len(p)
      <4>1. (p \o q)[m] \in S /\ (p \o q)[n] \in T
        BY <1>1, <1>4, <3>2 DEF IsAscending
      <4> QED  BY <4>1 DEF Precedes
    <3>3. CASE ~(n <= Len(p)) /\ ~(m <= Len(p))
      <4>1. m - Len(p) \in 1..Len(q) /\ n - Len(p) \in 1..Len(q) /\ m - Len(p) < n - Len(p)
        BY <1>3, <1>4, <2>3, <3>3
      <4>2. q[m - Len(p)] < q[n - Len(p)]
        BY <1>1, <4>1 DEF IsAscending
      <4> QED  BY <1>4, <3>3, <4>2
    <3> QED  BY <3>1, <3>2, <3>3
  <2> QED  BY <1>3, <2>1, <2>2, <2>3 DEF IsAscending
<1> QED
  BY <1>2, <1>7, AscendingUnique DEF p, q

\* It has as many entries as the set has elements.
LEMMA AscendingLength ==
  ASSUME NEW S, NEW N \in Nat, S \subseteq 1..N
  PROVE  IsFiniteSet(S) /\ Cardinality(S) = Len(Ascending(S, N))
<1> DEFINE p == Ascending(S, N)
<1>1. IsAscending(p, S)
  BY AscendingIs
<1> HIDE DEF p
<1>2. p \in [1..Len(p) -> S] /\ Len(p) \in Nat
  BY <1>1 DEF IsAscending
<1>3. p \in Bijection(1..Len(p), S)
  <2>1. \A m, n \in 1..Len(p) : p[m] = p[n] => m = n
    <3> TAKE m, n \in 1..Len(p)
    <3>1. m < n \/ n < m \/ m = n
      BY <1>2
    <3>2. p[m] \in Nat /\ p[n] \in Nat
      BY <1>1 DEF IsAscending
    <3> QED  BY <1>1, <3>1, <3>2 DEF IsAscending
  <2>2. \A i \in S : \E n \in 1..Len(p) : p[n] = i
    BY <1>1 DEF IsAscending
  <2> QED  BY <1>2, <2>1, <2>2
         DEF Bijection, Injection, Surjection, IsInjective
<1>4. ExistsBijection(1..Len(p), S)
  BY <1>3 DEF ExistsBijection
<1>5. IsFiniteSet(1..Len(p)) /\ Cardinality(1..Len(p)) = Len(p)
  BY SMTT(90), <1>2, FS_Interval
<1> QED
  BY <1>4, <1>5, FS_Bijection DEF p

-----------------------------------------------------------------------------
(* Lists and items nest *)

Opens == Positions("start_list") \cup Positions("start_item")

Nested ==
  /\ Len(Events) \in Nat /\ DOMAIN Events = 1..Len(Events)
  /\ \A i \in Opens : /\ EndOf(i) \in DOMAIN Events /\ i < EndOf(i)
                      /\ Events[EndOf(i)].kind = Closing[Events[i].kind]
  /\ \A i, j \in Opens : i < j /\ j < EndOf(i) => EndOf(j) < EndOf(i)
  /\ \A k \in Positions("end_list") \cup Positions("end_item") : \E i \in Opens : k = EndOf(i)
  /\ \A i \in Positions("start_list") :
       Cardinality(Around("start_list", i)) = Cardinality(Around("start_item", i))
  /\ \A i \in Positions("start_item") :
       Cardinality(Around("start_list", i)) = Cardinality(Around("start_item", i)) + 1

LEMMA InputNests == ASSUME input \in Inputs PROVE Nested
<1>1. Nest(Events)
  BY NestingAssumption DEF Events
<1> DEFINE Of(kinds) == {i \in DOMAIN Events : Events[i].kind \in kinds}
           Depth(kind, i) == Cardinality(AroundIn(Events, kind, i))
<1>2. /\ Events \in Seq({Events[n] : n \in DOMAIN Events})
      /\ \A i \in Of({"start_list", "start_item"}) :
           i < EndIn(Events, i) /\ EndIn(Events, i) \in Of({Closing[Events[i].kind]})
      /\ \A i, j \in Of({"start_list", "start_item"}) :
           i < j /\ j < EndIn(Events, i) => EndIn(Events, j) < EndIn(Events, i)
      /\ \A k \in Of({"end_list", "end_item"}) :
           \E i \in Of({"start_list", "start_item"}) : k = EndIn(Events, i)
      /\ \A i \in Of({"start_list", "start_item"}) :
           Depth("start_list", i) =
             Depth("start_item", i) + (IF Events[i].kind = "start_item" THEN 1 ELSE 0)
  BY <1>1, Zenon DEF Nest
<1>3. /\ Of({"start_list", "start_item"}) = Opens
      /\ Of({"end_list", "end_item"}) = Positions("end_list") \cup Positions("end_item")
      /\ \A i \in Opens : Of({Closing[Events[i].kind]}) = Positions(Closing[Events[i].kind])
  BY DEF Opens, Positions
<1>4. Len(Events) \in Nat /\ DOMAIN Events = 1..Len(Events)
  BY <1>2
<1> DEFINE Lists == Positions("start_list")
           Items == Positions("start_item")
<1>5. /\ Lists \subseteq Opens /\ Items \subseteq Opens
      /\ \A i \in Lists : Events[i].kind # "start_item"
      /\ \A i \in Items : Events[i].kind = "start_item"
  BY DEF Opens, Positions
<1>6. \A i \in Opens : Depth("start_list", i) =
         Depth("start_item", i) + (IF Events[i].kind = "start_item" THEN 1 ELSE 0)
  BY <1>2, <1>3
<1>7. \A kind, i : Around(kind, i) \subseteq 1..Len(Events) /\ Depth(kind, i) = Cardinality(Around(kind, i))
  BY <1>4 DEF Around, AroundIn
<1>8. \A kind, i : Cardinality(Around(kind, i)) \in Nat
  <2> TAKE kind, i
  <2>1. IsFiniteSet(1..Len(Events)) /\ Around(kind, i) \in SUBSET (1..Len(Events))
    <3>1. Around(kind, i) \subseteq 1..Len(Events)
      BY <1>7
    <3> QED  BY <1>4, <3>1, FS_Interval
  <2>2. IsFiniteSet(Around(kind, i))
    BY ONLY <2>1, FS_Subset
  <2> QED  BY <2>2, FS_CardinalityType
<1>9. \A i \in Lists : Cardinality(Around("start_list", i)) = Cardinality(Around("start_item", i))
  BY <1>5, <1>6, <1>7, <1>8
<1>10. \A i \in Items : Cardinality(Around("start_list", i)) = Cardinality(Around("start_item", i)) + 1
  BY <1>5, <1>6, <1>7, <1>8
<1>11. \A i \in Opens : EndOf(i) \in DOMAIN Events /\ i < EndOf(i)
                        /\ Events[EndOf(i)].kind = Closing[Events[i].kind]
  BY <1>2, <1>3 DEF EndOf, Positions
<1>12. \A i, j \in Opens : i < j /\ j < EndOf(i) => EndOf(j) < EndOf(i)
  BY <1>2, <1>3 DEF EndOf
<1>13. \A k \in Positions("end_list") \cup Positions("end_item") : \E i \in Opens : k = EndOf(i)
  BY <1>2, <1>3 DEF EndOf
<1> HIDE DEF Of, Depth
<1> QED
  BY <1>4, <1>9, <1>10, <1>11, <1>12, <1>13 DEF Nested

\* The starts of one kind, with what Nested says of them.
LEMMA StartsAre ==
  ASSUME Nested, NEW kind \in {"start_list", "start_item"}
  PROVE  /\ Positions(kind) \subseteq Opens
         /\ \A i \in Positions(kind) :
              /\ i \in Nat /\ 1 <= i /\ i <= Len(Events) /\ Events[i].kind = kind
              /\ EndOf(i) \in Nat /\ i < EndOf(i) /\ EndOf(i) <= Len(Events)
              /\ Events[EndOf(i)].kind = Closing[kind]
         /\ \A i, j \in Positions(kind) : i < j /\ j < EndOf(i) => EndOf(j) < EndOf(i)
<1>1. Positions(kind) \subseteq Opens
  BY DEF Opens
<1>2. \A i \in Positions(kind) : i \in DOMAIN Events /\ Events[i].kind = kind
  BY DEF Positions
<1> QED
  BY <1>1, <1>2 DEF Nested

\* What opens and closes at one event.
LEMMA AroundIs ==
  ASSUME NEW kind, NEW i
  PROVE  \A j : j \in Around(kind, i) <=> j \in Positions(kind) /\ j < i /\ i <= EndOf(j)
BY DEF Around, AroundIn, EndOf, Positions

LEMMA AroundQuiet ==
  ASSUME Nested, NEW kind \in {"start_list", "start_item"}, NEW i \in 1..Len(Events),
         Events[i].kind # kind, Events[i].kind # Closing[kind]
  PROVE  Around(kind, i + 1) = Around(kind, i)
<1>1. \A j \in Positions(kind) :
        (j < i + 1 /\ i + 1 <= EndOf(j)) <=> (j < i /\ i <= EndOf(j))
  BY StartsAre
<1>2. \A j : j \in Around(kind, i + 1) <=> j \in Around(kind, i)
  <2> TAKE j
  <2>1. j \in Around(kind, i + 1) <=> j \in Positions(kind) /\ j < i + 1 /\ i + 1 <= EndOf(j)
    BY ONLY AroundIs
  <2>2. j \in Around(kind, i) <=> j \in Positions(kind) /\ j < i /\ i <= EndOf(j)
    BY ONLY AroundIs
  <2> QED  BY ONLY <1>1, <2>1, <2>2
<1> QED
  BY ONLY <1>2

LEMMA AroundStart ==
  ASSUME Nested, NEW kind \in {"start_list", "start_item"}, NEW i \in 1..Len(Events),
         Events[i].kind = kind
  PROVE  Around(kind, i + 1) = Around(kind, i) \cup {i}
<1>0. i \in Positions(kind) /\ Closing[kind] # kind
  BY DEF Positions, Nested, Closing
<1>1. \A j \in Positions(kind) :
        (j < i + 1 /\ i + 1 <= EndOf(j)) <=> ((j < i /\ i <= EndOf(j)) \/ j = i)
  BY <1>0, StartsAre
<1> QED
  BY <1>0, <1>1, AroundIs

LEMMA AroundEnd ==
  ASSUME Nested, NEW kind \in {"start_list", "start_item"}, NEW i \in 1..Len(Events),
         Events[i].kind = Closing[kind]
  PROVE  \E t \in Around(kind, i) :
           /\ EndOf(t) = i
           /\ \A j \in Around(kind, i) : j # t => j < t /\ i < EndOf(j)
           /\ Around(kind, i + 1) = Around(kind, i) \ {t}
<1>1. \E t \in Positions(kind) : EndOf(t) = i
  <2>1. i \in Positions("end_list") \cup Positions("end_item")
    BY DEF Positions, Nested, Closing
  <2>2. PICK t \in Opens : EndOf(t) = i
    BY <2>1 DEF Nested
  <2>3. Closing[Events[t].kind] = Closing[kind]
    BY <2>2 DEF Nested
  <2>4. t \in DOMAIN Events /\ Events[t].kind \in {"start_list", "start_item"}
    BY <2>2 DEF Opens, Positions
  <2>5. Events[t].kind = kind
    BY <2>3, <2>4 DEF Closing
  <2> QED  BY <2>2, <2>4, <2>5 DEF Positions
<1>2. PICK t \in Positions(kind) : EndOf(t) = i
  BY <1>1
<1>3. t < i /\ t \in Nat
  BY <1>2, StartsAre
<1>4. t \in Around(kind, i)
  BY <1>2, <1>3, AroundIs
<1>5. \A j \in Around(kind, i) : j # t => j < t /\ i < EndOf(j)
  <2> TAKE j \in Around(kind, i)
  <2>1. j \in Positions(kind) /\ j < i /\ i <= EndOf(j)
    BY AroundIs
  <2>2. ~(t < j)
    BY <1>2, <1>3, <2>1, StartsAre
  <2>3. j # t => j < t
    BY <1>3, <2>1, <2>2, StartsAre
  <2>4. j < t => i < EndOf(j)
    BY <1>2, <1>3, <2>1, StartsAre
  <2> QED  BY <2>3, <2>4
<1>6. \A j \in Positions(kind) :
        (j < i + 1 /\ i + 1 <= EndOf(j)) <=> (j < i /\ i <= EndOf(j) /\ j # t)
  <2> TAKE j \in Positions(kind)
  <2>1. j \in Nat /\ EndOf(j) \in Nat /\ j < EndOf(j)
    BY StartsAre
  <2>2. j < i /\ i <= EndOf(j) /\ j # t => i < EndOf(j)
    BY <1>5, AroundIs
  <2>3. j # i
    BY StartsAre DEF Closing
  <2> QED  BY <1>2, <2>1, <2>2, <2>3
<1>7. Around(kind, i + 1) = Around(kind, i) \ {t}
  BY <1>6, AroundIs
<1> QED
  BY <1>2, <1>4, <1>5, <1>7

-----------------------------------------------------------------------------
(* The outline on the stacks *)

Items == Positions("start_item")

\* Where item s, which may be 0 for none, is open at event i: the items below
\* it that have ended, but not those below another open item.
Ended(s, i) ==
  {t \in Items : /\ s < t /\ EndOf(t) < i
                 /\ \A u \in Around("start_item", i) : u < t => u <= s}

Inside(t) == {u \in Items : t < u /\ u < EndOf(t)}

\* The records of a set of items, in the order written.
Records(rec, S) == [n \in 1..Len(InOrder(S)) |-> rec[InOrder(S)[n]]]

Incomplete(r) == r.type.kind = "task" /\ ~IsComplete(r.type.status.kind)

Placed(r) == [line |-> r.line, depth |-> r.depth, parent |-> r.parent, ordered |-> r.ordered]

\* A text that is the beginning of another.
Begins(p, t) == \E r \in Seq(Characters) : t = p \o r

\* An item has one of the tags that make tasks of items, or none is asked for.
HasFiltered(r) ==
  Winning("tag_filters") = <<>> \/ ToSet(r.tags) \cap ToSet(Winning("tag_filters")) # {}

\* What an item that has ended was found to hold.
Finds(t, f) == IsSettled(t) => f.fields = OfItem(t).fields /\ f.tags = OfItem(t).tags

\* What the record of an item tells of its marker and its metadata.
Classed(t, r) ==
  /\ r.type # Plain => (r.type.kind = "task" <=> HasFiltered(r))
  /\ IsSettled(t) =>
       /\ r.type = Plain <=> ~IsMarked(t)
       /\ r.type.kind = "task" =>
            r.type.status.symbol = LeadText(t)[2] /\ r.type.status = StatusOf(LeadText(t)[2])
       /\ LeadRest(t) \in Seq(Characters) /\ Begins(LeadRest(t), r.text)
  /\ Finds(t, r)

\* What the record of an ended item tells of its place, of its marker and of the
\* items in it.
Told(t, rec) ==
  /\ Placed(rec[t]) = Place(t)
  /\ Classed(t, rec[t])
  /\ rec[t].type.kind = "task" =>
       /\ rec[t].type.fully_complete \in BOOLEAN
       /\ rec[t].type.fully_complete <=> \A u \in Inside(t) : ~Incomplete(rec[u])

FrameKeys == {"text", "code", "scan", "fields", "tags", "line", "depth", "parent", "ordered",
              "marker", "incomplete", "descendants"}

\* The frame of an open item at event i.
IsFrame(f, s, i, rec) ==
  /\ DOMAIN f = FrameKeys
  /\ Placed(f) = Place(s)
  /\ f.descendants = Records(rec, Ended(s, i))
  /\ f.incomplete \in BOOLEAN
  /\ f.incomplete <=> \E u \in Ended(s, i) : Incomplete(rec[u])

OpenItems(i) == InOrder(Around("start_item", i))
OpenLists(i) == InOrder(Around("start_list", i))

\* The stacks hold what is open and what has ended at event i.
Stacks(ls, st, li, i, rec) ==
  /\ ls = [n \in 1..Len(OpenLists(i)) |-> Events[OpenLists(i)[n]].ordered]
  /\ \E X : st \in Seq(X)
  /\ Len(st) = Len(OpenItems(i))
  /\ \A n \in 1..Len(OpenItems(i)) : IsFrame(st[n], OpenItems(i)[n], i, rec)
  /\ li = Records(rec, Ended(0, i))
  /\ \A t \in Items : EndOf(t) < i => Told(t, rec)

LEMMA AroundOrder ==
  ASSUME Nested, NEW kind, NEW i
  PROVE  /\ Around(kind, i) \subseteq 1..Len(Events)
         /\ IsAscending(InOrder(Around(kind, i)), Around(kind, i))
         /\ IsFiniteSet(Around(kind, i))
         /\ Cardinality(Around(kind, i)) = Len(InOrder(Around(kind, i)))
<1>1. Around(kind, i) \subseteq 1..Len(Events)
  BY DEF Around, AroundIn, Nested
<1> QED
  BY <1>1, AscendingIs, AscendingLength DEF InOrder, Nested

LEMMA BelowOrder ==
  ASSUME Nested, NEW s, NEW i
  PROVE  Ended(s, i) \subseteq 1..Len(Events) /\ IsAscending(InOrder(Ended(s, i)), Ended(s, i))
<1>1. Ended(s, i) \subseteq 1..Len(Events)
  BY DEF Ended, Items, Positions, Nested
<1> QED
  BY <1>1, AscendingIs DEF InOrder, Nested

\* While no item ends, what has ended stays.
LEMMA BelowQuiet ==
  ASSUME Nested, NEW i \in 1..Len(Events), Events[i].kind # "end_item", NEW s,
         Around("start_item", i + 1) = Around("start_item", i)
  PROVE  Ended(s, i + 1) = Ended(s, i)
<1>1. \A t \in Items : EndOf(t) < i + 1 <=> EndOf(t) < i
  BY StartsAre DEF Items, Closing
<1> QED
  BY <1>1 DEF Ended

LEMMA BelowStart ==
  ASSUME Nested, NEW i \in 1..Len(Events), Events[i].kind = "start_item"
  PROVE  /\ \A s \in Around("start_item", i) \cup {0} : Ended(s, i + 1) = Ended(s, i)
         /\ Ended(i, i + 1) = {}
<1>1. \A t \in Items : EndOf(t) < i + 1 <=> EndOf(t) < i
  BY StartsAre DEF Items, Closing
<1>2. \A t \in Items : EndOf(t) < i => ~(i < t)
  BY StartsAre DEF Items
<1>3. Around("start_item", i + 1) = Around("start_item", i) \cup {i}
  BY AroundStart
<1>4. \A s : Ended(s, i + 1) = Ended(s, i)
  <2> TAKE s
  <2>1. \A t \in Items : EndOf(t) < i =>
          ((\A u \in Around("start_item", i + 1) : u < t => u <= s)
             <=> \A u \in Around("start_item", i) : u < t => u <= s)
    BY <1>2, <1>3
  <2> QED  BY <1>1, <2>1 DEF Ended
<1>5. Ended(i, i + 1) = {}
  BY <1>1, <1>2 DEF Ended
<1> QED
  BY <1>4, <1>5

\* The item that ends at event i, and the item p around it, or 0.
Ends(t, p, i) ==
  /\ t \in Around("start_item", i) /\ EndOf(t) = i
  /\ \A j \in Around("start_item", i) : j # t => j < t /\ i < EndOf(j)
  /\ Around("start_item", i + 1) = Around("start_item", i) \ {t}
  /\ p \in (Around("start_item", i) \ {t}) \cup {0}
  /\ \A j \in Around("start_item", i) : j # t => j <= p

\* When an item ends, it and what is below it comes below the item around it,
\* after what is there already.
LEMMA BelowEnd ==
  ASSUME Nested, NEW i \in 1..Len(Events), NEW t, NEW p, Ends(t, p, i)
  PROVE  /\ \A s \in (Around("start_item", i) \ {t}) \cup {0} :
              s # p => Ended(s, i + 1) = Ended(s, i)
         /\ Ended(p, i + 1) = (Ended(p, i) \cup {t}) \cup Ended(t, i)
         /\ \A x \in Ended(p, i) : x < t
         /\ \A x \in Ended(t, i) : t < x
         /\ p < t
<1> USE DEF Ends
<1> DEFINE A == Around("start_item", i)
           B == Around("start_item", i + 1)
<1>1. \A x \in Items : x \in Nat /\ 1 <= x /\ EndOf(x) \in Nat
  BY StartsAre DEF Items
<1>2. A \subseteq Items
  BY AroundIs DEF Items
<1>3. p \in Nat /\ t \in Nat /\ p < t /\ \A u \in A : u \in Nat /\ 1 <= u
  BY <1>1, <1>2
<1>4. \A x \in Items : EndOf(x) = i => x = t
  BY <1>1, <1>2, StartsAre DEF Items
<1>5. \A x \in Items : EndOf(x) < i + 1 <=> EndOf(x) < i \/ x = t
  BY <1>1, <1>4
<1>6. \A u \in B : u \in A /\ u # t /\ u <= p /\ u < t
  OBVIOUS
<1>7. \A u \in A : u = t \/ u \in B
  OBVIOUS
<1> HIDE DEF A, B
<1>8. ASSUME NEW s \in B \cup {0}
      PROVE  \A x : x \in Ended(s, i + 1) <=>
               \/ x \in Ended(s, i)
               \/ s = p /\ (x = t \/ x \in Ended(t, i))
  <2> TAKE x
  <2>0. s \in Nat /\ s <= p /\ s < t /\ (s # p => s < p /\ p \in B)
    <3>1. s \in Nat /\ s <= p
      BY <1>3, <1>6
    <3>2. p \in B \cup {0}
      BY DEF A, B
    <3>3. s # p => p \in B
      <4> SUFFICES ASSUME s # p, p = 0 PROVE FALSE
        BY <3>2
      <4> QED  BY <3>1
    <3> QED  BY <1>3, <3>1, <3>3
  <2>1. x \in Ended(s, i + 1) <=>
          x \in Items /\ s < x /\ EndOf(x) < i + 1 /\ \A u \in B : u < x => u <= s
    BY DEF Ended, B
  <2>2. x \in Ended(s, i) <=>
          x \in Items /\ s < x /\ EndOf(x) < i /\ \A u \in A : u < x => u <= s
    BY DEF Ended, A
  <2>3. x \in Ended(t, i) <=>
          x \in Items /\ t < x /\ EndOf(x) < i /\ \A u \in A : u < x => u <= t
    BY DEF Ended, A
  <2>4. CASE x \notin Items
    BY <1>2, <2>1, <2>2, <2>3, <2>4 DEF A
  <2>5. CASE x \in Items /\ x = t
    <3>1. EndOf(x) < i + 1 /\ ~(EndOf(x) < i)
      BY <2>5
    <3>2. (\A u \in B : u < x => u <= s) <=> s = p
      BY <1>3, <1>6, <2>0, <2>5
    <3> QED  BY <2>0, <2>1, <2>2, <2>5, <3>1, <3>2
  <2>6. CASE x \in Items /\ x # t
    <3>1. EndOf(x) < i + 1 <=> EndOf(x) < i
      BY <1>5, <2>6
    <3>2. x \in Nat
      BY <1>1, <2>6
    <3>3. CASE x < t
      <4>1. (\A u \in B : u < x => u <= s) <=> (\A u \in A : u < x => u <= s)
        BY <1>3, <1>6, <1>7, <3>2, <3>3
      <4>2. ~(t < x)
        BY <1>3, <3>2, <3>3
      <4> QED  BY <2>1, <2>2, <2>3, <2>6, <3>1, <4>1, <4>2
    <3>4. CASE t < x
      <4>1. \A u \in A : u <= t
        BY <1>3, <1>6, <1>7
      <4>2. ~(\A u \in A : u < x => u <= s)
        <5>1. t \in A /\ t < x /\ ~(t <= s)
          BY <1>3, <2>0, <3>4 DEF A
        <5> QED  BY <5>1
      <4>3. (\A u \in B : u < x => u <= s) <=> s = p
        <5>1. s = p => \A u \in B : u <= s
          BY <1>6
        <5>2. s # p => p \in B /\ p < x /\ ~(p <= s)
          BY <1>3, <2>0, <3>2, <3>4
        <5> QED  BY <5>1, <5>2
      <4>4. s < x
        BY <1>3, <2>0, <3>2, <3>4
      <4> QED  BY <2>1, <2>2, <2>3, <2>6, <3>1, <3>4, <4>1, <4>2, <4>3, <4>4
    <3> QED  BY <1>3, <2>6, <3>2, <3>3, <3>4
  <2> QED  BY <2>4, <2>5, <2>6
<1>9. B \cup {0} = (A \ {t}) \cup {0}
  BY DEF A, B
<1>10. \A s \in (A \ {t}) \cup {0} : s # p => Ended(s, i + 1) = Ended(s, i)
  BY <1>8, <1>9
<1>11. Ended(p, i + 1) = (Ended(p, i) \cup {t}) \cup Ended(t, i)
  <2>1. p \in B \cup {0}
    BY DEF A, B
  <2>2. \A x : x \in Ended(p, i + 1) <=> x \in Ended(p, i) \/ x = t \/ x \in Ended(t, i)
    BY <1>8, <2>1
  <2> QED  BY ONLY <2>2
<1>12. \A x \in Ended(p, i) : x < t
  <2> TAKE x \in Ended(p, i)
  <2>1. x \in Items /\ EndOf(x) < i /\ \A u \in A : u < x => u <= p
    BY DEF Ended, A
  <2>2. x # t /\ x \in Nat
    BY <1>1, <2>1
  <2>3. ~(t < x)
    BY <1>3, <2>1 DEF A
  <2> QED  BY <1>3, <2>2, <2>3
<1>13. \A x \in Ended(t, i) : t < x
  BY DEF Ended
<1> QED
  BY <1>3, <1>10, <1>11, <1>12, <1>13 DEF A

LEMMA InOrderConcat ==
  ASSUME Nested, NEW U, NEW T, U \subseteq 1..Len(Events), T \subseteq 1..Len(Events), Precedes(U, T)
  PROVE  InOrder(U \cup T) = InOrder(U) \o InOrder(T)
<1>1. Len(Events) \in Nat
  BY DEF Nested
<1>2. Ascending(U \cup T, Len(Events)) = Ascending(U, Len(Events)) \o Ascending(T, Len(Events))
  BY <1>1, AscendingConcat
<1> QED
  BY <1>2 DEF InOrder

LEMMA AppendIs ==
  ASSUME NEW X, NEW a \in Seq(X), NEW e \in X
  PROVE  /\ Append(a, e) \in Seq(X) /\ Len(Append(a, e)) = Len(a) + 1
         /\ \A n \in 1..Len(a) : Append(a, e)[n] = a[n]
         /\ Append(a, e)[Len(a) + 1] = e
         /\ a \o <<e>> = Append(a, e)
OBVIOUS

LEMMA RecordsAre ==
  ASSUME NEW rec, NEW S, NEW X, IsAscending(InOrder(S), S), \A x \in S : rec[x] \in X
  PROVE  Records(rec, S) \in Seq(X) /\ Len(Records(rec, S)) = Len(InOrder(S))
<1> DEFINE q == InOrder(S)
<1>1. Len(q) \in Nat /\ \A n \in 1..Len(q) : q[n] \in S
  BY DEF IsAscending
<1> HIDE DEF q
<1>2. \A n \in 1..Len(q) : rec[q[n]] \in X
  BY <1>1
<1>3. Records(rec, S) = [n \in 1..Len(q) |-> rec[q[n]]]
  BY DEF Records, q
<1> QED
  BY <1>1, <1>2, <1>3 DEF q

\* All of Q is before event t, t itself, or after it.
Beside(S, t, T, Q) ==
  /\ Q = (S \cup {t}) \cup T
  /\ S \subseteq 1..Len(Events) /\ t \in 1..Len(Events) /\ T \subseteq 1..Len(Events)
  /\ \A x \in S : x < t
  /\ \A x \in T : t < x

\* Records follow each other as their items do.
Strung(rec, S, t, T) == (Records(rec, S) \o <<rec[t]>>) \o Records(rec, T)

LEMMA RecordsConcat ==
  ASSUME Nested, NEW rec, NEW S, NEW t, NEW T, NEW Q, Beside(S, t, T, Q)
  PROVE  Records(rec, Q) = Strung(rec, S, t, T)
<1> USE DEF Beside
<1> DEFINE X == {rec[x] : x \in (S \cup {t}) \cup T}
           p == InOrder(S)
           q == InOrder(T)
<1>1. /\ IsAscending(p, S) /\ IsAscending(q, T)
      /\ InOrder(S \cup {t}) = Append(p, t)
      /\ InOrder((S \cup {t}) \cup T) = Append(p, t) \o q
      /\ IsAscending(Append(p, t) \o q, (S \cup {t}) \cup T)
  <2>1. Len(Events) \in Nat /\ S \cup {t} \subseteq 1..Len(Events)
        /\ (S \cup {t}) \cup T \subseteq 1..Len(Events)
    BY DEF Nested
  <2>2. \A x \in S \cup {t} : \A y \in T : x < y
    <3>1. \A x \in S : x \in Nat /\ x < t
      BY <2>1
    <3>2. \A y \in T : y \in Nat /\ t < y
      BY <2>1
    <3> QED  BY <2>1, <3>1, <3>2
  <2>3. Ascending(S \cup {t}, Len(Events)) = Append(Ascending(S, Len(Events)), t)
    BY ONLY <2>1, S \subseteq 1..Len(Events), t \in 1..Len(Events), \A x \in S : x < t, AscendingAppend
  <2>4. Ascending((S \cup {t}) \cup T, Len(Events)) =
          Ascending(S \cup {t}, Len(Events)) \o Ascending(T, Len(Events))
    <3> DEFINE U == S \cup {t}
    <3>1. U \subseteq 1..Len(Events) /\ Precedes(U, T)
      BY <2>1, <2>2 DEF Precedes
    <3> HIDE DEF U
    <3>2. InOrder(U \cup T) = InOrder(U) \o InOrder(T)
      BY <3>1, InOrderConcat
    <3> QED  BY <3>2 DEF U, InOrder
  <2>5. /\ IsAscending(Ascending(S, Len(Events)), S) /\ IsAscending(Ascending(T, Len(Events)), T)
        /\ IsAscending(Ascending((S \cup {t}) \cup T, Len(Events)), (S \cup {t}) \cup T)
    BY <2>1, AscendingIs
  <2> QED  BY <2>3, <2>4, <2>5 DEF InOrder
<1>2. p \in Seq(Nat) /\ q \in Seq(Nat) /\ t \in Nat
  BY <1>1 DEF IsAscending, Nested
<1>3. /\ Records(rec, S) \in Seq(X) /\ Len(Records(rec, S)) = Len(p)
      /\ \A n \in 1..Len(p) : Records(rec, S)[n] = rec[p[n]]
  <2>1. \A x \in S : rec[x] \in X
    OBVIOUS
  <2> HIDE DEF X
  <2>2. IsAscending(InOrder(S), S)
    BY <1>1
  <2>3. Records(rec, S) \in Seq(X) /\ Len(Records(rec, S)) = Len(InOrder(S))
    BY ONLY <2>1, <2>2, RecordsAre
  <2> QED  BY <2>3 DEF Records
<1>4. /\ Records(rec, T) \in Seq(X) /\ Len(Records(rec, T)) = Len(q)
      /\ \A n \in 1..Len(q) : Records(rec, T)[n] = rec[q[n]]
  <2>1. \A x \in T : rec[x] \in X
    OBVIOUS
  <2> HIDE DEF X
  <2>2. IsAscending(InOrder(T), T)
    BY <1>1
  <2>3. Records(rec, T) \in Seq(X) /\ Len(Records(rec, T)) = Len(InOrder(T))
    BY ONLY <2>1, <2>2, RecordsAre
  <2> QED  BY <2>3 DEF Records
<1>5. rec[t] \in X
  OBVIOUS
<1>6. Records(rec, (S \cup {t}) \cup T) = [n \in 1..Len(Append(p, t) \o q) |-> rec[(Append(p, t) \o q)[n]]]
  BY <1>1 DEF Records
<1> HIDE DEF X, p, q
<1> DEFINE a == Records(rec, S)
           b == Records(rec, T)
<1>7. /\ a \in Seq(X) /\ Len(a) = Len(p) /\ \A n \in 1..Len(p) : a[n] = rec[p[n]]
      /\ b \in Seq(X) /\ Len(b) = Len(q) /\ \A n \in 1..Len(q) : b[n] = rec[q[n]]
  BY <1>3, <1>4
<1> HIDE DEF a, b
<1> DEFINE c == (a \o <<rec[t]>>) \o b
           r == Append(p, t) \o q
<1>8. /\ c \in Seq(X) /\ Len(c) = Len(p) + 1 + Len(q)
      /\ \A n \in 1..Len(p) : c[n] = a[n]
      /\ c[Len(p) + 1] = rec[t]
      /\ \A n \in 1..Len(q) : c[Len(p) + 1 + n] = b[n]
  <2> DEFINE e == rec[t]
             d == Append(a, e)
  <2>0. e \in X
    BY <1>5
  <2> HIDE DEF e
  <2>1. /\ d \in Seq(X) /\ Len(d) = Len(p) + 1 /\ Len(p) \in Nat /\ Len(q) \in Nat
        /\ \A n \in 1..Len(p) : d[n] = a[n]
        /\ d[Len(p) + 1] = e
    <3>1. a \in Seq(X) /\ Len(a) = Len(p) /\ Len(p) \in Nat /\ Len(q) \in Nat
      BY <1>2, <1>7
    <3> QED  BY ONLY <3>1, <2>0, AppendIs
  <2>6. a \o <<e>> = d
    BY <1>7, <2>0, AppendIs
  <2> HIDE DEF d
  <2>2. /\ d \o b \in Seq(X) /\ Len(d \o b) = Len(p) + 1 + Len(q)
        /\ \A n \in 1..(Len(p) + 1) : (d \o b)[n] = d[n]
        /\ \A n \in 1..Len(q) : (d \o b)[Len(p) + 1 + n] = b[n]
    <3>1. /\ d \o b \in Seq(X) /\ Len(d \o b) = Len(d) + Len(b)
          /\ \A n \in 1..Len(d) : (d \o b)[n] = d[n]
          /\ \A n \in 1..Len(b) : (d \o b)[Len(d) + n] = b[n]
      <4>1. d \in Seq(X) /\ b \in Seq(X)
        BY <1>7, <2>1
      <4> QED  BY ONLY <4>1, ConcatIs
    <3>2. Len(d) = Len(p) + 1 /\ Len(b) = Len(q)
      BY <1>7, <2>1
    <3> QED  BY ONLY <3>1, <3>2
  <2>3. c = d \o b
    BY <2>6 DEF e
  <2> HIDE DEF c
  <2>4. \A n \in 1..Len(p) : n \in 1..(Len(p) + 1)
    BY <2>1
  <2>5. Len(p) + 1 \in 1..(Len(p) + 1)
    BY <2>1
  <2> QED  BY <2>1, <2>2, <2>3, <2>4, <2>5 DEF e
<1>9. /\ Len(r) = Len(p) + 1 + Len(q)
      /\ \A n \in 1..Len(p) : r[n] = p[n]
      /\ r[Len(p) + 1] = t
      /\ \A n \in 1..Len(q) : r[Len(p) + 1 + n] = q[n]
  BY <1>2
<1> HIDE DEF c, r
<1>10. \A n \in 1..Len(r) : c[n] = rec[r[n]]
  <2> TAKE n \in 1..Len(r)
  <2>1. \/ n \in 1..Len(p) \/ n = Len(p) + 1
        \/ n - (Len(p) + 1) \in 1..Len(q) /\ n = Len(p) + 1 + (n - (Len(p) + 1))
    BY <1>2, <1>9
  <2>2. CASE n \in 1..Len(p)
    BY <1>7, <1>8, <1>9, <2>2
  <2>3. CASE n = Len(p) + 1
    BY <1>8, <1>9, <2>3
  <2>4. CASE n - (Len(p) + 1) \in 1..Len(q) /\ n = Len(p) + 1 + (n - (Len(p) + 1))
    <3> DEFINE m == n - (Len(p) + 1)
    <3>1. m \in 1..Len(q) /\ n = Len(p) + 1 + m
      BY <2>4
    <3> HIDE DEF m
    <3>2. c[n] = b[m] /\ r[n] = q[m] /\ b[m] = rec[q[m]]
      BY <1>7, <1>8, <1>9, <3>1
    <3> QED  BY <3>2
  <2> QED  BY <2>1, <2>2, <2>3, <2>4
<1>11. c = [n \in 1..Len(r) |-> rec[r[n]]]
  BY <1>8, <1>9, <1>10
<1>12. Records(rec, (S \cup {t}) \cup T) = (Records(rec, S) \o <<rec[t]>>) \o Records(rec, T)
  BY <1>6, <1>11 DEF c, r, a, b
<1> QED
  BY <1>12 DEF Strung

\* Records of other items do not count.
LEMMA RecordsSame ==
  ASSUME NEW S, IsAscending(InOrder(S), S), NEW rec, NEW rec2, \A x \in S : rec2[x] = rec[x]
  PROVE  Records(rec2, S) = Records(rec, S)
<1>1. \A n \in 1..Len(InOrder(S)) : rec2[InOrder(S)[n]] = rec[InOrder(S)[n]]
  BY DEF IsAscending
<1> QED
  BY <1>1 DEF Records

\* An item that ends has the items in it below it.
LEMMA InsideEnded ==
  ASSUME Nested, NEW i \in 1..Len(Events), NEW t \in Around("start_item", i), EndOf(t) = i,
         \A j \in Around("start_item", i) : j # t => j < t /\ i < EndOf(j)
  PROVE  Inside(t) = Ended(t, i)
<1>0. t \in Items
  BY AroundIs DEF Items
<1>1. \A u \in Items : t < u /\ u < i => EndOf(u) < i
  BY <1>0, StartsAre DEF Items
<1>2. \A u \in Items : EndOf(u) < i => u < i
  BY StartsAre DEF Items
<1>3. \A v \in Around("start_item", i) : v <= t
  BY <1>0, StartsAre, AroundIs DEF Items
<1>4. \A u : u \in Inside(t) <=> u \in Items /\ t < u /\ u < i
  BY DEF Inside
<1>5. \A u : u \in Ended(t, i) <=> u \in Items /\ t < u /\ EndOf(u) < i
  BY <1>3 DEF Ended
<1>6. \A u : u \in Inside(t) <=> u \in Ended(t, i)
  BY ONLY <1>1, <1>2, <1>4, <1>5
<1> QED
  BY ONLY <1>6

SameCore(g, f) ==
  /\ DOMAIN g = DOMAIN f
  /\ g.line = f.line /\ g.depth = f.depth /\ g.parent = f.parent /\ g.ordered = f.ordered
  /\ g.incomplete = f.incomplete /\ g.descendants = f.descendants

LEMMA SameFrame ==
  ASSUME NEW f, NEW g, SameCore(g, f), NEW s, NEW i, NEW rec, IsFrame(f, s, i, rec)
  PROVE  IsFrame(g, s, i, rec)
BY DEF SameCore, IsFrame, Placed

LEMMA FrameStays ==
  ASSUME NEW f, NEW s, NEW i, NEW k, NEW rec, IsFrame(f, s, i, rec), Ended(s, k) = Ended(s, i)
  PROVE  IsFrame(f, s, k, rec)
BY DEF IsFrame

\* An event that starts or ends no list and no item leaves all in its place.
LEMMA QuietKeeps ==
  ASSUME Nested, NEW i \in 1..Len(Events),
         Events[i].kind \notin {"start_list", "end_list", "start_item", "end_item"},
         NEW ls, NEW st, NEW li, NEW rec, Stacks(ls, st, li, i, rec),
         NEW st2, \E X : st2 \in Seq(X), Len(st2) = Len(st), \A n \in 1..Len(st) : SameCore(st2[n], st[n])
  PROVE  Stacks(ls, st2, li, i + 1, rec)
<1>1. /\ Around("start_list", i + 1) = Around("start_list", i)
      /\ Around("start_item", i + 1) = Around("start_item", i)
  BY AroundQuiet DEF Closing
<1>2. \A s : Ended(s, i + 1) = Ended(s, i)
  BY <1>1, BelowQuiet
<1>3. \A t \in Items : EndOf(t) < i + 1 <=> EndOf(t) < i
  BY StartsAre DEF Items, Closing
<1>4. OpenItems(i + 1) = OpenItems(i) /\ OpenLists(i + 1) = OpenLists(i)
  BY <1>1 DEF OpenItems, OpenLists
<1>5. \A n \in 1..Len(OpenItems(i)) : IsFrame(st2[n], OpenItems(i)[n], i + 1, rec)
  <2> TAKE n \in 1..Len(OpenItems(i))
  <2>1. IsFrame(st[n], OpenItems(i)[n], i, rec) /\ SameCore(st2[n], st[n])
    BY DEF Stacks
  <2> QED  BY <1>2, <2>1, SameFrame, FrameStays
<1> QED
  BY <1>2, <1>3, <1>4, <1>5 DEF Stacks

LEMMA InOrderAppend ==
  ASSUME Nested, NEW S, NEW t \in 1..Len(Events), S \subseteq 1..Len(Events), \A x \in S : x < t
  PROVE  InOrder(S \cup {t}) = Append(InOrder(S), t)
<1>1. Len(Events) \in Nat
  BY DEF Nested
<1>2. Ascending(S \cup {t}, Len(Events)) = Append(Ascending(S, Len(Events)), t)
  BY <1>1, AscendingAppend
<1> QED
  BY <1>2 DEF InOrder

\* The greatest number is the last one.
LEMMA LastIsMax ==
  ASSUME NEW S, NEW q, IsAscending(q, S)
  PROVE  /\ Len(q) \in Nat /\ \A n \in 1..Len(q) : q[n] \in Nat /\ q[n] \in S
         /\ Len(q) # 0 => Max(S) = Last(q) /\ Max(S \cup {0}) = Last(q)
         /\ Len(q) = 0 => S = {} /\ Max(S \cup {0}) = 0
<1>1. /\ q \in Seq(Nat) /\ Len(q) \in Nat
      /\ \A n \in 1..Len(q) : q[n] \in S
      /\ \A j \in S : \E n \in 1..Len(q) : q[n] = j
      /\ \A m, n \in 1..Len(q) : m < n => q[m] < q[n]
  BY DEF IsAscending
<1>2. \A n \in 1..Len(q) : q[n] \in Nat /\ q[n] \in S
  BY <1>1
<1>3. ASSUME Len(q) # 0 PROVE Max(S) = Last(q) /\ Max(S \cup {0}) = Last(q)
  <2> DEFINE x == Last(q)
  <2>1. Len(q) \in 1..Len(q)
    BY <1>1, <1>3
  <2>2. x \in S /\ x \in Nat
    BY <1>2, <2>1 DEF Last
  <2>3. \A n \in 1..Len(q) : q[n] <= x
    <3> TAKE n \in 1..Len(q)
    <3>1. n < Len(q) \/ n = Len(q)
      BY <1>1
    <3>2. n < Len(q) => q[n] < x
      BY <1>1, <2>1 DEF Last
    <3> QED  BY <1>2, <2>1, <2>2, <3>1, <3>2 DEF Last
  <2>4. \A y \in S : y \in Nat /\ y <= x
    BY <1>1, <1>2, <2>3
  <2> HIDE DEF x
  <2>5. \A z \in S : (\A y \in S : z >= y) => z = x
    BY <2>2, <2>4
  <2>6. \A y \in S : x >= y
    BY <2>2, <2>4
  <2>7. Max(S) = x
    BY <2>2, <2>5, <2>6 DEF Max
  <2>8. \A z \in S \cup {0} : (\A y \in S \cup {0} : z >= y) => z = x
    BY <2>2, <2>4
  <2>9. \A y \in S \cup {0} : x >= y
    BY <2>2, <2>4
  <2>10. Max(S \cup {0}) = x
    BY <2>2, <2>8, <2>9 DEF Max
  <2> QED  BY <2>7, <2>10 DEF x
<1>4. ASSUME Len(q) = 0 PROVE S = {} /\ Max(S \cup {0}) = 0
  <2>1. S = {}
    BY <1>1, <1>4
  <2>2. S \cup {0} = {0}
    BY <2>1
  <2> QED  BY <2>1, <2>2 DEF Max
<1> QED
  BY <1>1, <1>2, <1>3, <1>4

LEMMA StartListKeeps ==
  ASSUME Nested, NEW i \in 1..Len(Events), Events[i].kind = "start_list",
         NEW ls, NEW st, NEW li, NEW rec, Stacks(ls, st, li, i, rec),
         NEW st2, \E X : st2 \in Seq(X), Len(st2) = Len(st), \A n \in 1..Len(st) : SameCore(st2[n], st[n])
  PROVE  Stacks(Append(ls, Events[i].ordered), st2, li, i + 1, rec)
<1>1. /\ Around("start_list", i + 1) = Around("start_list", i) \cup {i}
      /\ Around("start_item", i + 1) = Around("start_item", i)
  BY AroundStart, AroundQuiet DEF Closing
<1>2. \A s : Ended(s, i + 1) = Ended(s, i)
  BY <1>1, BelowQuiet
<1>3. \A t \in Items : EndOf(t) < i + 1 <=> EndOf(t) < i
  BY StartsAre DEF Items, Closing
<1>4. OpenItems(i + 1) = OpenItems(i)
  BY <1>1 DEF OpenItems
<1>5. OpenLists(i + 1) = Append(OpenLists(i), i)
  <2>1. Around("start_list", i) \subseteq 1..Len(Events) /\ \A x \in Around("start_list", i) : x < i
    BY AroundOrder, AroundIs
  <2> QED  BY <1>1, <2>1, InOrderAppend DEF OpenLists
<1>6. \A n \in 1..Len(OpenItems(i)) : IsFrame(st2[n], OpenItems(i)[n], i + 1, rec)
  <2> TAKE n \in 1..Len(OpenItems(i))
  <2>1. IsFrame(st[n], OpenItems(i)[n], i, rec) /\ SameCore(st2[n], st[n])
    BY DEF Stacks
  <2> QED  BY <1>2, <2>1, SameFrame, FrameStays
<1>7. Append(ls, Events[i].ordered) = [n \in 1..Len(OpenLists(i + 1)) |-> Events[OpenLists(i + 1)[n]].ordered]
  <2> DEFINE q == OpenLists(i)
             X == {Events[n].ordered : n \in Nat}
  <2>1. q \in Seq(Nat)
    BY AroundOrder DEF OpenLists, IsAscending
  <2>2. ls = [n \in 1..Len(q) |-> Events[q[n]].ordered]
    BY DEF Stacks
  <2> HIDE DEF q
  <2>3. \A n \in 1..Len(q) : Events[q[n]].ordered \in X
    BY <2>1
  <2>4. Events[i].ordered \in X
    OBVIOUS
  <2> HIDE DEF X
  <2>5. ls \in Seq(X) /\ Len(ls) = Len(q) /\ \A n \in 1..Len(q) : ls[n] = Events[q[n]].ordered
    BY <2>1, <2>2, <2>3
  <2> DEFINE e == Events[i].ordered
             r == Append(q, i)
  <2>6. /\ Append(ls, e) \in Seq(X) /\ Len(Append(ls, e)) = Len(q) + 1
        /\ \A n \in 1..Len(q) : Append(ls, e)[n] = ls[n]
        /\ Append(ls, e)[Len(q) + 1] = e
    BY <2>4, <2>5, AppendIs
  <2>7. /\ Len(r) = Len(q) + 1 /\ \A n \in 1..Len(q) : r[n] = q[n]
        /\ r[Len(q) + 1] = i
    BY <2>1
  <2> HIDE DEF r
  <2>8. \A n \in 1..Len(r) : n \in 1..Len(q) \/ n = Len(q) + 1
    <3>1. Len(q) \in Nat /\ Len(r) = Len(q) + 1
      BY <2>1, <2>7
    <3> QED  BY ONLY <3>1
  <2>9. \A n \in 1..Len(r) : Append(ls, e)[n] = Events[r[n]].ordered
    BY <2>5, <2>6, <2>7, <2>8
  <2> DEFINE c == Append(ls, e)
  <2>10. c \in Seq(X) /\ Len(c) = Len(r) /\ \A n \in 1..Len(r) : c[n] = Events[r[n]].ordered
    BY <2>6, <2>7, <2>9
  <2> HIDE DEF c
  <2>11. c = [n \in 1..Len(r) |-> Events[r[n]].ordered]
    BY ONLY <2>10
  <2> QED  BY <1>5, <2>11 DEF q, c, r
<1> QED
  BY <1>2, <1>3, <1>4, <1>6, <1>7 DEF Stacks

LEMMA EndListKeeps ==
  ASSUME Nested, NEW i \in 1..Len(Events), Events[i].kind = "end_list",
         NEW ls, NEW st, NEW li, NEW rec, Stacks(ls, st, li, i, rec)
  PROVE  Stacks(Front(ls), st, li, i + 1, rec)
<1>1. PICK t \in Around("start_list", i) :
        /\ EndOf(t) = i
        /\ \A j \in Around("start_list", i) : j # t => j < t /\ i < EndOf(j)
        /\ Around("start_list", i + 1) = Around("start_list", i) \ {t}
  BY AroundEnd DEF Closing
<1>2. Around("start_item", i + 1) = Around("start_item", i)
  BY AroundQuiet DEF Closing
<1>3. \A s : Ended(s, i + 1) = Ended(s, i)
  BY <1>2, BelowQuiet
<1>4. \A x \in Items : EndOf(x) < i + 1 <=> EndOf(x) < i
  BY StartsAre DEF Items, Closing
<1>5. OpenItems(i + 1) = OpenItems(i)
  BY <1>2 DEF OpenItems
<1>6. OpenLists(i) = Append(OpenLists(i + 1), t)
  <2>1. /\ Around("start_list", i + 1) \subseteq 1..Len(Events) /\ t \in 1..Len(Events)
        /\ \A x \in Around("start_list", i + 1) : x < t
    BY <1>1, AroundOrder
  <2>2. Around("start_list", i) = Around("start_list", i + 1) \cup {t}
    BY <1>1
  <2> QED  BY <2>1, <2>2, InOrderAppend DEF OpenLists
<1>7. \A n \in 1..Len(OpenItems(i)) : IsFrame(st[n], OpenItems(i)[n], i + 1, rec)
  BY <1>3, FrameStays DEF Stacks
<1>8. Front(ls) = [n \in 1..Len(OpenLists(i + 1)) |-> Events[OpenLists(i + 1)[n]].ordered]
  <2> DEFINE q == OpenLists(i + 1)
             r == Append(q, t)
             X == {Events[n].ordered : n \in Nat}
  <2>1. q \in Seq(Nat) /\ t \in Nat
    BY AroundOrder DEF OpenLists, IsAscending
  <2>2. ls = [n \in 1..Len(r) |-> Events[r[n]].ordered]
    BY <1>6 DEF Stacks
  <2>3. Len(r) = Len(q) + 1 /\ Len(q) \in Nat /\ \A n \in 1..Len(q) : r[n] = q[n]
    BY <2>1
  <2> HIDE DEF q, r
  <2>4. /\ Len(ls) = Len(q) + 1
        /\ \A n \in 1..Len(q) : ls[n] = Events[q[n]].ordered
    BY <2>2, <2>3
  <2>5. Front(ls) = [n \in 1..Len(q) |-> ls[n]]
    BY <2>2, <2>3, <2>4 DEF Front
  <2> QED  BY <2>4, <2>5 DEF q
<1> QED
  BY <1>3, <1>4, <1>5, <1>7, <1>8 DEF Stacks

\* A new item takes its place from what is open (ListTracker::start_item).
LEMMA StartItemKeeps ==
  ASSUME Nested, NEW i \in 1..Len(Events), Events[i].kind = "start_item",
         NEW ls, NEW st, NEW li, NEW rec, Stacks(ls, st, li, i, rec),
         NEW f, DOMAIN f = FrameKeys, f.line = Events[i].line,
         f.depth = Min({MaxDepth, Len(ls) - 1}),
         f.parent = IF st # <<>> THEN Last(st).line ELSE NoLine,
         f.ordered = Last(ls), f.incomplete = FALSE, f.descendants = <<>>
  PROVE  Stacks(ls, Append(st, f), li, i + 1, rec)
<1>1. /\ Around("start_list", i + 1) = Around("start_list", i)
      /\ Around("start_item", i + 1) = Around("start_item", i) \cup {i}
  BY AroundStart, AroundQuiet DEF Closing
<1>2. /\ \A s \in Around("start_item", i) \cup {0} : Ended(s, i + 1) = Ended(s, i)
      /\ Ended(i, i + 1) = {}
  BY BelowStart
<1>3. \A t \in Items : EndOf(t) < i + 1 <=> EndOf(t) < i
  BY StartsAre DEF Items, Closing
<1>4. OpenLists(i + 1) = OpenLists(i)
  BY <1>1 DEF OpenLists
<1> DEFINE q == OpenItems(i)
           p == OpenLists(i)
<1>5. OpenItems(i + 1) = Append(q, i)
  <2>1. Around("start_item", i) \subseteq 1..Len(Events) /\ \A x \in Around("start_item", i) : x < i
    BY AroundOrder, AroundIs
  <2> QED  BY <1>1, <2>1, InOrderAppend DEF OpenItems
<1>6. IsAscending(q, Around("start_item", i)) /\ IsAscending(p, Around("start_list", i))
      /\ Cardinality(Around("start_item", i)) = Len(q) /\ Cardinality(Around("start_list", i)) = Len(p)
  BY AroundOrder DEF OpenItems, OpenLists
<1>7. i \in Positions("start_item")
  BY DEF Positions, Nested
<1>8. Len(p) = Len(q) + 1
  BY <1>6, <1>7 DEF Nested
<1> HIDE DEF p, q
<1>9. /\ Len(q) \in Nat /\ \A n \in 1..Len(q) : q[n] \in Nat /\ q[n] \in Around("start_item", i)
      /\ Len(q) # 0 => Owner(i) = Last(q)
      /\ Len(q) = 0 => Owner(i) = 0
  BY <1>6, LastIsMax DEF Owner
<1>10. Len(p) \in Nat /\ Len(p) # 0 /\ Max(Around("start_list", i)) = Last(p)
  <2>1. Len(p) \in Nat /\ Len(p) # 0
    BY <1>8, <1>9
  <2>2. IsAscending(p, Around("start_list", i))
    BY <1>6
  <2>3. Len(p) # 0 => Max(Around("start_list", i)) = Last(p)
    BY ONLY <2>2, LastIsMax
  <2> QED  BY <2>1, <2>3
<1>11. /\ Len(ls) = Len(p) /\ Last(ls) = Events[Last(p)].ordered
  <2>1. ls = [n \in 1..Len(p) |-> Events[p[n]].ordered]
    BY DEF Stacks, p
  <2>2. Len(p) \in 1..Len(p)
    BY <1>10
  <2> QED  BY <1>10, <2>1, <2>2 DEF Last
<1>12. (\E X : st \in Seq(X)) /\ Len(st) = Len(q)
       /\ \A n \in 1..Len(q) : IsFrame(st[n], q[n], i, rec)
  BY DEF Stacks, q
<1>13. (st # <<>>) <=> Len(q) # 0
  BY <1>12
<1>14. f.parent = IF Owner(i) = 0 THEN NoLine ELSE Events[Owner(i)].line
  <2>1. CASE Len(q) = 0
    BY <1>9, <1>13, <2>1
  <2>2. CASE Len(q) # 0
    <3>1. Len(q) \in 1..Len(q)
      BY <1>9, <2>2
    <3>2. Placed(Last(st)) = Place(Last(q))
      BY <1>12, <3>1 DEF Last, IsFrame
    <3>3. Last(st).line = Events[Last(q)].line
      BY <3>2 DEF Placed, Place
    <3>4. Last(q) \in Positions("start_item")
      BY <1>9, <3>1, AroundIs DEF Last
    <3>5. Last(q) # 0
      BY <3>4, StartsAre
    <3> QED  BY <1>9, <1>13, <2>2, <3>3, <3>5
  <2> QED  BY <2>1, <2>2
<1>15. Placed(f) = Place(i)
  BY <1>6, <1>10, <1>11, <1>14 DEF Placed, Place
<1>16. IsFrame(f, i, i + 1, rec)
  <2>1. IsAscending(InOrder({}), {})
    BY BelowOrder, <1>2
  <2>2. Len(InOrder({})) = 0
    <3>1. Len(InOrder({})) \in Nat /\ \A n \in 1..Len(InOrder({})) : InOrder({})[n] \in {}
      BY <2>1 DEF IsAscending
    <3> HIDE DEF InOrder
    <3> QED  BY <3>1
  <2>3. Records(rec, {}) = <<>>
    BY <2>2 DEF Records
  <2> QED  BY <1>2, <1>15, <2>3 DEF IsFrame
<1>17. /\ \E X : Append(st, f) \in Seq(X)
       /\ Len(Append(st, f)) = Len(q) + 1
       /\ \A n \in 1..Len(q) : Append(st, f)[n] = st[n]
       /\ Append(st, f)[Len(q) + 1] = f
  <2>1. PICK X : st \in Seq(X)
    BY <1>12
  <2> DEFINE Y == X \cup {f}
  <2>2. st \in Seq(Y) /\ f \in Y
    BY <2>1
  <2> HIDE DEF Y
  <2> QED  BY <1>12, <2>2, AppendIs
<1>18. q \in Seq(Nat) /\ i \in Nat
  BY <1>6 DEF IsAscending
<1>19. /\ Len(Append(q, i)) = Len(q) + 1 /\ \A n \in 1..Len(q) : Append(q, i)[n] = q[n]
       /\ Append(q, i)[Len(q) + 1] = i
  BY <1>18
<1>20. \A n \in 1..(Len(q) + 1) : IsFrame(Append(st, f)[n], Append(q, i)[n], i + 1, rec)
  <2> TAKE n \in 1..(Len(q) + 1)
  <2>1. n \in 1..Len(q) \/ n = Len(q) + 1
    BY <1>9
  <2>2. CASE n \in 1..Len(q)
    <3>1. IsFrame(st[n], q[n], i, rec) /\ Ended(q[n], i + 1) = Ended(q[n], i)
      BY <1>2, <1>9, <1>12, <2>2
    <3> QED  BY <1>17, <1>19, <2>2, <3>1, FrameStays
  <2>3. CASE n = Len(q) + 1
    BY <1>16, <1>17, <1>19, <2>3
  <2> QED  BY <2>1, <2>2, <2>3
<1>21. li = Records(rec, Ended(0, i + 1))
  BY <1>2 DEF Stacks
<1>22. \A t \in Items : EndOf(t) < i + 1 => Told(t, rec)
  BY <1>3 DEF Stacks
<1>23. ls = [n \in 1..Len(OpenLists(i + 1)) |-> Events[OpenLists(i + 1)[n]].ordered]
  BY <1>4 DEF Stacks
<1> QED
  BY <1>5, <1>17, <1>19, <1>20, <1>21, <1>22, <1>23 DEF Stacks

Recorded(rec, t, child) == [x \in Items |-> IF x = t THEN child ELSE rec[x]]

\* With its record, what the record of an ended item tells stays.
LEMMA EndedTold ==
  ASSUME Nested, NEW i \in 1..Len(Events), NEW t, NEW p, Ends(t, p, i),
         NEW rec, \A x \in Items : EndOf(x) < i => Told(x, rec),
         NEW f, IsFrame(f, t, i, rec), NEW child, Placed(child) = Placed(f), Classed(t, child),
         child.type.kind = "task" => child.type.fully_complete = ~f.incomplete
  PROVE  \A x \in Items : EndOf(x) < i + 1 => Told(x, Recorded(rec, t, child))
<1> DEFINE rec2 == Recorded(rec, t, child)
<1>1. t \in Items /\ EndOf(t) = i
  BY AroundIs DEF Ends, Items
<1>2. rec2[t] = child /\ \A x \in Items : x # t => rec2[x] = rec[x]
  BY <1>1 DEF Recorded
<1> HIDE DEF rec2
<1>3. \A x \in Items : EndOf(x) < i + 1 <=> EndOf(x) < i \/ EndOf(x) = i
  BY StartsAre DEF Items
<1>4. \A x \in Items : EndOf(x) = i => x = t
  <2> SUFFICES ASSUME NEW x \in Items, EndOf(x) = i PROVE x = t
    OBVIOUS
  <2>1. x \in Around("start_item", i)
    BY StartsAre, AroundIs DEF Items
  <2> QED  BY <2>1 DEF Ends
<1>5. Told(t, rec2)
  <2>1. Inside(t) = Ended(t, i)
    BY InsideEnded DEF Ends
  <2>2. t \notin Ended(t, i) /\ Ended(t, i) \subseteq Items
    BY <1>1, StartsAre DEF Ended, Items
  <2>3. Placed(f) = Place(t) /\ f.incomplete \in BOOLEAN
        /\ (f.incomplete <=> \E u \in Ended(t, i) : Incomplete(rec[u]))
    BY DEF IsFrame
  <2>4. \A u \in Inside(t) : rec2[u] = rec[u]
    BY <1>2, <2>1, <2>2
  <2>5. f.incomplete <=> \E u \in Inside(t) : Incomplete(rec2[u])
    BY <2>1, <2>3, <2>4
  <2>6. Placed(rec2[t]) = Place(t)
    BY <1>2, <2>3
  <2>7. child.type.kind = "task" =>
          /\ child.type.fully_complete \in BOOLEAN
          /\ child.type.fully_complete <=> ~f.incomplete
    BY <2>3
  <2> QED  BY <1>2, <2>5, <2>6, <2>7 DEF Told
<1>6. ASSUME NEW x \in Items, EndOf(x) < i PROVE Told(x, rec2)
  <2>1. x # t
    BY <1>1, <1>6
  <2>2. t \notin Inside(x)
    <3>1. t < EndOf(x) /\ x < t => EndOf(t) < EndOf(x)
      BY <1>1, StartsAre DEF Items
    <3> QED  BY <1>1, <1>6, <3>1, StartsAre DEF Inside, Items
  <2>3. \A u \in Inside(x) : rec2[u] = rec[u]
    BY <1>2, <2>2 DEF Inside
  <2> QED  BY <1>2, <1>6, <2>1, <2>3 DEF Told
<1> QED
  BY <1>3, <1>4, <1>5, <1>6 DEF rec2

\* What has ended below an open item, when an item ends.
LEMMA EndedBelow ==
  ASSUME Nested, NEW i \in 1..Len(Events), NEW t, NEW p, Ends(t, p, i), NEW rec, NEW child
  PROVE  /\ \A s : (s \in Around("start_item", i + 1) \/ s = 0) /\ s # p =>
              /\ Ended(s, i + 1) = Ended(s, i)
              /\ Records(Recorded(rec, t, child), Ended(s, i + 1)) = Records(rec, Ended(s, i))
         /\ \A s, x : x \in Ended(s, i) => Recorded(rec, t, child)[x] = rec[x]
         /\ Ended(p, i + 1) = (Ended(p, i) \cup {t}) \cup Ended(t, i)
         /\ Records(Recorded(rec, t, child), Ended(p, i + 1)) =
              (Records(rec, Ended(p, i)) \o <<child>>) \o Records(rec, Ended(t, i))
<1> DEFINE rec2 == Recorded(rec, t, child)
<1>1. t \in Items /\ EndOf(t) = i
  BY AroundIs DEF Ends, Items
<1>2. rec2[t] = child /\ \A x \in Items : x # t => rec2[x] = rec[x]
  BY <1>1 DEF Recorded
<1> HIDE DEF rec2
<1>3. \A s, x : x \in Ended(s, i) => x \in Items /\ x # t
  BY <1>1, StartsAre DEF Ended, Items
<1>4. \A s, x : x \in Ended(s, i) => rec2[x] = rec[x]
  BY <1>2, <1>3
<1>5. \A s : Records(rec2, Ended(s, i)) = Records(rec, Ended(s, i))
  <2> TAKE s
  <2>1. IsAscending(InOrder(Ended(s, i)), Ended(s, i))
    BY BelowOrder
  <2>2. \A x \in Ended(s, i) : rec2[x] = rec[x]
    BY <1>4
  <2> QED  BY <2>1, <2>2, RecordsSame
<1>6. /\ \A s \in (Around("start_item", i) \ {t}) \cup {0} :
            s # p => Ended(s, i + 1) = Ended(s, i)
      /\ Ended(p, i + 1) = (Ended(p, i) \cup {t}) \cup Ended(t, i)
      /\ \A x \in Ended(p, i) : x < t
      /\ \A x \in Ended(t, i) : t < x
  BY BelowEnd
<1>7. Ended(p, i) \subseteq 1..Len(Events) /\ Ended(t, i) \subseteq 1..Len(Events) /\ t \in 1..Len(Events)
  BY <1>1, BelowOrder, StartsAre DEF Items, Nested
<1>8. Records(rec2, Ended(p, i + 1)) =
        (Records(rec2, Ended(p, i)) \o <<rec2[t]>>) \o Records(rec2, Ended(t, i))
  <2>1. Beside(Ended(p, i), t, Ended(t, i), Ended(p, i + 1))
    BY <1>6, <1>7 DEF Beside
  <2>2. Records(rec2, Ended(p, i + 1)) = Strung(rec2, Ended(p, i), t, Ended(t, i))
    BY <2>1, RecordsConcat
  <2> QED  BY ONLY <2>2 DEF Strung
<1>9. \A s : (s \in Around("start_item", i + 1) \/ s = 0) /\ s # p =>
              /\ Ended(s, i + 1) = Ended(s, i)
              /\ Records(rec2, Ended(s, i + 1)) = Records(rec, Ended(s, i))
  BY <1>5, <1>6 DEF Ends
<1> QED
  BY <1>2, <1>4, <1>5, <1>6, <1>8, <1>9 DEF rec2

LEMMA FrameRecorded ==
  ASSUME NEW f, NEW s, NEW i, NEW k, NEW rec, NEW rec2, IsFrame(f, s, i, rec),
         Ended(s, k) = Ended(s, i), Records(rec2, Ended(s, k)) = Records(rec, Ended(s, i)),
         \A x : x \in Ended(s, i) => rec2[x] = rec[x]
  PROVE  IsFrame(f, s, k, rec2)
BY DEF IsFrame

LEMMA FrontIs ==
  ASSUME NEW X, NEW a \in Seq(X), Len(a) # 0
  PROVE  /\ Front(a) \in Seq(X) /\ Len(Front(a)) = Len(a) - 1
         /\ \A n \in 1..(Len(a) - 1) : Front(a)[n] = a[n]
<1> DEFINE m == Len(a) - 1
<1>1. m \in Nat /\ Len(a) = m + 1 /\ \A n \in 1..m : a[n] \in X
  OBVIOUS
<1>2. Front(a) = [n \in 1..m |-> a[n]]
  BY <1>1 DEF Front
<1> HIDE DEF m
<1>3. Front(a) \in Seq(X) /\ Len(Front(a)) = m
  BY <1>1, <1>2
<1>4. \A n \in 1..m : Front(a)[n] = a[n]
  BY <1>2
<1> QED
  BY <1>1, <1>3, <1>4 DEF m

\* What an item learns from one that ends in it (ListItemFrame::observe_child).
LEMMA ObserveFrame ==
  ASSUME Nested, NEW i \in 1..Len(Events), NEW t, NEW p, Ends(t, p, i), NEW rec,
         NEW f, IsFrame(f, t, i, rec), NEW child,
         NEW h, IsFrame(h, p, i, rec)
  PROVE  IsFrame(ObserveChild(h, child, f.descendants, f.incomplete), p, i + 1, Recorded(rec, t, child))
<1> DEFINE rec2 == Recorded(rec, t, child)
           g == ObserveChild(h, child, f.descendants, f.incomplete)
<1>1. /\ \A s, x : x \in Ended(s, i) => rec2[x] = rec[x]
      /\ Ended(p, i + 1) = (Ended(p, i) \cup {t}) \cup Ended(t, i)
      /\ Records(rec2, Ended(p, i + 1)) =
              (Records(rec, Ended(p, i)) \o <<child>>) \o Records(rec, Ended(t, i))
  BY SMTT(90), EndedBelow
<1>2. rec2[t] = child
  <2>1. t \in Items
    BY AroundIs DEF Ends, Items
  <2> QED  BY <2>1 DEF Recorded
<1>3. /\ DOMAIN h = FrameKeys /\ Placed(h) = Place(p)
      /\ h.descendants = Records(rec, Ended(p, i)) /\ f.descendants = Records(rec, Ended(t, i))
      /\ h.incomplete \in BOOLEAN /\ f.incomplete \in BOOLEAN
      /\ h.incomplete <=> \E u \in Ended(p, i) : Incomplete(rec[u])
      /\ f.incomplete <=> \E u \in Ended(t, i) : Incomplete(rec[u])
  BY DEF IsFrame
<1> HIDE DEF rec2
<1> DEFINE d == (h.descendants \o <<child>>) \o f.descendants
           y == h.incomplete \/ Incomplete(child) \/ f.incomplete
<1>4. g = [h EXCEPT !.incomplete = y, !.descendants = d]
  BY DEF ObserveChild, Incomplete
<1>5. d = Records(rec2, Ended(p, i + 1))
  BY <1>1, <1>3
<1>6. y \in BOOLEAN /\ (y <=> \E u \in Ended(p, i + 1) : Incomplete(rec2[u]))
  <2>1. \A u \in Ended(p, i) : rec2[u] = rec[u]
    BY <1>1
  <2>2. \A u \in Ended(t, i) : rec2[u] = rec[u]
    BY <1>1
  <2>3. y <=> \/ \E u \in Ended(p, i) : Incomplete(rec2[u])
              \/ Incomplete(rec2[t])
              \/ \E u \in Ended(t, i) : Incomplete(rec2[u])
    BY <1>2, <1>3, <2>1, <2>2
  <2>4. \A u : u \in Ended(p, i + 1) <=> u \in Ended(p, i) \/ u = t \/ u \in Ended(t, i)
    BY <1>1
  <2>5. y \in BOOLEAN
    BY <1>3 DEF Incomplete
  <2> QED  BY <2>3, <2>4, <2>5, Zenon
<1> HIDE DEF d, y, g
<1>7. /\ DOMAIN g = FrameKeys /\ g.incomplete = y /\ g.descendants = d
      /\ g.line = h.line /\ g.depth = h.depth /\ g.parent = h.parent /\ g.ordered = h.ordered
  BY <1>3, <1>4 DEF FrameKeys
<1>8. Placed(g) = Place(p)
  BY <1>3, <1>7 DEF Placed
<1> QED
  BY <1>5, <1>6, <1>7, <1>8 DEF IsFrame, g, rec2

\* An item that ends comes below the item around it, or at the end of the
\* lists of the note, and what has ended in it after it (ListTracker::end_item).
LEMMA EndItemKeeps ==
  ASSUME Nested, NEW i \in 1..Len(Events), Events[i].kind = "end_item",
         NEW ls, NEW st, NEW li, NEW rec, Stacks(ls, st, li, i, rec),
         NEW f, SameCore(f, Last(st)), NEW child, Placed(child) = Placed(f),
         \A x \in Items : EndOf(x) = i => Classed(x, child),
         child.type.kind = "task" => child.type.fully_complete = ~f.incomplete,
         NEW st2, NEW li2,
         Len(st) > 1 => /\ st2 = Append(Front(Front(st)),
                                   ObserveChild(Last(Front(st)), child, f.descendants, f.incomplete))
                        /\ li2 = li,
         ~(Len(st) > 1) => st2 = <<>> /\ li2 = (li \o <<child>>) \o f.descendants
  PROVE  \E rec2 : Stacks(ls, st2, li2, i + 1, rec2)
<1>1. PICK t \in Around("start_item", i) :
        /\ EndOf(t) = i
        /\ \A j \in Around("start_item", i) : j # t => j < t /\ i < EndOf(j)
        /\ Around("start_item", i + 1) = Around("start_item", i) \ {t}
  BY AroundEnd DEF Closing
<1> DEFINE q == OpenItems(i)
           r == OpenItems(i + 1)
           p == Max(Around("start_item", i + 1) \cup {0})
           rec2 == Recorded(rec, t, child)
<1>2. OpenLists(i + 1) = OpenLists(i)
  BY AroundQuiet DEF Closing, OpenLists
<1>3. q = Append(r, t)
  <2>1. /\ Around("start_item", i + 1) \subseteq 1..Len(Events) /\ t \in 1..Len(Events)
        /\ \A x \in Around("start_item", i + 1) : x < t
    BY <1>1, AroundOrder
  <2>2. Around("start_item", i) = Around("start_item", i + 1) \cup {t}
    BY <1>1
  <2> QED  BY <2>1, <2>2, InOrderAppend DEF OpenItems
<1>4. IsAscending(r, Around("start_item", i + 1)) /\ t \in Nat
  BY AroundOrder DEF OpenItems, Nested
<1> HIDE DEF q, r
<1>5. /\ Len(r) \in Nat /\ \A n \in 1..Len(r) : r[n] \in Nat /\ r[n] \in Around("start_item", i + 1)
      /\ Len(r) # 0 => p = r[Len(r)]
      /\ Len(r) = 0 => Around("start_item", i + 1) = {} /\ p = 0
      /\ r \in Seq(Nat)
      /\ \A m, n \in 1..Len(r) : m < n => r[m] < r[n]
  <2> DEFINE S == Around("start_item", i + 1)
  <2>0. IsAscending(r, S)
    BY <1>4
  <2>1. /\ Len(r) \in Nat /\ \A n \in 1..Len(r) : r[n] \in Nat /\ r[n] \in S
        /\ Len(r) # 0 => Max(S \cup {0}) = Last(r)
        /\ Len(r) = 0 => S = {} /\ Max(S \cup {0}) = 0
    BY ONLY <2>0, LastIsMax
  <2>2. r \in Seq(Nat) /\ \A m, n \in 1..Len(r) : m < n => r[m] < r[n]
    BY <2>0 DEF IsAscending
  <2> QED  BY <2>1, <2>2 DEF Last
<1>6. \A j \in Around("start_item", i + 1) : j <= p
  <2>1. \A j \in Around("start_item", i + 1) : \E n \in 1..Len(r) : r[n] = j
    BY <1>4 DEF IsAscending
  <2>2. \A n \in 1..Len(r) : r[n] <= p
    <3> TAKE n \in 1..Len(r)
    <3>1. n < Len(r) \/ n = Len(r)
      BY <1>5
    <3>2. Len(r) \in 1..Len(r) /\ Len(r) # 0
      BY <1>5
    <3>3. p = r[Len(r)] /\ r[n] \in Nat /\ p \in Nat
      BY <1>5, <3>2
    <3>4. n < Len(r) => r[n] < r[Len(r)]
      BY <1>5, <3>2
    <3> QED  BY ONLY <3>1, <3>3, <3>4
  <2> QED  BY <2>1, <2>2
<1>7. p \in Around("start_item", i + 1) \cup {0}
  <2>1. Len(r) # 0 => Len(r) \in 1..Len(r)
    BY <1>5
  <2> QED  BY <1>5, <2>1
<1> HIDE DEF p
<1>8. Ends(t, p, i)
  BY <1>1, <1>6, <1>7 DEF Ends
<1>9. /\ Len(q) = Len(r) + 1 /\ \A n \in 1..Len(r) : q[n] = r[n]
      /\ q[Len(r) + 1] = t
  BY <1>3, <1>4, <1>5
<1>10. /\ \E X : st \in Seq(X)
       /\ Len(st) = Len(r) + 1
       /\ \A n \in 1..Len(q) : IsFrame(st[n], q[n], i, rec)
  BY <1>9 DEF Stacks, q
<1>11. IsFrame(f, t, i, rec)
  <2>1. Len(r) + 1 \in 1..Len(q)
    BY <1>5, <1>9
  <2>2. IsFrame(Last(st), t, i, rec)
    BY <1>9, <1>10, <2>1 DEF Last
  <2> QED  BY <2>2, SameFrame
<1>12. /\ \A s : (s \in Around("start_item", i + 1) \/ s = 0) /\ s # p =>
              /\ Ended(s, i + 1) = Ended(s, i)
              /\ Records(rec2, Ended(s, i + 1)) = Records(rec, Ended(s, i))
       /\ \A s, x : x \in Ended(s, i) => rec2[x] = rec[x]
       /\ Records(rec2, Ended(p, i + 1)) =
              (Records(rec, Ended(p, i)) \o <<child>>) \o Records(rec, Ended(t, i))
  BY <1>8, EndedBelow
<1>13. \A x \in Items : EndOf(x) < i + 1 => Told(x, rec2)
  <2>1. \A x \in Items : EndOf(x) < i => Told(x, rec)
    BY DEF Stacks
  <2>2. Classed(t, child)
    BY <1>1, AroundIs DEF Items
  <2> QED  BY <1>8, <1>11, <2>1, <2>2, EndedTold
<1> HIDE DEF rec2
<1>14. ls = [n \in 1..Len(OpenLists(i + 1)) |-> Events[OpenLists(i + 1)[n]].ordered]
  BY <1>2 DEF Stacks
<1>15. li = Records(rec, Ended(0, i))
  BY DEF Stacks
<1>16. CASE Len(r) = 0
  <2>0. ~(Len(st) > 1)
    BY <1>10, <1>16
  <2>1. st2 = <<>> /\ li2 = (li \o <<child>>) \o f.descendants
    BY <2>0, Zenon
  <2>2. f.descendants = Records(rec, Ended(t, i)) /\ p = 0
    BY <1>5, <1>11, <1>16 DEF IsFrame
  <2>3. li2 = Records(rec2, Ended(0, i + 1))
    BY <1>12, <1>15, <2>1, <2>2
  <2>4. (\E X : st2 \in Seq(X)) /\ Len(st2) = Len(r)
        /\ \A n \in 1..Len(r) : IsFrame(st2[n], r[n], i + 1, rec2)
    BY <1>16, <2>1
  <2>5. Stacks(ls, st2, li2, i + 1, rec2)
    BY <1>13, <1>14, <2>3, <2>4 DEF Stacks, r
  <2> QED  BY <2>5
<1>17. CASE Len(r) # 0
  <2> DEFINE k == Len(r)
             h == Last(Front(st))
             g == ObserveChild(h, child, f.descendants, f.incomplete)
  <2>0. k \in Nat /\ k # 0 /\ k \in 1..Len(q) /\ Len(st) = k + 1 /\ r[k] = p /\ k \in 1..k
    BY <1>5, <1>9, <1>10, <1>17
  <2>1. PICK X : st \in Seq(X)
    BY <1>10
  <2>2. Front(st) \in Seq(X) /\ Len(Front(st)) = k /\ \A n \in 1..k : Front(st)[n] = st[n]
    <3>1. Len(st) # 0 /\ Len(st) - 1 = k
      BY <2>0
    <3> QED  BY <2>1, <3>1, FrontIs
  <2> DEFINE a == Front(Front(st))
  <2>3. a \in Seq(X) /\ Len(a) = k - 1 /\ \A n \in 1..(k - 1) : a[n] = st[n]
    <3>1. /\ a \in Seq(X) /\ Len(a) = Len(Front(st)) - 1
          /\ \A n \in 1..(Len(Front(st)) - 1) : a[n] = Front(st)[n]
      BY <2>0, <2>2, FrontIs
    <3> QED  BY <2>0, <2>2, <3>1
  <2>4. h = st[k]
    BY <2>0, <2>2 DEF Last
  <2>5. st2 = Append(a, g) /\ li2 = li
    BY <2>0
  <2> HIDE DEF a, h
  <2>6. IsFrame(h, p, i, rec)
    BY <1>9, <1>10, <2>0, <2>4
  <2>7. IsFrame(g, p, i + 1, rec2)
    BY <1>8, <1>11, <2>6, ObserveFrame DEF rec2
  <2> DEFINE Y == X \cup {g}
  <2>8. a \in Seq(Y) /\ g \in Y
    BY <2>3
  <2> HIDE DEF Y, g
  <2>9. /\ st2 \in Seq(Y) /\ Len(st2) = k
        /\ \A n \in 1..(k - 1) : st2[n] = st[n]
        /\ st2[k] = g
    <3>1. /\ Append(a, g) \in Seq(Y) /\ Len(Append(a, g)) = Len(a) + 1
          /\ \A n \in 1..Len(a) : Append(a, g)[n] = a[n]
          /\ Append(a, g)[Len(a) + 1] = g
      BY ONLY <2>8, AppendIs
    <3> QED  BY <2>0, <2>3, <2>5, <3>1
  <2>10. \A n \in 1..k : IsFrame(st2[n], r[n], i + 1, rec2)
    <3> TAKE n \in 1..k
    <3>1. n = k \/ n \in 1..(k - 1)
      BY <2>0
    <3>2. CASE n = k
      BY <2>0, <2>7, <2>9, <3>2
    <3>3. CASE n \in 1..(k - 1)
      <4>1. n \in 1..Len(q) /\ n < k /\ n \in 1..k
        BY <1>9, <2>0, <3>3
      <4>2. r[n] # p /\ r[n] \in Around("start_item", i + 1)
        <5>1. r[n] \in Nat /\ r[n] \in Around("start_item", i + 1)
          BY <1>5, <4>1
        <5>2. r[n] < r[k]
          BY <1>5, <2>0, <4>1
        <5> QED  BY <2>0, <5>1, <5>2
      <4>3. /\ Ended(r[n], i + 1) = Ended(r[n], i)
            /\ Records(rec2, Ended(r[n], i + 1)) = Records(rec, Ended(r[n], i))
        BY <1>1, <1>12, <4>2
      <4>4. IsFrame(st[n], r[n], i, rec)
        BY <1>9, <1>10, <4>1
      <4>5. \A x : x \in Ended(r[n], i) => rec2[x] = rec[x]
        BY <1>12
      <4>6. IsFrame(st[n], r[n], i + 1, rec2)
        BY ONLY <4>3, <4>4, <4>5, FrameRecorded
      <4> QED  BY <2>9, <3>3, <4>6
    <3> QED  BY <3>1, <3>2, <3>3
  <2>11. li2 = Records(rec2, Ended(0, i + 1))
    <3>1. p # 0
      <4>1. p \in Around("start_item", i + 1)
        BY <1>5, <2>0
      <4>2. p \in Positions("start_item")
        BY <4>1, AroundIs
      <4> QED  BY <4>2, StartsAre
    <3> QED  BY <1>12, <1>15, <2>5, <3>1
  <2>12. Stacks(ls, st2, li2, i + 1, rec2)
    BY <1>13, <1>14, <2>9, <2>10, <2>11 DEF Stacks, r
  <2> QED  BY <2>12
<1> QED
  BY <1>16, <1>17

-----------------------------------------------------------------------------
(* A step of the parser keeps the note it reads *)

LEMMA PlaceStays ==
  ASSUME input' = input
  PROVE  /\ \A kind, i : Around(kind, i)' = Around(kind, i)
         /\ \A i : EndOf(i)' = EndOf(i)
         /\ Items' = Items /\ Events' = Events
         /\ \A s, i : Ended(s, i)' = Ended(s, i)
         /\ \A s : Place(s)' = Place(s)
         /\ \A s : Inside(s)' = Inside(s)
         /\ \A S : InOrder(S)' = InOrder(S)
<1>1. /\ \A kind, i : Around(kind, i)' = Around(kind, i)
      /\ \A i : EndOf(i)' = EndOf(i)
      /\ Events' = Events
      /\ \A kind : Positions(kind)' = Positions(kind)
      /\ \A S : InOrder(S)' = InOrder(S)
  BY DEF Around, EndOf, Events, Positions, InOrder
<1>2. Items' = Items
  BY <1>1 DEF Items
<1> QED
  BY <1>1, <1>2 DEF Ended, Place, Owner, Inside

LEMMA FrameNext ==
  ASSUME input' = input, NEW f, NEW s, NEW i, NEW rec
  PROVE  (IsFrame(f, s, i, rec) <=> IsFrame(f, s, i, rec)')
<1>1. Records(rec, Ended(s, i))' = Records(rec, Ended(s, i))
  BY PlaceStays DEF Records
<1>2. (\E u \in Ended(s, i) : Incomplete(rec[u]))' <=> \E u \in Ended(s, i) : Incomplete(rec[u])
  BY PlaceStays
<1>3. Place(s)' = Place(s)
  BY PlaceStays
<1> QED
  BY <1>1, <1>2, <1>3 DEF IsFrame

LEMMA LineStays ==
  ASSUME input' = input, NEW s
  PROVE  /\ LeadFrom(s)' = LeadFrom(s) /\ LeadEnd(s)' = LeadEnd(s)
         /\ \A j, k : TextOf(j, k)' = TextOf(j, k)
         /\ LeadText(s)' = LeadText(s) /\ LeadRest(s)' = LeadRest(s)
         /\ IsSettled(s)' <=> IsSettled(s)
         /\ IsMarked(s)' <=> IsMarked(s)
<1>1. Events' = Events
  BY PlaceStays
<1>2. \A j, kind : Is(j, kind)' <=> Is(j, kind)
  BY <1>1 DEF Is
<1>3. LeadFrom(s)' = LeadFrom(s)
  BY <1>2 DEF LeadFrom
<1>4. LeadEnd(s)' = LeadEnd(s)
  BY <1>1, <1>2, <1>3 DEF LeadEnd
<1>5. \A j, k : TextOf(j, k)' = TextOf(j, k)
  BY <1>1 DEF TextOf
<1>6. LeadText(s)' = LeadText(s)
  BY <1>3, <1>4, <1>5 DEF LeadText
<1>7. /\ IsSettled(s)' <=> IsSettled(s)
      /\ IsMarked(s)' <=> IsMarked(s)
  BY <1>1, <1>4, <1>6 DEF IsSettled, IsMarked
<1>8. LeadRest(s)' = LeadRest(s)
  BY <1>6, <1>7 DEF LeadRest
<1> QED
  BY <1>3, <1>4, <1>5, <1>6, <1>7, <1>8

LEMMA WrittenStays ==
  ASSUME input' = input
  PROVE  /\ DOMAIN Events' = DOMAIN Events
         /\ \A i : Owner(i)' = Owner(i)
         /\ \A i : BlockAt(i)' = BlockAt(i)
         /\ \A i : LinkStart(i)' = LinkStart(i)
         /\ \A i : Written(i)' = Written(i)
         /\ \A i : IsScanned(i)' <=> IsScanned(i)
         /\ \A t, i : Joined(t, i)' = Joined(t, i)
         /\ \A s : EventsOf(s)' = EventsOf(s)
<1>1. Events' = Events
  BY PlaceStays
<1>2. \A i : Owner(i)' = Owner(i)
  BY PlaceStays DEF Owner
<1>3. \A i : BlockAt(i)' = BlockAt(i)
  BY <1>1 DEF BlockAt
<1>4. \A i : LinkStart(i)' = LinkStart(i)
  BY <1>1 DEF LinkStart, Positions
<1>5. \A i, kind : Is(i, kind)' <=> Is(i, kind)
  BY <1>1 DEF Is
<1>6. ASSUME NEW i PROVE Written(i)' = Written(i)
  BY <1>1, <1>3, <1>4, <1>5 DEF Written
<1>7. \A i : IsScanned(i)' <=> IsScanned(i)
  BY <1>2, <1>5 DEF IsScanned
<1>8. ASSUME NEW t, NEW i PROVE Joined(t, i)' = Joined(t, i)
  BY <1>1, <1>2, <1>3, <1>6, <1>7 DEF Joined
<1>9. \A s : EventsOf(s)' = EventsOf(s)
  BY <1>1, <1>2 DEF EventsOf
<1> QED
  BY <1>1, <1>2, <1>3, <1>4, <1>6, <1>7, <1>8, <1>9

LEMMA UnscannedStays ==
  ASSUME input' = input, NEW s, NEW i
  PROVE  Unscanned(s, i)' = Unscanned(s, i)
BY SMTT(90) DEF Unscanned, Joined, IsScanned, Is, Written, BlockAt, LinkStart, Positions, Owner, Around,
       LeadEnd, LeadRest, LeadFrom, LeadText, TextOf, IsMarked, Events

LEMMA GatheredStays ==
  ASSUME input' = input, NEW S, NEW i
  PROVE  Gathered(S, i)' = Gathered(S, i)
BY DEF Gathered, Joining, Found, Unscanned, Joined, IsScanned, Is, Written, BlockAt, LinkStart, Positions, Owner,
       Around, LeadEnd, LeadRest, LeadFrom, LeadText, TextOf, IsMarked, Events

LEMMA ToldNext ==
  ASSUME input' = input, NEW t, NEW rec
  PROVE  Told(t, rec) <=> Told(t, rec)'
<1>1. Place(t)' = Place(t) /\ Inside(t)' = Inside(t)
  BY PlaceStays
<1>2. Classed(t, rec[t])' <=> Classed(t, rec[t])
  <2>1. Winning("tag_filters")' = Winning("tag_filters")
    BY DEF Winning
  <2>2. HasFiltered(rec[t])' <=> HasFiltered(rec[t])
    BY <2>1 DEF HasFiltered
  <2>3. \A c : StatusOf(c)' = StatusOf(c)
    BY DEF StatusOf, Winning
  <2>4. OfItem(t)' = OfItem(t)
    BY PlaceStays, WrittenStays, GatheredStays DEF OfItem
  <2>5. Finds(t, rec[t])' <=> Finds(t, rec[t])
    BY <2>4, LineStays DEF Finds
  <2> QED  BY <2>2, <2>3, <2>5, LineStays DEF Classed
<1> QED
  BY <1>1, <1>2 DEF Told

LEMMA StacksNext ==
  ASSUME input' = input, NEW rec, Stacks(listStack', itemStack', lists', at', rec)
  PROVE  Stacks(listStack, itemStack, lists, at, rec)'
<1> PICK k, ls, st, li, q : /\ k = at' /\ ls = listStack' /\ st = itemStack' /\ li = lists'
                            /\ q = OpenItems(k)
  OBVIOUS
<1>1. OpenLists(at)' = OpenLists(k) /\ OpenItems(at)' = q
  BY PlaceStays DEF OpenLists, OpenItems
<1>2. Events' = Events
  BY PlaceStays
<1>3. \A n \in 1..Len(q) : IsFrame(st[n], q[n], k, rec)'
  BY FrameNext DEF Stacks
<1>4. \A n \in 1..Len(q) : IsFrame(itemStack[n], OpenItems(at)[n], at, rec)'
  BY <1>1, <1>3 DEF IsFrame
<1>5. (Records(rec, Ended(0, at)))' = Records(rec, Ended(0, k))
  BY PlaceStays DEF Records
<1>6. (\A t \in Items : EndOf(t) < at => Told(t, rec))'
  BY PlaceStays, ToldNext DEF Stacks
<1> QED
  BY <1>1, <1>2, <1>4, <1>5, <1>6 DEF Stacks

-----------------------------------------------------------------------------
(* What a step does to a frame *)

IsKeyed(f) == DOMAIN f = FrameKeys

IsKeyedStack(st) == (\E X : st \in Seq(X)) /\ \A n \in 1..Len(st) : IsKeyed(st[n])

SameStack(st2, st) ==
  IsKeyedStack(st2) /\ Len(st2) = Len(st) /\ \A n \in 1..Len(st) : SameCore(st2[n], st[n])

LEMMA SameCoreChains ==
  ASSUME NEW f, NEW g, NEW h, SameCore(g, f), SameCore(h, g)
  PROVE  SameCore(h, f)
BY DEF SameCore

LEMMA WriteKeeps ==
  ASSUME NEW f, IsKeyed(f), NEW t, NEW hidden
  PROVE  IsKeyed(Write(f, t, hidden)) /\ SameCore(Write(f, t, hidden), f)
BY DEF IsKeyed, FrameKeys, Write, SameCore

LEMMA AfterKeeps ==
  ASSUME NEW f, IsKeyed(f), NEW step, NEW hidden
  PROVE  IsKeyed(After(f, step, hidden)) /\ SameCore(After(f, step, hidden), f)
<1> DEFINE g == [f EXCEPT !.marker = step.marker]
<1>1. IsKeyed(g) /\ SameCore(g, f)
  BY DEF IsKeyed, FrameKeys, SameCore
<1> HIDE DEF g
<1> DEFINE h == Write(g, step.flushed, FALSE)
<1>2. IsKeyed(h) /\ SameCore(h, g)
  BY <1>1, WriteKeeps
<1> HIDE DEF h
<1>3. IsKeyed(Write(h, step.rest, hidden)) /\ SameCore(Write(h, step.rest, hidden), h)
  BY <1>2, WriteKeeps
<1> QED
  BY <1>1, <1>2, <1>3, SameCoreChains DEF After, g, h

LEMMA MarkerStepsKeep ==
  ASSUME NEW f, IsKeyed(f)
  PROVE  /\ \A t, hidden : IsKeyed(PushItemText(f, t, hidden)) /\ SameCore(PushItemText(f, t, hidden), f)
         /\ IsKeyed(Reject(f)) /\ SameCore(Reject(f), f)
         /\ IsKeyed(ResolvePending(f)) /\ SameCore(ResolvePending(f), f)
BY AfterKeeps DEF PushItemText, Reject, ResolvePending

LEMMA SeparateKeeps ==
  ASSUME NEW f, IsKeyed(f)
  PROVE  IsKeyed(SeparateBlock(f)) /\ SameCore(SeparateBlock(f), f)
BY DEF IsKeyed, FrameKeys, SeparateBlock, SameCore

LEMMA ScanKeeps ==
  ASSUME NEW f, IsKeyed(f), NEW s
  PROVE  IsKeyed([f EXCEPT !.scan = s]) /\ SameCore([f EXCEPT !.scan = s], f)
BY DEF IsKeyed, FrameKeys, SameCore

LEMMA FlushKeeps ==
  ASSUME NEW f, IsKeyed(f)
  PROVE  IsKeyed(Flush(f).item) /\ SameCore(Flush(f).item, f)
<1> DEFINE g == ResolvePending(f)
           found == ScanMetadata(g.scan, g.marker.symbol # NoMarker)
<1>1. IsKeyed(g) /\ SameCore(g, f)
  BY MarkerStepsKeep
<1>2. Flush(f) = Scanned(g, found)
  BY DEF Flush, FlushResolved
<1> HIDE DEF g, found
<1> DEFINE h == [g EXCEPT !.scan = <<>>, !.fields = @ \o found.fields, !.tags = @ \o found.tags]
<1>3. Flush(f).item = h
  BY <1>2 DEF Scanned
<1>4. IsKeyed(h) /\ SameCore(h, g)
  BY <1>1 DEF IsKeyed, FrameKeys, SameCore
<1> QED
  BY <1>1, <1>3, <1>4, SameCoreChains

\* A step of the innermost open item leaves the others alone.
LEMMA StepKeeps ==
  ASSUME NEW st, IsKeyedStack(st), NEW g, st # <<>> => IsKeyed(g) /\ SameCore(g, Last(st)),
         NEW st2, st2 = IF st # <<>> THEN Append(Front(st), g) ELSE st
  PROVE  SameStack(st2, st)
<1>1. PICK X : st \in Seq(X)
  BY DEF IsKeyedStack
<1>2. CASE st = <<>>
  BY <1>2 DEF SameStack, IsKeyedStack
<1>3. CASE st # <<>>
  <2> DEFINE a == Front(st)
             k == Len(st) - 1
             Y == X \cup {g}
  <2>1. Len(st) # 0 /\ k \in Nat /\ Len(st) = k + 1
    BY SMTT(90), <1>1, <1>3
  <2>2. a \in Seq(X) /\ Len(a) = k /\ \A n \in 1..k : a[n] = st[n]
    BY ZenonT(90), <1>1, <2>1, FrontIs
  <2>3. a \in Seq(Y) /\ g \in Y
    BY <2>2
  <2>4. st2 = Append(a, g)
    BY <1>3
  <2>5. Last(st) = st[k + 1]
    BY <2>1 DEF Last
  <2> HIDE DEF a, k, Y
  <2>6. /\ Append(a, g) \in Seq(Y) /\ Len(Append(a, g)) = Len(a) + 1
        /\ \A n \in 1..Len(a) : Append(a, g)[n] = a[n]
        /\ Append(a, g)[Len(a) + 1] = g
    BY ONLY <2>3, AppendIs
  <2>7. /\ st2 \in Seq(Y) /\ Len(st2) = k + 1 /\ \A n \in 1..k : st2[n] = st[n]
        /\ st2[k + 1] = g
    BY <2>2, <2>4, <2>6
  <2>8. \A n \in 1..(k + 1) : IsKeyed(st2[n]) /\ SameCore(st2[n], st[n])
    <3> TAKE n \in 1..(k + 1)
    <3>1. n = k + 1 \/ n \in 1..k
      BY <2>1
    <3>2. CASE n = k + 1
      BY <1>3, <2>5, <2>7, <3>2
    <3>3. CASE n \in 1..k
      <4>1. IsKeyed(st[n])
        BY <2>1 DEF IsKeyedStack
      <4>2. SameCore(st[n], st[n])
        BY DEF SameCore
      <4> QED  BY <2>7, <3>3, <4>1, <4>2
    <3> QED  BY <3>1, <3>2, <3>3
  <2> QED  BY <2>1, <2>7, <2>8 DEF SameStack, IsKeyedStack
<1> QED
  BY <1>2, <1>3

LEMMA SameStackChains ==
  ASSUME NEW st, NEW st2, NEW st3, SameStack(st2, st), SameStack(st3, st2)
  PROVE  SameStack(st3, st)
BY SameCoreChains DEF SameStack

LEMMA SameStackSame ==
  ASSUME NEW st, IsKeyedStack(st)
  PROVE  SameStack(st, st)
BY DEF SameStack, SameCore

\* An open item has a frame, and it is the last one on the stack.
LEMMA LastKeyed ==
  ASSUME NEW st, IsKeyedStack(st), st # <<>>
  PROVE  IsKeyed(Last(st))
<1>1. Len(st) \in 1..Len(st)
  BY DEF IsKeyedStack
<1> QED
  BY <1>1 DEF IsKeyedStack, Last

-----------------------------------------------------------------------------
(* What a text is to the marker that may lead it *)
(* The marker of an item *)

\* A text that is a marker, or the beginning of one.
Forms(t) ==
  /\ Len(t) >= 1 /\ t[1] = "["
  /\ Len(t) >= 2 => IsSymbol(t[2])
  /\ Len(t) >= 3 => t[3] = "]"
  /\ Len(t) >= 4 => t[4] \in White

\* A text that is held back, and what holds it.
IsHeld(t) == t = <<>> \/ (Forms(t) /\ Len(t) < 4)
Holding(t) == [decided |-> FALSE, symbol |-> NoMarker, held |-> t]
Chose(symbol) == [decided |-> TRUE, symbol |-> symbol, held |-> <<>>]

LEMMA ScanIs ==
  ASSUME NEW t \in Seq(Characters)
  PROVE  /\ ScanMarkerPrefix(t) = "rejected" <=> ~Forms(t)
         /\ ScanMarkerPrefix(t) = "complete" <=> Forms(t) /\ Len(t) >= 4
         /\ ScanMarkerPrefix(t) = "incomplete" <=> Forms(t) /\ Len(t) < 4
<1>1. At(t, 1) = "[" <=> Len(t) >= 1 /\ t[1] = "["
  BY DEF At
<1> QED
  BY <1>1 DEF ScanMarkerPrefix, Forms

\* The bytes of a few characters.
LEMMA ShortBytes ==
  ASSUME NEW X, NEW w \in Seq(X), Len(w) <= 4
  PROVE  /\ Len(w) = 0 => Bytes(w) = 0
         /\ Len(w) = 1 => Bytes(w) = Width(w[1])
         /\ Len(w) = 2 => Bytes(w) = Width(w[1]) + Width(w[2])
         /\ Len(w) = 3 => Bytes(w) = (Width(w[1]) + Width(w[2])) + Width(w[3])
         /\ Len(w) = 4 => Bytes(w) = ((Width(w[1]) + Width(w[2])) + Width(w[3])) + Width(w[4])
<1> DEFINE N == Len(w)
           Step(f, n) == IF n = 0 THEN 0 ELSE f[n - 1] + Width(w[n])
           to == CHOOSE f : f = [n \in 0..N |-> Step(f, n)]
           b1 == Width(w[1])
           b2 == b1 + Width(w[2])
           b3 == b2 + Width(w[3])
           b4 == b3 + Width(w[4])
           g == [n \in 0..N |-> CASE n = 0 -> 0 [] n = 1 -> b1 [] n = 2 -> b2 [] n = 3 -> b3 [] OTHER -> b4]
<1>1. Bytes(w) = to[N]
  BY DEF Bytes
<1>2. N \in Nat /\ N <= 4 /\ 0 + b1 = b1
  BY DEF Width
<1>3. \A n \in 0..N : g[n] = Step(g, n)
  <2> TAKE n \in 0..N
  <2>1. n = 0 \/ n = 1 \/ n = 2 \/ n = 3 \/ n = 4
    BY <1>2
  <2>2. n # 0 => n - 1 \in 0..N
    BY <1>2
  <2> HIDE DEF N
  <2> DEFINE h(k) == CASE k = 0 -> 0 [] k = 1 -> b1 [] k = 2 -> b2 [] k = 3 -> b3 [] OTHER -> b4
  <2>3. g[n] = h(n) /\ (n # 0 => g[n - 1] = h(n - 1))
    BY <2>2
  <2>4. h(0) = 0 /\ h(1) = b1 /\ h(2) = b2 /\ h(3) = b3 /\ h(4) = b4
    OBVIOUS
  <2>5. 1 - 1 = 0 /\ 2 - 1 = 1 /\ 3 - 1 = 2 /\ 4 - 1 = 3
    OBVIOUS
  <2> HIDE DEF g, h
  <2>6. CASE n = 0
    BY <2>3, <2>4, <2>6
  <2>7. CASE n = 1
    BY <1>2, <2>3, <2>4, <2>5, <2>7
  <2>8. CASE n = 2
    BY <2>3, <2>4, <2>5, <2>8
  <2>9. CASE n = 3
    BY <2>3, <2>4, <2>5, <2>9
  <2>10. CASE n = 4
    BY <2>3, <2>4, <2>5, <2>10
  <2> QED  BY <2>1, <2>6, <2>7, <2>8, <2>9, <2>10
<1>4. g = [n \in 0..N |-> Step(g, n)]
  <2> HIDE DEF Step
  <2> QED  BY <1>3
<1>5. \A n \in 0..N : to[n] = Step(to, n)
  <2>1. \E f : f = [n \in 0..N |-> Step(f, n)]
    <3> HIDE DEF g, Step
    <3> QED  BY <1>4
  <2> HIDE DEF Step
  <2>2. to = [n \in 0..N |-> Step(to, n)]
    BY <2>1
  <2> HIDE DEF to
  <2> QED  BY <2>2
<1> HIDE DEF to, g
<1>6. /\ to[0] = 0
      /\ N >= 1 => to[1] = b1
      /\ N >= 2 => to[2] = to[1] + Width(w[2])
      /\ N >= 3 => to[3] = to[2] + Width(w[3])
      /\ N >= 4 => to[4] = to[3] + Width(w[4])
  <2>0. 0 \in 0..N /\ 1 - 1 = 0 /\ 2 - 1 = 1 /\ 3 - 1 = 2 /\ 4 - 1 = 3
    BY <1>2
  <2>1. to[0] = 0
    BY <1>5, <2>0
  <2>2. N >= 1 => to[1] = b1
    BY <1>2, <1>5, <2>0, <2>1
  <2>3. N >= 2 => to[2] = to[1] + Width(w[2])
    BY <1>2, <1>5, <2>0
  <2>4. N >= 3 => to[3] = to[2] + Width(w[3])
    BY <1>2, <1>5, <2>0
  <2>5. N >= 4 => to[4] = to[3] + Width(w[4])
    BY <1>2, <1>5, <2>0
  <2> QED  BY <2>1, <2>2, <2>3, <2>4, <2>5
<1> HIDE DEF N
<1>7. N = 0 => Bytes(w) = 0
  BY <1>1, <1>6
<1>8. N = 1 => Bytes(w) = b1
  BY <1>1, <1>6
<1>9. N = 2 => Bytes(w) = b2
  BY <1>1, <1>6
<1>10. N = 3 => Bytes(w) = b3
  BY <1>1, <1>6
<1>11. N = 4 => Bytes(w) = b4
  BY <1>1, <1>6
<1> QED
  BY <1>7, <1>8, <1>9, <1>10, <1>11 DEF N

LEMMA FormWidths ==
  ASSUME NEW u \in Seq(Characters), Forms(u)
  PROVE  /\ Width(u[1]) = 1
         /\ Len(u) >= 2 => Width(u[2]) \in {1, 4}
         /\ Len(u) >= 3 => Width(u[3]) = 1
         /\ Len(u) >= 4 => Width(u[4]) = 1
<1>1. Width("[") = 1 /\ Width("]") = 1 /\ Width(" ") = 1 /\ Width("\n") = 1
  BY DEF Width, Date
<1>2. \A c : IsSymbol(c) => Width(c) \in {1, 4}
  BY DEF Width, IsSymbol, Date
<1> QED
  BY <1>1, <1>2 DEF Forms, White

\* A marker, and what begins one, fits into the buffer.
LEMMA FormFits ==
  ASSUME NEW h \in Seq(Characters), NEW t \in Seq(Characters), Forms(h \o t),
         NEW k \in 0..4, Len(h) <= k, k <= Len(h) + Len(t)
  PROVE  /\ Bytes(h) \in Nat /\ Bytes(SubSeq(t, 1, k - Len(h))) \in Nat
         /\ Bytes(h) + Bytes(SubSeq(t, 1, k - Len(h))) <= MaxMarkerBytes
<1> DEFINE u == h \o t
           m == Len(h)
           d == k - Len(h)
           s == SubSeq(t, 1, d)
           w1 == Width(u[1])
           w2 == Width(u[2])
           w3 == Width(u[3])
           w4 == Width(u[4])
<1>1. /\ u \in Seq(Characters) /\ Len(u) = Len(h) + Len(t)
      /\ \A n \in 1..Len(h) : u[n] = h[n]
      /\ \A n \in 1..Len(t) : u[Len(h) + n] = t[n]
  BY ConcatIs
<1>0. Len(h) \in Nat /\ Len(t) \in Nat
  OBVIOUS
<1>2. m \in 0..4 /\ d \in 0..4 /\ d <= Len(t) /\ m + d = k /\ m = Len(h) /\ k \in 0..4
  <2>1. m \in Nat /\ Len(t) \in Nat /\ m <= k /\ k <= m + Len(t) /\ d = k - m /\ m = Len(h)
    BY <1>0
  <2> HIDE DEF m, d
  <2> QED  BY SMTT(90), <2>1
<1>3. s \in Seq(Characters) /\ Len(s) = d /\ \A n \in 1..d : s[n] = t[n]
  BY <1>2
<1>4. /\ k >= 1 => w1 = 1
      /\ k >= 2 => w2 \in {1, 4}
      /\ k >= 3 => w3 = 1
      /\ k >= 4 => w4 = 1
  <2>1. k <= Len(u) /\ Len(u) \in Nat /\ u \in Seq(Characters) /\ Forms(u)
    BY <1>1
  <2> HIDE DEF u
  <2>2. /\ Width(u[1]) = 1
        /\ Len(u) >= 2 => Width(u[2]) \in {1, 4}
        /\ Len(u) >= 3 => Width(u[3]) = 1
        /\ Len(u) >= 4 => Width(u[4]) = 1
    BY <2>1, FormWidths
  <2> QED  BY <1>2, <2>1, <2>2
<1> HIDE DEF u
<1>5. /\ m >= 1 => h[1] = u[1]
      /\ m >= 2 => h[2] = u[2]
      /\ m >= 3 => h[3] = u[3]
      /\ m >= 4 => h[4] = u[4]
  BY <1>1, <1>2
<1>6. /\ d >= 1 => s[1] = u[m + 1]
      /\ d >= 2 => s[2] = u[m + 2]
      /\ d >= 3 => s[3] = u[m + 3]
      /\ d >= 4 => s[4] = u[m + 4]
  BY SMTT(90), <1>1, <1>2, <1>3
<1>7. /\ Len(h) = 0 => Bytes(h) = 0
      /\ Len(h) = 1 => Bytes(h) = Width(h[1])
      /\ Len(h) = 2 => Bytes(h) = Width(h[1]) + Width(h[2])
      /\ Len(h) = 3 => Bytes(h) = (Width(h[1]) + Width(h[2])) + Width(h[3])
      /\ Len(h) = 4 => Bytes(h) = ((Width(h[1]) + Width(h[2])) + Width(h[3])) + Width(h[4])
  BY <1>2, ShortBytes
<1> HIDE DEF s
<1>8. /\ Len(s) = 0 => Bytes(s) = 0
      /\ Len(s) = 1 => Bytes(s) = Width(s[1])
      /\ Len(s) = 2 => Bytes(s) = Width(s[1]) + Width(s[2])
      /\ Len(s) = 3 => Bytes(s) = (Width(s[1]) + Width(s[2])) + Width(s[3])
      /\ Len(s) = 4 => Bytes(s) = ((Width(s[1]) + Width(s[2])) + Width(s[3])) + Width(s[4])
  <2>1. s \in Seq(Characters) /\ Len(s) <= 4
    BY <1>2, <1>3
  <2> HIDE DEF s
  <2> QED  BY ONLY <2>1, ShortBytes
<1> HIDE DEF m, d
<1> DEFINE Goal == Bytes(h) \in Nat /\ Bytes(s) \in Nat /\ Bytes(h) + Bytes(s) <= 8
<1>9. ASSUME m = 0 PROVE Goal
  <2>1. /\ d >= 1 => s[1] = u[1]
        /\ d >= 2 => s[2] = u[2]
        /\ d >= 3 => s[3] = u[3]
        /\ d >= 4 => s[4] = u[4]
    BY <1>2, <1>6, <1>9
  <2> QED  BY <1>2, <1>3, <1>4, <1>7, <1>8, <1>9, <2>1
<1>10. ASSUME m = 1 PROVE Goal
  <2>1. /\ d >= 1 => s[1] = u[2]
        /\ d >= 2 => s[2] = u[3]
        /\ d >= 3 => s[3] = u[4]
    BY <1>2, <1>6, <1>10
  <2> QED  BY SMTT(90), <1>2, <1>3, <1>4, <1>5, <1>7, <1>8, <1>10, <2>1
<1>11. ASSUME m = 2 PROVE Goal
  <2>1. /\ d >= 1 => s[1] = u[3]
        /\ d >= 2 => s[2] = u[4]
    BY <1>2, <1>6, <1>11
  <2> QED  BY SMTT(90), <1>2, <1>3, <1>4, <1>5, <1>7, <1>8, <1>11, <2>1
<1>12. ASSUME m = 3 PROVE Goal
  <2>1. d >= 1 => s[1] = u[4]
    BY <1>2, <1>6, <1>12
  <2> QED  BY SMTT(90), <1>2, <1>3, <1>4, <1>5, <1>7, <1>8, <1>12, <2>1
<1>13. ASSUME m = 4 PROVE Goal
  BY SMTT(90), <1>2, <1>3, <1>4, <1>5, <1>7, <1>8, <1>13
<1>14. Goal
  <2>1. m = 0 \/ m = 1 \/ m = 2 \/ m = 3 \/ m = 4
    BY <1>2
  <2> QED  BY <2>1, <1>9, <1>10, <1>11, <1>12, <1>13
<1> QED
  BY <1>14 DEF MaxMarkerBytes, s, d

\* How much of a text the buffer takes: as much as it has room for.
LEMMA RoomIs ==
  ASSUME NEW t \in Seq(Characters), t # <<>>, NEW used \in Nat, used <= MaxMarkerBytes
  PROVE  /\ Room(t, used) \in 0..Len(t)
         /\ \A n \in 0..Len(t) : Bytes(SubSeq(t, 1, n)) \in Nat /\ used + Bytes(SubSeq(t, 1, n)) <= MaxMarkerBytes
              => n <= Room(t, used)
<1> DEFINE room == MaxMarkerBytes - used
           fits == {n \in 0..(Len(t) - 1) : Bytes(SubSeq(t, 1, n)) <= room}
<1>1. Len(t) \in Nat /\ Len(t) >= 1 /\ room \in Nat
  BY DEF MaxMarkerBytes
<1>2. \A n \in 0..Len(t) : Bytes(SubSeq(t, 1, n)) \in Nat /\ used + Bytes(SubSeq(t, 1, n)) <= MaxMarkerBytes
        => Bytes(SubSeq(t, 1, n)) <= room
  BY DEF MaxMarkerBytes
<1>3. CASE Bytes(t) <= room
  <2>1. Room(t, used) = Len(t)
    BY <1>3 DEF Room
  <2> QED  BY <1>1, <2>1
<1>4. CASE ~(Bytes(t) <= room)
  <2>1. 0 \in fits
    <3>1. SubSeq(t, 1, 0) = <<>> /\ SubSeq(t, 1, 0) \in Seq(Characters)
      OBVIOUS
    <3>2. Bytes(SubSeq(t, 1, 0)) = 0
      <4>1. <<>> \in Seq(Characters) /\ Len(<<>>) = 0 /\ Len(<<>>) <= 4
        OBVIOUS
      <4>2. Bytes(<<>>) = 0
        BY <4>1, ShortBytes
      <4> QED  BY <3>1, <4>2
    <3> QED  BY <1>1, <3>2
  <2>2. fits \subseteq 0..(Len(t) - 1) /\ fits \subseteq Nat
    OBVIOUS
  <2>3. \E n \in fits : \A k \in fits : k <= n
    <3> DEFINE G == {x \in Nat : \E n \in fits : n = (Len(t) - 1) - x}
    <3>1. G \subseteq Nat /\ G # {}
      <4>1. Len(t) - 1 \in G
        BY <1>1, <2>1
      <4> QED  BY <4>1
    <3>2. PICK x \in G : \A y \in G : x <= y
      <4> HIDE DEF G
      <4> QED  BY <3>1, LeastNatural
    <3>3. PICK n \in fits : n = (Len(t) - 1) - x
      BY <3>2
    <3>4. \A k \in fits : k <= n
      <4> TAKE k \in fits
      <4>1. k \in 0..(Len(t) - 1)
        BY <2>2
      <4> HIDE DEF fits
      <4>2. (Len(t) - 1) - k \in G
        BY <1>1, <4>1
      <4>3. x <= (Len(t) - 1) - k /\ x \in Nat
        BY <3>2, <4>2
      <4> QED  BY <1>1, <3>3, <4>1, <4>3
    <3> QED  BY <3>4
  <2>4. Room(t, used) = CHOOSE n \in fits : \A k \in fits : k <= n
    BY <1>4 DEF Room
  <2>5. Room(t, used) \in fits /\ \A k \in fits : k <= Room(t, used)
    <3> HIDE DEF fits
    <3> QED  BY <2>3, <2>4
  <2>6. ASSUME NEW n \in 0..Len(t), Bytes(SubSeq(t, 1, n)) <= room PROVE n <= Room(t, used)
    <3>1. n # Len(t)
      <4>1. SubSeq(t, 1, Len(t)) = t
        OBVIOUS
      <4> QED  BY ZenonT(90), <1>4, <2>6, <4>1
    <3>2. n \in fits
      BY <1>1, <2>6, <3>1
    <3> QED  BY SMTT(90), <2>5, <3>2
  <2> HIDE DEF room
  <2>7. Room(t, used) \in 0..Len(t)
    BY <1>1, <2>2, <2>5
  <2> QED  BY <1>2, <2>6, <2>7
<1> QED
  BY <1>3, <1>4

\* What is left of a text that shows whether it has a marker, and its symbol.
Symbol(u) == IF Forms(u) THEN u[2] ELSE NoMarker
Remains(u) == IF Forms(u) THEN SubSeq(u, 5, Len(u)) ELSE u

\* The step that has taken a text.
Taken(step, u) ==
  /\ IsHeld(u) => step.marker = Holding(u) /\ step.flushed = <<>> /\ step.rest = <<>>
  /\ ~IsHeld(u) => /\ step.marker = Chose(Symbol(u))
                   /\ step.flushed \in Seq(Characters) /\ step.rest \in Seq(Characters)
                   /\ step.flushed \o step.rest = Remains(u)

LEMMA DecideIs ==
  ASSUME NEW symbol, NEW flushed, NEW rest
  PROVE  /\ Decide(symbol, flushed, rest).marker = Chose(symbol)
         /\ Decide(symbol, flushed, rest).flushed = flushed
         /\ Decide(symbol, flushed, rest).rest = rest
BY DEF Decide, Chose

LEMMA KeepIs ==
  ASSUME NEW m, NEW rest
  PROVE  Keep(m, rest).marker = m /\ Keep(m, rest).flushed = <<>> /\ Keep(m, rest).rest = rest
BY DEF Keep

LEMMA CutIs ==
  ASSUME NEW X, NEW t \in Seq(X), NEW k \in 0..Len(t)
  PROVE  LET a == SubSeq(t, 1, k)
             b == SubSeq(t, k + 1, Len(t))
         IN /\ a \in Seq(X) /\ Len(a) = k /\ b \in Seq(X) /\ Len(b) = Len(t) - k
            /\ a \o b = t
<1> DEFINE a == SubSeq(t, 1, k)
           b == SubSeq(t, k + 1, Len(t))
<1>1. Len(t) \in Nat /\ k \in Nat /\ k <= Len(t)
  OBVIOUS
<1>2. a \in Seq(X) /\ Len(a) = k /\ \A n \in 1..k : a[n] = t[n]
  BY <1>1
<1>3. b \in Seq(X) /\ Len(b) = Len(t) - k /\ \A n \in 1..(Len(t) - k) : b[n] = t[k + n]
  BY <1>1
<1> HIDE DEF a, b
<1>4. /\ a \o b \in Seq(X) /\ Len(a \o b) = Len(t)
      /\ \A n \in 1..k : (a \o b)[n] = t[n]
      /\ \A n \in 1..(Len(t) - k) : (a \o b)[k + n] = t[k + n]
  BY <1>1, <1>2, <1>3, ConcatIs
<1>5. \A n \in 1..Len(t) : (a \o b)[n] = t[n]
  <2> TAKE n \in 1..Len(t)
  <2>1. n \in 1..k \/ (n - k \in 1..(Len(t) - k) /\ k + (n - k) = n)
    BY <1>1
  <2> QED  BY <1>4, <2>1
<1>6. a \o b = t
  <2> DEFINE c == a \o b
  <2>1. c \in Seq(X) /\ Len(c) = Len(t) /\ \A n \in 1..Len(t) : c[n] = t[n]
    BY <1>4, <1>5
  <2> HIDE DEF c
  <2>2. c = t
    BY <2>1
  <2> QED  BY <2>2 DEF c
<1> QED
  BY <1>2, <1>3, <1>6 DEF a, b

LEMMA ConcatAgain ==
  ASSUME NEW X, NEW a \in Seq(X), NEW b \in Seq(X), NEW c \in Seq(X)
  PROVE  (a \o b) \o c = a \o (b \o c)
OBVIOUS

\* Four characters show whether a text has a marker.
LEMMA FormsAt ==
  ASSUME NEW a \in Seq(Characters), NEW b \in Seq(Characters), Len(a) >= 4
  PROVE  Forms(a) <=> Forms(a \o b)
<1>1. /\ Len(a) \in Nat /\ Len(b) \in Nat /\ Len(a \o b) = Len(a) + Len(b)
      /\ \A n \in 1..Len(a) : (a \o b)[n] = a[n]
  BY ConcatIs
<1> DEFINE u == a \o b
<1>2. Len(u) >= 4 /\ u[1] = a[1] /\ u[2] = a[2] /\ u[3] = a[3] /\ u[4] = a[4]
  BY <1>1
<1> HIDE DEF u
<1> QED
  BY <1>2 DEF Forms, u

LEMMA HeldIs ==
  ASSUME NEW A, NEW B, NEW C, NEW m \in [decided : A, symbol : B, held : C], NEW x 
  PROVE  [m EXCEPT !.held = x] = [decided |-> m.decided, symbol |-> m.symbol, held |-> x]
OBVIOUS

LEMMA HoldingIs ==
  ASSUME NEW h, NEW x
  PROVE  [Holding(h) EXCEPT !.held = x] = Holding(x)
<1> DEFINE m == Holding(h)
<1>1. m \in [decided : {FALSE}, symbol : {NoMarker}, held : {h}]
  BY DEF Holding
<1>2. m.decided = FALSE /\ m.symbol = NoMarker
  BY DEF Holding
<1> HIDE DEF m
<1>3. [m EXCEPT !.held = x] = [decided |-> m.decided, symbol |-> m.symbol, held |-> x]
  BY <1>1, HeldIs
<1>4. [m EXCEPT !.held = x] = [decided |-> FALSE, symbol |-> NoMarker, held |-> x]
  BY <1>2, <1>3
<1> QED
  BY <1>4 DEF Holding, m

LEMMA HeldBytes ==
  ASSUME NEW h \in Seq(Characters), IsHeld(h)
  PROVE  Bytes(h) \in Nat /\ Bytes(h) <= MaxMarkerBytes
<1>1. CASE h = <<>>
  <2>0. Len(h) = 0 /\ Len(h) <= 4
    BY <1>1
  <2>1. Bytes(h) = 0
    BY <2>0, ShortBytes
  <2> QED  BY <2>1 DEF MaxMarkerBytes
<1>2. CASE Forms(h) /\ Len(h) < 4
  <2> DEFINE e == <<>>
             k == Len(h)
  <2>0. Len(h) \in 0..4
    <3> DEFINE lh == Len(h)
    <3>1. lh \in Nat /\ lh < 4
      BY <1>2
    <3> HIDE DEF lh
    <3>2. lh \in 0..4
      BY ONLY <3>1
    <3> QED  BY ONLY <3>2 DEF lh
  <2>1. e \in Seq(Characters) /\ h \o e = h /\ Len(e) = 0
    OBVIOUS
  <2>2. k \in 0..4 /\ Len(h) <= k /\ k <= Len(h) + Len(e) /\ Forms(h \o e)
    BY <1>2, <2>0, <2>1
  <2> HIDE DEF e, k
  <2>3. /\ Bytes(h) \in Nat /\ Bytes(SubSeq(e, 1, k - Len(h))) \in Nat
        /\ Bytes(h) + Bytes(SubSeq(e, 1, k - Len(h))) <= MaxMarkerBytes
    BY <2>1, <2>2, FormFits
  <2>4. Bytes(SubSeq(e, 1, k - Len(h))) >= 0
    BY <2>3
  <2> QED  BY <2>3, <2>4 DEF MaxMarkerBytes
<1> QED
  BY <1>1, <1>2 DEF IsHeld

LEMMA SameElements ==
  ASSUME NEW X, NEW p \in Seq(X), NEW q \in Seq(X), NEW k, Len(p) = k, Len(q) = k,
         \A n \in 1..k : p[n] = q[n]
  PROVE  p = q
OBVIOUS

\* However a text is cut into pieces, the buffer finds in it what is there
\* (MarkerAccumulator::push_text).
LEMMA MarkerFolds ==
  ASSUME NEW h \in Seq(Characters), NEW t \in Seq(Characters), IsHeld(h)
  PROVE  Taken(PushMarkerText(Holding(h), t), h \o t)
<1> DEFINE u == h \o t
           m == Holding(h)
           step == PushMarkerText(m, t)
<1>1. ~m.decided /\ m.held = h /\ \A x : [m EXCEPT !.held = x] = Holding(x)
  <2>1. m.decided = FALSE /\ m.held = h
    BY DEF Holding
  <2>2. ASSUME NEW x PROVE [m EXCEPT !.held = x] = Holding(x)
    BY HoldingIs
  <2> QED  BY <2>1, <2>2
<1>2. CASE t = <<>>
  <2>1. step = Keep(m, <<>>) /\ u = h
    BY <1>1, <1>2 DEF PushMarkerText
  <2> HIDE DEF step, u
  <2> QED  BY <2>1, KeepIs DEF Taken, step, u
<1>3. ASSUME t # <<>> PROVE Taken(step, u)
  <2> DEFINE take == Room(t, Bytes(h))
             a == SubSeq(t, 1, take)
             b == SubSeq(t, take + 1, Len(t))
             hp == h \o a
  <2>1. step = PushBuffering(m, t, take)
    BY <1>1, <1>3 DEF PushMarkerText
  <2>2. /\ take \in 0..Len(t)
        /\ \A n \in 0..Len(t) : Bytes(SubSeq(t, 1, n)) \in Nat /\ Bytes(h) + Bytes(SubSeq(t, 1, n)) <= MaxMarkerBytes
              => n <= take
    BY <1>3, HeldBytes, RoomIs
  <2> DEFINE alone == take = 0 \/ (h = <<>> /\ t[1] # "[")
  <2>3. step = IF alone THEN Decide(NoMarker, h, t) ELSE TakeText(m, hp, t, b)
    BY <1>1, <2>1 DEF PushBuffering
  <2> HIDE DEF take, step
  <2>4. /\ Len(t) \in Nat /\ Len(t) >= 1 /\ Len(h) \in Nat
        /\ u \in Seq(Characters) /\ Len(u) = Len(h) + Len(t)
        /\ \A n \in 1..Len(h) : u[n] = h[n]
        /\ \A n \in 1..Len(t) : u[Len(h) + n] = t[n]
    BY <1>3
  <2>5. /\ a \in Seq(Characters) /\ Len(a) = take /\ b \in Seq(Characters) /\ Len(b) = Len(t) - take
        /\ a \o b = t
    BY <2>2, CutIs
  <2>6. hp \in Seq(Characters) /\ Len(hp) = Len(h) + take /\ hp \o b = u
    <3>1. hp \o b = h \o (a \o b)
      <4>1. a \in Seq(Characters) /\ b \in Seq(Characters)
        BY <2>5
      <4> HIDE DEF a, b
      <4>2. (h \o a) \o b = h \o (a \o b)
        BY ONLY SMTT(90), <4>1, h \in Seq(Characters), ConcatAgain
      <4> QED  BY ONLY <4>2 DEF hp
    <3>2. hp \in Seq(Characters) /\ Len(hp) = Len(h) + Len(a)
      BY <2>5, ConcatIs
    <3> QED  BY <2>5, <3>1, <3>2
  <2>7. u # <<>>
    BY <2>4
  <2>8. Forms(u) => ~(h = <<>> /\ t[1] # "[")
    <3> SUFFICES ASSUME Forms(u), h = <<>> PROVE t[1] = "["
      OBVIOUS
    <3>1. Len(h) = 0 /\ u[1] = t[1]
      BY <2>4
    <3> QED  BY <3>1 DEF Forms
  <2>9. h # <<>> => Len(h) < 4 /\ Len(h) >= 1
    BY <2>4 DEF IsHeld
  <2>10. ASSUME Forms(u), NEW k \in 0..4, Len(h) <= k, k <= Len(u) PROVE k - Len(h) <= take
    <3>1. k <= Len(h) + Len(t)
      BY <2>4, <2>10
    <3>2. Bytes(SubSeq(t, 1, k - Len(h))) \in Nat /\ Bytes(h) + Bytes(SubSeq(t, 1, k - Len(h))) <= MaxMarkerBytes
      BY <2>10, <3>1, FormFits
    <3>3. k - Len(h) \in 0..Len(t)
      BY <2>4, <2>10, <3>1
    <3> QED  BY <2>2, <3>2, <3>3
  <2>11. Len(h) = 0 \/ Len(h) = 1 \/ Len(h) = 2 \/ Len(h) = 3
    <3> DEFINE lh == Len(h)
    <3>1. lh \in Nat /\ (lh = 0 \/ lh < 4)
      BY <2>4, <2>9
    <3> HIDE DEF lh
    <3>2. lh = 0 \/ lh = 1 \/ lh = 2 \/ lh = 3
      BY ONLY <3>1
    <3> QED  BY ONLY <3>2 DEF lh
  <2>12. CASE IsHeld(u)
    <3>1. Forms(u) /\ Len(u) < 4
      BY <2>7, <2>12 DEF IsHeld
    <3>2. take = Len(t)
      <4>1. Len(u) \in 0..4 /\ Len(h) <= Len(u) /\ Len(u) - Len(h) = Len(t)
        BY <2>4, <3>1
      <4>2. Len(t) <= take
        BY <2>10, <3>1, <4>1
      <4> QED  BY <2>2, <2>4, <4>2
    <3>3. hp = u /\ b = <<>>
      <4>1. a = t /\ b = <<>>
        BY <2>4, <3>2
      <4> QED  BY <4>1
    <3>4. ~alone
      BY <2>4, <2>8, <3>1, <3>2
    <3>5. ScanMarkerPrefix(u) = "incomplete" /\ ScanMarkerPrefix(u) # "complete"
      BY <2>4, <3>1, ScanIs
    <3>6. step = TakeText(m, u, t, <<>>)
      BY <2>3, <3>3, <3>4
    <3>7. step = Keep(Holding(u), <<>>)
      BY <1>1, <3>5, <3>6 DEF TakeText
    <3> HIDE DEF u
    <3> QED  BY <2>12, <3>7, KeepIs DEF Taken
  <2>13. CASE ~IsHeld(u) /\ Forms(u)
    <3>1. Len(u) >= 4
      BY <2>4, <2>13 DEF IsHeld
    <3>2. 4 - Len(h) <= take
      <4> DEFINE lh == Len(h)
      <4>1. lh = 0 \/ lh = 1 \/ lh = 2 \/ lh = 3
        BY <2>11
      <4> HIDE DEF lh
      <4>2. 4 \in 0..4 /\ lh <= 4
        BY ONLY <4>1
      <4>3. Forms(u) /\ 4 \in 0..4 /\ Len(h) <= 4 /\ 4 <= Len(u)
        <5>1. 4 <= Len(u)
          BY ONLY <2>4, <3>1
        <5> QED  BY ONLY <2>13, <4>2, <5>1 DEF lh
      <4> HIDE DEF u
      <4> QED  BY ONLY <2>10, <4>3
    <3>3. Len(hp) >= 4 /\ take # 0
      <4> DEFINE lh == Len(h)
                 lp == Len(hp)
      <4>1. /\ lh = 0 \/ lh = 1 \/ lh = 2 \/ lh = 3
            /\ 4 - lh <= take /\ take \in Int /\ lp = lh + take
        BY <2>2, <2>6, <2>11, <3>2
      <4> HIDE DEF lh, lp
      <4>2. lp >= 4 /\ take # 0
        BY ONLY <4>1
      <4> QED  BY ONLY <4>2 DEF lp
    <3>4. Forms(hp)
      <4> HIDE DEF hp, b, u
      <4> QED  BY <2>5, <2>6, <2>13, <3>3, FormsAt
    <3>5. ~alone
      BY <2>8, <2>13, <3>3
    <3>6. ScanMarkerPrefix(hp) = "complete"
      BY <2>6, <3>3, <3>4, ScanIs
    <3>7. step = Decide(hp[2], <<>>, SubSeq(t, 5 - Len(h), Len(t)))
      BY <1>1, <2>3, <3>5, <3>6 DEF TakeText
    <3>8. hp[2] = u[2]
      <4>1. \A n \in 1..Len(hp) : (hp \o b)[n] = hp[n]
        BY <2>5, <2>6, ConcatIs
      <4> QED  BY SMTT(90), <2>6, <3>3, <4>1
    <3> DEFINE p == SubSeq(t, 5 - Len(h), Len(t))
               q == SubSeq(u, 5, Len(u))
    <3>9. p \in Seq(Characters) /\ p = q
      <4> DEFINE lh == Len(h)
                 lt == Len(t)
                 lu == Len(u)
      <4>0. /\ lh = 0 \/ lh = 1 \/ lh = 2 \/ lh = 3
            /\ lt \in Nat /\ lu = lh + lt /\ lu >= 4
        BY <2>4, <2>11, <3>1
      <4>1. /\ p \in Seq(Characters) /\ Len(p) = lu - 4
            /\ \A n \in 1..(lu - 4) : p[n] = t[4 - lh + n]
        <5> HIDE DEF lh, lu
        <5>1. 5 - lh \in 1..5 /\ lt - (5 - lh) + 1 = lu - 4 /\ 5 - lh <= lt + 1
          BY ONLY <4>0
        <5>2. /\ SubSeq(t, 5 - lh, Len(t)) \in Seq(Characters)
              /\ Len(SubSeq(t, 5 - lh, Len(t))) = Len(t) - (5 - lh) + 1
              /\ \A n \in 1..(Len(t) - (5 - lh) + 1) : SubSeq(t, 5 - lh, Len(t))[n] = t[5 - lh + n - 1]
          <6> DEFINE k == 5 - lh
          <6>1. k \in 1..5 /\ k <= Len(t) + 1 /\ t \in Seq(Characters) /\ Len(t) \in Nat
            BY <5>1, <4>0
          <6> HIDE DEF k
          <6>2. /\ SubSeq(t, k, Len(t)) \in Seq(Characters)
                /\ Len(SubSeq(t, k, Len(t))) = Len(t) - k + 1
                /\ \A n \in 1..(Len(t) - k + 1) : SubSeq(t, k, Len(t))[n] = t[k + n - 1]
            BY ONLY <6>1
          <6> QED  BY ONLY <6>2 DEF k
        <5>3. \A n \in 1..(lu - 4) : 5 - lh + n - 1 = 4 - lh + n
          BY ONLY <4>0
        <5> QED  BY <5>1, <5>2, <5>3 DEF lh
      <4>2. /\ q \in Seq(Characters) /\ Len(q) = Len(u) - 4
            /\ \A n \in 1..(Len(u) - 4) : q[n] = u[4 + n]
        <5> HIDE DEF u
        <5> QED  BY <2>4, <3>1
      <4>3. \A n \in 1..(lu - 4) : t[4 - lh + n] = u[4 + n]
        <5> TAKE n \in 1..(lu - 4)
        <5>1. 4 - lh + n \in 1..lt /\ lh + (4 - lh + n) = 4 + n
          <6> HIDE DEF lh, lu, lt
          <6> QED  BY ONLY SMTT(90), <4>0, n \in 1..(lu - 4)
        <5> DEFINE k == 4 - lh + n
        <5>2. k \in 1..Len(t) /\ Len(h) + k = 4 + n
          BY ONLY <5>1
        <5> HIDE DEF k, u
        <5>3. u[Len(h) + k] = t[k]
          BY ONLY <2>4, <5>2
        <5> QED  BY ONLY <5>2, <5>3 DEF k
      <4> HIDE DEF p, q, u, lh
      <4>4. \A n \in 1..(lu - 4) : p[n] = q[n]
        BY ONLY <4>1, <4>2, <4>3 DEF lu
      <4>5. p \in Seq(Characters) /\ q \in Seq(Characters) /\ Len(p) = lu - 4 /\ Len(q) = lu - 4
        BY ONLY <4>1, <4>2 DEF lu
      <4> HIDE DEF lu
      <4>6. p = q
        BY ONLY <4>4, <4>5, SameElements
      <4> QED  BY ONLY <4>5, <4>6
    <3>10. step.marker = Chose(u[2]) /\ step.flushed = <<>> /\ step.rest = p
      <4> DEFINE c == hp[2]
                 e == <<>>
      <4>1. step = Decide(c, e, p) /\ c = u[2]
        BY <3>7, <3>8
      <4> HIDE DEF u, c, p, e
      <4>2. step.marker = Chose(c) /\ step.flushed = e /\ step.rest = p
        BY ONLY <4>1, DecideIs
      <4> QED  BY ONLY <4>1, <4>2 DEF e
    <3> HIDE DEF p
    <3>11. step.flushed \in Seq(Characters) /\ step.rest \in Seq(Characters) /\ step.flushed \o step.rest = q
      BY <3>9, <3>10
    <3> HIDE DEF u
    <3> QED  BY <2>13, <3>10, <3>11 DEF Taken, Symbol, Remains
  <2>14. CASE ~IsHeld(u) /\ ~Forms(u)
    <3> DEFINE Good(x, y) == step = Decide(NoMarker, x, y) /\ x \in Seq(Characters) /\ y \in Seq(Characters) /\ x \o y = u
    <3>1. ASSUME alone PROVE Good(h, t)
      BY <2>3, <3>1
    <3>2. ASSUME ~alone PROVE Good(hp, b)
      <4>1. ~(Forms(hp) /\ Len(hp) >= 4)
        <5> HIDE DEF hp, b, u
        <5> QED  BY <2>5, <2>6, <2>14, FormsAt
      <4>2. ScanMarkerPrefix(hp) # "complete"
        BY <2>6, <4>1, ScanIs
      <4>3. ~(ScanMarkerPrefix(hp) = "incomplete" /\ b = <<>>)
        <5> SUFFICES ASSUME ScanMarkerPrefix(hp) = "incomplete", b = <<>> PROVE FALSE
          OBVIOUS
        <5>1. Forms(hp)
          BY <2>6, ScanIs
        <5>2. hp = u
          <6> HIDE DEF hp, b, u
          <6> QED  BY <2>6
        <5> QED  BY <2>14, <5>1, <5>2
      <4> HIDE DEF hp, b
      <4>4. step = Decide(NoMarker, hp, b)
        BY <2>3, <3>2, <4>2, <4>3 DEF TakeText
      <4> QED  BY <2>5, <2>6, <4>4
    <3>3. \E x, y : Good(x, y)
      <4> HIDE DEF Good
      <4> QED  BY <3>1, <3>2
    <3>4. PICK x, y : Good(x, y)
      BY <3>3
    <3>5. step.marker = Chose(NoMarker) /\ step.flushed = x /\ step.rest = y
      BY <3>4, DecideIs
    <3> HIDE DEF u
    <3> QED  BY <2>14, <3>4, <3>5 DEF Taken, Symbol, Remains
  <2> QED  BY <2>12, <2>13, <2>14
<1> QED
  BY <1>2, <1>3

-----------------------------------------------------------------------------
(* The line an item leads with *)

\* The text of a stretch of events, event by event.
LEMMA TextOfIs ==
  ASSUME Nested, NEW i \in 1..(Len(Events) + 1)
  PROVE  /\ TextOf(i, i) = <<>>
         /\ \A j \in i..Len(Events) : TextOf(i, j + 1) = TextOf(i, j) \o Events[j].text
<1> DEFINE N == Len(Events) + 1
           Step(f, m) == IF m = i THEN <<>> ELSE f[m - 1] \o Events[m - 1].text
           to == CHOOSE f : f = [m \in i..N |-> Step(f, m)]
<1>0. N \in Nat /\ i \in Nat /\ i <= N /\ 1 <= i /\ N - i \in Nat
  BY DEF Nested
<1>1. \A j : TextOf(i, j) = to[j]
  BY DEF TextOf
<1> HIDE DEF N
<1> DEFINE G == {k \in 0..(N - i) : \E f : f = [m \in i..(i + k) |-> Step(f, m)]}
<1>2. \A k \in 0..(N - i) : k \in G
  <2>1. 0 \in G
    <3> DEFINE f == [m \in i..(i + 0) |-> <<>>]
    <3>1. \A m \in i..(i + 0) : m = i
      BY <1>0
    <3>2. \A m \in i..(i + 0) : f[m] = Step(f, m)
      BY <3>1
    <3>3. f = [m \in i..(i + 0) |-> Step(f, m)]
      <4> HIDE DEF Step
      <4> QED  BY <3>2
    <3>4. 0 \in 0..(N - i)
      BY <1>0
    <3> HIDE DEF f, Step
    <3> QED  BY <3>3, <3>4
  <2>2. ASSUME NEW k \in 0..((N - i) - 1), k \in G PROVE k + 1 \in G
    <3> DEFINE n == i + k
    <3>0. n \in Nat /\ i <= n /\ i + (k + 1) = n + 1 /\ k + 1 \in 0..(N - i)
      BY <1>0
    <3>1. PICK f : f = [m \in i..n |-> Step(f, m)]
      BY <2>2
    <3>2. \A m \in i..n : f[m] = Step(f, m)
      <4> HIDE DEF Step
      <4> QED  BY <3>1
    <3> HIDE DEF n
    <3> DEFINE g == [m \in i..(n + 1) |-> IF m <= n THEN f[m] ELSE Step(f, m)]
    <3>3. \A m \in i..(n + 1) : g[m] = Step(g, m)
      <4> TAKE m \in i..(n + 1)
      <4>1. m # i => g[m - 1] = f[m - 1]
        BY <1>0, <3>0
      <4>2. Step(g, m) = Step(f, m)
        BY <4>1
      <4>3. g[m] = Step(f, m)
        <5>1. m <= n => m \in i..n
          BY <1>0, <3>0
        <5> HIDE DEF Step
        <5> QED  BY <3>2, <5>1
      <4> QED  BY <4>2, <4>3
    <3>4. g = [m \in i..(n + 1) |-> Step(g, m)]
      <4> HIDE DEF Step
      <4> QED  BY <3>3
    <3> HIDE DEF g, Step
    <3>5. \E h : h = [m \in i..(i + (k + 1)) |-> Step(h, m)]
      BY <3>0, <3>4
    <3> QED  BY <3>0, <3>5
  <2> HIDE DEF G
  <2> QED  BY <1>0, <2>1, <2>2, UpTo
<1>3. \A m \in i..N : to[m] = Step(to, m)
  <2>0. N - i \in G /\ i + (N - i) = N
    <3>1. N - i \in 0..(N - i) /\ i + (N - i) = N
      BY <1>0
    <3> HIDE DEF G
    <3> QED  BY <1>2, <3>1
  <2>1. \E f : f = [m \in i..N |-> Step(f, m)]
    BY <2>0
  <2> HIDE DEF Step
  <2>2. to = [m \in i..N |-> Step(to, m)]
    BY <2>1
  <2> HIDE DEF to
  <2> QED  BY <2>2
<1> HIDE DEF to, G
<1>4. to[i] = <<>>
  BY <1>0, <1>3
<1>5. ASSUME NEW j \in i..Len(Events) PROVE to[j + 1] = to[j] \o Events[j].text
  <2> DEFINE k == j + 1
  <2>1. k \in i..N /\ k # i /\ k - 1 = j
    BY <1>0 DEF N
  <2> HIDE DEF k
  <2>2. to[k] = Step(to, k)
    <3> HIDE DEF Step
    <3> QED  BY ONLY <1>3, <2>1
  <2>3. to[k] = to[j] \o Events[j].text
    BY ONLY <2>1, <2>2
  <2> QED  BY ONLY <2>3 DEF k
<1> QED
  BY <1>1, <1>4, <1>5

\* Where the line of an item starts and ends.
LEMMA LeadIs ==
  ASSUME Nested, NEW s \in Items
  PROVE  /\ LeadFrom(s) \in {s + 1, s + 2} /\ LeadEnd(s) \in Nat
         /\ LeadFrom(s) <= LeadEnd(s) /\ LeadEnd(s) <= EndOf(s) /\ EndOf(s) <= Len(Events)
         /\ LeadFrom(s) = s + 2 => Events[s + 1].kind = "start_text"
         /\ Events[LeadEnd(s)].kind # "text"
         /\ \A j \in LeadFrom(s)..(LeadEnd(s) - 1) : Events[j].kind = "text"
<1> DEFINE a == LeadFrom(s)
           e == EndOf(s)
           S == {j \in a..Len(Events) : ~Is(j, "text")}
<1>1. /\ s \in Nat /\ 1 <= s /\ e \in Nat /\ s < e /\ e <= Len(Events) /\ Len(Events) \in Nat
      /\ Events[e].kind = "end_item" /\ DOMAIN Events = 1..Len(Events)
  BY StartsAre DEF Items, Closing, Nested
<1>2. a \in {s + 1, s + 2} /\ (a = s + 2 => Events[s + 1].kind = "start_text")
  <2>1. Is(s + 1, "start_text") => Events[s + 1].kind = "start_text" /\ a = s + 2
    BY DEF LeadFrom, Is
  <2>2. ~Is(s + 1, "start_text") => a = s + 1
    BY DEF LeadFrom
  <2> HIDE DEF a
  <2> QED  BY <1>1, <2>1, <2>2
<1>3. a \in Nat /\ a <= e
  <2>1. e # s + 1 \/ a = s + 1
    <3>1. "end_item" # "start_text"
      OBVIOUS
    <3> HIDE DEF a, e
    <3> QED  BY <1>1, <1>2, <3>1
  <2> HIDE DEF a, e
  <2> QED  BY <1>1, <1>2, <2>1
<1> HIDE DEF a, e
<1>4. e \in S
  <2>1. e \in a..Len(Events)
    BY <1>1, <1>3
  <2>2. ~Is(e, "text")
    BY <1>1 DEF Is
  <2> QED  BY <2>1, <2>2
<1>5. S \subseteq Nat /\ S \subseteq a..Len(Events)
  BY <1>1, <1>3
<1>6. PICK x \in S : \A y \in S : x <= y
  <2> HIDE DEF S
  <2> QED  BY <1>4, <1>5, LeastNatural
<1>7. LeadEnd(s) = x
  <2>1. LeadEnd(s) = Min(S)
    BY DEF LeadEnd, a
  <2> HIDE DEF S
  <2>2. Min(S) = x
    <3>1. \A z \in S : (\A y \in S : z <= y) => z = x
      BY <1>5, <1>6
    <3> QED  BY <1>6, <3>1 DEF Min
  <2> QED  BY <2>1, <2>2
<1>8. x \in Nat /\ a <= x /\ x <= e /\ Events[x].kind # "text"
  <2>1. x \in a..Len(Events) /\ x <= e /\ ~Is(x, "text")
    BY <1>4, <1>6
  <2>2. x \in DOMAIN Events
    BY <1>1, <1>2, <2>1
  <2> QED  BY <1>3, <2>1, <2>2 DEF Is
<1>9. ASSUME NEW j \in a..(x - 1) PROVE Events[j].kind = "text"
  <2>1. j \in a..Len(Events) /\ ~(x <= j)
    BY <1>1, <1>3, <1>8
  <2>2. Is(j, "text")
    BY <1>6, <2>1
  <2> QED  BY <2>2 DEF Is
<1> QED
  BY <1>1, <1>2, <1>7, <1>8, <1>9 DEF a, e
-----------------------------------------------------------------------------
(* What an event does to the marker and the text of a frame *)

LEMMA BeginsItself ==
  ASSUME NEW t \in Seq(Characters)
  PROVE  Begins(t, t)
<1> DEFINE e == <<>>
<1>1. e \in Seq(Characters) /\ t \o e = t
  OBVIOUS
<1> HIDE DEF e
<1> QED
  BY <1>1 DEF Begins

LEMMA BeginsOn ==
  ASSUME NEW p \in Seq(Characters), NEW t, Begins(p, t), NEW r \in Seq(Characters)
  PROVE  t \in Seq(Characters) /\ Begins(p, t \o r)
<1>1. PICK q \in Seq(Characters) : t = p \o q
  BY DEF Begins
<1>2. t \in Seq(Characters) /\ q \o r \in Seq(Characters)
  BY <1>1, ConcatIs
<1>3. t \o r = p \o (q \o r)
  BY SMTT(90), <1>1, ConcatAgain
<1> QED
  BY <1>2, <1>3 DEF Begins

LEMMA BeginsChain ==
  ASSUME NEW p \in Seq(Characters), NEW q, NEW t, Begins(p, q), Begins(q, t)
  PROVE  Begins(p, t)
<1>1. PICK r \in Seq(Characters) : t = q \o r
  BY DEF Begins
<1> QED
  BY <1>1, BeginsOn

LEMMA EndLineBegins ==
  ASSUME NEW t \in Seq(Characters)
  PROVE  EndLine(t) \in Seq(Characters) /\ Begins(t, EndLine(t))
<1> DEFINE n == <<"\n">>
<1>1. n \in Seq(Characters)
  BY CharactersAssumption
<1>2. EndLine(t) = t \/ EndLine(t) = t \o n
  <2>1. Append(t, "\n") = t \o n
    OBVIOUS
  <2> QED  BY <2>1 DEF EndLine
<1> HIDE DEF n
<1>3. Begins(t, t)
  BY BeginsItself
<1> QED
  BY <1>1, <1>2, <1>3, BeginsOn

\* A frame holds text back or has decided on a marker.
IsTyped(f) ==
  /\ f.text \in Seq(Characters)
  /\ \/ f.marker.decided = TRUE
     \/ \E h \in Seq(Characters) : IsHeld(h) /\ f.marker = Holding(h)

\* What an item that has decided keeps, and one that has not.
Grows(f, g) == g.marker = f.marker /\ Begins(f.text, g.text)
Yields(f, g, step) == g.marker = step.marker /\ Begins(f.text \o step.flushed, g.text)

\* The events that take the leading place, and those that end the line.
Turns(f, g, e) ==
  /\ IsTyped(f) /\ IsTyped(g)
  /\ f.marker.decided = TRUE => Grows(f, g)
  /\ e.kind = "text" =>
       LET step == PushMarkerText(f.marker, e.text)
       IN e.text \in Seq(Characters) /\ g.marker = step.marker /\ g.text = (f.text \o step.flushed) \o step.rest
  /\ e.kind \in Inline /\ f.marker.decided # TRUE => Yields(f, g, RejectMarker(f.marker))
  /\ e.kind \in LineEnds /\ f.marker.decided # TRUE => Yields(f, g, ResolveMarker(f.marker))
  /\ e.kind = "start_text" => g.marker = f.marker /\ g.text = EndLine(f.text)

\* The events that leave the marker of an item and its text alone.
Idle == {"start_metadata", "end_metadata", "yaml", "end_code", "end_link", "end_list", "start_item", "start_code"}

LEMMA KindsDiffer ==
  /\ "text" \notin Inline \cup LineEnds \cup Idle
  /\ "start_text" \notin Inline \cup LineEnds \cup Idle
  /\ Inline \cap LineEnds = {} /\ Inline \cap Idle = {} /\ LineEnds \cap Idle = {}
BY DEF Inline, LineEnds, Idle

LEMMA TakenTypes ==
  ASSUME NEW u \in Seq(Characters), NEW step, Taken(step, u)
  PROVE  /\ step.flushed \in Seq(Characters) /\ step.rest \in Seq(Characters)
         /\ step.marker.decided = TRUE \/ (IsHeld(u) /\ step.marker = Holding(u))
<1>1. CASE IsHeld(u)
  <2> DEFINE e == <<>>
  <2>1. e \in Seq(Characters)
    OBVIOUS
  <2>2. step.marker = Holding(u) /\ step.flushed = e /\ step.rest = e
    BY <1>1 DEF Taken
  <2> HIDE DEF e
  <2> QED  BY <1>1, <2>1, <2>2
<1>2. CASE ~IsHeld(u)
  <2> DEFINE c == Symbol(u)
  <2>1. Chose(c).decided = TRUE
    BY DEF Chose
  <2>2. step.marker = Chose(c) /\ step.flushed \in Seq(Characters) /\ step.rest \in Seq(Characters)
    BY <1>2 DEF Taken
  <2>3. step.marker.decided = TRUE
    <3> HIDE DEF c
    <3> QED  BY ONLY <2>1, <2>2
  <2> QED  BY ONLY <2>2, <2>3
<1> QED
  BY <1>1, <1>2

LEMMA HoldingTells ==
  ASSUME NEW h
  PROVE  Holding(h).decided = FALSE /\ Holding(h).held = h /\ Holding(h).decided # TRUE /\ ~Holding(h).decided
BY DEF Holding

\* What is held back is rejected or resolved.
LEMMA HeldIsDecided ==
  ASSUME NEW h \in Seq(Characters), IsHeld(h)
  PROVE  /\ RejectMarker(Holding(h)) = Decide(NoMarker, h, <<>>)
         /\ ResolveMarker(Holding(h)) =
              IF Forms(h) /\ Len(h) = 3 THEN Decide(h[2], <<>>, <<>>) ELSE Decide(NoMarker, h, <<>>)
<1>1. MarksAtLineEnd(h) <=> Forms(h) /\ Len(h) = 3
  <2>1. ScanMarkerPrefix(h) # "complete"
    <3>1. ~(Forms(h) /\ Len(h) >= 4)
      <4>1. h = <<>> => Len(h) = 0
        OBVIOUS
      <4> QED  BY <4>1 DEF IsHeld
    <3> QED  BY <3>1, ScanIs
  <2> QED  BY <2>1, ScanIs DEF MarksAtLineEnd
<1> QED
  BY <1>1, HoldingTells DEF RejectMarker, ResolveMarker

\* What the writing of text does to a frame.
Becomes(g, m, t) == IsKeyed(g) /\ g.marker = m /\ g.text = t

LEMMA WriteTells ==
  ASSUME NEW f, IsKeyed(f), NEW t, NEW hidden
  PROVE  Becomes(Write(f, t, hidden), f.marker, f.text \o t)
<1>1. IsKeyed(Write(f, t, hidden))
  BY WriteKeeps
<1>2. Write(f, t, hidden).marker = f.marker /\ Write(f, t, hidden).text = f.text \o t
  BY DEF IsKeyed, FrameKeys, Write
<1> QED
  BY <1>1, <1>2 DEF Becomes

LEMMA AfterTells ==
  ASSUME NEW f, IsKeyed(f), NEW step, NEW hidden
  PROVE  Becomes(After(f, step, hidden), step.marker, (f.text \o step.flushed) \o step.rest)
<1> DEFINE g == [f EXCEPT !.marker = step.marker]
<1>1. IsKeyed(g) /\ g.marker = step.marker /\ g.text = f.text
  BY DEF IsKeyed, FrameKeys
<1> HIDE DEF g
<1> DEFINE h == Write(g, step.flushed, FALSE)
<1>2. IsKeyed(h) /\ h.marker = step.marker /\ h.text = f.text \o step.flushed
  <2> DEFINE no == FALSE
             t == step.flushed
  <2>1. h = Write(g, t, no)
    OBVIOUS
  <2> HIDE DEF h, no, t
  <2>2. Becomes(h, g.marker, g.text \o t)
    BY <1>1, <2>1, WriteTells
  <2> QED  BY <1>1, <2>2 DEF Becomes, t
<1> HIDE DEF h
<1>3. Becomes(Write(h, step.rest, hidden), h.marker, h.text \o step.rest)
  BY <1>2, WriteTells
<1>4. After(f, step, hidden) = Write(h, step.rest, hidden)
  BY DEF After, h, g
<1> QED
  BY <1>2, <1>3, <1>4 DEF Becomes

LEMMA SeparateTells ==
  ASSUME NEW f, IsKeyed(f)
  PROVE  Becomes(SeparateBlock(f), f.marker, EndLine(f.text))
BY DEF Becomes, IsKeyed, FrameKeys, SeparateBlock

\* Text is given to the marker first.
LEMMA PushTurns ==
  ASSUME NEW f, IsKeyed(f), IsTyped(f), NEW e, e.kind = "text", e.text \in Seq(Characters), NEW hidden
  PROVE  Turns(f, PushItemText(f, e.text, hidden), e)
<1> DEFINE t == e.text
           step == PushMarkerText(f.marker, t)
           g == PushItemText(f, t, hidden)
<1>1. g.marker = step.marker /\ g.text = (f.text \o step.flushed) \o step.rest
  BY AfterTells DEF Becomes, PushItemText
<1>2. e.kind \notin Inline \cup LineEnds /\ e.kind # "start_text"
  BY KindsDiffer
<1> HIDE DEF g
<1>3. CASE f.marker.decided = TRUE
  <2> DEFINE n == <<>>
  <2>1. step = Keep(f.marker, t)
    BY <1>3 DEF PushMarkerText
  <2> HIDE DEF step
  <2>2. step.marker = f.marker /\ step.flushed = n /\ step.rest = t
    BY <2>1, KeepIs
  <2>3. f.text \o n = f.text
    BY DEF IsTyped
  <2>4. g.text = f.text \o t /\ g.marker = f.marker
    <3> HIDE DEF n
    <3> QED  BY <1>1, <2>2, <2>3
  <2>5. g.text \in Seq(Characters) /\ Begins(f.text, g.text)
    BY ZenonT(90), <2>4, ConcatIs DEF Begins, IsTyped
  <2>6. IsTyped(g) /\ Grows(f, g)
    BY <1>3, <2>4, <2>5 DEF IsTyped, Grows
  <2>7. IsTyped(f) /\ e.text \in Seq(Characters)
    OBVIOUS
  <2> HIDE DEF n, g, t
  <2>8. Turns(f, g, e)
    BY ONLY <1>1, <1>2, <1>3, <2>6, <2>7 DEF Turns, step, t
  <2> QED  BY ONLY <2>8 DEF g, t
<1>4. CASE f.marker.decided # TRUE
  <2>1. PICK h \in Seq(Characters) : IsHeld(h) /\ f.marker = Holding(h)
    BY <1>4 DEF IsTyped
  <2>2. Taken(step, h \o t)
    BY <2>1, MarkerFolds
  <2> DEFINE u == h \o t
  <2>3. u \in Seq(Characters)
    BY ConcatIs
  <2> HIDE DEF u, step
  <2>4. /\ step.flushed \in Seq(Characters) /\ step.rest \in Seq(Characters)
        /\ step.marker.decided = TRUE \/ (IsHeld(u) /\ step.marker = Holding(u))
    BY <2>2, <2>3, TakenTypes DEF u
  <2>5. g.text \in Seq(Characters)
    <3>1. f.text \o step.flushed \in Seq(Characters)
      BY <2>4, ConcatIs DEF IsTyped
    <3> QED  BY <1>1, <2>4, <3>1, ConcatIs
  <2>6. IsTyped(g)
    BY <1>1, <2>3, <2>4, <2>5 DEF IsTyped
  <2>7. IsTyped(f) /\ e.text \in Seq(Characters)
    OBVIOUS
  <2> HIDE DEF g, t
  <2>8. Turns(f, g, e)
    BY ONLY <1>1, <1>2, <1>4, <2>6, <2>7 DEF Turns, step, t
  <2> QED  BY ONLY <2>8 DEF g, t
<1> QED
  BY <1>3, <1>4

\* Once it has turned, an item may only go on writing.
LEMMA TurnsOn ==
  ASSUME NEW f, NEW g, NEW e, Turns(f, g, e), e.kind \notin {"text", "start_text"},
         NEW h, Grows(g, h), IsTyped(h)
  PROVE  Turns(f, h, e)
<1>1. f.text \in Seq(Characters) /\ g.text \in Seq(Characters)
  BY DEF Turns, IsTyped
<1>2. f.marker.decided = TRUE => Grows(f, h)
  BY <1>1, BeginsChain DEF Turns, Grows
<1>3. ASSUME NEW step, Yields(f, g, step), step.flushed \in Seq(Characters) PROVE Yields(f, h, step)
  <2>1. f.text \o step.flushed \in Seq(Characters)
    BY <1>1, <1>3, ConcatIs
  <2> QED  BY <1>3, <2>1, BeginsChain DEF Yields, Grows
<1>4. ASSUME f.marker.decided # TRUE
      PROVE  /\ RejectMarker(f.marker).flushed \in Seq(Characters)
             /\ ResolveMarker(f.marker).flushed \in Seq(Characters)
  <2>1. PICK x \in Seq(Characters) : IsHeld(x) /\ f.marker = Holding(x)
    BY <1>4 DEF Turns, IsTyped
  <2> DEFINE e0 == <<>>
  <2>2. e0 \in Seq(Characters)
    OBVIOUS
  <2>3. /\ RejectMarker(f.marker) = Decide(NoMarker, x, e0)
        /\ \/ ResolveMarker(f.marker) = Decide(x[2], e0, e0)
           \/ ResolveMarker(f.marker) = Decide(NoMarker, x, e0)
    BY <2>1, HeldIsDecided
  <2> HIDE DEF e0
  <2> QED  BY <2>2, <2>3, DecideIs
<1>5. e.kind \in Inline /\ f.marker.decided # TRUE => Yields(f, h, RejectMarker(f.marker))
  BY <1>3, <1>4 DEF Turns
<1>6. e.kind \in LineEnds /\ f.marker.decided # TRUE => Yields(f, h, ResolveMarker(f.marker))
  BY <1>3, <1>4 DEF Turns
<1>7. IsTyped(f) /\ IsTyped(h)
  BY DEF Turns
<1> QED
  BY ONLY <1>2, <1>5, <1>6, <1>7, e.kind \notin {"text", "start_text"} DEF Turns

\* What takes the leading place, and what ends the line.
LEMMA DecidedTurns ==
  ASSUME NEW f, IsKeyed(f), IsTyped(f)
  PROVE  /\ \A e : e.kind \in Inline => Turns(f, Reject(f), e)
         /\ \A e : e.kind \in LineEnds => Turns(f, ResolvePending(f), e)
         /\ Reject(f).marker.decided = TRUE
<1> DEFINE Step(m, step) == \/ m.decided = TRUE /\ step = Keep(m, <<>>)
                            \/ \E h \in Seq(Characters) : m = Holding(h) /\ step = Decide(NoMarker, h, <<>>)
                            \/ \E c : m.decided # TRUE /\ step = Decide(c, <<>>, <<>>)
<1>1. ASSUME NEW step, Step(f.marker, step), NEW g, g = After(f, step, FALSE)
      PROVE  /\ IsTyped(g) /\ g.marker.decided = TRUE
             /\ f.marker.decided = TRUE => Grows(f, g)
             /\ Yields(f, g, step)
  <2> DEFINE n == <<>>
           no == FALSE
  <2>1. g.marker = step.marker /\ g.text = (f.text \o step.flushed) \o step.rest
    <3>1. IsKeyed(f) /\ g = After(f, step, no)
      BY <1>1
    <3> HIDE DEF no
    <3> QED  BY ONLY ZenonT(90), <3>1, AfterTells DEF Becomes
  <2>2. f.text \in Seq(Characters)
    BY DEF IsTyped
  <2>3. n \in Seq(Characters) /\ \A t \in Seq(Characters) : t \o n = t
    OBVIOUS
  <2>4. /\ step.flushed \in Seq(Characters) /\ step.rest = n
        /\ step.marker.decided = TRUE
        /\ f.marker.decided = TRUE => step.marker = f.marker /\ step.flushed = n
    <3> HIDE DEF n
    <3>1. CASE f.marker.decided = TRUE /\ step = Keep(f.marker, <<>>)
      <4>1. step.marker = f.marker /\ step.flushed = n /\ step.rest = n
        BY <3>1, KeepIs DEF n
      <4> QED  BY <2>3, <3>1, <4>1
    <3>2. ASSUME NEW c, NEW t \in Seq(Characters), step = Decide(c, t, n), f.marker.decided # TRUE
          PROVE  /\ step.flushed \in Seq(Characters) /\ step.rest = n
                 /\ step.marker.decided = TRUE
                 /\ f.marker.decided = TRUE => step.marker = f.marker /\ step.flushed = n
      <4>1. step.marker = Chose(c) /\ step.flushed = t /\ step.rest = n
        BY <3>2, DecideIs
      <4>2. Chose(c).decided = TRUE
        BY DEF Chose
      <4> QED  BY <3>2, <4>1, <4>2
    <3>3. ASSUME NEW h \in Seq(Characters), f.marker = Holding(h) PROVE f.marker.decided # TRUE
      BY <3>3, HoldingTells
    <3> QED  BY <1>1, <2>3, <3>1, <3>2, <3>3 DEF n
  <2> HIDE DEF n
  <2>5. f.text \o step.flushed \in Seq(Characters) /\ g.text = f.text \o step.flushed
    BY ZenonT(90), <2>1, <2>2, <2>3, <2>4, ConcatIs
  <2>6. Yields(f, g, step)
    BY <2>1, <2>5, BeginsItself DEF Yields
  <2>7. f.marker.decided = TRUE => Grows(f, g)
    BY <2>1, <2>2, <2>3, <2>4, <2>5, BeginsItself DEF Grows
  <2> QED  BY <2>1, <2>4, <2>5, <2>6, <2>7 DEF IsTyped
<1>2. Step(f.marker, RejectMarker(f.marker)) /\ Step(f.marker, ResolveMarker(f.marker))
  <2>1. CASE f.marker.decided = TRUE
    BY <2>1 DEF RejectMarker, ResolveMarker
  <2>2. CASE f.marker.decided # TRUE
    <3>1. PICK h \in Seq(Characters) : IsHeld(h) /\ f.marker = Holding(h)
      BY <2>2 DEF IsTyped
    <3>2. /\ RejectMarker(f.marker) = Decide(NoMarker, h, <<>>)
          /\ \/ ResolveMarker(f.marker) = Decide(h[2], <<>>, <<>>)
             \/ ResolveMarker(f.marker) = Decide(NoMarker, h, <<>>)
      BY <3>1, HeldIsDecided
    <3> QED  BY <2>2, <3>1, <3>2
  <2> QED  BY <2>1, <2>2
<1> HIDE DEF Step
<1>3. ASSUME NEW e, e.kind \in Inline PROVE Turns(f, Reject(f), e)
  <2> DEFINE g == Reject(f)
             step == RejectMarker(f.marker)
  <2>1. g = After(f, step, FALSE)
    BY DEF Reject
  <2> HIDE DEF g
  <2>2. IsTyped(g) /\ (f.marker.decided = TRUE => Grows(f, g)) /\ Yields(f, g, step)
    BY <1>1, <1>2, <2>1
  <2>3. e.kind \notin LineEnds /\ e.kind # "text" /\ e.kind # "start_text"
    BY <1>3, KindsDiffer
  <2>4. Turns(f, g, e)
    BY ONLY <2>2, <2>3, IsTyped(f) DEF Turns
  <2> QED  BY <2>4 DEF g
<1>4. ASSUME NEW e, e.kind \in LineEnds PROVE Turns(f, ResolvePending(f), e)
  <2> DEFINE g == ResolvePending(f)
             step == ResolveMarker(f.marker)
  <2>1. g = After(f, step, FALSE)
    BY DEF ResolvePending
  <2> HIDE DEF g
  <2>2. IsTyped(g) /\ (f.marker.decided = TRUE => Grows(f, g)) /\ Yields(f, g, step)
    BY <1>1, <1>2, <2>1
  <2>3. e.kind \notin Inline /\ e.kind # "text" /\ e.kind # "start_text"
    BY <1>4, KindsDiffer
  <2>4. Turns(f, g, e)
    BY ONLY <2>2, <2>3, IsTyped(f) DEF Turns
  <2> QED  BY <2>4 DEF g
<1>5. Reject(f).marker.decided = TRUE
  BY <1>1, <1>2 DEF Reject
<1> QED
  BY <1>3, <1>4, <1>5

\* What goes on writing.
LEMMA WritesOn ==
  ASSUME NEW g, IsKeyed(g), IsTyped(g)
  PROVE  /\ Grows(g, g)
         /\ \A t \in Seq(Characters) : \A hidden : Grows(g, Write(g, t, hidden)) /\ IsTyped(Write(g, t, hidden))
         /\ Grows(g, SeparateBlock(g)) /\ IsTyped(SeparateBlock(g))
         /\ \A scan : Grows(g, [g EXCEPT !.scan = scan]) /\ IsTyped([g EXCEPT !.scan = scan])
<1> DEFINE Good(h) == h.marker = g.marker /\ \E r \in Seq(Characters) : h.text = g.text \o r
<1>1. ASSUME NEW h, h.marker = g.marker, h.text \in Seq(Characters), Begins(g.text, h.text)
      PROVE  Grows(g, h) /\ IsTyped(h)
  BY <1>1 DEF Grows, IsTyped
<1>2. g.text \in Seq(Characters) /\ Begins(g.text, g.text)
  BY BeginsItself DEF IsTyped
<1>3. Grows(g, g)
  BY <1>2 DEF Grows
<1>4. ASSUME NEW t \in Seq(Characters), NEW hidden
      PROVE  Grows(g, Write(g, t, hidden)) /\ IsTyped(Write(g, t, hidden))
  <2> DEFINE h == Write(g, t, hidden)
  <2>1. h.marker = g.marker /\ h.text = g.text \o t
    BY WriteTells DEF Becomes
  <2> HIDE DEF h
  <2>2. h.text \in Seq(Characters) /\ Begins(g.text, h.text)
    BY <1>2, <2>1, ConcatIs DEF Begins
  <2>3. Grows(g, h) /\ IsTyped(h)
    BY <1>1, <2>1, <2>2
  <2> QED  BY <2>3 DEF h
<1>5. Grows(g, SeparateBlock(g)) /\ IsTyped(SeparateBlock(g))
  <2> DEFINE h == SeparateBlock(g)
  <2>1. h.marker = g.marker /\ h.text = EndLine(g.text)
    BY SeparateTells DEF Becomes
  <2> HIDE DEF h
  <2>2. h.text \in Seq(Characters) /\ Begins(g.text, h.text)
    BY <1>2, <2>1, EndLineBegins
  <2>3. Grows(g, h) /\ IsTyped(h)
    BY <1>1, <2>1, <2>2
  <2> QED  BY <2>3 DEF h
<1>6. ASSUME NEW scan
      PROVE  Grows(g, [g EXCEPT !.scan = scan]) /\ IsTyped([g EXCEPT !.scan = scan])
  <2> DEFINE h == [g EXCEPT !.scan = scan]
  <2>1. h.marker = g.marker /\ h.text = g.text
    BY DEF IsKeyed, FrameKeys
  <2> HIDE DEF h
  <2>2. Grows(g, h) /\ IsTyped(h)
    BY <1>1, <1>2, <2>1
  <2> QED  BY <2>2 DEF h
<1> QED
  BY <1>3, <1>4, <1>5, <1>6

\* The marker of an item that has decided lets its text pass.
LEMMA PushesOn ==
  ASSUME NEW g, IsKeyed(g), IsTyped(g), g.marker.decided = TRUE, NEW t \in Seq(Characters), NEW hidden
  PROVE  Grows(g, PushItemText(g, t, hidden)) /\ IsTyped(PushItemText(g, t, hidden))
<1> DEFINE e == [kind |-> "text", text |-> t]
           h == PushItemText(g, t, hidden)
<1>1. e.kind = "text" /\ e.text = t
  OBVIOUS
<1> HIDE DEF e
<1>2. Turns(g, h, e)
  BY <1>1, PushTurns
<1> QED
  BY <1>2 DEF Turns

LEMMA IdleTurns ==
  ASSUME NEW f, IsKeyed(f), IsTyped(f), NEW e, e.kind \in Idle, NEW g, Grows(f, g), IsTyped(g)
  PROVE  Turns(f, g, e)
<1>1. e.kind \notin Inline /\ e.kind \notin LineEnds /\ e.kind # "text" /\ e.kind # "start_text"
  BY KindsDiffer
<1> QED
  BY <1>1 DEF Turns

LEMMA BlockTurns ==
  ASSUME NEW f, IsKeyed(f), IsTyped(f), NEW e, e.kind = "start_text"
  PROVE  Turns(f, SeparateBlock(f), e)
<1> DEFINE g == SeparateBlock(f)
<1>1. Grows(f, g) /\ IsTyped(g) /\ g.marker = f.marker /\ g.text = EndLine(f.text)
  BY WritesOn, SeparateTells DEF Becomes
<1>2. e.kind \notin Inline /\ e.kind \notin LineEnds /\ e.kind # "text"
  BY KindsDiffer
<1> HIDE DEF g
<1>3. Turns(f, g, e)
  BY <1>1, <1>2 DEF Turns
<1> QED
  BY <1>3 DEF g

LEMMA LineEndTurns ==
  ASSUME NEW f, IsKeyed(f), IsTyped(f), NEW e, e.kind \in LineEnds
  PROVE  /\ Turns(f, ResolvePending(f), e)
         /\ Turns(f, SeparateBlock(ResolvePending(f)), e)
         /\ \A t \in Seq(Characters) : \A hidden : Turns(f, Write(ResolvePending(f), t, hidden), e)
         /\ Turns(f, Flush(f).item, e)
<1> DEFINE g == ResolvePending(f)
<1>1. IsKeyed(g) /\ Turns(f, g, e)
  BY MarkerStepsKeep, DecidedTurns
<1>2. IsTyped(g)
  BY <1>1 DEF Turns
<1>3. e.kind \notin {"text", "start_text"}
  BY KindsDiffer
<1> HIDE DEF g
<1>4. \A h : Grows(g, h) /\ IsTyped(h) => Turns(f, h, e)
  BY <1>1, <1>3, TurnsOn
<1>5. Turns(f, SeparateBlock(g), e) /\ \A t \in Seq(Characters) : \A hidden : Turns(f, Write(g, t, hidden), e)
  BY <1>1, <1>2, <1>4, WritesOn
<1>6. Turns(f, Flush(f).item, e)
  <2> DEFINE found == ScanMetadata(g.scan, g.marker.symbol # NoMarker)
             h == [g EXCEPT !.scan = <<>>, !.fields = @ \o found.fields, !.tags = @ \o found.tags]
  <2>1. Flush(f).item = h
    <3>1. Flush(f) = Scanned(g, found)
      BY DEF Flush, FlushResolved, g
    <3> HIDE DEF found
    <3> QED  BY <3>1 DEF Scanned
  <2>2. h.marker = g.marker /\ h.text = g.text
    <3> HIDE DEF found
    <3> QED  BY <1>1 DEF IsKeyed, FrameKeys
  <2> HIDE DEF h
  <2>3. Grows(g, h) /\ IsTyped(h)
    BY <1>1, <1>2, <2>2, WritesOn DEF Grows, IsTyped
  <2> QED  BY <1>4, <2>1, <2>3
<1> QED
  BY <1>1, <1>5, <1>6 DEF g

LEMMA InlineTurns ==
  ASSUME NEW f, IsKeyed(f), IsTyped(f), NEW e, e.kind \in Inline
  PROVE  /\ Turns(f, Reject(f), e)
         /\ \A scan : Turns(f, [Reject(f) EXCEPT !.scan = scan], e)
         /\ \A t \in Seq(Characters) : \A hidden :
              Turns(f, Write(Reject(f), t, hidden), e) /\ Turns(f, PushItemText(Reject(f), t, hidden), e)
<1> DEFINE g == Reject(f)
<1>1. IsKeyed(g) /\ Turns(f, g, e) /\ g.marker.decided = TRUE
  BY MarkerStepsKeep, DecidedTurns
<1>2. IsTyped(g)
  BY <1>1 DEF Turns
<1>3. e.kind \notin {"text", "start_text"}
  BY KindsDiffer
<1> HIDE DEF g
<1>4. \A h : Grows(g, h) /\ IsTyped(h) => Turns(f, h, e)
  BY <1>1, <1>3, TurnsOn
<1>5. /\ \A scan : Turns(f, [g EXCEPT !.scan = scan], e)
      /\ \A t \in Seq(Characters) : \A hidden : Turns(f, Write(g, t, hidden), e)
  BY <1>1, <1>2, <1>4, WritesOn
<1>6. \A t \in Seq(Characters) : \A hidden : Turns(f, PushItemText(g, t, hidden), e)
  BY <1>1, <1>2, <1>4, PushesOn
<1> QED
  BY <1>1, <1>5, <1>6 DEF g

-----------------------------------------------------------------------------
(* The marker of an open item *)

\* What a frame has read of a text that leads its item.
Reads(f, t) ==
  /\ t \in Seq(Characters)
  /\ IsHeld(t) => f.marker = Holding(t) /\ f.text = <<>>
  /\ ~IsHeld(t) => f.marker = Chose(Symbol(t)) /\ f.text = Remains(t)

LEMMA ChoseTells == \A c : Chose(c).decided = TRUE
BY DEF Chose

LEMMA AfterFour ==
  ASSUME NEW t \in Seq(Characters), Len(t) >= 4
  PROVE  /\ SubSeq(t, 5, Len(t)) \in Seq(Characters) /\ Len(SubSeq(t, 5, Len(t))) = Len(t) - 4
         /\ \A n \in 1..(Len(t) - 4) : SubSeq(t, 5, Len(t))[n] = t[4 + n]
<1> DEFINE k == 5
           lt == Len(t)
<1>1. k \in 1..(Len(t) + 1) /\ t \in Seq(Characters) /\ Len(t) \in Nat
  OBVIOUS
<1>2. k = 5
  OBVIOUS
<1> HIDE DEF k
<1>3. /\ SubSeq(t, k, Len(t)) \in Seq(Characters)
      /\ Len(SubSeq(t, k, Len(t))) = Len(t) - k + 1
      /\ \A n \in 1..(Len(t) - k + 1) : SubSeq(t, k, Len(t))[n] = t[k + n - 1]
  BY ONLY <1>1
<1>4. lt \in Nat
  BY <1>1
<1> DEFINE p == SubSeq(t, k, Len(t))
<1>5. /\ p \in Seq(Characters) /\ Len(p) = lt - k + 1
      /\ \A n \in 1..(lt - k + 1) : p[n] = t[k + n - 1]
  BY <1>3
<1> HIDE DEF p, lt
<1>6. lt - k + 1 = lt - 4 /\ \A n \in 1..(lt - 4) : k + n - 1 = 4 + n
  BY ONLY <1>2, <1>4
<1>7. p \in Seq(Characters) /\ Len(p) = lt - 4 /\ \A n \in 1..(lt - 4) : p[n] = t[4 + n]
  BY ONLY <1>5, <1>6
<1> QED
  BY <1>2, <1>7 DEF p, lt

\* A text that is neither a marker nor the beginning of one stays so, and a
\* marker keeps its symbol.
LEMMA DecidedStays ==
  ASSUME NEW a \in Seq(Characters), ~IsHeld(a), NEW b \in Seq(Characters)
  PROVE  /\ ~IsHeld(a \o b) /\ Symbol(a \o b) = Symbol(a)
         /\ Remains(a \o b) = Remains(a) \o b
<1> DEFINE u == a \o b
<1>1. /\ u \in Seq(Characters) /\ Len(a) \in Nat /\ Len(b) \in Nat /\ Len(u) = Len(a) + Len(b)
      /\ \A n \in 1..Len(a) : u[n] = a[n]
      /\ \A n \in 1..Len(b) : u[Len(a) + n] = b[n]
  BY ConcatIs
<1>2. Len(a) # 0 /\ a # <<>>
  BY DEF IsHeld
<1>3. u # <<>> /\ Len(u) # 0
  BY <1>1, <1>2
<1> HIDE DEF u
<1>4. CASE Forms(a)
  <2>1. Len(a) >= 4
    BY <1>1, <1>4 DEF IsHeld
  <2>2. Forms(u) /\ u[2] = a[2] /\ Len(u) >= 4
    BY <1>1, <1>4, <2>1, FormsAt DEF u
  <2>3. ~IsHeld(u)
    BY <1>3, <2>2 DEF IsHeld
  <2> DEFINE p == SubSeq(u, 5, Len(u))
             q == SubSeq(a, 5, Len(a))
             r == q \o b
  <2>4. p = r
    <3> DEFINE la == Len(a)
               lb == Len(b)
               lu == Len(u)
    <3>1. la \in Nat /\ lb \in Nat /\ lu = la + lb /\ la >= 4 /\ lu \in Nat
      BY <1>1, <2>1
    <3>2. /\ p \in Seq(Characters) /\ Len(p) = lu - 4
          /\ \A n \in 1..(lu - 4) : p[n] = u[4 + n]
      BY <1>1, <2>2, AfterFour
    <3>3. /\ q \in Seq(Characters) /\ Len(q) = la - 4
          /\ \A n \in 1..(la - 4) : q[n] = a[4 + n]
      BY <2>1, AfterFour
    <3> HIDE DEF p, q
    <3>4. /\ r \in Seq(Characters) /\ Len(r) = (la - 4) + lb
          /\ \A n \in 1..(la - 4) : r[n] = q[n]
          /\ \A n \in 1..lb : r[(la - 4) + n] = b[n]
      <4>1. /\ r \in Seq(Characters) /\ Len(r) = Len(q) + lb
            /\ \A n \in 1..Len(q) : r[n] = q[n]
            /\ \A n \in 1..lb : r[Len(q) + n] = b[n]
        <5>1. q \in Seq(Characters) /\ b \in Seq(Characters)
          BY <3>3
        <5> HIDE DEF la, lu
        <5> QED  BY ONLY <5>1, ConcatIs DEF r, lb
      <4> HIDE DEF r, la, lb, lu
      <4> QED  BY ONLY <3>3, <4>1
    <3> HIDE DEF r
    <3>5. \A n \in 1..la : u[n] = a[n]
      BY <1>1
    <3>6. \A n \in 1..lb : u[la + n] = b[n]
      BY <1>1
    <3> HIDE DEF la, lb, lu
    <3>7. \A n \in 1..(lu - 4) : p[n] = r[n]
      <4> TAKE n \in 1..(lu - 4)
      <4>1. CASE n <= la - 4
        <5>1. n \in 1..(la - 4) /\ 4 + n \in 1..la
          BY <3>1, <4>1
        <5> QED  BY <3>2, <3>3, <3>4, <3>5, <5>1
      <4>2. CASE ~(n <= la - 4)
        <5> DEFINE k == n - (la - 4)
        <5>1. k \in 1..lb /\ n = (la - 4) + k /\ 4 + n = la + k
          BY <3>1, <4>2
        <5> HIDE DEF k
        <5>2. r[n] = b[k] /\ u[4 + n] = b[k]
          BY <3>4, <3>6, <5>1
        <5> QED  BY <3>2, <5>2
      <4> QED  BY <4>1, <4>2
    <3>8. p \in Seq(Characters) /\ r \in Seq(Characters) /\ Len(p) = lu - 4 /\ Len(r) = lu - 4
      BY <3>1, <3>2, <3>4
    <3> QED  BY ONLY <3>7, <3>8, SameElements
  <2> HIDE DEF p, q
  <2> QED  BY <1>4, <2>2, <2>3, <2>4 DEF Symbol, Remains, u, p, q
<1>5. CASE ~Forms(a)
  <2>1. ~Forms(u)
    <3> SUFFICES ASSUME Forms(u) PROVE Forms(a)
      BY <1>5
    <3> DEFINE la == Len(a)
               lu == Len(u)
    <3>1. la \in Nat /\ la # 0 /\ lu \in Nat /\ lu >= la
      BY <1>1, <1>2
    <3>2. \A n \in 1..la : u[n] = a[n]
      BY <1>1
    <3>3. /\ lu >= 1 /\ u[1] = "["
          /\ lu >= 2 => IsSymbol(u[2])
          /\ lu >= 3 => u[3] = "]"
          /\ lu >= 4 => u[4] \in White
      BY DEF Forms
    <3> HIDE DEF la, lu
    <3>4. /\ la >= 1 /\ a[1] = "["
          /\ la >= 2 => IsSymbol(a[2])
          /\ la >= 3 => a[3] = "]"
          /\ la >= 4 => a[4] \in White
      <4>1. u[1] = a[1] /\ (la >= 2 => u[2] = a[2]) /\ (la >= 3 => u[3] = a[3]) /\ (la >= 4 => u[4] = a[4])
        BY <3>1, <3>2
      <4> QED  BY <3>1, <3>3, <4>1
    <3> QED  BY <3>4 DEF Forms, la
  <2>2. ~IsHeld(u)
    BY <1>3, <2>1 DEF IsHeld
  <2> QED  BY <1>5, <2>1, <2>2 DEF Symbol, Remains, u
<1> QED
  BY <1>4, <1>5

\* An item that reads on has read what it was given.
LEMMA ReadsOn ==
  ASSUME NEW f, NEW t, Reads(f, t), NEW g, NEW e, Turns(f, g, e), e.kind = "text"
  PROVE  Reads(g, t \o e.text)
<1> DEFINE w == e.text
           step == PushMarkerText(f.marker, w)
           u == t \o w
<1>1. w \in Seq(Characters) /\ g.marker = step.marker /\ g.text = (f.text \o step.flushed) \o step.rest
  BY DEF Turns
<1>2. t \in Seq(Characters) /\ u \in Seq(Characters)
  BY <1>1, ConcatIs DEF Reads
<1>3. CASE IsHeld(t)
  <2> DEFINE n == <<>>
  <2>1. Taken(step, u)
    BY <1>1, <1>2, <1>3, MarkerFolds DEF Reads
  <2>2. f.text = n /\ \A r \in Seq(Characters) : n \o r = r
    BY <1>3 DEF Reads
  <2> HIDE DEF step, u
  <2>3. CASE IsHeld(u)
    <3>1. step.marker = Holding(u) /\ step.flushed = n /\ step.rest = n
      BY <2>1, <2>3 DEF Taken
    <3>2. n \o n = n /\ n \in Seq(Characters)
      OBVIOUS
    <3>3. g.text = n /\ g.marker = Holding(u)
      <4> HIDE DEF n
      <4> QED  BY <1>1, <2>2, <3>1, <3>2
    <3> QED  BY <1>2, <2>3, <3>3 DEF Reads, n, u
  <2>4. CASE ~IsHeld(u)
    <3>1. /\ step.marker = Chose(Symbol(u)) /\ step.flushed \in Seq(Characters)
          /\ step.rest \in Seq(Characters) /\ step.flushed \o step.rest = Remains(u)
      BY <2>1, <2>4 DEF Taken
    <3>2. g.text = Remains(u) /\ g.marker = Chose(Symbol(u))
      <4> HIDE DEF n
      <4> QED  BY <1>1, <2>2, <3>1
    <3> QED  BY <1>2, <2>4, <3>2 DEF Reads, u
  <2> QED  BY <2>3, <2>4
<1>4. CASE ~IsHeld(t)
  <2> DEFINE n == <<>>
  <2>1. f.marker = Chose(Symbol(t)) /\ f.text = Remains(t) /\ f.marker.decided = TRUE
    BY <1>4, ChoseTells DEF Reads
  <2>2. step = Keep(f.marker, w)
    BY <2>1 DEF PushMarkerText
  <2> HIDE DEF step
  <2>3. step.marker = f.marker /\ step.flushed = n /\ step.rest = w
    BY <2>2, KeepIs
  <2>4. f.text \o n = f.text
    BY DEF Turns, IsTyped
  <2>5. g.marker = Chose(Symbol(t)) /\ g.text = Remains(t) \o w
    <3> HIDE DEF n
    <3> QED  BY <1>1, <2>1, <2>3, <2>4
  <2>6. ~IsHeld(u) /\ Symbol(u) = Symbol(t) /\ Remains(u) = Remains(t) \o w
    BY <1>1, <1>2, <1>4, DecidedStays
  <2> HIDE DEF u
  <2> QED  BY <1>2, <2>5, <2>6 DEF Reads, u
<1> QED
  BY <1>3, <1>4

\* Its symbol is the one an item is to have, and its text goes on what the item
\* leads with.
Settled(f, s) ==
  IsSettled(s) =>
    /\ LeadText(s) \in Seq(Characters)
    /\ f.marker = Chose(IF IsMarked(s) THEN LeadText(s)[2] ELSE NoMarker)
    /\ LeadRest(s) \in Seq(Characters) /\ Begins(LeadRest(s), f.text)

LEMMA YieldsDecision ==
  ASSUME NEW f, NEW g, NEW c, NEW x \in Seq(Characters), NEW y, Yields(f, g, Decide(c, x, y)), f.text = <<>>
  PROVE  g.marker = Chose(c) /\ Begins(x, g.text)
<1> DEFINE step == Decide(c, x, y)
<1>1. step.marker = Chose(c) /\ step.flushed = x
  BY DecideIs
<1>2. Yields(f, g, step)
  OBVIOUS
<1> HIDE DEF step
<1>3. g.marker = Chose(c) /\ Begins(f.text \o x, g.text)
  BY <1>1, <1>2 DEF Yields
<1>4. <<>> \o x = x
  OBVIOUS
<1>5. f.text \o x = x
  BY <1>4
<1> QED
  BY <1>3, <1>5

\* Where the line ends, an item has decided, if its line shows what it is.
LEMMA ReadSettles ==
  ASSUME NEW s, NEW f, Reads(f, LeadText(s)), NEW g, Turns(f, g, Events[LeadEnd(s)])
  PROVE  Settled(g, s)
<1> DEFINE t == LeadText(s)
           e == Events[LeadEnd(s)]
<1> SUFFICES ASSUME IsSettled(s)
             PROVE  /\ g.marker = Chose(IF IsMarked(s) THEN LeadText(s)[2] ELSE NoMarker)
                    /\ LeadRest(s) \in Seq(Characters) /\ Begins(LeadRest(s), g.text)
  <2>1. t \in Seq(Characters)
    BY DEF Reads
  <2> QED  BY <2>1 DEF Settled
<1>1. t \in Seq(Characters) /\ Len(t) \in Nat
  BY DEF Reads
<1>2. IsMarked(s) <=> Forms(t) /\ Len(t) >= 3 /\ (Len(t) = 3 => e.kind \notin Inline)
  <2> DEFINE lt == Len(t)
  <2>1. IsMarked(s) <=> /\ lt >= 3
                        /\ t[1] = "[" /\ IsSymbol(t[2]) /\ t[3] = "]"
                        /\ IF lt > 3 THEN t[4] \in White ELSE e.kind \notin Inline
    BY DEF IsMarked
  <2>2. Forms(t) <=> /\ lt >= 1 /\ t[1] = "["
                     /\ lt >= 2 => IsSymbol(t[2])
                     /\ lt >= 3 => t[3] = "]"
                     /\ lt >= 4 => t[4] \in White
    BY DEF Forms
  <2>3. lt \in Nat
    BY <1>1
  <2> HIDE DEF lt, t, e
  <2>4. lt >= 3 => (lt > 3 <=> lt >= 4) /\ (lt > 3 <=> lt # 3) /\ lt >= 1 /\ lt >= 2
    BY ONLY <2>3
  <2> HIDE DEF IsMarked, Forms
  <2>5. IsMarked(s) <=> Forms(t) /\ lt >= 3 /\ (lt = 3 => e.kind \notin Inline)
    BY ONLY <2>1, <2>2, <2>4
  <2> QED  BY ONLY <2>5 DEF lt
<1>3. LeadRest(s) = IF IsMarked(s) THEN SubSeq(t, 5, Len(t)) ELSE t
  BY DEF LeadRest
<1> HIDE DEF t, e
<1>4. CASE ~IsHeld(t)
  <2>1. Len(t) # 0
    BY <1>1, <1>4 DEF IsHeld
  <2>2. IsMarked(s) <=> Forms(t)
    <3> DEFINE lt == Len(t)
    <3>1. /\ Forms(t) => ~(lt < 4)
          /\ IsMarked(s) <=> Forms(t) /\ lt >= 3 /\ (lt = 3 => e.kind \notin Inline)
          /\ lt \in Nat
      BY <1>1, <1>2, <1>4 DEF IsHeld
    <3> HIDE DEF lt
    <3>2. ~(lt < 4) => lt >= 3 /\ lt # 3
      BY ONLY <3>1
    <3> QED  BY ONLY <3>1, <3>2
  <2>3. LeadRest(s) = Remains(t) /\ Symbol(t) = IF IsMarked(s) THEN t[2] ELSE NoMarker
    BY <1>3, <2>2 DEF Remains, Symbol
  <2>4. f.marker = Chose(Symbol(t)) /\ f.text = Remains(t) /\ f.marker.decided = TRUE
    BY <1>4, ChoseTells DEF Reads, t
  <2>5. Grows(f, g) /\ f.text \in Seq(Characters)
    BY <2>4 DEF Turns, IsTyped
  <2> QED  BY <2>3, <2>4, <2>5 DEF Grows, t
<1>5. CASE IsHeld(t)
  <2> DEFINE n == <<>>
  <2>0. f.marker = Holding(t) /\ f.text = n /\ f.marker.decided # TRUE
    BY <1>5, HoldingTells DEF Reads, t
  <2>1. Len(t) < 4 /\ (Forms(t) \/ t = <<>>)
    <3>1. t = <<>> => Len(t) = 0
      OBVIOUS
    <3> QED  BY <1>5, <3>1 DEF IsHeld
  <2>2. e.kind \in Inline \cup LineEnds
    <3>1. ~(t # <<>> /\ ScanMarkerPrefix(t) # "incomplete")
      BY <1>1, <2>1, ScanIs
    <3> QED  BY <3>1 DEF IsSettled, t, e
  <2>3. /\ n \in Seq(Characters) /\ \A x \in Seq(Characters) : n \o x = x
    OBVIOUS
  <2>4. CASE e.kind \in Inline
    <3>1. ~IsMarked(s)
      <4> DEFINE lt == Len(t)
      <4>1. /\ lt \in Nat /\ lt < 4
            /\ IsMarked(s) <=> Forms(t) /\ lt >= 3 /\ (lt = 3 => e.kind \notin Inline)
        BY <1>1, <1>2, <2>1
      <4> HIDE DEF lt
      <4>2. lt >= 3 => lt = 3
        BY ONLY <4>1
      <4> QED  BY ONLY <2>4, <4>1, <4>2
    <3>2. Yields(f, g, Decide(NoMarker, t, n))
      BY <1>1, <1>5, <2>0, <2>4, HeldIsDecided DEF Turns, e
    <3>3. g.marker = Chose(NoMarker) /\ Begins(t, g.text)
      BY <1>1, <2>0, <3>2, YieldsDecision
    <3> QED  BY <1>1, <1>3, <3>1, <3>3
  <2>5. CASE e.kind \in LineEnds
    <3>1. IsMarked(s) <=> Forms(t) /\ Len(t) = 3
      <4> DEFINE lt == Len(t)
      <4>1. /\ lt \in Nat /\ lt < 4
            /\ IsMarked(s) <=> Forms(t) /\ lt >= 3 /\ (lt = 3 => e.kind \notin Inline)
        BY <1>1, <1>2, <2>1
      <4> HIDE DEF lt
      <4>2. lt >= 3 <=> lt = 3
        BY ONLY <4>1
      <4>3. e.kind \notin Inline
        BY ONLY <2>5, KindsDiffer
      <4>4. IsMarked(s) <=> Forms(t) /\ lt = 3
        BY ONLY <4>1, <4>2, <4>3
      <4> QED  BY ONLY <4>4 DEF lt
    <3>2. Yields(f, g, ResolveMarker(Holding(t)))
      BY <2>0, <2>5 DEF Turns, e
    <3>3. CASE IsMarked(s)
      <4>1. ResolveMarker(Holding(t)) = Decide(t[2], n, n)
        BY <1>1, <1>5, <3>1, <3>3, HeldIsDecided
      <4>2. g.marker = Chose(t[2]) /\ Begins(n, g.text)
        <5> DEFINE c == t[2]
        <5>1. Yields(f, g, Decide(c, n, n)) /\ n \in Seq(Characters) /\ f.text = <<>>
          BY <2>0, <2>3, <3>2, <4>1
        <5> HIDE DEF n, c
        <5>2. g.marker = Chose(c) /\ Begins(n, g.text)
          BY <5>1, YieldsDecision
        <5> QED  BY <5>2 DEF c
      <4>3. LeadRest(s) = n
        <5>1. SubSeq(t, 5, 3) = <<>>
          BY <1>1
        <5>2. LeadRest(s) = SubSeq(t, 5, 3)
          BY <1>3, <3>1, <3>3
        <5> QED  BY <5>1, <5>2
      <4> HIDE DEF n
      <4> QED  BY <2>3, <3>3, <4>2, <4>3 DEF t
    <3>4. CASE ~IsMarked(s)
      <4>1. ResolveMarker(Holding(t)) = Decide(NoMarker, t, n)
        BY <1>1, <1>5, <3>1, <3>4, HeldIsDecided
      <4>2. g.marker = Chose(NoMarker) /\ Begins(t, g.text)
        BY <1>1, <2>0, <3>2, <4>1, YieldsDecision
      <4> QED  BY <1>1, <1>3, <3>4, <4>2
    <3> QED  BY <3>3, <3>4
  <2> QED  BY <2>2, <2>4, <2>5
<1> QED
  BY <1>4, <1>5

\* And it keeps what it has decided.
LEMMA SettledStays ==
  ASSUME NEW s, NEW f, Settled(f, s), NEW g, Grows(f, g) \/ (\E e : Turns(f, g, e))
  PROVE  Settled(g, s)
<1> SUFFICES ASSUME IsSettled(s)
             PROVE  /\ LeadText(s) \in Seq(Characters)
                    /\ g.marker = Chose(IF IsMarked(s) THEN LeadText(s)[2] ELSE NoMarker)
                    /\ LeadRest(s) \in Seq(Characters) /\ Begins(LeadRest(s), g.text)
  BY DEF Settled
<1>1. /\ LeadText(s) \in Seq(Characters)
      /\ f.marker = Chose(IF IsMarked(s) THEN LeadText(s)[2] ELSE NoMarker)
      /\ LeadRest(s) \in Seq(Characters) /\ Begins(LeadRest(s), f.text)
  BY DEF Settled
<1>2. f.marker.decided = TRUE
  BY <1>1, ChoseTells
<1>3. Grows(f, g)
  BY <1>2 DEF Turns
<1> QED
  BY <1>1, <1>3, BeginsChain DEF Grows

\* What an item has read of its line at event i.
LeadTo(s, i) == IF i <= LeadFrom(s) THEN <<>> ELSE TextOf(LeadFrom(s), i)

\* The frame of item s at event i has read its line so far, or settled it.
Leading(f, s, i) ==
  /\ IsTyped(f)
  /\ i <= LeadEnd(s) => Reads(f, LeadTo(s, i))
  /\ i > LeadEnd(s) => Settled(f, s)

LEMMA LeadToIs ==
  ASSUME Nested, NEW s \in Items
  PROVE  /\ LeadTo(s, LeadEnd(s)) = LeadText(s)
         /\ \A i \in Nat : i <= LeadFrom(s) => LeadTo(s, i) = <<>>
         /\ \A i \in LeadFrom(s)..(LeadEnd(s) - 1) : LeadTo(s, i + 1) = LeadTo(s, i) \o Events[i].text
<1> DEFINE a == LeadFrom(s)
           z == LeadEnd(s)
<1>1. /\ a \in Nat /\ z \in Nat /\ a <= z /\ z <= Len(Events) /\ 1 <= a /\ Len(Events) \in Nat
  <2>1. s \in Nat /\ 1 <= s /\ EndOf(s) \in Nat /\ Len(Events) \in Nat
    BY StartsAre DEF Items, Nested
  <2>2. /\ a \in {s + 1, s + 2} /\ z \in Nat /\ a <= z /\ z <= EndOf(s) /\ EndOf(s) <= Len(Events)
    BY LeadIs
  <2> HIDE DEF a, z
  <2> QED  BY <2>1, <2>2
<1>2. /\ TextOf(a, a) = <<>>
      /\ \A j \in a..Len(Events) : TextOf(a, j + 1) = TextOf(a, j) \o Events[j].text
  <2>1. a \in 1..(Len(Events) + 1)
    BY <1>1
  <2> HIDE DEF a
  <2> QED  BY <2>1, TextOfIs
<1>3. LeadText(s) = TextOf(a, z)
  BY DEF LeadText
<1>4. \A i : LeadTo(s, i) = IF i <= a THEN <<>> ELSE TextOf(a, i)
  BY DEF LeadTo
<1> HIDE DEF a, z
<1>5. \A i \in a..z : LeadTo(s, i) = TextOf(a, i)
  <2> TAKE i \in a..z
  <2>1. i <= a => i = a
    BY <1>1
  <2> QED  BY <1>2, <1>4, <2>1
<1>6. LeadTo(s, z) = LeadText(s)
  BY <1>1, <1>3, <1>5
<1>7. ASSUME NEW i \in a..(z - 1) PROVE LeadTo(s, i + 1) = LeadTo(s, i) \o Events[i].text
  <2>1. i \in a..z /\ i + 1 \in a..z /\ i \in a..Len(Events)
    BY <1>1
  <2> QED  BY <1>2, <1>5, <2>1
<1> QED
  BY <1>4, <1>6, <1>7 DEF a, z

LEMMA EmptyReads ==
  ASSUME NEW f, Reads(f, <<>>)
  PROVE  f.marker = Holding(<<>>) /\ f.text = <<>>
BY DEF Reads, IsHeld

LEMMA ReadsEmpty ==
  ASSUME NEW f, f.marker = Holding(<<>>), f.text = <<>>
  PROVE  Reads(f, <<>>)
<1>1. <<>> \in Seq(Characters)
  OBVIOUS
<1> QED
  BY <1>1 DEF Reads, IsHeld

\* An open item takes the events after its start in their order.
LEMMA LeadTurns ==
  ASSUME Nested, NEW s \in Items, NEW i \in Nat, s < i,
         NEW f, Leading(f, s, i), NEW g, Turns(f, g, Events[i])
  PROVE  Leading(g, s, i + 1)
<1> DEFINE a == LeadFrom(s)
           z == LeadEnd(s)
<1>1. /\ s \in Nat /\ a \in {s + 1, s + 2} /\ z \in Nat /\ a <= z
      /\ a = s + 2 => Events[s + 1].kind = "start_text"
      /\ \A j \in a..(z - 1) : Events[j].kind = "text"
  BY StartsAre, LeadIs DEF Items
<1>2. IsTyped(g)
  BY DEF Turns
<1>3. /\ LeadTo(s, z) = LeadText(s)
      /\ \A j \in Nat : j <= a => LeadTo(s, j) = <<>>
      /\ \A j \in a..(z - 1) : LeadTo(s, j + 1) = LeadTo(s, j) \o Events[j].text
  BY LeadToIs
<1>4. /\ i <= z => Reads(f, LeadTo(s, i))
      /\ i > z => Settled(f, s)
  BY DEF Leading
<1> HIDE DEF a, z
<1>5. CASE i < a
  <2>1. i = s + 1 /\ a = s + 2 /\ i + 1 = a /\ i <= z /\ i + 1 <= z
    BY <1>1, <1>5
  <2>2. LeadTo(s, i) = <<>> /\ LeadTo(s, i + 1) = <<>>
    <3>1. i + 1 \in Nat /\ i + 1 <= a /\ i <= a
      BY <1>1, <2>1
    <3> QED  BY <1>3, <3>1
  <2>3. f.marker = Holding(<<>>) /\ f.text = <<>>
    BY <1>4, <2>1, <2>2, EmptyReads
  <2>4. g.marker = f.marker /\ g.text = EndLine(f.text)
    BY <1>1, <2>1 DEF Turns
  <2>5. g.marker = Holding(<<>>) /\ g.text = <<>>
    BY <2>3, <2>4 DEF EndLine
  <2>6. Reads(g, <<>>)
    BY <2>5, ReadsEmpty
  <2>7. ~(i + 1 > z)
    BY <1>1, <2>1
  <2> QED  BY <1>2, <2>2, <2>6, <2>7 DEF Leading, z
<1>6. CASE a <= i /\ i < z
  <2>1. i \in a..(z - 1) /\ i <= z /\ ~(i + 1 > z)
    BY <1>1, <1>6
  <2>2. Events[i].kind = "text" /\ LeadTo(s, i + 1) = LeadTo(s, i) \o Events[i].text
    BY <1>1, <1>3, <2>1
  <2>3. Reads(g, LeadTo(s, i) \o Events[i].text)
    BY <1>4, <2>1, <2>2, ReadsOn
  <2> QED  BY <1>2, <2>1, <2>2, <2>3 DEF Leading, z
<1>7. CASE i = z
  <2>1. Reads(f, LeadText(s))
    BY <1>3, <1>4, <1>7
  <2>2. Settled(g, s)
    BY <1>7, <2>1, ReadSettles DEF z
  <2>3. ~(i + 1 <= z)
    BY <1>1, <1>7
  <2> QED  BY <1>2, <2>2, <2>3 DEF Leading, z
<1>8. CASE i > z
  <2>1. Settled(g, s)
    BY <1>4, <1>8, SettledStays
  <2>2. ~(i + 1 <= z)
    BY <1>1, <1>8
  <2> QED  BY <1>2, <2>1, <2>2 DEF Leading, z
<1> QED
  BY <1>1, <1>5, <1>6, <1>7, <1>8

\* An item with another open in it has its line behind it.
LEMMA OuterSettled ==
  ASSUME Nested, NEW i \in Nat, NEW s \in Around("start_item", i), NEW t \in Around("start_item", i), s < t
  PROVE  i > LeadEnd(s)
<1> DEFINE a == LeadFrom(s)
           z == LeadEnd(s)
<1>1. /\ s \in Items /\ t \in Items /\ t < i /\ t \in Nat /\ s \in Nat
      /\ Events[t].kind = "start_item"
  BY AroundIs, StartsAre DEF Items
<1>2. /\ a \in {s + 1, s + 2} /\ z \in Nat /\ a <= z
      /\ a = s + 2 => Events[s + 1].kind = "start_text"
      /\ \A j \in a..(z - 1) : Events[j].kind = "text"
  BY <1>1, LeadIs
<1> HIDE DEF a, z
<1>3. t # s + 1 \/ a = s + 1
  <2>1. "start_item" # "start_text"
    OBVIOUS
  <2> QED  BY <1>1, <1>2, <2>1
<1>4. t >= a
  BY <1>1, <1>2, <1>3
<1>5. ~(t \in a..(z - 1))
  <2>1. "start_item" # "text"
    OBVIOUS
  <2> QED  BY <1>1, <1>2, <2>1
<1>6. t >= z
  BY <1>1, <1>2, <1>4, <1>5
<1> QED
  BY <1>1, <1>2, <1>6 DEF z

\* It stays as it is.
LEMMA OuterStays ==
  ASSUME NEW s, NEW i \in Nat, LeadEnd(s) \in Nat, i > LeadEnd(s), NEW f, Leading(f, s, i),
         NEW g, g.marker = f.marker, g.text = f.text
  PROVE  Leading(g, s, i + 1)
<1>1. Settled(f, s) /\ IsTyped(f)
  BY DEF Leading
<1>2. Settled(g, s) /\ IsTyped(g)
  BY <1>1 DEF Settled, IsTyped
<1>3. ~(i + 1 <= LeadEnd(s))
  OBVIOUS
<1> QED
  BY <1>2, <1>3 DEF Leading

-----------------------------------------------------------------------------
(* The lines of the open items *)

\* Each open item has read its line so far, or settled it.
Leads(st, i) == \A n \in 1..Len(OpenItems(i)) : Leading(st[n], OpenItems(i)[n], i)

\* The innermost open item takes an event, and the others stay as they are.
Turned(st2, st, e) ==
  /\ Len(st2) = Len(st)
  /\ \A n \in 1..Len(st) : n # Len(st) => st2[n].marker = st[n].marker /\ st2[n].text = st[n].text
  /\ \A n \in 1..Len(st) : n = Len(st) => Turns(st[n], st2[n], e)

\* What is open, in the order written.
LEMMA OpenOrder ==
  ASSUME Nested, NEW i
  PROVE  /\ Len(OpenItems(i)) \in Nat
         /\ \A n \in 1..Len(OpenItems(i)) :
              /\ OpenItems(i)[n] \in Around("start_item", i) /\ OpenItems(i)[n] \in Items
              /\ OpenItems(i)[n] \in Nat /\ OpenItems(i)[n] < i /\ i <= EndOf(OpenItems(i)[n])
         /\ \A m, n \in 1..Len(OpenItems(i)) : m < n => OpenItems(i)[m] < OpenItems(i)[n]
<1> DEFINE q == OpenItems(i)
<1>1. IsAscending(q, Around("start_item", i))
  BY AroundOrder DEF OpenItems
<1> HIDE DEF q
<1>2. /\ Len(q) \in Nat /\ \A n \in 1..Len(q) : q[n] \in Nat /\ q[n] \in Around("start_item", i)
      /\ \A m, n \in 1..Len(q) : m < n => q[m] < q[n]
  BY <1>1 DEF IsAscending
<1> QED
  BY <1>2, AroundIs DEF q, Items

LEMMA StepTurns ==
  ASSUME NEW st, NEW X, st \in Seq(X), st # <<>>, NEW e, NEW g, Turns(Last(st), g, e)
  PROVE  Turned(Append(Front(st), g), st, e)
<1> DEFINE a == Front(st)
           k == Len(st) - 1
           Y == X \cup {g}
           st2 == Append(a, g)
<1>1. Len(st) # 0 /\ k \in Nat /\ Len(st) = k + 1
  BY SMTT(90)
<1>2. a \in Seq(X) /\ Len(a) = k /\ \A n \in 1..k : a[n] = st[n]
  BY ZenonT(90), <1>1, FrontIs
<1>3. a \in Seq(Y) /\ g \in Y
  BY <1>2
<1>4. Turns(st[k + 1], g, e)
  BY <1>1 DEF Last
<1> HIDE DEF a, k, Y
<1>5. /\ Append(a, g) \in Seq(Y) /\ Len(Append(a, g)) = Len(a) + 1
      /\ \A n \in 1..Len(a) : Append(a, g)[n] = a[n]
      /\ Append(a, g)[Len(a) + 1] = g
  BY ONLY <1>3, AppendIs
<1>6. Len(st2) = k + 1 /\ (\A n \in 1..k : st2[n] = st[n]) /\ st2[k + 1] = g
  BY <1>2, <1>5
<1> HIDE DEF st2
<1>7. \A n \in 1..(k + 1) : n # k + 1 => n \in 1..k
  BY <1>1
<1>8. Turned(st2, st, e)
  BY <1>1, <1>4, <1>6, <1>7 DEF Turned
<1> QED
  BY <1>8 DEF st2, a

\* An event that opens and ends no item goes into the line of the innermost.
LEMMA LeadsTurn ==
  ASSUME Nested, NEW i \in 1..Len(Events), OpenItems(i + 1) = OpenItems(i),
         NEW st, Len(st) = Len(OpenItems(i)), Leads(st, i), NEW st2, Turned(st2, st, Events[i])
  PROVE  Leads(st2, i + 1)
<1> DEFINE q == OpenItems(i)
<1>1. SUFFICES ASSUME NEW n \in 1..Len(q) PROVE Leading(st2[n], q[n], i + 1)
  BY DEF Leads
<1>2. /\ Len(q) \in Nat /\ i \in Nat /\ Len(st) = Len(q)
      /\ \A m \in 1..Len(q) : /\ q[m] \in Around("start_item", i) /\ q[m] \in Items
                              /\ q[m] \in Nat /\ q[m] < i
      /\ \A m, j \in 1..Len(q) : m < j => q[m] < q[j]
  BY SMTT(90), OpenOrder DEF Nested
<1>3. Leading(st[n], q[n], i)
  BY <1>1 DEF Leads
<1> HIDE DEF q
<1>4. CASE n = Len(q)
  <2>1. Turns(st[n], st2[n], Events[i])
    BY <1>1, <1>2, <1>4 DEF Turned
  <2> QED  BY <1>1, <1>2, <1>3, <2>1, LeadTurns
<1>5. CASE n # Len(q)
  <2>1. n < Len(q) /\ Len(q) \in 1..Len(q)
    BY <1>1, <1>2, <1>5
  <2>2. q[n] < q[Len(q)]
    BY <1>1, <1>2, <2>1
  <2>3. i > LeadEnd(q[n])
    BY <1>1, <1>2, <2>1, <2>2, OuterSettled
  <2>4. LeadEnd(q[n]) \in Nat
    BY <1>1, <1>2, LeadIs
  <2>5. st2[n].marker = st[n].marker /\ st2[n].text = st[n].text
    BY <1>1, <1>2, <1>5 DEF Turned
  <2> QED  BY <1>2, <1>3, <2>3, <2>4, <2>5, OuterStays
<1> QED
  BY <1>4, <1>5

LEMMA NoItemOpens ==
  ASSUME Nested, NEW i \in 1..Len(Events), Events[i].kind # "start_item", Events[i].kind # "end_item"
  PROVE  OpenItems(i + 1) = OpenItems(i)
BY AroundQuiet DEF Closing, OpenItems

\* A new item has read nothing yet, and those around it have settled.
LEMMA LeadsStart ==
  ASSUME Nested, NEW i \in 1..Len(Events), Events[i].kind = "start_item",
         NEW st, NEW X, st \in Seq(X), Len(st) = Len(OpenItems(i)),
         \A n \in 1..Len(st) : IsKeyed(st[n]), Leads(st, i),
         NEW f, f.marker = NewMarker, f.text = <<>>
  PROVE  Leads(Append(st, f), i + 1)
<1> DEFINE q == OpenItems(i)
           r == OpenItems(i + 1)
           st2 == Append(st, f)
           Y == X \cup {f}
<1>1. r = Append(q, i)
  <2>1. Around("start_item", i) \subseteq 1..Len(Events) /\ \A x \in Around("start_item", i) : x < i
    BY AroundOrder, AroundIs
  <2>2. Around("start_item", i + 1) = Around("start_item", i) \cup {i}
    BY AroundStart
  <2> QED  BY <2>1, <2>2, InOrderAppend DEF OpenItems
<1>2. /\ Len(q) \in Nat /\ i \in Nat /\ Len(st) = Len(q)
      /\ \A m \in 1..Len(q) : q[m] \in Items /\ q[m] \in Nat /\ q[m] < i
  BY OpenOrder DEF Nested
<1>3. q \in Seq(Nat)
  BY AroundOrder DEF OpenItems, IsAscending
<1>4. st \in Seq(Y) /\ f \in Y
  OBVIOUS
<1>5. \A n \in 1..Len(q) : Leading(st[n], q[n], i) /\ IsKeyed(st[n])
  BY <1>2 DEF Leads
<1> HIDE DEF q, r, Y
<1>6. Len(r) = Len(q) + 1 /\ (\A n \in 1..Len(q) : r[n] = q[n]) /\ r[Len(q) + 1] = i
  BY <1>1, <1>2, <1>3, AppendIs
<1>7. Len(st2) = Len(q) + 1 /\ (\A n \in 1..Len(q) : st2[n] = st[n]) /\ st2[Len(q) + 1] = f
  BY <1>2, <1>4, AppendIs
<1> HIDE DEF st2
<1>8. ASSUME NEW n \in 1..Len(q) PROVE Leading(st2[n], r[n], i + 1)
  <2> DEFINE h == st[n]
             s == q[n]
  <2>1. Leading(h, s, i) /\ IsKeyed(h) /\ s \in Items /\ s < i
    BY <1>2, <1>5
  <2> HIDE DEF h, s
  <2>2. IsTyped(h) /\ Events[i].kind \in Idle
    BY <2>1 DEF Leading, Idle
  <2>3. Grows(h, h)
    BY <2>1, <2>2, WritesOn
  <2>4. Turns(h, h, Events[i])
    BY <2>1, <2>2, <2>3, IdleTurns
  <2>5. Leading(h, s, i + 1)
    BY <1>2, <2>1, <2>4, LeadTurns
  <2> QED  BY <1>6, <1>7, <2>5 DEF h, s
<1>9. Leading(f, i, i + 1)
  <2>1. i \in Items
    BY DEF Items, Positions, Nested
  <2>2. LeadFrom(i) \in {i + 1, i + 2} /\ LeadEnd(i) \in Nat /\ LeadFrom(i) <= LeadEnd(i)
    BY <2>1, LeadIs
  <2>3. i + 1 <= LeadFrom(i) /\ ~(i + 1 > LeadEnd(i))
    BY <1>2, <2>2
  <2>4. LeadTo(i, i + 1) = <<>>
    BY <2>3 DEF LeadTo
  <2>5. f.marker = Holding(<<>>)
    BY DEF NewMarker, Holding
  <2>6. Reads(f, <<>>)
    BY <2>5, ReadsEmpty
  <2>7. IsTyped(f)
    <3> DEFINE n == <<>>
    <3>1. n \in Seq(Characters) /\ IsHeld(n) /\ f.text = n /\ f.marker = Holding(n)
      BY <2>5 DEF IsHeld
    <3> HIDE DEF n
    <3> QED  BY <3>1 DEF IsTyped
  <2> QED  BY <2>3, <2>4, <2>6, <2>7 DEF Leading
<1>10. \A n \in 1..(Len(q) + 1) : n \in 1..Len(q) \/ n = Len(q) + 1
  BY <1>2
<1>11. \A n \in 1..Len(r) : Leading(st2[n], r[n], i + 1)
  BY <1>6, <1>7, <1>8, <1>9, <1>10
<1> QED
  BY <1>11 DEF Leads, st2, r

\* What is open when an item ends.
LEMMA OpenEnds ==
  ASSUME Nested, NEW i \in 1..Len(Events), Events[i].kind = "end_item"
  PROVE  \E t \in Items :
           /\ EndOf(t) = i /\ \A x \in Items : EndOf(x) = i => x = t
           /\ Len(OpenItems(i)) = Len(OpenItems(i + 1)) + 1 /\ Len(OpenItems(i + 1)) \in Nat
           /\ \A n \in 1..Len(OpenItems(i + 1)) : OpenItems(i)[n] = OpenItems(i + 1)[n]
           /\ OpenItems(i)[Len(OpenItems(i + 1)) + 1] = t
<1> DEFINE q == OpenItems(i)
           r == OpenItems(i + 1)
<1>1. PICK t \in Around("start_item", i) :
        /\ EndOf(t) = i
        /\ \A j \in Around("start_item", i) : j # t => j < t /\ i < EndOf(j)
        /\ Around("start_item", i + 1) = Around("start_item", i) \ {t}
  BY AroundEnd DEF Closing
<1>2. q = Append(r, t)
  <2>1. /\ Around("start_item", i + 1) \subseteq 1..Len(Events) /\ t \in 1..Len(Events)
        /\ \A x \in Around("start_item", i + 1) : x < t
    BY <1>1, AroundOrder
  <2>2. Around("start_item", i) = Around("start_item", i + 1) \cup {t}
    BY <1>1
  <2> QED  BY <2>1, <2>2, InOrderAppend DEF OpenItems
<1>3. r \in Seq(Nat) /\ t \in Nat /\ t \in Items
  <2>1. IsAscending(r, Around("start_item", i + 1))
    BY AroundOrder DEF OpenItems
  <2>2. t \in Items
    BY AroundIs DEF Items
  <2> QED  BY <2>1, <2>2, StartsAre DEF IsAscending, Items
<1> HIDE DEF q, r
<1>4. Len(q) = Len(r) + 1 /\ (\A n \in 1..Len(r) : q[n] = r[n]) /\ q[Len(r) + 1] = t /\ Len(r) \in Nat
  BY <1>2, <1>3, AppendIs
<1>5. ASSUME NEW x \in Items, EndOf(x) = i PROVE x = t
  <2>1. x \in Around("start_item", i)
    BY <1>5, StartsAre, AroundIs DEF Items
  <2>2. ~(i < EndOf(x))
    BY <1>5
  <2> QED  BY <1>1, <2>1, <2>2
<1> QED
  BY <1>1, <1>3, <1>4, <1>5 DEF q, r

\* An item that ends has settled its line, and so have those it ends in.
LEMMA LeadsEnd ==
  ASSUME Nested, NEW i \in 1..Len(Events), Events[i].kind = "end_item",
         NEW st, NEW X, st \in Seq(X), Len(st) = Len(OpenItems(i)),
         \A n \in 1..Len(st) : IsKeyed(st[n]), Leads(st, i)
  PROVE  /\ \A t \in Items : EndOf(t) = i => Settled(Flush(Last(st)).item, t) /\ IsTyped(Flush(Last(st)).item)
         /\ \A st2 : (\A n \in 1..(Len(st) - 1) : st2[n].marker = st[n].marker /\ st2[n].text = st[n].text)
                       => Leads(st2, i + 1)
<1> DEFINE q == OpenItems(i)
           r == OpenItems(i + 1)
<1>1. PICK t \in Items :
           /\ EndOf(t) = i /\ \A x \in Items : EndOf(x) = i => x = t
           /\ Len(q) = Len(r) + 1 /\ Len(r) \in Nat
           /\ \A n \in 1..Len(r) : q[n] = r[n]
           /\ q[Len(r) + 1] = t
  BY OpenEnds
<1>2. /\ i \in Nat
      /\ \A m \in 1..Len(q) : /\ q[m] \in Around("start_item", i) /\ q[m] \in Items
                              /\ q[m] \in Nat /\ q[m] < i
      /\ \A m, j \in 1..Len(q) : m < j => q[m] < q[j]
  BY SMTT(90), OpenOrder DEF Nested
<1>3. \A n \in 1..Len(q) : Leading(st[n], q[n], i) /\ IsKeyed(st[n])
  BY DEF Leads
<1>4. Len(st) = Len(q)
  OBVIOUS
<1> DEFINE k == Len(r) + 1
<1>5. k \in 1..Len(q) /\ Len(st) = k /\ Len(q) = k /\ q[k] = t /\ k - 1 = Len(r)
  <2> HIDE DEF q, r
  <2> QED  BY <1>1, <1>4
<1> HIDE DEF q, r
<1>6. Settled(Flush(Last(st)).item, t) /\ IsTyped(Flush(Last(st)).item)
  <2> DEFINE f == Last(st)
             g == Flush(f).item
  <2>1. Leading(f, t, i) /\ IsKeyed(f)
    BY <1>3, <1>5 DEF Last
  <2> HIDE DEF f
  <2>2. IsTyped(f) /\ Events[i].kind \in LineEnds
    BY <2>1 DEF Leading, LineEnds
  <2>3. Turns(f, g, Events[i])
    BY <2>1, <2>2, LineEndTurns
  <2> HIDE DEF g
  <2>4. t < i /\ LeadEnd(t) \in Nat /\ LeadEnd(t) <= i
    BY <1>1, <1>2, <1>5, LeadIs
  <2>5. Leading(g, t, i + 1)
    BY <1>2, <2>1, <2>3, <2>4, LeadTurns
  <2>6. i + 1 > LeadEnd(t)
    BY <1>2, <2>4
  <2> QED  BY <2>5, <2>6 DEF Leading, g, f
<1>7. ASSUME NEW st2, \A n \in 1..(Len(st) - 1) : st2[n].marker = st[n].marker /\ st2[n].text = st[n].text
      PROVE  Leads(st2, i + 1)
  <2>1. SUFFICES ASSUME NEW n \in 1..Len(r) PROVE Leading(st2[n], r[n], i + 1)
    BY DEF Leads, r
  <2>2. n \in 1..Len(q) /\ n < k /\ n \in 1..(Len(st) - 1) /\ r[n] = q[n]
    BY <1>1, <1>5, <2>1
  <2>3. q[n] < q[k] /\ q[n] \in Items /\ q[n] \in Around("start_item", i) /\ q[k] \in Around("start_item", i)
    BY <1>2, <1>5, <2>2
  <2>4. i > LeadEnd(q[n]) /\ LeadEnd(q[n]) \in Nat
    BY <1>2, <2>3, OuterSettled, LeadIs
  <2>5. st2[n].marker = st[n].marker /\ st2[n].text = st[n].text
    BY <1>7, <2>2
  <2>6. Leading(st[n], q[n], i)
    BY <1>3, <2>2
  <2>7. Leading(st2[n], q[n], i + 1)
    BY <1>2, <2>4, <2>5, <2>6, OuterStays
  <2> QED  BY <2>2, <2>7
<1> QED
  BY <1>1, <1>6, <1>7

\* An item that learns of another keeps its marker and its text.
LEMMA ObserveTells ==
  ASSUME NEW f, IsKeyed(f), NEW child, NEW d, NEW y
  PROVE  /\ ObserveChild(f, child, d, y).marker = f.marker
         /\ ObserveChild(f, child, d, y).text = f.text
BY DEF ObserveChild, IsKeyed, FrameKeys

LEMMA AttachLeads ==
  ASSUME NEW st, NEW X, st \in Seq(X), Len(st) > 1, NEW g,
         g.marker = Last(Front(st)).marker, g.text = Last(Front(st)).text
  PROVE  \A n \in 1..(Len(st) - 1) :
           /\ Append(Front(Front(st)), g)[n].marker = st[n].marker
           /\ Append(Front(Front(st)), g)[n].text = st[n].text
<1> DEFINE a == Front(st)
           b == Front(a)
           k == Len(st) - 1
           Y == X \cup {g}
           st2 == Append(b, g)
<1>1. k \in Nat /\ k # 0 /\ Len(st) = k + 1 /\ Len(st) # 0
  <2>1. Len(st) \in Nat /\ Len(st) > 1
    OBVIOUS
  <2>2. \A l \in Nat : l > 1 => l - 1 \in Nat /\ l - 1 # 0 /\ l = (l - 1) + 1 /\ l # 0
    OBVIOUS
  <2> QED  BY ONLY <2>1, <2>2, Zenon DEF k
<1>2. a \in Seq(X) /\ Len(a) = k /\ \A n \in 1..k : a[n] = st[n]
  BY ZenonT(90), <1>1, FrontIs
<1> HIDE DEF a
<1>3. b \in Seq(X) /\ Len(b) = k - 1 /\ \A n \in 1..(k - 1) : b[n] = a[n]
  BY ZenonT(90), <1>1, <1>2, FrontIs
<1>4. Last(a) = st[k]
  BY SMTT(90), <1>1, <1>2 DEF Last
<1>5. b \in Seq(Y) /\ g \in Y
  BY <1>3
<1> HIDE DEF b, k, Y
<1>6. (\A n \in 1..Len(b) : st2[n] = b[n]) /\ st2[Len(b) + 1] = g
  BY <1>5, AppendIs
<1> HIDE DEF st2
<1>7. g.marker = st[k].marker /\ g.text = st[k].text
  BY <1>4 DEF a
<1>8. ASSUME NEW n \in 1..k PROVE st2[n].marker = st[n].marker /\ st2[n].text = st[n].text
  <2>1. n = k \/ n \in 1..(k - 1)
    BY <1>1
  <2>2. CASE n = k
    BY <1>1, <1>3, <1>6, <1>7, <2>2
  <2>3. CASE n \in 1..(k - 1)
    <3>1. n \in 1..k /\ n \in 1..Len(b)
      BY <1>1, <1>3, <2>3
    <3> QED  BY <1>2, <1>3, <1>6, <2>3, <3>1
  <2> QED  BY <2>1, <2>2, <2>3
<1> QED
  BY <1>8 DEF st2, b, a, k

-----------------------------------------------------------------------------
(* The inductive invariant of the outline *)

Outlined ==
  /\ input \in Inputs
  /\ at \in 1..(Len(Events) + 1)
  /\ \E rec : Stacks(listStack, itemStack, lists, at, rec)
  /\ phase = "done" => at = Len(Events) + 1 /\ note.lists = lists

\* What an event that starts or ends no list and no item does to the stacks.
QuietStep ==
  /\ at \in DOMAIN Events /\ at' = at + 1
  /\ Events[at].kind \notin {"start_list", "end_list", "start_item", "end_item"}
  /\ input' = input /\ listStack' = listStack /\ lists' = lists
  /\ SameStack(itemStack', itemStack)

LEMMA StackKeyed ==
  ASSUME NEW ls, NEW st, NEW li, NEW i, NEW rec, Stacks(ls, st, li, i, rec)
  PROVE  IsKeyedStack(st)
BY DEF Stacks, IsKeyedStack, IsFrame, IsKeyed

LEMMA QuietStepKeeps ==
  ASSUME Outlined, QuietStep
  PROVE  \E rec : Stacks(listStack', itemStack', lists', at', rec)
<1>1. Nested
  BY InputNests DEF Outlined
<1>2. PICK rec : Stacks(listStack, itemStack, lists, at, rec)
  BY DEF Outlined
<1>3. at \in 1..Len(Events)
  BY <1>1 DEF QuietStep, Nested
<1>4. /\ \E X : itemStack' \in Seq(X)
      /\ Len(itemStack') = Len(itemStack)
      /\ \A n \in 1..Len(itemStack) : SameCore(itemStack'[n], itemStack[n])
  BY DEF QuietStep, SameStack, IsKeyedStack
<1>5. Events[at].kind \notin {"start_list", "end_list", "start_item", "end_item"}
  BY DEF QuietStep
<1>6. Stacks(listStack, itemStack', lists, at + 1, rec)
  BY <1>1, <1>2, <1>3, <1>4, <1>5, QuietKeeps
<1> QED
  BY <1>6 DEF QuietStep

LEMMA OnItemKeeps ==
  ASSUME IsKeyedStack(itemStack), NEW g, itemStack # <<>> => IsKeyed(g) /\ SameCore(g, Last(itemStack))
  PROVE  SameStack(IF itemStack # <<>> THEN Append(Front(itemStack), g) ELSE itemStack, itemStack)
BY StepKeeps

\* The events without a step of their own leave the item stack as it is.
LEMMA IdleQuiet ==
  ASSUME Outlined, StartMetadata \/ EndMetadata \/ PushYaml \/ EndCodeBlock
  PROVE  QuietStep
<1>1. IsKeyedStack(itemStack)
  BY StackKeyed DEF Outlined
<1>2. SameStack(itemStack, itemStack)
  BY <1>1, SameStackSame
<1>3. /\ at \in DOMAIN Events /\ at' = at + 1
      /\ Events[at].kind \notin {"start_list", "end_list", "start_item", "end_item"}
      /\ input' = input /\ listStack' = listStack /\ lists' = lists /\ itemStack' = itemStack
  BY DEF StartMetadata, EndMetadata, PushYaml, EndCodeBlock, Handle, event, Events
<1> QED
  BY <1>2, <1>3 DEF QuietStep

\* The others step the innermost open item, by what neither places it nor ends it.
LEMMA TextQuiet ==
  ASSUME Outlined, StartTextBlock \/ EndTextBlock \/ StartCodeBlock \/ StartQuote
  PROVE  QuietStep
<1> USE DEF OnItem, Active
<1>1. IsKeyedStack(itemStack)
  BY StackKeyed DEF Outlined
<1> DEFINE f == Last(itemStack)
           On(g) == IF itemStack # <<>> THEN Append(Front(itemStack), g) ELSE itemStack
<1>2. itemStack # <<>> => IsKeyed(f)
  BY <1>1, LastKeyed
<1>3. itemStack # <<>> =>
        /\ IsKeyed(SeparateBlock(f)) /\ SameCore(SeparateBlock(f), f)
        /\ IsKeyed(ResolvePending(f)) /\ SameCore(ResolvePending(f), f)
  BY <1>2, SeparateKeeps, MarkerStepsKeep
<1>4. itemStack # <<>> =>
        /\ IsKeyed(SeparateBlock(ResolvePending(f)))
        /\ SameCore(SeparateBlock(ResolvePending(f)), f)
  BY <1>3, SeparateKeeps, SameCoreChains
<1>5. /\ SameStack(On(SeparateBlock(f)), itemStack)
      /\ SameStack(On(ResolvePending(f)), itemStack)
      /\ SameStack(On(SeparateBlock(ResolvePending(f))), itemStack)
  BY <1>1, <1>3, <1>4, OnItemKeeps
<1>6. \/ itemStack' = On(SeparateBlock(f))
      \/ itemStack' = On(ResolvePending(f))
      \/ itemStack' = On(SeparateBlock(ResolvePending(f)))
  <2>1. StartTextBlock => itemStack' = On(SeparateBlock(f))
    BY DEF StartTextBlock
  <2>2. StartCodeBlock => itemStack' = On(SeparateBlock(f))
    BY DEF StartCodeBlock
  <2>3. EndTextBlock => itemStack' = On(ResolvePending(f))
    BY DEF EndTextBlock
  <2>4. StartQuote => itemStack' = On(SeparateBlock(ResolvePending(f)))
    BY DEF StartQuote
  <2> QED  BY <2>1, <2>2, <2>3, <2>4
<1>7. SameStack(itemStack', itemStack)
  BY <1>5, <1>6
<1>8. /\ at \in DOMAIN Events /\ at' = at + 1
      /\ Events[at].kind \notin {"start_list", "end_list", "start_item", "end_item"}
      /\ input' = input /\ listStack' = listStack /\ lists' = lists
  BY DEF StartTextBlock, EndTextBlock, StartCodeBlock, StartQuote, Handle, event, Events
<1> QED
  BY <1>7, <1>8 DEF QuietStep

LEMMA InlineQuiet ==
  ASSUME Outlined, PushText \/ HandleCode \/ PushBreak \/ PushFootnote \/ Barrier \/ OtherEvent
  PROVE  QuietStep
<1> USE DEF OnItem, Active
<1>1. IsKeyedStack(itemStack)
  BY StackKeyed DEF Outlined
<1> DEFINE f == Last(itemStack)
           On(g) == IF itemStack # <<>> THEN Append(Front(itemStack), g) ELSE itemStack
           Fits(g) == IsKeyed(g) /\ SameCore(g, f)
<1>2. itemStack # <<>> => IsKeyed(f)
  BY <1>1, LastKeyed
<1>3. \A g : (itemStack # <<>> => Fits(g)) => SameStack(On(g), itemStack)
  BY <1>1, OnItemKeeps
<1>4. itemStack # <<>> =>
        /\ \A t, hidden : Fits(PushItemText(f, t, hidden))
        /\ Fits(Reject(f)) /\ Fits(ResolvePending(f))
  BY <1>2, MarkerStepsKeep
<1>5. itemStack # <<>> =>
        /\ \A t, hidden : Fits(Write(Reject(f), t, hidden))
        /\ \A t, hidden : Fits(Write(ResolvePending(f), t, hidden))
  BY <1>4, WriteKeeps, SameCoreChains
<1>6. itemStack # <<>> => \A t, hidden : Fits(PushItemText(Reject(f), t, hidden))
  BY <1>4, MarkerStepsKeep, SameCoreChains
<1>7. \E g : (itemStack # <<>> => Fits(g)) /\ itemStack' = On(g)
  <2> HIDE DEF Fits
  <2>1. CASE PushText
    <3>1. itemStack' = On(PushItemText(f, event.text, block = "code"))
      BY <2>1 DEF PushText
    <3> QED  BY <1>4, <3>1
  <2>2. CASE HandleCode
    <3>1. itemStack' = On(Write(Reject(f), event.text, TRUE))
      BY <2>2 DEF HandleCode
    <3> QED  BY <1>5, <3>1
  <2>3. CASE PushBreak
    <3> DEFINE t == <<"\n">>
    <3>1. itemStack' = On(Write(ResolvePending(f), t, FALSE))
      BY <2>3 DEF PushBreak
    <3> HIDE DEF t
    <3> QED  BY <1>5, <3>1
  <2>4. CASE PushFootnote
    <3>1. itemStack' = On(PushItemText(Reject(f), event.text, block = "code"))
      BY <2>4 DEF PushFootnote
    <3> QED  BY <1>6, <3>1
  <2>5. CASE Barrier
    <3>1. itemStack' = On(Reject(f))
      BY <2>5 DEF Barrier
    <3> QED  BY <1>4, <3>1
  <2>6. CASE OtherEvent
    <3>1. itemStack' = On(ResolvePending(f))
      BY <2>6 DEF OtherEvent
    <3> QED  BY <1>4, <3>1
  <2> QED  BY <2>1, <2>2, <2>3, <2>4, <2>5, <2>6
<1>8. SameStack(itemStack', itemStack)
  BY <1>3, <1>7
<1>9. /\ at \in DOMAIN Events /\ at' = at + 1
      /\ Events[at].kind \notin {"start_list", "end_list", "start_item", "end_item"}
      /\ input' = input /\ listStack' = listStack /\ lists' = lists
  BY DEF PushText, HandleCode, PushBreak, PushFootnote, Barrier, OtherEvent, Handle, event, Events
<1> QED
  BY <1>8, <1>9 DEF QuietStep

LEMMA ScanCharKeeps ==
  ASSUME NEW st, IsKeyedStack(st), NEW ch
  PROVE  SameStack(PushScanChar(st, ch), st)
<1> DEFINE s == Append(Last(st).scan, ch)
           g == [Last(st) EXCEPT !.scan = s]
<1>1. st # <<>> => IsKeyed(g) /\ SameCore(g, Last(st))
  BY LastKeyed, ScanKeeps
<1>2. PushScanChar(st, ch) = IF st # <<>> THEN Append(Front(st), g) ELSE st
  BY DEF PushScanChar
<1> HIDE DEF g
<1> QED
  BY <1>1, <1>2, StepKeeps

LEMMA LinkQuiet ==
  ASSUME Outlined, StartLink \/ EndLink
  PROVE  QuietStep
<1> USE DEF OnItem, Active
<1>1. IsKeyedStack(itemStack)
  BY StackKeyed DEF Outlined
<1> DEFINE st == IF itemStack # <<>> THEN Append(Front(itemStack), Reject(Last(itemStack))) ELSE itemStack
<1>2. SameStack(st, itemStack)
  BY <1>1, LastKeyed, MarkerStepsKeep, OnItemKeeps
<1>3. IsKeyedStack(st)
  BY <1>2 DEF SameStack
<1>4. OnItem(Reject) = st
  OBVIOUS
<1> HIDE DEF st
<1>5. \A ch : SameStack(PushScanChar(st, ch), itemStack)
  BY <1>2, <1>3, ScanCharKeeps, SameStackChains
<1>6. SameStack(itemStack', itemStack)
  <2>1. CASE StartLink
    <3> DEFINE ch == "["
    <3>1. itemStack' = IF event.wiki THEN OnItem(Reject) ELSE PushScanChar(OnItem(Reject), ch)
      BY <2>1 DEF StartLink
    <3> HIDE DEF ch
    <3> QED  BY <1>2, <1>4, <1>5, <3>1
  <2>2. CASE EndLink
    <3> DEFINE ch == "]"
    <3>1. itemStack' = IF link.wiki THEN itemStack ELSE PushScanChar(itemStack, ch)
      BY <2>2 DEF EndLink
    <3> HIDE DEF ch
    <3> QED  BY <1>1, <3>1, ScanCharKeeps, SameStackSame
  <2> QED  BY <2>1, <2>2
<1>7. /\ at \in DOMAIN Events /\ at' = at + 1
      /\ Events[at].kind \notin {"start_list", "end_list", "start_item", "end_item"}
      /\ input' = input /\ listStack' = listStack /\ lists' = lists
  BY DEF StartLink, EndLink, Handle, event, Events
<1> QED
  BY <1>6, <1>7 DEF QuietStep

\* An item keeps its place, and a task is fully complete as its frame has it.
LEMMA FinishTells ==
  ASSUME NEW f, NEW tokens, NEW filters, NEW statuses
  PROVE  LET child == Finish(f, tokens, filters, statuses)
         IN /\ Placed(child) = Placed(f)
            /\ child.type.kind = "task" => child.type.fully_complete = ~f.incomplete
<1> DEFINE child == Finish(f, tokens, filters, statuses)
           class == Classify(f, tokens, filters, statuses)
<1>1. class.kind = "task" => class.fully_complete = ~f.incomplete
  <2> DEFINE A == f.marker.symbol = NoMarker
             B == IsFiltered(f.tags, filters)
             task == [kind |-> "task",
                      status |-> ResolveStatus(statuses, f.marker.symbol),
                      done |-> DoneDate(tokens, f.fields),
                      priority |-> PriorityOf(tokens, f.fields),
                      fully_complete |-> ~f.incomplete]
  <2>1. CASE A
    BY <2>1 DEF Classify, Plain
  <2>2. CASE ~A /\ B
    <3>1. class = task
      BY <2>2 DEF Classify
    <3>2. task.fully_complete = ~f.incomplete
      OBVIOUS
    <3> QED  BY <3>1, <3>2
  <2>3. CASE ~A /\ ~B
    <3>1. class = Checkbox
      BY <2>3 DEF Classify
    <3> QED  BY <3>1 DEF Checkbox
  <2> QED  BY <2>1, <2>2, <2>3
<1>2. child.type = class /\ Placed(child) = Placed(f)
  <2> HIDE DEF class
  <2>1. child.type = class
    BY DEF Finish, class
  <2>2. child.line = f.line /\ child.depth = f.depth /\ child.parent = f.parent /\ child.ordered = f.ordered
    BY DEF Finish
  <2> QED  BY <2>1, <2>2 DEF Placed
<1> QED
  BY <1>1, <1>2

LEMMA ListSteps ==
  ASSUME Outlined, StartList \/ EndList
  PROVE  \E rec : Stacks(listStack', itemStack', lists', at', rec)
<1>1. Nested
  BY InputNests DEF Outlined
<1>2. PICK rec : Stacks(listStack, itemStack, lists, at, rec)
  BY DEF Outlined
<1>3. IsKeyedStack(itemStack)
  BY <1>2, StackKeyed
<1>4. CASE StartList
  <2>1. /\ at \in 1..Len(Events) /\ Events[at].kind = "start_list" /\ at' = at + 1
        /\ listStack' = Append(listStack, Events[at].ordered) /\ lists' = lists
    BY <1>1, <1>4 DEF StartList, Handle, event, Events, Nested
  <2> DEFINE g == Flush(Last(itemStack)).item
  <2>2. itemStack' = IF itemStack # <<>> THEN Append(Front(itemStack), g) ELSE itemStack
    BY <1>4 DEF StartList, FlushActive, Active
  <2>3. itemStack # <<>> => IsKeyed(g) /\ SameCore(g, Last(itemStack))
    BY <1>3, LastKeyed, FlushKeeps
  <2> HIDE DEF g
  <2>4. SameStack(itemStack', itemStack)
    BY <1>3, <2>2, <2>3, StepKeeps
  <2>5. /\ \E X : itemStack' \in Seq(X)
        /\ Len(itemStack') = Len(itemStack)
        /\ \A n \in 1..Len(itemStack) : SameCore(itemStack'[n], itemStack[n])
    BY <2>4 DEF SameStack, IsKeyedStack
  <2>6. Stacks(Append(listStack, Events[at].ordered), itemStack', lists, at + 1, rec)
    BY <1>1, <1>2, <2>1, <2>5, StartListKeeps
  <2> QED  BY <2>1, <2>6
<1>5. CASE EndList
  <2>1. /\ at \in 1..Len(Events) /\ Events[at].kind = "end_list" /\ at' = at + 1
        /\ listStack' = Front(listStack) /\ lists' = lists /\ itemStack' = itemStack
    BY <1>1, <1>5 DEF EndList, Handle, event, Events, Nested
  <2>2. Stacks(Front(listStack), itemStack, lists, at + 1, rec)
    BY <1>1, <1>2, <2>1, EndListKeeps
  <2> QED  BY <2>1, <2>2
<1> QED
  BY <1>4, <1>5

LEMMA StartItemStep ==
  ASSUME Outlined, StartItem
  PROVE  \E rec : Stacks(listStack', itemStack', lists', at', rec)
<1>1. Nested
  BY InputNests DEF Outlined
<1>2. PICK rec : Stacks(listStack, itemStack, lists, at, rec)
  BY DEF Outlined
<1> DEFINE f == NewFrame(Events[at].line)
<1>3. /\ at \in 1..Len(Events) /\ Events[at].kind = "start_item" /\ at' = at + 1
      /\ listStack' = listStack /\ lists' = lists /\ itemStack' = Append(itemStack, f)
  BY <1>1 DEF StartItem, Handle, event, Events, Nested
<1>4. /\ DOMAIN f = FrameKeys /\ f.line = Events[at].line
      /\ f.depth = Min({MaxDepth, Len(listStack) - 1})
      /\ f.parent = IF itemStack # <<>> THEN Last(itemStack).line ELSE NoLine
      /\ f.ordered = Last(listStack) /\ f.incomplete = FALSE /\ f.descendants = <<>>
  BY DEF NewFrame, Frame, FrameKeys, Active
<1> HIDE DEF f
<1>5. Stacks(listStack, Append(itemStack, f), lists, at + 1, rec)
  BY <1>1, <1>2, <1>3, <1>4, StartItemKeeps
<1> QED
  BY <1>3, <1>5

LEMMA FrontOfAppend ==
  ASSUME NEW X, NEW a \in Seq(X), NEW g \in X
  PROVE  Append(a, g) # <<>> /\ Front(Append(a, g)) = a /\ Last(Append(a, g)) = g
<1> DEFINE b == Append(a, g)
<1>1. /\ b \in Seq(X) /\ Len(b) = Len(a) + 1
      /\ \A n \in 1..Len(a) : b[n] = a[n]
      /\ b[Len(a) + 1] = g
  BY AppendIs
<1>2. Len(a) \in Nat /\ Len(b) # 0 /\ Len(b) - 1 = Len(a)
  BY <1>1
<1> HIDE DEF b
<1>3. Front(b) \in Seq(X) /\ Len(Front(b)) = Len(a) /\ \A n \in 1..Len(a) : Front(b)[n] = b[n]
  BY <1>1, <1>2, FrontIs
<1>4. Front(b) = a
  <2> DEFINE c == Front(b)
             m == Len(a)
  <2>1. c \in Seq(X) /\ Len(c) = m /\ \A n \in 1..m : c[n] = a[n]
    BY <1>1, <1>3
  <2>2. a \in Seq(X) /\ Len(a) = m
    OBVIOUS
  <2> HIDE DEF c, m
  <2>3. c = a
    BY ONLY <2>1, <2>2
  <2> QED  BY <2>3 DEF c
<1>5. Last(b) = g
  BY <1>1 DEF Last
<1> QED
  BY <1>2, <1>4, <1>5 DEF b

-----------------------------------------------------------------------------
(* A step of the parser goes on with the lines of the open items *)

Led == Leads(itemStack, at)

LEMMA LeadingNext ==
  ASSUME input' = input, NEW f, NEW s, NEW i
  PROVE  Leading(f, s, i) <=> Leading(f, s, i)'
<1>1. LeadTo(s, i)' = LeadTo(s, i)
  BY LineStays DEF LeadTo
<1>2. Settled(f, s)' <=> Settled(f, s)
  BY LineStays DEF Settled
<1>3. LeadEnd(s)' = LeadEnd(s)
  BY LineStays
<1> QED
  BY <1>1, <1>2, <1>3 DEF Leading

LEMMA LedNext ==
  ASSUME input' = input, Leads(itemStack', at')
  PROVE  Led'
<1> PICK k, st, q : k = at' /\ st = itemStack' /\ q = OpenItems(k)
  OBVIOUS
<1>1. OpenItems(at)' = q
  BY PlaceStays DEF OpenItems
<1>2. \A n \in 1..Len(q) : Leading(st[n], q[n], k)'
  BY LeadingNext DEF Leads
<1>3. \A n \in 1..Len(q) : Leading(itemStack[n], OpenItems(at)[n], at)'
  BY <1>1, <1>2 DEF Leading
<1> QED
  BY <1>1, <1>3 DEF Led, Leads

LEMMA TextsTyped ==
  ASSUME Outlined, at \in DOMAIN Events, Events[at].kind \in {"text", "code", "footnote"}
  PROVE  Events[at].text \in Seq(Characters)
BY TextsAssumption DEF Outlined, Events

\* The frames of the open items, and the one that is to take the next event.
LEMMA StackReady ==
  ASSUME Outlined, Led
  PROVE  /\ Nested /\ IsKeyedStack(itemStack) /\ Len(itemStack) = Len(OpenItems(at))
         /\ itemStack # <<>> => IsKeyed(Last(itemStack)) /\ IsTyped(Last(itemStack))
<1>1. Nested
  BY InputNests DEF Outlined
<1>2. IsKeyedStack(itemStack)
  BY StackKeyed DEF Outlined
<1>3. Len(itemStack) = Len(OpenItems(at))
  BY DEF Outlined, Stacks
<1>4. ASSUME itemStack # <<>> PROVE IsKeyed(Last(itemStack)) /\ IsTyped(Last(itemStack))
  <2>1. Len(itemStack) \in 1..Len(itemStack)
    BY <1>2, <1>4 DEF IsKeyedStack
  <2>2. Leading(itemStack[Len(itemStack)], OpenItems(at)[Len(itemStack)], at)
    BY <1>3, <2>1 DEF Led, Leads
  <2>3. IsTyped(Last(itemStack))
    BY <2>2 DEF Leading, Last
  <2> QED  BY <1>2, <1>4, <2>3, LastKeyed
<1> QED
  BY <1>1, <1>2, <1>3, <1>4

\* A step of the innermost open item, if there is one.
LEMMA OnTurns ==
  ASSUME NEW st, IsKeyedStack(st), NEW e, NEW g, st # <<>> => Turns(Last(st), g, e)
  PROVE  Turned(IF st # <<>> THEN Append(Front(st), g) ELSE st, st, e)
<1>1. PICK X : st \in Seq(X)
  BY DEF IsKeyedStack
<1>2. CASE st = <<>>
  BY <1>2 DEF Turned
<1>3. CASE st # <<>>
  BY <1>1, <1>3, StepTurns
<1> QED
  BY <1>2, <1>3

LEMMA SameTurned ==
  ASSUME NEW st, IsKeyedStack(st), NEW e, e.kind \in Idle, st # <<>> => IsTyped(Last(st))
  PROVE  Turned(st, st, e)
<1>1. ASSUME NEW n \in 1..Len(st), n = Len(st) PROVE Turns(st[n], st[n], e)
  <2> DEFINE f == Last(st)
  <2>1. st # <<>> /\ st[n] = f
    BY <1>1 DEF Last
  <2>2. IsKeyed(f) /\ IsTyped(f)
    BY <2>1, LastKeyed
  <2> HIDE DEF f
  <2>3. Grows(f, f)
    BY <2>2, WritesOn
  <2>4. Turns(f, f, e)
    BY <2>2, <2>3, IdleTurns
  <2> QED  BY <2>1, <2>4
<1> QED
  BY <1>1 DEF Turned

LEMMA IdleLed ==
  ASSUME Outlined, Led, StartMetadata \/ EndMetadata \/ PushYaml \/ EndCodeBlock \/ EndList
  PROVE  Turned(itemStack', itemStack, Events[at])
<1>1. itemStack' = itemStack /\ Events[at].kind \in Idle
  BY DEF StartMetadata, EndMetadata, PushYaml, EndCodeBlock, EndList, Handle, event, Events, Idle
<1>2. IsKeyedStack(itemStack) /\ (itemStack # <<>> => IsTyped(Last(itemStack)))
  BY StackReady
<1> QED
  BY <1>1, <1>2, SameTurned

LEMMA TextLed ==
  ASSUME Outlined, Led, StartTextBlock \/ EndTextBlock \/ StartCodeBlock \/ StartQuote \/ StartList
  PROVE  Turned(itemStack', itemStack, Events[at])
<1> USE DEF OnItem, Active
<1> DEFINE f == Last(itemStack)
           e == Events[at]
           On(g) == IF itemStack # <<>> THEN Append(Front(itemStack), g) ELSE itemStack
<1>1. IsKeyedStack(itemStack) /\ (itemStack # <<>> => IsKeyed(f) /\ IsTyped(f))
  BY StackReady
<1>2. \A g : (itemStack # <<>> => Turns(f, g, e)) => Turned(On(g), itemStack, e)
  BY <1>1, OnTurns
<1>3. CASE StartTextBlock
  <2>1. itemStack' = On(SeparateBlock(f)) /\ e.kind = "start_text"
    BY <1>3 DEF StartTextBlock, Handle, event, Events
  <2>2. itemStack # <<>> => Turns(f, SeparateBlock(f), e)
    BY <1>1, <2>1, BlockTurns
  <2> HIDE DEF e, f
  <2> QED  BY <1>2, <2>1, <2>2 DEF e
<1>4. CASE StartCodeBlock
  <2>1. itemStack' = On(SeparateBlock(f)) /\ e.kind \in Idle
    BY <1>4 DEF StartCodeBlock, Handle, event, Events, Idle
  <2>2. itemStack # <<>> => Turns(f, SeparateBlock(f), e)
    BY <1>1, <2>1, WritesOn, IdleTurns
  <2> HIDE DEF e, f
  <2> QED  BY <1>2, <2>1, <2>2 DEF e
<1>5. CASE EndTextBlock
  <2>1. itemStack' = On(ResolvePending(f)) /\ e.kind \in LineEnds
    BY <1>5 DEF EndTextBlock, Handle, event, Events, LineEnds
  <2>2. itemStack # <<>> => Turns(f, ResolvePending(f), e)
    BY <1>1, <2>1, LineEndTurns
  <2> HIDE DEF e, f
  <2> QED  BY <1>2, <2>1, <2>2 DEF e
<1>6. CASE StartQuote
  <2>1. itemStack' = On(SeparateBlock(ResolvePending(f))) /\ e.kind \in LineEnds
    BY <1>6 DEF StartQuote, Handle, event, Events, LineEnds
  <2>2. itemStack # <<>> => Turns(f, SeparateBlock(ResolvePending(f)), e)
    BY <1>1, <2>1, LineEndTurns
  <2> HIDE DEF e, f
  <2> QED  BY <1>2, <2>1, <2>2 DEF e
<1>7. CASE StartList
  <2>1. itemStack' = On(Flush(f).item) /\ e.kind \in LineEnds
    BY <1>7 DEF StartList, FlushActive, Handle, event, Events, LineEnds
  <2>2. itemStack # <<>> => Turns(f, Flush(f).item, e)
    BY <1>1, <2>1, LineEndTurns
  <2> HIDE DEF e, f
  <2> QED  BY <1>2, <2>1, <2>2 DEF e
<1> QED
  BY <1>3, <1>4, <1>5, <1>6, <1>7

LEMMA InlineLed ==
  ASSUME Outlined, Led, PushText \/ HandleCode \/ PushBreak \/ PushFootnote \/ Barrier \/ OtherEvent
  PROVE  Turned(itemStack', itemStack, Events[at])
<1> USE DEF OnItem, Active
<1> DEFINE f == Last(itemStack)
           e == Events[at]
           On(g) == IF itemStack # <<>> THEN Append(Front(itemStack), g) ELSE itemStack
<1>1. IsKeyedStack(itemStack) /\ (itemStack # <<>> => IsKeyed(f) /\ IsTyped(f))
  BY StackReady
<1>2. \A g : (itemStack # <<>> => Turns(f, g, e)) => Turned(On(g), itemStack, e)
  BY <1>1, OnTurns
<1>3. at \in DOMAIN Events /\ event = e
  BY DEF PushText, HandleCode, PushBreak, PushFootnote, Barrier, OtherEvent, Handle, event, Events
<1>4. e.kind \in {"text", "code", "footnote"} => e.text \in Seq(Characters)
  BY <1>3, TextsTyped
<1>5. CASE PushText
  <2> DEFINE hidden == block = "code"
  <2>1. itemStack' = On(PushItemText(f, e.text, hidden)) /\ e.kind = "text"
    BY <1>3, <1>5 DEF PushText, Handle
  <2> HIDE DEF e, f, hidden
  <2>2. itemStack # <<>> => Turns(f, PushItemText(f, e.text, hidden), e)
    BY <1>1, <1>4, <2>1, PushTurns
  <2> QED  BY <1>2, <2>1, <2>2 DEF e
<1>6. CASE HandleCode
  <2> DEFINE hidden == TRUE
  <2>1. itemStack' = On(Write(Reject(f), e.text, hidden)) /\ e.kind = "code" /\ e.kind \in Inline
    BY <1>3, <1>6 DEF HandleCode, Handle, Inline
  <2> HIDE DEF e, f, hidden
  <2>2. itemStack # <<>> => Turns(f, Write(Reject(f), e.text, hidden), e)
    BY <1>1, <1>4, <2>1, InlineTurns
  <2> QED  BY <1>2, <2>1, <2>2 DEF e
<1>7. CASE PushBreak
  <2> DEFINE t == <<"\n">>
             hidden == FALSE
  <2>1. itemStack' = On(Write(ResolvePending(f), t, hidden)) /\ e.kind \in LineEnds
    BY <1>3, <1>7 DEF PushBreak, Handle, LineEnds
  <2>2. t \in Seq(Characters)
    BY CharactersAssumption
  <2> HIDE DEF e, f, t, hidden
  <2>3. itemStack # <<>> => Turns(f, Write(ResolvePending(f), t, hidden), e)
    BY <1>1, <2>1, <2>2, LineEndTurns
  <2> QED  BY <1>2, <2>1, <2>3 DEF e
<1>8. CASE PushFootnote
  <2> DEFINE hidden == block = "code"
  <2>1. itemStack' = On(PushItemText(Reject(f), e.text, hidden)) /\ e.kind = "footnote"
    BY <1>3, <1>8 DEF PushFootnote, Handle
  <2> HIDE DEF e, f, hidden
  <2>2. itemStack # <<>> => Turns(f, PushItemText(Reject(f), e.text, hidden), e)
    BY <1>1, <1>4, <2>1, InlineTurns DEF Inline
  <2> QED  BY <1>2, <2>1, <2>2 DEF e
<1>9. CASE Barrier
  <2>1. itemStack' = On(Reject(f)) /\ e.kind = "barrier"
    BY <1>3, <1>9 DEF Barrier, Handle
  <2> HIDE DEF e, f
  <2>2. itemStack # <<>> => Turns(f, Reject(f), e)
    BY <1>1, <2>1, InlineTurns DEF Inline
  <2> QED  BY <1>2, <2>1, <2>2 DEF e
<1>10. CASE OtherEvent
  <2>1. itemStack' = On(ResolvePending(f)) /\ e.kind = "other"
    BY <1>3, <1>10 DEF OtherEvent, Handle
  <2> HIDE DEF e, f
  <2>2. itemStack # <<>> => Turns(f, ResolvePending(f), e)
    BY <1>1, <2>1, LineEndTurns DEF LineEnds
  <2> QED  BY <1>2, <2>1, <2>2 DEF e
<1> QED
  BY <1>5, <1>6, <1>7, <1>8, <1>9, <1>10

\* A bracket goes into the scan of what a step has made of the innermost open item.
LEMMA CharPushed ==
  ASSUME NEW st, IsKeyedStack(st), NEW g, NEW ch,
         NEW h, h = [g EXCEPT !.scan = Append(g.scan, ch)]
  PROVE  PushScanChar(IF st # <<>> THEN Append(Front(st), g) ELSE st, ch) =
           IF st # <<>> THEN Append(Front(st), h) ELSE st
<1>1. PICK X : st \in Seq(X)
  BY DEF IsKeyedStack
<1>2. CASE st = <<>>
  BY <1>2 DEF PushScanChar
<1>3. CASE st # <<>>
  <2> DEFINE a == Front(st)
             Y == X \cup {g}
             b == Append(a, g)
  <2>1. a \in Seq(X)
    BY <1>1, <1>3, FrontIs
  <2>2. a \in Seq(Y) /\ g \in Y
    BY <2>1
  <2> HIDE DEF a, Y
  <2>3. b # <<>> /\ Front(b) = a /\ Last(b) = g
    BY ONLY <2>2, FrontOfAppend
  <2> HIDE DEF b
  <2>4. PushScanChar(b, ch) = Append(a, h)
    BY <2>3 DEF PushScanChar
  <2> QED  BY <1>3, <2>4 DEF a, b
<1> QED
  BY <1>2, <1>3

\* The bracket of a link goes into the scan of what the link has made of the
\* innermost open item.
LEMMA LinkLed ==
  ASSUME Outlined, Led, StartLink \/ EndLink
  PROVE  Turned(itemStack', itemStack, Events[at])
<1> DEFINE f == Last(itemStack)
           e == Events[at]
           On(g) == IF itemStack # <<>> THEN Append(Front(itemStack), g) ELSE itemStack
<1>1. IsKeyedStack(itemStack) /\ (itemStack # <<>> => IsKeyed(f) /\ IsTyped(f))
  BY StackReady
<1>2. \A g : (itemStack # <<>> => Turns(f, g, e)) => Turned(On(g), itemStack, e)
  BY <1>1, OnTurns
<1>4. CASE StartLink
  <2> DEFINE ch == "["
             g == Reject(f)
             h == [g EXCEPT !.scan = Append(g.scan, ch)]
  <2>1. /\ itemStack' = IF event.wiki THEN On(g) ELSE PushScanChar(On(g), ch)
        /\ e.kind \in Inline
    BY <1>4 DEF StartLink, OnItem, Active, Handle, event, Events, Inline
  <2>2. PushScanChar(On(g), ch) = On(h)
    <3> HIDE DEF g, ch
    <3> QED  BY ZenonT(90), <1>1, CharPushed
  <2> HIDE DEF e, f, ch
  <2>3. itemStack # <<>> => Turns(f, g, e) /\ Turns(f, h, e)
    BY <1>1, <2>1, InlineTurns
  <2> HIDE DEF g, h
  <2> QED  BY <1>2, <2>1, <2>2, <2>3 DEF e
<1>5. CASE EndLink
  <2> DEFINE ch == "]"
             h == [f EXCEPT !.scan = Append(f.scan, ch)]
  <2>1. /\ itemStack' = IF link.wiki THEN itemStack ELSE PushScanChar(itemStack, ch)
        /\ e.kind \in Idle
    BY <1>5 DEF EndLink, Handle, event, Events, Idle
  <2>2. PushScanChar(itemStack, ch) = On(h)
    BY DEF PushScanChar
  <2>3. Turned(itemStack, itemStack, e)
    BY <1>1, <2>1, SameTurned
  <2> HIDE DEF e, f, ch
  <2>4. itemStack # <<>> => Turns(f, h, e)
    BY <1>1, <2>1, WritesOn, IdleTurns
  <2> HIDE DEF h
  <2> QED  BY <1>2, <2>1, <2>2, <2>3, <2>4 DEF e
<1> QED
  BY <1>4, <1>5

LEMMA EndItemLed ==
  ASSUME Outlined, Led, EndItem
  PROVE  Leads(itemStack', at + 1)
<1>1. Nested /\ IsKeyedStack(itemStack) /\ Len(itemStack) = Len(OpenItems(at))
  BY StackReady
<1> DEFINE st == itemStack
           f == Flush(Last(st)).item
           child == ListItem(f)
<1>2. /\ at \in 1..Len(Events) /\ Events[at].kind = "end_item"
      /\ Attach(child, f.descendants, f.incomplete)
  BY <1>1 DEF EndItem, PopItem, Handle, event, Events, Nested
<1>3. PICK X : st \in Seq(X)
  BY <1>1 DEF IsKeyedStack
<1> HIDE DEF f, child
<1>4. \A n \in 1..Len(st) : IsKeyed(st[n])
  BY <1>1 DEF IsKeyedStack
<1>5. \A n \in 1..(Len(st) - 1) : itemStack'[n].marker = st[n].marker /\ itemStack'[n].text = st[n].text
  <2>1. CASE Len(st) > 1
    <3> DEFINE p == Last(Front(st))
               g == ObserveChild(p, child, f.descendants, f.incomplete)
    <3>1. itemStack' = Append(Front(Front(st)), g)
      BY <1>2, <2>1 DEF Attach
    <3>2. IsKeyed(p)
      <4> DEFINE a == Front(st)
                 k == Len(st) - 1
      <4>1. k \in Nat /\ k # 0 /\ Len(st) # 0 /\ k \in 1..Len(st) /\ k \in 1..k
        <5>1. Len(st) \in Nat /\ Len(st) > 1
          BY <1>3, <2>1
        <5>2. \A l \in Nat : l > 1 => l - 1 \in Nat /\ l - 1 # 0 /\ l # 0 /\ l - 1 \in 1..l /\ l - 1 \in 1..(l - 1)
          OBVIOUS
        <5> QED  BY ONLY <5>1, <5>2, Zenon DEF k
      <4>2. Len(a) = k /\ \A n \in 1..k : a[n] = st[n]
        BY <1>3, <4>1, FrontIs
      <4> HIDE DEF a, k
      <4>3. Last(a) = st[k]
        BY <4>1, <4>2 DEF Last
      <4> QED  BY <1>4, <4>1, <4>3 DEF a
    <3> HIDE DEF p
    <3>3. g.marker = p.marker /\ g.text = p.text
      BY <3>2, ObserveTells
    <3> HIDE DEF g
    <3> QED  BY <1>3, <2>1, <3>1, <3>3, AttachLeads DEF p
  <2>2. CASE ~(Len(st) > 1)
    <3>1. Len(st) \in Nat /\ ~(Len(st) > 1)
      BY <1>3, <2>2
    <3>2. \A l \in Nat : ~(l > 1) => \A n \in 1..(l - 1) : FALSE
      OBVIOUS
    <3> QED  BY <3>1, <3>2
  <2> QED  BY <2>1, <2>2
<1>6. Leads(st, at)
  BY DEF Led
<1> HIDE DEF st
<1>7. Leads(itemStack', at + 1)
  BY <1>1, <1>2, <1>3, <1>4, <1>5, <1>6, LeadsEnd DEF st
<1> QED
  BY <1>7

\* Nothing is open where a note starts, and nothing has ended.
LEMMA NothingOpen ==
  ASSUME Nested
  PROVE  /\ \A kind \in {"start_list", "start_item"} : Around(kind, 1) = {}
         /\ Ended(0, 1) = {}
         /\ Len(InOrder({})) = 0
<1>1. ASSUME NEW kind \in {"start_list", "start_item"} PROVE Around(kind, 1) = {}
  <2>1. \A j : j \notin Around(kind, 1)
    BY AroundIs, StartsAre
  <2> QED  BY <2>1
<1>2. \A t \in Items : ~(EndOf(t) < 1)
  BY StartsAre DEF Items
<1>3. Ended(0, 1) = {}
  BY <1>2 DEF Ended
<1>4. IsAscending(InOrder({}), {})
  BY <1>3, BelowOrder
<1>5. Len(InOrder({})) = 0
  <2>1. Len(InOrder({})) \in Nat /\ \A n \in 1..Len(InOrder({})) : InOrder({})[n] \in {}
    BY <1>4 DEF IsAscending
  <2> HIDE DEF InOrder
  <2> QED  BY <2>1
<1> QED
  BY <1>1, <1>3, <1>5

LEMMA UnscannedIs ==
  ASSUME Nested, NEW s, NEW i \in 1..(Len(Events) + 1), i = IF s = 0 THEN 1 ELSE LeadEnd(s)
  PROVE  /\ Unscanned(s, i) = IF s = 0 THEN <<>> ELSE LeadRest(s)
         /\ \A j \in i..Len(Events) :
              Unscanned(s, j + 1) = IF Owner(j) = s THEN Joined(Unscanned(s, j), j) ELSE Unscanned(s, j)
<1> DEFINE N == Len(Events) + 1
           base == IF s = 0 THEN <<>> ELSE LeadRest(s)
           Step(f, m) == IF m = i THEN base
                         ELSE IF Owner(m - 1) = s THEN Joined(f[m - 1], m - 1) ELSE f[m - 1]
           to == CHOOSE f : f = [m \in i..N |-> Step(f, m)]
<1>0. N \in Nat /\ i \in Nat /\ i <= N /\ 1 <= i /\ N - i \in Nat
  BY DEF Nested
<1>1. \A j : Unscanned(s, j) = to[j]
  BY DEF Unscanned
<1> HIDE DEF N, base
<1> DEFINE G == {k \in 0..(N - i) : \E f : f = [m \in i..(i + k) |-> Step(f, m)]}
<1>2. \A k \in 0..(N - i) : k \in G
  <2>1. 0 \in G
    <3> DEFINE f == [m \in i..(i + 0) |-> base]
    <3>1. \A m \in i..(i + 0) : m = i
      BY <1>0
    <3>2. \A m \in i..(i + 0) : f[m] = Step(f, m)
      BY <3>1
    <3>3. f = [m \in i..(i + 0) |-> Step(f, m)]
      <4> HIDE DEF Step
      <4> QED  BY <3>2
    <3>4. 0 \in 0..(N - i)
      BY <1>0
    <3> HIDE DEF f, Step
    <3> QED  BY <3>3, <3>4
  <2>2. ASSUME NEW k \in 0..((N - i) - 1), k \in G PROVE k + 1 \in G
    <3> DEFINE n == i + k
    <3>0. n \in Nat /\ i <= n /\ i + (k + 1) = n + 1 /\ k + 1 \in 0..(N - i)
      BY SMTT(90), <1>0
    <3>1. PICK f : f = [m \in i..n |-> Step(f, m)]
      BY <2>2
    <3>2. \A m \in i..n : f[m] = Step(f, m)
      <4> HIDE DEF Step
      <4> QED  BY <3>1
    <3> HIDE DEF n
    <3> DEFINE g == [m \in i..(n + 1) |-> IF m <= n THEN f[m] ELSE Step(f, m)]
    <3>3. \A m \in i..(n + 1) : g[m] = Step(g, m)
      <4> TAKE m \in i..(n + 1)
      <4>1. m # i => g[m - 1] = f[m - 1]
        BY SMTT(90), <1>0, <3>0
      <4>2. Step(g, m) = Step(f, m)
        BY <4>1
      <4>3. g[m] = Step(f, m)
        <5>1. m <= n => m \in i..n
          BY <1>0, <3>0
        <5> HIDE DEF Step
        <5> QED  BY <3>2, <5>1
      <4> QED  BY <4>2, <4>3
    <3>4. g = [m \in i..(n + 1) |-> Step(g, m)]
      <4> HIDE DEF Step
      <4> QED  BY <3>3
    <3> HIDE DEF g, Step
    <3>5. \E h : h = [m \in i..(i + (k + 1)) |-> Step(h, m)]
      BY <3>0, <3>4
    <3> QED  BY <3>0, <3>5
  <2> HIDE DEF G
  <2> QED  BY <1>0, <2>1, <2>2, UpTo
<1>3. \A m \in i..N : to[m] = Step(to, m)
  <2>0. N - i \in G /\ i + (N - i) = N
    <3>1. N - i \in 0..(N - i) /\ i + (N - i) = N
      BY <1>0
    <3> HIDE DEF G
    <3> QED  BY <1>2, <3>1
  <2>1. \E f : f = [m \in i..N |-> Step(f, m)]
    BY <2>0
  <2> HIDE DEF Step
  <2>2. to = [m \in i..N |-> Step(to, m)]
    BY <2>1
  <2> HIDE DEF to
  <2> QED  BY <2>2
<1> HIDE DEF to, G
<1>4. to[i] = base
  BY <1>0, <1>3
<1>5. ASSUME NEW j \in i..Len(Events) PROVE to[j + 1] = IF Owner(j) = s THEN Joined(to[j], j) ELSE to[j]
  <2> DEFINE k == j + 1
  <2>1. k \in i..N /\ k # i /\ k - 1 = j
    BY <1>0 DEF N
  <2> HIDE DEF k
  <2>2. to[k] = Step(to, k)
    <3> HIDE DEF Step
    <3> QED  BY ONLY <1>3, <2>1
  <2>3. to[k] = IF Owner(j) = s THEN Joined(to[j], j) ELSE to[j]
    BY ONLY <2>1, <2>2
  <2> QED  BY ONLY <2>3 DEF k
<1> QED
  BY <1>1, <1>4, <1>5 DEF base
LEMMA GatheredIs ==
  ASSUME Nested, NEW S
  PROVE  /\ Gathered(S, 1) = [fields |-> <<>>, tags |-> <<>>, entries |-> <<>>]
         /\ \A j \in 1..Len(Events) :
              Gathered(S, j + 1) = IF j \in S THEN Joining(Gathered(S, j), j) ELSE Gathered(S, j)
<1> DEFINE N == Len(Events) + 1
           i == 1
           base == [fields |-> <<>>, tags |-> <<>>, entries |-> <<>>]
           Step(f, m) == IF m = i THEN base
                         ELSE IF m - 1 \in S THEN Joining(f[m - 1], m - 1) ELSE f[m - 1]
           to == CHOOSE f : f = [m \in i..N |-> Step(f, m)]
<1>0. N \in Nat /\ i \in Nat /\ i <= N /\ 1 <= i /\ N - i \in Nat /\ i = 1
  BY DEF Nested
<1>1. \A j : Gathered(S, j) = to[j]
  BY DEF Gathered
<1> HIDE DEF N, base, i
<1> DEFINE G == {k \in 0..(N - i) : \E f : f = [m \in i..(i + k) |-> Step(f, m)]}
<1>2. \A k \in 0..(N - i) : k \in G
  <2>1. 0 \in G
    <3> DEFINE f == [m \in i..(i + 0) |-> base]
    <3>1. \A m \in i..(i + 0) : m = i
      BY <1>0
    <3>2. \A m \in i..(i + 0) : f[m] = Step(f, m)
      BY <3>1
    <3>3. f = [m \in i..(i + 0) |-> Step(f, m)]
      <4> HIDE DEF Step
      <4> QED  BY <3>2
    <3>4. 0 \in 0..(N - i)
      BY <1>0
    <3> HIDE DEF f, Step
    <3> QED  BY <3>3, <3>4
  <2>2. ASSUME NEW k \in 0..((N - i) - 1), k \in G PROVE k + 1 \in G
    <3> DEFINE n == i + k
    <3>0. n \in Nat /\ i <= n /\ i + (k + 1) = n + 1 /\ k + 1 \in 0..(N - i)
      BY <1>0
    <3>1. PICK f : f = [m \in i..n |-> Step(f, m)]
      BY <2>2
    <3>2. \A m \in i..n : f[m] = Step(f, m)
      <4> HIDE DEF Step
      <4> QED  BY <3>1
    <3> HIDE DEF n
    <3> DEFINE g == [m \in i..(n + 1) |-> IF m <= n THEN f[m] ELSE Step(f, m)]
    <3>3. \A m \in i..(n + 1) : g[m] = Step(g, m)
      <4> TAKE m \in i..(n + 1)
      <4>1. m # i => g[m - 1] = f[m - 1]
        BY <1>0, <3>0
      <4>2. Step(g, m) = Step(f, m)
        BY <4>1
      <4>3. g[m] = Step(f, m)
        <5>1. m <= n => m \in i..n
          BY <1>0, <3>0
        <5> HIDE DEF Step
        <5> QED  BY <3>2, <5>1
      <4> QED  BY <4>2, <4>3
    <3>4. g = [m \in i..(n + 1) |-> Step(g, m)]
      <4> HIDE DEF Step
      <4> QED  BY <3>3
    <3> HIDE DEF g, Step
    <3>5. \E h : h = [m \in i..(i + (k + 1)) |-> Step(h, m)]
      BY <3>0, <3>4
    <3> QED  BY <3>0, <3>5
  <2> HIDE DEF G
  <2> QED  BY <1>0, <2>1, <2>2, UpTo
<1>3. \A m \in i..N : to[m] = Step(to, m)
  <2>0. N - i \in G /\ i + (N - i) = N
    <3>1. N - i \in 0..(N - i) /\ i + (N - i) = N
      BY <1>0
    <3> HIDE DEF G
    <3> QED  BY <1>2, <3>1
  <2>1. \E f : f = [m \in i..N |-> Step(f, m)]
    BY <2>0
  <2> HIDE DEF Step
  <2>2. to = [m \in i..N |-> Step(to, m)]
    BY <2>1
  <2> HIDE DEF to
  <2> QED  BY <2>2
<1> HIDE DEF to, G
<1>4. to[i] = base
  BY <1>0, <1>3
<1>5. ASSUME NEW j \in i..Len(Events) PROVE to[j + 1] = IF j \in S THEN Joining(to[j], j) ELSE to[j]
  <2> DEFINE k == j + 1
  <2>1. k \in i..N /\ k # i /\ k - 1 = j
    BY <1>0 DEF N
  <2> HIDE DEF k
  <2>2. to[k] = Step(to, k)
    <3> HIDE DEF Step
    <3> QED  BY ONLY <1>3, <2>1
  <2>3. to[k] = IF j \in S THEN Joining(to[j], j) ELSE to[j]
    BY ONLY <2>1, <2>2
  <2> QED  BY ONLY <2>3 DEF k
<1> QED
  BY <1>0, <1>1, <1>4, <1>5 DEF base

\* A set of the numbers of events has a greatest one.
LEMMA MaxIs ==
  ASSUME NEW N \in Nat, NEW S, S \subseteq 1..N, S # {}
  PROVE  Max(S) \in S /\ \A x \in S : x <= Max(S)
<1> DEFINE T == {N - x : x \in S}
<1>1. T \subseteq Nat /\ T # {}
  <2>1. \A x \in S : N - x \in Nat
    OBVIOUS
  <2> QED  BY <2>1
<1>2. PICK t \in T : \A y \in T : t <= y
  <2> HIDE DEF T
  <2> QED  BY <1>1, LeastNatural
<1>3. PICK k \in S : t = N - k
  OBVIOUS
<1>4. \A x \in S : N - k <= N - x
  BY <1>2, <1>3
<1>5. \A x \in S : x \in Int /\ x <= k
  BY <1>4
<1>6. \A x \in S : (\A y \in S : x >= y) <=> x = k
  BY <1>5
<1>7. Max(S) = k
  BY ONLY <1>6, k \in S DEF Max
<1> QED
  BY <1>5, <1>7

-----------------------------------------------------------------------------
(* The blocks and the links of a note *)

BlocksTo(i) == {j \in DOMAIN Events : j < i /\ Events[j].kind \in BlockKinds}
LinksTo(i) == {j \in Positions("start_link") : j < i}

LEMMA BlockIs ==
  ASSUME NEW i
  PROVE  BlockAt(i) = IF BlocksTo(i) = {} THEN "none" ELSE Events[Max(BlocksTo(i))].kind
BY DEF BlockAt, BlocksTo

LEMMA NewMax ==
  ASSUME NEW S, NEW i \in Nat, \A x \in S : x \in Nat /\ x < i
  PROVE  Max(S \cup {i}) = i
<1> DEFINE T == S \cup {i}
<1>1. i \in T /\ \A x \in T : (\A y \in T : x >= y) <=> x = i
  OBVIOUS
<1> HIDE DEF T
<1>2. Max(T) = i
  BY ONLY <1>1 DEF Max
<1> QED
  BY <1>2 DEF T

LEMMA BlockNext ==
  ASSUME Nested
  PROVE  /\ BlockAt(1) = "none"
         /\ \A i \in 1..Len(Events) :
              /\ BlockAt(i + 1) = IF Events[i].kind \in BlockKinds THEN Events[i].kind ELSE BlockAt(i)
              /\ Events[i].kind = "start_link" => LinkStart(i + 1) = i
              /\ Events[i].kind # "start_link" => LinkStart(i + 1) = LinkStart(i)
<1>1. Len(Events) \in Nat /\ DOMAIN Events = 1..Len(Events)
  BY DEF Nested
<1>2. BlockAt(1) = "none"
  <2>1. BlocksTo(1) = {}
    BY <1>1 DEF BlocksTo
  <2> QED  BY <2>1, BlockIs
<1> SUFFICES ASSUME NEW i \in 1..Len(Events)
             PROVE  /\ BlockAt(i + 1) = IF Events[i].kind \in BlockKinds THEN Events[i].kind ELSE BlockAt(i)
                    /\ Events[i].kind = "start_link" => LinkStart(i + 1) = i
                    /\ Events[i].kind # "start_link" => LinkStart(i + 1) = LinkStart(i)
  BY <1>2
<1>3. i \in Nat /\ \A j \in DOMAIN Events : j \in Nat /\ (j < i + 1 <=> j < i \/ j = i)
  BY <1>1
<1>4. CASE Events[i].kind \in BlockKinds
  <2>1. BlocksTo(i + 1) = BlocksTo(i) \cup {i} /\ \A x \in BlocksTo(i) : x \in Nat /\ x < i
    BY <1>1, <1>3, <1>4 DEF BlocksTo
  <2>2. Max(BlocksTo(i + 1)) = i /\ BlocksTo(i + 1) # {}
    BY <1>3, <2>1, NewMax
  <2>3. BlockAt(i + 1) = Events[i].kind
    BY <2>2, BlockIs
  <2>4. Events[i].kind # "start_link"
    BY <1>4 DEF BlockKinds
  <2>5. LinksTo(i + 1) = LinksTo(i)
    BY <1>3, <2>4 DEF LinksTo, Positions
  <2> QED  BY <1>4, <2>3, <2>4, <2>5 DEF LinkStart, LinksTo
<1>5. CASE Events[i].kind \notin BlockKinds
  <2>1. BlocksTo(i + 1) = BlocksTo(i)
    BY <1>3, <1>5 DEF BlocksTo
  <2>2. BlockAt(i + 1) = BlockAt(i)
    BY <2>1, BlockIs
  <2>3. CASE Events[i].kind = "start_link"
    <3>1. LinksTo(i + 1) = LinksTo(i) \cup {i} /\ \A x \in LinksTo(i) : x \in Nat /\ x < i
      BY <1>1, <1>3, <2>3 DEF LinksTo, Positions
    <3>2. Max(LinksTo(i + 1)) = i
      BY <1>3, <3>1, NewMax
    <3> QED  BY <1>5, <2>2, <2>3, <3>2 DEF LinkStart, LinksTo
  <2>4. CASE Events[i].kind # "start_link"
    <3>1. LinksTo(i + 1) = LinksTo(i)
      BY <1>3, <2>4 DEF LinksTo, Positions
    <3> QED  BY <1>5, <2>2, <2>4, <3>1 DEF LinkStart, LinksTo
  <2> QED  BY <2>3, <2>4
<1> QED
  BY <1>4, <1>5

\* The first line of an item is not in a code block.
LEMMA LineNoCode ==
  ASSUME Nested, input \in Inputs, NEW s \in Items, NEW i \in Nat, s <= i, i <= LeadEnd(s)
  PROVE  BlockAt(i) # "start_code"
<1> SUFFICES ASSUME BlockAt(i) = "start_code" PROVE FALSE
  OBVIOUS
<1> DEFINE a == LeadFrom(s)
           z == LeadEnd(s)
           j == Max(BlocksTo(i))
<1>1. Len(Events) \in Nat /\ DOMAIN Events = 1..Len(Events)
  BY DEF Nested
<1>2. BlocksTo(i) \subseteq 1..Len(Events) /\ BlocksTo(i) # {}
  BY <1>1, BlockIs DEF BlocksTo
<1>3. j \in BlocksTo(i) /\ \A x \in BlocksTo(i) : x <= j
  BY <1>1, <1>2, MaxIs
<1>4. Events[j].kind = "start_code"
  BY <1>2, BlockIs
<1> HIDE DEF j
<1>5. j \in 1..Len(Events) /\ j < i
  BY <1>1, <1>3 DEF BlocksTo
<1>6. PICK k \in DOMAIN Events : /\ Events[k].kind = "end_code" /\ j < k
                                 /\ \A m \in (j + 1)..(k - 1) : Events[m].kind = "text"
  BY SMTT(90), <1>1, <1>4, <1>5, BlocksAssumption DEF BlocksEnd, Events
<1>7. ~(k < i)
  <2> SUFFICES ASSUME k < i PROVE FALSE
    OBVIOUS
  <2>1. k \in BlocksTo(i)
    BY <1>6 DEF BlocksTo, BlockKinds
  <2> QED  BY <1>1, <1>3, <1>5, <1>6, <2>1
<1>8. /\ s \in Nat /\ 1 <= s /\ s <= Len(Events) /\ Events[s].kind = "start_item"
      /\ a \in {s + 1, s + 2} /\ z \in Nat /\ a <= z
      /\ a = s + 2 => Events[s + 1].kind = "start_text"
      /\ \A m \in a..(z - 1) : Events[m].kind = "text"
  BY StartsAre, LeadIs DEF Items
<1> HIDE DEF a, z
<1>9. k \in Nat /\ j \in Nat
  BY <1>1, <1>5
<1>10. s \notin (j + 1)..(k - 1) /\ s # j /\ s # k
  BY <1>4, <1>6, <1>8
<1>11. ~(j < s)
  BY <1>7, <1>8, <1>9, <1>10
<1>12. s < j
  BY <1>8, <1>9, <1>10, <1>11
<1>13. i <= z
  BY DEF z
<1>14. (j = s + 1 /\ a = s + 2) \/ j \in a..(z - 1)
  BY <1>5, <1>8, <1>9, <1>12, <1>13
<1> QED
  BY <1>4, <1>8, <1>14

\* The innermost open item is the one an event belongs to.
LEMMA OwnerIs ==
  ASSUME Nested, NEW i
  PROVE  /\ Len(OpenItems(i)) = 0 => Owner(i) = 0
         /\ Len(OpenItems(i)) # 0 => Owner(i) = OpenItems(i)[Len(OpenItems(i))] /\ Owner(i) # 0
<1> DEFINE q == OpenItems(i)
           S == Around("start_item", i)
<1>1. IsAscending(q, S)
  BY AroundOrder DEF OpenItems
<1>2. \A n \in 1..Len(q) : q[n] \in Items
  BY OpenOrder
<1> HIDE DEF q, S
<1>3. /\ Len(q) \in Nat
      /\ Len(q) # 0 => Max(S \cup {0}) = Last(q)
      /\ Len(q) = 0 => Max(S \cup {0}) = 0
  BY <1>1, LastIsMax
<1>4. Owner(i) = Max(S \cup {0})
  BY DEF Owner, S
<1>5. ASSUME Len(q) # 0 PROVE q[Len(q)] # 0
  <2>1. q[Len(q)] \in Items
    BY <1>2, <1>3, <1>5
  <2> QED  BY <2>1, StartsAre DEF Items
<1> QED
  BY <1>3, <1>4, <1>5 DEF Last, q

-----------------------------------------------------------------------------
(* What is scanned of an item *)

\* What is written of an event is a text, and so is what it is joined to.
LEMMA WrittenTyped ==
  ASSUME Nested, input \in Inputs, NEW i \in 1..Len(Events)
  PROVE  /\ Written(i) \in Seq(Characters)
         /\ \A t \in Seq(Characters) : Joined(t, i) \in Seq(Characters)
<1> DEFINE n == <<>>
           a == <<"\n">>
           b == <<"[">>
           c == <<"]">>
<1>1. i \in DOMAIN Events
  BY DEF Nested
<1>2. Events[i].kind \in {"text", "code", "footnote"} => Events[i].text \in Seq(Characters)
  BY <1>1, TextsAssumption DEF Events
<1>3. n \in Seq(Characters) /\ a \in Seq(Characters) /\ b \in Seq(Characters) /\ c \in Seq(Characters)
  BY CharactersAssumption
<1>4. \/ Written(i) \in {n, a, b, c}
      \/ Events[i].kind \in {"text", "code", "footnote"} /\ Written(i) = Events[i].text
  <2> HIDE DEF n, a, b, c
  <2> DEFINE A == Events[i].kind \in {"text", "footnote"} /\ BlockAt(i) # "start_code"
             B == Is(i, "break")
             C == Is(i, "start_link") /\ ~Events[i].wiki
             D == Is(i, "end_link") /\ ~Events[LinkStart(i)].wiki
  <2>1. Written(i) = CASE A -> Events[i].text [] B -> a [] C -> b [] D -> c [] OTHER -> n
    BY DEF Written, a, b, c, n
  <2>2. A => Events[i].kind \in {"text", "code", "footnote"}
    OBVIOUS
  <2>3. (A => ~B /\ ~C /\ ~D) /\ (B => ~A /\ ~C /\ ~D) /\ (C => ~A /\ ~B /\ ~D) /\ (D => ~A /\ ~B /\ ~C)
    BY DEF Is
  <2> HIDE DEF A, B, C, D
  <2> QED  BY <2>1, <2>2, <2>3
<1>5. Written(i) \in Seq(Characters)
  <2> HIDE DEF n, a, b, c
  <2> QED  BY <1>2, <1>3, <1>4
<1>6. ASSUME NEW t \in Seq(Characters) PROVE Joined(t, i) \in Seq(Characters)
  <2>1. t \o Written(i) \in Seq(Characters) /\ EndLine(t) \in Seq(Characters)
    BY <1>5, ConcatIs, EndLineBegins
  <2>2. Joined(t, i) \in {n, t, EndLine(t), t \o Written(i)}
    <3> DEFINE A == IsScanned(i)
               B == Events[i].kind \in {"start_text", "start_code", "start_quote"}
               C == Events[i].kind \in {"start_text", "end_text"}
               D == BlockAt(i) = "start_text" /\ Events[i].kind \notin {"start_text", "end_text"}
               x == t \o Written(i)
               y == EndLine(t)
    <3>1. Joined(t, i) = IF Owner(i) # 0 THEN CASE A -> n [] B -> y [] OTHER -> x
                         ELSE CASE C -> n [] D -> x [] OTHER -> t
      BY DEF Joined
    <3>2. Owner(i) # 0 => ~(A /\ B)
      BY DEF IsScanned, Is
    <3>3. ~(C /\ D)
      OBVIOUS
    <3> HIDE DEF A, B, C, D, x, y, n
    <3>4. Joined(t, i) \in {n, t, y, x}
      BY <3>1, <3>2, <3>3
    <3> QED  BY <3>4 DEF x, y
  <2> HIDE DEF n
  <2> QED  BY <1>3, <2>1, <2>2
<1> QED
  BY <1>5, <1>6

LEMMA UnscannedItem ==
  ASSUME Nested, NEW s \in Items
  PROVE  /\ Unscanned(s, LeadEnd(s)) = LeadRest(s)
         /\ \A j \in 1..Len(Events) : j >= LeadEnd(s) =>
              Unscanned(s, j + 1) = IF Owner(j) = s THEN Joined(Unscanned(s, j), j) ELSE Unscanned(s, j)
<1> DEFINE z == LeadEnd(s)
<1>1. s \in Nat /\ 1 <= s /\ s # 0 /\ Len(Events) \in Nat
  BY StartsAre DEF Items, Nested
<1>2. LeadFrom(s) \in {s + 1, s + 2} /\ z \in Nat /\ LeadFrom(s) <= z /\ z <= EndOf(s) /\ EndOf(s) <= Len(Events)
  BY LeadIs
<1>3. EndOf(s) \in Nat
  BY StartsAre DEF Items
<1>4. z \in 1..(Len(Events) + 1)
  <2> HIDE DEF z
  <2> QED  BY <1>1, <1>2, <1>3
<1>5. z = IF s = 0 THEN 1 ELSE LeadEnd(s)
  BY <1>1
<1> HIDE DEF z
<1>6. /\ Unscanned(s, z) = IF s = 0 THEN <<>> ELSE LeadRest(s)
      /\ \A j \in z..Len(Events) :
           Unscanned(s, j + 1) = IF Owner(j) = s THEN Joined(Unscanned(s, j), j) ELSE Unscanned(s, j)
  BY <1>4, <1>5, UnscannedIs
<1>7. \A j \in 1..Len(Events) : j >= z => j \in z..Len(Events)
  BY <1>2
<1> QED
  BY <1>1, <1>6, <1>7 DEF z

\* The text that an event has the marker of an item release.
Released(m, kind) ==
  IF kind \in Inline THEN RejectMarker(m).flushed
  ELSE IF kind \in LineEnds THEN ResolveMarker(m).flushed ELSE <<>>

SameFinds(g, f) == g.fields = f.fields /\ g.tags = f.tags

\* What event i of an item makes of what is to be scanned, and of what was found.
Carries(f, g, i) ==
  LET e == Events[i]
      t == f.scan \o Released(f.marker, e.kind)
      step == PushMarkerText(f.marker, e.text)
      found == ScanMetadata(t, g.marker.symbol # NoMarker)
  IN /\ e.kind = "text" =>
          /\ g.scan = IF BlockAt(i) = "start_code" THEN f.scan \o step.flushed
                      ELSE (f.scan \o step.flushed) \o step.rest
          /\ SameFinds(g, f)
     /\ e.kind # "text" /\ ~IsScanned(i) => g.scan = Joined(t, i) /\ SameFinds(g, f)
     /\ e.kind # "text" /\ IsScanned(i) =>
          g.scan = <<>> /\ g.fields = f.fields \o found.fields /\ g.tags = f.tags \o found.tags

\* The frame of an open item at event i: while its first line lasts, its text is
\* also its scan.
Scanning(f, s, i) ==
  IsSettled(s) =>
    /\ f.scan \in Seq(Characters)
    /\ i <= LeadEnd(s) => f.scan = f.text
    /\ i > LeadEnd(s) => f.scan = Unscanned(s, i)
    /\ f.fields = Gathered(EventsOf(s), i).fields
    /\ f.tags = Gathered(EventsOf(s), i).tags

LEMMA DecidedReleases ==
  ASSUME NEW m, m.decided = TRUE, NEW kind
  PROVE  Released(m, kind) = <<>>
<1> DEFINE n == <<>>
<1>1. RejectMarker(m) = Keep(m, n) /\ ResolveMarker(m) = Keep(m, n)
  BY DEF RejectMarker, ResolveMarker
<1> HIDE DEF n
<1>2. RejectMarker(m).flushed = <<>> /\ ResolveMarker(m).flushed = <<>>
  BY <1>1, KeepIs
<1> QED
  BY <1>2 DEF Released

LEMMA MarkedIs ==
  ASSUME NEW s, LeadText(s) \in Seq(Characters)
  PROVE  IsMarked(s) <=> /\ Forms(LeadText(s)) /\ Len(LeadText(s)) >= 3
                         /\ Len(LeadText(s)) = 3 => Events[LeadEnd(s)].kind \notin Inline
<1> DEFINE t == LeadText(s)
           e == Events[LeadEnd(s)]
           lt == Len(t)
<1>1. IsMarked(s) <=> /\ lt >= 3
                      /\ t[1] = "[" /\ IsSymbol(t[2]) /\ t[3] = "]"
                      /\ IF lt > 3 THEN t[4] \in White ELSE e.kind \notin Inline
  BY DEF IsMarked
<1>2. Forms(t) <=> /\ lt >= 1 /\ t[1] = "["
                   /\ lt >= 2 => IsSymbol(t[2])
                   /\ lt >= 3 => t[3] = "]"
                   /\ lt >= 4 => t[4] \in White
  BY DEF Forms
<1>3. lt \in Nat
  OBVIOUS
<1> HIDE DEF lt, t, e
<1>4. lt >= 3 => (lt > 3 <=> lt >= 4) /\ (lt > 3 <=> lt # 3) /\ lt >= 1 /\ lt >= 2
  BY ONLY <1>3
<1>5. IsMarked(s) <=> Forms(t) /\ lt >= 3 /\ (lt = 3 => e.kind \notin Inline)
  <2> HIDE DEF IsMarked, Forms
  <2> QED  BY ONLY <1>1, <1>2, <1>4
<1> QED
  BY ONLY <1>5 DEF lt, t, e

\* Where its first line ends, what an item has read and what is released then
\* are the line without its marker.
LEMMA LeadReleases ==
  ASSUME NEW s, NEW f, Reads(f, LeadText(s)), IsSettled(s)
  PROVE  /\ f.text \o Released(f.marker, Events[LeadEnd(s)].kind) = LeadRest(s)
         /\ LeadRest(s) \in Seq(Characters)
<1> DEFINE t == LeadText(s)
           kind == Events[LeadEnd(s)].kind
           n == <<>>
<1>1. t \in Seq(Characters) /\ Len(t) \in Nat
  BY DEF Reads
<1>2. IsMarked(s) <=> Forms(t) /\ Len(t) >= 3 /\ (Len(t) = 3 => kind \notin Inline)
  BY <1>1, MarkedIs
<1>3. LeadRest(s) = IF IsMarked(s) THEN SubSeq(t, 5, Len(t)) ELSE t
  BY DEF LeadRest
<1>4. n \in Seq(Characters) /\ \A x \in Seq(Characters) : n \o x = x /\ x \o n = x
  OBVIOUS
<1> HIDE DEF t, kind
<1>5. CASE ~IsHeld(t)
  <2>1. IsMarked(s) <=> Forms(t)
    <3> DEFINE lt == Len(t)
    <3>1. /\ Forms(t) => ~(lt < 4)
          /\ IsMarked(s) <=> Forms(t) /\ lt >= 3 /\ (lt = 3 => kind \notin Inline)
          /\ lt \in Nat
      BY <1>1, <1>2, <1>5 DEF IsHeld
    <3> HIDE DEF lt
    <3>2. ~(lt < 4) => lt >= 3 /\ lt # 3
      BY ONLY <3>1
    <3> QED  BY ONLY <3>1, <3>2
  <2>2. LeadRest(s) = Remains(t)
    BY <1>3, <2>1 DEF Remains
  <2>3. f.text = Remains(t) /\ f.marker.decided = TRUE
    BY <1>5, ChoseTells DEF Reads, t
  <2>4. Remains(t) \in Seq(Characters)
    <3>1. Forms(t) => Len(t) >= 4
      BY <1>1, <1>5 DEF IsHeld
    <3>2. Forms(t) => SubSeq(t, 5, Len(t)) \in Seq(Characters)
      BY <1>1, <3>1
    <3> QED  BY <1>1, <3>2 DEF Remains
  <2>5. Released(f.marker, kind) = n
    BY <2>3, DecidedReleases
  <2> HIDE DEF n
  <2> QED  BY <1>4, <2>2, <2>3, <2>4, <2>5 DEF kind
<1>6. CASE IsHeld(t)
  <2>0. f.marker = Holding(t) /\ f.text = n
    BY <1>6 DEF Reads, t
  <2>1. Len(t) < 4 /\ (Forms(t) \/ t = <<>>)
    <3>1. t = <<>> => Len(t) = 0
      OBVIOUS
    <3> QED  BY <1>6, <3>1 DEF IsHeld
  <2>2. kind \in Inline \cup LineEnds
    <3>1. ~(t # <<>> /\ ScanMarkerPrefix(t) # "incomplete")
      BY <1>1, <2>1, ScanIs
    <3> QED  BY <3>1 DEF IsSettled, t, kind
  <2> DEFINE lt == Len(t)
  <2>3. /\ lt \in Nat /\ lt < 4
        /\ IsMarked(s) <=> Forms(t) /\ lt >= 3 /\ (lt = 3 => kind \notin Inline)
    BY <1>1, <1>2, <2>1
  <2>4. /\ RejectMarker(Holding(t)) = Decide(NoMarker, t, n)
        /\ ResolveMarker(Holding(t)) =
             IF Forms(t) /\ lt = 3 THEN Decide(t[2], n, n) ELSE Decide(NoMarker, t, n)
    BY <1>1, <1>6, HeldIsDecided
  <2> HIDE DEF lt, n
  <2>5. CASE kind \in Inline
    <3>1. ~IsMarked(s)
      <4>1. lt >= 3 => lt = 3
        BY ONLY <2>3
      <4> QED  BY ONLY <2>3, <2>5, <4>1
    <3>2. Released(f.marker, kind) = t
      BY <2>0, <2>4, <2>5, DecideIs DEF Released
    <3> QED  BY <1>1, <1>3, <1>4, <2>0, <3>1, <3>2 DEF kind
  <2>6. CASE kind \in LineEnds
    <3>0. kind \notin Inline
      BY <2>6, KindsDiffer
    <3>1. IsMarked(s) <=> Forms(t) /\ lt = 3
      <4>1. lt >= 3 <=> lt = 3
        BY ONLY <2>3
      <4> QED  BY ONLY <2>3, <3>0, <4>1
    <3>2. Released(f.marker, kind) = ResolveMarker(Holding(t)).flushed
      BY <2>0, <2>6, <3>0 DEF Released
    <3>3. CASE IsMarked(s)
      <4>1. Released(f.marker, kind) = n
        BY <2>4, <3>1, <3>2, <3>3, DecideIs
      <4>2. LeadRest(s) = n
        <5>1. SubSeq(t, 5, 3) = n
          BY <1>1 DEF n
        <5>2. LeadRest(s) = SubSeq(t, 5, 3)
          BY <1>3, <3>1, <3>3 DEF lt
        <5> QED  BY <5>1, <5>2
      <4> QED  BY <1>4, <2>0, <4>1, <4>2 DEF kind
    <3>4. CASE ~IsMarked(s)
      <4>1. Released(f.marker, kind) = t
        BY <2>4, <3>1, <3>2, <3>4, DecideIs
      <4> QED  BY <1>1, <1>3, <1>4, <2>0, <3>4, <4>1 DEF kind
    <3> QED  BY <3>3, <3>4
  <2> QED  BY <2>2, <2>5, <2>6
<1> QED
  BY <1>5, <1>6

\* Whether an item has a marker is what its settled frame says.
LEMMA SettledTells ==
  ASSUME NEW f, NEW s, Settled(f, s), IsSettled(s)
  PROVE  /\ (f.marker.symbol # NoMarker) <=> IsMarked(s)
         /\ f.marker.decided = TRUE
<1> DEFINE w == LeadText(s)
           c == w[2]
<1>1. w \in Seq(Characters) /\ f.marker = Chose(IF IsMarked(s) THEN c ELSE NoMarker)
  BY DEF Settled
<1>2. IsMarked(s) => c # NoMarker
  <2> SUFFICES ASSUME IsMarked(s) PROVE c # NoMarker
    OBVIOUS
  <2>1. Len(w) >= 3
    BY DEF IsMarked
  <2> HIDE DEF w
  <2>2. w[2] \in Characters
    BY <1>1, <2>1
  <2> QED  BY <2>2, CharactersAssumption
<1> HIDE DEF w, c
<1>3. \A x : Chose(x).symbol = x /\ Chose(x).decided = TRUE
  BY DEF Chose
<1>4. CASE IsMarked(s)
  <2>1. f.marker = Chose(c)
    BY <1>1, <1>4
  <2> QED  BY <1>2, <1>3, <1>4, <2>1
<1>5. CASE ~IsMarked(s)
  <2>1. f.marker = Chose(NoMarker)
    BY <1>1, <1>5
  <2> QED  BY <1>3, <1>5, <2>1
<1> QED
  BY <1>4, <1>5

LEMMA SameScan ==
  ASSUME NEW t, NEW A, NEW B, A <=> B, A \in BOOLEAN, B \in BOOLEAN
  PROVE  ScanMetadata(t, A) = ScanMetadata(t, B)
<1>1. A = B
  OBVIOUS
<1> QED
  BY <1>1

\* What is found at an event of an item goes to what was found before.
LEMMA GatheredOwn ==
  ASSUME Nested, NEW s, NEW i \in 1..Len(Events), Owner(i) = s, NEW f, NEW g,
         f.fields = Gathered(EventsOf(s), i).fields, f.tags = Gathered(EventsOf(s), i).tags,
         NEW found, IsScanned(i) => found = Found(i),
         IsScanned(i) => g.fields = f.fields \o found.fields /\ g.tags = f.tags \o found.tags,
         ~IsScanned(i) => SameFinds(g, f)
  PROVE  g.fields = Gathered(EventsOf(s), i + 1).fields /\ g.tags = Gathered(EventsOf(s), i + 1).tags
<1> DEFINE G == Gathered(EventsOf(s), i)
           H == Gathered(EventsOf(s), i + 1)
<1>1. i \in EventsOf(s)
  BY DEF EventsOf, Nested
<1>2. H = Joining(G, i)
  BY <1>1, GatheredIs
<1> HIDE DEF G, H
<1>3. /\ H.fields = IF IsScanned(i) THEN G.fields \o Found(i).fields ELSE G.fields
      /\ H.tags = IF IsScanned(i) THEN G.tags \o Found(i).tags ELSE G.tags
  BY <1>2 DEF Joining
<1>4. f.fields = G.fields /\ f.tags = G.tags
  BY DEF G
<1>5. g.fields = H.fields /\ g.tags = H.tags
  BY <1>3, <1>4 DEF SameFinds
<1> QED
  BY <1>5 DEF H

\* Once its line has ended, what an item has not scanned yet is what its text
\* holds, with what its marker releases.
LEMMA ReadyScan ==
  ASSUME Nested, NEW s \in Items, NEW i \in 1..Len(Events), i >= LeadEnd(s), Events[i].kind # "text",
         NEW f, Leading(f, s, i), Scanning(f, s, i), IsSettled(s),
         NEW t, t = f.scan \o Released(f.marker, Events[i].kind)
  PROVE  t = Unscanned(s, i) /\ t \in Seq(Characters)
<1> DEFINE z == LeadEnd(s)
           kind == Events[i].kind
           n == <<>>
<1>1. z \in Nat /\ i \in Nat /\ i >= z
  BY LeadIs
<1>2. /\ f.scan \in Seq(Characters)
      /\ i <= z => f.scan = f.text
      /\ i > z => f.scan = Unscanned(s, i)
      /\ i <= z => Reads(f, LeadTo(s, i))
      /\ i > z => Settled(f, s)
  BY DEF Scanning, Leading
<1>3. Unscanned(s, z) = LeadRest(s) /\ LeadTo(s, z) = LeadText(s)
  BY UnscannedItem, LeadToIs
<1>4. f.scan \o n = f.scan
  BY <1>2
<1>5. CASE i = z
  <2>1. Reads(f, LeadText(s))
    BY <1>1, <1>2, <1>3, <1>5
  <2>2. f.text \o Released(f.marker, Events[z].kind) = LeadRest(s) /\ LeadRest(s) \in Seq(Characters)
    BY <2>1, LeadReleases
  <2> QED  BY <1>1, <1>2, <1>3, <1>5, <2>2
<1>6. CASE i # z
  <2>1. i > z
    <3> HIDE DEF z
    <3> QED  BY <1>1, <1>6
  <2>2. f.marker.decided = TRUE
    BY <1>2, <2>1, SettledTells
  <2>3. Released(f.marker, kind) = n
    BY <2>2, DecidedReleases
  <2> QED  BY <1>2, <1>4, <2>1, <2>3
<1> QED
  BY <1>5, <1>6

\* What an item finds where it is scanned is what its text holds.
LEMMA FoundIs ==
  ASSUME Nested, NEW s \in Items, NEW i \in 1..Len(Events), Owner(i) = s, s < i, IsScanned(i),
         NEW f, Leading(f, s, i), Scanning(f, s, i), IsSettled(s),
         NEW g, Turns(f, g, Events[i]),
         NEW t, t = f.scan \o Released(f.marker, Events[i].kind)
  PROVE  ScanMetadata(t, g.marker.symbol # NoMarker) = Found(i)
<1> DEFINE z == LeadEnd(s)
           a == LeadFrom(s)
           A == g.marker.symbol # NoMarker
           B == s # 0 /\ IsMarked(s)
<1>1. /\ s \in Nat /\ s # 0 /\ a \in {s + 1, s + 2} /\ z \in Nat /\ a <= z /\ i \in Nat
      /\ a = s + 2 => Events[s + 1].kind = "start_text"
      /\ \A j \in a..(z - 1) : Events[j].kind = "text"
  BY StartsAre, LeadIs DEF Items, Nested
<1>2. Events[i].kind # "text" /\ Events[i].kind # "start_text"
  BY <1>1 DEF IsScanned, Is
<1> HIDE DEF a, z
<1>3. i >= z /\ i + 1 > z
  <2> SUFFICES ASSUME i < z PROVE FALSE
    BY <1>1
  <2>1. (i = s + 1 /\ a = s + 2) \/ i \in a..(z - 1)
    BY <1>1
  <2> QED  BY <1>1, <1>2, <2>1
<1>4. t = Unscanned(s, i)
  BY <1>2, <1>3, ReadyScan DEF z
<1>5. Leading(g, s, i + 1)
  BY <1>1, LeadTurns
<1>6. Settled(g, s)
  BY <1>3, <1>5 DEF Leading, z
<1>7. A <=> B
  BY <1>1, <1>6, SettledTells
<1>8. Found(i) = ScanMetadata(Unscanned(s, i), B)
  BY DEF Found
<1>9. A \in BOOLEAN /\ B \in BOOLEAN
  OBVIOUS
<1> HIDE DEF A, B
<1>10. ScanMetadata(t, A) = Found(i)
  BY <1>4, <1>7, <1>8, <1>9, SameScan
<1> QED
  BY <1>10 DEF A

\* An item takes an event of its own.
LEMMA ScanningTurns ==
  ASSUME Nested, input \in Inputs, NEW s \in Items, NEW i \in 1..Len(Events), Owner(i) = s, s < i,
         NEW f, Leading(f, s, i), Scanning(f, s, i),
         NEW g, Turns(f, g, Events[i]), Carries(f, g, i)
  PROVE  Scanning(g, s, i + 1)
<1> DEFINE a == LeadFrom(s)
           z == LeadEnd(s)
           e == Events[i]
           kind == e.kind
           n == <<>>
           t == f.scan \o Released(f.marker, kind)
           found == ScanMetadata(t, g.marker.symbol # NoMarker)
<1> SUFFICES ASSUME IsSettled(s)
             PROVE  /\ g.scan \in Seq(Characters)
                    /\ i + 1 <= z => g.scan = g.text
                    /\ i + 1 > z => g.scan = Unscanned(s, i + 1)
                    /\ g.fields = Gathered(EventsOf(s), i + 1).fields
                    /\ g.tags = Gathered(EventsOf(s), i + 1).tags
  BY DEF Scanning
<1>1. /\ s \in Nat /\ 1 <= s /\ s # 0 /\ a \in {s + 1, s + 2} /\ z \in Nat /\ a <= z /\ i \in Nat
      /\ a = s + 2 => Events[s + 1].kind = "start_text"
      /\ \A j \in a..(z - 1) : Events[j].kind = "text"
      /\ Events[z].kind # "text"
  BY StartsAre, LeadIs DEF Items, Nested
<1>2. /\ f.scan \in Seq(Characters)
      /\ i <= z => f.scan = f.text
      /\ i > z => f.scan = Unscanned(s, i)
      /\ f.fields = Gathered(EventsOf(s), i).fields
      /\ f.tags = Gathered(EventsOf(s), i).tags
  BY DEF Scanning
<1>3. Leading(g, s, i + 1)
  BY <1>1, LeadTurns
<1>4. IsTyped(f) /\ IsTyped(g)
  BY DEF Turns
<1>5. /\ i <= z => Reads(f, LeadTo(s, i))
      /\ i > z => Settled(f, s)
  BY DEF Leading
<1>6. i + 1 > z => Settled(g, s)
  BY <1>3 DEF Leading
<1>7. /\ Unscanned(s, z) = LeadRest(s)
      /\ i >= z => Unscanned(s, i + 1) = Joined(Unscanned(s, i), i)
  BY UnscannedItem
<1>8. n \in Seq(Characters) /\ \A x \in Seq(Characters) : n \o x = x /\ x \o n = x
  OBVIOUS
<1>9. /\ LeadTo(s, z) = LeadText(s)
      /\ \A j \in Nat : j <= a => LeadTo(s, j) = n
  BY SMTT(90), LeadToIs
<1>10. kind = "text" =>
         LET step == PushMarkerText(f.marker, e.text)
         IN /\ g.scan = IF BlockAt(i) = "start_code" THEN f.scan \o step.flushed
                        ELSE (f.scan \o step.flushed) \o step.rest
            /\ g.text = (f.text \o step.flushed) \o step.rest
            /\ e.text \in Seq(Characters)
            /\ SameFinds(g, f)
  BY DEF Carries, Turns
<1>11. /\ kind # "text" /\ ~IsScanned(i) => g.scan = Joined(t, i) /\ SameFinds(g, f)
       /\ kind # "text" /\ IsScanned(i) =>
            g.scan = n /\ g.fields = f.fields \o found.fields /\ g.tags = f.tags \o found.tags
  BY DEF Carries
<1>12. /\ IsScanned(i) <=> kind = "start_list" \/ kind = "end_item"
       /\ IsScanned(i) => Found(i) = ScanMetadata(Unscanned(s, i), s # 0 /\ IsMarked(s))
       /\ \A x : IsScanned(i) => Joined(x, i) = n
  <2>1. i \in DOMAIN Events
    BY DEF Nested
  <2> QED  BY <1>1, <2>1 DEF IsScanned, Is, Found, Joined
<1>13. s < z
  <2> HIDE DEF a, z
  <2> QED  BY <1>1
<1> HIDE DEF a, z, n, t, found, kind
<1>14. CASE i < z
  <2>0. i + 1 <= z /\ ~(i + 1 > z) /\ i <= z
    BY <1>1, <1>14
  <2>1. \/ i = s + 1 /\ a = s + 2
        \/ i \in a..(z - 1)
    BY <1>1, <1>14
  <2>2. CASE i = s + 1 /\ a = s + 2
    <3>1. kind = "start_text"
      BY <1>1, <2>2 DEF kind
    <3>2. LeadTo(s, i) = n
      BY <1>1, <1>9, <2>2
    <3>3. f.marker = Holding(n) /\ f.text = n
      BY <1>5, <2>0, <3>2, EmptyReads DEF n
    <3>4. g.text = EndLine(f.text)
      BY <3>1 DEF Turns, kind
    <3>5. g.text = n
      BY <3>3, <3>4 DEF EndLine, n
    <3>6. ~IsScanned(i)
      BY <1>12, <3>1
    <3>7. Released(f.marker, kind) = n
      BY <3>1, KindsDiffer DEF Released, n
    <3>8. t = n
      BY <1>2, <1>8, <2>0, <3>3, <3>7 DEF t
    <3>9. Joined(n, i) = EndLine(n)
      BY <1>1, <3>1, <3>6 DEF Joined, kind
    <3>10. g.scan = n /\ SameFinds(g, f)
      BY <1>11, <3>1, <3>6, <3>8, <3>9 DEF EndLine, n
    <3>11. g.fields = Gathered(EventsOf(s), i + 1).fields /\ g.tags = Gathered(EventsOf(s), i + 1).tags
      BY <1>2, <3>6, <3>10, GatheredOwn
    <3> QED  BY <1>8, <2>0, <3>5, <3>10, <3>11
  <2>3. CASE i \in a..(z - 1)
    <3>1. kind = "text"
      BY <1>1, <2>3 DEF kind
    <3>2. BlockAt(i) # "start_code"
      BY SMTT(90), <1>1, <2>0, LineNoCode DEF z
    <3>3. g.scan = g.text /\ SameFinds(g, f)
      BY <1>2, <1>10, <2>0, <3>1, <3>2
    <3>4. g.scan \in Seq(Characters)
      BY <1>4, <3>3 DEF IsTyped
    <3>5. ~IsScanned(i)
      BY <1>12, <3>1
    <3>6. g.fields = Gathered(EventsOf(s), i + 1).fields /\ g.tags = Gathered(EventsOf(s), i + 1).tags
      BY <1>2, <3>3, <3>5, GatheredOwn
    <3> QED  BY <2>0, <3>3, <3>4, <3>6
  <2> QED  BY <2>1, <2>2, <2>3
<1>15. CASE i >= z
  <2>0. i + 1 > z /\ ~(i + 1 <= z) /\ (i # z => i > z) /\ (i = z => i <= z)
    BY <1>1, <1>15
  <2>1. kind # "text" => t = Unscanned(s, i) /\ t \in Seq(Characters)
    BY <1>15, ReadyScan DEF t, kind, z
  <2>2. g.scan = Joined(Unscanned(s, i), i) /\ Unscanned(s, i) \in Seq(Characters)
    <3>1. CASE kind = "text"
      <4>1. i # z /\ ~IsScanned(i)
        BY <1>1, <1>12, <3>1 DEF kind
      <4>2. f.marker.decided = TRUE
        BY <1>5, <2>0, <4>1, SettledTells
      <4> DEFINE step == PushMarkerText(f.marker, e.text)
                 w == e.text
      <4>3. step = Keep(f.marker, w)
        BY <4>2 DEF PushMarkerText
      <4> HIDE DEF step, w
      <4>4. step.flushed = n /\ step.rest = w
        BY <4>3, KeepIs DEF n
      <4>5. g.scan = IF BlockAt(i) = "start_code" THEN f.scan ELSE f.scan \o w
        BY <1>2, <1>8, <1>10, <3>1, <4>4 DEF step
      <4>6. Joined(f.scan, i) = f.scan \o Written(i)
        BY <1>1, <3>1, <4>1 DEF Joined, kind
      <4>7. /\ BlockAt(i) = "start_code" => Written(i) = n
            /\ BlockAt(i) # "start_code" => Written(i) = w
        BY <3>1 DEF Written, kind, w, n, Is
      <4>8. f.scan = Unscanned(s, i)
        BY <1>2, <2>0, <4>1
      <4> QED  BY <1>2, <1>8, <4>5, <4>6, <4>7, <4>8
    <3>2. CASE kind # "text"
      <4>1. g.scan = Joined(t, i)
        BY <1>11, <1>12, <3>2
      <4> QED  BY <2>1, <3>2, <4>1
    <3> QED  BY <3>1, <3>2
  <2>3. g.scan \in Seq(Characters)
    BY <2>2, WrittenTyped
  <2>4. g.scan = Unscanned(s, i + 1)
    BY <1>7, <1>15, <2>2
  <2>5. IsScanned(i) => found = Found(i)
    BY ZenonT(90), FoundIs DEF found, t, kind
  <2>6. /\ IsScanned(i) => g.fields = f.fields \o found.fields /\ g.tags = f.tags \o found.tags
        /\ ~IsScanned(i) => SameFinds(g, f)
    BY <1>10, <1>11, <1>12
  <2>7. g.fields = Gathered(EventsOf(s), i + 1).fields /\ g.tags = Gathered(EventsOf(s), i + 1).tags
    <3>1. /\ f.fields = Gathered(EventsOf(s), i).fields /\ f.tags = Gathered(EventsOf(s), i).tags
          /\ Nested /\ i \in 1..Len(Events) /\ Owner(i) = s
      BY <1>2
    <3>2. IsScanned(i) => Found(i).fields = found.fields /\ Found(i).tags = found.tags
      BY <2>5
    <3>3. IsScanned(i) => g.fields = f.fields \o Found(i).fields /\ g.tags = f.tags \o Found(i).tags
      BY ONLY <2>6, <3>2
    <3>4. ~IsScanned(i) => SameFinds(g, f)
      BY <2>6
    <3>5. IsScanned(i) => Found(i) = Found(i)
      OBVIOUS
    <3> QED  BY ONLY ZenonT(90), <3>1, <3>3, <3>4, <3>5, GatheredOwn
  <2> QED  BY <2>0, <2>3, <2>4, <2>7
<1> QED
  BY <1>1, <1>14, <1>15

\* What an event makes of the text of the item around it.
LEMMA WrittenIs ==
  ASSUME NEW i \in DOMAIN Events, NEW kind, kind = Events[i].kind
  PROVE  /\ kind \in {"text", "footnote"} => Written(i) = IF BlockAt(i) = "start_code" THEN <<>> ELSE Events[i].text
         /\ kind = "break" => Written(i) = <<"\n">>
         /\ kind = "start_link" => Written(i) = IF Events[i].wiki THEN <<>> ELSE <<"[">>
         /\ kind = "end_link" => Written(i) = IF Events[LinkStart(i)].wiki THEN <<>> ELSE <<"]">>
         /\ kind \notin {"text", "footnote", "break", "start_link", "end_link"} => Written(i) = <<>>
<1> DEFINE n == <<>>
           a == <<"\n">>
           b == <<"[">>
           c == <<"]">>
           W == Events[i].wiki
           V == Events[LinkStart(i)].wiki
           A == kind \in {"text", "footnote"} /\ BlockAt(i) # "start_code"
           B == kind = "break"
           C == kind = "start_link" /\ ~W
           D == kind = "end_link" /\ ~V
<1>1. Written(i) = CASE A -> Events[i].text [] B -> a [] C -> b [] D -> c [] OTHER -> n
  BY DEF Written, a, b, c, n, Is
<1>2. (A => ~B /\ ~C /\ ~D) /\ (B => ~A /\ ~C /\ ~D) /\ (C => ~A /\ ~B /\ ~D) /\ (D => ~A /\ ~B /\ ~C)
  OBVIOUS
<1> HIDE DEF n, a, b, c, V, W
<1>3. CASE A
  <2>1. Written(i) = Events[i].text
    <3> HIDE DEF A, B, C, D
    <3> QED  BY <1>1, <1>2, <1>3
  <2> QED  BY <1>3, <2>1
<1>4. CASE B
  <2>1. Written(i) = a
    <3> HIDE DEF A, B, C, D
    <3> QED  BY <1>1, <1>2, <1>4
  <2> QED  BY <1>4, <2>1 DEF a
<1>5. CASE C
  <2>1. Written(i) = b
    <3> HIDE DEF A, B, C, D
    <3> QED  BY <1>1, <1>2, <1>5
  <2> QED  BY <1>5, <2>1 DEF b, W
<1>6. CASE D
  <2>1. Written(i) = c
    <3> HIDE DEF A, B, C, D
    <3> QED  BY <1>1, <1>2, <1>6
  <2> QED  BY <1>6, <2>1 DEF c, V
<1>7. CASE ~A /\ ~B /\ ~C /\ ~D
  <2>1. Written(i) = n
    <3> HIDE DEF A, B, C, D
    <3> QED  BY <1>1, <1>2, <1>7
  <2> QED  BY <1>7, <2>1 DEF n, V, W
<1> HIDE DEF A, B, C, D
<1> QED
  BY <1>3, <1>4, <1>5, <1>6, <1>7

LEMMA JoinedIs ==
  ASSUME NEW i \in DOMAIN Events, Owner(i) # 0, NEW t
  PROVE  /\ IsScanned(i) <=> Events[i].kind \in {"start_list", "end_item"}
         /\ Events[i].kind \in {"start_text", "start_code", "start_quote"} => Joined(t, i) = EndLine(t)
         /\ Events[i].kind \notin {"start_list", "end_item", "start_text", "start_code", "start_quote"} =>
              Joined(t, i) = t \o Written(i)
<1> DEFINE n == <<>>
           A == IsScanned(i)
           B == Events[i].kind \in {"start_text", "start_code", "start_quote"}
           x == t \o Written(i)
           y == EndLine(t)
<1>1. A <=> Events[i].kind \in {"start_list", "end_item"}
  BY DEF IsScanned, Is
<1>2. Joined(t, i) = CASE A -> n [] B -> y [] OTHER -> x
  BY DEF Joined
<1>3. ~(A /\ B)
  BY <1>1
<1> HIDE DEF n, x, y, A, B
<1>4. (B => Joined(t, i) = y) /\ (~A /\ ~B => Joined(t, i) = x)
  BY <1>2, <1>3
<1> QED
  BY <1>1, <1>3, <1>4 DEF A, B, x, y

LEMMA ScanningOther ==
  ASSUME Nested, NEW s \in Items, NEW i \in 1..Len(Events), Owner(i) # s, i > LeadEnd(s),
         NEW f, Scanning(f, s, i), NEW g, g.scan = f.scan, SameFinds(g, f)
  PROVE  Scanning(g, s, i + 1)
<1> DEFINE z == LeadEnd(s)
<1>1. z \in Nat /\ i \in Nat
  BY LeadIs
<1>2. i + 1 > z /\ ~(i + 1 <= z)
  <2> HIDE DEF z
  <2>1. i > z
    BY DEF z
  <2> QED  BY <1>1, <2>1
<1>3. Unscanned(s, i + 1) = Unscanned(s, i)
  <2>1. i >= z
    <3> HIDE DEF z
    <3>1. i > z
      BY DEF z
    <3> QED  BY <1>1, <3>1
  <2> QED  BY <2>1, UnscannedItem
<1>4. Gathered(EventsOf(s), i + 1) = Gathered(EventsOf(s), i)
  <2>1. i \notin EventsOf(s)
    BY DEF EventsOf
  <2> QED  BY <2>1, GatheredIs
<1> QED
  BY <1>2, <1>3, <1>4 DEF Scanning, SameFinds

-----------------------------------------------------------------------------
(* What the handlers make of a frame's scan *)

Rescans(g, f, t) == IsKeyed(g) /\ g.scan = t /\ t \in Seq(Characters) /\ SameFinds(g, f)

LEMMA SameRescans ==
  ASSUME NEW f, IsKeyed(f), f.scan \in Seq(Characters)
  PROVE  Rescans(f, f, f.scan)
BY DEF Rescans, SameFinds

LEMMA WriteScans ==
  ASSUME NEW f, NEW g, NEW t, Rescans(g, f, t), NEW u \in Seq(Characters), NEW hidden
  PROVE  /\ hidden => Rescans(Write(g, u, hidden), f, t)
         /\ ~hidden => Rescans(Write(g, u, hidden), f, t \o u)
<1> DEFINE h == Write(g, u, hidden)
<1>1. IsKeyed(h)
  BY WriteKeeps DEF Rescans
<1>2. /\ h.scan = IF hidden THEN g.scan ELSE g.scan \o u
      /\ SameFinds(h, g)
  BY DEF Write, Rescans, IsKeyed, FrameKeys, SameFinds
<1>3. t \o u \in Seq(Characters) /\ t \in Seq(Characters) /\ g.scan = t /\ SameFinds(g, f)
  BY ConcatIs DEF Rescans
<1>4. SameFinds(h, f)
  BY <1>2, <1>3 DEF SameFinds
<1> HIDE DEF h
<1>5. /\ hidden => Rescans(h, f, t)
      /\ ~hidden => Rescans(h, f, t \o u)
  BY ONLY <1>1, <1>2, <1>3, <1>4 DEF Rescans
<1> QED
  BY <1>5 DEF h

LEMMA SeparateScans ==
  ASSUME NEW f, NEW g, NEW t, Rescans(g, f, t)
  PROVE  Rescans(SeparateBlock(g), f, EndLine(t))
<1> DEFINE h == SeparateBlock(g)
<1>1. IsKeyed(h) /\ h.scan = EndLine(g.scan) /\ SameFinds(h, g)
  BY DEF SeparateBlock, Rescans, IsKeyed, FrameKeys, SameFinds
<1>2. EndLine(t) \in Seq(Characters) /\ g.scan = t /\ SameFinds(g, f)
  BY EndLineBegins DEF Rescans
<1> HIDE DEF h
<1>3. Rescans(h, f, EndLine(t))
  BY <1>1, <1>2 DEF Rescans, SameFinds
<1> QED
  BY <1>3 DEF h

LEMMA CharScans ==
  ASSUME NEW f, NEW g, NEW t, Rescans(g, f, t), NEW ch \in Characters
  PROVE  Rescans([g EXCEPT !.scan = Append(g.scan, ch)], f, t \o <<ch>>)
<1> DEFINE h == [g EXCEPT !.scan = Append(g.scan, ch)]
<1>1. IsKeyed(h) /\ h.scan = Append(g.scan, ch) /\ SameFinds(h, g)
  BY DEF Rescans, IsKeyed, FrameKeys, SameFinds
<1>2. t \in Seq(Characters) /\ g.scan = t /\ SameFinds(g, f)
  BY DEF Rescans
<1>3. Append(t, ch) \in Seq(Characters) /\ t \o <<ch>> = Append(t, ch)
  BY <1>2, AppendIs
<1> HIDE DEF h
<1>4. Rescans(h, f, t \o <<ch>>)
  BY <1>1, <1>2, <1>3 DEF Rescans, SameFinds
<1> QED
  BY <1>4 DEF h

\* What a step of the marker releases is text.
LEMMA StepTyped ==
  ASSUME NEW f, IsTyped(f), NEW step, step \in {RejectMarker(f.marker), ResolveMarker(f.marker)}
  PROVE  step.flushed \in Seq(Characters) /\ step.rest = <<>>
<1> DEFINE n == <<>>
<1>0. n \in Seq(Characters)
  OBVIOUS
<1>1. CASE f.marker.decided = TRUE
  <2>1. step = Keep(f.marker, n)
    BY <1>1 DEF RejectMarker, ResolveMarker
  <2> HIDE DEF n
  <2>2. step.flushed = <<>> /\ step.rest = n
    BY <2>1, KeepIs
  <2> QED  BY <1>0, <2>2 DEF n
<1>2. CASE f.marker.decided # TRUE
  <2>1. PICK x \in Seq(Characters) : IsHeld(x) /\ f.marker = Holding(x)
    BY <1>2 DEF IsTyped
  <2>2. step \in {Decide(NoMarker, x, n), Decide(x[2], n, n)}
    BY <2>1, HeldIsDecided
  <2> HIDE DEF n
  <2>3. \A c : \A y \in Seq(Characters) : Decide(c, y, n).flushed = y /\ Decide(c, y, n).rest = n
    BY <1>0, DecideIs DEF n
  <2> QED  BY ZenonT(90), <1>0, <2>1, <2>2, <2>3 DEF n
<1> QED
  BY <1>1, <1>2

LEMMA MarkerScans ==
  ASSUME NEW f, IsKeyed(f), IsTyped(f), f.scan \in Seq(Characters)
  PROVE  /\ Rescans(Reject(f), f, f.scan \o RejectMarker(f.marker).flushed)
         /\ Rescans(ResolvePending(f), f, f.scan \o ResolveMarker(f.marker).flushed)
         /\ Reject(f).marker.decided = TRUE
<1> DEFINE n == <<>>
           no == FALSE
<1>1. ASSUME NEW step, step \in {RejectMarker(f.marker), ResolveMarker(f.marker)}
      PROVE  Rescans(After(f, step, no), f, f.scan \o step.flushed)
  <2> DEFINE g == [f EXCEPT !.marker = step.marker]
             h == Write(g, step.flushed, no)
             k == Write(h, step.rest, no)
             t == f.scan \o step.flushed
  <2>1. step.flushed \in Seq(Characters) /\ step.rest = n /\ n \in Seq(Characters)
    BY <1>1, StepTyped
  <2>2. IsKeyed(g) /\ g.scan = f.scan /\ SameFinds(g, f)
    BY DEF IsKeyed, FrameKeys, SameFinds
  <2> HIDE DEF g
  <2>3. Rescans(g, f, f.scan)
    BY <2>2 DEF Rescans
  <2>4. ~no
    OBVIOUS
  <2> HIDE DEF no
  <2>5. Rescans(h, f, t)
    BY <2>1, <2>3, <2>4, WriteScans
  <2> HIDE DEF h
  <2>6. Rescans(k, f, t \o n)
    <3> HIDE DEF n, t
    <3> QED  BY <2>1, <2>4, <2>5, WriteScans
  <2>7. t \o n = t
    <3>1. t \in Seq(Characters)
      BY <2>5 DEF Rescans
    <3> HIDE DEF t
    <3> QED  BY <3>1
  <2>8. After(f, step, no) = k
    BY DEF After, k, h, g, no
  <2> HIDE DEF k, t, n
  <2> QED  BY <2>6, <2>7, <2>8 DEF t
<1>2. Reject(f) = After(f, RejectMarker(f.marker), no) /\ ResolvePending(f) = After(f, ResolveMarker(f.marker), no)
  BY DEF Reject, ResolvePending
<1>3. Reject(f).marker.decided = TRUE
  BY DecidedTurns
<1> HIDE DEF no
<1> QED
  BY <1>1, <1>2, <1>3

LEMMA RescansCarry ==
  ASSUME NEW i \in DOMAIN Events, Owner(i) # 0, Events[i].kind \notin {"text", "start_list", "end_item"},
         NEW f, NEW g, NEW t, t = f.scan \o Released(f.marker, Events[i].kind), Rescans(g, f, Joined(t, i))
  PROVE  Carries(f, g, i)
<1>1. ~IsScanned(i)
  BY JoinedIs
<1> QED
  BY <1>1 DEF Carries, Rescans

\* The events that neither begin a word nor end a line.
LEMMA QuietCarries ==
  ASSUME NEW i \in DOMAIN Events, Owner(i) # 0, NEW kind, kind = Events[i].kind,
         NEW f, IsKeyed(f), f.scan \in Seq(Characters)
  PROVE  /\ kind \in Idle \ {"start_code", "end_link"} => Carries(f, f, i)
         /\ kind \in {"start_code", "start_text"} => Carries(f, SeparateBlock(f), i)
         /\ kind = "end_link" =>
              /\ Events[LinkStart(i)].wiki => Carries(f, f, i)
              /\ ~Events[LinkStart(i)].wiki => Carries(f, [f EXCEPT !.scan = Append(f.scan, "]")], i)
<1> DEFINE n == <<>>
           t == f.scan \o Released(f.marker, kind)
<1>1. SUFFICES ASSUME kind \in Idle \cup {"start_text"}
               PROVE  /\ kind \in Idle \ {"start_code", "end_link"} => Carries(f, f, i)
                      /\ kind \in {"start_code", "start_text"} => Carries(f, SeparateBlock(f), i)
                      /\ kind = "end_link" =>
                           /\ Events[LinkStart(i)].wiki => Carries(f, f, i)
                           /\ ~Events[LinkStart(i)].wiki => Carries(f, [f EXCEPT !.scan = Append(f.scan, "]")], i)
  BY DEF Idle
<1>2. kind \notin Inline /\ kind \notin LineEnds /\ kind # "text"
  BY <1>1, KindsDiffer
<1>3. kind \notin {"text", "start_list", "end_item"}
  BY <1>2 DEF LineEnds
<1>4. Released(f.marker, kind) = n
  BY <1>2 DEF Released
<1>5. t = f.scan /\ f.scan \o n = f.scan
  BY <1>4
<1>6. Rescans(f, f, f.scan)
  BY SameRescans
<1> HIDE DEF t, n
<1>7. ASSUME NEW g, Rescans(g, f, Joined(f.scan, i)) PROVE Carries(f, g, i)
  BY <1>3, <1>5, <1>7, RescansCarry DEF t
<1>8. ASSUME kind \in Idle \ {"start_code", "end_link"} PROVE Carries(f, f, i)
  <2>1. Written(i) = n
    <3>1. kind \notin {"text", "footnote", "break", "start_link", "end_link"}
      BY <1>8 DEF Idle
    <3> QED  BY <3>1, WrittenIs DEF n
  <2>2. kind \notin {"start_list", "end_item", "start_text", "start_code", "start_quote"}
    BY <1>8 DEF Idle
  <2>3. Joined(f.scan, i) = f.scan
    BY <1>5, <2>1, <2>2, JoinedIs
  <2> QED  BY <1>6, <1>7, <2>3
<1>9. ASSUME kind \in {"start_code", "start_text"} PROVE Carries(f, SeparateBlock(f), i)
  <2>1. Joined(f.scan, i) = EndLine(f.scan)
    BY <1>9, JoinedIs
  <2>2. Rescans(SeparateBlock(f), f, EndLine(f.scan))
    BY <1>6, SeparateScans
  <2> QED  BY <1>7, <2>1, <2>2
<1>10. ASSUME kind = "end_link"
       PROVE  /\ Events[LinkStart(i)].wiki => Carries(f, f, i)
              /\ ~Events[LinkStart(i)].wiki => Carries(f, [f EXCEPT !.scan = Append(f.scan, "]")], i)
  <2> DEFINE V == Events[LinkStart(i)].wiki
             ch == "]"
             g == [f EXCEPT !.scan = Append(f.scan, ch)]
  <2>1. Joined(f.scan, i) = f.scan \o Written(i)
    BY <1>10, JoinedIs
  <2>2. Written(i) = IF V THEN <<>> ELSE <<ch>>
    BY <1>10, WrittenIs
  <2>3. ch \in Characters
    BY CharactersAssumption
  <2>4. Rescans(g, f, f.scan \o <<ch>>)
    <3> HIDE DEF ch
    <3> QED  BY <1>6, <2>3, CharScans
  <2> HIDE DEF V, g, ch
  <2>5. V => Carries(f, f, i)
    <3> SUFFICES ASSUME V PROVE Carries(f, f, i)
      OBVIOUS
    <3>1. Joined(f.scan, i) = f.scan
      BY <1>5, <2>1, <2>2 DEF n
    <3> QED  BY <1>6, <1>7, <3>1
  <2>6. ~V => Carries(f, g, i)
    <3> SUFFICES ASSUME ~V PROVE Carries(f, g, i)
      OBVIOUS
    <3>1. Joined(f.scan, i) = f.scan \o <<ch>>
      BY <2>1, <2>2
    <3> QED  BY <1>7, <2>4, <3>1
  <2> QED  BY <2>5, <2>6 DEF V, g, ch
<1> QED
  BY <1>8, <1>9, <1>10

\* The events that end a line.
LEMMA LineEndCarries ==
  ASSUME NEW i \in DOMAIN Events, Owner(i) # 0, NEW kind, kind = Events[i].kind,
         NEW f, IsKeyed(f), IsTyped(f), f.scan \in Seq(Characters)
  PROVE  /\ kind \in {"end_text", "other"} => Carries(f, ResolvePending(f), i)
         /\ kind = "start_quote" => Carries(f, SeparateBlock(ResolvePending(f)), i)
         /\ kind = "break" => \A hidden : ~hidden => Carries(f, Write(ResolvePending(f), <<"\n">>, hidden), i)
         /\ kind \in {"start_list", "end_item"} =>
              /\ Carries(f, Flush(f).item, i)
              /\ Flush(f).found = ScanMetadata(f.scan \o Released(f.marker, kind), Flush(f).item.marker.symbol # NoMarker)
<1> DEFINE t == f.scan \o Released(f.marker, kind)
           g == ResolvePending(f)
           b == <<"\n">>
<1>1. SUFFICES ASSUME kind \in LineEnds
               PROVE  /\ kind \in {"end_text", "other"} => Carries(f, g, i)
                      /\ kind = "start_quote" => Carries(f, SeparateBlock(g), i)
                      /\ kind = "break" => \A hidden : ~hidden => Carries(f, Write(g, b, hidden), i)
                      /\ kind \in {"start_list", "end_item"} =>
                           /\ Carries(f, Flush(f).item, i)
                           /\ Flush(f).found = ScanMetadata(t, Flush(f).item.marker.symbol # NoMarker)
  BY DEF LineEnds
<1>2. kind \notin Inline /\ kind # "text"
  BY <1>1, KindsDiffer
<1>3. Released(f.marker, kind) = ResolveMarker(f.marker).flushed
  BY <1>1, <1>2 DEF Released
<1>4. Rescans(g, f, t)
  BY <1>3, MarkerScans
<1> HIDE DEF t, g
<1>5. t \in Seq(Characters)
  BY <1>4 DEF Rescans
<1>6. ASSUME NEW h, kind \notin {"start_list", "end_item"}, Rescans(h, f, Joined(t, i)) PROVE Carries(f, h, i)
  BY <1>2, <1>6, RescansCarry DEF t
<1>7. ASSUME kind \in {"end_text", "other"} PROVE Carries(f, g, i)
  <2>1. Written(i) = <<>>
    BY <1>7, WrittenIs
  <2>2. Joined(t, i) = t \o Written(i)
    BY <1>7, JoinedIs
  <2>3. t \o <<>> = t
    BY <1>5
  <2>4. Joined(t, i) = t
    BY <2>1, <2>2, <2>3
  <2> QED  BY <1>4, <1>6, <1>7, <2>4
<1>8. ASSUME kind = "start_quote" PROVE Carries(f, SeparateBlock(g), i)
  <2>1. Joined(t, i) = EndLine(t)
    BY <1>8, JoinedIs
  <2>2. Rescans(SeparateBlock(g), f, EndLine(t))
    BY <1>4, SeparateScans
  <2> QED  BY <1>6, <1>8, <2>1, <2>2
<1>9. ASSUME kind = "break", NEW hidden, ~hidden PROVE Carries(f, Write(g, b, hidden), i)
  <2>1. b \in Seq(Characters)
    BY CharactersAssumption
  <2>2. Written(i) = b
    BY <1>9, WrittenIs
  <2> HIDE DEF b
  <2>3. Joined(t, i) = t \o b
    BY <1>9, <2>2, JoinedIs
  <2>4. Rescans(Write(g, b, hidden), f, t \o b)
    BY <1>4, <1>9, <2>1, WriteScans
  <2> QED  BY <1>6, <1>9, <2>3, <2>4
<1>10. ASSUME kind \in {"start_list", "end_item"}
       PROVE  /\ Carries(f, Flush(f).item, i)
              /\ Flush(f).found = ScanMetadata(t, Flush(f).item.marker.symbol # NoMarker)
  <2> DEFINE found == ScanMetadata(g.scan, g.marker.symbol # NoMarker)
             h == [g EXCEPT !.scan = <<>>, !.fields = @ \o found.fields, !.tags = @ \o found.tags]
  <2>1. Flush(f).item = h /\ Flush(f).found = found
    <3>1. Flush(f) = Scanned(g, found)
      BY DEF Flush, FlushResolved, g
    <3> HIDE DEF found
    <3> QED  BY <3>1 DEF Scanned
  <2>2. h.marker = g.marker /\ h.scan = <<>> /\ h.fields = g.fields \o found.fields /\ h.tags = g.tags \o found.tags
    <3>1. IsKeyed(g)
      BY <1>4 DEF Rescans
    <3> HIDE DEF found
    <3> QED  BY <3>1 DEF IsKeyed, FrameKeys
  <2>3. g.scan = t /\ g.fields = f.fields /\ g.tags = f.tags
    BY <1>4 DEF Rescans, SameFinds
  <2> HIDE DEF h
  <2>4. found = ScanMetadata(t, h.marker.symbol # NoMarker)
    BY <2>2, <2>3
  <2>7. Flush(f).found = ScanMetadata(t, h.marker.symbol # NoMarker)
    BY <2>1, <2>4
  <2> HIDE DEF found
  <2>5. IsScanned(i)
    BY SMTT(90), <1>10, JoinedIs
  <2>6. Carries(f, h, i)
    BY <1>2, <2>2, <2>3, <2>4, <2>5 DEF Carries, t
  <2> QED  BY <2>1, <2>6, <2>7
<1> QED
  BY <1>7, <1>8, <1>9, <1>10 DEF g, b

\* What follows in a line: none of it can lead to a marker.
LEMMA InlineCarries ==
  ASSUME NEW i \in DOMAIN Events, Owner(i) # 0, NEW kind, kind = Events[i].kind,
         NEW f, IsKeyed(f), IsTyped(f), f.scan \in Seq(Characters),
         kind \in {"code", "footnote"} => Events[i].text \in Seq(Characters)
  PROVE  /\ kind = "barrier" => Carries(f, Reject(f), i)
         /\ kind = "code" => \A hidden : hidden => Carries(f, Write(Reject(f), Events[i].text, hidden), i)
         /\ kind = "footnote" => \A hidden : (hidden <=> BlockAt(i) = "start_code") =>
              Carries(f, PushItemText(Reject(f), Events[i].text, hidden), i)
         /\ kind = "start_link" =>
              /\ Events[i].wiki => Carries(f, Reject(f), i)
              /\ ~Events[i].wiki => Carries(f, [Reject(f) EXCEPT !.scan = Append(Reject(f).scan, "[")], i)
<1> DEFINE t == f.scan \o Released(f.marker, kind)
           g == Reject(f)
           u == Events[i].text
<1>1. SUFFICES ASSUME kind \in Inline
               PROVE  /\ kind = "barrier" => Carries(f, g, i)
                      /\ kind = "code" => \A hidden : hidden => Carries(f, Write(g, u, hidden), i)
                      /\ kind = "footnote" => \A hidden : (hidden <=> BlockAt(i) = "start_code") =>
                           Carries(f, PushItemText(g, u, hidden), i)
                      /\ kind = "start_link" =>
                           /\ Events[i].wiki => Carries(f, g, i)
                           /\ ~Events[i].wiki => Carries(f, [g EXCEPT !.scan = Append(g.scan, "[")], i)
  BY DEF Inline
<1>2. kind \notin {"text", "start_list", "end_item"}
  BY <1>1, KindsDiffer DEF LineEnds
<1>3. Released(f.marker, kind) = RejectMarker(f.marker).flushed
  BY <1>1 DEF Released
<1>4. Rescans(g, f, t) /\ g.marker.decided = TRUE
  BY <1>3, MarkerScans
<1> HIDE DEF t, g
<1>5. t \in Seq(Characters)
  BY <1>4 DEF Rescans
<1>6. ASSUME NEW h, Rescans(h, f, Joined(t, i)) PROVE Carries(f, h, i)
  BY <1>2, <1>6, RescansCarry DEF t
<1>7. Joined(t, i) = t \o Written(i)
  <2>1. kind \notin {"start_list", "end_item", "start_text", "start_code", "start_quote"}
    BY <1>1 DEF Inline
  <2> QED  BY <2>1, JoinedIs
<1>8. t \o <<>> = t
  BY <1>5
<1>9. ASSUME Written(i) = <<>> PROVE Joined(t, i) = t
  BY <1>7, <1>8, <1>9
<1>10. ASSUME kind = "barrier" PROVE Carries(f, g, i)
  <2>1. Written(i) = <<>>
    BY <1>10, WrittenIs
  <2> QED  BY <1>4, <1>6, <1>9, <2>1
<1>11. ASSUME kind = "code", NEW hidden, hidden PROVE Carries(f, Write(g, u, hidden), i)
  <2>1. Written(i) = <<>>
    BY <1>11, WrittenIs
  <2>2. u \in Seq(Characters)
    BY <1>11
  <2> HIDE DEF u
  <2>3. Rescans(Write(g, u, hidden), f, t)
    BY <1>4, <1>11, <2>2, WriteScans
  <2> QED  BY <1>6, <1>9, <2>1, <2>3
<1>12. ASSUME kind = "footnote", NEW hidden, hidden <=> BlockAt(i) = "start_code"
       PROVE  Carries(f, PushItemText(g, u, hidden), i)
  <2> DEFINE step == PushMarkerText(g.marker, u)
             n == <<>>
             no == FALSE
             a == [g EXCEPT !.marker = step.marker]
             b == Write(a, step.flushed, no)
  <2>1. Written(i) = IF BlockAt(i) = "start_code" THEN <<>> ELSE u
    BY <1>12, WrittenIs
  <2>2. u \in Seq(Characters) /\ n \in Seq(Characters)
    BY <1>12
  <2> HIDE DEF u
  <2>3. step = Keep(g.marker, u)
    BY <1>4 DEF PushMarkerText
  <2>4. step.marker = g.marker /\ step.flushed = n /\ step.rest = u
    <3> HIDE DEF step
    <3> QED  BY <2>3, KeepIs DEF n
  <2>5. PushItemText(g, u, hidden) = Write(b, step.rest, hidden)
    BY DEF PushItemText, After
  <2>6. Rescans(a, f, t)
    <3> HIDE DEF step
    <3>1. IsKeyed(a) /\ a.scan = g.scan /\ SameFinds(a, g)
      BY <1>4 DEF Rescans, IsKeyed, FrameKeys, SameFinds
    <3> HIDE DEF a
    <3> QED  BY <1>4, <3>1 DEF Rescans, SameFinds
  <2>7. ~no
    OBVIOUS
  <2> HIDE DEF a, no
  <2>8. Rescans(b, f, t \o n)
    <3> HIDE DEF step, n
    <3> QED  BY <2>2, <2>4, <2>6, <2>7, WriteScans
  <2>9. Rescans(b, f, t)
    BY <1>8, <2>8 DEF n
  <2> HIDE DEF b, step, n
  <2>10. CASE hidden
    <3>1. Rescans(Write(b, u, hidden), f, t)
      BY <2>2, <2>9, <2>10, WriteScans
    <3>2. Written(i) = <<>>
      BY <1>12, <2>1, <2>10
    <3> QED  BY <1>6, <1>9, <2>4, <2>5, <3>1, <3>2
  <2>11. CASE ~hidden
    <3>1. Rescans(Write(b, u, hidden), f, t \o u)
      BY <2>2, <2>9, <2>11, WriteScans
    <3>2. Joined(t, i) = t \o u
      BY <1>7, <1>12, <2>1, <2>11
    <3> QED  BY <1>6, <2>4, <2>5, <3>1, <3>2
  <2> QED  BY <2>10, <2>11
<1>13. ASSUME kind = "start_link"
       PROVE  /\ Events[i].wiki => Carries(f, g, i)
              /\ ~Events[i].wiki => Carries(f, [g EXCEPT !.scan = Append(g.scan, "[")], i)
  <2> DEFINE V == Events[i].wiki
             ch == "["
             h == [g EXCEPT !.scan = Append(g.scan, ch)]
  <2>1. Written(i) = IF V THEN <<>> ELSE <<ch>>
    BY <1>13, WrittenIs
  <2>2. ch \in Characters
    BY CharactersAssumption
  <2>3. Rescans(h, f, t \o <<ch>>)
    <3> HIDE DEF ch
    <3> QED  BY <1>4, <2>2, CharScans
  <2> HIDE DEF V, h, ch
  <2>4. V => Carries(f, g, i)
    BY <1>4, <1>6, <1>9, <2>1
  <2>5. ~V => Carries(f, h, i)
    BY <1>6, <1>7, <2>1, <2>3
  <2> QED  BY <2>4, <2>5 DEF V, h, ch
<1> QED
  BY <1>10, <1>11, <1>12, <1>13 DEF g, u

Writes(h, g, t, hidden) ==
  /\ IsKeyed(h) /\ SameFinds(h, g)
  /\ hidden => h.scan = g.scan
  /\ ~hidden => h.scan = g.scan \o t

LEMMA WriteFinds ==
  ASSUME NEW g, IsKeyed(g), NEW t, NEW hidden
  PROVE  Writes(Write(g, t, hidden), g, t, hidden)
<1>1. IsKeyed(Write(g, t, hidden))
  BY WriteKeeps
<1> QED
  BY <1>1 DEF Write, IsKeyed, FrameKeys, SameFinds, Writes

LEMMA TextCarries ==
  ASSUME NEW i \in DOMAIN Events, Owner(i) # 0, Events[i].kind = "text",
         NEW f, IsKeyed(f), NEW hidden, hidden <=> BlockAt(i) = "start_code"
  PROVE  Carries(f, PushItemText(f, Events[i].text, hidden), i)
<1> DEFINE u == Events[i].text
           step == PushMarkerText(f.marker, u)
           no == FALSE
           a == [f EXCEPT !.marker = step.marker]
           b == Write(a, step.flushed, no)
           c == Write(b, step.rest, hidden)
<1>1. PushItemText(f, u, hidden) = c
  BY DEF PushItemText, After
<1> HIDE DEF step
<1>2. IsKeyed(a) /\ a.scan = f.scan /\ SameFinds(a, f)
  BY DEF IsKeyed, FrameKeys, SameFinds
<1> HIDE DEF a
<1>4. ~no
  OBVIOUS
<1> HIDE DEF no
<1>5. IsKeyed(b) /\ SameFinds(b, a) /\ b.scan = a.scan \o step.flushed
  <2> DEFINE x == step.flushed
  <2>1. b = Write(a, x, no)
    OBVIOUS
  <2> HIDE DEF b, x
  <2>2. Writes(b, a, x, no)
    BY <1>2, <2>1, WriteFinds
  <2> QED  BY <1>4, <2>2 DEF Writes, x
<1> HIDE DEF b
<1>6. SameFinds(c, b) /\ (hidden => c.scan = b.scan) /\ (~hidden => c.scan = b.scan \o step.rest)
  <2> DEFINE x == step.rest
  <2>1. c = Write(b, x, hidden)
    OBVIOUS
  <2> HIDE DEF c, x
  <2>2. Writes(c, b, x, hidden)
    BY <1>5, <2>1, WriteFinds
  <2> QED  BY <2>2 DEF Writes, x
<1> HIDE DEF c
<1>7. SameFinds(c, f)
  BY <1>2, <1>5, <1>6 DEF SameFinds
<1>8. c.scan = IF BlockAt(i) = "start_code" THEN f.scan \o step.flushed ELSE (f.scan \o step.flushed) \o step.rest
  BY <1>2, <1>5, <1>6
<1>9. Carries(f, c, i)
  BY <1>7, <1>8 DEF Carries, step, u
<1> QED
  BY <1>1, <1>9

-----------------------------------------------------------------------------
(* The scans of the open items *)

Scans(st, i) == \A n \in 1..Len(OpenItems(i)) : Scanning(st[n], OpenItems(i)[n], i)

\* The scan of the innermost open item takes an event, the others stay.
Carried(st2, st, i) ==
  /\ Len(st2) = Len(st)
  /\ \A n \in 1..Len(st) : n # Len(st) => st2[n].scan = st[n].scan /\ SameFinds(st2[n], st[n])
  /\ \A n \in 1..Len(st) : n = Len(st) => (st[n].scan \in Seq(Characters) => Carries(st[n], st2[n], i))

LEMMA OpenOwns ==
  ASSUME Nested, NEW i \in 1..Len(Events), NEW n \in 1..Len(OpenItems(i))
  PROVE  /\ OpenItems(i)[n] \in Items /\ OpenItems(i)[n] < i
         /\ n = Len(OpenItems(i)) => Owner(i) = OpenItems(i)[n]
         /\ n # Len(OpenItems(i)) => Owner(i) # OpenItems(i)[n] /\ i > LeadEnd(OpenItems(i)[n])
<1> DEFINE q == OpenItems(i)
<1>1. /\ Len(q) \in Nat /\ i \in Nat
      /\ \A m \in 1..Len(q) : /\ q[m] \in Around("start_item", i) /\ q[m] \in Items
                              /\ q[m] \in Nat /\ q[m] < i
      /\ \A m, j \in 1..Len(q) : m < j => q[m] < q[j]
  BY OpenOrder DEF Nested
<1>2. Owner(i) = q[Len(q)]
  <2>1. Len(q) # 0
    <3> HIDE DEF q
    <3>1. n \in 1..Len(q) /\ Len(q) \in Nat
      BY <1>1 DEF q
    <3> QED  BY ONLY <3>1
  <2> QED  BY <2>1, OwnerIs
<1>3. ASSUME n # Len(q) PROVE Owner(i) # q[n] /\ i > LeadEnd(q[n])
  <2> HIDE DEF q
  <2>0. n \in 1..Len(q)
    BY DEF q
  <2>1. n < Len(q) /\ Len(q) \in 1..Len(q)
    BY <1>1, <1>3, <2>0
  <2>2. q[n] < q[Len(q)]
    BY <1>1, <2>0, <2>1
  <2>3. i > LeadEnd(q[n])
    BY <1>1, <2>0, <2>1, <2>2, OuterSettled
  <2> QED  BY <1>1, <1>2, <2>0, <2>1, <2>2, <2>3
<1> QED
  BY <1>1, <1>2, <1>3

LEMMA FrameScans ==
  ASSUME Nested, input \in Inputs, NEW i \in 1..Len(Events), NEW n \in 1..Len(OpenItems(i)),
         NEW f, NEW s, s = OpenItems(i)[n], Leading(f, s, i), Scanning(f, s, i),
         NEW g,
         n # Len(OpenItems(i)) => g.scan = f.scan /\ SameFinds(g, f),
         n = Len(OpenItems(i)) => Turns(f, g, Events[i]) /\ (f.scan \in Seq(Characters) => Carries(f, g, i))
  PROVE  Scanning(g, s, i + 1)
<1>1. s \in Items /\ s < i
  BY OpenOwns
<1>2. CASE n = Len(OpenItems(i))
  <2>1. Owner(i) = s
    BY <1>2, OpenOwns
  <2>2. CASE IsSettled(s)
    <3>1. f.scan \in Seq(Characters)
      BY <2>2 DEF Scanning
    <3> QED  BY <1>1, <1>2, <2>1, <3>1, ScanningTurns
  <2>3. CASE ~IsSettled(s)
    BY <2>3 DEF Scanning
  <2> QED  BY <2>2, <2>3
<1>3. CASE n # Len(OpenItems(i))
  <2>1. Owner(i) # s /\ i > LeadEnd(s)
    BY <1>3, OpenOwns
  <2> QED  BY <1>1, <1>3, <2>1, ScanningOther
<1> QED
  BY <1>2, <1>3

\* An event that opens and ends no item.
LEMMA ScansTurn ==
  ASSUME Nested, input \in Inputs, NEW i \in 1..Len(Events), OpenItems(i + 1) = OpenItems(i),
         NEW st, Len(st) = Len(OpenItems(i)), Leads(st, i), Scans(st, i),
         NEW st2, Turned(st2, st, Events[i]), Carried(st2, st, i)
  PROVE  Scans(st2, i + 1)
<1> SUFFICES ASSUME NEW n \in 1..Len(OpenItems(i)) PROVE Scanning(st2[n], OpenItems(i)[n], i + 1)
  BY DEF Scans
<1>1. Leading(st[n], OpenItems(i)[n], i) /\ Scanning(st[n], OpenItems(i)[n], i)
  BY DEF Leads, Scans
<1>2. /\ n # Len(OpenItems(i)) => st2[n].scan = st[n].scan /\ SameFinds(st2[n], st[n])
      /\ n = Len(OpenItems(i)) =>
           Turns(st[n], st2[n], Events[i]) /\ (st[n].scan \in Seq(Characters) => Carries(st[n], st2[n], i))
  BY DEF Turned, Carried
<1> QED
  BY <1>1, <1>2, FrameScans

\* Nothing is gathered before the first of the events.
LEMMA GatheredNone ==
  ASSUME Nested, NEW S, NEW i \in 1..(Len(Events) + 1), \A k \in S : ~(k < i)
  PROVE  Gathered(S, i).fields = <<>> /\ Gathered(S, i).tags = <<>> /\ Gathered(S, i).entries = <<>>
<1> DEFINE none == [fields |-> <<>>, tags |-> <<>>, entries |-> <<>>]
           N == i - 1
           G == {m \in 0..N : Gathered(S, m + 1) = none}
<1>1. N \in Nat /\ i \in Nat /\ N + 1 = i /\ Len(Events) \in Nat
  BY DEF Nested
<1>2. Gathered(S, 1) = none /\ \A j \in 1..Len(Events) :
        Gathered(S, j + 1) = IF j \in S THEN Joining(Gathered(S, j), j) ELSE Gathered(S, j)
  BY GatheredIs
<1> HIDE DEF none
<1>3. 0 \in G
  BY <1>1, <1>2
<1>4. ASSUME NEW m \in 0..(N - 1), m \in G PROVE m + 1 \in G
  <2> DEFINE j == m + 1
  <2>1. j \in 1..Len(Events) /\ j < i /\ j \in 0..N
    BY <1>1
  <2>2. Gathered(S, j) = none
    BY <1>4
  <2>3. j \notin S
    BY <2>1
  <2> HIDE DEF j
  <2>4. Gathered(S, j + 1) = none
    BY <1>2, <2>1, <2>2, <2>3
  <2> QED  BY <2>1, <2>4 DEF j
<1> HIDE DEF G
<1>5. \A m \in 0..N : m \in G
  BY <1>1, <1>3, <1>4, UpTo
<1>6. N \in G
  BY <1>1, <1>5
<1>7. Gathered(S, i) = none
  BY <1>1, <1>6 DEF G
<1> QED
  BY <1>7 DEF none

\* A new item has nothing to scan yet.
LEMMA ScansStart ==
  ASSUME Nested, input \in Inputs, NEW i \in 1..Len(Events), Events[i].kind = "start_item",
         NEW st, NEW X, st \in Seq(X), Len(st) = Len(OpenItems(i)),
         \A n \in 1..Len(st) : IsKeyed(st[n]), Leads(st, i), Scans(st, i),
         NEW f, f.scan = <<>>, f.text = <<>>, f.fields = <<>>, f.tags = <<>>
  PROVE  Scans(Append(st, f), i + 1)
<1> DEFINE q == OpenItems(i)
           r == OpenItems(i + 1)
           st2 == Append(st, f)
           Y == X \cup {f}
<1>1. r = Append(q, i)
  <2>1. Around("start_item", i) \subseteq 1..Len(Events) /\ \A x \in Around("start_item", i) : x < i
    BY AroundOrder, AroundIs
  <2>2. Around("start_item", i + 1) = Around("start_item", i) \cup {i}
    BY AroundStart
  <2> QED  BY <2>1, <2>2, InOrderAppend DEF OpenItems
<1>2. Len(q) \in Nat /\ i \in Nat /\ Len(st) = Len(q)
  BY OpenOrder DEF Nested
<1>3. q \in Seq(Nat)
  BY AroundOrder DEF OpenItems, IsAscending
<1>4. st \in Seq(Y) /\ f \in Y
  OBVIOUS
<1>5. \A n \in 1..Len(q) : Leading(st[n], q[n], i) /\ Scanning(st[n], q[n], i) /\ IsKeyed(st[n])
  BY <1>2 DEF Leads, Scans
<1>6. \A n \in 1..Len(q) : n = Len(q) => Owner(i) # 0
  BY OpenOwns, StartsAre DEF Items
<1> HIDE DEF r, Y
<1>7. Len(r) = Len(q) + 1 /\ (\A n \in 1..Len(q) : r[n] = q[n]) /\ r[Len(q) + 1] = i
  <2> HIDE DEF q
  <2> QED  BY <1>1, <1>2, <1>3, AppendIs
<1>8. Len(st2) = Len(q) + 1 /\ (\A n \in 1..Len(q) : st2[n] = st[n]) /\ st2[Len(q) + 1] = f
  <2> HIDE DEF q
  <2> QED  BY <1>2, <1>4, AppendIs
<1> HIDE DEF st2
<1>9. ASSUME NEW n \in 1..Len(q) PROVE Scanning(st2[n], r[n], i + 1)
  <2> DEFINE h == st[n]
  <2>1. Leading(h, q[n], i) /\ Scanning(h, q[n], i) /\ IsKeyed(h)
    BY <1>5
  <2> HIDE DEF h
  <2>2. IsTyped(h) /\ Events[i].kind \in Idle \ {"start_code", "end_link"}
    BY <2>1 DEF Leading, Idle
  <2>3. Grows(h, h)
    BY <2>1, <2>2, WritesOn
  <2>4. Turns(h, h, Events[i])
    BY <2>1, <2>2, <2>3, IdleTurns
  <2>5. n = Len(q) => (h.scan \in Seq(Characters) => Carries(h, h, i))
    <3>1. i \in DOMAIN Events
      BY DEF Nested
    <3> HIDE DEF q
    <3> QED  BY <1>6, <2>1, <2>2, <3>1, QuietCarries
  <2>6. SameFinds(h, h)
    BY DEF SameFinds
  <2>7. Scanning(h, q[n], i + 1)
    BY <2>1, <2>4, <2>5, <2>6, FrameScans
  <2> QED  BY <1>7, <1>8, <2>7 DEF h
<1>10. Scanning(f, i, i + 1)
  <2>1. i \in Items
    BY DEF Items, Positions, Nested
  <2>2. LeadFrom(i) \in {i + 1, i + 2} /\ LeadEnd(i) \in Nat /\ LeadFrom(i) <= LeadEnd(i)
    BY <2>1, LeadIs
  <2>3. ~(i + 1 > LeadEnd(i))
    BY <1>2, <2>2
  <2>4. \A k \in EventsOf(i) : ~(k < i + 1)
    <3> SUFFICES ASSUME NEW k \in EventsOf(i) PROVE ~(k < i + 1)
      OBVIOUS
    <3>1. k \in 1..Len(Events) /\ Owner(k) = i
      BY DEF EventsOf, Nested
    <3>2. Len(OpenItems(k)) # 0
      BY <1>2, <3>1, OwnerIs
    <3>3. Len(OpenItems(k)) \in 1..Len(OpenItems(k))
      BY <3>2, OpenOrder
    <3>4. i < k
      BY <3>1, <3>3, OpenOwns
    <3> QED  BY <1>2, <3>1, <3>4
  <2>5. i + 1 \in 1..(Len(Events) + 1)
    BY DEF Nested
  <2>6. Gathered(EventsOf(i), i + 1).fields = <<>> /\ Gathered(EventsOf(i), i + 1).tags = <<>>
    BY <2>4, <2>5, GatheredNone
  <2>7. f.scan \in Seq(Characters)
    OBVIOUS
  <2> QED  BY <2>3, <2>6, <2>7 DEF Scanning
<1>11. \A n \in 1..(Len(q) + 1) : n \in 1..Len(q) \/ n = Len(q) + 1
  BY <1>2
<1> HIDE DEF q
<1>12. \A n \in 1..Len(r) : Scanning(st2[n], r[n], i + 1)
  BY <1>7, <1>8, <1>9, <1>10, <1>11
<1> QED
  BY <1>12 DEF Scans, st2, r

\* An item that ends was found to hold what its own text holds.
LEMMA ScansEnd ==
  ASSUME Nested, input \in Inputs, NEW i \in 1..Len(Events), Events[i].kind = "end_item",
         NEW st, NEW X, st \in Seq(X), Len(st) = Len(OpenItems(i)),
         \A n \in 1..Len(st) : IsKeyed(st[n]), Leads(st, i), Scans(st, i)
  PROVE  /\ \A t \in Items : EndOf(t) = i => Finds(t, Flush(Last(st)).item)
         /\ \A st2 : (\A n \in 1..(Len(st) - 1) : st2[n].scan = st[n].scan /\ SameFinds(st2[n], st[n]))
                       => Scans(st2, i + 1)
<1> DEFINE q == OpenItems(i)
           r == OpenItems(i + 1)
<1>1. PICK t \in Items :
           /\ EndOf(t) = i /\ \A x \in Items : EndOf(x) = i => x = t
           /\ Len(q) = Len(r) + 1 /\ Len(r) \in Nat
           /\ \A n \in 1..Len(r) : q[n] = r[n]
           /\ q[Len(r) + 1] = t
  BY OpenEnds
<1>2. \A n \in 1..Len(q) : Leading(st[n], q[n], i) /\ Scanning(st[n], q[n], i) /\ IsKeyed(st[n])
  BY DEF Leads, Scans
<1>3. Len(st) = Len(q)
  OBVIOUS
<1> DEFINE k == Len(r) + 1
<1>4. k \in 1..Len(q) /\ Len(st) = k /\ Len(q) = k /\ q[k] = t /\ k - 1 = Len(r)
  <2> HIDE DEF q, r
  <2> QED  BY <1>1, <1>3
<1>5. \A n \in 1..Len(q) : n # Len(q) => Owner(i) # q[n]
  BY OpenOwns
<1>6. Owner(i) = t /\ t # 0
  <2>1. k = Len(q) => Owner(i) = q[k]
    <3>1. k \in 1..Len(q)
      BY <1>4
    <3> HIDE DEF k
    <3> QED  BY <3>1, OpenOwns
  <2> QED  BY <1>1, <1>4, <2>1, StartsAre DEF Items
<1> HIDE DEF r
<1>7. Finds(t, Flush(Last(st)).item)
  <2> DEFINE f == Last(st)
             g == Flush(f).item
  <2>1. Leading(f, t, i) /\ Scanning(f, t, i) /\ IsKeyed(f)
    <3> HIDE DEF q
    <3> QED  BY <1>2, <1>4 DEF Last
  <2>2. f = st[k]
    BY <1>4 DEF Last
  <2> HIDE DEF f
  <2>3. IsTyped(f) /\ Events[i].kind \in LineEnds
    BY <2>1 DEF Leading, LineEnds
  <2>4. Turns(f, g, Events[i])
    BY <2>1, <2>3, LineEndTurns
  <2>5. f.scan \in Seq(Characters) => Carries(f, g, i)
    <3>1. i \in DOMAIN Events
      BY DEF Nested
    <3> HIDE DEF q
    <3> QED  BY <1>6, <2>1, <2>3, <3>1, LineEndCarries
  <2> HIDE DEF g
  <2>6. Scanning(g, t, i + 1)
    <3>1. k \in 1..Len(OpenItems(i)) /\ k = Len(OpenItems(i)) /\ t = OpenItems(i)[k]
      BY <1>4
    <3> HIDE DEF k, q
    <3> QED  BY <2>1, <2>4, <2>5, <3>1, FrameScans
  <2>7. OfItem(t) = Gathered(EventsOf(t), i + 1)
    BY <1>1 DEF OfItem
  <2>8. Finds(t, g)
    BY <2>6, <2>7 DEF Scanning, Finds
  <2> QED  BY <2>8 DEF g, f
<1>8. ASSUME NEW st2, \A n \in 1..(Len(st) - 1) : st2[n].scan = st[n].scan /\ SameFinds(st2[n], st[n])
      PROVE  Scans(st2, i + 1)
  <2>1. SUFFICES ASSUME NEW n \in 1..Len(r) PROVE Scanning(st2[n], r[n], i + 1)
    BY DEF Scans, r
  <2>2. n \in 1..Len(q) /\ n # Len(q) /\ n \in 1..(Len(st) - 1) /\ r[n] = q[n]
    <3> HIDE DEF q
    <3> QED  BY <1>1, <1>4, <2>1
  <2>3. Leading(st[n], q[n], i) /\ Scanning(st[n], q[n], i)
    BY <1>2, <2>2
  <2>4. st2[n].scan = st[n].scan /\ SameFinds(st2[n], st[n])
    BY <1>8, <2>2
  <2>5. Scanning(st2[n], q[n], i + 1)
    BY SMTT(90), <2>2, <2>3, <2>4, FrameScans
  <2> QED  BY <2>2, <2>5
<1> QED
  BY <1>1, <1>7, <1>8

LEMMA ObserveFinds ==
  ASSUME NEW f, IsKeyed(f), NEW child, NEW d, NEW y
  PROVE  /\ ObserveChild(f, child, d, y).scan = f.scan
         /\ SameFinds(ObserveChild(f, child, d, y), f)
BY DEF ObserveChild, IsKeyed, FrameKeys, SameFinds

LEMMA AttachIs ==
  ASSUME NEW st, NEW X, st \in Seq(X), Len(st) > 1, NEW g
  PROVE  /\ Last(Front(st)) = st[Len(st) - 1] /\ Len(st) - 1 \in 1..Len(st)
         /\ \A n \in 1..(Len(st) - 1) :
              Append(Front(Front(st)), g)[n] = IF n = Len(st) - 1 THEN g ELSE st[n]
<1> DEFINE a == Front(st)
           b == Front(a)
           k == Len(st) - 1
           Y == X \cup {g}
           st2 == Append(b, g)
<1>1. k \in Nat /\ k # 0 /\ Len(st) = k + 1 /\ Len(st) # 0 /\ k \in 1..(k + 1)
  <2>1. Len(st) \in Nat /\ Len(st) > 1
    OBVIOUS
  <2>2. \A l \in Nat : l > 1 => l - 1 \in Nat /\ l - 1 # 0 /\ l = (l - 1) + 1 /\ l # 0 /\ l - 1 \in 1..((l - 1) + 1)
    OBVIOUS
  <2> QED  BY ONLY <2>1, <2>2, Zenon DEF k
<1>2. a \in Seq(X) /\ Len(a) = k /\ \A n \in 1..k : a[n] = st[n]
  BY ZenonT(90), <1>1, FrontIs
<1> HIDE DEF a
<1>3. b \in Seq(X) /\ Len(b) = k - 1 /\ \A n \in 1..(k - 1) : b[n] = a[n]
  BY ZenonT(90), <1>1, <1>2, FrontIs
<1>4. Last(a) = st[k]
  BY <1>1, <1>2 DEF Last
<1>5. b \in Seq(Y) /\ g \in Y
  BY <1>3
<1> HIDE DEF b, k, Y
<1>6. (\A n \in 1..Len(b) : st2[n] = b[n]) /\ st2[Len(b) + 1] = g
  BY <1>5, AppendIs
<1> HIDE DEF st2
<1>7. ASSUME NEW n \in 1..k PROVE st2[n] = IF n = k THEN g ELSE st[n]
  <2>1. n = k \/ n \in 1..(k - 1)
    BY <1>1
  <2>2. CASE n = k
    BY <1>1, <1>3, <1>6, <2>2
  <2>3. CASE n \in 1..(k - 1)
    <3>1. n \in 1..k /\ n \in 1..Len(b) /\ n # k
      BY <1>1, <1>3, <2>3
    <3> QED  BY <1>2, <1>3, <1>6, <2>3, <3>1
  <2> QED  BY <2>1, <2>2, <2>3
<1> QED
  BY <1>1, <1>4, <1>7 DEF st2, b, a, k

-----------------------------------------------------------------------------
(* The blocks, the links and the metadata block of a note *)

Blocked ==
  /\ block = "code" <=> BlockAt(at) = "start_code"
  /\ block = "text" <=> BlockAt(at) = "start_text"
  /\ block = "metadata" <=> BlockAt(at) = "start_metadata"

LEMMA HandleIs ==
  ASSUME Nested, NEW kind, Handle(kind)
  PROVE  /\ at \in 1..Len(Events) /\ at \in DOMAIN Events /\ event = Events[at] /\ Events[at].kind = kind
         /\ at' = at + 1 /\ input' = input /\ phase = "parsing" /\ phase' = phase /\ note' = note
BY DEF Handle, event, Events, Nested

\* What is being walked after an event of a kind.
BlockAfter(kind) ==
  CASE kind = "start_text" -> "text"
    [] kind = "start_code" -> "code"
    [] kind = "start_metadata" -> "metadata"
    [] OTHER -> "none"

LEMMA StaysBlocked ==
  ASSUME Nested, Blocked, NEW kind, Handle(kind),
         block' = IF kind \in BlockKinds THEN BlockAfter(kind) ELSE block
  PROVE  Blocked'
<1>1. at \in 1..Len(Events) /\ Events[at].kind = kind /\ at' = at + 1 /\ input' = input
  BY HandleIs
<1>2. BlockAt(at + 1) = IF kind \in BlockKinds THEN kind ELSE BlockAt(at)
  BY <1>1, BlockNext
<1>4. BlockAt(at)' = BlockAt(at + 1)
  BY <1>1, WrittenStays
<1>5. /\ block' = "code" <=> BlockAt(at + 1) = "start_code"
      /\ block' = "text" <=> BlockAt(at + 1) = "start_text"
      /\ block' = "metadata" <=> BlockAt(at + 1) = "start_metadata"
  <2>1. CASE kind \in BlockKinds
    BY <1>2, <2>1 DEF BlockKinds, BlockAfter
  <2>2. CASE kind \notin BlockKinds
    BY <1>2, <2>2 DEF Blocked
  <2> QED  BY <2>1, <2>2
<1> QED
  BY <1>4, <1>5 DEF Blocked

\* What the handlers do beside the stacks, each to what it is about.
BlockStep(kind) == block' = IF kind \in BlockKinds THEN BlockAfter(kind) ELSE block

LinkStep(kind) ==
  IF kind = "start_link" THEN link' = [target |-> event.target, wiki |-> event.wiki, text |-> <<>>]
  ELSE link' = link \/ link' = NoLink \/ \E t : link' = LinkWith(t)

FrontStep(kind) ==
  CASE kind = "start_metadata" -> metadata' = <<>> /\ frontmatter' = frontmatter
    [] kind = "end_metadata" ->
         metadata' = <<>> /\ frontmatter' = IF metadata = <<>> THEN frontmatter ELSE metadata
    [] kind = "yaml" -> block = "metadata" /\ metadata' = metadata \o event.entries /\ frontmatter' = frontmatter
    [] OTHER -> metadata' = metadata /\ frontmatter' = frontmatter

BodyStep(kind) ==
  CASE kind \in {"start_text", "end_text"} -> body' = IF Active THEN body ELSE <<>>
    [] kind \in {"text", "footnote"} -> body' = BodyWith(event.text)
    [] kind = "break" -> body' = BodyWith(<<"\n">>)
    [] kind = "start_link" -> body' = IF event.wiki THEN body ELSE BodyWith(<<"[">>)
    [] kind = "end_link" -> link # NoLink /\ body' = IF link.wiki THEN body ELSE BodyWith(<<"]">>)
    [] OTHER -> body' = body

FindStep(kind) ==
  CASE kind = "end_text" ->
         IF Active THEN UNCHANGED <<fields, tags>> ELSE ExtendFromFlush(ScanMetadata(body, FALSE))
    [] kind = "start_list" ->
         IF Active THEN ExtendFromFlush(Flush(Last(itemStack)).found) ELSE UNCHANGED <<fields, tags>>
    [] kind = "end_item" -> ExtendFromFlush(Flush(Last(itemStack)).found)
    [] OTHER -> UNCHANGED <<fields, tags>>

Step(kind) ==
  /\ Handle(kind)
  /\ BlockStep(kind) /\ LinkStep(kind) /\ FrontStep(kind) /\ BodyStep(kind) /\ FindStep(kind)

LEMMA BlocksStep ==
  /\ StartMetadata => Step("start_metadata")
  /\ EndMetadata => Step("end_metadata")
  /\ PushYaml => Step("yaml")
  /\ StartTextBlock => Step("start_text")
  /\ EndTextBlock => Step("end_text")
  /\ StartCodeBlock => Step("start_code")
  /\ EndCodeBlock => Step("end_code")
  /\ StartQuote => Step("start_quote")
<1> USE DEF Step, BlockStep, LinkStep, FrontStep, BodyStep, FindStep, BlockKinds, BlockAfter
<1>1. StartMetadata => Step("start_metadata")
  BY DEF StartMetadata
<1>2. EndMetadata => Step("end_metadata")
  BY DEF EndMetadata
<1>3. PushYaml => Step("yaml")
  BY DEF PushYaml
<1>4. StartTextBlock => Step("start_text")
  BY DEF StartTextBlock
<1>5. EndTextBlock => Step("end_text")
  BY DEF EndTextBlock
<1>6. StartCodeBlock => Step("start_code")
  BY DEF StartCodeBlock
<1>7. EndCodeBlock => Step("end_code")
  BY DEF EndCodeBlock
<1>8. StartQuote => Step("start_quote")
  BY DEF StartQuote
<1> HIDE DEF Step
<1> QED
  BY <1>1, <1>2, <1>3, <1>4, <1>5, <1>6, <1>7, <1>8

LEMMA ItemsStep ==
  /\ StartList => Step("start_list")
  /\ EndList => Step("end_list")
  /\ StartItem => Step("start_item")
  /\ EndItem => Step("end_item")
<1> USE DEF Step, BlockStep, LinkStep, FrontStep, BodyStep, FindStep, BlockKinds
<1>1. StartList => Step("start_list")
  BY DEF StartList, FlushActive
<1>2. EndList => Step("end_list")
  BY DEF EndList
<1>3. StartItem => Step("start_item")
  BY DEF StartItem
<1>4. EndItem => Step("end_item")
  BY DEF EndItem, PopItem
<1> HIDE DEF Step
<1> QED
  BY <1>1, <1>2, <1>3, <1>4

LEMMA WordsStep ==
  /\ StartLink => Step("start_link")
  /\ EndLink => Step("end_link")
  /\ PushText => Step("text")
  /\ HandleCode => Step("code")
  /\ PushBreak => Step("break")
  /\ PushFootnote => Step("footnote")
  /\ Barrier => Step("barrier")
  /\ OtherEvent => Step("other")
<1> USE DEF Step, BlockStep, LinkStep, FrontStep, BodyStep, FindStep, BlockKinds
<1>1. StartLink => Step("start_link")
  BY DEF StartLink
<1>2. EndLink => Step("end_link")
  BY DEF EndLink
<1>3. PushText => Step("text")
  BY DEF PushText
<1>4. HandleCode => Step("code")
  BY DEF HandleCode
<1>5. PushBreak => Step("break")
  BY DEF PushBreak
<1>6. PushFootnote => Step("footnote")
  BY DEF PushFootnote
<1>7. Barrier => Step("barrier")
  BY DEF Barrier
<1>8. OtherEvent => Step("other")
  BY DEF OtherEvent
<1> HIDE DEF Step
<1> QED
  BY <1>1, <1>2, <1>3, <1>4, <1>5, <1>6, <1>7, <1>8
-----------------------------------------------------------------------------
(* What those parts are kept for *)

Linked == link # NoLink => DOMAIN link = {"target", "wiki", "text"} /\ link.wiki = Events[LinkStart(at)].wiki

LEMMA StaysLinked ==
  ASSUME Nested, Linked, NEW kind, Step(kind)
  PROVE  Linked'
<1>1. /\ at \in 1..Len(Events) /\ Events[at].kind = kind /\ at' = at + 1 /\ input' = input
      /\ event = Events[at]
  BY HandleIs DEF Step
<1>2. LinkStart(at)' = LinkStart(at + 1) /\ Events' = Events
  BY <1>1, WrittenStays, PlaceStays
<1>3. /\ kind = "start_link" => LinkStart(at + 1) = at
      /\ kind # "start_link" => LinkStart(at + 1) = LinkStart(at)
  BY <1>1, BlockNext
<1>4. link' # NoLink => DOMAIN link' = {"target", "wiki", "text"} /\ link'.wiki = Events[LinkStart(at + 1)].wiki
  <2>1. CASE kind = "start_link"
    BY <1>1, <1>3, <2>1 DEF Step, LinkStep
  <2>2. CASE kind # "start_link"
    <3>1. CASE link' = link \/ link' = NoLink
      BY <1>3, <2>2, <3>1 DEF Linked
    <3>2. CASE \E t : link' = LinkWith(t)
      <4>1. PICK t : link' = LinkWith(t)
        BY <3>2
      <4>2. CASE link = NoLink
        BY <4>1, <4>2 DEF LinkWith
      <4>3. CASE link # NoLink
        <5>1. link' = [link EXCEPT !.text = @ \o t]
          BY <4>1, <4>3 DEF LinkWith
        <5>2. DOMAIN link' = DOMAIN link /\ ("wiki" \in DOMAIN link => link'.wiki = link.wiki)
          BY <5>1
        <5> QED  BY <1>3, <2>2, <4>3, <5>2 DEF Linked
      <4> QED  BY <4>2, <4>3
    <3> QED  BY <2>2, <3>1, <3>2 DEF Step, LinkStep
  <2> QED  BY <2>1, <2>2
<1> QED
  BY <1>2, <1>4 DEF Linked

\* The body of a block is what is not yet scanned outside of all items.
Bodied == body \in Seq(Characters) /\ body = Unscanned(0, at)

LEMMA BodyJoined ==
  ASSUME NEW i \in DOMAIN Events, Owner(i) = 0, NEW t, NEW kind, kind = Events[i].kind
  PROVE  /\ kind \in {"start_text", "end_text"} => Joined(t, i) = <<>>
         /\ kind \notin {"start_text", "end_text"} =>
              Joined(t, i) = IF BlockAt(i) = "start_text" THEN t \o Written(i) ELSE t
<1> DEFINE n == <<>>
           A == kind \in {"start_text", "end_text"}
           B == BlockAt(i) = "start_text" /\ kind \notin {"start_text", "end_text"}
           x == t \o Written(i)
<1>1. Joined(t, i) = CASE A -> n [] B -> x [] OTHER -> t
  BY DEF Joined
<1>2. ~(A /\ B) /\ (B <=> BlockAt(i) = "start_text" /\ ~A)
  OBVIOUS
<1> HIDE DEF A, B, n, x
<1>3. (A => Joined(t, i) = n) /\ (~A => Joined(t, i) = IF BlockAt(i) = "start_text" THEN x ELSE t)
  BY <1>1, <1>2
<1> QED
  BY <1>3 DEF A, n, x

LEMMA StaysBodied ==
  ASSUME Nested, input \in Inputs, Blocked, Linked, Bodied, NEW kind, Step(kind), Active <=> Owner(at) # 0
  PROVE  Bodied'
<1> DEFINE n == <<>>
<1>1. /\ at \in 1..Len(Events) /\ at \in DOMAIN Events /\ Events[at].kind = kind /\ at' = at + 1 /\ input' = input
      /\ event = Events[at]
  BY HandleIs DEF Step
<1>2. Unscanned(0, at + 1) = IF Owner(at) = 0 THEN Joined(Unscanned(0, at), at) ELSE Unscanned(0, at)
  <2> DEFINE i == 1
             s == 0
  <2>1. i \in 1..(Len(Events) + 1) /\ at \in i..Len(Events)
    BY <1>1
  <2>2. i = IF s = 0 THEN 1 ELSE LeadEnd(s)
    OBVIOUS
  <2> HIDE DEF i, s
  <2>3. \A j \in i..Len(Events) :
              Unscanned(s, j + 1) = IF Owner(j) = s THEN Joined(Unscanned(s, j), j) ELSE Unscanned(s, j)
    BY <2>1, <2>2, UnscannedIs
  <2> QED  BY <2>1, <2>3 DEF s
<1>3. body' = IF Owner(at) = 0 THEN Joined(body, at) ELSE body
  <2>1. /\ kind \in {"start_text", "end_text"} => body' = IF Active THEN body ELSE n
        /\ kind \in {"text", "footnote"} => body' = BodyWith(event.text)
        /\ kind = "break" => body' = BodyWith(<<"\n">>)
        /\ kind = "start_link" => body' = IF event.wiki THEN body ELSE BodyWith(<<"[">>)
        /\ kind = "end_link" => link # NoLink /\ body' = IF link.wiki THEN body ELSE BodyWith(<<"]">>)
        /\ kind \notin {"start_text", "end_text", "text", "footnote", "break", "start_link", "end_link"} => body' = body
    <3>1. BodyStep(kind)
      BY DEF Step
    <3> DEFINE A == kind \in {"start_text", "end_text"}
               B == kind \in {"text", "footnote"}
               C == kind = "break"
               D == kind = "start_link"
               E == kind = "end_link"
    <3>2. (A => ~B /\ ~C /\ ~D /\ ~E) /\ (B => ~C /\ ~D /\ ~E) /\ (C => ~D /\ ~E) /\ (D => ~E)
      OBVIOUS
    <3>3. kind \notin {"start_text", "end_text", "text", "footnote", "break", "start_link", "end_link"} =>
             ~A /\ ~B /\ ~C /\ ~D /\ ~E
      OBVIOUS
    <3>4. CASE A
      BY <3>1, <3>2, <3>4 DEF BodyStep
    <3>5. CASE B
      BY <3>1, <3>2, <3>5 DEF BodyStep
    <3>6. CASE C
      BY <3>1, <3>2, <3>6 DEF BodyStep
    <3>7. CASE D
      BY <3>1, <3>2, <3>7 DEF BodyStep
    <3>8. CASE E
      BY <3>1, <3>2, <3>8 DEF BodyStep
    <3>9. CASE ~A /\ ~B /\ ~C /\ ~D /\ ~E
      BY <3>1, <3>9 DEF BodyStep
    <3> QED  BY <3>4, <3>5, <3>6, <3>7, <3>8, <3>9
  <2>2. \A t : BodyWith(t) = IF Owner(at) = 0 /\ BlockAt(at) = "start_text" THEN body \o t ELSE body
    BY DEF BodyWith, Blocked
  <2>3. CASE Owner(at) # 0
    <3>1. \A t : BodyWith(t) = body
      BY <2>2, <2>3
    <3>2. body' = body
      BY <2>1, <2>3, <3>1
    <3> QED  BY <2>3, <3>2
  <2>4. CASE Owner(at) = 0
    <3> DEFINE T == BlockAt(at) = "start_text"
    <3>1. /\ kind \in {"start_text", "end_text"} => Joined(body, at) = n
          /\ kind \notin {"start_text", "end_text"} => Joined(body, at) = IF T THEN body \o Written(at) ELSE body
      BY <1>1, <2>4, BodyJoined
    <3>2. \A t : BodyWith(t) = IF T THEN body \o t ELSE body
      BY <2>2, <2>4
    <3>3. body \o n = body
      BY DEF Bodied
    <3>4. T => BlockAt(at) # "start_code"
      OBVIOUS
    <3> HIDE DEF T, n
    <3>5. CASE kind \in {"start_text", "end_text"}
      BY <2>1, <2>4, <3>1, <3>5
    <3>6. CASE kind \in {"text", "footnote"}
      <4>1. T => Written(at) = event.text
        BY <1>1, <3>4, <3>6, WrittenIs
      <4> QED  BY <2>1, <2>4, <3>1, <3>2, <3>6, <4>1
    <3>7. CASE kind = "break"
      <4>1. Written(at) = <<"\n">>
        BY <1>1, <3>7, WrittenIs
      <4> QED  BY <2>1, <2>4, <3>1, <3>2, <3>7, <4>1
    <3>8. CASE kind = "start_link"
      <4>1. Written(at) = IF event.wiki THEN n ELSE <<"[">>
        BY <1>1, <3>8, WrittenIs DEF n
      <4>2. Joined(body, at) = IF T THEN body \o Written(at) ELSE body
        BY <3>1, <3>8
      <4>3. body' = IF event.wiki THEN body ELSE BodyWith(<<"[">>)
        BY <2>1, <3>8
      <4> QED  BY <2>4, <3>2, <3>3, <4>1, <4>2, <4>3
    <3>9. CASE kind = "end_link"
      <4>1. Written(at) = IF Events[LinkStart(at)].wiki THEN n ELSE <<"]">>
        BY <1>1, <3>9, WrittenIs DEF n
      <4>2. Joined(body, at) = IF T THEN body \o Written(at) ELSE body
        BY <3>1, <3>9
      <4>3. link # NoLink /\ body' = IF link.wiki THEN body ELSE BodyWith(<<"]">>)
        BY <2>1, <3>9
      <4>4. link.wiki = Events[LinkStart(at)].wiki
        BY <4>3 DEF Linked
      <4> QED  BY <2>4, <3>2, <3>3, <4>1, <4>2, <4>3, <4>4
    <3>10. CASE kind \notin {"start_text", "end_text", "text", "footnote", "break", "start_link", "end_link"}
      <4>1. Written(at) = n
        BY <1>1, <3>10, WrittenIs DEF n
      <4>2. Joined(body, at) = IF T THEN body \o Written(at) ELSE body
        BY <3>1, <3>10
      <4>3. body' = body
        BY <2>1, <3>10
      <4> QED  BY <2>4, <3>3, <4>1, <4>2, <4>3
    <3> QED  BY <3>5, <3>6, <3>7, <3>8, <3>9, <3>10
  <2> QED  BY <2>3, <2>4
<1>4. body' = Unscanned(0, at + 1)
  BY <1>2, <1>3 DEF Bodied
<1>5. body' \in Seq(Characters)
  <2>1. Joined(body, at) \in Seq(Characters) /\ body \in Seq(Characters)
    BY <1>1, WrittenTyped DEF Bodied
  <2> QED  BY <1>3, <2>1
<1>6. Unscanned(0, at)' = Unscanned(0, at + 1)
  BY <1>1, UnscannedStays
<1> QED
  BY <1>4, <1>5, <1>6 DEF Bodied
\* The entries of the metadata block are kept from its texts until it ends, and
\* are the frontmatter then.
Entries(i) == Gathered(DOMAIN Events, i).entries

Unended(i) == \E y \in Positions("yaml") : y < i /\ \A k \in Positions("end_metadata") : ~(y < k /\ k < i)

Fronted ==
  /\ (\A j \in Positions("start_metadata") : j >= at) =>
       metadata = <<>> /\ frontmatter = <<>> /\ Entries(at) = <<>>
  /\ block = "metadata" => frontmatter = <<>> /\ metadata = Entries(at)
  /\ metadata = <<>> => frontmatter = Entries(at)
  /\ metadata # <<>> => frontmatter = <<>> /\ metadata = Entries(at) /\ Unended(at)

LEMMA StaysFronted ==
  ASSUME Nested, input \in Inputs, Blocked, Fronted, NEW kind, Step(kind)
  PROVE  Fronted'
<1> DEFINE g == Entries(at)
           h == Entries(at + 1)
           n == <<>>
           Before(i) == \A j \in Positions("start_metadata") : j >= i
<1>1. /\ at \in 1..Len(Events) /\ at \in DOMAIN Events /\ Events[at].kind = kind /\ at' = at + 1 /\ input' = input
      /\ event = Events[at] /\ at \in Nat
  BY HandleIs DEF Step
<1>2. \A j \in DOMAIN Events : j \in Nat
  BY DEF Nested
<1>3. h = IF kind = "yaml" THEN g \o event.entries ELSE g
  <2>1. Gathered(DOMAIN Events, at + 1) = Joining(Gathered(DOMAIN Events, at), at)
    BY <1>1, GatheredIs
  <2>2. \A x : Joining(x, at).entries = IF kind = "yaml" THEN x.entries \o Events[at].entries ELSE x.entries
    BY <1>1 DEF Joining, Is
  <2>3. g = Gathered(DOMAIN Events, at).entries /\ h = Gathered(DOMAIN Events, at + 1).entries
    BY DEF Entries
  <2> HIDE DEF g, h
  <2> QED  BY <1>1, <2>1, <2>2, <2>3
<1>4. Entries(at)' = h
  <2>1. DOMAIN Events' = DOMAIN Events
    BY <1>1, WrittenStays
  <2>2. Gathered(DOMAIN Events, at)' = Gathered(DOMAIN Events, at + 1)
    BY <1>1, <2>1, GatheredStays
  <2> QED  BY <2>2 DEF Entries
<1>5. /\ (\A j \in Positions("start_metadata") : j >= at)' <=> Before(at + 1)
      /\ Unended(at)' <=> Unended(at + 1)
  <2>1. Events' = Events
    BY <1>1, PlaceStays
  <2> QED  BY <1>1, <2>1 DEF Positions, Unended
<1>6. /\ Before(at) => metadata = n /\ frontmatter = n /\ g = n
      /\ block = "metadata" => frontmatter = n /\ metadata = g
      /\ metadata = n => frontmatter = g
      /\ metadata # n => frontmatter = n /\ metadata = g /\ Unended(at)
  BY DEF Fronted
<1>7. Before(at + 1) => Before(at)
  <2> SUFFICES ASSUME Before(at + 1), NEW j \in Positions("start_metadata") PROVE j >= at
    OBVIOUS
  <2>1. j >= at + 1 /\ j \in Nat
    BY <1>2 DEF Positions
  <2> QED  BY <1>1, <2>1
<1>8. /\ kind = "start_metadata" => metadata' = n /\ frontmatter' = frontmatter
      /\ kind = "end_metadata" => metadata' = n /\ frontmatter' = IF metadata = n THEN frontmatter ELSE metadata
      /\ kind = "yaml" => block = "metadata" /\ metadata' = metadata \o event.entries /\ frontmatter' = frontmatter
      /\ kind \notin {"start_metadata", "end_metadata", "yaml"} => metadata' = metadata /\ frontmatter' = frontmatter
  <2>1. FrontStep(kind)
    BY DEF Step
  <2>2. CASE kind = "start_metadata"
    BY <2>1, <2>2 DEF FrontStep
  <2>3. CASE kind = "end_metadata"
    BY <2>1, <2>3 DEF FrontStep
  <2>4. CASE kind = "yaml"
    BY <2>1, <2>4 DEF FrontStep
  <2>5. CASE kind \notin {"start_metadata", "end_metadata", "yaml"}
    BY <2>1, <2>5 DEF FrontStep
  <2> QED  BY <2>2, <2>3, <2>4, <2>5
<1>9. block' = IF kind \in BlockKinds THEN BlockAfter(kind) ELSE block
  BY DEF Step, BlockStep
<1>10. SUFFICES /\ Before(at + 1) => metadata' = n /\ frontmatter' = n /\ h = n
                /\ block' = "metadata" => frontmatter' = n /\ metadata' = h
                /\ metadata' = n => frontmatter' = h
                /\ metadata' # n => frontmatter' = n /\ metadata' = h /\ Unended(at + 1)
  BY <1>4, <1>5 DEF Fronted
<1> HIDE DEF g, h, n
<1>11. CASE kind = "start_metadata"
  <2>1. Before(at)
    <3>1. \A i, j \in Positions("start_metadata") : i = j
      BY BlocksAssumption DEF BlocksEnd, Positions, Events
    <3>2. at \in Positions("start_metadata")
      BY <1>1, <1>11 DEF Positions
    <3> QED  BY <1>1, <3>1, <3>2
  <2> HIDE DEF Before
  <2>2. frontmatter' = n /\ metadata' = n /\ h = n
    BY <1>3, <1>6, <1>8, <1>11, <2>1
  <2> QED  BY <2>2
<1>12. CASE kind = "end_metadata"
  <2>1. block' # "metadata"
    BY <1>9, <1>12 DEF BlockKinds, BlockAfter
  <2> HIDE DEF Before
  <2>2. metadata' = n /\ frontmatter' = h
    BY <1>3, <1>6, <1>8, <1>12
  <2>3. Before(at + 1) => h = n
    BY <1>3, <1>6, <1>7, <1>12
  <2> QED  BY <2>1, <2>2, <2>3
<1>13. CASE kind = "yaml"
  <2>1. block = "metadata"
    BY <1>8, <1>13
  <2>2. ~Before(at)
    <3>1. BlockAt(at) = "start_metadata"
      BY <2>1 DEF Blocked
    <3>2. BlocksTo(at) # {} /\ BlocksTo(at) \subseteq 1..Len(Events) /\ Len(Events) \in Nat
      BY <3>1, BlockIs DEF BlocksTo, Nested
    <3>3. Max(BlocksTo(at)) \in BlocksTo(at)
      BY <3>2, MaxIs
    <3>4. PICK j : j = Max(BlocksTo(at))
      OBVIOUS
    <3>5. Events[j].kind = "start_metadata"
      BY <3>1, <3>2, <3>4, BlockIs
    <3>6. j \in DOMAIN Events /\ j < at
      BY <3>3, <3>4 DEF BlocksTo
    <3> QED  BY <1>1, <1>2, <3>5, <3>6 DEF Positions
  <2>3. Unended(at + 1)
    <3>1. at \in Positions("yaml") /\ at < at + 1
      BY <1>1, <1>13 DEF Positions
    <3>2. \A k \in Positions("end_metadata") : ~(at < k /\ k < at + 1)
      BY <1>1, <1>2 DEF Positions
    <3> QED  BY <3>1, <3>2 DEF Unended
  <2> HIDE DEF Before
  <2>4. frontmatter' = n /\ metadata' = h
    BY <1>3, <1>6, <1>8, <1>13, <2>1
  <2> QED  BY <1>7, <2>2, <2>3, <2>4
<1>14. CASE kind \notin {"start_metadata", "end_metadata", "yaml"}
  <2>1. block' = "metadata" => block = "metadata"
    BY <1>9, <1>14 DEF BlockAfter
  <2>2. Unended(at) => Unended(at + 1)
    <3> SUFFICES ASSUME NEW y \in Positions("yaml"), y < at,
                        \A k \in Positions("end_metadata") : ~(y < k /\ k < at)
                 PROVE  Unended(at + 1)
      BY DEF Unended
    <3>1. y < at + 1
      BY <1>1, <1>2 DEF Positions
    <3>2. ASSUME NEW k \in Positions("end_metadata") PROVE ~(y < k /\ k < at + 1)
      <4>1. k \in Nat /\ k # at
        BY <1>1, <1>2, <1>14 DEF Positions
      <4>2. k < at + 1 => k < at
        BY <1>1, <4>1
      <4> QED  BY <4>2
    <3> QED  BY <3>1, <3>2 DEF Unended
  <2> HIDE DEF Before
  <2>3. metadata' = metadata /\ frontmatter' = frontmatter /\ h = g
    BY <1>3, <1>8, <1>14
  <2> QED  BY <1>6, <1>7, <2>1, <2>2, <2>3
<1> QED
  BY <1>11, <1>12, <1>13, <1>14

\* The metadata block has ended where the note does.
LEMMA FrontmatterIs ==
  ASSUME input \in Inputs, Fronted, at = Len(Events) + 1, Nested
  PROVE  frontmatter = OfNote.entries
<1>1. ~Unended(at)
  <2> SUFFICES ASSUME NEW y \in Positions("yaml") PROVE \E k \in Positions("end_metadata") : y < k /\ k < at
    BY DEF Unended
  <2>1. PICK k \in Positions("end_metadata") : y < k
    BY BlocksAssumption DEF BlocksEnd, Positions, Events
  <2>2. k < at
    BY DEF Positions, Nested
  <2> QED  BY <2>1, <2>2
<1> QED
  BY <1>1 DEF Fronted, OfNote, Entries
-----------------------------------------------------------------------------
(* What is found goes to the note *)

\* The frame that takes the next event is that of the item around it.
LEMMA OwnerFrame ==
  ASSUME Outlined, Led, Scans(itemStack, at), at \in 1..Len(Events)
  PROVE  /\ Active <=> Owner(at) # 0
         /\ Active => /\ Owner(at) \in Items /\ Owner(at) < at
                      /\ Leading(Last(itemStack), Owner(at), at)
                      /\ Scanning(Last(itemStack), Owner(at), at)
<1> DEFINE k == Len(itemStack)
<1>1. Nested /\ IsKeyedStack(itemStack) /\ k = Len(OpenItems(at))
  BY StackReady
<1>2. k \in Nat /\ (k # 0 <=> Active)
  BY <1>1 DEF IsKeyedStack, Active
<1>3. Active <=> Owner(at) # 0
  BY <1>1, <1>2, OwnerIs
<1>4. ASSUME Active
      PROVE  /\ Owner(at) \in Items /\ Owner(at) < at
             /\ Leading(Last(itemStack), Owner(at), at) /\ Scanning(Last(itemStack), Owner(at), at)
  <2>1. k \in 1..k /\ Last(itemStack) = itemStack[k]
    BY <1>2, <1>4 DEF Last
  <2> HIDE DEF k
  <2>2. k \in 1..Len(OpenItems(at)) /\ k = Len(OpenItems(at))
    BY <1>1, <2>1
  <2>3. OpenItems(at)[k] \in Items /\ OpenItems(at)[k] < at /\ Owner(at) = OpenItems(at)[k]
    BY <1>1, <2>2, OpenOwns
  <2>4. Leading(itemStack[k], OpenItems(at)[k], at) /\ Scanning(itemStack[k], OpenItems(at)[k], at)
    BY <2>2 DEF Led, Leads, Scans
  <2> QED  BY <2>1, <2>3, <2>4
<1> QED
  BY <1>3, <1>4

LEMMA FlushFinds ==
  ASSUME Outlined, Led, Scans(itemStack, at), at \in 1..Len(Events), Active,
         Events[at].kind \in {"start_list", "end_item"}, IsSettled(Owner(at))
  PROVE  Flush(Last(itemStack)).found = Found(at)
<1> DEFINE f == Last(itemStack)
           s == Owner(at)
           e == Events[at]
           g == Flush(f).item
           t == f.scan \o Released(f.marker, e.kind)
<1>1. Nested /\ IsKeyed(f) /\ IsTyped(f)
  BY StackReady DEF Active
<1>2. s # 0 /\ s \in Items /\ s < at /\ Leading(f, s, at) /\ Scanning(f, s, at)
  BY OwnerFrame
<1> HIDE DEF f, s
<1>3. Turns(f, g, e)
  <2>1. e.kind \in LineEnds
    BY DEF LineEnds
  <2> QED  BY <1>1, <2>1, LineEndTurns
<1>4. at \in DOMAIN Events
  BY <1>1 DEF Nested
<1>5. IsScanned(at)
  BY <1>2, <1>4, JoinedIs DEF s
<1>6. f.scan \in Seq(Characters)
  BY <1>2 DEF Scanning, s
<1>7. Flush(f).found = ScanMetadata(t, g.marker.symbol # NoMarker)
  BY <1>1, <1>2, <1>4, <1>6, LineEndCarries DEF s
<1>8. ScanMetadata(t, g.marker.symbol # NoMarker) = Found(at)
  BY <1>1, <1>2, <1>3, <1>5, FoundIs DEF s
<1> QED
  BY <1>7, <1>8 DEF f

AllSettled == \A s \in Items : IsSettled(s)

Gathers ==
  AllSettled => /\ fields = Gathered(DOMAIN Events, at).fields
                /\ tags = Gathered(DOMAIN Events, at).tags

LEMMA StaysGathers ==
  ASSUME Outlined, Led, Scans(itemStack, at), Bodied, Gathers, NEW kind, Step(kind)
  PROVE  Gathers'
<1> DEFINE G == Gathered(DOMAIN Events, at)
           H == Gathered(DOMAIN Events, at + 1)
<1>1. Nested
  BY StackReady
<1>2. /\ at \in 1..Len(Events) /\ at \in DOMAIN Events /\ Events[at].kind = kind /\ at' = at + 1 /\ input' = input
  BY <1>1, HandleIs DEF Step
<1>3. Active <=> Owner(at) # 0
  BY <1>2, OwnerFrame
<1>4. /\ IsScanned(at) => H.fields = G.fields \o Found(at).fields /\ H.tags = G.tags \o Found(at).tags
      /\ ~IsScanned(at) => H.fields = G.fields /\ H.tags = G.tags
  <2>1. H = Joining(G, at)
    BY <1>1, <1>2, GatheredIs
  <2>2. \A x : /\ Joining(x, at).fields = IF IsScanned(at) THEN x.fields \o Found(at).fields ELSE x.fields
               /\ Joining(x, at).tags = IF IsScanned(at) THEN x.tags \o Found(at).tags ELSE x.tags
    BY DEF Joining
  <2> HIDE DEF G, H
  <2> QED  BY <2>1, <2>2
<1>5. IsScanned(at) <=> IF Active THEN kind \in {"start_list", "end_item"} ELSE kind = "end_text"
  <2>1. CASE Active
    BY <1>2, <1>3, <2>1, JoinedIs
  <2>2. CASE ~Active
    BY <1>2, <1>3, <2>2 DEF IsScanned, Is
  <2> QED  BY <2>1, <2>2
<1>6. /\ kind = "end_text" =>
           IF Active THEN UNCHANGED <<fields, tags>> ELSE ExtendFromFlush(ScanMetadata(body, FALSE))
      /\ kind = "start_list" =>
           IF Active THEN ExtendFromFlush(Flush(Last(itemStack)).found) ELSE UNCHANGED <<fields, tags>>
      /\ kind = "end_item" => ExtendFromFlush(Flush(Last(itemStack)).found)
      /\ kind \notin {"end_text", "start_list", "end_item"} => UNCHANGED <<fields, tags>>
  <2>1. FindStep(kind)
    BY DEF Step
  <2>2. CASE kind = "end_text"
    BY <2>1, <2>2 DEF FindStep
  <2>3. CASE kind = "start_list"
    BY <2>1, <2>3 DEF FindStep
  <2>4. CASE kind = "end_item"
    BY <2>1, <2>4 DEF FindStep
  <2>5. CASE kind \notin {"end_text", "start_list", "end_item"}
    BY <2>1, <2>5 DEF FindStep
  <2> QED  BY <2>2, <2>3, <2>4, <2>5
<1>7. kind = "end_item" => Active
  <2> SUFFICES ASSUME kind = "end_item", ~Active PROVE FALSE
    OBVIOUS
  <2>1. Around("start_item", at) # {}
    BY <1>1, <1>2, AroundEnd DEF Closing
  <2>2. IsAscending(OpenItems(at), Around("start_item", at))
    BY <1>1, AroundOrder DEF OpenItems
  <2>3. Len(OpenItems(at)) # 0
    BY ONLY <2>1, <2>2, LastIsMax
  <2>4. Len(itemStack) = Len(OpenItems(at))
    BY StackReady
  <2> QED  BY <2>3, <2>4 DEF Active
<1> SUFFICES ASSUME AllSettled' PROVE (fields = Gathered(DOMAIN Events, at).fields /\ tags = Gathered(DOMAIN Events, at).tags)'
  BY DEF Gathers
<1>8. AllSettled
  <2>1. Items' = Items
    BY <1>2, PlaceStays
  <2>2. \A s : IsSettled(s)' <=> IsSettled(s)
    BY <1>2, LineStays
  <2>3. \A s \in Items' : IsSettled(s)'
    BY DEF AllSettled
  <2> QED  BY <2>1, <2>2, <2>3 DEF AllSettled
<1>9. fields = G.fields /\ tags = G.tags
  BY <1>8 DEF Gathers
<1>10. Gathered(DOMAIN Events, at)' = H
  <2>1. DOMAIN Events' = DOMAIN Events
    BY <1>2, WrittenStays
  <2> QED  BY <1>2, <2>1, GatheredStays
<1>11. fields' = H.fields /\ tags' = H.tags
  <2> HIDE DEF G, H
  <2>1. ASSUME NEW found, found = Found(at), IsScanned(at), ExtendFromFlush(found)
        PROVE  fields' = H.fields /\ tags' = H.tags
    BY <1>4, <1>9, <2>1 DEF ExtendFromFlush
  <2>2. ASSUME ~IsScanned(at), UNCHANGED <<fields, tags>> PROVE fields' = H.fields /\ tags' = H.tags
    BY <1>4, <1>9, <2>2
  <2>3. CASE IsScanned(at)
    <3>1. CASE Active
      <4> DEFINE found == Flush(Last(itemStack)).found
      <4>1. kind \in {"start_list", "end_item"}
        BY <1>5, <2>3, <3>1
      <4>2. Owner(at) \in Items
        BY <1>2, <3>1, OwnerFrame
      <4>3. found = Found(at)
        BY <1>2, <1>8, <3>1, <4>1, <4>2, FlushFinds DEF AllSettled
      <4> HIDE DEF found
      <4>4. ExtendFromFlush(found)
        BY <1>6, <3>1, <4>1 DEF found
      <4> QED  BY <2>1, <2>3, <4>3, <4>4
    <3>2. CASE ~Active
      <4> DEFINE no == FALSE
                 found == ScanMetadata(body, no)
      <4>1. kind = "end_text"
        BY <1>5, <2>3, <3>2
      <4>2. ExtendFromFlush(found)
        BY <1>6, <3>2, <4>1
      <4>3. found = Found(at)
        <5> DEFINE B == Owner(at) # 0 /\ IsMarked(Owner(at))
        <5>1. Found(at) = ScanMetadata(Unscanned(Owner(at), at), B) /\ Owner(at) = 0
          BY <1>3, <3>2 DEF Found
        <5>2. (B <=> no) /\ B \in BOOLEAN /\ no \in BOOLEAN
          BY <5>1
        <5>3. body = Unscanned(0, at)
          BY DEF Bodied
        <5> HIDE DEF B, no
        <5>4. ScanMetadata(body, B) = ScanMetadata(body, no)
          BY <5>2, SameScan
        <5> QED  BY <5>1, <5>3, <5>4 DEF no
      <4> HIDE DEF found
      <4> QED  BY <2>1, <2>3, <4>2, <4>3
    <3> QED  BY <3>1, <3>2
  <2>4. CASE ~IsScanned(at)
    <3>1. UNCHANGED <<fields, tags>>
      BY <1>5, <1>6, <1>7, <2>4
    <3> QED  BY <2>2, <2>4, <3>1
  <2> QED  BY <2>3, <2>4
<1> QED
  BY <1>10, <1>11
-----------------------------------------------------------------------------
(* A step of the parser goes on with the scans of the open items *)

LEMMA OnCarries ==
  ASSUME NEW st, IsKeyedStack(st), NEW i, NEW g,
         st # <<>> => (Last(st).scan \in Seq(Characters) => Carries(Last(st), g, i))
  PROVE  Carried(IF st # <<>> THEN Append(Front(st), g) ELSE st, st, i)
<1>1. PICK X : st \in Seq(X)
  BY DEF IsKeyedStack
<1>2. CASE st = <<>>
  BY <1>2 DEF Carried
<1>3. CASE st # <<>>
  <2> DEFINE a == Front(st)
             k == Len(st) - 1
             Y == X \cup {g}
             st2 == Append(a, g)
  <2>1. Len(st) # 0 /\ k \in Nat /\ Len(st) = k + 1
    BY <1>1, <1>3, SMTT(90)
  <2>2. a \in Seq(X) /\ Len(a) = k /\ \A n \in 1..k : a[n] = st[n]
    BY ZenonT(90), <1>1, <2>1, FrontIs
  <2>3. a \in Seq(Y) /\ g \in Y
    BY <2>2
  <2>4. st[k + 1].scan \in Seq(Characters) => Carries(st[k + 1], g, i)
    BY <1>3, <2>1 DEF Last
  <2> HIDE DEF a, k, Y
  <2>5. /\ Append(a, g) \in Seq(Y) /\ Len(Append(a, g)) = Len(a) + 1
        /\ \A n \in 1..Len(a) : Append(a, g)[n] = a[n]
        /\ Append(a, g)[Len(a) + 1] = g
    BY ONLY <2>3, AppendIs
  <2>6. Len(st2) = k + 1 /\ (\A n \in 1..k : st2[n] = st[n]) /\ st2[k + 1] = g
    BY <2>2, <2>5
  <2> HIDE DEF st2
  <2>7. \A n \in 1..(k + 1) : n # k + 1 => n \in 1..k
    BY <2>1
  <2>8. Carried(st2, st, i)
    BY <2>1, <2>4, <2>6, <2>7 DEF Carried, SameFinds
  <2> QED  BY <1>3, <2>8 DEF st2, a
<1> QED
  BY <1>2, <1>3

LEMMA SameCarried ==
  ASSUME NEW st, IsKeyedStack(st), NEW i,
         st # <<>> => (Last(st).scan \in Seq(Characters) => Carries(Last(st), Last(st), i))
  PROVE  Carried(st, st, i)
<1>1. ASSUME NEW n \in 1..Len(st), n = Len(st), st[n].scan \in Seq(Characters) PROVE Carries(st[n], st[n], i)
  <2> DEFINE f == Last(st)
  <2>1. st # <<>> /\ st[n] = f
    BY <1>1 DEF Last
  <2> HIDE DEF f
  <2> QED  BY <1>1, <2>1 DEF f
<1> QED
  BY <1>1 DEF Carried, SameFinds

LEMMA CarryReady ==
  ASSUME Outlined, Led, Scans(itemStack, at), at \in DOMAIN Events
  PROVE  /\ IsKeyedStack(itemStack) /\ at \in 1..Len(Events)
         /\ itemStack # <<>> => IsKeyed(Last(itemStack)) /\ IsTyped(Last(itemStack)) /\ Owner(at) # 0
<1>1. Nested /\ IsKeyedStack(itemStack) /\ (itemStack # <<>> => IsKeyed(Last(itemStack)) /\ IsTyped(Last(itemStack)))
  BY StackReady
<1>2. at \in 1..Len(Events)
  BY <1>1 DEF Nested
<1> QED
  BY <1>1, <1>2, OwnerFrame DEF Active

LEMMA IdleCarries ==
  ASSUME Outlined, Led, Scans(itemStack, at),
         StartMetadata \/ EndMetadata \/ PushYaml \/ EndCodeBlock \/ EndList
  PROVE  Carried(itemStack', itemStack, at)
<1>1. at \in DOMAIN Events /\ itemStack' = itemStack /\ Events[at].kind \in Idle \ {"start_code", "end_link"}
  BY DEF StartMetadata, EndMetadata, PushYaml, EndCodeBlock, EndList, Handle, event, Events, Idle
<1> DEFINE f == Last(itemStack)
<1>2. IsKeyedStack(itemStack) /\ (itemStack # <<>> => IsKeyed(f) /\ Owner(at) # 0)
  BY <1>1, CarryReady
<1> HIDE DEF f
<1>3. itemStack # <<>> => (f.scan \in Seq(Characters) => Carries(f, f, at))
  BY <1>1, <1>2, QuietCarries
<1> QED
  BY <1>1, <1>2, <1>3, SameCarried DEF f

LEMMA TextsCarry ==
  ASSUME Outlined, Led, Scans(itemStack, at),
         StartTextBlock \/ EndTextBlock \/ StartCodeBlock \/ StartQuote \/ StartList
  PROVE  Carried(itemStack', itemStack, at)
<1> USE DEF OnItem, Active
<1> DEFINE f == Last(itemStack)
           kind == Events[at].kind
           On(g) == IF itemStack # <<>> THEN Append(Front(itemStack), g) ELSE itemStack
<1>0. at \in DOMAIN Events
  BY DEF StartTextBlock, EndTextBlock, StartCodeBlock, StartQuote, StartList, Handle, event, Events
<1>1. IsKeyedStack(itemStack) /\ (itemStack # <<>> => IsKeyed(f) /\ IsTyped(f) /\ Owner(at) # 0)
  BY <1>0, CarryReady
<1>2. \A g : (itemStack # <<>> => (f.scan \in Seq(Characters) => Carries(f, g, at))) => Carried(On(g), itemStack, at)
  BY <1>1, OnCarries
<1>3. CASE StartTextBlock \/ StartCodeBlock
  <2>1. itemStack' = On(SeparateBlock(f)) /\ kind \in {"start_code", "start_text"}
    BY <1>3 DEF StartTextBlock, StartCodeBlock, Handle, event, Events
  <2> HIDE DEF f
  <2>2. itemStack # <<>> => (f.scan \in Seq(Characters) => Carries(f, SeparateBlock(f), at))
    BY <1>0, <1>1, <2>1, QuietCarries
  <2> QED  BY <1>2, <2>1, <2>2
<1>5. CASE EndTextBlock
  <2>1. itemStack' = On(ResolvePending(f)) /\ kind \in {"end_text", "other"}
    BY <1>5 DEF EndTextBlock, Handle, event, Events
  <2> HIDE DEF f
  <2>2. itemStack # <<>> => (f.scan \in Seq(Characters) => Carries(f, ResolvePending(f), at))
    BY <1>0, <1>1, <2>1, LineEndCarries
  <2> QED  BY <1>2, <2>1, <2>2
<1>6. CASE StartQuote
  <2>1. itemStack' = On(SeparateBlock(ResolvePending(f))) /\ kind = "start_quote"
    BY <1>6 DEF StartQuote, Handle, event, Events
  <2> HIDE DEF f
  <2>2. itemStack # <<>> => (f.scan \in Seq(Characters) => Carries(f, SeparateBlock(ResolvePending(f)), at))
    BY <1>0, <1>1, <2>1, LineEndCarries
  <2> QED  BY <1>2, <2>1, <2>2
<1>7. CASE StartList
  <2>1. itemStack' = On(Flush(f).item) /\ kind \in {"start_list", "end_item"}
    BY <1>7 DEF StartList, FlushActive, Handle, event, Events
  <2> HIDE DEF f
  <2>2. itemStack # <<>> => (f.scan \in Seq(Characters) => Carries(f, Flush(f).item, at))
    BY <1>0, <1>1, <2>1, LineEndCarries
  <2> QED  BY <1>2, <2>1, <2>2
<1> QED
  BY <1>3, <1>5, <1>6, <1>7

LEMMA InlinesCarry ==
  ASSUME Outlined, Led, Scans(itemStack, at), Blocked,
         PushText \/ HandleCode \/ PushBreak \/ PushFootnote \/ Barrier \/ OtherEvent
  PROVE  Carried(itemStack', itemStack, at)
<1> USE DEF OnItem, Active
<1> DEFINE f == Last(itemStack)
           e == Events[at]
           kind == e.kind
           S(g) == itemStack # <<>> => (f.scan \in Seq(Characters) => Carries(f, g, at))
           On(g) == IF itemStack # <<>> THEN Append(Front(itemStack), g) ELSE itemStack
<1>0. at \in DOMAIN Events /\ event = e
  BY DEF PushText, HandleCode, PushBreak, PushFootnote, Barrier, OtherEvent, Handle, event, Events
<1>1. IsKeyedStack(itemStack) /\ (itemStack # <<>> => IsKeyed(f) /\ IsTyped(f) /\ Owner(at) # 0)
  BY <1>0, CarryReady
<1>2. \A g : S(g) => Carried(On(g), itemStack, at)
  BY <1>1, OnCarries
<1>3. e.kind \in {"text", "code", "footnote"} => e.text \in Seq(Characters)
  BY <1>0, TextsTyped
<1>5. CASE PushText
  <2> DEFINE hidden == block = "code"
             h == PushItemText(f, e.text, hidden)
  <2>1. itemStack' = On(h) /\ e.kind = "text"
    BY <1>0, <1>5 DEF PushText, Handle
  <2>2. hidden <=> BlockAt(at) = "start_code"
    BY DEF Blocked
  <2> HIDE DEF f, hidden
  <2>3. S(h)
    BY <1>0, <1>1, <2>1, <2>2, TextCarries
  <2> HIDE DEF S, h
  <2> QED  BY <1>2, <2>1, <2>3
<1>6. CASE HandleCode
  <2> DEFINE hidden == TRUE
             h == Write(Reject(f), e.text, hidden)
  <2>1. itemStack' = On(h) /\ e.kind = "code"
    BY <1>0, <1>6 DEF HandleCode, Handle
  <2>2. hidden
    OBVIOUS
  <2> HIDE DEF f, hidden
  <2>3. S(h)
    BY <1>0, <1>1, <1>3, <2>1, <2>2, InlineCarries
  <2> HIDE DEF S, h
  <2> QED  BY <1>2, <2>1, <2>3
<1>7. CASE PushBreak
  <2> DEFINE hidden == FALSE
             h == Write(ResolvePending(f), <<"\n">>, hidden)
  <2>1. itemStack' = On(h) /\ e.kind = "break"
    BY <1>0, <1>7 DEF PushBreak, Handle
  <2>2. ~hidden
    OBVIOUS
  <2> HIDE DEF f, hidden
  <2>3. S(h)
    BY <1>0, <1>1, <2>1, <2>2, LineEndCarries
  <2> HIDE DEF S, h
  <2> QED  BY <1>2, <2>1, <2>3
<1>8. CASE PushFootnote
  <2> DEFINE hidden == block = "code"
             h == PushItemText(Reject(f), e.text, hidden)
  <2>1. itemStack' = On(h) /\ e.kind = "footnote"
    BY <1>0, <1>8 DEF PushFootnote, Handle
  <2>2. hidden <=> BlockAt(at) = "start_code"
    BY DEF Blocked
  <2> HIDE DEF f, hidden
  <2>3. S(h)
    BY <1>0, <1>1, <1>3, <2>1, <2>2, InlineCarries
  <2> HIDE DEF S, h
  <2> QED  BY <1>2, <2>1, <2>3
<1>9. CASE Barrier
  <2> DEFINE h == Reject(f)
  <2>1. itemStack' = On(h) /\ e.kind = "barrier"
    BY <1>0, <1>9 DEF Barrier, Handle
  <2> HIDE DEF f
  <2>3. S(h)
    BY <1>0, <1>1, <1>3, <2>1, InlineCarries
  <2> HIDE DEF S, h
  <2> QED  BY <1>2, <2>1, <2>3
<1>10. CASE OtherEvent
  <2> DEFINE h == ResolvePending(f)
  <2>1. itemStack' = On(h) /\ e.kind = "other"
    BY <1>0, <1>10 DEF OtherEvent, Handle
  <2> HIDE DEF f
  <2>3. S(h)
    BY <1>0, <1>1, <2>1, LineEndCarries
  <2> HIDE DEF S, h
  <2> QED  BY <1>2, <2>1, <2>3
<1> QED
  BY <1>5, <1>6, <1>7, <1>8, <1>9, <1>10
LEMMA LinksCarry ==
  ASSUME Outlined, Led, Scans(itemStack, at), Linked, StartLink \/ EndLink
  PROVE  Carried(itemStack', itemStack, at)
<1> DEFINE f == Last(itemStack)
           e == Events[at]
           S(g) == itemStack # <<>> => (f.scan \in Seq(Characters) => Carries(f, g, at))
           On(g) == IF itemStack # <<>> THEN Append(Front(itemStack), g) ELSE itemStack
<1>0. at \in DOMAIN Events /\ event = e
  BY DEF StartLink, EndLink, Handle, event, Events
<1>1. IsKeyedStack(itemStack) /\ (itemStack # <<>> => IsKeyed(f) /\ IsTyped(f) /\ Owner(at) # 0)
  BY <1>0, CarryReady
<1>2. \A g : S(g) => Carried(On(g), itemStack, at)
  BY <1>1, OnCarries
<1>3. CASE StartLink
  <2> DEFINE ch == "["
             g == Reject(f)
             h == [g EXCEPT !.scan = Append(g.scan, ch)]
  <2>1. itemStack' = (IF e.wiki THEN On(g) ELSE PushScanChar(On(g), ch)) /\ e.kind = "start_link"
    BY <1>0, <1>3 DEF StartLink, OnItem, Active, Handle
  <2>2. PushScanChar(On(g), ch) = On(h)
    <3> HIDE DEF g, ch
    <3> QED  BY ZenonT(90), <1>1, CharPushed
  <2> HIDE DEF f
  <2>3. (e.wiki => S(g)) /\ (~e.wiki => S(h))
    BY <1>0, <1>1, <2>1, InlineCarries
  <2> HIDE DEF S, g, h
  <2> QED  BY <1>2, <2>1, <2>2, <2>3
<1>4. CASE EndLink
  <2> DEFINE ch == "]"
             V == Events[LinkStart(at)].wiki
             h == [f EXCEPT !.scan = Append(f.scan, ch)]
  <2>1. /\ itemStack' = IF link.wiki THEN itemStack ELSE PushScanChar(itemStack, ch)
        /\ e.kind = "end_link" /\ link # NoLink
    BY <1>0, <1>4 DEF EndLink, Handle
  <2>2. PushScanChar(itemStack, ch) = On(h)
    BY DEF PushScanChar
  <2>3. link.wiki = V
    BY <2>1 DEF Linked
  <2> HIDE DEF f
  <2>4. (V => S(f)) /\ (~V => S(h))
    BY <1>0, <1>1, <2>1, QuietCarries
  <2>5. S(f) => Carried(itemStack, itemStack, at)
    BY <1>1, SameCarried DEF f
  <2> HIDE DEF S, h, V
  <2> QED  BY <1>2, <2>1, <2>2, <2>3, <2>4, <2>5
<1> QED
  BY <1>3, <1>4

LEMMA ScansStay ==
  ASSUME input' = input, NEW st, NEW i, Scans(st, i)
  PROVE  Scans(st, i)'
<1>1. OpenItems(i)' = OpenItems(i)
  BY PlaceStays DEF OpenItems
<1>2. ASSUME NEW f, NEW s PROVE Scanning(f, s, i)' <=> Scanning(f, s, i)
  <2>1. /\ IsSettled(s)' <=> IsSettled(s)
        /\ LeadEnd(s)' = LeadEnd(s)
    BY LineStays
  <2>2. Unscanned(s, i)' = Unscanned(s, i)
    BY UnscannedStays
  <2>3. Gathered(EventsOf(s), i)' = Gathered(EventsOf(s), i)
    BY WrittenStays, GatheredStays
  <2> QED  BY <2>1, <2>2, <2>3 DEF Scanning
<1>3. \A n \in 1..Len(OpenItems(i)) : Scanning(st[n], OpenItems(i)[n], i)
  BY DEF Scans
<1> QED
  BY <1>1, <1>2, <1>3 DEF Scans

OpenScanned == Scans(itemStack, at)

LEMMA ScansNext ==
  ASSUME input' = input, Scans(itemStack', at')
  PROVE  OpenScanned'
<1> PICK k, st : k = at' /\ st = itemStack'
  OBVIOUS
<1>1. Scans(st, k)'
  BY ScansStay
<1> QED
  BY <1>1 DEF OpenScanned

LEMMA EndItemScans ==
  ASSUME Outlined, Led, OpenScanned, EndItem
  PROVE  Scans(itemStack', at + 1)
<1>1. Nested /\ IsKeyedStack(itemStack) /\ Len(itemStack) = Len(OpenItems(at))
  BY StackReady
<1> DEFINE st == itemStack
           f == Flush(Last(st)).item
           child == ListItem(f)
<1>2. /\ at \in 1..Len(Events) /\ Events[at].kind = "end_item"
      /\ Attach(child, f.descendants, f.incomplete)
  BY <1>1 DEF EndItem, PopItem, Handle, event, Events, Nested
<1>3. PICK X : st \in Seq(X)
  BY <1>1 DEF IsKeyedStack
<1> HIDE DEF f, child
<1>4. \A n \in 1..Len(st) : IsKeyed(st[n])
  BY <1>1 DEF IsKeyedStack
<1>5. \A n \in 1..(Len(st) - 1) : itemStack'[n].scan = st[n].scan /\ SameFinds(itemStack'[n], st[n])
  <2>1. CASE Len(st) > 1
    <3> DEFINE p == Last(Front(st))
               g == ObserveChild(p, child, f.descendants, f.incomplete)
               k == Len(st) - 1
    <3>1. itemStack' = Append(Front(Front(st)), g)
      BY <1>2, <2>1 DEF Attach
    <3> HIDE DEF g
    <3>2. p = st[k] /\ k \in 1..Len(st) /\ \A n \in 1..k : itemStack'[n] = IF n = k THEN g ELSE st[n]
      <4>1. /\ Last(Front(st)) = st[Len(st) - 1] /\ Len(st) - 1 \in 1..Len(st)
            /\ \A n \in 1..(Len(st) - 1) :
                  Append(Front(Front(st)), g)[n] = IF n = Len(st) - 1 THEN g ELSE st[n]
        BY ZenonT(90), <1>3, <2>1, AttachIs
      <4> QED  BY <3>1, <4>1
    <3> HIDE DEF p, k
    <3>3. IsKeyed(p)
      BY <1>4, <3>2
    <3>4. g.scan = p.scan /\ SameFinds(g, p)
      BY <3>3, ObserveFinds DEF g
    <3>5. \A n \in 1..k : itemStack'[n].scan = st[n].scan /\ SameFinds(itemStack'[n], st[n])
      BY <3>2, <3>4 DEF SameFinds
    <3> QED  BY <3>5 DEF k
  <2>2. CASE ~(Len(st) > 1)
    <3>1. Len(st) \in Nat /\ ~(Len(st) > 1)
      BY <1>3, <2>2
    <3>2. \A l \in Nat : ~(l > 1) => \A n \in 1..(l - 1) : FALSE
      OBVIOUS
    <3> QED  BY <3>1, <3>2
  <2> QED  BY <2>1, <2>2
<1>6. Leads(st, at) /\ Scans(st, at) /\ input \in Inputs
  BY DEF Led, OpenScanned, Outlined
<1> HIDE DEF st
<1>7. Scans(itemStack', at + 1)
  BY <1>1, <1>2, <1>3, <1>4, <1>5, <1>6, ScansEnd DEF st
<1> QED
  BY <1>7

LEMMA StaysScanned ==
  ASSUME Outlined, Led, OpenScanned, Blocked, Linked, [Next]_vars
  PROVE  OpenScanned'
<1>1. Nested /\ IsKeyedStack(itemStack) /\ Len(itemStack) = Len(OpenItems(at)) /\ input \in Inputs
  BY StackReady DEF Outlined
<1>0. Scans(itemStack, at)
  BY DEF OpenScanned
<1>2. CASE Configure \/ IntoNote \/ UNCHANGED vars
  <2>1. input' = input /\ at' = at /\ itemStack' = itemStack
    BY <1>2 DEF Configure, IntoNote, vars, parts
  <2>2. Scans(itemStack', at')
    BY <1>0, <2>1
  <2> QED  BY <2>1, <2>2, ScansNext
<1>3. ASSUME NEW kind, Handle(kind)
      PROVE  /\ at \in 1..Len(Events) /\ Events[at].kind = kind /\ at' = at + 1 /\ input' = input
  BY <1>1, <1>3 DEF Handle, event, Events, Nested
<1>4. ASSUME NEW kind, Handle(kind), kind # "start_item", kind # "end_item",
             Turned(itemStack', itemStack, Events[at]), Carried(itemStack', itemStack, at)
      PROVE  OpenScanned'
  <2>1. /\ at \in 1..Len(Events) /\ Events[at].kind = kind /\ at' = at + 1 /\ input' = input
    BY <1>3, <1>4
  <2>2. OpenItems(at + 1) = OpenItems(at)
    BY <1>1, <1>4, <2>1, NoItemOpens
  <2>3. Leads(itemStack, at)
    BY DEF Led
  <2>4. Scans(itemStack', at + 1)
    BY <1>0, <1>1, <1>4, <2>1, <2>2, <2>3, ScansTurn
  <2> QED  BY <2>1, <2>4, ScansNext
<1>5. CASE StartMetadata \/ EndMetadata \/ PushYaml \/ EndCodeBlock \/ EndList
  BY <1>0, <1>4, <1>5, IdleLed, IdleCarries DEF StartMetadata, EndMetadata, PushYaml, EndCodeBlock, EndList
<1>6. CASE StartTextBlock \/ EndTextBlock \/ StartCodeBlock \/ StartQuote \/ StartList
  BY <1>0, <1>4, <1>6, TextLed, TextsCarry DEF StartTextBlock, EndTextBlock, StartCodeBlock, StartQuote, StartList
<1>7. CASE PushText \/ HandleCode \/ PushBreak \/ PushFootnote \/ Barrier \/ OtherEvent
  BY <1>0, <1>4, <1>7, InlineLed, InlinesCarry DEF PushText, HandleCode, PushBreak, PushFootnote, Barrier, OtherEvent
<1>8. CASE StartLink \/ EndLink
  BY <1>0, <1>4, <1>8, LinkLed, LinksCarry DEF StartLink, EndLink
<1>9. CASE StartItem
  <2> DEFINE f == NewFrame(event.line)
  <2>1. /\ at \in 1..Len(Events) /\ Events[at].kind = "start_item" /\ at' = at + 1 /\ input' = input
        /\ itemStack' = Append(itemStack, f)
    BY <1>3, <1>9 DEF StartItem
  <2>2. f.scan = <<>> /\ f.text = <<>> /\ f.fields = <<>> /\ f.tags = <<>>
    BY DEF NewFrame, Frame
  <2> HIDE DEF f
  <2>3. Leads(itemStack, at) /\ (\E X : itemStack \in Seq(X)) /\ \A n \in 1..Len(itemStack) : IsKeyed(itemStack[n])
    BY <1>1 DEF Led, IsKeyedStack
  <2>4. Scans(itemStack', at + 1)
    BY <1>0, <1>1, <2>1, <2>2, <2>3, ScansStart
  <2> QED  BY <2>1, <2>4, ScansNext
<1>10. CASE EndItem
  <2>1. at' = at + 1 /\ input' = input
    BY <1>3, <1>10 DEF EndItem
  <2> QED  BY <1>10, <2>1, EndItemScans, ScansNext
<1> QED
  BY <1>2, <1>5, <1>6, <1>7, <1>8, <1>9, <1>10 DEF Next

-----------------------------------------------------------------------------
(* What is kept of the note beside its outline *)

\* The metadata of a finished note is what was found.
Noted ==
  phase = "done" =>
    note.fields = fields /\ note.tags = tags \o FrontmatterTags(frontmatter, config.values["tags"])

Kept == OpenScanned /\ Blocked /\ Linked /\ Bodied /\ Gathers /\ Fronted /\ Noted

LEMMA StartsKept == Init => Kept
<1> SUFFICES ASSUME Init PROVE Kept
  OBVIOUS
<1> DEFINE n == <<>>
<1>1. Nested
  BY InputNests DEF Init
<1>2. /\ at = 1 /\ block = "none" /\ link = NoLink /\ body = n /\ fields = n /\ tags = n
      /\ metadata = n /\ frontmatter = n /\ phase = "starting"
  BY DEF Init
<1>3. OpenScanned
  <2>1. OpenItems(1) = InOrder({}) /\ Len(InOrder({})) = 0
    BY <1>1, NothingOpen DEF OpenItems
  <2> QED  BY <1>2, <2>1 DEF OpenScanned, Scans
<1>4. Blocked
  <2>1. BlockAt(1) = "none"
    BY <1>1, BlockNext
  <2> QED  BY <1>2, <2>1 DEF Blocked
<1>5. Bodied
  <2> DEFINE i == 1
             s == 0
  <2>1. i \in 1..(Len(Events) + 1)
    BY <1>1 DEF Nested
  <2>2. i = IF s = 0 THEN 1 ELSE LeadEnd(s)
    OBVIOUS
  <2> HIDE DEF i, s
  <2>3. Unscanned(s, i) = IF s = 0 THEN <<>> ELSE LeadRest(s)
    BY <1>1, <2>1, <2>2, UnscannedIs
  <2>4. Unscanned(0, 1) = n
    BY <2>3 DEF s, i
  <2> QED  BY <1>2, <2>4 DEF Bodied
<1>6. /\ Gathered(DOMAIN Events, 1).fields = n /\ Gathered(DOMAIN Events, 1).tags = n
      /\ Entries(1) = n
  BY <1>1, GatheredIs DEF Entries
<1> HIDE DEF n
<1>7. Gathers /\ Linked /\ Noted
  BY <1>2, <1>6 DEF Gathers, Linked, Noted
<1>8. Fronted
  BY <1>2, <1>6 DEF Fronted, n
<1> QED
  BY <1>3, <1>4, <1>5, <1>7, <1>8 DEF Kept

LEMMA StepOf ==
  ASSUME [Next]_vars
  PROVE  Configure \/ IntoNote \/ UNCHANGED vars \/ \E kind : Step(kind)
<1>1. StartMetadata \/ EndMetadata \/ PushYaml \/ StartTextBlock \/ EndTextBlock
        \/ StartCodeBlock \/ EndCodeBlock \/ StartQuote => \E kind : Step(kind)
  BY BlocksStep
<1>2. StartList \/ EndList \/ StartItem \/ EndItem => \E kind : Step(kind)
  BY ItemsStep
<1>3. StartLink \/ EndLink \/ PushText \/ HandleCode \/ PushBreak \/ PushFootnote
        \/ Barrier \/ OtherEvent => \E kind : Step(kind)
  BY WordsStep
<1> QED
  BY <1>1, <1>2, <1>3 DEF Next

LEMMA StaysKept ==
  ASSUME Outlined, Led, Kept, [Next]_vars
  PROVE  Kept'
<1>1. Nested /\ input \in Inputs
  BY StackReady DEF Outlined
<1>2. OpenScanned /\ Blocked /\ Linked /\ Bodied /\ Gathers /\ Fronted /\ Noted
  BY DEF Kept
<1>3. OpenScanned'
  BY <1>2, StaysScanned
<1>4. CASE Configure \/ IntoNote \/ UNCHANGED vars
  <2>1. /\ input' = input /\ at' = at /\ block' = block /\ link' = link /\ body' = body
        /\ fields' = fields /\ tags' = tags /\ metadata' = metadata /\ frontmatter' = frontmatter
    BY <1>4 DEF Configure, IntoNote, vars, parts
  <2>2. Events' = Events /\ Items' = Items
    BY <2>1, PlaceStays
  <2>3. Blocked' /\ Linked'
    BY <1>2, <2>1, <2>2, WrittenStays DEF Blocked, Linked, NoLink
  <2>4. Unscanned(0, at)' = Unscanned(0, at)
    BY <2>1, UnscannedStays
  <2>5. Gathered(DOMAIN Events, at)' = Gathered(DOMAIN Events, at)
    BY <2>1, <2>2, GatheredStays
  <2>6. AllSettled' <=> AllSettled
    <3>1. \A s : IsSettled(s)' <=> IsSettled(s)
      BY <2>1, LineStays
    <3> QED  BY <2>2, <3>1 DEF AllSettled
  <2>7. Bodied' /\ Gathers'
    BY <1>2, <2>1, <2>4, <2>5, <2>6 DEF Bodied, Gathers
  <2>8. Fronted'
    BY <1>2, <2>1, <2>2, <2>5 DEF Fronted, Entries, Unended, Positions
  <2>9. Noted'
    <3>1. CASE Configure
      BY <3>1 DEF Configure, Noted
    <3>2. CASE IntoNote
      BY <2>1, <3>2 DEF IntoNote, Noted
    <3>3. CASE UNCHANGED vars
      BY <1>2, <2>1, <3>3 DEF vars, Noted
    <3> QED  BY <1>4, <3>1, <3>2, <3>3
  <2> QED  BY <1>3, <2>3, <2>7, <2>8, <2>9 DEF Kept
<1>5. ASSUME NEW kind, Step(kind) PROVE Kept'
  <2>1. Handle(kind) /\ at \in 1..Len(Events) /\ phase' = "parsing"
    BY <1>1, <1>5, HandleIs DEF Step
  <2>2. Active <=> Owner(at) # 0
    BY <1>2, <2>1, OwnerFrame DEF OpenScanned
  <2>3. Blocked'
    BY <1>1, <1>2, <1>5, StaysBlocked DEF Step, BlockStep
  <2>4. Linked'
    BY <1>1, <1>2, <1>5, StaysLinked
  <2>5. Bodied'
    BY <1>1, <1>2, <1>5, <2>2, StaysBodied
  <2>6. Gathers'
    BY <1>2, <1>5, StaysGathers DEF OpenScanned
  <2>7. Fronted'
    BY <1>1, <1>2, <1>5, StaysFronted
  <2>8. Noted'
    BY <2>1 DEF Noted
  <2> QED  BY <1>3, <2>3, <2>4, <2>5, <2>6, <2>7, <2>8 DEF Kept
<1> QED
  BY <1>4, <1>5, StepOf

-----------------------------------------------------------------------------
(* The items that end *)

LEMMA ResolveTells ==
  ASSUME NEW statuses, \A c \in DOMAIN statuses.symbols : statuses.symbols[c].symbol = c, NEW c
  PROVE  ResolveStatus(statuses, c).symbol = c
BY DEF ResolveStatus, Status

\* An item with a marker is a task just if it has one of the tags asked for.
LEMMA FinishFilters ==
  ASSUME NEW statuses, NEW f, NEW tokens, NEW filters, filters = Winning("tag_filters"),
         NEW child, child = Finish(f, tokens, filters, statuses)
  PROVE  child.type # Plain => (child.type.kind = "task" <=> HasFiltered(child))
<1> DEFINE class == Classify(f, tokens, filters, statuses)
           A == f.marker.symbol = NoMarker
           B == IsFiltered(f.tags, filters)
           task == [kind |-> "task",
                    status |-> ResolveStatus(statuses, f.marker.symbol),
                    done |-> DoneDate(tokens, f.fields),
                    priority |-> PriorityOf(tokens, f.fields),
                    fully_complete |-> ~f.incomplete]
<1>1. child.type = class /\ child.tags = f.tags
  <2> HIDE DEF class
  <2>1. child.type = class /\ child.tags = f.tags
    BY DEF Finish, class
  <2> QED  BY <2>1
<1>2. B <=> HasFiltered(child)
  <2> HIDE DEF class
  <2>1. ToSet(f.tags) = {f.tags[n] : n \in DOMAIN f.tags} /\ ToSet(filters) = {filters[n] : n \in DOMAIN filters}
    BY DEF ToSet
  <2>2. B <=> filters = <<>> \/ ToSet(f.tags) \cap ToSet(filters) # {}
    BY <2>1 DEF IsFiltered
  <2> HIDE DEF B
  <2> QED  BY <1>1, <2>2 DEF HasFiltered
<1>3. CASE A
  BY <1>1, <1>3 DEF Classify
<1>4. CASE ~A /\ B
  <2>1. class = task
    BY <1>4 DEF Classify
  <2>2. task.kind = "task"
    OBVIOUS
  <2> HIDE DEF class, task, B
  <2> QED  BY <1>1, <1>2, <1>4, <2>1, <2>2
<1>5. CASE ~A /\ ~B
  <2>1. class = Checkbox
    BY <1>5 DEF Classify
  <2>2. Checkbox.kind # "task"
    BY DEF Checkbox
  <2> HIDE DEF class, B
  <2> QED  BY <1>1, <1>2, <1>5, <2>1, <2>2
<1> HIDE DEF A, B
<1> QED
  BY <1>3, <1>4, <1>5

LEMMA FinishClasses ==
  ASSUME NEW statuses, \A c \in DOMAIN statuses.symbols : statuses.symbols[c].symbol = c,
         \A c : ResolveStatus(statuses, c) = StatusOf(c),
         NEW t, NEW f, Settled(f, t), Finds(t, f), NEW tokens, NEW filters, filters = Winning("tag_filters")
  PROVE  Classed(t, Finish(f, tokens, filters, statuses))
<1> DEFINE child == Finish(f, tokens, filters, statuses)
           class == Classify(f, tokens, filters, statuses)
           w == LeadText(t)
<1> SUFFICES ASSUME IsSettled(t)
             PROVE  /\ child.type = Plain <=> ~IsMarked(t)
                    /\ child.type.kind = "task" =>
                         child.type.status.symbol = w[2] /\ child.type.status = StatusOf(w[2])
                    /\ LeadRest(t) \in Seq(Characters) /\ Begins(LeadRest(t), child.text)
  <2> HIDE DEF child
  <2>1. child.type # Plain => (child.type.kind = "task" <=> HasFiltered(child))
    BY FinishFilters DEF child
  <2>2. child.fields = f.fields /\ child.tags = f.tags
    <3> HIDE DEF class
    <3> QED  BY DEF child, Finish
  <2>3. Finds(t, child)
    BY <2>2 DEF Finds
  <2> QED  BY <2>1, <2>3 DEF Classed, child
<1>1. /\ w \in Seq(Characters)
      /\ f.marker = Chose(IF IsMarked(t) THEN w[2] ELSE NoMarker)
      /\ LeadRest(t) \in Seq(Characters) /\ Begins(LeadRest(t), f.text)
  BY DEF Settled
<1>2. child.type = class /\ child.text = f.text
  <2> HIDE DEF class
  <2>1. child.type = class /\ child.text = f.text
    BY DEF Finish, class
  <2> QED  BY <2>1
<1>3. \A c : Chose(c).symbol = c
  BY DEF Chose
<1>4. IsMarked(t) => w[2] # NoMarker
  <2> SUFFICES ASSUME IsMarked(t) PROVE w[2] # NoMarker
    OBVIOUS
  <2>1. Len(w) >= 3
    BY DEF IsMarked
  <2> HIDE DEF w
  <2>2. w[2] \in Characters
    BY <1>1, <2>1
  <2> QED  BY <2>2, CharactersAssumption
<1> HIDE DEF child, w
<1>5. CASE ~IsMarked(t)
  <2>1. f.marker = Chose(NoMarker)
    BY <1>1, <1>5
  <2>2. f.marker.symbol = NoMarker
    BY <1>3, <2>1
  <2>3. class = Plain
    BY <2>2 DEF Classify
  <2>4. Plain.kind # "task"
    BY DEF Plain
  <2> HIDE DEF class
  <2> QED  BY <1>1, <1>2, <1>5, <2>3, <2>4
<1>6. CASE IsMarked(t)
  <2> DEFINE c == w[2]
             status == ResolveStatus(statuses, c)
             B == IsFiltered(f.tags, filters)
             task == [kind |-> "task", status |-> ResolveStatus(statuses, f.marker.symbol),
                      done |-> DoneDate(tokens, f.fields),
                      priority |-> PriorityOf(tokens, f.fields),
                      fully_complete |-> ~f.incomplete]
  <2>1. f.marker = Chose(c) /\ c # NoMarker
    BY <1>1, <1>4, <1>6
  <2> HIDE DEF c
  <2>2. f.marker.symbol = c
    BY <1>3, <2>1
  <2>3. status.symbol = c /\ status = StatusOf(c)
    BY ResolveTells
  <2>4. CASE B
    <3>1. class = task
      BY <2>1, <2>2, <2>4 DEF Classify
    <3>2. task.status = status /\ task.kind = "task"
      BY <2>2
    <3>3. task # Plain
      <4>1. Plain.kind # "task"
        BY DEF Plain
      <4> HIDE DEF task
      <4> QED  BY <3>2, <4>1
    <3> HIDE DEF class, task, status
    <3> QED  BY <1>1, <1>2, <1>6, <2>3, <3>1, <3>2, <3>3 DEF c
  <2>5. CASE ~B
    <3>1. class = Checkbox
      BY <2>1, <2>2, <2>5 DEF Classify
    <3>2. Checkbox.kind # "task" /\ Checkbox # Plain
      <4>1. Checkbox.kind = "checkbox" /\ Plain.kind = "plain"
        BY DEF Checkbox, Plain
      <4> QED  BY <4>1
    <3> HIDE DEF class
    <3> QED  BY <1>1, <1>2, <1>6, <3>1, <3>2
  <2> QED  BY <2>4, <2>5
<1> QED
  BY <1>5, <1>6

\* What the parser looks up is what the winning file says.
LEMMA ConfiguredAsWritten ==
  ASSUME Configured, phase = "parsing"
  PROVE  /\ config.tag_filters = Winning("tag_filters")
         /\ \A c : ResolveStatus(config.statuses, c) = StatusOf(c)
<1> DEFINE list == Winning("statuses")
<1>1. config = Build(input.local, input.global) /\ config # Rejected /\ input \in Inputs
  BY DEF Configured
<1>2. /\ config.tag_filters = MergedList(input.local.tag_filters, input.global.tag_filters)
      /\ config.statuses = Inserted(DefaultStatuses, MergedList(input.local.statuses, input.global.statuses))
  BY <1>1 DEF Build
<1>3. /\ MergedList(input.local.tag_filters, input.global.tag_filters) = Winning("tag_filters")
      /\ MergedList(input.local.statuses, input.global.statuses) = list
  BY DEF MergedList, Winning
<1>4. IsStatuses(input.local.statuses) /\ IsStatuses(input.global.statuses)
  BY <1>1, InputsAssumption
<1>5. IsList(list)
  BY <1>4 DEF Winning, IsStatuses, IsList
<1>6. ASSUME NEW c PROVE ResolveStatus(config.statuses, c) = StatusOf(c)
  <2> DEFINE said == Said(list, c)
  <2>1. StatusOf(c) = IF said # {} THEN list[Max(said)] ELSE ResolveStatus(DefaultStatuses, c)
    BY DEF StatusOf, Said
  <2> HIDE DEF list
  <2>2. config.statuses = Inserted(DefaultStatuses, list)
    BY <1>2, <1>3
  <2>3. /\ said # {} => ResolveStatus(Inserted(DefaultStatuses, list), c) = list[Max(said)]
        /\ said = {} => ResolveStatus(Inserted(DefaultStatuses, list), c) = ResolveStatus(DefaultStatuses, c)
    BY <1>5, LastInserted
  <2> HIDE DEF said
  <2> QED  BY ONLY <2>1, <2>2, <2>3
<1> QED
  BY <1>2, <1>3, <1>6

\* The item that ends is recorded as its line has it.
LEMMA EndItemClasses ==
  ASSUME Outlined, Led, OpenScanned, Configured, EndItem
  PROVE  \A t \in Items : EndOf(t) = at => Classed(t, ListItem(Flush(Last(itemStack)).item))
<1>1. Nested /\ IsKeyedStack(itemStack) /\ Len(itemStack) = Len(OpenItems(at))
  BY StackReady
<1> DEFINE f == Flush(Last(itemStack)).item
<1>2. at \in 1..Len(Events) /\ Events[at].kind = "end_item" /\ phase = "parsing"
  BY <1>1 DEF EndItem, Handle, event, Events, Nested
<1>3. \E X : itemStack \in Seq(X)
  BY <1>1 DEF IsKeyedStack
<1>4. \A n \in 1..Len(itemStack) : IsKeyed(itemStack[n])
  BY <1>1 DEF IsKeyedStack
<1>5. Leads(itemStack, at)
  BY DEF Led
<1>6. \A t \in Items : EndOf(t) = at => Settled(f, t)
  BY <1>1, <1>2, <1>3, <1>4, <1>5, LeadsEnd
<1>10. \A t \in Items : EndOf(t) = at => Finds(t, f)
  BY <1>1, <1>2, <1>3, <1>4, <1>5, ScansEnd DEF OpenScanned, Outlined
<1> HIDE DEF f
<1>7. \A c \in DOMAIN config.statuses.symbols : config.statuses.symbols[c].symbol = c
  BY <1>2 DEF Configured, IsTable
<1>8. config.tag_filters = Winning("tag_filters") /\ \A c : ResolveStatus(config.statuses, c) = StatusOf(c)
  BY <1>2, ConfiguredAsWritten
<1>9. ASSUME NEW t \in Items, EndOf(t) = at PROVE Classed(t, ListItem(f))
  BY <1>6, <1>7, <1>8, <1>9, <1>10, FinishClasses DEF ListItem
<1> QED
  BY <1>9 DEF f

-----------------------------------------------------------------------------
(* The steps of the parser *)

LEMMA EndItemStep ==
  ASSUME Outlined, Led, OpenScanned, Configured, EndItem
  PROVE  \E rec : Stacks(listStack', itemStack', lists', at', rec)
<1>1. Nested
  BY InputNests DEF Outlined
<1>2. PICK rec : Stacks(listStack, itemStack, lists, at, rec)
  BY DEF Outlined
<1>3. IsKeyedStack(itemStack)
  BY <1>2, StackKeyed
<1> DEFINE f == Flush(Last(itemStack)).item
           child == ListItem(f)
<1>4. /\ at \in 1..Len(Events) /\ Events[at].kind = "end_item" /\ at' = at + 1
      /\ listStack' = listStack
      /\ Attach(child, f.descendants, f.incomplete)
  BY <1>1 DEF EndItem, PopItem, Handle, event, Events, Nested
<1>5. itemStack # <<>>
  <2>1. Around("start_item", at) # {}
    BY <1>1, <1>4, AroundEnd DEF Closing
  <2>2. IsAscending(OpenItems(at), Around("start_item", at))
    BY <1>1, AroundOrder DEF OpenItems
  <2>3. Len(OpenItems(at)) # 0
    BY ONLY <2>1, <2>2, LastIsMax
  <2> QED  BY <1>2, <2>3 DEF Stacks
<1>6. SameCore(f, Last(itemStack))
  BY <1>3, <1>5, LastKeyed, FlushKeeps
<1> HIDE DEF f
<1>7. /\ Placed(child) = Placed(f)
      /\ child.type.kind = "task" => child.type.fully_complete = ~f.incomplete
  BY FinishTells DEF ListItem
<1>10. \A x \in Items : EndOf(x) = at => Classed(x, child)
  BY EndItemClasses DEF f, child
<1> HIDE DEF child
<1>8. /\ Len(itemStack) > 1 =>
           /\ itemStack' = Append(Front(Front(itemStack)),
                             ObserveChild(Last(Front(itemStack)), child, f.descendants, f.incomplete))
           /\ lists' = lists
      /\ ~(Len(itemStack) > 1) =>
           itemStack' = <<>> /\ lists' = (lists \o <<child>>) \o f.descendants
  BY <1>4 DEF Attach
<1>9. \E rec2 : Stacks(listStack, itemStack', lists', at + 1, rec2)
  BY <1>1, <1>2, <1>4, <1>6, <1>7, <1>8, <1>10, EndItemKeeps
<1> QED
  BY <1>4, <1>9

LEMMA StartsOutlined == Init => Outlined
<1> SUFFICES ASSUME Init PROVE Outlined
  OBVIOUS
<1>1. Nested
  BY InputNests DEF Init
<1>2. OpenLists(1) = InOrder({}) /\ OpenItems(1) = InOrder({}) /\ Len(InOrder({})) = 0
  BY <1>1, NothingOpen DEF OpenLists, OpenItems
<1>3. Records(<<>>, Ended(0, 1)) = <<>>
  <2>1. \A rec : Records(rec, {}) = <<>>
    BY <1>2 DEF Records
  <2>2. Ended(0, 1) = {}
    BY <1>1, NothingOpen
  <2> QED  BY <2>1, <2>2
<1>4. \A t \in Items : ~(EndOf(t) < 1)
  BY <1>1, StartsAre DEF Items
<1>5. listStack = <<>> /\ itemStack = <<>> /\ lists = <<>> /\ at = 1 /\ phase = "starting" /\ input \in Inputs
  BY DEF Init
<1>6. Stacks(<<>>, <<>>, <<>>, 1, <<>>)
  BY <1>2, <1>3, <1>4 DEF Stacks
<1>7. at \in 1..(Len(Events) + 1)
  BY <1>1, <1>5 DEF Nested
<1> QED
  BY <1>5, <1>6, <1>7 DEF Outlined

LEMMA StartsLed == Init => Led
<1> SUFFICES ASSUME Init PROVE Led
  OBVIOUS
<1>1. Nested
  BY InputNests DEF Init
<1>2. OpenItems(1) = InOrder({}) /\ Len(InOrder({})) = 0
  BY <1>1, NothingOpen DEF OpenItems
<1>3. at = 1
  BY DEF Init
<1> QED
  BY <1>2, <1>3 DEF Led, Leads

LEMMA StaysLed == Outlined /\ Led /\ [Next]_vars => Led'
<1> SUFFICES ASSUME Outlined, Led, [Next]_vars PROVE Led'
  OBVIOUS
<1>1. Nested /\ IsKeyedStack(itemStack) /\ Len(itemStack) = Len(OpenItems(at))
  BY StackReady
<1>2. CASE Configure \/ IntoNote \/ UNCHANGED vars
  <2>1. input' = input /\ at' = at /\ itemStack' = itemStack
    BY <1>2 DEF Configure, IntoNote, vars, parts
  <2>2. Leads(itemStack', at')
    BY <2>1 DEF Led
  <2> QED  BY <2>1, <2>2, LedNext
<1>3. ASSUME NEW kind, Handle(kind)
      PROVE  /\ at \in 1..Len(Events) /\ Events[at].kind = kind /\ at' = at + 1 /\ input' = input
  BY <1>1, <1>3 DEF Handle, event, Events, Nested
<1>4. ASSUME NEW kind, Handle(kind), kind # "start_item", kind # "end_item",
             Turned(itemStack', itemStack, Events[at])
      PROVE  Led'
  <2>1. /\ at \in 1..Len(Events) /\ Events[at].kind = kind /\ at' = at + 1 /\ input' = input
    BY <1>3, <1>4
  <2>2. OpenItems(at + 1) = OpenItems(at)
    BY <1>1, <1>4, <2>1, NoItemOpens
  <2>3. Leads(itemStack, at)
    BY DEF Led
  <2>4. Leads(itemStack', at + 1)
    BY <1>1, <1>4, <2>1, <2>2, <2>3, LeadsTurn
  <2> QED  BY <2>1, <2>4, LedNext
<1>5. CASE StartMetadata \/ EndMetadata \/ PushYaml \/ EndCodeBlock \/ EndList
  BY <1>4, <1>5, IdleLed DEF StartMetadata, EndMetadata, PushYaml, EndCodeBlock, EndList
<1>6. CASE StartTextBlock \/ EndTextBlock \/ StartCodeBlock \/ StartQuote \/ StartList
  BY <1>4, <1>6, TextLed DEF StartTextBlock, EndTextBlock, StartCodeBlock, StartQuote, StartList
<1>7. CASE PushText \/ HandleCode \/ PushBreak \/ PushFootnote \/ Barrier \/ OtherEvent
  BY <1>4, <1>7, InlineLed DEF PushText, HandleCode, PushBreak, PushFootnote, Barrier, OtherEvent
<1>8. CASE StartLink \/ EndLink
  BY <1>4, <1>8, LinkLed DEF StartLink, EndLink
<1>9. CASE StartItem
  <2> DEFINE f == NewFrame(event.line)
  <2>1. /\ at \in 1..Len(Events) /\ Events[at].kind = "start_item" /\ at' = at + 1 /\ input' = input
        /\ itemStack' = Append(itemStack, f)
    BY <1>3, <1>9 DEF StartItem
  <2>2. f.marker = NewMarker /\ f.text = <<>>
    BY DEF NewFrame, Frame
  <2> HIDE DEF f
  <2>3. Leads(itemStack, at) /\ (\E X : itemStack \in Seq(X)) /\ \A n \in 1..Len(itemStack) : IsKeyed(itemStack[n])
    BY <1>1 DEF Led, IsKeyedStack
  <2>4. Leads(itemStack', at + 1)
    BY <1>1, <2>1, <2>2, <2>3, LeadsStart
  <2> QED  BY <2>1, <2>4, LedNext
<1>10. CASE EndItem
  <2>1. at' = at + 1 /\ input' = input
    BY <1>3, <1>10 DEF EndItem
  <2> QED  BY <1>10, <2>1, EndItemLed, LedNext
<1> QED
  BY <1>2, <1>5, <1>6, <1>7, <1>8, <1>9, <1>10 DEF Next

LEMMA StaysOutlined == Outlined /\ Led /\ Kept /\ Configured /\ [Next]_vars => Outlined'
<1> SUFFICES ASSUME Outlined, Led, Kept, Configured, [Next]_vars PROVE Outlined'
  OBVIOUS
<1>1. Nested
  BY InputNests DEF Outlined
<1>2. CASE Configure
  <2>1. /\ input' = input /\ at' = at /\ listStack' = listStack /\ itemStack' = itemStack
        /\ lists' = lists /\ phase' # "done"
    BY <1>2 DEF Configure, parts
  <2>2. \E rec : Stacks(listStack', itemStack', lists', at', rec)
    BY <2>1 DEF Outlined
  <2>3. \E rec : Stacks(listStack, itemStack, lists, at, rec)'
    BY <2>1, <2>2, StacksNext
  <2> QED  BY <2>1, <2>3, PlaceStays DEF Outlined
<1>3. CASE IntoNote
  <2>1. /\ input' = input /\ at' = at /\ listStack' = listStack /\ itemStack' = itemStack
        /\ lists' = lists /\ at = Len(Events) + 1 /\ note'.lists = lists
    BY <1>3 DEF IntoNote, parts, Events
  <2>2. \E rec : Stacks(listStack', itemStack', lists', at', rec)
    BY <2>1 DEF Outlined
  <2>3. \E rec : Stacks(listStack, itemStack, lists, at, rec)'
    BY <2>1, <2>2, StacksNext
  <2> QED  BY <2>1, <2>3, PlaceStays DEF Outlined
<1>4. CASE UNCHANGED vars
  <2>1. /\ input' = input /\ at' = at /\ listStack' = listStack /\ itemStack' = itemStack
        /\ lists' = lists /\ note' = note /\ phase' = phase
    BY <1>4 DEF vars, parts
  <2>2. \E rec : Stacks(listStack', itemStack', lists', at', rec)
    BY <2>1 DEF Outlined
  <2>3. \E rec : Stacks(listStack, itemStack, lists, at, rec)'
    BY <2>1, <2>2, StacksNext
  <2> QED  BY <2>1, <2>3, PlaceStays DEF Outlined
<1>5. ASSUME NEW kind, Handle(kind),
             \E rec : Stacks(listStack', itemStack', lists', at', rec)
      PROVE  Outlined'
  <2>1. /\ input' = input /\ at' = at + 1 /\ at \in 1..Len(Events) /\ phase' # "done"
    BY <1>1, <1>5 DEF Handle, Events, Nested
  <2>2. \E rec : Stacks(listStack, itemStack, lists, at, rec)'
    BY <1>5, <2>1, StacksNext
  <2>3. at' \in 1..(Len(Events) + 1) /\ Events' = Events
    BY <1>1, <2>1, PlaceStays DEF Nested
  <2> QED  BY <2>1, <2>2, <2>3 DEF Outlined
<1>6. ASSUME QuietStep, NEW kind, Handle(kind) PROVE Outlined'
  BY <1>5, <1>6, QuietStepKeeps
<1>7. CASE StartMetadata \/ EndMetadata \/ PushYaml \/ EndCodeBlock
  BY <1>6, <1>7, IdleQuiet DEF StartMetadata, EndMetadata, PushYaml, EndCodeBlock
<1>8. CASE StartTextBlock \/ EndTextBlock \/ StartCodeBlock \/ StartQuote
  BY <1>6, <1>8, TextQuiet DEF StartTextBlock, EndTextBlock, StartCodeBlock, StartQuote
<1>9. CASE PushText \/ HandleCode \/ PushBreak \/ PushFootnote \/ Barrier \/ OtherEvent
  BY <1>6, <1>9, InlineQuiet DEF PushText, HandleCode, PushBreak, PushFootnote, Barrier, OtherEvent
<1>10. CASE StartLink \/ EndLink
  BY <1>6, <1>10, LinkQuiet DEF StartLink, EndLink
<1>11. CASE StartList \/ EndList
  BY <1>5, <1>11, ListSteps DEF StartList, EndList
<1>12. CASE StartItem
  BY <1>5, <1>12, StartItemStep DEF StartItem
<1>13. CASE EndItem
  BY <1>5, <1>13, EndItemStep DEF EndItem, Kept
<1> QED
  BY <1>2, <1>3, <1>4, <1>7, <1>8, <1>9, <1>10, <1>11, <1>12, <1>13 DEF Next

\* At every event the stacks hold the lists and the items that are open there,
\* each with its place, and what has ended, in the order written, with whether
\* a task of it is incomplete (ListTracker); what an open item has read of its
\* line is in its marker or its text (MarkerAccumulator); and what is not yet
\* scanned of an item or a block is in its scan or the body, what was scanned is
\* with the item and the note, and the metadata block has its entries
\* (flush_scan_buffer, NoteParser::handle_event).
THEOREM OutlineInductive == Spec => [](Outlined /\ Led /\ Kept)
BY StartsOutlined, StartsLed, StartsKept, StartsConfigured,
   StaysOutlined, StaysLed, StaysKept, StaysConfigured, PTL DEF Spec

-----------------------------------------------------------------------------
(* The outline of a note *)

LEMMA AllEnded ==
  ASSUME Outlined, Finished
  PROVE  /\ Nested /\ DOMAIN Starts = 1..Len(Starts) /\ IsAscending(Starts, Items)
         /\ \E rec : /\ note.lists = [n \in 1..Len(Starts) |-> rec[Starts[n]]]
                     /\ \A t \in Items : Told(t, rec)
<1>1. Nested
  BY InputNests DEF Outlined
<1> DEFINE L == Len(Events) + 1
<1>2. PICK rec : Stacks(listStack, itemStack, lists, L, rec)
  BY DEF Outlined, Finished
<1>3. note.lists = lists
  BY DEF Outlined, Finished
<1>4. \A t \in Items : EndOf(t) < L /\ 0 < t
  BY <1>1, StartsAre DEF Items, Nested
<1>5. Around("start_item", L) = {}
  <2>1. \A j : j \notin Around("start_item", L)
    BY <1>1, AroundIs, StartsAre DEF Nested
  <2> QED  BY <2>1
<1> HIDE DEF L
<1>6. Ended(0, L) = Items
  BY <1>4, <1>5 DEF Ended
<1>7. Starts = InOrder(Items)
  BY DEF Starts, Items
<1>8. IsAscending(Starts, Items)
  BY <1>1, <1>6, <1>7, BelowOrder
<1>9. DOMAIN Starts = 1..Len(Starts)
  BY <1>8 DEF IsAscending
<1>10. note.lists = [n \in 1..Len(Starts) |-> rec[Starts[n]]]
  BY <1>2, <1>3, <1>6, <1>7 DEF Stacks, Records
<1>11. \A t \in Items : Told(t, rec)
  BY <1>2, <1>4 DEF Stacks
<1> QED
  BY <1>1, <1>8, <1>9, <1>10, <1>11

\* A task is fully complete just when every task below it is complete, however
\* deep it lies and whatever is between (SubTaskCompletion).
THEOREM CompletionIsExact == Spec => []CompletionExact
<1>1. Outlined => CompletionExact
  <2> SUFFICES ASSUME Outlined, Finished, NEW n \in DOMAIN Starts, note.lists[n].type.kind = "task"
               PROVE  note.lists[n].type.fully_complete =
                        \A m \in DOMAIN Starts :
                          /\ Starts[n] < Starts[m] /\ Starts[m] < EndOf(Starts[n])
                          /\ note.lists[m].type.kind = "task"
                          => IsComplete(note.lists[m].type.status.kind)
    BY DEF CompletionExact
  <2>1. DOMAIN Starts = 1..Len(Starts) /\ IsAscending(Starts, Items)
    BY AllEnded
  <2>2. PICK rec : /\ note.lists = [m \in 1..Len(Starts) |-> rec[Starts[m]]]
                   /\ \A t \in Items : Told(t, rec)
    BY AllEnded
  <2>3. \A m \in DOMAIN Starts : note.lists[m] = rec[Starts[m]] /\ Starts[m] \in Items
    BY <2>1, <2>2 DEF IsAscending
  <2>4. Told(Starts[n], rec)
    BY <2>2, <2>3
  <2>5. /\ note.lists[n].type.fully_complete \in BOOLEAN
        /\ note.lists[n].type.fully_complete <=> \A u \in Inside(Starts[n]) : ~Incomplete(rec[u])
    BY <2>3, <2>4 DEF Told
  <2>6. \A u : u \in Inside(Starts[n]) <=>
                 \E m \in DOMAIN Starts : u = Starts[m] /\ Starts[n] < u /\ u < EndOf(Starts[n])
    BY <2>1, <2>3 DEF Inside, IsAscending
  <2>7. (\A u \in Inside(Starts[n]) : ~Incomplete(rec[u])) <=>
          \A m \in DOMAIN Starts :
            Starts[n] < Starts[m] /\ Starts[m] < EndOf(Starts[n]) => ~Incomplete(note.lists[m])
    BY <2>3, <2>6
  <2> QED  BY <2>5, <2>7 DEF Incomplete
<1> QED
  BY <1>1, OutlineInductive, PTL

LEMMA MinOfTwo ==
  ASSUME NEW a \in Int, NEW b \in Int
  PROVE  Min({a, b}) = IF a <= b THEN a ELSE b
<1> DEFINE m == IF a <= b THEN a ELSE b
<1>1. m \in {a, b} /\ \A y \in {a, b} : m <= y
  OBVIOUS
<1>2. \A x \in {a, b} : (\A y \in {a, b} : x <= y) => x = m
  OBVIOUS
<1> HIDE DEF m
<1>3. Min({a, b}) = m
  BY <1>1, <1>2 DEF Min
<1> QED
  BY <1>3 DEF m

\* An item in another is in more lists.
LEMMA DeeperInside ==
  ASSUME Nested, NEW s \in Items, NEW x \in Inside(s)
  PROVE  Cardinality(Around("start_list", s)) < Cardinality(Around("start_list", x))
<1> DEFINE A == Around("start_item", s)
           B == Around("start_item", x)
<1>1. x \in Items /\ s < x /\ x < EndOf(s)
  BY DEF Inside
<1>2. s \in B /\ s \notin A
  <2>1. s \in Positions("start_item") /\ x \in Nat /\ s \in Nat /\ EndOf(s) \in Nat
    BY <1>1, StartsAre DEF Items
  <2> QED  BY <1>1, <2>1, AroundIs
<1>3. \A j \in A : j \in B
  <2> TAKE j \in A
  <2>1. j \in Items /\ j < s /\ s <= EndOf(j)
    BY AroundIs DEF Items
  <2>2. j \in Nat /\ s \in Nat /\ x \in Nat /\ EndOf(j) \in Nat /\ EndOf(s) \in Nat
        /\ Events[EndOf(j)].kind # "start_item" /\ Events[s].kind = "start_item"
    BY <1>1, <2>1, StartsAre DEF Items, Closing
  <2>3. s < EndOf(j)
    BY <2>1, <2>2
  <2>4. EndOf(s) < EndOf(j)
    BY <2>1, <2>3, StartsAre DEF Items
  <2>5. j < x /\ x <= EndOf(j)
    BY <1>1, <2>1, <2>2, <2>4
  <2> QED  BY <2>1, <2>5, AroundIs DEF Items
<1>4. IsFiniteSet(A) /\ IsFiniteSet(B)
  BY AroundOrder
<1> DEFINE C == A \cup {s}
<1>5. C \in SUBSET B
  BY <1>2, <1>3
<1>6. IsFiniteSet(C) /\ Cardinality(C) = Cardinality(A) + 1
  <2>1. s \notin A
    BY <1>2
  <2> HIDE DEF A
  <2> QED  BY <1>4, <2>1, FS_AddElement
<1>7. Cardinality(A) \in Nat /\ Cardinality(B) \in Nat
  BY <1>4, FS_CardinalityType
<1>8. Cardinality(C) <= Cardinality(B)
  <2> HIDE DEF A, B, C
  <2> QED  BY <1>4, <1>5, FS_Subset
<1>9. /\ Cardinality(Around("start_list", s)) = Cardinality(A) + 1
      /\ Cardinality(Around("start_list", x)) = Cardinality(B) + 1
  BY <1>1 DEF Items, Nested
<1> HIDE DEF A, B, C
<1> QED
  BY <1>6, <1>7, <1>8, <1>9

\* The first item after another's end is in no more lists than that one.
LEMMA NotDeeperAfter ==
  ASSUME Nested, NEW s \in Items, NEW x \in Items, EndOf(s) < x, \A y \in Items : EndOf(s) < y => x <= y
  PROVE  Cardinality(Around("start_list", x)) <= Cardinality(Around("start_list", s))
<1> DEFINE A == Around("start_item", s)
           B == Around("start_item", x)
<1>1. \A j \in B : j \in A
  <2> TAKE j \in B
  <2>1. j \in Items /\ j < x /\ x <= EndOf(j)
    BY AroundIs DEF Items
  <2>2. j \in Nat /\ s \in Nat /\ x \in Nat /\ EndOf(j) \in Nat /\ EndOf(s) \in Nat /\ s < EndOf(s)
        /\ Events[EndOf(s)].kind # "start_item" /\ Events[j].kind = "start_item"
    BY <2>1, StartsAre DEF Items, Closing
  <2>3. j # s
    BY <2>1, <2>2
  <2>4. ~(EndOf(s) < j)
    BY <2>1, <2>2
  <2>5. ~(s < j)
    <3>1. j # EndOf(s)
      BY <2>2
    <3>2. s < j => j < EndOf(s)
      BY <2>2, <2>4, <3>1
    <3>3. s < j /\ j < EndOf(s) => EndOf(j) < EndOf(s)
      BY <2>1, StartsAre DEF Items
    <3> QED  BY <2>1, <2>2, <3>2, <3>3
  <2>6. j < s /\ s <= EndOf(j)
    BY <2>1, <2>2, <2>3, <2>5
  <2> QED  BY <2>1, <2>6, AroundIs DEF Items
<1>2. IsFiniteSet(A) /\ IsFiniteSet(B)
  BY AroundOrder
<1>3. B \in SUBSET A
  BY <1>1
<1>4. Cardinality(A) \in Nat /\ Cardinality(B) \in Nat
  BY <1>2, FS_CardinalityType
<1>5. Cardinality(B) <= Cardinality(A)
  <2> HIDE DEF A, B
  <2> QED  BY <1>2, <1>3, FS_Subset
<1>6. /\ Cardinality(Around("start_list", s)) = Cardinality(A) + 1
      /\ Cardinality(Around("start_list", x)) = Cardinality(B) + 1
  BY DEF Items, Nested
<1> HIDE DEF A, B
<1> QED
  BY <1>4, <1>5, <1>6

\* The items in one follow it, up to some e, and then comes the first after it.
Extends(q, n, e) ==
  /\ e \in n..Len(q)
  /\ \A m \in 1..Len(q) : q[m] \in Inside(q[n]) <=> n < m /\ m <= e
  /\ e < Len(q) => /\ EndOf(q[n]) < q[e + 1]
                   /\ \A y \in Items : EndOf(q[n]) < y => q[e + 1] <= y

LEMMA InsideFollows ==
  ASSUME Nested, NEW q, IsAscending(q, Items), NEW n \in 1..Len(q)
  PROVE  \E e : Extends(q, n, e)
<1> DEFINE z == EndOf(q[n])
           T == {m \in 1..Len(q) : z < q[m]}
<1>1. /\ Len(q) \in Nat /\ \A m \in 1..Len(q) : q[m] \in Items /\ q[m] \in Nat
      /\ \A j \in Items : \E m \in 1..Len(q) : q[m] = j
      /\ \A m, k \in 1..Len(q) : m < k => q[m] < q[k]
  BY DEF IsAscending
<1>2. z \in Nat /\ q[n] < z /\ \A m \in 1..Len(q) : q[m] # z
  <2>1. z \in Nat /\ q[n] < z /\ Events[z].kind # "start_item"
    BY <1>1, StartsAre DEF Items, Closing
  <2>2. \A m \in 1..Len(q) : Events[q[m]].kind = "start_item"
    BY <1>1, StartsAre DEF Items
  <2> QED  BY <2>1, <2>2
<1>3. \A m \in 1..Len(q) : q[m] \in Inside(q[n]) <=> q[n] < q[m] /\ q[m] < z
  BY <1>1 DEF Inside
<1>4. \A m \in 1..Len(q) : q[n] < q[m] <=> n < m
  <2> TAKE m \in 1..Len(q)
  <2>1. m < n \/ n < m \/ m = n
    BY <1>1
  <2> QED  BY <1>1, <2>1
<1> HIDE DEF z
<1>5. CASE T = {}
  <2>1. \A m \in 1..Len(q) : q[m] < z
    <3> TAKE m \in 1..Len(q)
    <3>1. ~(z < q[m])
      BY <1>5
    <3>2. q[m] \in Nat /\ q[m] # z /\ z \in Nat
      BY <1>1, <1>2
    <3> QED  BY ONLY <3>1, <3>2
  <2>2. \A m \in 1..Len(q) : q[m] \in Inside(q[n]) <=> n < m /\ m <= Len(q)
    BY <1>1, <1>3, <1>4, <2>1
  <2>3. Extends(q, n, Len(q))
    BY <1>1, <2>2 DEF Extends
  <2> QED  BY <2>3
<1>6. CASE T # {}
  <2>1. PICK k \in T : \A y \in T : k <= y
    <3>1. T \subseteq Nat
      OBVIOUS
    <3> HIDE DEF T
    <3> QED  BY <1>6, <3>1, LeastNatural
  <2>2. k \in 1..Len(q) /\ z < q[k] /\ n < k /\ k - 1 \in n..Len(q)
    <3>1. k \in 1..Len(q) /\ z < q[k]
      OBVIOUS
    <3>2. q[n] < q[k]
      BY <1>1, <1>2, <3>1
    <3> QED  BY <1>1, <1>4, <3>1, <3>2
  <2>3. \A m \in 1..Len(q) : q[m] < z <=> m <= k - 1
    <3> TAKE m \in 1..Len(q)
    <3>1. m <= k - 1 => q[m] < z
      <4> SUFFICES ASSUME m <= k - 1 PROVE q[m] < z
        OBVIOUS
      <4>1. ~(k <= m)
        BY <2>2
      <4>2. ~(z < q[m])
        BY <2>1, <4>1
      <4> QED  BY <1>1, <1>2, <4>2
    <3>2. ~(m <= k - 1) => ~(q[m] < z)
      <4>1. ~(m <= k - 1) => m = k \/ k < m
        BY <2>2
      <4>2. k < m => q[k] < q[m]
        BY <1>1, <2>2
      <4> QED  BY <1>1, <1>2, <2>2, <4>1, <4>2
    <3> QED  BY <3>1, <3>2
  <2>4. \A m \in 1..Len(q) : q[m] \in Inside(q[n]) <=> n < m /\ m <= k - 1
    BY <1>3, <1>4, <2>3
  <2>5. ASSUME NEW y \in Items, z < y PROVE q[k] <= y
    <3>1. PICK m \in 1..Len(q) : q[m] = y
      BY <1>1
    <3>2. m \in T
      BY <2>5, <3>1
    <3>3. k < m \/ k = m
      BY <2>1, <2>2, <3>2
    <3>4. k < m => q[k] < q[m]
      BY <1>1, <2>2
    <3> QED  BY <1>1, <2>2, <3>1, <3>3, <3>4
  <2>6. k - 1 + 1 = k
    BY <2>2
  <2>7. Extends(q, n, k - 1)
    BY <2>2, <2>4, <2>5, <2>6 DEF Extends, z
  <2> QED  BY <2>7
<1> QED
  BY <1>5, <1>6

LEMMA InsideSize ==
  ASSUME Nested, NEW q, IsAscending(q, Items), NEW n \in 1..Len(q), NEW e, Extends(q, n, e)
  PROVE  Cardinality(Inside(q[n])) = e - n
<1> DEFINE I == Inside(q[n])
           k == e - n
           f == [m \in 1..k |-> q[n + m]]
<1>1. /\ Len(q) \in Nat
      /\ \A j \in Items : \E m \in 1..Len(q) : q[m] = j
      /\ \A m, j \in 1..Len(q) : m < j => q[m] < q[j]
      /\ \A m \in 1..Len(q) : q[m] \in Nat
  BY DEF IsAscending
<1>2. e \in n..Len(q) /\ \A m \in 1..Len(q) : q[m] \in I <=> n < m /\ m <= e
  BY DEF Extends
<1>3. I \subseteq Items
  BY DEF Inside
<1> HIDE DEF I
<1>4. k \in Nat /\ e = n + k /\ n \in Nat /\ e \in Nat
  BY <1>1, <1>2
<1> HIDE DEF k
<1>5. \A m \in 1..k : n + m \in 1..Len(q) /\ n < n + m /\ n + m <= e
  BY <1>1, <1>2, <1>4
<1>6. f \in [1..k -> I]
  BY <1>2, <1>5
<1>7. \A m, j \in 1..k : f[m] = f[j] => m = j
  <2> TAKE m, j \in 1..k
  <2>1. m < j \/ j < m \/ m = j
    BY <1>4
  <2>2. m < j => q[n + m] < q[n + j]
    <3>1. n + m \in 1..Len(q) /\ n + j \in 1..Len(q)
      BY <1>5
    <3>2. m < j => n + m < n + j
      BY <1>4
    <3> QED  BY <1>1, <3>1, <3>2
  <2>3. j < m => q[n + j] < q[n + m]
    <3>1. n + j \in 1..Len(q) /\ n + m \in 1..Len(q)
      BY <1>5
    <3>2. j < m => n + j < n + m
      BY <1>4
    <3> QED  BY <1>1, <3>1, <3>2
  <2> QED  BY <1>1, <1>5, <2>1, <2>2, <2>3
<1>8. \A u \in I : \E m \in 1..k : f[m] = u
  <2> TAKE u \in I
  <2>1. PICK m \in 1..Len(q) : q[m] = u
    BY <1>1, <1>3
  <2>2. m - n \in 1..k /\ n + (m - n) = m
    BY <1>1, <1>2, <1>4, <2>1
  <2> QED  BY <2>1, <2>2
<1> HIDE DEF f
<1>9. ExistsBijection(1..k, I)
  BY <1>6, <1>7, <1>8 DEF ExistsBijection, Bijection, Injection, Surjection, IsInjective
<1>10. IsFiniteSet(1..k) /\ Cardinality(1..k) = k
  BY <1>4, FS_Interval
<1> QED
  BY <1>9, <1>10, FS_Bijection DEF I, k

\* The descendants of an item are those up to the first that is not deeper.
LEMMA DescendantsAre ==
  ASSUME NEW X, NEW items \in Seq(X), NEW d, NEW c \in 0..Len(items),
         \A i \in 1..c : ~(items[i].depth <= d),
         c < Len(items) => items[c + 1].depth <= d
  PROVE  Len(DescendantsOf(items, d)) = c
<1> DEFINE I == {i \in 1..Len(items) : items[i].depth <= d}
           end == IF I # {} THEN Min(I) ELSE 0
<1>1. DescendantsOf(items, d) = IF end = 0 THEN items ELSE SubSeq(items, 1, end - 1)
  BY DEF DescendantsOf, SelectInSeq
<1>2. Len(items) \in Nat /\ c \in Nat
  OBVIOUS
<1>3. CASE c = Len(items)
  <2>1. I = {}
    BY <1>3
  <2> QED  BY <1>1, <1>3, <2>1
<1>4. CASE c < Len(items)
  <2>1. c + 1 \in I /\ \A i \in I : c + 1 <= i
    <3>1. c + 1 \in I
      BY <1>2, <1>4
    <3>2. \A i \in I : ~(i \in 1..c) /\ i \in Nat /\ 1 <= i
      OBVIOUS
    <3>3. \A i \in I : c + 1 <= i
      BY <1>2, <3>2
    <3> QED  BY <3>1, <3>3
  <2>2. \A x \in I : x \in Nat
    OBVIOUS
  <2> HIDE DEF I
  <2>3. \A x \in I : (\A y \in I : x <= y) => x = c + 1
    BY <1>2, <2>1, <2>2
  <2>4. Min(I) = c + 1
    BY <2>1, <2>3 DEF Min
  <2>5. end = c + 1
    BY <2>1, <2>4
  <2> HIDE DEF end
  <2>6. DescendantsOf(items, d) = SubSeq(items, 1, c)
    BY <1>1, <1>2, <2>5
  <2> QED  BY <1>2, <1>4, <2>6
<1> QED
  BY <1>2, <1>3, <1>4

LEMMA RestIs ==
  ASSUME NEW X, NEW a \in Seq(X), NEW n \in 1..Len(a)
  PROVE  /\ SubSeq(a, n + 1, Len(a)) \in Seq(X) /\ Len(SubSeq(a, n + 1, Len(a))) = Len(a) - n
         /\ \A i \in 1..(Len(a) - n) : SubSeq(a, n + 1, Len(a))[i] = a[n + i]
OBVIOUS

\* Recorded depths compare as the nesting of lists does, below the deepest.
LEMMA DepthsCompare ==
  ASSUME Nested, NEW s \in Items
  PROVE  /\ \A x \in Inside(s) : Place(s).depth < MaxDepth => ~(Place(x).depth <= Place(s).depth)
         /\ \A x \in Items : EndOf(s) < x /\ (\A y \in Items : EndOf(s) < y => x <= y) =>
              (Place(s).depth < MaxDepth => Place(x).depth <= Place(s).depth)
<1> DEFINE C(x) == Cardinality(Around("start_list", x))
<1>1. \A x : C(x) \in Nat
  BY AroundOrder, FS_CardinalityType
<1>2. \A x \in Inside(s) : C(s) < C(x)
  BY DeeperInside
<1>3. \A x \in Items : EndOf(s) < x /\ (\A y \in Items : EndOf(s) < y => x <= y) => C(x) <= C(s)
  BY NotDeeperAfter
<1>4. \A x : Place(x).depth = Min({MaxDepth, C(x) - 1})
  BY DEF Place
<1> HIDE DEF C
<1>5. \A x : Place(x).depth = IF MaxDepth <= C(x) - 1 THEN MaxDepth ELSE C(x) - 1
  <2> TAKE x
  <2>1. MaxDepth \in Int /\ C(x) - 1 \in Int
    BY <1>1, MaxDepthAssumption
  <2>2. Min({MaxDepth, C(x) - 1}) = IF MaxDepth <= C(x) - 1 THEN MaxDepth ELSE C(x) - 1
    BY ONLY <2>1, MinOfTwo
  <2> QED  BY <1>4, <2>2
<1>6. MaxDepth \in Nat
  BY MaxDepthAssumption
<1> QED
  BY <1>1, <1>2, <1>3, <1>5, <1>6

\* The lists of a note are its outline: every item once, in the order written,
\* each in its place, and the items in it are its descendants (ListTracker).
THEOREM OutlinesAreKept == Spec => []OutlineAsWritten
<1>1. Outlined => OutlineAsWritten
  <2> SUFFICES ASSUME Outlined, Finished
               PROVE  /\ Len(note.lists) = Len(Starts)
                      /\ \A n \in DOMAIN Starts :
                           LET s == Starts[n]
                               item == note.lists[n]
                               below == DescendantsOf(SubSeq(note.lists, n + 1, Len(note.lists)), item.depth)
                           IN /\ Place(s) = [line |-> item.line, depth |-> item.depth,
                                             parent |-> item.parent, ordered |-> item.ordered]
                              /\ item.depth < MaxDepth => Len(below) = Cardinality(Inside(s))
    BY DEF OutlineAsWritten, Inside, Items
  <2>1. Nested /\ DOMAIN Starts = 1..Len(Starts) /\ IsAscending(Starts, Items)
    BY AllEnded
  <2>2. PICK rec : /\ note.lists = [m \in 1..Len(Starts) |-> rec[Starts[m]]]
                   /\ \A t \in Items : Told(t, rec)
    BY AllEnded
  <2> DEFINE N == Len(Starts)
             all == note.lists
             X == {rec[t] : t \in Items}
  <2>3. N \in Nat /\ \A m \in 1..N : Starts[m] \in Items /\ all[m] = rec[Starts[m]]
    BY <2>1, <2>2 DEF IsAscending
  <2>4. all \in Seq(X) /\ Len(all) = N
    <3>1. \A m \in 1..N : rec[Starts[m]] \in X
      BY <2>3
    <3> HIDE DEF X
    <3> QED  BY <2>2, <2>3, <3>1
  <2>5. \A m \in 1..N : Placed(all[m]) = Place(Starts[m]) /\ all[m].depth = Place(Starts[m]).depth
    <3> TAKE m \in 1..N
    <3>1. Placed(all[m]) = Place(Starts[m])
      BY <2>2, <2>3 DEF Told
    <3>2. Placed(all[m]).depth = all[m].depth
      BY DEF Placed
    <3> QED  BY <3>1, <3>2
  <2>6. ASSUME NEW n \in 1..N, all[n].depth < MaxDepth
        PROVE  Len(DescendantsOf(SubSeq(all, n + 1, Len(all)), all[n].depth)) = Cardinality(Inside(Starts[n]))
    <3> DEFINE s == Starts[n]
               items == SubSeq(all, n + 1, Len(all))
               d == all[n].depth
    <3>1. PICK e : Extends(Starts, n, e)
      BY <2>1, InsideFollows
    <3> DEFINE c == e - n
    <3>2. Cardinality(Inside(s)) = c
      BY <2>1, <3>1, InsideSize
    <3>3. /\ e \in n..N
          /\ \A m \in 1..N : Starts[m] \in Inside(s) <=> n < m /\ m <= e
          /\ e < N => /\ EndOf(s) < Starts[e + 1]
                      /\ \A y \in Items : EndOf(s) < y => Starts[e + 1] <= y
      BY <3>1 DEF Extends
    <3>4. s \in Items /\ d = Place(s).depth /\ d < MaxDepth
      BY <2>3, <2>5, <2>6
    <3>5. items \in Seq(X) /\ Len(items) = N - n /\ \A i \in 1..(N - n) : items[i] = all[n + i]
      <4> HIDE DEF all, X, N
      <4> QED  BY <2>4, <2>6, RestIs
    <3>6. \A x \in Inside(s) : ~(Place(x).depth <= d)
      BY <2>1, <3>4, DepthsCompare
    <3>7. c \in 0..(N - n) /\ n \in Nat /\ e \in Nat /\ e = n + c
      BY <2>3, <3>3
    <3>8. \A i \in 1..c : ~(items[i].depth <= d)
      <4> TAKE i \in 1..c
      <4>1. n + i \in 1..N /\ n < n + i /\ n + i <= e /\ i \in 1..(N - n)
        BY <2>3, <3>3, <3>7
      <4>2. Starts[n + i] \in Inside(s)
        BY <3>3, <4>1
      <4>3. items[i].depth = Place(Starts[n + i]).depth
        BY <2>5, <3>5, <4>1
      <4> QED  BY <3>6, <4>2, <4>3
    <3>9. c < N - n => items[c + 1].depth <= d
      <4> SUFFICES ASSUME c < N - n PROVE items[c + 1].depth <= d
        OBVIOUS
      <4>1. e < N /\ e + 1 \in 1..N /\ c + 1 \in 1..(N - n) /\ n + (c + 1) = e + 1
        BY <2>3, <3>3, <3>7
      <4>2. items[c + 1].depth = Place(Starts[e + 1]).depth
        BY <2>5, <3>5, <4>1
      <4>3. /\ Starts[e + 1] \in Items /\ EndOf(s) < Starts[e + 1]
            /\ \A y \in Items : EndOf(s) < y => Starts[e + 1] <= y
        BY <2>3, <3>3, <4>1
      <4>4. Place(Starts[e + 1]).depth <= d
        BY <2>1, <3>4, <4>3, DepthsCompare
      <4> QED  BY <4>2, <4>4
    <3> HIDE DEF items, c, d, s, all, X, N
    <3>10. c \in 0..Len(items) /\ (c < Len(items) => items[c + 1].depth <= d)
      BY <3>5, <3>7, <3>9
    <3>11. Len(DescendantsOf(items, d)) = c
      BY <3>5, <3>8, <3>10, DescendantsAre
    <3> QED  BY <3>2, <3>11 DEF items, d, s
  <2>7. \A n \in 1..N : Place(Starts[n]) = [line |-> all[n].line, depth |-> all[n].depth,
                                            parent |-> all[n].parent, ordered |-> all[n].ordered]
    BY <2>5 DEF Placed
  <2> QED  BY <2>1, <2>4, <2>6, <2>7
<1> QED
  BY <1>1, OutlineInductive, PTL

-----------------------------------------------------------------------------
(* The markers of a note *)

\* What comes after a text takes nothing from it.
LEMMA BeginsIsPrefix ==
  ASSUME NEW p \in Seq(Characters), NEW t, Begins(p, t)
  PROVE  IsPrefix(p, t)
<1>1. PICK r \in Seq(Characters) : t = p \o r
  BY DEF Begins
<1> DEFINE lp == Len(p)
           lr == Len(r)
           lt == Len(t)
<1>2. /\ t \in Seq(Characters) /\ lp \in Nat /\ lr \in Nat /\ lt = lp + lr
      /\ \A n \in 1..lp : t[n] = p[n]
  BY <1>1, ConcatIs
<1>3. p \in Seq(Characters) /\ lp = Len(p) /\ lt = Len(t)
  OBVIOUS
<1> HIDE DEF lp, lr, lt
<1>4. lp <= lt
  BY ONLY <1>2
<1>5. SubSeq(p, 1, lp) = p
  BY ONLY <1>2, <1>3
<1>6. SubSeq(t, 1, lp) = p
  <2> DEFINE u == SubSeq(t, 1, lp)
  <2>1. u \in Seq(Characters) /\ Len(u) = lp /\ \A n \in 1..lp : u[n] = t[n]
    BY ONLY <1>2, <1>3, <1>4
  <2> HIDE DEF u
  <2>2. \A n \in 1..lp : u[n] = p[n]
    BY ONLY <1>2, <2>1
  <2>3. u = p
    BY ONLY <1>2, <1>3, <2>1, <2>2, SameElements
  <2> QED  BY <2>3 DEF u
<1> QED
  BY <1>3, <1>4, <1>5, <1>6 DEF IsPrefix

\* A marked line gives a marked item, whichever way its events cut the line, and
\* its text goes on with what follows the marker (MarkerAccumulator).
THEOREM MarkersAreRead == Spec => []MarkersAsWritten
<1>1. Outlined => MarkersAsWritten
  <2> SUFFICES ASSUME Outlined, Finished, NEW n \in DOMAIN Starts, IsSettled(Starts[n])
               PROVE  /\ (note.lists[n].type = Plain) = ~IsMarked(Starts[n])
                      /\ note.lists[n].type.kind = "task" =>
                           note.lists[n].type.status.symbol = LeadText(Starts[n])[2]
                      /\ IsPrefix(LeadRest(Starts[n]), note.lists[n].text)
    BY DEF MarkersAsWritten
  <2>1. DOMAIN Starts = 1..Len(Starts) /\ IsAscending(Starts, Items)
    BY AllEnded
  <2>2. PICK rec : /\ note.lists = [m \in 1..Len(Starts) |-> rec[Starts[m]]]
                   /\ \A t \in Items : Told(t, rec)
    BY AllEnded
  <2>3. note.lists[n] = rec[Starts[n]] /\ Starts[n] \in Items
    BY <2>1, <2>2 DEF IsAscending
  <2>4. Classed(Starts[n], note.lists[n])
    BY <2>2, <2>3 DEF Told
  <2>5. /\ note.lists[n].type = Plain <=> ~IsMarked(Starts[n])
        /\ note.lists[n].type.kind = "task" =>
             note.lists[n].type.status.symbol = LeadText(Starts[n])[2]
        /\ LeadRest(Starts[n]) \in Seq(Characters) /\ Begins(LeadRest(Starts[n]), note.lists[n].text)
    BY <2>4 DEF Classed
  <2>6. IsPrefix(LeadRest(Starts[n]), note.lists[n].text)
    BY <2>5, BeginsIsPrefix
  <2>7. (note.lists[n].type = Plain) = ~IsMarked(Starts[n])
    <3>1. IsMarked(Starts[n]) \in BOOLEAN
      BY DEF IsMarked
    <3> HIDE DEF IsMarked
    <3> QED  BY <2>5, <3>1
  <2> QED  BY <2>5, <2>6, <2>7
<1> QED
  BY <1>1, OutlineInductive, PTL

\* A marked item whose status is no non-task is a task just when the winning file
\* asks for no tags or for one of its own, and a task has the status that file says
\* last of its symbol (MergedList, TaskStatusMap::insert, TaskScan::classify).
THEOREM ItemsAreClassified == Spec => []ClassifiedAsConfigured
<1>1. Outlined => ClassifiedAsConfigured
  <2> SUFFICES ASSUME Outlined, Finished, NEW n \in DOMAIN Starts,
                      NEW item, item = note.lists[n], NEW s, s = Starts[n],
                      NEW status, status = StatusOf(LeadText(s)[2]),
                      NEW filters, filters = Winning("tag_filters"),
                      item.type # Plain, IsSettled(s)
               PROVE  /\ status.kind # "non-task" =>
                           (item.type.kind = "task") =
                             (filters = <<>> \/ ToSet(item.tags) \cap ToSet(filters) # {})
                      /\ item.type.kind = "task" => item.type.status = status
    BY DEF ClassifiedAsConfigured
  <2>1. DOMAIN Starts = 1..Len(Starts) /\ IsAscending(Starts, Items)
    BY AllEnded
  <2>2. PICK rec : /\ note.lists = [m \in 1..Len(Starts) |-> rec[Starts[m]]]
                   /\ \A t \in Items : Told(t, rec)
    BY AllEnded
  <2>3. item = rec[s] /\ s \in Items
    BY <2>1, <2>2 DEF IsAscending
  <2>4. Classed(s, item)
    BY <2>2, <2>3 DEF Told
  <2>5. item.type.kind = "task" <=> filters = <<>> \/ ToSet(item.tags) \cap ToSet(filters) # {}
    BY <2>4 DEF Classed, HasFiltered
  <2>6. item.type.kind = "task" => item.type.status = status
    BY <2>4 DEF Classed
  <2> QED  BY <2>5, <2>6
<1> QED
  BY <1>1, OutlineInductive, PTL

\* What an item and the note have of fields and tags is what their text holds,
\* each stretch of it scanned once and under the item it belongs to, and the
\* note has the tags of its frontmatter as well (flush_scan_buffer,
\* extend_from_flush, NoteParser::into_note).
THEOREM MetadataIsKept == Spec => []MetadataAsWritten
<1>1. Outlined /\ Kept => MetadataAsWritten
  <2> SUFFICES ASSUME Outlined, Kept, Finished PROVE MetadataAsWritten
    BY DEF MetadataAsWritten
  <2>1. Nested /\ DOMAIN Starts = 1..Len(Starts) /\ IsAscending(Starts, Items)
    BY AllEnded
  <2>2. PICK rec : /\ note.lists = [m \in 1..Len(Starts) |-> rec[Starts[m]]]
                   /\ \A t \in Items : Told(t, rec)
    BY AllEnded
  <2>3. ASSUME NEW n \in DOMAIN Starts, IsSettled(Starts[n])
        PROVE  /\ note.lists[n].fields = OfItem(Starts[n]).fields
               /\ note.lists[n].tags = OfItem(Starts[n]).tags
    <3>1. note.lists[n] = rec[Starts[n]] /\ Starts[n] \in Items
      BY <2>1, <2>2 DEF IsAscending
    <3>2. Finds(Starts[n], note.lists[n])
      BY <2>2, <3>1 DEF Told, Classed
    <3> QED  BY <2>3, <3>2 DEF Finds
  <2>4. ASSUME \A s \in Positions("start_item") : IsSettled(s)
        PROVE  /\ note.fields = OfNote.fields
               /\ note.tags = OfNote.tags \o FrontmatterTags(OfNote.entries, config.values["tags"])
    <3>1. at = Len(Events) + 1 /\ input \in Inputs
      BY DEF Outlined, Finished
    <3>2. AllSettled
      BY <2>4 DEF AllSettled, Items
    <3>3. fields = OfNote.fields /\ tags = OfNote.tags
      BY <3>1, <3>2 DEF Kept, Gathers, OfNote
    <3>4. frontmatter = OfNote.entries
      BY <2>1, <3>1, FrontmatterIs DEF Kept
    <3>5. note.fields = fields /\ note.tags = tags \o FrontmatterTags(frontmatter, config.values["tags"])
      BY DEF Kept, Noted, Finished
    <3> QED  BY <3>3, <3>4, <3>5
  <2> QED  BY <2>3, <2>4 DEF MetadataAsWritten
<1> QED
  BY <1>1, OutlineInductive, PTL
================================================================================
